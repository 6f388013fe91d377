-------------------------- MODULE SyncTurnsProofs ---------------------------
(***************************************************************************)
(* Theorems about SyncTurns, for any number of callers, scripts, servers   *)
(* and gap limits, and any bounds; and about Updates, which shares its     *)
(* run: what the app asks on its own and what it announces, for any calls, *)
(* clocks, versions and answers.                                           *)
(***************************************************************************)
EXTENDS SyncTurns, Updates, TLAPS

\* What a running sync carries of its caller's request.
RunInv ==
  \A r \in Callers :
    /\ pc[r] \in Running =>
         /\ run[r].started <= clock
         /\ run[r].base <= chain
         /\ run[r].base >= call[r].since
         /\ \A c \in Callers :
              run[r].started > call[c].arrived => run[r].base >= call[c].since
    /\ pc[r] \in {"plan", "read", "apply"} => Enough(run[r].reach, call[r].asked)
    /\ pc[r] \in {"read", "apply"} =>
         run[r].known = wallet.seen /\ Enough(run[r].plan, call[r].asked)
    /\ pc[r] = "apply" => /\ run[r].seen >= run[r].base
                          /\ run[r].seen >= wallet.seen
                          /\ run[r].seen <= chain

\* What a caller came with is no later than now.
CallInv ==
  \A c \in Callers : call[c].arrived <= clock /\ call[c].since <= chain

\* The last sync saw all that came before any caller it may be handed to.
LastInv ==
  \A l \in last :
    /\ l.started <= clock
    /\ \A c \in Callers :
         l.started > call[c].arrived => l.seen >= call[c].since

\* Only changes the wallet holds were listed.
ListInv ==
  /\ wallet.seen <= chain
  /\ \A c \in Callers : \A k \in result[c].listed : k <= wallet.seen

Inv ==
  /\ TypeOK /\ OneAtATime /\ RunInv /\ CallInv /\ LastInv /\ ListInv
  /\ Fresh /\ ListedOnce

-----------------------------------------------------------------------------
\* The ranks of reaches are the numbers 0 to 3.
LEMMA RankType == \A r \in Reach : Rank(r) \in 0..3
BY DEF Rank, Reach, Kinds

\* A reach without scripts of its own is a reach.
LEMMA AllType == \A k \in Kinds : All(k) \in Reach
BY DEF All, Reach

\* What callers ask for is a reach.
LEMMA AsksReach == Asks \subseteq Reach
BY DEF Asks

\* A read that covers a request is enough for it.
LEMMA CoversEnough ==
  ASSUME NEW read \in Reach, NEW asked \in Reach, Covers(read, asked)
  PROVE  Enough(read, asked)
BY RankType DEF Covers, Enough, Reads, Rank, Reach, Kinds, Scripts

\* A full scan is enough for any request.
LEMMA FullEnough ==
  ASSUME NEW asked \in Reach
  PROVE  Enough(All("Full"), asked)
BY DEF Enough, Reads, Rank, All, Reach, Kinds, Scripts

\* The reach a sync raises its request to reads at least as much.
LEMMA RaisedEnough ==
  ASSUME NEW asked \in Reach
  PROVE  Raised(asked) \in Reach /\ Enough(Raised(asked), asked)
<1>1. All("Full") \in Reach /\ All("Complete") \in Reach
  BY AllType DEF Kinds
<1>2. Rank(asked) < Rank(All("Complete")) => Enough(All("Complete"), asked)
  BY DEF Enough, Reads, Rank, All, Reach, Kinds, Scripts
<1>3. Enough(asked, asked)
  BY RankType DEF Enough, Reads, Reach, Kinds
<1> QED BY <1>1, <1>2, <1>3, FullEnough DEF Raised

\* What a plan makes of a reach reads at least as much.
LEMMA PlannedEnough ==
  ASSUME NEW reach \in Reach, NEW asked \in Reach, NEW pending \in SUBSET Revealed,
         Enough(reach, asked)
  PROVE  Planned(reach, pending) \in Reach /\ Enough(Planned(reach, pending), asked)
<1>1. All("Full") \in Reach /\ All("Checked") \in Reach
  BY AllType DEF Kinds
<1>2. [kind |-> "Scripts", scripts |-> pending] \in Reach
  BY DEF Reach, Kinds, Scripts
<1>3. ASSUME reach.kind = "Pending"
      PROVE  asked.kind \in {"Scripts", "Pending"} /\ Reads(asked) \ Change = {}
  BY <1>3 DEF Enough, Reads, Rank, Reach, Kinds
<1>4. reach.kind = "Pending" =>
        /\ Enough(All("Checked"), asked)
        /\ Enough([kind |-> "Scripts", scripts |-> pending], asked)
  BY <1>3 DEF Enough
<1> QED BY <1>1, <1>2, <1>4, FullEnough DEF Planned

-----------------------------------------------------------------------------
\* The initial states.
LEMMA InitInv == Init => Inv
<1> SUFFICES ASSUME Init PROVE Inv
  OBVIOUS
<1> USE TurnsAssumption
<1>1. TypeOK
  <2>1. All("Checked") \in Reach
    BY AllType DEF Kinds
  <2> QED BY <2>1 DEF Init, TypeOK, WalletState, Call, Run, Result, NoCall,
            NoRun, NoResult, PCs, Running
<1>2. OneAtATime /\ Fresh /\ RunInv
  BY DEF Init, OneAtATime, Fresh, RunInv, Running
<1>3. CallInv /\ LastInv /\ ListInv /\ ListedOnce
  BY DEF Init, CallInv, LastInv, ListInv, ListedOnce, NoCall, NoResult
<1> QED BY <1>1, <1>2, <1>3 DEF Inv

-----------------------------------------------------------------------------
\* Every step keeps the types.
LEMMA TypeStep == TypeOK /\ [Next]_vars => TypeOK'
<1> SUFFICES ASSUME TypeOK, [Next]_vars PROVE TypeOK'
  OBVIOUS
<1> USE TurnsAssumption
<1>1. All("Checked") \in Reach
  BY AllType DEF Kinds
<1>2. NoCall \in Call /\ NoRun \in Run
  BY <1>1 DEF NoCall, NoRun, Call, Run
<1>3. CASE Tick \/ ChainMoves \/ DayPasses \/ RemoveWallet
  BY <1>3 DEF Tick, ChainMoves, DayPasses, RemoveWallet, TypeOK, callerVars
<1>4. CASE SetGapLimit
  BY <1>4 DEF SetGapLimit, TypeOK, callerVars, Call
<1>5. ASSUME NEW c \in Callers, NEW asked \in Asks, Arrive(c, asked)
      PROVE  TypeOK'
  BY <1>5, AsksReach DEF Arrive, TypeOK, worldVars, Call, PCs
<1>6. ASSUME NEW c \in Callers, Share(c) PROVE TypeOK'
  BY <1>6 DEF Share, Shared, TypeOK, worldVars, Result, LastSync, PCs
<1>7. ASSUME NEW c \in Callers, Begin(c) PROVE TypeOK'
  BY <1>7, <1>2 DEF Begin, TypeOK, worldVars, Run, PCs, Running
<1>8. ASSUME NEW c \in Callers, Snapshot(c) PROVE TypeOK'
  <2>1. Raised(call[c].asked) \in Reach
    BY RaisedEnough DEF TypeOK, Call
  <2>2. [run[c] EXCEPT !.gap = gap, !.reach = Raised(call[c].asked)] \in Run
    BY <2>1 DEF TypeOK, Run
  <2> QED BY <1>8, <2>2 DEF Snapshot, TypeOK, worldVars, PCs, Running
<1>9. ASSUME NEW c \in Callers, Plan(c) PROVE TypeOK'
  <2>1. \A pending \in SUBSET Revealed : Planned(run[c].reach, pending) \in Reach
    BY AllType DEF Planned, TypeOK, Run, Reach, Kinds, Scripts
  <2>2. \A pending \in SUBSET Revealed :
          [run[c] EXCEPT !.plan = Planned(run[c].reach, pending),
                         !.known = wallet.seen] \in Run
    BY <2>1, ZenonT(40) DEF TypeOK, Run, WalletState
  <2>3. PICK pending \in SUBSET Revealed :
          run' = [run EXCEPT ![c] = [run[c] EXCEPT
                    !.plan = Planned(run[c].reach, pending),
                    !.known = wallet.seen]]
    BY <1>9 DEF Plan, TypeOK
  <2>4. run' \in [Callers -> Run]
    BY <2>2, <2>3 DEF TypeOK
  <2> QED BY <1>9, <2>4 DEF Plan, TypeOK, worldVars, PCs, Running
<1>10. ASSUME NEW c \in Callers, Read(c) PROVE TypeOK'
  <2>1. \A whole \in BOOLEAN :
          [run[c] EXCEPT !.seen = chain, !.whole = whole] \in Run
    BY DEF TypeOK, Run
  <2> QED BY <1>10, <2>1, ZenonT(40) DEF Read, TypeOK, worldVars, PCs, Running
<1>11. ASSUME NEW c \in Callers, Retry(c) PROVE TypeOK'
  BY <1>11 DEF Retry, TypeOK, worldVars, Run, PCs, Running
<1>12. ASSUME NEW c \in Callers
       PROVE  WalletAfter(c) \in WalletState
  <2>1. run[c] \in Run /\ wallet \in WalletState
    BY DEF TypeOK
  <2> QED BY <2>1 DEF WalletAfter, WalletState, Run
<1>13. ASSUME NEW c \in Callers, Apply(c) PROVE TypeOK'
  <2>1. run[c] \in Run
    BY DEF TypeOK
  <2>2. ((run[c].known + 1)..run[c].seen) \in SUBSET Nat
    BY <2>1 DEF Run
  <2>3. result' \in [Callers -> Result]
    BY <1>13, <2>1, <2>2 DEF Apply, TypeOK, Result, Run
  <2>4. last' \subseteq LastSync
    BY <1>13, <2>1 DEF Apply, LastSync, Run
  <2>5. wallet' \in WalletState
    BY <1>13, <1>12 DEF Apply
  <2> QED BY <1>13, <1>2, <2>3, <2>4, <2>5 DEF Apply, TypeOK, worldVars, PCs
<1>14. ASSUME NEW c \in Callers, SaveFails(c) PROVE TypeOK'
  BY <1>14, <1>12, <1>2 DEF SaveFails, Drop, TypeOK, worldVars, PCs
<1>15. ASSUME NEW c \in Callers, Fail(c) PROVE TypeOK'
  BY <1>15, <1>2 DEF Fail, Drop, TypeOK, worldVars, PCs
<1>16. ASSUME NEW c \in Callers, Cancel(c) \/ Return(c) PROVE TypeOK'
  BY <1>16, <1>2 DEF Cancel, Return, Drop, TypeOK, worldVars, PCs
<1>17. CASE UNCHANGED vars
  BY <1>17 DEF vars, TypeOK
<1> QED
  BY <1>3, <1>4, <1>5, <1>6, <1>7, <1>8, <1>9, <1>10, <1>11, <1>13, <1>14,
     <1>15, <1>16, <1>17 DEF Next, Step

-----------------------------------------------------------------------------
\* Every step keeps the rest of the invariant, one action at a time.
Facts == OneAtATime /\ RunInv /\ CallInv /\ LastInv /\ ListInv /\ Fresh /\ ListedOnce

\* The clock, the chain, the days and the removal of the wallet disturb none of it.
LEMMA WorldStep ==
  ASSUME Inv, TypeOK', Tick \/ ChainMoves \/ DayPasses \/ RemoveWallet
  PROVE  Facts'
<1>1. clock' >= clock /\ chain' >= chain
  BY DEF Inv, TypeOK, Tick, ChainMoves, DayPasses, RemoveWallet
<1>2. UNCHANGED <<wallet, call, callerVars>>
  BY DEF Tick, ChainMoves, DayPasses, RemoveWallet
<1>3. OneAtATime' /\ Fresh' /\ ListedOnce'
  BY <1>2 DEF Inv, OneAtATime, Fresh, ListedOnce, callerVars
<1>4. RunInv' /\ CallInv'
  BY <1>1, <1>2 DEF Inv, TypeOK, RunInv, CallInv, Run, Call, callerVars
<1>5. LastInv' /\ ListInv'
  BY <1>1, <1>2 DEF Inv, TypeOK, LastInv, ListInv, LastSync, WalletState,
     callerVars
<1> QED BY <1>3, <1>4, <1>5 DEF Facts

\* A new gap limit disturbs none of it.
LEMMA GapStep ==
  ASSUME Inv, SetGapLimit
  PROVE  Facts'
<1>1. \A c \in Callers : /\ call'[c].arrived = call[c].arrived
                         /\ call'[c].since = call[c].since
                         /\ call'[c].asked = call[c].asked
  BY DEF Inv, TypeOK, SetGapLimit, Call
<1>2. UNCHANGED <<clock, chain, wallet, callerVars>>
  BY DEF SetGapLimit
<1>3. OneAtATime' /\ ListedOnce' /\ ListInv'
  BY <1>2 DEF Inv, OneAtATime, ListedOnce, ListInv, callerVars
<1>4. Fresh' /\ RunInv' /\ CallInv' /\ LastInv'
  BY <1>1, <1>2 DEF Inv, Fresh, RunInv, CallInv, LastInv, callerVars
<1> QED BY <1>3, <1>4 DEF Facts

\* A caller that arrives asks after everything that happened before.
LEMMA ArriveStep ==
  ASSUME Inv, NEW c \in Callers, NEW asked \in Asks, Arrive(c, asked)
  PROVE  Facts'
<1>1. /\ call'[c].arrived = clock /\ call'[c].since = chain
      /\ \A d \in Callers \ {c} : call'[d] = call[d]
  BY DEF Inv, TypeOK, Arrive
<1>2. /\ pc'[c] = "waiting" /\ \A d \in Callers \ {c} : pc'[d] = pc[d]
      /\ pc[c] = "idle"
  BY DEF Inv, TypeOK, Arrive
<1>3. UNCHANGED <<worldVars, wallet, holder, last, run, result>>
  BY DEF Arrive
<1>4. OneAtATime' /\ ListedOnce' /\ ListInv'
  BY <1>2, <1>3 DEF Inv, OneAtATime, ListedOnce, ListInv, Running, worldVars
<1>5. Fresh' /\ CallInv'
  BY <1>1, <1>2, <1>3 DEF Inv, TypeOK, Fresh, CallInv, worldVars
<1>6. RunInv'
  BY <1>1, <1>2, <1>3 DEF Inv, TypeOK, RunInv, Run, Running, worldVars
<1>7. LastInv'
  BY <1>1, <1>3 DEF Inv, TypeOK, LastInv, LastSync, worldVars
<1> QED BY <1>4, <1>5, <1>6, <1>7 DEF Facts

\* A result that is shared is as fresh as the sync it comes from.
LEMMA ShareStep ==
  ASSUME Inv, NEW c \in Callers, Share(c)
  PROVE  Facts'
<1>1. PICK l \in Shared(c) :
        result' = [result EXCEPT ![c] = [seen |-> l.seen, read |-> l.read,
                                         listed |-> {}, whole |-> l.whole]]
  BY DEF Share
<1>2. /\ pc'[c] = "done" /\ \A d \in Callers \ {c} : pc'[d] = pc[d]
      /\ pc[c] = "waiting"
  BY DEF Inv, TypeOK, Share, MyTurn
<1>3. UNCHANGED <<worldVars, wallet, holder, last, run, call>>
  BY DEF Share
<1>4. /\ result'[c].seen = l.seen /\ result'[c].read = l.read
      /\ result'[c].listed = {}
      /\ \A d \in Callers \ {c} : result'[d] = result[d]
  BY <1>1 DEF Inv, TypeOK
<1>5. OneAtATime' /\ RunInv' /\ CallInv' /\ LastInv'
  BY <1>2, <1>3 DEF Inv, OneAtATime, RunInv, CallInv, LastInv, Running,
     worldVars
<1>6. ListedOnce' /\ ListInv'
  BY <1>3, <1>4 DEF Inv, ListedOnce, ListInv, worldVars
<1>7. l.seen >= call[c].since /\ Enough(l.read, call[c].asked)
  <2>1. l \in LastSync /\ call[c] \in Call
    BY DEF Inv, TypeOK, Shared
  <2> QED BY <2>1, CoversEnough DEF Inv, LastInv, Shared, LastSync, Call
<1>8. Fresh'
  BY <1>2, <1>3, <1>4, <1>7 DEF Inv, Fresh
<1> QED BY <1>5, <1>6, <1>8 DEF Facts

\* A sync that begins starts after its caller arrived.
LEMMA BeginStep ==
  ASSUME Inv, NEW c \in Callers, Begin(c)
  PROVE  Facts'
<1>1. /\ pc'[c] = "turn" /\ \A d \in Callers \ {c} : pc'[d] = pc[d]
      /\ pc[c] = "waiting" /\ holder = NONE /\ holder' = c
  BY DEF Inv, TypeOK, Begin, MyTurn
<1>2. /\ run'[c].started = clock /\ run'[c].base = chain
      /\ \A d \in Callers \ {c} : run'[d] = run[d]
  BY DEF Inv, TypeOK, Begin, NoRun
<1>3. UNCHANGED <<worldVars, wallet, last, call, result>>
  BY DEF Begin
<1>4. OneAtATime'
  BY <1>1, TurnsAssumption DEF Inv, OneAtATime, Running
<1>5. CallInv' /\ LastInv' /\ ListInv' /\ ListedOnce' /\ Fresh'
  BY <1>1, <1>3 DEF Inv, CallInv, LastInv, ListInv, ListedOnce, Fresh,
     worldVars
<1>6. RunInv'
  BY <1>1, <1>2, <1>3 DEF Inv, TypeOK, RunInv, CallInv, Call, Running,
     worldVars
<1> QED BY <1>4, <1>5, <1>6 DEF Facts

\* The steps of a sync that only change what it works on.
LEMMA SnapshotStep ==
  ASSUME Inv, NEW c \in Callers, Snapshot(c)
  PROVE  Facts'
<1>1. /\ pc'[c] = "plan" /\ \A d \in Callers \ {c} : pc'[d] = pc[d]
      /\ pc[c] = "turn"
  BY DEF Inv, TypeOK, Snapshot
<1>2. /\ run'[c].started = run[c].started /\ run'[c].base = run[c].base
      /\ run'[c].reach = Raised(call[c].asked)
      /\ \A d \in Callers \ {c} : run'[d] = run[d]
  BY DEF Inv, TypeOK, Snapshot, Run
<1>3. UNCHANGED <<worldVars, wallet, holder, last, call, result>>
  BY DEF Snapshot
<1>4. Enough(run'[c].reach, call[c].asked)
  BY <1>2, RaisedEnough DEF Inv, TypeOK, Call
<1>5. OneAtATime' /\ CallInv' /\ LastInv' /\ ListInv' /\ ListedOnce' /\ Fresh'
  BY <1>1, <1>3 DEF Inv, OneAtATime, CallInv, LastInv, ListInv, ListedOnce,
                    Fresh, Running, worldVars
<1>6. RunInv'
  BY <1>1, <1>2, <1>3, <1>4 DEF Inv, RunInv, Running, worldVars
<1> QED BY <1>5, <1>6 DEF Facts

\* A plan reads at least what its caller asked for.
LEMMA PlanStep ==
  ASSUME Inv, NEW c \in Callers, Plan(c)
  PROVE  Facts'
<1>1. /\ pc'[c] = "read" /\ \A d \in Callers \ {c} : pc'[d] = pc[d]
      /\ pc[c] = "plan"
  BY DEF Inv, TypeOK, Plan
<1>2. PICK pending \in SUBSET Revealed :
        run' = [run EXCEPT ![c] = [run[c] EXCEPT
                  !.plan = Planned(run[c].reach, pending),
                  !.known = wallet.seen]]
  BY DEF Plan, Inv, TypeOK
<1>3. /\ run'[c].started = run[c].started /\ run'[c].base = run[c].base
      /\ run'[c].plan = Planned(run[c].reach, pending)
      /\ run'[c].reach = run[c].reach
      /\ run'[c].known = wallet.seen
      /\ \A d \in Callers \ {c} : run'[d] = run[d]
  BY <1>2 DEF Inv, TypeOK, Run
<1>4. UNCHANGED <<worldVars, wallet, holder, last, call, result>>
  BY DEF Plan
<1>5. Enough(run'[c].plan, call[c].asked)
  BY <1>1, <1>3, PlannedEnough DEF Inv, TypeOK, RunInv, Run, Call
<1>6. OneAtATime' /\ CallInv' /\ LastInv' /\ ListInv' /\ ListedOnce' /\ Fresh'
  BY <1>1, <1>4 DEF Inv, OneAtATime, CallInv, LastInv, ListInv, ListedOnce,
                    Fresh, Running, worldVars
<1>7. RunInv'
  BY <1>1, <1>3, <1>4, <1>5 DEF Inv, RunInv, Running, worldVars
<1> QED BY <1>6, <1>7 DEF Facts

\* A read sees every change made until then.
LEMMA ReadStep ==
  ASSUME Inv, NEW c \in Callers, Read(c)
  PROVE  Facts'
<1>1. /\ pc'[c] = "apply" /\ \A d \in Callers \ {c} : pc'[d] = pc[d]
      /\ pc[c] = "read"
  BY DEF Inv, TypeOK, Read
<1>2. PICK whole \in BOOLEAN :
        run' = [run EXCEPT ![c] = [run[c] EXCEPT !.seen = chain, !.whole = whole]]
  BY DEF Read, Inv, TypeOK
<1>3. /\ run'[c].started = run[c].started /\ run'[c].base = run[c].base
      /\ run'[c].reach = run[c].reach /\ run'[c].plan = run[c].plan
      /\ run'[c].known = run[c].known
      /\ run'[c].seen = chain
      /\ \A d \in Callers \ {c} : run'[d] = run[d]
  BY <1>2 DEF Inv, TypeOK, Run
<1>4. UNCHANGED <<worldVars, wallet, holder, last, call, result>>
  BY DEF Read
<1>5. OneAtATime' /\ CallInv' /\ LastInv' /\ ListInv' /\ ListedOnce' /\ Fresh'
  BY <1>1, <1>4 DEF Inv, OneAtATime, CallInv, LastInv, ListInv, ListedOnce,
                    Fresh, Running, worldVars
<1>6. RunInv'
  BY <1>1, <1>3, <1>4 DEF Inv, TypeOK, RunInv, ListInv, Running, worldVars
<1> QED BY <1>5, <1>6 DEF Facts

\* Another server is asked from the plan on.
LEMMA RetryStep ==
  ASSUME Inv, NEW c \in Callers, Retry(c)
  PROVE  Facts'
<1>1. /\ pc'[c] = "plan" /\ \A d \in Callers \ {c} : pc'[d] = pc[d]
      /\ pc[c] = "read"
  BY DEF Inv, TypeOK, Retry
<1>2. /\ run'[c].started = run[c].started /\ run'[c].base = run[c].base
      /\ run'[c].reach = run[c].reach
      /\ \A d \in Callers \ {c} : run'[d] = run[d]
  BY DEF Inv, TypeOK, Retry, Run
<1>3. UNCHANGED <<worldVars, wallet, holder, last, call, result>>
  BY DEF Retry
<1>4. OneAtATime' /\ CallInv' /\ LastInv' /\ ListInv' /\ ListedOnce' /\ Fresh'
  BY <1>1, <1>3 DEF Inv, OneAtATime, CallInv, LastInv, ListInv, ListedOnce,
                    Fresh, Running, worldVars
<1>5. RunInv'
  BY <1>1, <1>2, <1>3 DEF Inv, RunInv, Running, worldVars
<1> QED BY <1>4, <1>5 DEF Facts

\* The steps that end a turn.
LEMMA ApplyStep ==
  ASSUME Inv, NEW c \in Callers, Apply(c)
  PROVE  Facts'
<1>1. /\ pc'[c] = "done" /\ \A d \in Callers \ {c} : pc'[d] = pc[d]
      /\ pc[c] = "apply" /\ holder = c /\ holder' = NONE
  BY DEF Inv, TypeOK, Apply, OneAtATime, Running
<1>2. \A d \in Callers \ {c} : pc[d] \notin Running
  BY <1>1 DEF Inv, OneAtATime
<1>3. /\ UNCHANGED <<worldVars, call>>
      /\ \A d \in Callers \ {c} : run'[d] = run[d]
  BY DEF Inv, TypeOK, Apply
<1>4. wallet'.seen = run[c].seen
  BY DEF Apply, WalletAfter
<1>5. /\ result'[c].seen = run[c].seen /\ result'[c].read = run[c].plan
      /\ result'[c].listed = (run[c].known + 1)..run[c].seen
      /\ \A d \in Callers \ {c} : result'[d] = result[d]
  BY DEF Inv, TypeOK, Apply
<1>6. \A l \in last' : l.started = run[c].started /\ l.seen = run[c].seen
  BY DEF Apply
<1>7. OneAtATime'
  BY <1>1, <1>2, TurnsAssumption DEF Running, OneAtATime
<1>8. RunInv' /\ CallInv'
  BY <1>1, <1>2, <1>3 DEF Inv, RunInv, CallInv, Running, worldVars
<1>9. LastInv'
  BY <1>1, <1>3, <1>6 DEF Inv, TypeOK, LastInv, RunInv, Running, Run, Call,
     worldVars
<1>10. /\ run[c].seen \in Nat /\ run[c].base \in Nat /\ run[c].known \in Nat
       /\ call[c].since \in Nat /\ wallet.seen \in Nat /\ chain \in Nat
       /\ \A d \in Callers : result[d].listed \subseteq Nat
  BY DEF Inv, TypeOK, Run, Call, Result, WalletState
<1>11. /\ run[c].known = wallet.seen /\ run[c].seen >= wallet.seen
       /\ run[c].seen <= chain /\ run[c].seen >= run[c].base
       /\ run[c].base >= call[c].since /\ Enough(run[c].plan, call[c].asked)
  BY <1>1 DEF Inv, RunInv, Running
<1>12. Fresh'
  <2>1. run[c].seen >= call[c].since
    BY <1>10, <1>11
  <2>2. ASSUME NEW d \in Callers, pc'[d] = "done"
        PROVE  /\ result'[d].seen >= call'[d].since
               /\ Enough(result'[d].read, call'[d].asked)
    <3>1. CASE d = c
      BY <1>3, <1>5, <1>11, <2>1, <3>1
    <3>2. CASE d # c
      BY <1>1, <1>3, <1>5, <2>2, <3>2 DEF Inv, Fresh, Enough
    <3> QED BY <3>1, <3>2
  <2> QED BY <2>2 DEF Fresh, Enough
<1>13. ListInv'
  <2>1. wallet'.seen <= chain'
    BY <1>3, <1>4, <1>11 DEF worldVars
  <2>2. ASSUME NEW d \in Callers, NEW k \in result'[d].listed
        PROVE  k <= wallet'.seen
    <3>1. CASE d = c
      BY <1>4, <1>5, <1>10, <2>2, <3>1
    <3>2. CASE d # c
      <4>1. k \in Nat /\ k <= wallet.seen
        BY <1>5, <1>10, <2>2, <3>2 DEF Inv, ListInv
      <4> QED BY <1>4, <1>10, <1>11, <4>1
    <3> QED BY <3>1, <3>2
  <2> QED BY <2>1, <2>2 DEF ListInv
<1>14. ListedOnce'
  <2>1. ASSUME NEW d \in Callers \ {c}, NEW k \in result[d].listed
        PROVE  k \notin result'[c].listed
    <3>1. k \in Nat /\ k <= wallet.seen
      BY <1>10, <2>1 DEF Inv, ListInv
    <3> QED BY <1>5, <1>10, <1>11, <3>1
  <2>2. ASSUME NEW d \in Callers, NEW e \in Callers, d # e
        PROVE  result'[d].listed \cap result'[e].listed = {}
    <3>1. CASE d = c
      BY <1>5, <2>1, <2>2, <3>1
    <3>2. CASE e = c
      BY <1>5, <2>1, <2>2, <3>2
    <3>3. CASE d # c /\ e # c
      BY <1>5, <2>2, <3>3 DEF Inv, ListedOnce
    <3> QED BY <3>1, <3>2, <3>3
  <2> QED BY <2>2 DEF ListedOnce
<1> QED BY <1>7, <1>8, <1>9, <1>12, <1>13, <1>14 DEF Facts

\* A save that fails hands out no result.
LEMMA SaveFailsStep ==
  ASSUME Inv, NEW c \in Callers, SaveFails(c)
  PROVE  Facts'
<1>1. /\ pc'[c] = "idle" /\ \A d \in Callers \ {c} : pc'[d] = pc[d]
      /\ pc[c] = "apply" /\ holder = c /\ holder' = NONE
  BY DEF Inv, TypeOK, SaveFails, Drop, OneAtATime, Running
<1>2. \A d \in Callers \ {c} : pc[d] \notin Running
  BY <1>1 DEF Inv, OneAtATime
<1>3. /\ call'[c].arrived = 0 /\ call'[c].since = 0
      /\ \A d \in Callers \ {c} : call'[d] = call[d] /\ run'[d] = run[d]
      /\ UNCHANGED <<worldVars, last, result>>
  BY DEF Inv, TypeOK, SaveFails, Drop, NoCall
<1>4. wallet'.seen = run[c].seen
  BY DEF SaveFails, WalletAfter
<1>5. run[c].seen >= wallet.seen /\ run[c].seen <= chain
  BY <1>1 DEF Inv, RunInv
<1>6. OneAtATime'
  BY <1>1, <1>2, TurnsAssumption DEF Running, OneAtATime
<1>7. RunInv' /\ Fresh' /\ ListedOnce'
  BY <1>1, <1>2, <1>3 DEF Inv, RunInv, Fresh, ListedOnce, Running, worldVars
<1>8. CallInv'
  BY <1>3 DEF Inv, TypeOK, CallInv, worldVars
<1>9. LastInv'
  BY <1>3 DEF Inv, TypeOK, LastInv, LastSync, worldVars
<1>10. ListInv'
  BY <1>3, <1>4, <1>5 DEF Inv, TypeOK, ListInv, Run, Result, WalletState,
     worldVars
<1> QED BY <1>6, <1>7, <1>8, <1>9, <1>10 DEF Facts

\* A call that fails, is cancelled or returns leaves nothing behind.
LEMMA DropStep ==
  ASSUME Inv, NEW c \in Callers, Cancel(c) \/ Return(c) \/ Fail(c)
  PROVE  Facts'
<1>1. /\ pc'[c] = "idle" /\ \A d \in Callers \ {c} : pc'[d] = pc[d]
  BY DEF Inv, TypeOK, Cancel, Return, Fail, Drop
<1>2. /\ call'[c].arrived = 0 /\ call'[c].since = 0
      /\ \A d \in Callers \ {c} : call'[d] = call[d]
      /\ \A d \in Callers \ {c} : run'[d] = run[d]
  BY DEF Inv, TypeOK, Cancel, Return, Fail, Drop, NoCall
<1>3. UNCHANGED <<worldVars, wallet, last, result>>
  BY DEF Cancel, Return, Fail
<1>4. OneAtATime'
  BY <1>1, TurnsAssumption DEF Inv, OneAtATime, Cancel, Return, Fail, Running
<1>5. ListInv' /\ ListedOnce' /\ Fresh'
  BY <1>1, <1>2, <1>3 DEF Inv, ListInv, ListedOnce, Fresh, worldVars
<1>6. CallInv'
  BY <1>2, <1>3 DEF Inv, TypeOK, CallInv, worldVars
<1>7. RunInv'
  BY <1>1, <1>2, <1>3, SMTT(30) DEF Inv, TypeOK, RunInv, Run, Running, worldVars
<1>8. LastInv'
  BY <1>2, <1>3 DEF Inv, TypeOK, LastInv, LastSync, worldVars
<1> QED BY <1>4, <1>5, <1>6, <1>7, <1>8 DEF Facts

\* A step that changes nothing preserves the facts.
LEMMA StutterStep ==
  ASSUME Inv, UNCHANGED vars
  PROVE  Facts'
BY DEF Inv, Facts, vars, OneAtATime, RunInv, CallInv, LastInv, ListInv, Fresh,
       ListedOnce

\* Every step preserves the inductive invariant.
LEMMA NextInv == Inv /\ [Next]_vars => Inv'
<1> SUFFICES ASSUME Inv, [Next]_vars PROVE Inv'
  OBVIOUS
<1>1. TypeOK'
  BY TypeStep DEF Inv
<1>2. Facts'
  BY <1>1, WorldStep, GapStep, ArriveStep, ShareStep, BeginStep, SnapshotStep,
     PlanStep, ReadStep, RetryStep, ApplyStep, SaveFailsStep, DropStep, StutterStep DEF Next, Step
<1> QED BY <1>1, <1>2 DEF Inv, Facts

\* Inv is an invariant of the turns.
THEOREM Invariance == Spec => []Inv
<1>1. Init => Inv
  BY InitInv
<1>2. Inv /\ [Next]_vars => Inv'
  BY NextInv
<1> QED BY <1>1, <1>2, PTL DEF Spec

-----------------------------------------------------------------------------
\* The turns are well typed (the slots and the callers of sync_wallet_read).
THEOREM TypeCorrect == Spec => []TypeOK
<1>1. Inv => TypeOK
  BY DEF Inv
<1> QED BY <1>1, Invariance, PTL

\* Whoever gets a result, its own or a shared one, gets one that saw every
\* change that came before it asked and read what it asked for; and no
\* change is listed as new to two callers (sync_wallet_read).
THEOREM ResultsHold == Spec => []ResultsInv
<1>1. Inv => ResultsInv
  BY DEF Inv, ResultsInv
<1> QED BY <1>1, Invariance, PTL

\* One sync of a wallet at a time, whoever is cancelled.
THEOREM MutualExclusion == Spec => []OneAtATime
<1>1. Inv => OneAtATime
  BY DEF Inv
<1> QED BY <1>1, Invariance, PTL

\* No sync applies what it read before another one did: what the wallet
\* holds never goes back.
THEOREM WalletNeverGoesBack == Spec => NeverGoesBack
<1>1. Inv /\ [Next]_vars => [wallet'.seen >= wallet.seen]_wallet
  <2> SUFFICES ASSUME Inv, [Next]_vars, wallet' # wallet
               PROVE  wallet'.seen >= wallet.seen
    OBVIOUS
  <2>1. PICK c \in Callers : Apply(c) \/ SaveFails(c)
    BY DEF Next, Step, Tick, ChainMoves, DayPasses, SetGapLimit, RemoveWallet,
           Arrive, Share, Begin, Snapshot, Plan, Read, Retry, Fail, Cancel,
           Return, vars
  <2>2. pc[c] = "apply" /\ wallet'.seen = run[c].seen
    BY <2>1 DEF Apply, SaveFails, WalletAfter
  <2> QED BY <2>2 DEF Inv, RunInv
<1> QED BY <1>1, Invariance, PTL DEF Spec, NeverGoesBack

-----------------------------------------------------------------------------
(***************************************************************************)
(* How deep the wallet is scanned.  Every sync compares the gap limit with *)
(* the one it recorded (Raised), and a full scan may record less than what *)
(* an earlier one did, the limit having been lowered: what a caller was    *)
(* told stays true because no sync that ends after it came began with a    *)
(* limit below the least one set since.                                    *)
(***************************************************************************)
\* What a sync, the last one and a result know of the depth, against the
\* gap limits set since each caller came.
GapInv ==
  /\ wallet.scan_gap = wallet.depth
  /\ \A c \in Callers : call[c].low <= gap
  /\ \A r \in Callers :
       /\ pc[r] \in Running => \A l \in last : l.started <= run[r].started
       /\ pc[r] \in {"plan", "read", "apply"} =>
            /\ run[r].gap >= call[r].low
            /\ \A c \in Callers :
                 (pc[c] = "done" \/ run[r].started > call[c].arrived) =>
                   run[r].gap >= call[c].low
            /\ run[r].reach.kind # "Full" => wallet.depth >= run[r].gap
       /\ pc[r] \in {"read", "apply"} /\ run[r].plan.kind # "Full" =>
            wallet.depth >= run[r].gap
  /\ \A l \in last : l.whole => \A c \in Callers :
       l.started > call[c].arrived => wallet.depth >= call[c].low
  /\ GapScanned

\* A sync that read the wallet whole leaves it as deep as the limit it began
\* with: a full scan makes it so, and no less was planned but where it was
\* already (finish_sync).
LEMMA WholeDepth ==
  ASSUME TypeOK, GapInv, NEW c \in Callers, pc[c] = "apply",
         wallet' = WalletAfter(c)
  PROVE  /\ wallet'.scan_gap = wallet'.depth
         /\ wallet'.depth = wallet.depth \/ wallet'.depth = run[c].gap
         /\ run[c].whole => wallet'.depth >= run[c].gap
<1>1. run[c].gap \in Nat /\ run[c].whole \in BOOLEAN
  BY DEF TypeOK, Run
<1>2. run[c].plan.kind # "Full" => wallet.depth >= run[c].gap
  BY DEF GapInv
<1>3. wallet.scan_gap = wallet.depth
  BY DEF GapInv
<1> QED BY <1>1, <1>2, <1>3 DEF WalletAfter, FullScan

\* No step of any caller leaves a wallet less deep than a result said.
LEMMA GapDepth == Inv /\ GapInv /\ [Next]_vars => GapInv'
<1> SUFFICES ASSUME Inv, GapInv, [Next]_vars PROVE GapInv'
  OBVIOUS
<1>1. TypeOK /\ OneAtATime /\ RunInv /\ CallInv /\ LastInv
  BY DEF Inv
<1>2. gap \in Nat /\ \A g \in Gaps : g \in Nat
  BY <1>1, TurnsAssumption DEF TypeOK
<1> USE <1>1, <1>2, TurnsAssumption DEF TypeOK, GapInv, GapScanned
<1>3. CASE Tick \/ ChainMoves \/ DayPasses \/ RemoveWallet
  BY <1>3 DEF Tick, ChainMoves, DayPasses, RemoveWallet, callerVars
<1>4. CASE SetGapLimit
  <2>1. ASSUME NEW c \in Callers
        PROVE  /\ call'[c].arrived = call[c].arrived
               /\ call'[c].low \in Nat /\ call[c].low \in Nat
               /\ call'[c].low <= gap' /\ call'[c].low <= call[c].low
    BY <1>4 DEF SetGapLimit, Call
  <2>2. UNCHANGED <<wallet, last, pc, run, result>>
    BY <1>4 DEF SetGapLimit, callerVars
  <2>3. /\ wallet.depth \in Nat
        /\ \A r \in Callers : run[r].gap \in Nat
    BY DEF WalletState, Run
  <2> QED BY <2>1, <2>2, <2>3
<1>5. ASSUME NEW c \in Callers, NEW asked \in Asks, Arrive(c, asked)
      PROVE  GapInv'
  BY <1>5 DEF Arrive, worldVars, RunInv, LastInv, Call, Run, LastSync, Running
<1>6. ASSUME NEW c \in Callers, Share(c) PROVE GapInv'
  BY <1>6 DEF Share, Shared, MyTurn, worldVars, OneAtATime, Running
<1>7. ASSUME NEW c \in Callers, Begin(c) PROVE GapInv'
  BY <1>7 DEF Begin, MyTurn, worldVars, LastInv, NoRun, Running
<1>8. ASSUME NEW c \in Callers, Snapshot(c) PROVE GapInv'
  BY <1>8 DEF Snapshot, Raised, All, worldVars, Running, Call, Run, WalletState
<1>9. ASSUME NEW c \in Callers, Plan(c) PROVE GapInv'
  BY <1>9 DEF Plan, Planned, All, worldVars, Running, Run
<1>10. ASSUME NEW c \in Callers, Read(c) PROVE GapInv'
  BY <1>10 DEF Read, worldVars, Running, Run
<1>11. ASSUME NEW c \in Callers, Retry(c) PROVE GapInv'
  BY <1>11 DEF Retry, worldVars, Running, Run
<1>12. ASSUME NEW c \in Callers, Apply(c) PROVE GapInv'
  <2>1. pc[c] = "apply" /\ \A r \in Callers \ {c} : pc[r] \notin Running
    BY <1>12 DEF Apply, OneAtATime, Running
  <2>2. \A d \in Callers :
          (d = c \/ pc[d] = "done" \/ run[c].started > call[d].arrived) =>
            call[d].low <= run[c].gap
    BY <2>1
  <2>3. /\ wallet'.scan_gap = wallet'.depth
        /\ wallet'.depth = wallet.depth \/ wallet'.depth = run[c].gap
        /\ run[c].whole => wallet'.depth >= run[c].gap
    BY <1>12, <2>1, WholeDepth DEF Apply
  <2>4. /\ \A r \in Callers : pc'[r] \notin Running
        /\ \A d \in Callers \ {c} : pc'[d] = pc[d] /\ result'[d] = result[d]
        /\ result'[c].whole = run[c].whole
        /\ call' = call /\ gap' = gap
    BY <1>12, <2>1 DEF Apply, worldVars, Running
  <2>5. \A l \in last' : l.started = run[c].started /\ l.whole = run[c].whole
    BY <1>12 DEF Apply
  <2>6. /\ wallet.depth \in Nat /\ wallet'.depth \in Nat /\ run[c].gap \in Nat
        /\ \A d \in Callers : call[d].low \in Nat
    BY <2>3 DEF WalletState, Run, Call
  <2>7. GapScanned'
    BY <2>2, <2>3, <2>4, <2>6
  <2>8. \A l \in last' : l.whole => \A d \in Callers :
          l.started > call'[d].arrived => wallet'.depth >= call'[d].low
    BY <2>2, <2>3, <2>4, <2>5, <2>6
  <2> QED BY <2>3, <2>4, <2>7, <2>8 DEF Running
<1>13. ASSUME NEW c \in Callers, SaveFails(c) PROVE GapInv'
  <2>1. pc[c] = "apply" /\ \A r \in Callers \ {c} : pc[r] \notin Running
    BY <1>13 DEF SaveFails, OneAtATime, Running
  <2>2. \A d \in Callers :
          (pc[d] = "done" \/ run[c].started > call[d].arrived) =>
            call[d].low <= run[c].gap
    BY <2>1
  <2>3. /\ wallet'.scan_gap = wallet'.depth
        /\ wallet'.depth = wallet.depth \/ wallet'.depth = run[c].gap
    BY <1>13, <2>1, WholeDepth DEF SaveFails
  <2>4. /\ \A r \in Callers : pc'[r] \notin Running
        /\ \A d \in Callers \ {c} : pc'[d] = pc[d] /\ call'[d] = call[d]
        /\ pc'[c] = "idle" /\ call'[c].low = 0
        /\ UNCHANGED <<last, result, gap>>
    BY <1>13, <2>1 DEF SaveFails, Drop, NoCall, worldVars, Running
  <2>5. \A l \in last : l.started \in Nat /\ l.started <= run[c].started
    BY <2>1 DEF LastSync, Running
  <2>6. /\ wallet.depth \in Nat /\ wallet'.depth \in Nat
        /\ run[c].gap \in Nat /\ run[c].started \in Nat
        /\ \A d \in Callers : call[d].low \in Nat /\ call[d].arrived \in Nat
    BY <2>3 DEF WalletState, Run, Call
  <2>7. GapScanned'
    BY <2>2, <2>3, <2>4, <2>6
  <2>8. \A l \in last' : l.whole => \A d \in Callers :
          l.started > call'[d].arrived => wallet'.depth >= call'[d].low
    BY <2>2, <2>3, <2>4, <2>5, <2>6
  <2> QED BY <2>3, <2>4, <2>6, <2>7, <2>8 DEF Running
<1>14. ASSUME NEW c \in Callers, Fail(c) \/ Cancel(c) \/ Return(c)
       PROVE  GapInv'
  <2>1. /\ pc' = [pc EXCEPT ![c] = "idle"]
        /\ call' = [call EXCEPT ![c] = NoCall]
        /\ run' = [run EXCEPT ![c] = NoRun]
        /\ UNCHANGED <<last, result, gap, wallet>>
    BY <1>14 DEF Fail, Cancel, Return, Drop, worldVars
  <2>2. NoCall.low = 0 /\ wallet.depth \in Nat /\ \A d \in Callers : run[d].gap \in Nat
    BY DEF NoCall, WalletState, Run
  <2> QED BY <2>1, <2>2 DEF Running
<1>15. CASE UNCHANGED vars
  BY <1>15 DEF vars
<1> QED BY <1>3, <1>4, <1>5, <1>6, <1>7, <1>8, <1>9, <1>10, <1>11, <1>12,
           <1>13, <1>14, <1>15 DEF Next, Step

\* A caller whose result read the wallet whole leaves it scanned as deep as
\* the least gap limit set since it asked, the limit changed, syncs shared,
\* cancelled or failed in any order meanwhile (finish_sync).
THEOREM ScannedDeep == Spec => []GapScanned
<1>1. Init => GapInv
  <2> SUFFICES ASSUME Init PROVE GapInv
    OBVIOUS
  <2>1. gap \in Nat
    BY TurnsAssumption DEF Init
  <2> QED BY <2>1 DEF Init, GapInv, GapScanned, NoCall, Running
<1>2. GapInv => GapScanned
  BY DEF GapInv
<1> QED BY <1>1, <1>2, GapDepth, Invariance, PTL DEF Spec

-----------------------------------------------------------------------------
(* The inductive invariant.                                                *)

\* What a clock in state k reads at the time o.
Reading(o, k) ==
  CASE k = "right" -> NO_RIGHT_CLOCK_BEFORE + o
    [] k = "ahead" -> NO_RIGHT_CLOCK_BEFORE + o + AheadBy
    [] k = "unset" -> NO_RIGHT_CLOCK_BEFORE - 1

\* A session on its way to a check.
Busy(c) == under[c].step \in {"opened", "found", "route", "stamp"}

\* It goes by the time it read as it opened, after the first session.
CallsInv ==
  \A c \in Calls : Busy(c) =>
    /\ under[c].now = Reading(under[c].opened, under[c].clock)
    /\ under[c].opened <= real
    /\ under[c].after <= Len(sent)
    /\ born # {} /\ \A at \in born : at <= under[c].opened
    /\ deviceClock = "ahead" => under[c].clock = "ahead"
    /\ (Len(sent) > 0 /\ under[c].after >= Len(sent)) => under[c].opened >= sent[Len(sent)].opened

\* The first session of the record was one, on a clock that was set.
FirstInv ==
  \A t \in updates.first_session_at :
    /\ born # {}
    /\ \E o \in Nat :
         /\ \A at \in born : at <= o
         /\ \/ t = Reading(o, "ahead")
            \/ t = Reading(o, "right") /\ deviceClock # "ahead"

\* The stamp of the record is that of the last check sent.
StampInv ==
  /\ Len(sent) > 0 =>
       /\ born # {}
       /\ updates.checked_at = {Reading(sent[Len(sent)].opened, sent[Len(sent)].clock)}
  /\ \A i \in DOMAIN sent : sent[i].opened <= real

BornInv == \A at \in born : at <= real

ScheduleInv == BornInv /\ CallsInv /\ FirstInv /\ StampInv /\ AsksSeldom

\* What was closed is no later than what the record keeps as dismissed.
ClosedInv == \A w \in closed : \E d \in updates.dismissed : ~Later(w, d)

UpdatesIInv == UpdatesTypeOK /\ ScheduleInv /\ ClosedInv

-----------------------------------------------------------------------------
(* Types.                                                                  *)

CallStates ==
  [step : {"idle", "opened", "found", "route", "stamp", "ask", "button"},
   now : Times, due : BOOLEAN, opened : Times, clock : Clocks, after : Nat]
Records ==
  [automatic : BOOLEAN, first_session_at : SUBSET Times, checked_at : SUBSET Times,
   latest : SUBSET Versions, dismissed : SUBSET Versions, tor_unavailable : BOOLEAN]

Checks == [opened : Times, clock : Clocks, after : Nat, moved : BOOLEAN, wanted : BOOLEAN]

\* The checks sent are a sequence of such records.
LEMMA SentType ==
  ASSUME UpdatesTypeOK
  PROVE  /\ sent \in Seq(Checks) /\ Len(sent) \in Nat /\ DOMAIN sent = 1..Len(sent)
         /\ \A i \in DOMAIN sent : sent[i] \in Checks /\ sent[i].opened \in Nat /\ sent[i].clock \in Clocks
<1>1. sent \in Seq(Checks)
  BY DEF UpdatesTypeOK, Checks
<1>2. Len(sent) \in Nat /\ DOMAIN sent = 1..Len(sent) /\ \A i \in DOMAIN sent : sent[i] \in Checks
  BY <1>1
<1>3. \A x \in Checks : x.opened \in Nat /\ x.clock \in Clocks
  BY DEF Checks, Times
<1> QED BY <1>1, <1>2, <1>3

\* A clock reads a time.
LEMMA ReadingType == \A o \in Nat, k \in Clocks : Reading(o, k) \in Nat
  BY UpdatesAssumption DEF Reading, Clocks

LEMMA NowIsReading == ASSUME deviceClock \in Clocks PROVE NowSecs = Reading(real, deviceClock)
  BY DEF NowSecs, Reading, Clocks

\* What GitHub's answers come to: no tag, or tags that read as at most one
\* version that exists.
LEMMA FoundType == \A tag \in Found : tag \subseteq Tag
  BY ResponsesAssumption DEF Found, AskLatest, ReadTag, Response

LEMMA TagReads ==
  ASSUME NEW t \in Tag
  PROVE  /\ t.reads \subseteq Versions
         /\ \A v, w \in t.reads : v = w
  BY DEF Tag

\* The record stays one, whatever is answered, dismissed or noted.
LEMMA AnsweredType ==
  ASSUME NEW r \in Records, NEW t \in Tag
  PROVE  /\ AnsweredBy(r, t) \in Records
         /\ AnsweredBy(r, t) = [r EXCEPT !.latest = {v \in t.reads : IsRelease(v)}]
  BY TagReads DEF AnsweredBy, Records

LEMMA DismissType ==
  ASSUME NEW r \in Records, NEW v \in Versions
  PROVE  Dismiss(r, v) \in Records
  BY DEF Dismiss, Records

LEMMA SessionType ==
  ASSUME NEW r \in Records, NEW now \in Nat
  PROVE  SessionAt(r, now) \in Records
  BY DEF SessionAt, Records, Times

\* Each step leaves the types as they are.
LEMMA UpdatesTypeStep ==
  ASSUME UpdatesTypeOK, [UpdatesNext]_updateVars
  PROVE  UpdatesTypeOK'
<1>1. /\ updates \in Records /\ under \in [Calls -> CallStates] /\ real \in Nat /\ deviceClock \in Clocks
      /\ NowSecs \in Nat /\ Len(sent) \in Nat
  <2>1. updates \in Records /\ under \in [Calls -> CallStates] /\ real \in Nat /\ deviceClock \in Clocks
    BY Zenon DEF UpdatesTypeOK, Records, CallStates
  <2>2. Len(sent) \in Nat
    BY DEF UpdatesTypeOK
  <2> QED BY <2>1, <2>2, NowIsReading, ReadingType
<1>2. \A c \in Calls : under[c] \in CallStates
  BY <1>1
<1>3. Idle \in CallStates /\ \A step \in {"idle", "ask", "button"} : [Idle EXCEPT !.step = step] \in CallStates
  BY DEF Idle, CallStates, Times, Clocks
<1> DEFINE Sent == [opened : Times, clock : Clocks, after : Nat, moved : BOOLEAN, wanted : BOOLEAN]
<1>4. sent \in Seq(Sent) /\ closed \subseteq Versions /\ born \subseteq Times
  BY DEF UpdatesTypeOK
<1> DEFINE Typed == /\ updates \in Records /\ under \in [Calls -> CallStates] /\ real \in Nat /\ deviceClock \in Clocks
                    /\ sent \in Seq(Sent) /\ closed \subseteq Versions /\ born \subseteq Times
<1> SUFFICES Typed'
  BY DEF UpdatesTypeOK, Records, CallStates
<1>5. ASSUME NEW c \in Calls, NEW s \in CallStates, under' = [under EXCEPT ![c] = s]
      PROVE  under' \in [Calls -> CallStates]
  BY <1>1, <1>5
<1>6. ASSUME NEW c \in Calls, NEW step \in {"idle", "ask", "button"}, Leaves(c, step)
      PROVE  under' \in [Calls -> CallStates]
  BY <1>1, <1>3, <1>6 DEF Leaves
<1>7. ASSUME NEW c \in Calls, NEW step \in {"route", "stamp"}, Goes(c, step)
      PROVE  under' \in [Calls -> CallStates]
  BY <1>1, <1>2, <1>7 DEF Goes, CallStates
<1>8. ASSUME NEW tag \in Found, tag # {}
      PROVE  (CHOOSE t \in tag : TRUE) \in Tag
  BY <1>8, FoundType
<1>9. CASE UNCHANGED updateVars
  BY <1>1, <1>4, <1>9 DEF updateVars
<1>10. ASSUME NEW c \in Calls, UpdateSession(c) PROVE Typed'
  <2>1. [step |-> "opened", now |-> NowSecs, due |-> FALSE, opened |-> real,
         clock |-> deviceClock, after |-> Len(sent)] \in CallStates
    BY <1>1 DEF CallStates, Times
  <2> QED BY <2>1, <1>1, <1>4, <1>5, <1>10 DEF UpdateSession, Times
<1>11. ASSUME NEW c \in Calls, FindDue(c) PROVE Typed'
  <2>1. Due(updates, under[c].now) \in BOOLEAN
    BY <1>1 DEF Due, Records
  <2>2. [under[c] EXCEPT !.step = "found", !.due = Due(updates, under[c].now)] \in CallStates
    BY <1>2, <2>1 DEF CallStates
  <2>3. under' = [under EXCEPT ![c] = [under[c] EXCEPT !.step = "found", !.due = Due(updates, under[c].now)]]
    BY <1>1, <1>11 DEF FindDue
  <2> QED BY <2>2, <2>3, <1>1, <1>4, <1>5, <1>11 DEF FindDue
<1>12. ASSUME NEW c \in Calls, NoteSession(c) PROVE Typed'
  <2>1. SessionAt(updates, under[c].now) \in Records
    BY <1>1, <1>2, SessionType DEF CallStates, Times
  <2> QED BY <2>1, <1>1, <1>4, <1>6, <1>7, <1>12 DEF NoteSession, Saves
<1>13. ASSUME NEW c \in Calls, FindRoute(c) PROVE Typed'
  <2>1. [updates EXCEPT !.tor_unavailable = TRUE] \in Records
    BY <1>1 DEF Records
  <2> QED BY <2>1, <1>1, <1>4, <1>6, <1>7, <1>13 DEF FindRoute, Saves
<1>14. ASSUME NEW c \in Calls, Stamp(c) PROVE Typed'
  <2>1. [updates EXCEPT !.checked_at = {under[c].now}, !.tor_unavailable = FALSE] \in Records
    BY <1>1, <1>2 DEF Records, CallStates
  <2>2. [opened |-> under[c].opened, clock |-> under[c].clock, after |-> under[c].after,
         moved |-> under[c].clock # deviceClock, wanted |-> updates.automatic] \in Sent
    <3>1. under[c].opened \in Times /\ under[c].clock \in Clocks /\ under[c].after \in Nat
      BY <1>2 DEF CallStates
    <3>2. (under[c].clock # deviceClock) \in BOOLEAN /\ updates.automatic \in BOOLEAN
      BY <1>1 DEF Records
    <3> QED BY <3>1, <3>2, Zenon
  <2>3. \/ /\ updates' = [updates EXCEPT !.checked_at = {under[c].now}, !.tor_unavailable = FALSE]
           /\ sent' = Append(sent, [opened |-> under[c].opened, clock |-> under[c].clock, after |-> under[c].after,
                                    moved |-> under[c].clock # deviceClock, wanted |-> updates.automatic])
        \/ UNCHANGED <<updates, sent>>
    BY <1>14, Zenon DEF Stamp
  <2>4. under' \in [Calls -> CallStates] /\ UNCHANGED <<real, deviceClock, closed, born>>
    BY <1>6, <1>14 DEF Stamp
  <2>5. sent' \in Seq(Sent)
    <3> HIDE DEF Sent
    <3>1. \A x \in Sent : Append(sent, x) \in Seq(Sent)
      BY <1>4
    <3> QED BY <2>2, <2>3, <3>1, <1>4, Zenon
  <2>6. updates' \in Records
    BY <2>1, <2>3, <1>1, Zenon
  <2> QED BY <2>4, <2>5, <2>6, <1>1, <1>4
<1>15. ASSUME NEW c \in Calls, Answer(c) PROVE Typed'
  BY <1>1, <1>4, <1>6, <1>8, <1>15, AnsweredType DEF Answer, Saves
<1>16. ASSUME NEW c \in Calls, CheckUpdate(c) PROVE Typed'
  <2>1. [updates EXCEPT !.tor_unavailable = TRUE] \in Records
    BY <1>1 DEF Records
  <2> QED BY <2>1, <1>1, <1>4, <1>6, <1>16 DEF CheckUpdate, Saves
<1>17. ASSUME NEW c \in Calls, ButtonAnswer(c) PROVE Typed'
  <2> DEFINE cleared == [updates EXCEPT !.tor_unavailable = FALSE]
             told(tag) == AnsweredBy(cleared, CHOOSE t \in tag : TRUE)
  <2>1. cleared \in Records
    BY <1>1 DEF Records
  <2>2. ASSUME NEW tag \in Found, tag # {}
        PROVE  told(tag).latest \subseteq Versions /\ DismissAll(told(tag), told(tag).latest) \in Records
    <3>1. told(tag) \in Records
      BY <1>8, <2>1, <2>2, AnsweredType
    <3>2. told(tag).latest \subseteq Versions
      BY <3>1 DEF Records
    <3>3. told(tag).latest # {} => (CHOOSE v \in told(tag).latest : TRUE) \in Versions
      BY <3>2
    <3> QED BY <3>1, <3>2, <3>3, DismissType DEF DismissAll
  <2>3. under' \in [Calls -> CallStates]
    BY <1>6, <1>17 DEF ButtonAnswer
  <2>4. PICK tag \in Found :
          \/ /\ updates' = IF tag = {} THEN cleared ELSE DismissAll(told(tag), told(tag).latest)
             /\ closed' = IF tag = {} THEN closed ELSE closed \cup told(tag).latest
          \/ UNCHANGED <<updates, closed>>
    BY <1>17 DEF ButtonAnswer
  <2>5. updates' \in Records /\ closed' \subseteq Versions
    BY <1>1, <1>4, <2>1, <2>2, <2>4
  <2> QED BY <2>3, <2>5, <1>1, <1>4, <1>17 DEF ButtonAnswer
<1>18. CASE DismissUpdate
  BY <1>1, <1>4, <1>18, DismissType DEF DismissUpdate
<1>19. CASE SetUpdateAutomatic
  <2>1. \A automatic \in BOOLEAN : [updates EXCEPT !.automatic = automatic] \in Records
    BY <1>1 DEF Records
  <2> QED BY <2>1, <1>1, <1>4, <1>19 DEF SetUpdateAutomatic, Saves
<1>20. CASE TimePasses
  BY <1>1, <1>4, <1>20 DEF TimePasses
<1>21. CASE ClockSet
  BY <1>1, <1>4, <1>21 DEF ClockSet, Clocks
<1>22. CASE Restarted
  BY <1>1, <1>3, <1>4, <1>22 DEF Restarted
<1>23. QED
  BY <1>9, <1>10, <1>11, <1>12, <1>13, <1>14, <1>15, <1>16, <1>17, <1>18,
     <1>19, <1>20, <1>21, <1>22
     DEF UpdatesNext

-----------------------------------------------------------------------------
(* The schedule.  Most steps leave it alone: no session opens, none goes   *)
(* on by another time than it read, and the record keeps its times.        *)

SameTimes ==
  updates'.first_session_at = updates.first_session_at /\ updates'.checked_at = updates.checked_at

SameSessions ==
  \A c \in Calls : Busy(c)' =>
    /\ Busy(c)
    /\ under'[c].now = under[c].now /\ under'[c].opened = under[c].opened
    /\ under'[c].clock = under[c].clock /\ under'[c].after = under[c].after

\* Such a step keeps the schedule.
LEMMA AsideStep ==
  ASSUME ScheduleInv, SameTimes, SameSessions, UNCHANGED <<real, deviceClock, sent, born>>
  PROVE  ScheduleInv'
<1>1. CallsInv' /\ BornInv'
  BY DEF ScheduleInv, CallsInv, BornInv, SameSessions, Reading
<1>2. FirstInv'
  BY DEF ScheduleInv, FirstInv, SameTimes, Reading
<1>3. StampInv'
  BY DEF ScheduleInv, StampInv, SameTimes, Reading
<1>4. AsksSeldom'
  BY DEF ScheduleInv, AsksSeldom, QuietFirstDay, OnceADay, SentIsWanted
<1> QED BY <1>1, <1>2, <1>3, <1>4 DEF ScheduleInv

\* A call that leaves, or goes on from one step to the next, opens nothing.
LEMMA LeavesAside ==
  ASSUME UpdatesTypeOK, NEW c \in Calls, NEW step \in {"idle", "ask", "button"}, Leaves(c, step)
  PROVE  SameSessions
  BY DEF UpdatesTypeOK, Leaves, Idle, SameSessions, Busy

LEMMA GoesAside ==
  ASSUME UpdatesTypeOK, NEW c \in Calls, Busy(c), NEW step \in {"route", "stamp"}, Goes(c, step)
  PROVE  SameSessions
  BY DEF UpdatesTypeOK, Goes, SameSessions, Busy

\* A session that opens reads the time after the first one, and after every
\* check it knows of.
LEMMA OpenStep ==
  ASSUME UpdatesTypeOK, ScheduleInv, NEW c \in Calls, UpdateSession(c)
  PROVE  ScheduleInv'
<1>1. /\ NowSecs = Reading(real, deviceClock) /\ real \in Nat /\ Len(sent) \in Nat
      /\ deviceClock \in Clocks /\ under \in [Calls -> CallStates]
      /\ \A i \in DOMAIN sent : sent[i].opened \in Nat
      /\ DOMAIN sent = 1..Len(sent)
  <2>1. deviceClock \in Clocks /\ real \in Nat /\ under \in [Calls -> CallStates]
    BY Zenon DEF UpdatesTypeOK, CallStates
  <2>2. Len(sent) \in Nat /\ DOMAIN sent = 1..Len(sent) /\ \A i \in DOMAIN sent : sent[i].opened \in Nat
    BY SentType
  <2> QED BY <2>1, <2>2, NowIsReading
<1>2. /\ under' = [under EXCEPT ![c] =
                     [step |-> "opened", now |-> NowSecs, due |-> FALSE, opened |-> real,
                      clock |-> deviceClock, after |-> Len(sent)]]
      /\ born' = IF born = {} THEN {real} ELSE born
      /\ UNCHANGED <<updates, real, deviceClock, sent, closed>>
  BY DEF UpdateSession
<1>3. born' # {} /\ (born # {} => born' = born) /\ \A at \in born' : at <= real
  <2>1. \A at \in born : at \in Nat
    BY DEF UpdatesTypeOK, Times
  <2>2. \A at \in born : at <= real
    BY DEF ScheduleInv, BornInv
  <2> QED BY <1>1, <1>2, <2>2
<1>4. CallsInv'
  <2> SUFFICES ASSUME NEW d \in Calls, Busy(d)'
               PROVE  /\ under'[d].now = Reading(under'[d].opened, under'[d].clock)
                      /\ under'[d].opened <= real
                      /\ under'[d].after <= Len(sent)
                      /\ born' # {} /\ \A at \in born' : at <= under'[d].opened
                      /\ deviceClock = "ahead" => under'[d].clock = "ahead"
                      /\ (Len(sent) > 0 /\ under'[d].after >= Len(sent)) => under'[d].opened >= sent[Len(sent)].opened
    BY <1>2 DEF CallsInv, Reading
  <2>1. CASE d = c
    BY <1>1, <1>2, <1>3, <2>1 DEF ScheduleInv, StampInv
  <2>2. CASE d # c
    BY <1>1, <1>2, <1>3, <2>2 DEF ScheduleInv, CallsInv, Busy
  <2> QED BY <2>1, <2>2
<1>5. FirstInv'
  BY <1>2, <1>3 DEF ScheduleInv, FirstInv, Reading
<1>6. StampInv'
  BY <1>2, <1>3 DEF ScheduleInv, StampInv, Reading
<1>7. AsksSeldom'
  BY <1>1, <1>2, <1>3 DEF ScheduleInv, StampInv, AsksSeldom, QuietFirstDay,
     OnceADay, SentIsWanted
<1> QED BY <1>2, <1>3, <1>4, <1>5, <1>6, <1>7 DEF ScheduleInv, BornInv

\* A session noted as the first read a time it could be.
LEMMA NoteStep ==
  ASSUME UpdatesTypeOK, ScheduleInv, NEW c \in Calls, NoteSession(c)
  PROVE  ScheduleInv'
<1>1. SameSessions
  <2>1. Busy(c)
    BY DEF NoteSession, At, Busy
  <2> QED BY <2>1, LeavesAside, GoesAside DEF NoteSession
<1>2. UNCHANGED <<real, deviceClock, sent, born>>
  BY DEF NoteSession
<1>3. CASE updates' = updates
  BY <1>1, <1>2, <1>3, AsideStep DEF SameTimes
<1>4. ASSUME updates' # updates PROVE ScheduleInv'
  <2> DEFINE me == under[c]
  <2>1. me.now \in Nat /\ me.opened \in Nat /\ me.clock \in Clocks /\ updates \in Records
    BY DEF UpdatesTypeOK, Records, Times
  <2>2. /\ me.now >= NO_RIGHT_CLOCK_BEFORE
        /\ updates' = [updates EXCEPT !.first_session_at = {me.now}]
    BY <1>4 DEF NoteSession, Saves, SessionAt
  <2>3. updates'.first_session_at = {me.now} /\ updates'.checked_at = updates.checked_at
    BY <2>1, <2>2 DEF Records
  <2>4. /\ me.now = Reading(me.opened, me.clock) /\ born # {} /\ \A at \in born : at <= me.opened
        /\ deviceClock = "ahead" => me.clock = "ahead"
    BY DEF NoteSession, At, ScheduleInv, CallsInv, Busy
  <2>5. \/ me.now = Reading(me.opened, "ahead")
        \/ me.now = Reading(me.opened, "right") /\ deviceClock # "ahead"
    <3>1. me.clock # "unset"
      BY <2>2, <2>4, UpdatesAssumption DEF Reading
    <3> QED BY <2>1, <2>4, <3>1, Zenon DEF Clocks
  <2>6. FirstInv'
    BY <1>2, <2>1, <2>3, <2>4, <2>5 DEF FirstInv, Reading
  <2>7. CallsInv' /\ BornInv' /\ StampInv' /\ AsksSeldom'
    <3>1. CallsInv' /\ BornInv'
      BY <1>1, <1>2 DEF ScheduleInv, CallsInv, BornInv, SameSessions, Reading
    <3>2. StampInv'
      BY <1>2, <2>3 DEF ScheduleInv, StampInv, Reading
    <3>3. AsksSeldom'
      BY <1>2 DEF ScheduleInv, AsksSeldom, QuietFirstDay, OnceADay,
         SentIsWanted
    <3> QED BY <3>1, <3>2, <3>3
  <2> QED BY <2>6, <2>7 DEF ScheduleInv
<1> QED BY <1>3, <1>4

\* What one clock, left in its state, reads as a day on or not since is one.
LEMMA ADayOn ==
  ASSUME NEW o \in Nat, NEW p \in Nat, NEW k \in Clocks, p >= o,
         ~(Reading(o, k) <= Reading(p, k) /\ Reading(p, k) - Reading(o, k) < CHECK_EVERY)
  PROVE  p >= o + CHECK_EVERY
<1>1. CHECK_EVERY \in Nat \ {0} /\ NO_RIGHT_CLOCK_BEFORE \in Nat /\ AheadBy \in Nat
  BY UpdatesAssumption
<1>2. CASE k = "right"
  BY <1>1, <1>2 DEF Reading
<1>3. CASE k = "ahead"
  BY <1>1, <1>3 DEF Reading
<1>4. CASE k = "unset"
  BY <1>1, <1>4 DEF Reading
<1> QED BY <1>2, <1>3, <1>4 DEF Clocks

\* A check that is due by the time its session read is a day after the first
\* session, and after the last check a clock in the same state stamped.
LEMMA DueIsLate ==
  ASSUME UpdatesTypeOK, ScheduleInv, NEW c \in Calls, At(c, "stamp"), Due(updates, under[c].now)
  PROVE  /\ under[c].clock = deviceClock => \A at \in born : under[c].opened >= at + CHECK_EVERY
         /\ (Len(sent) > 0 /\ under[c].after >= Len(sent) /\ under[c].clock = sent[Len(sent)].clock) =>
              under[c].opened >= sent[Len(sent)].opened + CHECK_EVERY
<1> DEFINE me == under[c]
<1>1. me.opened \in Nat /\ me.clock \in Clocks /\ \A at \in born : at \in Nat
  BY DEF UpdatesTypeOK, Times
<1>2. /\ me.now = Reading(me.opened, me.clock)
      /\ deviceClock = "ahead" => me.clock = "ahead"
      /\ (Len(sent) > 0 /\ me.after >= Len(sent)) => me.opened >= sent[Len(sent)].opened
  BY DEF At, ScheduleInv, CallsInv, Busy
<1>3. ASSUME me.clock = deviceClock, NEW at \in born
      PROVE  me.opened >= at + CHECK_EVERY
  <2>1. PICK t \in updates.first_session_at : t <= me.now /\ me.now - t >= CHECK_EVERY
    BY DEF Due
  <2>2. PICK o \in Nat : /\ at <= o
                         /\ \/ t = Reading(o, "ahead")
                            \/ t = Reading(o, "right") /\ deviceClock # "ahead"
    BY DEF ScheduleInv, FirstInv
  <2> DEFINE begin == NO_RIGHT_CLOCK_BEFORE
  <2>3. /\ CHECK_EVERY \in Nat \ {0} /\ begin \in Nat /\ AheadBy \in Nat
        /\ o \in Nat /\ at \in Nat /\ at <= o /\ me.opened \in Nat
    BY <1>1, <2>2, UpdatesAssumption
  <2>4. t = begin + o \/ t = begin + o + AheadBy
    BY <2>2 DEF Reading
  <2>5. deviceClock = "ahead" => t = begin + o + AheadBy
    BY <2>2 DEF Reading
  <2> HIDE DEF begin
  <2>6. t \in Int
    BY <2>3, <2>4
  <2>7. CASE me.clock = "right"
    <3>1. me.now = begin + me.opened
      BY <1>2, <2>7 DEF Reading, begin
    <3>2. begin + me.opened - t >= CHECK_EVERY
      BY <2>1, <2>3, <2>6, <3>1
    <3> HIDE DEF me
    <3> QED BY <2>3, <2>4, <3>2
  <2>8. CASE me.clock = "ahead"
    <3>1. me.now = begin + me.opened + AheadBy /\ t = begin + o + AheadBy
      BY <1>2, <1>3, <2>8, <2>5 DEF Reading, begin
    <3>2. begin + me.opened + AheadBy - t >= CHECK_EVERY
      BY <2>1, <2>3, <2>6, <3>1
    <3> HIDE DEF me
    <3> QED BY <2>3, <3>1, <3>2
  <2>9. CASE me.clock = "unset"
    <3>1. me.now = begin - 1
      BY <1>2, <2>9 DEF Reading, begin
    <3>2. t <= begin - 1
      BY <2>1, <3>1
    <3> HIDE DEF me
    <3> QED BY <2>3, <2>4, <3>2
  <2> QED BY <1>1, <2>7, <2>8, <2>9 DEF Clocks
<1>4. ASSUME Len(sent) > 0, me.after >= Len(sent), me.clock = sent[Len(sent)].clock
      PROVE  me.opened >= sent[Len(sent)].opened + CHECK_EVERY
  <2> DEFINE latest == sent[Len(sent)]
  <2>1. latest.opened \in Nat /\ latest.clock \in Clocks
    BY <1>4, SentType
  <2>2. Reading(latest.opened, latest.clock) \in updates.checked_at
    BY <1>4 DEF ScheduleInv, StampInv
  <2>3. ~(Reading(latest.opened, latest.clock) <= me.now /\ me.now - Reading(latest.opened, latest.clock) < CHECK_EVERY)
    BY <2>2 DEF Due
  <2>4. me.opened >= latest.opened /\ me.now = Reading(me.opened, latest.clock)
    BY <1>2, <1>4
  <2> HIDE DEF me, latest
  <2>5. me.opened >= latest.opened + CHECK_EVERY
    BY <1>1, <2>1, <2>3, <2>4, ADayOn
  <2> QED BY <2>5 DEF me, latest
<1> QED BY <1>3, <1>4

\* A check that is stamped and sent is a day after what it must be a day
\* after; no other session on its way opened after it.
LEMMA StampStep ==
  ASSUME UpdatesTypeOK, ScheduleInv, NEW c \in Calls, Stamp(c)
  PROVE  ScheduleInv'
<1> DEFINE me == under[c]
           new == [opened |-> me.opened, clock |-> me.clock, after |-> me.after,
                   moved |-> me.clock # deviceClock, wanted |-> updates.automatic]
<1>1. At(c, "stamp") /\ UNCHANGED <<real, deviceClock, born>>
  BY DEF Stamp
<1>2. Busy(c)
  BY <1>1 DEF At, Busy
<1>3. CASE Leaves(c, "idle") /\ UNCHANGED <<updates, sent>>
  BY <1>1, <1>3, LeavesAside, AsideStep DEF SameTimes
<1>4. CASE /\ Due(updates, me.now)
           /\ updates' = [updates EXCEPT !.checked_at = {me.now}, !.tor_unavailable = FALSE]
           /\ sent' = Append(sent, new)
           /\ Leaves(c, "ask")
  <2>1. /\ me.now = Reading(me.opened, me.clock) /\ me.opened <= real /\ born # {}
        /\ me.opened \in Nat /\ me.after \in Nat
    <3>1. me.opened \in Nat /\ me.after \in Nat
      BY DEF UpdatesTypeOK, Times
    <3> QED BY <1>2, <3>1 DEF ScheduleInv, CallsInv
  <2>2. updates'.first_session_at = updates.first_session_at /\ updates'.checked_at = {me.now}
    BY <1>4 DEF UpdatesTypeOK
  <2>3. /\ sent \in Seq(Checks) /\ Len(sent) \in Nat /\ DOMAIN sent = 1..Len(sent)
        /\ \A i \in DOMAIN sent : sent[i].opened \in Nat
    BY SentType
  <2>4. /\ Len(sent') = Len(sent) + 1 /\ DOMAIN sent' = 1..(Len(sent) + 1)
        /\ sent'[Len(sent) + 1] = new
        /\ \A i \in 1..Len(sent) : sent'[i] = sent[i]
    <3> HIDE DEF new
    <3>1. sent' = Append(sent, new)
      BY <1>4
    <3> QED BY <2>3, <3>1
  <2>5. /\ new.opened = me.opened /\ new.clock = me.clock /\ new.after = me.after
        /\ new.moved = (me.clock # deviceClock) /\ new.wanted = updates.automatic
    BY Zenon
  <2>6. ~Busy(c)' /\ \A d \in Calls \ {c} : under'[d] = under[d]
    BY <1>4 DEF UpdatesTypeOK, Leaves, Idle, Busy
  <2> HIDE DEF me, new
  <2>7. BornInv'
    BY <1>1 DEF ScheduleInv, BornInv
  <2>8. CallsInv'
    <3> SUFFICES ASSUME NEW d \in Calls, Busy(d)'
                 PROVE  /\ under'[d].now = Reading(under'[d].opened, under'[d].clock)
                        /\ under'[d].opened <= real
                        /\ under'[d].after <= Len(sent')
                        /\ born # {} /\ \A at \in born : at <= under'[d].opened
                        /\ deviceClock = "ahead" => under'[d].clock = "ahead"
                        /\ ~(under'[d].after >= Len(sent'))
      BY <1>1 DEF CallsInv, Reading
    <3>1. d # c /\ under'[d] = under[d] /\ Busy(d)
      BY <2>6 DEF Busy
    <3>2. under[d].after \in Nat
      BY DEF UpdatesTypeOK
    <3> QED BY <2>3, <2>4, <3>1, <3>2 DEF ScheduleInv, CallsInv
  <2>9. FirstInv'
    BY <1>1, <2>2 DEF ScheduleInv, FirstInv, Reading
  <2>10. StampInv'
    <3>1. \A i \in DOMAIN sent' : sent'[i].opened <= real
      <4> SUFFICES ASSUME NEW i \in DOMAIN sent' PROVE sent'[i].opened <= real
        OBVIOUS
      <4>1. CASE i \in 1..Len(sent)
        BY <4>1, <2>3, <2>4 DEF ScheduleInv, StampInv
      <4>2. CASE i = Len(sent) + 1
        BY <4>2, <2>1, <2>4, <2>5
      <4> QED BY <4>1, <4>2, <2>3, <2>4
    <3>2. updates'.checked_at = {Reading(sent'[Len(sent')].opened, sent'[Len(sent')].clock)}
      BY <2>1, <2>2, <2>4, <2>5
    <3> QED BY <1>1, <2>1, <3>1, <3>2 DEF StampInv, Reading
  <2>11. AsksSeldom'
    <3>1. /\ me.clock = deviceClock => \A at \in born : me.opened >= at + CHECK_EVERY
          /\ (Len(sent) > 0 /\ me.after >= Len(sent) /\ me.clock = sent[Len(sent)].clock) =>
               me.opened >= sent[Len(sent)].opened + CHECK_EVERY
      BY <1>1, <1>4, DueIsLate DEF me
    <3>2. QuietFirstDay'
      <4> SUFFICES ASSUME NEW i \in DOMAIN sent', NEW at \in born, ~sent'[i].moved
                   PROVE  sent'[i].opened >= at + CHECK_EVERY
        BY <1>1 DEF QuietFirstDay
      <4>1. CASE i \in 1..Len(sent)
        BY <4>1, <2>3, <2>4 DEF ScheduleInv, AsksSeldom, QuietFirstDay
      <4>2. CASE i = Len(sent) + 1
        <5>1. ~new.moved
          BY <4>2, <2>4
        <5>2. me.clock = deviceClock
          BY <5>1, <2>5, Zenon
        <5> QED BY <4>2, <5>2, <2>4, <2>5, <3>1
      <4> QED BY <4>1, <4>2, <2>3, <2>4
    <3>3. OnceADay'
      <4> SUFFICES ASSUME NEW i \in DOMAIN sent', i > 1,
                          sent'[i].after >= i - 1, sent'[i].clock = sent'[i - 1].clock
                   PROVE  sent'[i].opened >= sent'[i - 1].opened + CHECK_EVERY
        BY DEF OnceADay
      <4>1. CASE i \in 1..Len(sent)
        <5>1. sent'[i] = sent[i] /\ sent'[i - 1] = sent[i - 1]
          BY <4>1, <2>3, <2>4
        <5> QED BY <4>1, <5>1, <2>3 DEF ScheduleInv, AsksSeldom, OnceADay
      <4>2. CASE i = Len(sent) + 1
        <5>1. sent'[i] = new /\ sent'[i - 1] = sent[Len(sent)] /\ Len(sent) > 0 /\ i - 1 = Len(sent)
          BY <4>2, <2>3, <2>4
        <5> QED BY <5>1, <2>5, <3>1
      <4> QED BY <4>1, <4>2, <2>3, <2>4
    <3>4. SentIsWanted'
      <4> SUFFICES ASSUME NEW i \in DOMAIN sent' PROVE sent'[i].wanted
        BY DEF SentIsWanted
      <4>1. CASE i \in 1..Len(sent)
        BY <4>1, <2>3, <2>4 DEF ScheduleInv, AsksSeldom, SentIsWanted
      <4>2. CASE i = Len(sent) + 1
        <5>1. updates.automatic
          BY <1>4 DEF Due
        <5>2. sent'[i] = new
          BY <4>2, <2>4
        <5> QED BY <5>1, <5>2, <2>5, Zenon
      <4> QED BY <4>1, <4>2, <2>3, <2>4
    <3> QED BY <3>2, <3>3, <3>4 DEF AsksSeldom
  <2> QED BY <2>7, <2>8, <2>9, <2>10, <2>11 DEF ScheduleInv
<1>5. \/ /\ Due(updates, me.now)
         /\ updates' = [updates EXCEPT !.checked_at = {me.now}, !.tor_unavailable = FALSE]
         /\ sent' = Append(sent, new)
         /\ Leaves(c, "ask")
      \/ Leaves(c, "idle") /\ UNCHANGED <<updates, sent>>
  BY Zenon DEF Stamp
<1> QED BY <1>3, <1>4, <1>5

\* Time that passes, and a clock that is set, leave the past as it was.
LEMMA ClockSteps ==
  ASSUME UpdatesTypeOK, ScheduleInv, TimePasses \/ ClockSet
  PROVE  ScheduleInv'
<1>1. CASE TimePasses
  <2>1. /\ real \in Nat /\ real' = real + 1 /\ UNCHANGED <<updates, under, deviceClock, sent, born>>
        /\ \A at \in born : at \in Nat
    BY <1>1 DEF UpdatesTypeOK, TimePasses, Times
  <2>2. \A d \in Calls : under[d].opened \in Nat
    BY DEF UpdatesTypeOK, Times
  <2>3. \A i \in DOMAIN sent : sent[i].opened \in Nat
    BY SentType
  <2>4. BornInv'
    BY <2>1 DEF ScheduleInv, BornInv
  <2>5. CallsInv'
    <3> SUFFICES ASSUME NEW d \in Calls, Busy(d)
                 PROVE  /\ under[d].now = Reading(under[d].opened, under[d].clock)
                        /\ under[d].opened <= real'
                        /\ under[d].after <= Len(sent)
                        /\ born # {} /\ \A at \in born : at <= under[d].opened
                        /\ deviceClock = "ahead" => under[d].clock = "ahead"
                        /\ (Len(sent) > 0 /\ under[d].after >= Len(sent)) => under[d].opened >= sent[Len(sent)].opened
      BY <2>1 DEF CallsInv, Busy, Reading
    <3> QED BY <2>1, <2>2 DEF ScheduleInv, CallsInv
  <2>6. FirstInv'
    BY <2>1 DEF ScheduleInv, FirstInv, Reading
  <2>7. StampInv'
    <3>1. \A i \in DOMAIN sent : sent[i].opened <= real'
      BY <2>1, <2>3 DEF ScheduleInv, StampInv
    <3>2. Len(sent) > 0 =>
            /\ born # {}
            /\ updates.checked_at = {Reading(sent[Len(sent)].opened, sent[Len(sent)].clock)}
      BY DEF ScheduleInv, StampInv
    <3> QED BY <2>1, <3>1, <3>2 DEF StampInv, Reading
  <2>8. AsksSeldom'
    BY <2>1 DEF ScheduleInv, AsksSeldom, QuietFirstDay, OnceADay, SentIsWanted
  <2> QED BY <2>4, <2>5, <2>6, <2>7, <2>8 DEF ScheduleInv
<1>2. CASE ClockSet
  <2>1. deviceClock' # "ahead" /\ UNCHANGED <<updates, under, real, sent, born>>
    BY <1>2 DEF ClockSet
  <2>2. BornInv' /\ StampInv'
    BY <2>1 DEF ScheduleInv, BornInv, StampInv, Reading
  <2>3. CallsInv'
    BY <2>1 DEF ScheduleInv, CallsInv, Busy, Reading
  <2>4. FirstInv'
    BY <2>1 DEF ScheduleInv, FirstInv, Reading
  <2>5. AsksSeldom'
    BY <2>1 DEF ScheduleInv, AsksSeldom, QuietFirstDay, OnceADay, SentIsWanted
  <2> QED BY <2>2, <2>3, <2>4, <2>5 DEF ScheduleInv
<1> QED BY <1>1, <1>2

\* Every step keeps the schedule.
LEMMA ScheduleStep ==
  ASSUME UpdatesTypeOK, ScheduleInv, [UpdatesNext]_updateVars
  PROVE  ScheduleInv'
<1>1. updates \in Records
  BY DEF UpdatesTypeOK, Records
<1>2. ASSUME NEW r, r.first_session_at = updates.first_session_at, r.checked_at = updates.checked_at, Saves(r)
      PROVE  SameTimes
  BY <1>2 DEF Saves, SameTimes
<1>3. /\ \A b \in BOOLEAN : /\ [updates EXCEPT !.tor_unavailable = b].first_session_at = updates.first_session_at
                            /\ [updates EXCEPT !.tor_unavailable = b].checked_at = updates.checked_at
                            /\ [updates EXCEPT !.automatic = b].first_session_at = updates.first_session_at
                            /\ [updates EXCEPT !.automatic = b].checked_at = updates.checked_at
  BY <1>1 DEF Records
<1>4. ASSUME NEW r \in Records, NEW v
      PROVE  Dismiss(r, v).first_session_at = r.first_session_at /\ Dismiss(r, v).checked_at = r.checked_at
  BY DEF Dismiss, Records
<1>5. ASSUME NEW r \in Records, NEW t
      PROVE  AnsweredBy(r, t).first_session_at = r.first_session_at /\ AnsweredBy(r, t).checked_at = r.checked_at
  BY DEF AnsweredBy, Records
<1>6. CASE UNCHANGED updateVars
  BY <1>6, AsideStep DEF updateVars, SameTimes, SameSessions, Busy
<1>7. ASSUME NEW c \in Calls, FindDue(c) PROVE ScheduleInv'
  <2>1. SameSessions
    BY <1>7 DEF UpdatesTypeOK, FindDue, At, SameSessions, Busy
  <2> QED BY <1>7, <2>1, AsideStep DEF FindDue, SameTimes
<1>8. ASSUME NEW c \in Calls, FindRoute(c) PROVE ScheduleInv'
  <2>1. Busy(c) /\ UNCHANGED <<real, deviceClock, sent, born>>
    BY <1>8 DEF FindRoute, At, Busy
  <2>2. SameSessions
    BY <1>8, <2>1, LeavesAside, GoesAside DEF FindRoute
  <2>3. SameTimes
    BY <1>2, <1>3, <1>8 DEF FindRoute, SameTimes
  <2> QED BY <2>1, <2>2, <2>3, AsideStep
<1>9. ASSUME NEW c \in Calls, Answer(c) PROVE ScheduleInv'
  <2>1. SameSessions /\ UNCHANGED <<real, deviceClock, sent, born>>
    BY <1>9, LeavesAside DEF Answer
  <2>2. SameTimes
    BY <1>1, <1>2, <1>5, <1>9 DEF Answer, SameTimes
  <2> QED BY <2>1, <2>2, AsideStep
<1>10. ASSUME NEW c \in Calls, CheckUpdate(c) PROVE ScheduleInv'
  <2>1. SameSessions
    BY <1>10, LeavesAside DEF CheckUpdate, SameSessions, Busy
  <2>2. SameTimes /\ UNCHANGED <<real, deviceClock, sent, born>>
    BY <1>2, <1>3, <1>10 DEF CheckUpdate, SameTimes
  <2> QED BY <2>1, <2>2, AsideStep
<1>11. ASSUME NEW c \in Calls, ButtonAnswer(c) PROVE ScheduleInv'
  <2>1. SameSessions /\ UNCHANGED <<real, deviceClock, sent, born>>
    BY <1>11, LeavesAside DEF ButtonAnswer
  <2> DEFINE cleared == [updates EXCEPT !.tor_unavailable = FALSE]
             told(tag) == AnsweredBy(cleared, CHOOSE t \in tag : TRUE)
  <2>2. PICK tag \in Found :
          \/ updates' = IF tag = {} THEN cleared ELSE DismissAll(told(tag), told(tag).latest)
          \/ UNCHANGED updates
    BY <1>11 DEF ButtonAnswer
  <2>3. cleared \in Records
    BY <1>1 DEF Records
  <2>4. ASSUME tag # {}
        PROVE  /\ DismissAll(told(tag), told(tag).latest).first_session_at = updates.first_session_at
               /\ DismissAll(told(tag), told(tag).latest).checked_at = updates.checked_at
    <3>1. told(tag) \in Records
      BY <2>3, <2>4, FoundType, AnsweredType
    <3>2. told(tag).first_session_at = updates.first_session_at /\ told(tag).checked_at = updates.checked_at
      BY <1>3, <1>5, <2>3
    <3> HIDE DEF told
    <3> QED BY <1>4, <3>1, <3>2 DEF DismissAll
  <2>5. SameTimes
    BY <1>3, <2>2, <2>4 DEF SameTimes
  <2> QED BY <2>1, <2>5, AsideStep
<1>12. CASE DismissUpdate
  <2>1. SameTimes /\ SameSessions /\ UNCHANGED <<real, deviceClock, sent, born>>
    BY <1>1, <1>4, <1>12 DEF DismissUpdate, SameTimes, SameSessions, Busy
  <2> QED BY <2>1, AsideStep
<1>13. CASE SetUpdateAutomatic
  <2>1. SameTimes /\ SameSessions /\ UNCHANGED <<real, deviceClock, sent, born>>
    BY <1>2, <1>3, <1>13 DEF SetUpdateAutomatic, SameSessions, Busy
  <2> QED BY <2>1, AsideStep
<1>14. CASE Restarted
  <2>1. SameTimes /\ SameSessions /\ UNCHANGED <<real, deviceClock, sent, born>>
    BY <1>14 DEF Restarted, Idle, SameTimes, SameSessions, Busy
  <2> QED BY <2>1, AsideStep
<1> QED
  BY <1>6, <1>7, <1>8, <1>9, <1>10, <1>11, <1>12, <1>13, <1>14, OpenStep,
     NoteStep, StampStep, ClockSteps
     DEF UpdatesNext

-----------------------------------------------------------------------------
(* What was closed.                                                        *)

\* The versions are in one strict order.
LEMMA LaterOrder ==
  ASSUME NEW u \in Versions, NEW v \in Versions, NEW w \in Versions
  PROVE  /\ ~Later(v, v)
         /\ (~Later(u, v) /\ Later(w, v)) => Later(w, u)
         /\ Later(w, u) => ~Later(u, w)
<1>1. \A x \in Versions : x.number \in Nat /\ x.pre \in Nat
  BY UpdatesAssumption
<1> QED BY <1>1 DEF Later

\* Closing a version covers it, and keeps covered what was.
LEMMA DismissCovers ==
  ASSUME NEW r \in Records, NEW v \in Versions, NEW C \in SUBSET Versions,
         \A w \in C : \E d \in r.dismissed : ~Later(w, d)
  PROVE  \A w \in C \cup {v} : \E d \in Dismiss(r, v).dismissed : ~Later(w, d)
<1>1. r.dismissed \subseteq Versions
  BY DEF Records
<1>2. CASE \A w \in r.dismissed : Later(v, w)
  <2>1. Dismiss(r, v).dismissed = {v}
    BY <1>2 DEF Dismiss, Records
  <2>2. ~Later(v, v)
    BY LaterOrder
  <2>3. ASSUME NEW w \in C PROVE ~Later(w, v)
    <3>1. PICK d \in r.dismissed : ~Later(w, d)
      OBVIOUS
    <3>2. Later(v, d) /\ d \in Versions /\ w \in Versions
      BY <1>1, <1>2
    <3>3. Later(v, w)
      BY <3>1, <3>2, LaterOrder
    <3> QED BY <3>2, <3>3, LaterOrder
  <2> QED BY <2>1, <2>2, <2>3
<1>3. CASE ~\A w \in r.dismissed : Later(v, w)
  BY <1>3 DEF Dismiss
<1> QED BY <1>2, <1>3

\* Every step keeps what was closed covered by what is dismissed.
LEMMA ClosedStep ==
  ASSUME UpdatesTypeOK, ClosedInv, [UpdatesNext]_updateVars
  PROVE  ClosedInv'
<1>1. updates \in Records /\ closed \subseteq Versions
  BY DEF UpdatesTypeOK, Records
<1>2. ASSUME updates'.dismissed = updates.dismissed, closed' = closed
      PROVE  ClosedInv'
  BY <1>2 DEF ClosedInv
<1>3. \A b \in BOOLEAN : /\ [updates EXCEPT !.tor_unavailable = b].dismissed = updates.dismissed
                         /\ [updates EXCEPT !.automatic = b].dismissed = updates.dismissed
  BY <1>1 DEF Records
<1>4. ASSUME NEW r \in Records, NEW t
      PROVE  AnsweredBy(r, t).dismissed = r.dismissed
  BY DEF AnsweredBy, Records
<1>5. CASE DismissUpdate
  <2>1. PICK v \in Versions :
          \/ updates' = Dismiss(updates, v) /\ closed' = closed \cup {v}
          \/ UNCHANGED <<updates, closed>>
    BY <1>5 DEF DismissUpdate
  <2> QED BY <1>1, <1>2, <2>1, DismissCovers DEF ClosedInv
<1>6. ASSUME NEW c \in Calls, ButtonAnswer(c) PROVE ClosedInv'
  <2> DEFINE cleared == [updates EXCEPT !.tor_unavailable = FALSE]
             told(tag) == AnsweredBy(cleared, CHOOSE t \in tag : TRUE)
  <2>1. PICK tag \in Found :
          \/ /\ updates' = IF tag = {} THEN cleared ELSE DismissAll(told(tag), told(tag).latest)
             /\ closed' = IF tag = {} THEN closed ELSE closed \cup told(tag).latest
          \/ UNCHANGED <<updates, closed>>
    BY <1>6 DEF ButtonAnswer
  <2>2. cleared \in Records /\ cleared.dismissed = updates.dismissed
    BY <1>1 DEF Records
  <2>3. CASE UNCHANGED <<updates, closed>>
    BY <1>2, <2>3
  <2>4. CASE tag = {} /\ updates' = cleared /\ closed' = closed
    BY <1>2, <2>2, <2>4
  <2>5. CASE /\ tag # {} /\ updates' = DismissAll(told(tag), told(tag).latest)
             /\ closed' = closed \cup told(tag).latest
    <3> DEFINE t0 == CHOOSE t \in tag : TRUE
               r == AnsweredBy(cleared, t0)
    <3>1. t0 \in Tag
      BY <2>5, FoundType
    <3>2. /\ r \in Records /\ r.dismissed = updates.dismissed
          /\ r.latest = {v \in t0.reads : IsRelease(v)}
      <4>1. r \in Records
        BY <2>2, <3>1, AnsweredType
      <4>2. r.dismissed = updates.dismissed
        BY <1>4, <2>2
      <4>3. r.latest = {v \in t0.reads : IsRelease(v)}
        BY <2>2 DEF AnsweredBy, Records
      <4> QED BY <4>1, <4>2, <4>3
    <3>3. r.latest \subseteq Versions /\ \A v, w \in r.latest : v = w
      BY <3>1, <3>2, TagReads
    <3>4. updates' = DismissAll(r, r.latest) /\ closed' = closed \cup r.latest
      BY <2>5
    <3> HIDE DEF r, t0
    <3>5. CASE r.latest = {}
      BY <1>2, <3>2, <3>4, <3>5 DEF DismissAll
    <3>6. CASE r.latest # {}
      <4>1. PICK v \in r.latest : v = CHOOSE x \in r.latest : TRUE
        BY <3>6
      <4>2. r.latest = {v} /\ v \in Versions
        BY <3>3
      <4>3. updates' = Dismiss(r, v) /\ closed' = closed \cup {v}
        BY <3>4, <3>6, <4>1, <4>2 DEF DismissAll
      <4> QED BY <1>1, <3>2, <4>2, <4>3, DismissCovers DEF ClosedInv
    <3> QED BY <3>5, <3>6
  <2> QED BY <2>1, <2>3, <2>4, <2>5
<1>7. CASE UNCHANGED <<updates, closed>>
  BY <1>2, <1>7
<1>8. ASSUME NEW c \in Calls, NoteSession(c) PROVE ClosedInv'
  <2>1. SessionAt(updates, under[c].now).dismissed = updates.dismissed
    BY <1>1 DEF SessionAt, Records
  <2> QED BY <1>2, <1>8, <2>1 DEF NoteSession, Saves
<1>9. ASSUME NEW c \in Calls, FindRoute(c) \/ CheckUpdate(c) PROVE ClosedInv'
  BY <1>2, <1>3, <1>9 DEF FindRoute, CheckUpdate, Saves
<1>10. ASSUME NEW c \in Calls, Stamp(c) PROVE ClosedInv'
  <2>1. [updates EXCEPT !.checked_at = {under[c].now}, !.tor_unavailable = FALSE].dismissed = updates.dismissed
    BY <1>1 DEF Records
  <2>2. updates' \in {updates, [updates EXCEPT !.checked_at = {under[c].now}, !.tor_unavailable = FALSE]}
    BY <1>10, Zenon DEF Stamp
  <2>3. closed' = closed
    BY <1>10 DEF Stamp
  <2> QED BY <1>2, <2>1, <2>2, <2>3
<1>11. ASSUME NEW c \in Calls, Answer(c) PROVE ClosedInv'
  BY <1>1, <1>2, <1>4, <1>11 DEF Answer, Saves
<1>12. CASE SetUpdateAutomatic
  BY <1>2, <1>3, <1>12 DEF SetUpdateAutomatic, Saves
<1>13. ASSUME NEW c \in Calls, UpdateSession(c) \/ FindDue(c) PROVE ClosedInv'
  BY <1>7, <1>13 DEF UpdateSession, FindDue
<1>14. CASE TimePasses \/ ClockSet \/ Restarted \/ UNCHANGED updateVars
  BY <1>7, <1>14 DEF TimePasses, ClockSet, Restarted, updateVars
<1> QED BY <1>5, <1>6, <1>8, <1>9, <1>10, <1>11, <1>12, <1>13, <1>14 DEF
           UpdatesNext

-----------------------------------------------------------------------------
(* The theorems.                                                           *)

\* The record, the sessions under way and the checks sent agree, whatever
\* sessions, answers, choices, clocks and restarts come: what
\* check_on_its_own relies on.
THEOREM UpdatesInductive == UpdatesSpec => []UpdatesIInv
<1>1. UpdatesInit => UpdatesIInv
  <2> SUFFICES ASSUME UpdatesInit PROVE UpdatesIInv
    OBVIOUS
  <2>1. UpdatesTypeOK
    <3>1. updates \in Records /\ closed \subseteq Versions /\ born \subseteq Times /\ real \in Nat /\ deviceClock \in Clocks
      BY DEF UpdatesInit, NewRecord, Records
    <3>2. Idle \in CallStates
      BY DEF Idle, CallStates, Times, Clocks
    <3>3. under \in [Calls -> CallStates]
      BY <3>2 DEF UpdatesInit
    <3>4. sent \in Seq(Checks)
      BY DEF UpdatesInit
    <3> QED BY <3>1, <3>3, <3>4 DEF UpdatesTypeOK, Records, CallStates, Checks
  <2>2. sent = <<>> /\ born = {} /\ closed = {} /\ updates.first_session_at = {} /\ \A c \in Calls : ~Busy(c)
    BY DEF UpdatesInit, NewRecord, Idle, Busy
  <2>3. Len(sent) = 0 /\ DOMAIN sent = {}
    BY <2>2
  <2>4. ScheduleInv
    BY <2>2, <2>3 DEF ScheduleInv, BornInv, CallsInv, FirstInv, StampInv,
       AsksSeldom, QuietFirstDay, OnceADay, SentIsWanted
  <2> QED BY <2>1, <2>2, <2>4 DEF UpdatesIInv, ClosedInv
<1>2. UpdatesIInv /\ [UpdatesNext]_updateVars => UpdatesIInv'
  BY UpdatesTypeStep, ScheduleStep, ClosedStep DEF UpdatesIInv
<1> QED BY <1>1, <1>2, PTL DEF UpdatesSpec

\* The app asks on its own only when it may (UpdateRecord::due, session_at,
\* check_on_its_own): for any number of sessions, a day of any length, a
\* clock ahead by anything, set again or flat.
THEOREM AsksSeldomHolds == UpdatesSpec => []AsksSeldom
<1>1. UpdatesIInv => AsksSeldom
  BY DEF UpdatesIInv, ScheduleInv
<1> QED BY <1>1, UpdatesInductive, PTL

\* A version closed or shown stays unannounced, and so do those before it,
\* for any versions and answers (UpdateRecord::dismiss, status).
THEOREM ClosedHolds == UpdatesSpec => []ClosedStaysClosed
<1>1. UpdatesIInv => ClosedStaysClosed
  <2> SUFFICES ASSUME UpdatesIInv, NEW running \in Versions, NEW v \in Announce(updates, running), NEW w \in closed
               PROVE  Later(v, w)
    BY DEF ClosedStaysClosed
  <2>1. updates.latest \subseteq Versions /\ updates.dismissed \subseteq Versions /\ w \in Versions
    BY DEF UpdatesIInv, UpdatesTypeOK
  <2>2. v \in Versions /\ \A d \in updates.dismissed : Later(v, d)
    BY <2>1 DEF Announce, Available
  <2>3. PICK d \in updates.dismissed : ~Later(w, d)
    BY DEF UpdatesIInv, ClosedInv
  <2> QED BY <2>1, <2>2, <2>3, LaterOrder
<1> QED BY <1>1, UpdatesInductive, PTL

=============================================================================
