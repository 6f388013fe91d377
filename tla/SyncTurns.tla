----------------------------- MODULE SyncTurns ------------------------------
(***************************************************************************)
(* The turns of one wallet's syncs (manager/sync.rs): one sync at a time,  *)
(* whoever asks.  A caller that arrives while one runs waits for its turn; *)
(* when it comes, it takes the result of a sync that started after it      *)
(* arrived and read at least as much as it would have, or runs its own.    *)
(* A sync snapshots what it needs under the lock of the vault, plans and   *)
(* reads with that lock released, and applies what it read under it.       *)
(*                                                                         *)
(* The chain is a counter of the changes that touched the wallet: a read   *)
(* sees every change up to the moment it is made.  A change is listed as   *)
(* new by the report of the sync that applied it.                          *)
(*                                                                         *)
(* Any caller may be cancelled while it waits or runs: its future is       *)
(* dropped, and the turn with it.                                          *)
(***************************************************************************)
EXTENDS Integers, FiniteSets

CONSTANTS
  Callers,          \* the tasks that may ask for a sync of the wallet
  Revealed,         \* the scripts the wallet revealed
  Ahead,            \* the receive scripts past them, up to the gap limit
  Change,           \* the change scripts past them, up to the gap limit
  Unknown,          \* those past what the index looks ahead
  AskKinds,         \* the kinds of reach callers ask for
  Servers,          \* how many servers the backend names
  Gaps,             \* the gap limits the setting may take
  MaxClock,         \* bound on the monotonic clock
  MaxChain,         \* bound on the changes of the chain
  MaxCalls,         \* bound on the calls made
  MaxDays           \* bound on the days that pass without a complete read

NONE == "none"

ASSUME TurnsAssumption ==
  /\ NONE \notin Callers
  /\ Unknown \subseteq Ahead \cup Change
  /\ AskKinds \subseteq {"Scripts", "Pending", "Checked", "Complete", "Full"}
  /\ Servers \in Nat \ {0}
  /\ Gaps # {} /\ Gaps \subseteq Nat \ {0}
  /\ MaxClock \in Nat /\ MaxChain \in Nat /\ MaxCalls \in Nat /\ MaxDays \in Nat

-----------------------------------------------------------------------------
(***************************************************************************)
(* How much of a wallet a sync reads.                                      *)
(***************************************************************************)
Scripts == Revealed \cup Ahead \cup Change
Kinds == {"Scripts", "Pending", "Checked", "Complete", "Full"}
Reach == [kind : Kinds, scripts : SUBSET Scripts]

All(kind) == [kind |-> kind, scripts |-> {}]

\* What callers ask for: the watch the scripts that moved, or what waits for
\* a block; the app the rest.
Asks ==
  {r \in Reach : /\ r.kind \in AskKinds
                 /\ r.kind = "Scripts" <=> r.scripts # {}}

Rank(reach) ==
  CASE reach.kind \in {"Scripts", "Pending"} -> 0
    [] reach.kind = "Checked"  -> 1
    [] reach.kind = "Complete" -> 2
    [] reach.kind = "Full"     -> 3

\* A sync that read this far read everything asked would have.
Covers(read, asked) ==
  \/ /\ read.kind = "Scripts" /\ asked.kind = "Scripts"
     /\ asked.scripts \subseteq read.scripts
  \/ /\ read.kind \notin {"Scripts", "Pending"}
     /\ \/ asked.kind \in {"Scripts", "Pending"}
        \/ Rank(read) >= Rank(asked)

\* The scripts a plan of that reach reads, those of the reach itself apart.
Reads(reach) ==
  CASE reach.kind = "Scripts" -> reach.scripts
    [] reach.kind = "Pending" -> {}
    [] reach.kind \in {"Checked", "Complete"} -> Revealed \cup Ahead
    [] reach.kind = "Full" -> Scripts

-----------------------------------------------------------------------------
VARIABLES
  clock,            \* the monotonic clock callers and syncs are dated by
  chain,            \* the changes of the chain that touch the wallet
  gap,              \* the gap limit of the settings
  record,           \* the wallet's record: kept, or removed
  wallet,           \* what the vault keeps of it: see WalletState
  days,             \* days since the last complete read, up to MaxDays
  holder,           \* the caller whose turn it is, or NONE
  last,             \* the last sync that ran to its end: none, or one
  pc,               \* where each caller is
  call,             \* what each caller came with, and when
  run,              \* what the sync of each caller works on
  result,           \* what each caller got
  calls             \* calls made so far

vars == <<clock, chain, gap, record, wallet, days, holder, last, pc, call,
          run, result, calls>>

\* synced: last_sync is set; scan_gap: the gap of the last full scan;
\* seen: the changes applied to the wallet; depth: history, the gap that
\* scan was really made with.
WalletState == [synced : BOOLEAN, scan_gap : Nat, seen : Nat, depth : Nat]

\* since: the chain as the call came in; low: the least gap limit set since;
\* both are history.
Call == [arrived : Nat, asked : Reach, ticket : Nat, since : Nat, low : Nat]

\* reach: what the request was raised to; plan: what an attempt at it
\* reads.  base: the chain as the sync began, history.  known: the changes
\* the wallet held as the plan was made; seen: those the read saw.
Run == [started : Nat, reach : Reach, plan : Reach, gap : Nat, base : Nat,
        known : Nat, seen : Nat, whole : BOOLEAN, tried : Nat]

\* listed: the changes the report lists as new.
Result == [seen : Nat, read : Reach, listed : SUBSET Nat, whole : BOOLEAN]

LastSync == [started : Nat, read : Reach, seen : Nat, whole : BOOLEAN]

Running == {"turn", "plan", "read", "apply"}
PCs == {"idle", "waiting", "done"} \cup Running

NoCall == [arrived |-> 0, asked |-> All("Checked"), ticket |-> 0,
           since |-> 0, low |-> 0]
NoRun == [started |-> 0, reach |-> All("Checked"),
          plan |-> All("Checked"), gap |-> 0, base |-> 0, known |-> 0,
          seen |-> 0, whole |-> TRUE, tried |-> 0]
NoResult == [seen |-> 0, read |-> All("Checked"), listed |-> {},
             whole |-> TRUE]

Init ==
  /\ clock = 0 /\ chain = 0 /\ days = 0 /\ calls = 0
  /\ gap \in Gaps
  /\ record = "kept"
  /\ wallet = [synced |-> FALSE, scan_gap |-> 0, seen |-> 0, depth |-> 0]
  /\ holder = NONE /\ last = {}
  /\ pc = [c \in Callers |-> "idle"]
  /\ call = [c \in Callers |-> NoCall]
  /\ run = [c \in Callers |-> NoRun]
  /\ result = [c \in Callers |-> NoResult]

-----------------------------------------------------------------------------
(***************************************************************************)
(* The world around the syncs.                                             *)
(***************************************************************************)
callerVars == <<holder, last, pc, run, result, calls>>

Tick ==
  /\ clock < MaxClock
  /\ clock' = clock + 1
  /\ UNCHANGED <<chain, gap, record, wallet, days, call, callerVars>>

ChainMoves ==
  /\ chain < MaxChain
  /\ chain' = chain + 1
  /\ UNCHANGED <<clock, gap, record, wallet, days, call, callerVars>>

DayPasses ==
  /\ days < MaxDays
  /\ days' = days + 1
  /\ UNCHANGED <<clock, chain, gap, record, wallet, call, callerVars>>

SetGapLimit ==
  /\ gap' \in Gaps \ {gap}
  /\ call' = [c \in Callers |-> [call[c] EXCEPT !.low =
                                   IF gap' < @ THEN gap' ELSE @]]
  /\ UNCHANGED <<clock, chain, record, wallet, days, callerVars>>

RemoveWallet ==
  /\ record = "kept"
  /\ record' = "removed"
  /\ UNCHANGED <<clock, chain, gap, wallet, days, call, callerVars>>

-----------------------------------------------------------------------------
(***************************************************************************)
(* A caller.                                                               *)
(***************************************************************************)
worldVars == <<clock, chain, gap, record>>

Arrive(c, asked) ==
  /\ pc[c] = "idle"
  /\ calls < MaxCalls
  /\ calls' = calls + 1
  /\ pc' = [pc EXCEPT ![c] = "waiting"]
  /\ call' = [call EXCEPT ![c] = [arrived |-> clock, asked |-> asked,
                                  ticket |-> calls, since |-> chain,
                                  low |-> gap]]
  /\ UNCHANGED <<worldVars, wallet, days, holder, last, run, result>>

\* The lock of the slot goes to whoever asked for it first.
MyTurn(c) ==
  /\ pc[c] = "waiting"
  /\ holder = NONE
  /\ \A d \in Callers : pc[d] = "waiting" => call[c].ticket <= call[d].ticket

MutShared(c) ==
  {l \in last : l.started >= call[c].arrived /\ Covers(l.read, call[c].asked)}

\* The sync whose result c may take: it started after c arrived, and read at
\* least as much as c would have.
Shared(c) ==
  {l \in last : l.started > call[c].arrived /\ Covers(l.read, call[c].asked)}

\* The result of a sync that followed, with nothing listed as new.
Share(c) ==
  /\ MyTurn(c)
  /\ \E l \in Shared(c) :
       result' = [result EXCEPT ![c] = [seen |-> l.seen, read |-> l.read,
                                        listed |-> {}, whole |-> l.whole]]
  /\ pc' = [pc EXCEPT ![c] = "done"]
  /\ UNCHANGED <<worldVars, wallet, days, holder, last, call, run, calls>>

Begin(c) ==
  /\ MyTurn(c)
  /\ Shared(c) = {}
  /\ holder' = c
  /\ pc' = [pc EXCEPT ![c] = "turn"]
  /\ run' = [run EXCEPT ![c] = [NoRun EXCEPT !.started = clock,
                                             !.base = chain]]
  /\ UNCHANGED <<worldVars, wallet, days, last, call, result, calls>>

\* A first sync, a gap limit raised since the last full scan: a full scan.
\* A day since a sync read every script: a complete one at least.
Raised(asked) ==
  IF ~ wallet.synced \/ wallet.scan_gap < gap THEN All("Full")
  ELSE IF Rank(asked) < Rank(All("Complete")) /\ days > 0
  THEN All("Complete")
  ELSE asked

\* What the sync needs of the vault, its lock held for no longer.
Snapshot(c) ==
  /\ pc[c] = "turn"
  /\ record = "kept"
  /\ run' = [run EXCEPT ![c] = [@ EXCEPT !.gap = gap,
                                         !.reach = Raised(call[c].asked)]]
  /\ pc' = [pc EXCEPT ![c] = "plan"]
  /\ UNCHANGED <<worldVars, wallet, days, holder, last, call, result, calls>>

\* The reach a plan comes to: scripts the wallet does not know are only
\* found by a full scan, and a wallet that waits on no block has nothing
\* pending to read.
Planned(reach, pending) ==
  IF reach.kind = "Scripts" /\ reach.scripts \cap Unknown # {}
  THEN All("Full")
  ELSE IF reach.kind = "Pending"
  THEN IF pending = {} THEN All("Checked")
       ELSE [kind |-> "Scripts", scripts |-> pending]
  ELSE reach

\* One attempt, at one server: planned under the lock, ...
Plan(c) ==
  /\ pc[c] = "plan"
  /\ record = "kept"
  /\ \E pending \in SUBSET Revealed :
       run' = [run EXCEPT ![c] = [@ EXCEPT
                 !.plan = Planned(run[c].reach, pending),
                 !.known = wallet.seen]]
  /\ pc' = [pc EXCEPT ![c] = "read"]
  /\ UNCHANGED <<worldVars, wallet, days, holder, last, call, result, calls>>

\* ... read without it, a history set aside or not, ...
Read(c) ==
  /\ pc[c] = "read"
  /\ \E whole \in BOOLEAN :
       run' = [run EXCEPT ![c] = [@ EXCEPT !.seen = chain, !.whole = whole]]
  /\ pc' = [pc EXCEPT ![c] = "apply"]
  /\ UNCHANGED <<worldVars, wallet, days, holder, last, call, result, calls>>

\* ... or failed, and the next server asked, while there is one.
Retry(c) ==
  /\ pc[c] = "read"
  /\ run[c].tried + 1 < Servers
  /\ run' = [run EXCEPT ![c].tried = @ + 1]
  /\ pc' = [pc EXCEPT ![c] = "plan"]
  /\ UNCHANGED <<worldVars, wallet, days, holder, last, call, result, calls>>

FullScan(c) == run[c].plan.kind = "Full" /\ run[c].whole

MutWalletAfter(c) ==
  [synced |-> TRUE,
   scan_gap |-> IF FullScan(c) THEN gap ELSE wallet.scan_gap,
   seen |-> run[c].seen,
   depth |-> IF FullScan(c) THEN run[c].gap ELSE wallet.depth]

\* What was read is applied, recorded and saved; the gap recorded is the one
\* the scan was made with, whatever the setting became.
WalletAfter(c) ==
  [synced |-> TRUE,
   scan_gap |-> IF FullScan(c) THEN run[c].gap ELSE wallet.scan_gap,
   seen |-> run[c].seen,
   depth |-> IF FullScan(c) THEN run[c].gap ELSE wallet.depth]

\* What a call held goes with it.
Drop(c) ==
  /\ pc' = [pc EXCEPT ![c] = "idle"]
  /\ call' = [call EXCEPT ![c] = NoCall]
  /\ run' = [run EXCEPT ![c] = NoRun]

Apply(c) ==
  /\ pc[c] = "apply"
  /\ record = "kept"
  /\ wallet' = WalletAfter(c)
  /\ days' = IF run[c].plan.kind \in {"Full", "Complete"} /\ run[c].whole
             THEN 0 ELSE days
  /\ result' = [result EXCEPT ![c] =
                  [seen |-> run[c].seen, read |-> run[c].plan,
                   listed |-> (run[c].known + 1)..run[c].seen,
                   whole |-> run[c].whole]]
  /\ last' = {[started |-> run[c].started, read |-> run[c].plan,
               seen |-> run[c].seen, whole |-> run[c].whole]}
  /\ holder' = NONE
  /\ pc' = [pc EXCEPT ![c] = "done"]
  /\ run' = [run EXCEPT ![c] = NoRun]
  /\ UNCHANGED <<worldVars, call, calls>>

\* The save fails: what was applied stays in memory, the caller gets the
\* error, and no one shares it.
SaveFails(c) ==
  /\ pc[c] = "apply"
  /\ record = "kept"
  /\ wallet' = WalletAfter(c)
  /\ days' = IF run[c].plan.kind \in {"Full", "Complete"} /\ run[c].whole
             THEN 0 ELSE days
  /\ holder' = NONE
  /\ Drop(c)
  /\ UNCHANGED <<worldVars, last, result, calls>>

MutFail(c) ==
  /\ \/ pc[c] \in {"turn", "plan", "apply"}
     \/ pc[c] = "read" /\ run[c].tried + 1 = Servers
  /\ wallet' = [wallet EXCEPT !.synced = FALSE, !.seen = 0]
  /\ holder' = NONE
  /\ Drop(c)
  /\ UNCHANGED <<worldVars, days, last, result, calls>>

\* No wallet any more, no route to a server, an engine that does not load
\* or refuses the update, no server that answers: an error ends the turn.
Fail(c) ==
  /\ \/ pc[c] \in {"turn", "plan", "apply"}
     \/ pc[c] = "read" /\ run[c].tried + 1 = Servers
  /\ holder' = NONE
  /\ Drop(c)
  /\ UNCHANGED <<worldVars, wallet, days, last, result, calls>>

MutCancel(c) ==
  /\ pc[c] \in Running \cup {"waiting"}
  /\ Drop(c)
  /\ UNCHANGED <<worldVars, wallet, days, holder, last, result, calls>>

\* The caller's future is dropped, and the turn with it.
Cancel(c) ==
  /\ pc[c] \in Running \cup {"waiting"}
  /\ holder' = IF holder = c THEN NONE ELSE holder
  /\ Drop(c)
  /\ UNCHANGED <<worldVars, wallet, days, last, result, calls>>

Return(c) ==
  /\ pc[c] = "done"
  /\ Drop(c)
  /\ UNCHANGED <<worldVars, wallet, days, holder, last, result, calls>>

Step(c) ==
  \/ Share(c) \/ Begin(c) \/ Snapshot(c) \/ Plan(c) \/ Read(c) \/ Retry(c)
  \/ Apply(c) \/ SaveFails(c) \/ Fail(c)

Next ==
  \/ Tick \/ ChainMoves \/ DayPasses \/ SetGapLimit \/ RemoveWallet
  \/ \E c \in Callers :
       \/ \E asked \in Asks : Arrive(c, asked)
       \/ Step(c) \/ Cancel(c) \/ Return(c)

Spec == Init /\ [][Next]_vars

\* A sync that runs goes on: every request has a timeout, and the lock of
\* the slot is fair.
Fairness == \A c \in Callers : WF_vars(Step(c))

-----------------------------------------------------------------------------
(***************************************************************************)
(* Properties.                                                             *)
(***************************************************************************)
TypeOK ==
  /\ clock \in Nat /\ chain \in Nat /\ days \in Nat /\ calls \in Nat
  /\ gap \in Gaps /\ record \in {"kept", "removed"}
  /\ wallet \in WalletState
  /\ holder \in Callers \cup {NONE}
  /\ last \subseteq LastSync
  /\ pc \in [Callers -> PCs]
  /\ call \in [Callers -> Call]
  /\ run \in [Callers -> Run]
  /\ result \in [Callers -> Result]

\* A read is enough for a request: it read the scripts asked for, and no
\* less closely.  Change past the revealed range is left out: only a full
\* scan reads it, and covers takes a checked or a complete read for enough.
Enough(read, asked) ==
  /\ Reads(asked) \ Change \subseteq Reads(read)
  /\ asked.kind \notin {"Scripts", "Pending"} => Rank(read) >= Rank(asked)

\* A caller that gets a result, its own or a shared one, gets one that saw
\* every change that came before it asked, and that read the scripts it
\* asked for, and at least as closely (sync_wallet_read).
Fresh ==
  \A c \in Callers : pc[c] = "done" =>
    /\ result[c].seen >= call[c].since
    /\ Enough(result[c].read, call[c].asked)

\* The syncs of a wallet run one at a time, and only the one whose turn it
\* is runs, callers cancelled in the middle included.
OneAtATime ==
  \A c \in Callers : pc[c] \in Running <=> holder = c

\* A caller whose result read the wallet whole leaves it scanned as deep as
\* the least gap limit set since it asked: a limit raised while a sync runs
\* is not taken for scanned (scan_gap in finish_sync).
GapScanned ==
  \A c \in Callers :
    (pc[c] = "done" /\ result[c].whole) => wallet.depth >= call[c].low

\* No change is listed as new to two callers.
ListedOnce ==
  \A c, d \in Callers :
    c # d => result[c].listed \cap result[d].listed = {}

\* Both: what callers are handed, of their own sync or of a shared one.
ResultsInv == Fresh /\ ListedOnce

\* What the wallet holds never goes back: no sync applies what it read
\* before another one did.
NeverGoesBack == [][wallet'.seen >= wallet.seen]_wallet

\* Whoever waits for a turn gets it.
Answered ==
  \A c \in Callers : pc[c] = "waiting" ~> pc[c] # "waiting"
=============================================================================
