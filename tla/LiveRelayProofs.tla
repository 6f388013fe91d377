-------------------------- MODULE LiveRelayProofs ---------------------------
(***************************************************************************)
(* Proofs about the relay, for any wallets and scripts, any number of      *)
(* permits, any queue, and whatever the watch, the app and the host do:    *)
(* nothing asked for is forgotten, a wallet has one sync at a time, and    *)
(* news that is claimed goes out.                                          *)
(***************************************************************************)
EXTENDS LiveRelay, FiniteSetTheorems, TLAPS

\* A request reads a script, and whatever it is put together with does: its
\* reason is not a block, which asks for what waits for one and no more.
Reading(a, script) == a.reason # "NewBlock" /\ script \in ReadsFor(a)

\* Confirmations proven name their scripts.
Sane(asked) == \A a \in asked : a.proven => ~ a.whole
SaneTask(t) == Sane({t.asked}) /\ (t.at = "proofs" => t.asked.proven)

AtMostOne(S) == \A a, b \in S : a = b

\* What a task is that has not begun to read.
Fresh == {"hold", "proofs", "wait"}

\* Where the relay is while it announces a sync.
Announcing == {"count", "reserve", "claim", "report"}

TypeInv ==
  /\ scenario \in Scenarios
  /\ RelayTypeOK
  /\ due \in [Wallets -> SUBSET WalletScripts]
  /\ \A i \in DOMAIN changes : changes[i].asked \in Sayable
  /\ \A t \in tasks : SaneTask(t)
  /\ \A w \in Wallets : Sane(next[w]) /\ Sane(owed[w])
  /\ relay.at \in Announcing => relay.wallet \in Wallets

\* One request is kept for a wallet, one is owed, and one sync is under way,
\* or announced.
SyncInv ==
  /\ \A w \in Wallets : AtMostOne(next[w]) /\ AtMostOne(owed[w])
  /\ \A t, u \in tasks : t.wallet = u.wallet => t = u
  /\ \A w \in Wallets :
       (w \in busy) <=> ((\E t \in tasks : t.wallet = w)
                          \/ (relay.joined /\ relay.wallet = w))
  /\ relay.joined =>
       /\ relay.at \in Announcing
       /\ \A t \in tasks : t.wallet # relay.wallet

\* The permits taken are those of the syncs that run.
Reads == {t \in tasks : t.at = "run"}
PermitInv ==
  /\ IsFiniteSet(Reads)
  /\ permits + Cardinality(Reads) = SYNCS_AT_ONCE

\* The room reserved is in the queue until what is claimed takes it.
RoomInv ==
  /\ relay.at = "claim" => out + relay.room <= EVENT_QUEUE
  /\ lost = 0

\* What is due will be read, ...
DueInv ==
  \A w \in Wallets : \A script \in due[w] :
    \E a \in ToRun(w) : Reading(a, script)

\* ... and what a sync that runs is to read will be read should it fail.
CoversInv ==
  \A t \in Reads : \A script \in t.covers :
    \/ Reading(t.asked, script)
    \/ \E a \in next[t.wallet] \cup owed[t.wallet] : Reading(a, script)

IInv == TypeInv /\ SyncInv /\ PermitInv /\ RoomInv /\ DueInv /\ CoversInv

-----------------------------------------------------------------------------
(***************************************************************************)
(* Requests put together.                                                  *)
(***************************************************************************)

\* Among requests there is one of the strongest reason.
LEMMA StrongestIs ==
  ASSUME NEW S \in SUBSET Asked, S # {}
  PROVE  /\ Strongest(S) \in Reasons
         /\ \A a \in S : ReasonRank(Strongest(S)) >= ReasonRank(a.reason)
<1> DEFINE R == {a.reason : a \in S}
           Top(r) == \A a \in S : ReasonRank(r) >= ReasonRank(a.reason)
<1>1. R \subseteq Reasons /\ R # {}
  BY DEF Asked
<1>2. \A r \in Reasons : ReasonRank(r) \in 0..3
  BY DEF Reasons, ReasonRank
<1>3. \E r \in R : Top(r)
  <2>1. /\ \A r \in R : r \in {"NewBlock", "Activity", "Started", "Reconnected"}
        /\ \A a \in S : a.reason \in R
    BY <1>1 DEF Reasons
  <2>2. /\ ReasonRank("NewBlock") = 0 /\ ReasonRank("Activity") = 1
        /\ ReasonRank("Started") = 2 /\ ReasonRank("Reconnected") = 3
    BY DEF ReasonRank
  <2> HIDE DEF R
  <2>3. CASE "Reconnected" \in R
    BY <2>1, <2>2, <2>3
  <2>4. CASE "Reconnected" \notin R /\ "Started" \in R
    BY <2>1, <2>2, <2>4
  <2>5. CASE "Reconnected" \notin R /\ "Started" \notin R /\ "Activity" \in R
    <3>1. \A a \in S : ReasonRank(a.reason) \in {0, 1}
      BY <2>1, <2>2, <2>5
    <3> QED BY <2>2, <2>5, <3>1
  <2>6. CASE "Reconnected" \notin R /\ "Started" \notin R /\ "Activity" \notin R
    <3>1. \A r \in R : r = "NewBlock"
      BY <2>1, <2>6
    <3>2. "NewBlock" \in R /\ \A a \in S : ReasonRank(a.reason) = 0
      BY <1>1, <2>1, <2>2, <3>1
    <3> QED BY <2>2, <3>2
  <2> QED BY <2>1, <2>3, <2>4, <2>5, <2>6
<1>4. Strongest(S) = CHOOSE r \in R : Top(r)
  BY DEF Strongest
<1>5. Strongest(S) \in R /\ Top(Strongest(S))
  BY <1>3, <1>4
<1> QED BY <1>1, <1>5

\* Put together, requests make one that reads all that each would have, and
\* that is confirmations proven only when each was (Asked::and).
LEMMA AndReads ==
  ASSUME NEW S \in SUBSET Asked, S # {}
  PROVE  /\ And(S) \in Asked
         /\ \A a \in S : \A script : Reading(a, script) => Reading(And(S), script)
         /\ Sane(S) => Sane({And(S)})
<1> DEFINE whole == \E a \in S : a.whole
<1>1. /\ And(S).reason = Strongest(S) /\ And(S).whole = whole
      /\ And(S).scripts = IF whole THEN {} ELSE UNION {a.scripts : a \in S}
      /\ And(S).proven = (\A a \in S : a.proven)
  BY DEF And
<1>2. And(S) \in Asked
  <2>1. UNION {a.scripts : a \in S} \subseteq WalletScripts
    BY DEF Asked
  <2>2. whole \in BOOLEAN /\ (\A a \in S : a.proven) \in BOOLEAN
    OBVIOUS
  <2>3. Strongest(S) \in Reasons
    BY StrongestIs
  <2> QED BY <2>1, <2>2, <2>3 DEF And, Asked
<1>3. ASSUME NEW a \in S, NEW script, Reading(a, script)
      PROVE  Reading(And(S), script)
  <2>1. a \in Asked /\ And(S).reason \in Reasons
    BY <1>2 DEF Asked
  <2>2. And(S).reason # "NewBlock"
    BY <1>1, <1>3, <2>1, StrongestIs DEF Reading, ReasonRank, Reasons, Asked
  <2>3. script \in WalletScripts
    BY <1>3, <2>1 DEF Reading, ReadsFor, Asked
  <2>4. CASE whole
    BY <1>1, <2>2, <2>3, <2>4 DEF Reading, ReadsFor
  <2>5. CASE ~ whole
    BY <1>1, <1>3, <2>2, <2>5 DEF Reading, ReadsFor
  <2> QED BY <2>4, <2>5
<1>4. ASSUME Sane(S) PROVE Sane({And(S)})
  BY <1>1, <1>4 DEF Sane
<1> QED BY <1>2, <1>3, <1>4

-----------------------------------------------------------------------------
(***************************************************************************)
(* What is asked is run, or kept for when the sync under way ends.         *)
(***************************************************************************)

\* A task for a wallet that has none is one that has not begun to read.
LEMMA NewTaskIs ==
  ASSUME NEW w \in Wallets, NEW a \in Asked, \A t \in tasks : t.wallet # w
  PROVE  /\ NewTask(w, a) \in Task
         /\ NewTask(w, a).wallet = w /\ NewTask(w, a).asked = a
         /\ NewTask(w, a).at \in Fresh
         /\ Sane({a}) => SaneTask(NewTask(w, a))
<1>1. {t \in tasks : t.wallet = w} = {}
  OBVIOUS
<1>2. Cardinality({t \in tasks : t.wallet = w}) = 0
  BY <1>1, FS_EmptySet
<1>3. /\ NewTask(w, a) \in Task
      /\ NewTask(w, a).wallet = w /\ NewTask(w, a).asked = a
      /\ NewTask(w, a).at \in Fresh
  BY <1>2 DEF NewTask, Task, Fresh
<1>4. NewTask(w, a).at = "proofs" => a.proven
  BY DEF NewTask
<1> QED BY <1>3, <1>4 DEF SaneTask

\* A script is read by something kept for the wallet.
KeptFor(w, script) == \E b \in next[w] : Reading(b, script)

\* What asking for each wallet comes to, a request and what follows it
\* (ask).
LEMMA AskAllDoes ==
  ASSUME TypeInv, SyncInv,
         NEW asked \in [Wallets -> SUBSET Asked],
         NEW after \in [Wallets -> SUBSET Asked],
         \A w \in Wallets : /\ AtMostOne(asked[w])
                            /\ Sane(asked[w]) /\ Sane(after[w]),
         AskAll(asked, after)
  PROVE  /\ tasks \subseteq tasks' /\ tasks' \subseteq Task
         /\ \A t \in tasks' : t \in tasks \/ (t.wallet \notin busy /\ t.at \in Fresh)
         /\ \A t \in tasks' : SaneTask(t)
         /\ \A t, u \in tasks' : t.wallet = u.wallet => t = u
         /\ busy' \subseteq Wallets
         /\ \A w \in Wallets : (w \in busy') <=>
              (w \in busy \/ \E t \in tasks' : t.wallet = w)
         /\ next' \in [Wallets -> SUBSET Asked]
         /\ \A w \in Wallets : AtMostOne(next'[w]) /\ Sane(next'[w])
         /\ \A w \in Wallets : \A a \in next[w] \cup after[w] : \A script :
              Reading(a, script) => KeptFor(w, script)'
         /\ \A w \in Wallets : \A a \in asked[w] :
              \/ \E t \in tasks' : t.wallet = w /\ t.at \in Fresh /\ t.asked = a
              \/ \A script : Reading(a, script) => KeptFor(w, script)'
<1> DEFINE free == {w \in Wallets \ busy : asked[w] # {}}
           kept(w) == next[w] \cup after[w] \cup (IF w \in free THEN {} ELSE asked[w])
<1>1. /\ tasks' = tasks \cup UNION {{NewTask(w, a) : a \in asked[w]} : w \in free}
      /\ busy' = busy \cup free
      /\ next' = [w \in Wallets |-> IF kept(w) = {} THEN {} ELSE {And(kept(w))}]
  BY DEF AskAll
<1>2. /\ next \in [Wallets -> SUBSET Asked] /\ busy \subseteq Wallets
      /\ tasks \subseteq Task
  BY DEF TypeInv, RelayTypeOK
<1>3. ASSUME NEW t
      PROVE  t \in tasks' <=>
               t \in tasks \/ \E w \in free : \E a \in asked[w] : t = NewTask(w, a)
  BY <1>1
<1>4. ASSUME NEW w \in free, NEW a \in asked[w]
      PROVE  /\ NewTask(w, a) \in Task
             /\ NewTask(w, a).wallet = w /\ NewTask(w, a).asked = a
             /\ NewTask(w, a).at \in Fresh
             /\ w \in Wallets \ busy /\ SaneTask(NewTask(w, a))
  <2>1. w \in Wallets \ busy /\ a \in Asked
    OBVIOUS
  <2>2. \A t \in tasks : t.wallet # w
    BY <2>1 DEF SyncInv
  <2>3. Sane({a})
    BY DEF Sane
  <2> QED BY <2>1, <2>2, <2>3, NewTaskIs
<1> HIDE DEF free
<1>5. tasks \subseteq tasks'
  BY <1>3
<1>6. ASSUME NEW t \in tasks'
      PROVE  /\ t \in Task /\ SaneTask(t)
             /\ \/ t \in tasks
                \/ /\ t.wallet \in free /\ t.at \in Fresh
                   /\ t.asked \in asked[t.wallet]
                   /\ t = NewTask(t.wallet, t.asked)
  <2>1. CASE t \in tasks
    BY <1>2, <2>1 DEF TypeInv
  <2>2. CASE \E w \in free : \E a \in asked[w] : t = NewTask(w, a)
    <3>0. PICK w \in free : \E a \in asked[w] : t = NewTask(w, a)
      BY <2>2
    <3>1. PICK a \in asked[w] : t = NewTask(w, a)
      BY <3>0
    <3>2. t.wallet = w /\ t.asked = a /\ t \in Task /\ t.at \in Fresh /\ SaneTask(t)
      BY <1>4, <3>1
    <3> QED BY <3>1, <3>2
  <2> QED BY <1>3, <2>1, <2>2
<1>7. \A w \in free : w \in Wallets \ busy /\ asked[w] # {}
  BY DEF free
<1>8. ASSUME NEW t \in tasks', NEW u \in tasks', t.wallet = u.wallet
      PROVE  t = u
  <2>1. \A v \in tasks : v.wallet \in Wallets
    BY <1>2 DEF Task
  <2>4. \A v \in tasks : v.wallet \notin free
    BY <1>7, <2>1 DEF SyncInv
  <2>2. CASE t \in tasks /\ u \in tasks
    BY <1>8, <2>2 DEF SyncInv
  <2>3. CASE t \notin tasks /\ u \notin tasks
    <3>1. t.asked = u.asked
      BY <1>6, <1>7, <1>8, <2>3 DEF AtMostOne
    <3> QED BY <1>6, <1>8, <2>3, <3>1
  <2> QED BY <1>6, <1>8, <2>2, <2>3, <2>4
<1>9. ASSUME NEW w \in Wallets
      PROVE  (w \in busy') <=> (w \in busy \/ \E t \in tasks' : t.wallet = w)
  <2>1. CASE w \in free
    <3>1. PICK a \in asked[w] : TRUE
      BY <1>7, <2>1
    <3>2. NewTask(w, a) \in tasks' /\ NewTask(w, a).wallet = w
      BY <1>3, <1>4, <2>1, <3>1
    <3> QED BY <1>1, <2>1, <3>2
  <2>2. CASE w \notin free
    <3>1. \A t \in tasks' : t.wallet = w => t \in tasks
      BY <1>6, <2>2
    <3> QED BY <1>1, <2>2, <3>1 DEF SyncInv
  <2> QED BY <2>1, <2>2
<1>10. ASSUME NEW w \in Wallets
       PROVE  /\ kept(w) \in SUBSET Asked /\ Sane(kept(w))
              /\ next'[w] = IF kept(w) = {} THEN {} ELSE {And(kept(w))}
  BY <1>1, <1>2 DEF Sane, TypeInv
<1>11. ASSUME NEW w \in Wallets
       PROVE  /\ next'[w] \in SUBSET Asked
              /\ AtMostOne(next'[w]) /\ Sane(next'[w])
              /\ \A a \in kept(w) : \A script :
                   Reading(a, script) => KeptFor(w, script)'
  <2> HIDE DEF kept
  <2>1. CASE kept(w) = {}
    BY <1>10, <2>1 DEF AtMostOne, Sane
  <2>2. CASE kept(w) # {}
    <3>1. /\ And(kept(w)) \in Asked /\ Sane({And(kept(w))})
          /\ \A a \in kept(w) : \A script :
               Reading(a, script) => Reading(And(kept(w)), script)
      BY <1>10, <2>2, AndReads
    <3>2. next'[w] = {And(kept(w))}
      BY <1>10, <2>2
    <3> QED BY <3>1, <3>2 DEF AtMostOne, KeptFor
  <2> QED BY <2>1, <2>2
<1>12. next' \in [Wallets -> SUBSET Asked]
  BY <1>1, <1>11
<1>13. ASSUME NEW w \in Wallets, NEW a \in asked[w]
       PROVE  \/ \E t \in tasks' : t.wallet = w /\ t.at \in Fresh /\ t.asked = a
              \/ \A script : Reading(a, script) => KeptFor(w, script)'
  <2>1. CASE w \in free
    BY <1>3, <1>4, <2>1
  <2>2. CASE w \notin free
    BY <1>11, <2>2
  <2> QED BY <2>1, <2>2
<1>14. \A w \in Wallets : \A a \in next[w] \cup after[w] : \A script :
         Reading(a, script) => KeptFor(w, script)'
  BY <1>11
<1>15. busy' \subseteq Wallets
  BY <1>1, <1>2, <1>7
<1> QED BY <1>5, <1>6, <1>7, <1>8, <1>9, <1>11, <1>12, <1>13, <1>14, <1>15

-----------------------------------------------------------------------------
(***************************************************************************)
(* Types.                                                                  *)
(***************************************************************************)

\* The scenario is one of those that may play out.
LEMMA ScenarioIs ==
  ASSUME scenario \in Scenarios
  PROVE  /\ scenario.wallets \subseteq Wallets
         /\ scenario.heard \subseteq Sayable /\ scenario.heard \subseteq Asked
         /\ scenario.halts \subseteq {"stopped", "gone"}
         /\ scenario.news \in Nat /\ scenario.configs \in Nat
         /\ scenario.retries \in Nat
BY RelayAssumption DEF Sayable

\* The least of two numbers is one of them and no more than either.
LEMMA MinOfTwo ==
  ASSUME NEW a \in Int, NEW b \in Int
  PROVE  Min({a, b}) = IF a <= b THEN a ELSE b
BY DEF Min

\* What happens around the relay keeps the types.
LEMMA AroundTypes == IInv /\ Around /\ UNCHANGED scenario => TypeInv'
<1> SUFFICES ASSUME IInv, Around, UNCHANGED scenario PROVE TypeInv'
  OBVIOUS
<1>0. /\ scenario.wallets \subseteq Wallets
      /\ scenario.heard \subseteq Sayable /\ scenario.heard \subseteq Asked
      /\ scenario.halts \subseteq {"stopped", "gone"}
      /\ scenario.news \in Nat /\ scenario.configs \in Nat /\ EVENT_QUEUE \in Nat
  BY ScenarioIs, RelayAssumption DEF IInv, TypeInv
<1> USE <1>0 DEF IInv, TypeInv, RelayTypeOK, inside, outside, asks
<1>1. CASE Report
  <2>1. PICK w \in scenario.wallets \cup {NO_WALLET}, a \in scenario.heard :
          changes' = Append(changes, [wallet |-> w, asked |-> a])
    BY <1>1 DEF Report
  <2>2. a \in Sayable /\ a \in Asked
    OBVIOUS
  <2>3. changes' \in Seq([wallet : Wallets \cup {NO_WALLET}, asked : Asked])
    BY <2>1, <2>2
  <2>4. \A i \in DOMAIN changes' : changes'[i].asked \in Sayable
    BY <2>1, <2>2
  <2> QED BY <1>1, <2>3, <2>4 DEF Report
<1>2. CASE Reconfigure
  BY <1>2 DEF Reconfigure
<1>3. CASE HostReads
  <2>1. out' \in 0..EVENT_QUEUE
    BY <1>3 DEF HostReads
  <2> QED BY <1>3, <2>1 DEF HostReads
<1>4. CASE HostStops
  BY <1>4 DEF HostStops
<1>5. ASSUME NEW w \in Wallets, AppSyncs(w) PROVE TypeInv'
  <2>1. news[w] + 1 \in 0..scenario.news
    BY <1>5 DEF AppSyncs
  <2>2. news' \in [Wallets -> 0..scenario.news]
    BY <1>5, <2>1 DEF AppSyncs
  <2> QED BY <1>5, <2>2 DEF AppSyncs
<1>6. ASSUME NEW w \in Wallets, AppOffers(w) PROVE TypeInv'
  BY <1>6 DEF AppOffers
<1>7. ASSUME NEW w \in Wallets, AppClaims(w) PROVE TypeInv'
  <2>1. 0 \in 0..scenario.news
    OBVIOUS
  <2>2. news' \in [Wallets -> 0..scenario.news]
    BY <1>7, <2>1 DEF AppClaims
  <2> QED BY <1>7, <2>2 DEF AppClaims
<1> QED BY <1>1, <1>2, <1>3, <1>4, <1>5, <1>6, <1>7 DEF Around

\* The steps of a sync keep the types.
LEMMA SyncTypes ==
  ASSUME IInv, NEW t \in tasks, Goes(t) \/ Acquire(t), UNCHANGED scenario
  PROVE  TypeInv'
<1>0. scenario.news \in Nat /\ SYNCS_AT_ONCE \in Nat
  BY ScenarioIs, RelayAssumption DEF IInv, TypeInv
<1> USE <1>0 DEF IInv, TypeInv, RelayTypeOK, outside, loop, asks, Move
<1>1. t \in Task /\ t.wallet \in Wallets /\ t.asked \in Asked /\ Sane({t.asked})
  BY DEF Task, SaneTask
<1>2. /\ t.at = "run" => permits + 1 \in 0..SYNCS_AT_ONCE
  <2> SUFFICES ASSUME t.at = "run" PROVE permits + 1 \in 0..SYNCS_AT_ONCE
    OBVIOUS
  <2>1. t \in Reads /\ IsFiniteSet(Reads)
    BY DEF Reads, PermitInv
  <2>2. Cardinality(Reads) \in Nat /\ Cardinality(Reads) # 0
    BY <2>1, FS_CardinalityType, FS_EmptySet
  <2> QED BY <2>2 DEF PermitInv
<1>3. ASSUME NEW n \in 0..scenario.news
      PROVE  Min({n + 1, scenario.news}) \in 0..scenario.news
  <2>1. n + 1 \in Int /\ scenario.news \in Int
    OBVIOUS
  <2>2. Min({n + 1, scenario.news}) = IF n + 1 <= scenario.news THEN n + 1
                                     ELSE scenario.news
    BY <2>1, MinOfTwo
  <2> QED BY <2>2
<1>4. ASSUME NEW u \in Task, u.asked = t.asked, u.at # "proofs",
             tasks' = (tasks \ {t}) \cup {u}
      PROVE  tasks' \subseteq Task /\ \A v \in tasks' : SaneTask(v)
  BY <1>1, <1>4 DEF SaneTask
<1>5. CASE HoldOver(t)
  <2>1. /\ [t EXCEPT !.at = "wait"] \in Task
        /\ [t EXCEPT !.at = "wait"].asked = t.asked
        /\ [t EXCEPT !.at = "wait"].at = "wait"
    BY <1>1 DEF Task
  <2> QED BY <1>4, <1>5, <2>1 DEF HoldOver
<1>6. CASE TakeProofs(t)
  <2>1. \A at \in {"wait", "failed"} :
          /\ [t EXCEPT !.at = at] \in Task
          /\ [t EXCEPT !.at = at].asked = t.asked
          /\ [t EXCEPT !.at = at].at # "proofs"
    BY <1>1 DEF Task
  <2>2. /\ [t EXCEPT !.at = "ok", !.found = TRUE] \in Task
        /\ [t EXCEPT !.at = "ok", !.found = TRUE].asked = t.asked
        /\ [t EXCEPT !.at = "ok", !.found = TRUE].at = "ok"
    BY <1>1 DEF Task
  <2>3. tasks' \subseteq Task /\ \A v \in tasks' : SaneTask(v)
    BY <1>4, <1>6, <2>1, <2>2 DEF TakeProofs
  <2>4. news' \in [Wallets -> 0..scenario.news]
    <3>1. Min({news[t.wallet] + 1, scenario.news}) \in 0..scenario.news
      BY <1>1, <1>3
    <3> QED BY <1>1, <1>6, <3>1 DEF TakeProofs
  <2>5. due' \in [Wallets -> SUBSET WalletScripts]
    <3>1. /\ due \in [Wallets -> SUBSET WalletScripts]
          /\ \/ due' = due
             \/ due' = [due EXCEPT ![t.wallet] = @ \ t.asked.scripts]
      BY <1>6 DEF TakeProofs
    <3> QED BY ONLY <1>1, <3>1
  <2> QED BY <1>6, <2>3, <2>4, <2>5 DEF TakeProofs
<1>7. CASE SyncFinds(t)
  <2>1. /\ [t EXCEPT !.at = "ok", !.covers = {}, !.found = TRUE] \in Task
        /\ [t EXCEPT !.at = "ok", !.covers = {}, !.found = TRUE].asked = t.asked
        /\ [t EXCEPT !.at = "ok", !.covers = {}, !.found = TRUE].at = "ok"
    BY <1>1 DEF Task
  <2>2. tasks' \subseteq Task /\ \A v \in tasks' : SaneTask(v)
    BY <1>4, <1>7, <2>1 DEF SyncFinds
  <2>3. news' \in [Wallets -> 0..scenario.news]
    BY <1>1, <1>3, <1>7 DEF SyncFinds
  <2> QED BY <1>2, <1>7, <2>2, <2>3 DEF SyncFinds
<1>8. CASE SyncFindsNothing(t)
  <2>1. /\ [t EXCEPT !.at = "ok", !.covers = {}] \in Task
        /\ [t EXCEPT !.at = "ok", !.covers = {}].asked = t.asked
        /\ [t EXCEPT !.at = "ok", !.covers = {}].at = "ok"
    BY <1>1 DEF Task
  <2>3. /\ [t EXCEPT !.at = "wait", !.covers = {}, !.tries = @ + 1] \in Task
        /\ [t EXCEPT !.at = "wait", !.covers = {}, !.tries = @ + 1].asked = t.asked
        /\ [t EXCEPT !.at = "wait", !.covers = {}, !.tries = @ + 1].at = "wait"
    <3> DEFINE n == t.tries + 1
               u == [t EXCEPT !.at = "wait", !.covers = {}]
    <3>0. n \in Nat
      BY <1>1 DEF Task
    <3>1. u \in Task /\ u.tries = t.tries /\ u.asked = t.asked /\ u.at = "wait"
      BY ONLY <1>1 DEF Task
    <3>2. [t EXCEPT !.at = "wait", !.covers = {}, !.tries = @ + 1]
            = [u EXCEPT !.tries = n]
      BY <1>1 DEF Task
    <3> HIDE DEF n, u
    <3>3. /\ [u EXCEPT !.tries = n] \in Task
          /\ [u EXCEPT !.tries = n].asked = u.asked
          /\ [u EXCEPT !.tries = n].at = u.at
      BY ONLY <3>0, <3>1 DEF Task
    <3> QED BY <3>1, <3>2, <3>3
  <2>2. tasks' \subseteq Task /\ \A v \in tasks' : SaneTask(v)
    BY <1>4, <1>8, <2>1, <2>3 DEF SyncFindsNothing
  <2> QED BY <1>2, <1>8, <2>2 DEF SyncFindsNothing
<1>9. CASE SyncFails(t)
  <2>1. /\ [t EXCEPT !.at = "failed", !.covers = {}] \in Task
        /\ [t EXCEPT !.at = "failed", !.covers = {}].asked = t.asked
        /\ [t EXCEPT !.at = "failed", !.covers = {}].at = "failed"
        /\ t.covers \subseteq WalletScripts
    BY <1>1 DEF Task
  <2>2. tasks' \subseteq Task /\ \A v \in tasks' : SaneTask(v)
    BY <1>4, <1>9, <2>1 DEF SyncFails
  <2>3. due' \in [Wallets -> SUBSET WalletScripts]
    BY <1>1, <1>9, <2>1 DEF SyncFails
  <2> QED BY <1>2, <1>9, <2>2, <2>3 DEF SyncFails
<1>10. CASE Acquire(t)
  <2> DEFINE covers == due[t.wallet] \cap ReadsFor(t.asked)
  <2>1. covers \subseteq WalletScripts
    BY <1>1
  <2>2. /\ [t EXCEPT !.at = "run", !.covers = covers] \in Task
        /\ [t EXCEPT !.at = "run", !.covers = covers].asked = t.asked
        /\ [t EXCEPT !.at = "run", !.covers = covers].at = "run"
    BY <1>1, <2>1 DEF Task
  <2>3. tasks' \subseteq Task /\ \A v \in tasks' : SaneTask(v)
    BY <1>4, <1>10, <2>2 DEF Acquire
  <2>4. due' \in [Wallets -> SUBSET WalletScripts]
    BY <1>1, <1>10 DEF Acquire
  <2> QED BY <1>10, <2>3, <2>4, SMTT(30) DEF Acquire
<1> QED BY <1>5, <1>6, <1>7, <1>8, <1>9, <1>10 DEF Goes

-----------------------------------------------------------------------------
(***************************************************************************)
(* What a step leaves alone.                                               *)
(***************************************************************************)

\* What is still to be run, spelled out.
LEMMA ToRunIs ==
  ASSUME NEW w, NEW a
  PROVE  a \in ToRun(w) <=>
           \/ \E t \in tasks : /\ t.wallet = w /\ t.at \notin {"run", "ok"}
                               /\ t.asked = a
           \/ a \in next[w] \/ a \in owed[w]
BY DEF ToRun

\* A step that touches none of what is asked keeps what is said of it.
LEMMA AsksKept ==
  ASSUME IInv, UNCHANGED <<tasks, permits, next, owed, due>>
  PROVE  PermitInv' /\ DueInv' /\ CoversInv'
BY DEF IInv, PermitInv, DueInv, CoversInv, Reads, ToRun

\* What happens around the relay keeps the invariant.
LEMMA AroundKeeps == IInv /\ Around /\ UNCHANGED scenario => IInv'
<1> SUFFICES ASSUME IInv, Around, UNCHANGED scenario PROVE IInv'
  OBVIOUS
<1>1. TypeInv'
  BY AroundTypes
<1>2. UNCHANGED inside /\ out' \in {out, out - 1}
  BY DEF Around, Report, Reconfigure, HostReads, HostStops, AppSyncs,
     AppOffers,
         AppClaims, outside
<1>3. UNCHANGED <<tasks, permits, next, owed, due, busy, relay, lost>>
  BY <1>2 DEF inside, asks
<1>4. PermitInv' /\ DueInv' /\ CoversInv'
  BY <1>3, AsksKept
<1>5. SyncInv'
  BY <1>3 DEF IInv, SyncInv
<1>6. RoomInv'
  <2>1. out \in Int /\ relay.room \in Int /\ EVENT_QUEUE \in Int
    BY RelayAssumption DEF IInv, TypeInv, RelayTypeOK, Relay
  <2> QED BY <1>2, <1>3, <2>1 DEF IInv, RoomInv
<1> QED BY <1>1, <1>4, <1>5, <1>6 DEF IInv

-----------------------------------------------------------------------------
(***************************************************************************)
(* The steps of a sync.                                                    *)
(***************************************************************************)

\* A sync goes from one state to another; it stays its wallet's.
LEMMA MovedTask ==
  ASSUME IInv, NEW t \in tasks, NEW u, u.wallet = t.wallet, Move(t, u),
         UNCHANGED <<next, owed, busy, relay>>
  PROVE  SyncInv'
<1>1. \A v : v \in tasks' <=> (v \in tasks /\ v # t) \/ v = u
  BY DEF Move
<1>2. \A v, x \in tasks' : v.wallet = x.wallet => v = x
  BY <1>1 DEF IInv, SyncInv
<1>3. \A w \in Wallets : (\E v \in tasks' : v.wallet = w)
                           <=> (\E v \in tasks : v.wallet = w)
  BY <1>1
<1>4. relay.joined => \A v \in tasks' : v.wallet # relay.wallet
  BY <1>1 DEF IInv, SyncInv
<1> QED BY <1>2, <1>3, <1>4 DEF IInv, SyncInv

\* The permits follow the syncs that run.
LEMMA MovedPermits ==
  ASSUME IInv, NEW t \in tasks, NEW u, Move(t, u),
         \/ t.at # "run" /\ u.at # "run" /\ permits' = permits
         \/ t.at = "run" /\ u.at # "run" /\ permits' = permits + 1
         \/ /\ t.at # "run" /\ u.at = "run" /\ permits' = permits - 1
            /\ u \notin tasks
  PROVE  PermitInv'
<1>1. \A v : v \in tasks' <=> (v \in tasks /\ v # t) \/ v = u
  BY DEF Move
<1>2. /\ IsFiniteSet(Reads) /\ Cardinality(Reads) \in Nat
      /\ permits + Cardinality(Reads) = SYNCS_AT_ONCE
      /\ permits \in Int /\ SYNCS_AT_ONCE \in Nat
  BY FS_CardinalityType, RelayAssumption
     DEF IInv, PermitInv, TypeInv, RelayTypeOK
<1>3. CASE t.at # "run" /\ u.at # "run" /\ permits' = permits
  <2>1. Reads' = Reads
    BY <1>1, <1>3 DEF Reads
  <2> QED BY <1>2, <1>3, <2>1 DEF PermitInv
<1>4. CASE t.at = "run" /\ u.at # "run" /\ permits' = permits + 1
  <2>1. Reads' = Reads \ {t} /\ t \in Reads
    BY <1>1, <1>4 DEF Reads
  <2>2. IsFiniteSet(Reads') /\ Cardinality(Reads') = Cardinality(Reads) - 1
    BY <1>2, <2>1, FS_RemoveElement
  <2> QED BY <1>2, <1>4, <2>2 DEF PermitInv
<1>5. CASE /\ t.at # "run" /\ u.at = "run" /\ permits' = permits - 1
           /\ u \notin tasks
  <2>1. Reads' = Reads \cup {u} /\ u \notin Reads
    BY <1>1, <1>5 DEF Reads
  <2>2. IsFiniteSet(Reads') /\ Cardinality(Reads') = Cardinality(Reads) + 1
    BY <1>2, <2>1, FS_AddElement
  <2> QED BY <1>2, <1>5, <2>2 DEF PermitInv
<1> QED BY <1>3, <1>4, <1>5

\* What a sync that goes from t to u was asked is as well kept: nothing it is
\* no longer going to read is due.
LEMMA MovedDue ==
  ASSUME IInv, NEW t \in tasks, NEW u, u.wallet = t.wallet, u.asked = t.asked,
         Move(t, u), UNCHANGED <<next, owed>>,
         \A w \in Wallets : w # t.wallet => due'[w] = due[w],
         \A script \in due'[t.wallet] :
           \/ /\ script \in due[t.wallet]
              /\ u.at \in {"run", "ok"} =>
                   t.at \in {"run", "ok"} \/ ~ Reading(t.asked, script)
           \/ /\ script \in t.covers /\ t.at = "run"
              /\ u.at \notin {"run", "ok"}
  PROVE  DueInv'
<1>1. \A v : v \in tasks' <=> (v \in tasks /\ v # t) \/ v = u
  BY DEF Move
<1> SUFFICES ASSUME NEW w \in Wallets, NEW script \in due'[w]
             PROVE  \E a \in ToRun(w)' : Reading(a, script)
  BY DEF DueInv
<1>2. \A a : a \in ToRun(w)' <=>
        \/ \E v \in tasks' : /\ v.wallet = w /\ v.at \notin {"run", "ok"}
                             /\ v.asked = a
        \/ a \in next[w] \/ a \in owed[w]
  BY DEF ToRun
<1>3. CASE script \in due[w] /\ (w = t.wallet => (u.at \in {"run", "ok"} =>
             t.at \in {"run", "ok"} \/ ~ Reading(t.asked, script)))
  <2>1. PICK a \in ToRun(w) : Reading(a, script)
    BY <1>3 DEF IInv, DueInv
  <2>2. CASE a \in next[w] \/ a \in owed[w]
    BY <1>2, <2>1, <2>2
  <2>3. CASE \E v \in tasks : /\ v.wallet = w /\ v.at \notin {"run", "ok"}
                              /\ v.asked = a
    <3>1. PICK v \in tasks : /\ v.wallet = w /\ v.at \notin {"run", "ok"}
                              /\ v.asked = a
      BY <2>3
    <3>2. CASE v # t
      BY <1>1, <1>2, <2>1, <3>1, <3>2
    <3>3. CASE v = t
      <4>1. u.at \notin {"run", "ok"} /\ u \in tasks'
        BY <1>1, <1>3, <2>1, <3>1, <3>3
      <4> QED BY <1>2, <2>1, <3>1, <3>3, <4>1
    <3> QED BY <3>2, <3>3
  <2> QED BY <2>2, <2>3, ToRunIs
<1>4. CASE /\ w = t.wallet /\ script \in t.covers /\ t.at = "run"
           /\ u.at \notin {"run", "ok"}
  <2>1. \/ Reading(t.asked, script)
        \/ \E a \in next[w] \cup owed[w] : Reading(a, script)
    BY <1>4 DEF IInv, CoversInv, Reads
  <2>2. CASE Reading(t.asked, script)
    BY <1>1, <1>2, <1>4, <2>2
  <2> QED BY <1>2, <2>1, <2>2
<1> QED BY <1>3, <1>4

\* What a sync that runs covers is what was due.
LEMMA MovedCovers ==
  ASSUME IInv, NEW t \in tasks, NEW u, u.wallet = t.wallet, u.asked = t.asked,
         Move(t, u), UNCHANGED <<next, owed>>,
         u.at = "run" => /\ t.at \notin {"run", "ok"}
                         /\ u.covers \subseteq due[t.wallet]
  PROVE  CoversInv'
<1>1. \A v : v \in tasks' <=> (v \in tasks /\ v # t) \/ v = u
  BY DEF Move
<1> SUFFICES ASSUME NEW v \in tasks', v.at = "run", NEW script \in v.covers
             PROVE  \/ Reading(v.asked, script)
                    \/ \E a \in next[v.wallet] \cup owed[v.wallet] :
                         Reading(a, script)
  BY DEF CoversInv, Reads
<1>2. CASE v \in tasks
  BY <1>2 DEF IInv, CoversInv, Reads
<1>3. CASE v = u
  <2>1. script \in due[t.wallet] /\ t.wallet \in Wallets
    BY <1>3 DEF IInv, TypeInv, RelayTypeOK, Task
  <2>2. PICK a \in ToRun(t.wallet) : Reading(a, script)
    BY <2>1 DEF IInv, DueInv
  <2>3. ASSUME NEW x \in tasks, x.wallet = t.wallet PROVE x = t
    BY <2>3 DEF IInv, SyncInv
  <2> QED BY <1>3, <2>2, <2>3, ToRunIs
<1> QED BY <1>1, <1>2, <1>3

\* The steps of a sync keep the invariant.
LEMMA SyncKeeps ==
  ASSUME IInv, NEW t \in tasks, Goes(t) \/ Acquire(t), UNCHANGED scenario
  PROVE  IInv'
<1>0. TypeInv'
  BY SyncTypes
<1>1. /\ t \in Task /\ t.wallet \in Wallets /\ t.asked \in Asked
      /\ due \in [Wallets -> SUBSET WalletScripts] /\ SaneTask(t)
      /\ permits \in Int
  BY DEF IInv, TypeInv, RelayTypeOK, Task
<1>2. UNCHANGED <<next, owed, busy, relay, lost, out>>
  BY DEF Goes, HoldOver, TakeProofs, Acquire, SyncFinds, SyncFindsNothing,
         SyncFails, loop, asks
<1>3. RoomInv'
  BY <1>2 DEF IInv, RoomInv
<1>4. SUFFICES \E u : /\ u.wallet = t.wallet /\ u.asked = t.asked /\ Move(t, u)
                      /\ PermitInv' /\ DueInv' /\ CoversInv'
  BY <1>0, <1>2, <1>3, <1>4, MovedTask DEF IInv
<1>5. CASE HoldOver(t)
  <2> DEFINE u == [t EXCEPT !.at = "wait"]
  <2>1. u.wallet = t.wallet /\ u.asked = t.asked /\ u.at = "wait" /\ t.at = "hold"
    BY <1>1, <1>5 DEF Task, HoldOver
  <2>2. Move(t, u) /\ UNCHANGED <<permits, due>>
    BY <1>5 DEF HoldOver
  <2> HIDE DEF u
  <2>3. DueInv' /\ CoversInv' /\ PermitInv'
    BY <1>2, <2>1, <2>2, MovedDue, MovedCovers, MovedPermits
  <2> QED BY <2>1, <2>2, <2>3
<1>6. CASE TakeProofs(t)
  <2>0. t.at = "proofs" /\ UNCHANGED permits
    BY <1>6 DEF TakeProofs
  <2>1. CASE /\ Move(t, [t EXCEPT !.at = "ok", !.found = TRUE])
             /\ due' = [due EXCEPT ![t.wallet] = @ \ t.asked.scripts]
    <3> DEFINE u == [t EXCEPT !.at = "ok", !.found = TRUE]
    <3>1. u.wallet = t.wallet /\ u.asked = t.asked /\ u.at = "ok"
      BY <1>1 DEF Task
    <3>2. Move(t, u)
      BY <2>1
    <3> HIDE DEF u
    <3>3. \A script : Reading(t.asked, script) => script \in t.asked.scripts
      BY <1>1, <2>0 DEF SaneTask, Sane, Reading, ReadsFor
    <3>4. /\ \A w \in Wallets : w # t.wallet => due'[w] = due[w]
          /\ due'[t.wallet] = due[t.wallet] \ t.asked.scripts
      BY <1>1, <2>1
    <3>5. DueInv'
      BY <1>2, <3>1, <3>2, <3>3, <3>4, MovedDue
    <3>6. CoversInv' /\ PermitInv'
      BY <1>2, <2>0, <3>1, <3>2, MovedCovers, MovedPermits
    <3> QED BY <3>1, <3>2, <3>5, <3>6
  <2>2. CASE /\ \E at \in {"wait", "failed"} : Move(t, [t EXCEPT !.at = at])
             /\ UNCHANGED due
    <3>0. PICK at \in {"wait", "failed"} : Move(t, [t EXCEPT !.at = at])
      BY <2>2
    <3> DEFINE u == [t EXCEPT !.at = at]
    <3>1. u.wallet = t.wallet /\ u.asked = t.asked /\ u.at = at
      BY <1>1 DEF Task
    <3>2. Move(t, u) /\ UNCHANGED due /\ u.at \notin {"run", "ok"}
      BY <2>2, <3>0, <3>1
    <3> HIDE DEF u
    <3>3. DueInv' /\ CoversInv' /\ PermitInv'
      BY <1>2, <2>0, <3>1, <3>2, MovedDue, MovedCovers, MovedPermits
    <3> QED BY <3>1, <3>2, <3>3
  <2> QED BY <1>6, <2>1, <2>2 DEF TakeProofs
<1>7. CASE Acquire(t)
  <2> DEFINE covers == due[t.wallet] \cap ReadsFor(t.asked)
             u == [t EXCEPT !.at = "run", !.covers = covers]
  <2>1. /\ u.wallet = t.wallet /\ u.asked = t.asked /\ u.at = "run"
        /\ u.covers = covers /\ t.at = "wait"
    BY <1>1, <1>7 DEF Task, Acquire
  <2>2. /\ Move(t, u) /\ permits' = permits - 1
        /\ due' = [due EXCEPT ![t.wallet] = @ \ covers]
    BY <1>7 DEF Acquire
  <2>3. /\ \A w \in Wallets : w # t.wallet => due'[w] = due[w]
        /\ due'[t.wallet] = due[t.wallet] \ covers
    BY <1>1, <2>2
  <2>4. \A script \in due'[t.wallet] :
          script \in due[t.wallet] /\ ~ Reading(t.asked, script)
    BY <2>3 DEF Reading
  <2>5. u \notin tasks
    BY <2>1 DEF IInv, SyncInv
  <2>6. u.covers \subseteq due[t.wallet]
    BY <2>1
  <2> HIDE DEF u, covers
  <2>7. DueInv' /\ CoversInv' /\ PermitInv'
    BY <1>2, <2>1, <2>2, <2>3, <2>4, <2>5, <2>6, MovedDue, MovedCovers,
       MovedPermits
  <2> QED BY <2>1, <2>2, <2>7
<1>8. CASE SyncFinds(t)
  <2> DEFINE u == [t EXCEPT !.at = "ok", !.covers = {}, !.found = TRUE]
  <2>1. u.wallet = t.wallet /\ u.asked = t.asked /\ u.at = "ok" /\ t.at = "run"
    BY <1>1, <1>8 DEF Task, SyncFinds
  <2>2. Move(t, u) /\ permits' = permits + 1 /\ UNCHANGED due
    BY <1>8 DEF SyncFinds
  <2> HIDE DEF u
  <2>3. DueInv' /\ CoversInv' /\ PermitInv'
    BY <1>2, <2>1, <2>2, MovedDue, MovedCovers, MovedPermits
  <2> QED BY <2>1, <2>2, <2>3
<1>9. CASE SyncFindsNothing(t)
  <2>0. t.at = "run" /\ permits' = permits + 1 /\ UNCHANGED due
    BY <1>9 DEF SyncFindsNothing
  <2>1. PICK u : /\ u.wallet = t.wallet /\ u.asked = t.asked
                 /\ u.at \in {"ok", "wait"} /\ Move(t, u)
    <3>1. \/ Move(t, [t EXCEPT !.at = "ok", !.covers = {}])
          \/ Move(t, [t EXCEPT !.at = "wait", !.covers = {}, !.tries = @ + 1])
      BY <1>9 DEF SyncFindsNothing
    <3>2. /\ [t EXCEPT !.at = "ok", !.covers = {}].wallet = t.wallet
          /\ [t EXCEPT !.at = "ok", !.covers = {}].asked = t.asked
          /\ [t EXCEPT !.at = "ok", !.covers = {}].at = "ok"
      BY <1>1 DEF Task
    <3>3. /\ [t EXCEPT !.at = "wait", !.covers = {}, !.tries = @ + 1].wallet = t.wallet
          /\ [t EXCEPT !.at = "wait", !.covers = {}, !.tries = @ + 1].asked = t.asked
          /\ [t EXCEPT !.at = "wait", !.covers = {}, !.tries = @ + 1].at = "wait"
      BY <1>1 DEF Task
    <3> QED BY <3>1, <3>2, <3>3
  <2>2. DueInv' /\ CoversInv' /\ PermitInv'
    BY <1>2, <2>0, <2>1, MovedDue, MovedCovers, MovedPermits
  <2> QED BY <2>1, <2>2
<1>10. CASE SyncFails(t)
  <2> DEFINE u == [t EXCEPT !.at = "failed", !.covers = {}]
  <2>1. u.wallet = t.wallet /\ u.asked = t.asked /\ u.at = "failed" /\ t.at = "run"
    BY <1>1, <1>10 DEF Task, SyncFails
  <2>2. /\ Move(t, u) /\ permits' = permits + 1
        /\ due' = [due EXCEPT ![t.wallet] = @ \cup t.covers]
    BY <1>10 DEF SyncFails
  <2>3. /\ \A w \in Wallets : w # t.wallet => due'[w] = due[w]
        /\ due'[t.wallet] = due[t.wallet] \cup t.covers
    BY <1>1, <2>2
  <2> HIDE DEF u
  <2>4. DueInv' /\ CoversInv' /\ PermitInv'
    BY <1>2, <2>1, <2>2, <2>3, MovedDue, MovedCovers, MovedPermits
  <2> QED BY <2>1, <2>2, <2>4
<1> QED BY <1>5, <1>6, <1>7, <1>8, <1>9, <1>10 DEF Goes

-----------------------------------------------------------------------------
(***************************************************************************)
(* The arms of the loop that ask.                                          *)
(***************************************************************************)

\* Where a wallet's requests go when it is asked for: what was owed stays so
\* or is asked, and what is due from now on is asked as well.
LEMMA AskAllKeeps ==
  ASSUME IInv,
         NEW asked \in [Wallets -> SUBSET Asked],
         NEW after \in [Wallets -> SUBSET Asked],
         \A w \in Wallets : /\ AtMostOne(asked[w])
                            /\ Sane(asked[w]) /\ Sane(after[w]),
         AskAll(asked, after),
         relay.joined = FALSE, relay'.joined = FALSE, UNCHANGED permits,
         \A w \in Wallets : AtMostOne(owed'[w]),
         \A w \in Wallets : \A a \in owed[w] : a \in owed'[w] \/ a \in asked[w],
         \A w \in Wallets : \A script \in due'[w] :
           \/ script \in due[w]
           \/ \E a \in asked[w] \cup after[w] : Reading(a, script)
  PROVE  SyncInv' /\ PermitInv' /\ DueInv' /\ CoversInv'
<1>1. /\ tasks \subseteq tasks' /\ tasks' \subseteq Task
      /\ \A t \in tasks' : t \in tasks \/ (t.wallet \notin busy /\ t.at \in Fresh)
      /\ \A t, u \in tasks' : t.wallet = u.wallet => t = u
      /\ \A w \in Wallets : (w \in busy') <=>
           (w \in busy \/ \E t \in tasks' : t.wallet = w)
      /\ \A w \in Wallets : AtMostOne(next'[w])
      /\ \A w \in Wallets : \A a \in next[w] \cup after[w] : \A script :
           Reading(a, script) => KeptFor(w, script)'
      /\ \A w \in Wallets : \A a \in asked[w] :
           \/ \E t \in tasks' : t.wallet = w /\ t.at \in Fresh /\ t.asked = a
           \/ \A script : Reading(a, script) => KeptFor(w, script)'
  BY AskAllDoes DEF IInv
<1>2. SyncInv'
  <2>1. \A w \in Wallets : (w \in busy') <=> (\E t \in tasks' : t.wallet = w)
    BY <1>1 DEF IInv, SyncInv
  <2> QED BY <1>1, <2>1 DEF SyncInv
<1>3. Reads' = Reads
  BY <1>1 DEF Reads, Fresh
<1>4. PermitInv'
  BY <1>3 DEF IInv, PermitInv
<1>5. ASSUME NEW w \in Wallets, NEW a, NEW script, Reading(a, script),
             a \in ToRun(w) \/ a \in asked[w] \/ a \in after[w]
      PROVE  \E b \in ToRun(w)' : Reading(b, script)
  <2>0. \A b : b \in ToRun(w)' <=>
          \/ \E t \in tasks' : /\ t.wallet = w /\ t.at \notin {"run", "ok"}
                               /\ t.asked = b
          \/ b \in next'[w] \/ b \in owed'[w]
    BY DEF ToRun
  <2>1. CASE a \in next[w] \/ a \in after[w]
    <3>1. \E b \in next'[w] : Reading(b, script)
      BY <1>1, <1>5, <2>1 DEF KeptFor
    <3> QED BY <2>0, <3>1
  <2>2. CASE a \in asked[w]
    <3>1. CASE \E t \in tasks' : t.wallet = w /\ t.at \in Fresh /\ t.asked = a
      BY <1>5, <2>0, <3>1 DEF Fresh
    <3>2. CASE \E b \in next'[w] : Reading(b, script)
      BY <2>0, <3>2
    <3> QED BY <1>1, <1>5, <2>2, <3>1, <3>2 DEF KeptFor
  <2>3. CASE a \in owed'[w]
    BY <1>5, <2>0, <2>3
  <2>4. CASE \E t \in tasks : /\ t.wallet = w /\ t.at \notin {"run", "ok"}
                              /\ t.asked = a
    BY <1>1, <1>5, <2>0, <2>4
  <2> QED BY <1>5, <2>1, <2>2, <2>3, <2>4, ToRunIs
<1>6. DueInv'
  <2> SUFFICES ASSUME NEW w \in Wallets, NEW script \in due'[w]
               PROVE  \E b \in ToRun(w)' : Reading(b, script)
    BY DEF DueInv
  <2>1. PICK a : /\ a \in ToRun(w) \/ a \in asked[w] \/ a \in after[w]
                 /\ Reading(a, script)
    BY DEF IInv, DueInv
  <2> QED BY <1>5, <2>1
<1>7. CoversInv'
  <2> SUFFICES ASSUME NEW t \in Reads', NEW script \in t.covers,
                      ~ Reading(t.asked, script)
               PROVE  \E b \in next'[t.wallet] \cup owed'[t.wallet] :
                        Reading(b, script)
    BY DEF CoversInv
  <2>1. /\ t \in tasks /\ t \in tasks' /\ t.at = "run" /\ t.wallet \in Wallets
        /\ t \in Reads
    BY <1>1, <1>3 DEF Reads, Task, IInv, TypeInv, RelayTypeOK
  <2>2. PICK a \in next[t.wallet] \cup owed[t.wallet] : Reading(a, script)
    BY <2>1 DEF IInv, CoversInv
  <2>3. CASE a \in next[t.wallet]
    BY <1>1, <2>1, <2>2, <2>3 DEF KeptFor
  <2>4. CASE a \in owed'[t.wallet]
    BY <2>2, <2>4
  <2>5. CASE a \in asked[t.wallet]
    <3>1. ~ \E u \in tasks' : u.wallet = t.wallet /\ u.at \in Fresh
      BY <1>1, <2>1 DEF Fresh
    <3> QED BY <1>1, <2>1, <2>2, <2>5, <3>1 DEF KeptFor
  <2> QED BY <2>1, <2>2, <2>3, <2>4, <2>5
<1> QED BY <1>2, <1>4, <1>6, <1>7

\* The events left once the oldest is taken.
LEMMA TailIs ==
  ASSUME NEW S, NEW q \in Seq(S), q # << >>
  PROVE  /\ Head(q) \in S /\ Tail(q) \in Seq(S)
         /\ 1 \in DOMAIN q /\ Head(q) = q[1]
         /\ \A i \in DOMAIN Tail(q) : i + 1 \in DOMAIN q /\ Tail(q)[i] = q[i + 1]
OBVIOUS

\* A change heard keeps the invariant.
LEMMA TakeChangeKeeps == IInv /\ TakeChange /\ UNCHANGED scenario => IInv'
<1> SUFFICES ASSUME IInv, TakeChange, UNCHANGED scenario PROVE IInv'
  OBVIOUS
<1> DEFINE e == Head(changes)
           asked == [Nothing EXCEPT ![e.wallet] = {e.asked}]
<1>1. /\ changes \in Seq([wallet : Wallets \cup {NO_WALLET}, asked : Asked])
      /\ changes # << >> /\ changes' = Tail(changes)
      /\ relay.at = "select" /\ e.wallet # NO_WALLET
      /\ AskAll(asked, Nothing)
      /\ due' = [due EXCEPT ![e.wallet] = @ \cup ReadsFor(e.asked)]
      /\ UNCHANGED <<config, offered, syncing, host, permits, owed, futile,
                     tried, rechecked, seen, relay, news, out, lost>>
  BY DEF TakeChange, IInv, TypeInv, RelayTypeOK
<1>2. /\ e \in [wallet : Wallets \cup {NO_WALLET}, asked : Asked]
      /\ e.asked \in Sayable
      /\ changes' \in Seq([wallet : Wallets \cup {NO_WALLET}, asked : Asked])
      /\ \A i \in DOMAIN changes' : changes'[i].asked \in Sayable
  <2>1. \A i \in DOMAIN changes : changes[i].asked \in Sayable
    BY DEF IInv, TypeInv
  <2>2. 1 \in DOMAIN changes /\ e = changes[1]
    BY <1>1, TailIs
  <2>3. \A i \in DOMAIN changes' : /\ i + 1 \in DOMAIN changes
                                   /\ changes'[i] = changes[i + 1]
    BY <1>1, TailIs
  <2>4. /\ e \in [wallet : Wallets \cup {NO_WALLET}, asked : Asked]
        /\ changes' \in Seq([wallet : Wallets \cup {NO_WALLET}, asked : Asked])
    BY <1>1, TailIs
  <2> HIDE DEF e
  <2> QED BY <2>1, <2>2, <2>3, <2>4
<1> HIDE DEF e
<1>3. e.wallet \in Wallets /\ e.asked \in Asked
  BY <1>1, <1>2
<1>4. /\ asked \in [Wallets -> SUBSET Asked] /\ Nothing \in [Wallets -> SUBSET Asked]
      /\ \A w \in Wallets : asked[w] = IF w = e.wallet THEN {e.asked} ELSE {}
      /\ \A w \in Wallets : Nothing[w] = {}
  BY <1>3 DEF Nothing
<1>5. \A w \in Wallets : /\ AtMostOne(asked[w])
                         /\ Sane(asked[w]) /\ Sane(Nothing[w])
  BY <1>2, <1>4 DEF AtMostOne, Sane, Sayable
<1> HIDE DEF asked
<1>6. relay.joined = FALSE
  BY <1>1 DEF IInv, SyncInv, TypeInv, RelayTypeOK, Relay, Announcing
<1>7. /\ due \in [Wallets -> SUBSET WalletScripts]
      /\ ReadsFor(e.asked) \subseteq WalletScripts
      /\ \A script \in ReadsFor(e.asked) : Reading(e.asked, script)
  BY <1>2, <1>3 DEF IInv, TypeInv, ReadsFor, Reading, Sayable, Asked
<1>8. \A w \in Wallets : \A script \in due'[w] :
        \/ script \in due[w]
        \/ \E a \in asked[w] \cup Nothing[w] : Reading(a, script)
  BY <1>1, <1>3, <1>4, <1>7
<1>9. /\ \A w \in Wallets : AtMostOne(owed'[w])
      /\ \A w \in Wallets : \A a \in owed[w] : a \in owed'[w] \/ a \in asked[w]
  BY <1>1 DEF IInv, SyncInv
<1>10. SyncInv' /\ PermitInv' /\ DueInv' /\ CoversInv'
  BY <1>1, <1>4, <1>5, <1>6, <1>8, <1>9, AskAllKeeps, ZenonT(40)
<1>11. due' \in [Wallets -> SUBSET WalletScripts]
  BY <1>1, <1>3, <1>7
<1>12. TypeInv'
  <2>1. /\ tasks' \subseteq Task /\ \A t \in tasks' : SaneTask(t)
        /\ busy' \subseteq Wallets /\ next' \in [Wallets -> SUBSET Asked]
        /\ \A w \in Wallets : Sane(next'[w])
    BY <1>1, <1>4, <1>5, AskAllDoes DEF IInv
  <2> QED BY <1>1, <1>2, <1>11, <2>1 DEF IInv, TypeInv, RelayTypeOK
<1>13. RoomInv'
  BY <1>1 DEF IInv, RoomInv
<1> QED BY <1>10, <1>12, <1>13 DEF IInv

\* What a look comes to: nothing, or what is owed and looked for is asked.
LEMMA LookForKeeps ==
  ASSUME IInv, NEW complete, NEW vanished, NEW scripts \in SUBSET WalletScripts,
         LookFor(complete, vanished, scripts),
         relay.joined = FALSE, relay'.joined = FALSE, UNCHANGED permits
  PROVE  /\ SyncInv' /\ PermitInv' /\ DueInv' /\ CoversInv'
         /\ tasks' \subseteq Task /\ \A t \in tasks' : SaneTask(t)
         /\ busy' \subseteq Wallets /\ next' \in [Wallets -> SUBSET Asked]
         /\ \A w \in Wallets : Sane(next'[w])
         /\ due' \in [Wallets -> SUBSET WalletScripts]
<1> DEFINE whole(w) == IF w \in complete THEN {Ask("Started", {})} ELSE {}
           named(w) == IF w \in vanished THEN {Ask("NewBlock", scripts)} ELSE {}
           asked == [w \in Wallets |-> FirstOf(owed[w], whole(w), named(w))]
           after == [w \in Wallets |-> AfterIt(owed[w], whole(w), named(w))]
<1>1. /\ AskAll(asked, after) /\ owed' = Nothing
      /\ due' = [w \in Wallets |-> IF w \in complete THEN WalletScripts ELSE due[w]]
  BY DEF LookFor
<1>2. \A w \in Wallets : owed[w] \in SUBSET Asked /\ Sane(owed[w]) /\ AtMostOne(owed[w])
  BY DEF IInv, TypeInv, RelayTypeOK, SyncInv
<1>3. ASSUME NEW reason \in Reasons, NEW S \in SUBSET WalletScripts
      PROVE  Ask(reason, S) \in Asked /\ ~ Ask(reason, S).proven
  BY <1>3 DEF Ask, Asked
<1>4. ASSUME NEW w \in Wallets
      PROVE  /\ whole(w) \in SUBSET Asked /\ Sane(whole(w)) /\ AtMostOne(whole(w))
             /\ named(w) \in SUBSET Asked /\ Sane(named(w)) /\ AtMostOne(named(w))
  <2>1. /\ Ask("Started", {}) \in Asked /\ ~ Ask("Started", {}).proven
        /\ Ask("NewBlock", scripts) \in Asked /\ ~ Ask("NewBlock", scripts).proven
    BY <1>3 DEF Reasons
  <2> QED BY <2>1 DEF Sane, AtMostOne
<1>5. \A w \in Wallets : w \in complete => Ask("Started", {}) \in whole(w)
  OBVIOUS
<1> HIDE DEF whole, named
<1>6. ASSUME NEW w \in Wallets
      PROVE  /\ asked[w] \in SUBSET Asked /\ AtMostOne(asked[w]) /\ Sane(asked[w])
             /\ after[w] \in SUBSET Asked /\ Sane(after[w])
             /\ whole(w) \subseteq asked[w] \cup after[w]
             /\ owed[w] \subseteq asked[w]
  <2>1. /\ asked[w] = FirstOf(owed[w], whole(w), named(w))
        /\ after[w] = AfterIt(owed[w], whole(w), named(w))
    OBVIOUS
  <2> HIDE DEF asked, after
  <2>2. /\ owed[w] \in SUBSET Asked /\ whole(w) \in SUBSET Asked
        /\ named(w) \in SUBSET Asked
    BY <1>2, <1>4
  <2>3. /\ Sane(owed[w]) /\ Sane(whole(w)) /\ Sane(named(w))
        /\ AtMostOne(owed[w]) /\ AtMostOne(whole(w)) /\ AtMostOne(named(w))
    BY <1>2, <1>4
  <2>4. /\ asked[w] \in {owed[w], whole(w), named(w)}
        /\ after[w] \subseteq whole(w) \cup named(w)
        /\ whole(w) \subseteq asked[w] \cup after[w]
        /\ owed[w] \subseteq asked[w]
    BY <2>1 DEF FirstOf, AfterIt
  <2>5. AtMostOne(asked[w]) /\ Sane(asked[w])
    BY <2>3, <2>4
  <2>6. Sane(after[w])
    BY <2>3, <2>4 DEF Sane
  <2> QED BY <2>2, <2>4, <2>5, <2>6
<1>7. asked \in [Wallets -> SUBSET Asked] /\ after \in [Wallets -> SUBSET Asked]
  BY <1>6
<1> HIDE DEF asked, after
<1>8. \A script \in WalletScripts : Reading(Ask("Started", {}), script)
  BY DEF Reading, ReadsFor, Ask
<1>9. /\ due \in [Wallets -> SUBSET WalletScripts]
      /\ due' \in [Wallets -> SUBSET WalletScripts]
  BY <1>1 DEF IInv, TypeInv
<1>10. ASSUME NEW w \in Wallets, NEW script \in due'[w]
       PROVE  \/ script \in due[w]
              \/ \E a \in asked[w] \cup after[w] : Reading(a, script)
  <2>1. CASE w \in complete
    <3>1. script \in WalletScripts
      BY <1>9
    <3>2. Ask("Started", {}) \in asked[w] \cup after[w]
      BY <1>5, <1>6, <2>1
    <3> QED BY <1>8, <3>1, <3>2
  <2>2. CASE w \notin complete
    BY <1>1, <2>2
  <2> QED BY <2>1, <2>2
<1>11. /\ \A w \in Wallets : AtMostOne(owed'[w])
       /\ \A w \in Wallets : \A a \in owed[w] : a \in owed'[w] \/ a \in asked[w]
  BY <1>1, <1>6 DEF Nothing, AtMostOne
<1>12. SyncInv' /\ PermitInv' /\ DueInv' /\ CoversInv'
  BY <1>1, <1>6, <1>7, <1>10, <1>11, AskAllKeeps
<1>13. /\ tasks' \subseteq Task /\ \A t \in tasks' : SaneTask(t)
       /\ busy' \subseteq Wallets /\ next' \in [Wallets -> SUBSET Asked]
       /\ \A w \in Wallets : Sane(next'[w])
  BY <1>1, <1>6, <1>7, AskAllDoes DEF IInv
<1> QED BY <1>9, <1>12, <1>13

\* A look keeps the invariant, whatever it follows.
LEMMA LookKeeps ==
  ASSUME IInv, Look, relay.at = "select",
         UNCHANGED <<scenario, config, offered, syncing, host, permits, seen,
                     news, out, lost>>,
         changes' = changes \/ (changes # << >> /\ changes' = Tail(changes)),
         relay' = relay \/ relay' = [relay EXCEPT !.at = "deliver"]
  PROVE  IInv'
<1>1. /\ relay' \in Relay /\ relay'.joined = FALSE /\ relay.joined = FALSE
      /\ relay'.at \in {"select", "deliver"}
  BY DEF IInv, TypeInv, RelayTypeOK, SyncInv, Relay, Announcing
<1>2. /\ changes' \in Seq([wallet : Wallets \cup {NO_WALLET}, asked : Asked])
      /\ \A i \in DOMAIN changes' : changes'[i].asked \in Sayable
  <2>1. /\ changes \in Seq([wallet : Wallets \cup {NO_WALLET}, asked : Asked])
        /\ \A i \in DOMAIN changes : changes[i].asked \in Sayable
    BY DEF IInv, TypeInv, RelayTypeOK
  <2>2. CASE changes' = changes
    BY <2>1, <2>2
  <2>3. CASE changes # << >> /\ changes' = Tail(changes)
    <3>1. \A i \in DOMAIN changes' : /\ i + 1 \in DOMAIN changes
                                     /\ changes'[i] = changes[i + 1]
      BY <2>1, <2>3, TailIs
    <3>2. changes' \in Seq([wallet : Wallets \cup {NO_WALLET}, asked : Asked])
      BY <2>1, <2>3, TailIs
    <3> QED BY <2>1, <3>1, <3>2
  <2> QED BY <2>2, <2>3
<1>3. RoomInv'
  BY <1>1 DEF IInv, RoomInv
<1>4. CASE UNCHANGED <<tasks, asks, due>>
  <2>1. PermitInv' /\ DueInv' /\ CoversInv'
    BY <1>4, AsksKept DEF asks
  <2>2. SyncInv'
    BY <1>1, <1>4 DEF IInv, SyncInv, asks
  <2>3. TypeInv'
    BY <1>1, <1>2, <1>4 DEF IInv, TypeInv, RelayTypeOK, asks, Announcing
  <2> QED BY <1>3, <2>1, <2>2, <2>3 DEF IInv
<1>5. CASE ~ UNCHANGED <<tasks, asks, due>>
  <2>1. PICK complete \in SUBSET {w \in scenario.wallets : "complete" \in scenario.looks},
             recheck \in SUBSET {w \in scenario.wallets : "recheck" \in scenario.looks},
             keptTried \in SUBSET tried, keptRechecked \in SUBSET rechecked,
             scripts \in SUBSET WalletScripts :
          /\ LookFor(complete \ keptTried, recheck \ keptRechecked, scripts)
          /\ tried' = keptTried \cup complete
          /\ rechecked' = keptRechecked \cup recheck
          /\ UNCHANGED futile
    BY <1>5 DEF Look
  <2>2. scenario.wallets \subseteq Wallets
    BY ScenarioIs DEF IInv, TypeInv
  <2>3. tried' \subseteq Wallets /\ rechecked' \subseteq Wallets
    BY <2>1, <2>2 DEF IInv, TypeInv, RelayTypeOK
  <2>4. owed' = Nothing
    BY <2>1 DEF LookFor
  <2>5. owed' \in [Wallets -> SUBSET Asked] /\ \A w \in Wallets : Sane(owed'[w])
    BY <2>4 DEF Nothing, Sane
  <2>6. /\ SyncInv' /\ PermitInv' /\ DueInv' /\ CoversInv'
        /\ tasks' \subseteq Task /\ \A t \in tasks' : SaneTask(t)
        /\ busy' \subseteq Wallets /\ next' \in [Wallets -> SUBSET Asked]
        /\ \A w \in Wallets : Sane(next'[w])
        /\ due' \in [Wallets -> SUBSET WalletScripts]
    BY <1>1, <2>1, LookForKeeps
  <2>7. TypeInv'
    BY <1>1, <1>2, <2>1, <2>3, <2>5, <2>6
       DEF IInv, TypeInv, RelayTypeOK, Announcing
  <2> QED BY <1>3, <2>6, <2>7 DEF IInv
<1> QED BY <1>4, <1>5

-----------------------------------------------------------------------------
(***************************************************************************)
(* Syncs abandoned, joined and announced.                                  *)
(***************************************************************************)

\* Once every sync is abandoned nothing is asked, and nothing is due.
LEMMA AbandonKeeps ==
  ASSUME IInv, AbortAll, busy' = {}, next' = Nothing, owed' = Nothing,
         due' = Nothing, tried' = {}, rechecked' = {},
         futile' \in [Wallets -> 0..(FREE_FUTILE + 1)],
         seen' \in {seen, config}, UNCHANGED <<scenario, outside, news, lost>>,
         relay' \in Relay, relay'.joined = FALSE,
         relay'.at \in {"select", "ended"}, out' \in 0..EVENT_QUEUE
  PROVE  IInv'
<1>1. /\ tasks' = {} /\ permits' = SYNCS_AT_ONCE
      /\ \A w \in Wallets : next'[w] = {} /\ owed'[w] = {} /\ due'[w] = {}
      /\ next' \in [Wallets -> SUBSET Asked] /\ owed' \in [Wallets -> SUBSET Asked]
      /\ due' \in [Wallets -> SUBSET WalletScripts]
  BY DEF AbortAll, Nothing
<1>2. TypeInv'
  BY <1>1, RelayAssumption
     DEF IInv, TypeInv, RelayTypeOK, outside, Sane, Announcing
<1>3. SyncInv'
  BY <1>1 DEF SyncInv, AtMostOne
<1>4. PermitInv'
  <2>1. Reads' = {}
    BY <1>1 DEF Reads
  <2> QED BY <1>1, <2>1, FS_EmptySet, RelayAssumption DEF PermitInv
<1>5. DueInv' /\ CoversInv'
  BY <1>1 DEF DueInv, CoversInv, Reads
<1>6. RoomInv'
  BY DEF IInv, RoomInv
<1> QED BY <1>2, <1>3, <1>4, <1>5, <1>6 DEF IInv

\* A new configuration keeps the invariant.
LEMMA TakeConfigKeeps == IInv /\ TakeConfig /\ UNCHANGED scenario => IInv'
<1> SUFFICES ASSUME IInv, TakeConfig, UNCHANGED scenario PROVE IInv'
  OBVIOUS
<1>1. /\ relay' \in Relay /\ relay'.joined = FALSE /\ relay'.at = "select"
      /\ out' \in 0..EVENT_QUEUE /\ futile' \in [Wallets -> 0..(FREE_FUTILE + 1)]
  BY DEF IInv, TypeInv, RelayTypeOK, SyncInv, Relay, Announcing, TakeConfig
<1> QED BY <1>1, AbandonKeeps DEF TakeConfig

\* The end of the watch keeps the invariant.
LEMMA EndKeeps == IInv /\ End /\ UNCHANGED scenario => IInv'
<1> SUFFICES ASSUME IInv, End, UNCHANGED scenario PROVE IInv'
  OBVIOUS
<1>1. relay' \in Relay /\ relay'.joined = FALSE /\ relay'.at = "ended"
  BY DEF End, Select, Relay
<1>2. out' \in 0..EVENT_QUEUE
  <2>1. out \in 0..EVENT_QUEUE /\ EVENT_QUEUE \in Nat /\ out + 1 \in Int
    BY RelayAssumption DEF IInv, TypeInv, RelayTypeOK
  <2>2. Min({out + 1, EVENT_QUEUE}) \in 0..EVENT_QUEUE
    BY <2>1, MinOfTwo
  <2> QED BY <2>1, <2>2 DEF End
<1>3. futile' \in [Wallets -> 0..(FREE_FUTILE + 1)]
  BY RelayAssumption DEF End
<1> QED BY <1>1, <1>2, <1>3, AbandonKeeps DEF End

\* A sync that ended and is joined keeps the invariant: what it was asked is
\* owed when it failed.
LEMMA JoinKeeps ==
  ASSUME IInv, NEW t \in tasks, Join(t), UNCHANGED scenario
  PROVE  IInv'
<1> DEFINE w == t.wallet
           both == owed[w] \cup {t.asked}
<1>1. /\ t \in Task /\ w \in Wallets /\ t.asked \in Asked /\ SaneTask(t)
      /\ relay \in Relay /\ relay.at = "select" /\ t.at \in {"ok", "failed"}
      /\ owed \in [Wallets -> SUBSET Asked] /\ relay.joined = FALSE
      /\ next \in [Wallets -> SUBSET Asked]
      /\ futile \in [Wallets -> 0..(FREE_FUTILE + 1)]
  BY DEF IInv, TypeInv, RelayTypeOK, SyncInv, Task, Join, Relay, Announcing
<1>2. /\ tasks' = tasks \ {t}
      /\ \E found \in BOOLEAN :
           futile' = [futile EXCEPT ![w] = FutileAfter(w, t.asked, found)]
      /\ owed' = IF t.at = "ok" THEN owed ELSE [owed EXCEPT ![w] = {And(both)}]
      /\ relay' = Announce(w, IF t.at = "ok" THEN "count" ELSE "report", TRUE)
      /\ UNCHANGED <<outside, permits, busy, next, tried, rechecked, seen, news,
                     out, lost, due>>
  BY DEF Join
<1>3. /\ relay' \in Relay /\ relay'.joined = TRUE /\ relay'.wallet = w
      /\ relay'.at \in {"count", "report"}
  BY <1>1, <1>2 DEF Announce, Relay
<1>4. /\ both \in SUBSET Asked /\ both # {} /\ Sane(both)
  BY <1>1 DEF IInv, TypeInv, Sane, SaneTask
<1>5. /\ And(both) \in Asked /\ Sane({And(both)})
      /\ \A a \in both : \A script : Reading(a, script) => Reading(And(both), script)
  BY <1>4, AndReads
<1>6. t.asked \in both /\ owed[w] \subseteq both
  OBVIOUS
<1> HIDE DEF both, w
<1>7. /\ owed' \in [Wallets -> SUBSET Asked]
      /\ \A x \in Wallets : Sane(owed'[x]) /\ AtMostOne(owed'[x])
      /\ \A x \in Wallets : \A a \in owed[x] : \A script :
           Reading(a, script) => \E b \in owed'[x] : Reading(b, script)
      /\ t.at = "failed" => \A script :
           Reading(t.asked, script) => \E b \in owed'[w] : Reading(b, script)
  <2>1. CASE t.at = "ok"
    BY <1>1, <1>2, <2>1 DEF IInv, TypeInv, SyncInv
  <2>2. CASE t.at = "failed"
    <3>1. owed' = [owed EXCEPT ![w] = {And(both)}]
      BY <1>2, <2>2
    <3>2. owed'[w] = {And(both)} /\ \A x \in Wallets : x # w => owed'[x] = owed[x]
      BY <1>1, <3>1
    <3>3. owed' \in [Wallets -> SUBSET Asked]
      BY <1>1, <1>5, <3>1
    <3>4. ASSUME NEW x \in Wallets PROVE Sane(owed'[x]) /\ AtMostOne(owed'[x])
      <4>1. CASE x = w
        BY <1>5, <3>2, <4>1 DEF AtMostOne
      <4>2. CASE x # w
        BY <3>2, <4>2 DEF IInv, TypeInv, SyncInv
      <4> QED BY <4>1, <4>2
    <3> QED BY <1>5, <1>6, <3>2, <3>3, <3>4
  <2> QED BY <1>1, <2>1, <2>2
<1>8. futile' \in [Wallets -> 0..(FREE_FUTILE + 1)]
  <2>1. PICK found \in BOOLEAN :
          futile' = [futile EXCEPT ![w] = FutileAfter(w, t.asked, found)]
    BY <1>2
  <2>2. futile[w] + 1 \in Int /\ FREE_FUTILE + 1 \in Nat /\ futile[w] \in Nat
    BY <1>1, RelayAssumption
  <2>3. Min({futile[w] + 1, FREE_FUTILE + 1}) \in 0..(FREE_FUTILE + 1)
    BY <2>2, MinOfTwo
  <2>4. FutileAfter(w, t.asked, found) \in 0..(FREE_FUTILE + 1)
    BY <1>1, <2>2, <2>3 DEF FutileAfter
  <2> QED BY <1>1, <2>1, <2>4
<1>9. TypeInv'
  BY <1>1, <1>2, <1>3, <1>7, <1>8
     DEF IInv, TypeInv, RelayTypeOK, outside, w, Announcing
<1>10. SyncInv'
  <2>1. \A u \in tasks : u.wallet = w => u = t
    BY DEF IInv, SyncInv, w
  <2>2. \A u : u \in tasks' <=> u \in tasks /\ u # t
    BY <1>2
  <2>3. \A x \in Wallets : (x \in busy') <=>
          ((\E u \in tasks' : u.wallet = x) \/ (relay'.joined /\ relay'.wallet = x))
    BY <1>1, <1>2, <1>3, <2>1, <2>2 DEF IInv, SyncInv, w
  <2>4. \A u \in tasks' : u.wallet # relay'.wallet
    BY <1>3, <2>1, <2>2
  <2> QED BY <1>2, <1>3, <1>7, <2>2, <2>3, <2>4 DEF IInv, SyncInv, Announcing
<1>11. Reads' = Reads
  BY <1>1, <1>2 DEF Reads
<1>12. PermitInv'
  BY <1>2, <1>11 DEF IInv, PermitInv
<1>13. DueInv'
  <2> SUFFICES ASSUME NEW x \in Wallets, NEW script \in due[x]
               PROVE  \E b \in ToRun(x)' : Reading(b, script)
    BY <1>2 DEF DueInv
  <2>0. \A b : b \in ToRun(x)' <=>
          \/ \E u \in tasks' : /\ u.wallet = x /\ u.at \notin {"run", "ok"}
                               /\ u.asked = b
          \/ b \in next'[x] \/ b \in owed'[x]
    BY DEF ToRun
  <2>1. PICK a \in ToRun(x) : Reading(a, script)
    BY DEF IInv, DueInv
  <2>2. CASE a \in next[x]
    BY <1>2, <2>0, <2>1, <2>2
  <2>3. CASE a \in owed[x]
    BY <1>7, <2>0, <2>1, <2>3
  <2>4. CASE \E u \in tasks : /\ u.wallet = x /\ u.at \notin {"run", "ok"}
                              /\ u.asked = a
    <3>1. PICK u \in tasks : /\ u.wallet = x /\ u.at \notin {"run", "ok"}
                              /\ u.asked = a
      BY <2>4
    <3>2. CASE u = t
      <4>1. t.at = "failed" /\ x = w /\ Reading(t.asked, script)
        BY <1>1, <2>1, <3>1, <3>2 DEF w
      <4>2. PICK b \in owed'[x] : Reading(b, script)
        BY <1>7, <4>1
      <4>3. b \in ToRun(x)'
        BY <2>0, <4>2
      <4> QED BY <4>2, <4>3
    <3>3. CASE u # t
      BY <1>2, <2>0, <2>1, <3>1, <3>3
    <3> QED BY <3>2, <3>3
  <2> QED BY <2>1, <2>2, <2>3, <2>4, ToRunIs
<1>14. CoversInv'
  <2>1. \A u \in Reads : u.wallet \in Wallets
    BY DEF Reads, IInv, TypeInv, RelayTypeOK, Task
  <2> QED BY <1>2, <1>7, <1>11, <2>1 DEF IInv, CoversInv
<1>15. RoomInv'
  BY <1>2, <1>3 DEF IInv, RoomInv
<1> QED BY <1>9, <1>10, <1>12, <1>13, <1>14, <1>15 DEF IInv

-----------------------------------------------------------------------------
(***************************************************************************)
(* What the loop awaits.                                                   *)
(***************************************************************************)

\* An arm that moves the relay alone, and the news and the queue with it.
LEMMA AsideKeeps ==
  ASSUME IInv, UNCHANGED <<scenario, changes, config, syncing, host, tasks,
                           permits, asks, seen, due>>,
         offered' \subseteq offered, relay' \in Relay,
         relay'.at \in Announcing => relay'.wallet \in Wallets,
         relay'.joined = relay.joined,
         relay.joined => relay'.wallet = relay.wallet /\ relay'.at \in Announcing,
         news' \in [Wallets -> 0..scenario.news], out' \in 0..EVENT_QUEUE, RoomInv'
  PROVE  IInv'
<1>1. TypeInv'
  BY DEF IInv, TypeInv, RelayTypeOK, asks
<1>2. SyncInv'
  <2>1. relay.joined \in BOOLEAN
    BY DEF IInv, TypeInv, RelayTypeOK, Relay
  <2> QED BY <2>1 DEF IInv, SyncInv, asks
<1>3. PermitInv' /\ DueInv' /\ CoversInv'
  BY AsksKept DEF asks
<1> QED BY <1>1, <1>2, <1>3 DEF IInv

\* Every arm that leaves the syncs alone keeps the invariant.
LEMMA AwaitKeeps ==
  ASSUME IInv, UNCHANGED scenario,
         \/ Start \/ Count \/ Reserve \/ Claim \/ Deliver
         \/ \E w \in Wallets : TakeOffer(w)
  PROVE  IInv'
<1>1. /\ relay \in Relay /\ news \in [Wallets -> 0..scenario.news]
      /\ out \in 0..EVENT_QUEUE /\ EVENT_QUEUE \in Nat /\ scenario.news \in Nat
      /\ CLAIM_BATCH \in Nat
      /\ relay.at \in Announcing => relay.wallet \in Wallets
      /\ relay.joined => relay.at \in Announcing
      /\ lost = 0 /\ RoomInv
  BY RelayAssumption, ScenarioIs DEF IInv, TypeInv, RelayTypeOK, SyncInv,
     RoomInv
<1>2. CASE Start
  <2>1. PICK w \in relay.todo : relay' = [Announce(w, "count", FALSE) EXCEPT !.todo = @ \ {w}]
    BY <1>2 DEF Start
  <2>2. w \in Wallets /\ relay.joined = FALSE
    BY <1>1, <1>2 DEF Relay, Start, Announcing
  <2>3. /\ relay' \in Relay /\ relay'.at = "count" /\ relay'.wallet = w
        /\ relay'.joined = FALSE
    BY <1>1, <2>1, <2>2 DEF Relay, Announce
  <2>4. RoomInv'
    BY <1>1, <1>2, <2>3 DEF RoomInv, Start
  <2> QED BY <1>1, <1>2, <2>2, <2>3, <2>4, AsideKeeps DEF Start, outside
<1>3. CASE Count
  <2> DEFINE waiting == Min({news[relay.wallet], CLAIM_BATCH})
  <2>1. waiting \in Nat
    <3>1. news[relay.wallet] \in Nat
      BY <1>1, <1>3 DEF Count, Announcing
    <3> QED BY <1>1, <3>1, MinOfTwo
  <2>2. relay' = IF waiting = 0 THEN [relay EXCEPT !.at = "report"]
                 ELSE [relay EXCEPT !.at = "reserve", !.room = waiting]
    BY <1>3 DEF Count
  <2> HIDE DEF waiting
  <2>3. /\ relay' \in Relay /\ relay'.at \in {"report", "reserve"}
        /\ relay'.wallet = relay.wallet /\ relay'.joined = relay.joined
    BY <1>1, <2>1, <2>2 DEF Relay
  <2>4. RoomInv'
    BY <1>1, <1>3, <2>3 DEF RoomInv, Count
  <2>5. relay.wallet \in Wallets
    BY <1>1, <1>3 DEF Count, Announcing
  <2> QED BY <1>1, <1>3, <2>3, <2>4, <2>5, AsideKeeps
          DEF Count, aside, outside, Announcing
<1>4. CASE Reserve
  <2>1. /\ relay' \in Relay /\ relay'.at = "claim" /\ relay'.room = relay.room
        /\ relay'.wallet = relay.wallet /\ relay'.joined = relay.joined
    BY <1>1, <1>4 DEF Relay, Reserve
  <2>2. RoomInv'
    BY <1>1, <1>4, <2>1 DEF RoomInv, Reserve
  <2>3. relay.wallet \in Wallets
    BY <1>1, <1>4 DEF Reserve, Announcing
  <2> QED BY <1>1, <1>4, <2>1, <2>2, <2>3, AsideKeeps
          DEF Reserve, aside, outside, Announcing
<1>5. CASE Claim
  <2> DEFINE w == relay.wallet
             claimed == Min({news[w], relay.room})
             sent == Min({claimed, relay.room})
  <2>1. w \in Wallets /\ news[w] \in Nat /\ relay.room \in Nat
    BY <1>1, <1>5 DEF Claim, Announcing, Relay
  <2>2. /\ claimed \in Nat /\ claimed <= news[w] /\ claimed <= relay.room
        /\ sent = claimed
    BY <2>1, MinOfTwo
  <2>3. /\ relay' \in Relay /\ relay'.at \in {"report", "count"}
        /\ relay'.wallet = w /\ relay'.joined = relay.joined
    <3>1. PICK at \in {"report", "count"} :
            relay' = [relay EXCEPT !.at = at, !.room = 0]
      BY <1>5 DEF Claim
    <3>2. relay \in Relay
      BY <1>1
    <3> QED BY ONLY <3>1, <3>2 DEF Relay
  <2> HIDE DEF claimed, sent, w
  <2>4. CASE /\ news' = [news EXCEPT ![w] = @ - claimed]
             /\ out' = out + sent
             /\ lost' = Min({lost + claimed - sent, 1})
    <3>1. lost' = 0
      <4>1. lost + claimed - sent = 0
        BY <1>1, <2>2
      <4> QED BY <2>4, <4>1, MinOfTwo
    <3>2. out' \in 0..EVENT_QUEUE
      BY <1>1, <1>5, <2>1, <2>2, <2>4 DEF RoomInv, Claim
    <3>3. news[w] - claimed \in 0..scenario.news
      BY <1>1, <2>1, <2>2
    <3>4. news' \in [Wallets -> 0..scenario.news]
      BY <1>1, <2>4, <3>3
    <3>5. RoomInv'
      BY <2>3, <3>1 DEF RoomInv
    <3> QED BY <1>1, <1>5, <2>1, <2>3, <3>2, <3>4, <3>5, AsideKeeps
            DEF Claim, aside, outside, Announcing, w
  <2>5. CASE UNCHANGED <<news, out, lost>>
    <3>1. RoomInv'
      BY <1>1, <2>3, <2>5 DEF RoomInv
    <3> QED BY <1>1, <1>5, <2>1, <2>3, <2>5, <3>1, AsideKeeps
            DEF Claim, aside, outside, Announcing, w
  <2> QED BY <1>5, <2>4, <2>5 DEF Claim, w, claimed, sent
<1>6. CASE Deliver
  <2>1. /\ relay' \in Relay /\ relay'.at = "select" /\ relay'.joined = FALSE
        /\ relay.joined = FALSE
    BY <1>1, <1>6 DEF Deliver, Select, Relay, Announcing
  <2>2. out' \in 0..EVENT_QUEUE
    BY <1>1, <1>6 DEF Deliver
  <2>3. RoomInv'
    BY <1>1, <1>6, <2>1 DEF RoomInv, Deliver
  <2> QED BY <1>1, <1>6, <2>1, <2>2, <2>3, AsideKeeps
          DEF Deliver, aside, outside, Announcing
<1>7. ASSUME NEW w \in Wallets, TakeOffer(w) PROVE IInv'
  <2>1. /\ relay' \in Relay /\ relay'.at \in {"select", "count"}
        /\ relay'.joined = FALSE /\ relay.joined = FALSE
        /\ relay'.at = "count" => relay'.wallet = w
    <3>1. relay.joined = FALSE /\ relay.at = "select" /\ relay \in Relay
      BY <1>1, <1>7 DEF TakeOffer, Relay, Announcing
    <3>2. relay' = relay \/ relay' = Announce(w, "count", FALSE)
      BY <1>7 DEF TakeOffer
    <3>3. CASE relay' = Announce(w, "count", FALSE)
      BY <3>1, <3>3 DEF Announce, Relay
    <3> QED BY <3>1, <3>2, <3>3
  <2>2. RoomInv'
    BY <1>1, <1>7, <2>1 DEF RoomInv, TakeOffer
  <2> QED BY <1>1, <1>7, <2>1, <2>2, AsideKeeps DEF TakeOffer, asks, Announcing
<1> QED BY <1>2, <1>3, <1>4, <1>5, <1>6, <1>7

\* A report handed over keeps the invariant: what was asked since of a wallet
\* whose sync it announces becomes that wallet's sync.
LEMMA HandKeeps == IInv /\ Hand /\ UNCHANGED scenario => IInv'
<1> SUFFICES ASSUME IInv, Hand, UNCHANGED scenario PROVE IInv'
  OBVIOUS
<1> DEFINE w == relay.wallet
<1>1. /\ relay \in Relay /\ relay.at = "report" /\ w \in Wallets
      /\ out \in 0..EVENT_QUEUE /\ out < EVENT_QUEUE /\ out' = out + 1
      /\ EVENT_QUEUE \in Nat /\ relay' = Select(relay.todo)
      /\ next \in [Wallets -> SUBSET Asked] /\ tasks \subseteq Task
      /\ UNCHANGED <<outside, permits, owed, futile, tried, rechecked, seen, news,
                     lost, due>>
  BY RelayAssumption DEF IInv, TypeInv, RelayTypeOK, Hand, Announcing
<1>2. /\ relay' \in Relay /\ relay'.at \in {"select", "start"}
      /\ relay'.joined = FALSE
  BY <1>1 DEF Select, Relay
<1>3. RoomInv'
  BY <1>1, <1>2 DEF IInv, RoomInv
<1>4. out' \in 0..EVENT_QUEUE
  BY <1>1
<1>5. CASE ~ relay.joined
  <2>1. UNCHANGED <<busy, next, tasks>>
    BY <1>5 DEF Hand
  <2>2. PermitInv' /\ DueInv' /\ CoversInv'
    BY <1>1, <2>1, AsksKept
  <2>3. SyncInv'
    BY <1>1, <1>2, <1>5, <2>1 DEF IInv, SyncInv
  <2>4. TypeInv'
    BY <1>1, <1>2, <1>4, <2>1
       DEF IInv, TypeInv, RelayTypeOK, outside, Announcing
  <2> QED BY <1>3, <2>2, <2>3, <2>4 DEF IInv
<1>6. CASE relay.joined
  <2>1. w \in busy /\ \A t \in tasks : t.wallet # w
    BY <1>1, <1>6 DEF IInv, SyncInv
  <2>2. /\ busy' = IF next[w] = {} THEN busy \ {w} ELSE busy
        /\ next' = [next EXCEPT ![w] = {}]
        /\ tasks' = tasks \cup {NewTask(w, a) : a \in next[w]}
    BY <1>6, <2>1 DEF Hand
  <2>3. \A t : t \in tasks' <=> t \in tasks \/ \E a \in next[w] : t = NewTask(w, a)
    BY <2>2
  <2>4. /\ next[w] \in SUBSET Asked /\ AtMostOne(next[w]) /\ Sane(next[w])
        /\ next'[w] = {} /\ \A x \in Wallets : x # w => next'[x] = next[x]
        /\ next' \in [Wallets -> SUBSET Asked]
    BY <1>1, <2>2 DEF IInv, SyncInv, TypeInv
  <2>5. ASSUME NEW a \in next[w]
        PROVE  /\ NewTask(w, a) \in Task /\ SaneTask(NewTask(w, a))
               /\ NewTask(w, a).wallet = w /\ NewTask(w, a).asked = a
               /\ NewTask(w, a).at \in Fresh
    <3>1. Sane({a}) /\ a \in Asked
      BY <2>4 DEF Sane
    <3> QED BY <1>1, <2>1, <3>1, NewTaskIs
  <2> HIDE DEF w
  <2>6. \A t \in tasks' : /\ t \in Task /\ SaneTask(t)
                          /\ \/ t \in tasks
                             \/ t.wallet = w /\ t.at \in Fresh
    BY <1>1, <2>3, <2>5 DEF IInv, TypeInv
  <2>7. Reads' = Reads
    BY <2>3, <2>6 DEF Reads, Fresh
  <2>8. PermitInv'
    BY <1>1, <2>7 DEF IInv, PermitInv
  <2>9. SyncInv'
    <3>1. \A t, u \in tasks' : t.wallet = u.wallet => t = u
      <4>1. ASSUME NEW t \in tasks', NEW u \in tasks', t.wallet = u.wallet,
                   t \notin tasks, u \notin tasks
            PROVE  t = u
        <5>1. PICK a \in next[w] : t = NewTask(w, a)
          BY <2>3, <4>1
        <5>2. PICK b \in next[w] : u = NewTask(w, b)
          BY <2>3, <4>1
        <5> QED BY <2>4, <5>1, <5>2 DEF AtMostOne
      <4> QED BY <2>1, <2>6, <4>1 DEF IInv, SyncInv
    <3>2. ASSUME NEW x \in Wallets
          PROVE  (x \in busy') <=> \E t \in tasks' : t.wallet = x
      <4>1. CASE x # w
        BY <1>1, <2>2, <2>3, <2>6, <4>1 DEF IInv, SyncInv, w
      <4>2. CASE x = w /\ next[w] = {}
        BY <2>1, <2>2, <2>3, <4>2
      <4>3. CASE x = w /\ next[w] # {}
        <5>1. PICK a \in next[w] : TRUE
          BY <4>3
        <5> QED BY <2>1, <2>2, <2>3, <2>5, <4>3, <5>1
      <4> QED BY <4>1, <4>2, <4>3
    <3>3. \A x \in Wallets : AtMostOne(next'[x]) /\ AtMostOne(owed'[x])
      <4>1. AtMostOne({})
        BY DEF AtMostOne
      <4> QED BY <1>1, <2>4, <4>1 DEF IInv, SyncInv
    <3> QED BY <1>2, <3>1, <3>2, <3>3 DEF SyncInv
  <2>10. DueInv'
    <3> SUFFICES ASSUME NEW x \in Wallets, NEW script \in due[x]
                 PROVE  \E b \in ToRun(x)' : Reading(b, script)
      BY <1>1 DEF DueInv
    <3>0. \A b : b \in ToRun(x)' <=>
            \/ \E u \in tasks' : /\ u.wallet = x /\ u.at \notin {"run", "ok"}
                                 /\ u.asked = b
            \/ b \in next'[x] \/ b \in owed'[x]
      BY DEF ToRun
    <3>1. PICK a \in ToRun(x) : Reading(a, script)
      BY DEF IInv, DueInv
    <3>2. CASE a \in owed[x]
      BY <1>1, <3>0, <3>1, <3>2
    <3>3. CASE a \in next[x] /\ x # w
      BY <2>4, <3>0, <3>1, <3>3
    <3>4. CASE a \in next[x] /\ x = w
      <4>1. /\ NewTask(w, a) \in tasks' /\ NewTask(w, a).wallet = x
            /\ NewTask(w, a).asked = a /\ NewTask(w, a).at \notin {"run", "ok"}
        BY <2>3, <2>5, <3>4 DEF Fresh
      <4> QED BY <3>0, <3>1, <4>1
    <3>5. CASE \E u \in tasks : /\ u.wallet = x /\ u.at \notin {"run", "ok"}
                                /\ u.asked = a
      BY <2>3, <3>0, <3>1, <3>5
    <3> QED BY <3>1, <3>2, <3>3, <3>4, <3>5, ToRunIs
  <2>11. CoversInv'
    <3>1. \A t \in Reads : t.wallet \in Wallets /\ t.wallet # w
      BY <1>1, <2>1 DEF Reads, Task
    <3> QED BY <1>1, <2>4, <2>7, <3>1 DEF IInv, CoversInv
  <2>12. TypeInv'
    <3>1. busy' \subseteq Wallets
      BY <2>2 DEF IInv, TypeInv, RelayTypeOK
    <3>2. \A x \in Wallets : Sane(next'[x])
      <4>1. Sane({})
        BY DEF Sane
      <4> QED BY <2>4, <4>1 DEF IInv, TypeInv
    <3>3. tasks' \subseteq Task /\ \A t \in tasks' : SaneTask(t)
      BY <2>6
    <3> QED BY <1>1, <1>2, <1>4, <2>4, <3>1, <3>2, <3>3
            DEF IInv, TypeInv, RelayTypeOK, outside, Announcing
  <2> QED BY <1>3, <2>8, <2>9, <2>10, <2>11, <2>12 DEF IInv
<1> QED BY <1>5, <1>6

-----------------------------------------------------------------------------
(***************************************************************************)
(* The theorems.                                                           *)
(***************************************************************************)

LEMMA InitHolds == RelayInit => IInv
<1> SUFFICES ASSUME RelayInit PROVE IInv
  OBVIOUS
<1> USE DEF RelayInit
<1>1. /\ relay \in Relay /\ relay.joined = FALSE
      /\ relay.at \in {"start", "select"}
  BY DEF Select, Relay
<1>2. scenario.configs \in Nat /\ scenario.news \in Nat
  BY ScenarioIs
<1>3. /\ next \in [Wallets -> SUBSET Asked] /\ owed \in [Wallets -> SUBSET Asked]
      /\ due \in [Wallets -> SUBSET WalletScripts]
      /\ \A w \in Wallets : next[w] = {} /\ owed[w] = {} /\ due[w] = {}
  BY DEF Nothing
<1>4. TypeInv
  <2>1. futile \in [Wallets -> 0..(FREE_FUTILE + 1)]
    BY RelayAssumption
  <2>2. /\ config \in 0..scenario.configs /\ seen \in 0..scenario.configs
        /\ permits \in 0..SYNCS_AT_ONCE /\ out \in 0..EVENT_QUEUE
    BY <1>2, RelayAssumption
  <2>3. /\ changes \in Seq([wallet : Wallets \cup {NO_WALLET}, asked : Asked])
        /\ DOMAIN changes = {}
    OBVIOUS
  <2>4. \A w \in Wallets : Sane(next[w]) /\ Sane(owed[w])
    BY <1>3 DEF Sane
  <2> QED BY <1>1, <1>3, <2>1, <2>2, <2>3, <2>4 DEF TypeInv, RelayTypeOK,
             Announcing
<1>5. SyncInv
  BY <1>1, <1>3 DEF SyncInv, AtMostOne
<1>6. PermitInv
  <2>1. Reads = {}
    BY DEF Reads
  <2> QED BY <2>1, FS_EmptySet, RelayAssumption DEF PermitInv
<1>7. RoomInv
  BY <1>1 DEF RoomInv
<1>8. DueInv /\ CoversInv
  BY <1>3 DEF DueInv, CoversInv, Reads
<1> QED BY <1>4, <1>5, <1>6, <1>7, <1>8 DEF IInv

\* Every step of the relay, of its syncs and of what is around keeps it.
LEMMA NextHolds == IInv /\ [RelayNext]_allRelayVars => IInv'
<1> SUFFICES ASSUME IInv, [RelayNext]_allRelayVars PROVE IInv'
  OBVIOUS
<1>1. CASE RelayNext
  <2>0. UNCHANGED scenario
    BY <1>1 DEF RelayNext
  <2>1. CASE Around
    BY <2>0, <2>1, AroundKeeps
  <2>2. CASE RelayStep
    <3>1. CASE TakeChange
      BY <2>0, <3>1, TakeChangeKeeps
    <3>2. CASE TakeBlock
      BY <2>0, <3>2, LookKeeps DEF TakeBlock
    <3>3. CASE LooksTick
      BY <2>0, <3>3, LookKeeps DEF LooksTick, outside
    <3>4. CASE TakeConfig
      BY <2>0, <3>4, TakeConfigKeeps
    <3>5. CASE \E t \in tasks : Join(t)
      BY <2>0, <3>5, JoinKeeps
    <3>6. CASE Hand
      BY <2>0, <3>6, HandKeeps
    <3>7. CASE End
      BY <2>0, <3>7, EndKeeps
    <3> QED BY <2>0, <2>2, <3>1, <3>2, <3>3, <3>4, <3>5, <3>6, <3>7, AwaitKeeps
            DEF RelayStep
  <2>3. CASE \E t \in tasks : Goes(t) \/ Acquire(t)
    BY <2>0, <2>3, SyncKeeps
  <2> QED BY <1>1, <2>1, <2>2, <2>3 DEF RelayNext
<1>2. CASE UNCHANGED allRelayVars
  BY <1>2 DEF allRelayVars, relayVars, outside, asks, IInv, TypeInv,
     RelayTypeOK,
              SyncInv, PermitInv, RoomInv, DueInv, CoversInv, Reads, ToRun
<1> QED BY <1>1, <1>2

\* The inductive invariant holds.
THEOREM RelayInductive == RelaySpec => []IInv
BY InitHolds, NextHolds, PTL DEF RelaySpec

\* Every script the relay was told to read is read by a sync that begins
\* later, or one that will be is asked of the wallet; and a wallet has one
\* sync at a time, and is marked busy just as long (ask, live_sync, join).
THEOREM RelayHolds == RelaySpec => []RelayInv
<1>1. IInv => RelayInv
  <2> SUFFICES ASSUME IInv PROVE RelayInv
    OBVIOUS
  <2>1. RelayTypeOK
    BY DEF IInv, TypeInv
  <2>2. NothingForgotten
    BY DEF IInv, DueInv, NothingForgotten, Kept, Reading
  <2>3. OneSyncAWallet
    <3> SUFFICES ASSUME NEW w \in Wallets
                 PROVE  Cardinality({t \in tasks : t.wallet = w}) <= 1
      BY DEF OneSyncAWallet, IInv, SyncInv
    <3>1. CASE {t \in tasks : t.wallet = w} = {}
      BY <3>1, FS_EmptySet
    <3>2. ASSUME NEW t \in tasks, t.wallet = w
          PROVE  Cardinality({u \in tasks : u.wallet = w}) <= 1
      <4>1. {u \in tasks : u.wallet = w} = {t}
        BY <3>2 DEF IInv, SyncInv
      <4> QED BY <4>1, FS_Singleton
    <3> QED BY <3>1, <3>2
  <2> QED BY <2>1, <2>2, <2>3 DEF RelayInv
<1> QED BY <1>1, RelayInductive, PTL

\* News that is claimed always finds the room that was kept for it in the
\* queue to the host (announce).
THEOREM ClaimedGoesOut == RelaySpec => []NeverClaimedAndLost
<1>1. IInv => NeverClaimedAndLost
  BY DEF IInv, RoomInv, NeverClaimedAndLost
<1> QED BY <1>1, RelayInductive, PTL
=============================================================================
