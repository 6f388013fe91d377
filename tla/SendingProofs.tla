--------------------------- MODULE SendingProofs ---------------------------
(***************************************************************************)
(* Proofs about Sending: what a broadcast says of its transaction, which   *)
(* servers a call shows what it asks about and how long one is put last,   *)
(* and what a preview says of the coins, for any transactions, servers,    *)
(* vaults, files, calls and moves of the network.                          *)
(***************************************************************************)
EXTENDS Sending, SequenceTheorems, WellFoundedInduction, TLAPS

-----------------------------------------------------------------------------
Places == {"away", "pool", "block"}
Fields == {"at", "kind", "order", "next", "failed", "hit", "down", "watch", "tx",
           "decoded", "facts", "settled", "tip", "checks", "tips", "result",
           "preview"}

\* A call is a record of its fields, and one that broadcasts has one
\* transaction.
CallOK(c) ==
  /\ DOMAIN c = Fields
  /\ c.tx = {} \/ \E t \in Txs : c.tx = {t}
  /\ c.at = "asking" /\ c.kind = "broadcast" => c.tx # {}

CallsOK ==
  /\ DOMAIN call = Calls
  /\ \A p \in Calls : CallOK(call[p])

\* What the network holds it took once.
HeldWasTaken ==
  /\ place \in [Txs -> Places]
  /\ \A t \in Txs : Held(t) => t \in ever

SendingIInv == CallsOK /\ HeldWasTaken /\ SentIsTaken

\* A step of a call that says nothing new of its transaction.
Quietly(c, d) ==
  /\ CallOK(d)
  /\ d.tx \in {c.tx, {}}
  /\ d.result \in {c.result, "none", "shown", "read", "not_read", "failed"}

\* A call begun has its fields and no transaction yet.
LEMMA Begun ==
  ASSUME NEW p, NEW kind, NEW order
  PROVE  LET b == Begin(p, kind, order)
         IN  DOMAIN b = Fields /\ b.tx = {} /\ b.result = "none" /\ b.kind = kind
BY DEF Begin, NoCall, Fields

\* A call that ends or goes on to the next server keeps its transaction.
LEMMA GoesOn ==
  ASSUME NEW c, CallOK(c), NEW e, NEW fault, NEW result
  PROVE  /\ CallOK(Done(c, result)) /\ CallOK(FailedAt(c, e, fault))
         /\ Done(c, result).tx = c.tx /\ Done(c, result).result = result
         /\ FailedAt(c, e, fault).tx = c.tx /\ FailedAt(c, e, fault).result = c.result
BY DEF CallOK, Fields, Done, FailedAt

\* What a call tells of its transaction when it tells it refused.
RefusedIsAway ==
  \A p \in Calls : \A t \in call[p].tx :
    call'[p].result = "refused" /\ call[p].result # "refused" => place[t] = "away"

Step == SendingIInv' /\ RefusedIsAway

\* A call that says nothing new of its transaction, the network still.
LEMMA QuietStep ==
  ASSUME SendingIInv, NEW p \in Calls, NEW d, Quietly(call[p], d),
         call' = [call EXCEPT ![p] = d], UNCHANGED <<place, ever>>
  PROVE  Step
<1>1. DOMAIN call' = Calls /\ call'[p] = d /\ \A q \in Calls \ {p} : call'[q] = call[q]
  BY DEF SendingIInv, CallsOK
<1>2. CallsOK'
  BY <1>1 DEF SendingIInv, CallsOK, Quietly
<1>3. HeldWasTaken'
  BY DEF SendingIInv, HeldWasTaken, Held
<1>4. SentIsTaken'
  BY <1>1 DEF SendingIInv, SentIsTaken, Quietly
<1>5. RefusedIsAway
  BY <1>1 DEF RefusedIsAway, Quietly
<1> QED BY <1>2, <1>3, <1>4, <1>5 DEF Step, SendingIInv

\* The calls stay as they are while the network moves.
LEMMA NetworkStep ==
  ASSUME SendingIInv, UNCHANGED call, HeldWasTaken', ever \subseteq ever'
  PROVE  Step
<1>1. CallsOK' /\ SentIsTaken'
  BY DEF SendingIInv, CallsOK, SentIsTaken
<1> QED BY <1>1 DEF Step, SendingIInv, RefusedIsAway

\* A transaction the network takes is in its pool, its rivals are not.
LEMMA TakenStep ==
  ASSUME HeldWasTaken, NEW t \in Txs, place' = Pooled(t), ever' = ever \cup {t}
  PROVE  HeldWasTaken'
BY DEF HeldWasTaken, Held, Pooled, Places

\* The network moves, or the process starts again.
LEMMA WorldStep ==
  ASSUME SendingIInv,
         \/ \E t \in Txs : Arrives(t) \/ Mined(t) \/ ForgetBroadcast(t)
         \/ \E e \in ToSet(ServersFor(Config)) : Flips(e)
         \/ WatchMoves \/ Tick \/ Restart \/ UNCHANGED vars
  PROVE  Step
<1>1. ASSUME NEW t \in Txs, Arrives(t) PROVE Step
  <2>1. HeldWasTaken'
    BY <1>1, TakenStep DEF Arrives, SendingIInv
  <2> QED BY <1>1, <2>1, NetworkStep DEF Arrives
<1>2. ASSUME NEW t \in Txs, Mined(t) PROVE Step
  <2>1. HeldWasTaken'
    BY <1>2 DEF Mined, SendingIInv, HeldWasTaken, Held, Places
  <2> QED BY <1>2, <2>1, NetworkStep DEF Mined
<1>3. ASSUME UNCHANGED <<call, place, ever>> PROVE Step
  <2>1. HeldWasTaken'
    BY <1>3 DEF SendingIInv, HeldWasTaken, Held
  <2> QED BY <1>3, <2>1, NetworkStep
<1>4. ASSUME NEW t \in Txs, ForgetBroadcast(t) PROVE Step
  <2>1. UNCHANGED <<call, place, ever>>
    BY <1>4 DEF ForgetBroadcast, world
  <2> QED BY <1>3, <2>1
<1>5. ASSUME NEW e \in ToSet(ServersFor(Config)), Flips(e) PROVE Step
  BY <1>3, <1>5 DEF Flips
<1>6. CASE WatchMoves
  BY <1>3, <1>6 DEF WatchMoves
<1>7. CASE Tick
  BY <1>3, <1>7 DEF Tick
<1>8. CASE Restart
  <2>1. /\ call' = [p \in Calls |-> NoCall] /\ UNCHANGED <<place, ever>>
    BY <1>8 DEF Restart
  <2>2. CallOK(NoCall) /\ NoCall.tx = {} /\ NoCall.result = "none"
    BY DEF CallOK, NoCall, Fields
  <2> HIDE DEF NoCall
  <2>3. CallsOK' /\ SentIsTaken' /\ RefusedIsAway
    BY <2>1, <2>2 DEF CallsOK, SentIsTaken, RefusedIsAway
  <2>4. HeldWasTaken'
    BY <2>1 DEF SendingIInv, HeldWasTaken, Held
  <2> QED BY <2>3, <2>4 DEF Step, SendingIInv
<1>9. CASE UNCHANGED vars
  BY <1>3, <1>9 DEF vars
<1> QED BY <1>1, <1>2, <1>4, <1>5, <1>6, <1>7, <1>8, <1>9

\* A preview begins, asks servers and is shown.
LEMMA PreviewStep ==
  ASSUME SendingIInv, NEW p \in Calls,
         \/ StartPreview(p) \/ AskCoins(p) \/ CoinsAsked(p) \/ AskTip(p) \/ Shown(p)
  PROVE  Step
<1>1. CallOK(call[p]) /\ DOMAIN call = Calls
  BY DEF SendingIInv, CallsOK
<1>2. CASE StartPreview(p)
  <2>1. PICK decoded, facts, tip, routed :
          call' = [call EXCEPT ![p] = PreviewBegun(p, decoded, facts, tip, routed)]
    BY <1>2, ZenonT(40) DEF StartPreview
  <2> DEFINE d == PreviewBegun(p, decoded, facts, tip, routed)
             b == Begin(p, "preview", IF routed THEN SendEndpoints("preview") ELSE << >>)
  <2>2. Quietly(call[p], d)
    <3>1. DOMAIN b = Fields /\ b.tx = {} /\ b.result = "none" /\ b.kind = "preview"
      BY Begun
    <3>2. d = [b EXCEPT !.decoded = {decoded}, !.facts = facts, !.tip = tip,
                        !.settled = {i \in DOMAIN facts : Settled(facts[i])},
                        !.checks = NeedsChain(facts),
                        !.tips = NeedsTip(decoded.tx.lock, tip)]
      BY DEF PreviewBegun
    <3> HIDE DEF b, d
    <3>3. DOMAIN d = Fields /\ d.tx = {} /\ d.result = "none" /\ d.kind = "preview"
      BY <3>1, <3>2 DEF Fields
    <3> QED BY <3>3 DEF Quietly, CallOK
  <2>3. UNCHANGED <<place, ever>>
    BY <1>2 DEF StartPreview, world
  <2> QED BY <2>1, <2>2, <2>3, QuietStep
<1>3. CASE AskCoins(p)
  <2>1. UNCHANGED <<place, ever>> /\ call[p].kind = "preview"
    BY <1>3 DEF AskCoins, Asking, world
  <2>2. PICK facts, settled, e, fault, whole :
          LET told == [call[p] EXCEPT !.facts = facts, !.settled = settled]
          IN  call' = [call EXCEPT ![p] =
                 IF ~whole THEN FailedAt(told, e, fault)
                 ELSE [told EXCEPT !.next = @ + 1, !.hit = @ \cup {e}]]
    BY <1>3, Zenon DEF AskCoins
  <2> DEFINE told == [call[p] EXCEPT !.facts = facts, !.settled = settled]
             on == [told EXCEPT !.next = @ + 1, !.hit = @ \cup {e}]
  <2>3. CallOK(told) /\ told.tx = call[p].tx /\ told.result = call[p].result
    BY <1>1 DEF CallOK, Fields
  <2> HIDE DEF told
  <2>4. CallOK(on) /\ on.tx = call[p].tx /\ on.result = call[p].result
    BY <2>3 DEF CallOK, Fields
  <2>5. Quietly(call[p], on) /\ Quietly(call[p], FailedAt(told, e, fault))
    BY <2>3, <2>4, GoesOn DEF Quietly
  <2>6. call' = [call EXCEPT ![p] = on] \/ call' = [call EXCEPT ![p] = FailedAt(told, e, fault)]
    BY <2>2 DEF told
  <2> HIDE DEF on
  <2> QED BY <2>1, <2>5, <2>6, QuietStep
<1>4. CASE CoinsAsked(p)
  <2> DEFINE d == [call[p] EXCEPT !.at = "tip", !.next = 1]
  <2>1. call' = [call EXCEPT ![p] = d] /\ UNCHANGED <<place, ever>>
    BY <1>1, <1>4 DEF CoinsAsked, world
  <2>2. Quietly(call[p], d)
    BY <1>1 DEF Quietly, CallOK, Fields
  <2> QED BY <2>1, <2>2, QuietStep
<1>5. CASE AskTip(p)
  <2>1. UNCHANGED <<place, ever>>
    BY <1>5 DEF AskTip, world
  <2>2. PICK e, fault :
          \/ call' = [call EXCEPT ![p].next = @ + 1]
          \/ call' = [call EXCEPT ![p].tip = {1}, ![p].tips = FALSE, ![p].hit = @ \cup {e}]
          \/ call' = [call EXCEPT ![p] = FailedAt(call[p], e, fault)]
    BY <1>5, Zenon DEF AskTip
  <2> DEFINE over == [call[p] EXCEPT !.next = @ + 1]
             told == [call[p] EXCEPT !.tip = {1}, !.tips = FALSE, !.hit = @ \cup {e}]
             on == FailedAt(call[p], e, fault)
  <2>3. \/ call' = [call EXCEPT ![p] = over]
        \/ call' = [call EXCEPT ![p] = told]
        \/ call' = [call EXCEPT ![p] = on]
    BY <1>1, <2>2
  <2>4. Quietly(call[p], over) /\ Quietly(call[p], told)
    BY <1>1 DEF Quietly, CallOK, Fields
  <2>5. Quietly(call[p], on)
    BY <1>1, GoesOn DEF Quietly
  <2> HIDE DEF over, told, on
  <2> QED BY <2>1, <2>3, <2>4, <2>5, QuietStep
<1>6. CASE Shown(p)
  <2>1. PICK facts, preview :
          call' = [call EXCEPT ![p] = [Done(call[p], "shown") EXCEPT
                                         !.facts = facts, !.preview = preview]]
    BY <1>6, Zenon DEF Shown
  <2> DEFINE b == Done(call[p], "shown")
             d == [b EXCEPT !.facts = facts, !.preview = preview]
  <2>2. CallOK(b) /\ b.tx = call[p].tx /\ b.result = "shown"
    BY <1>1, GoesOn
  <2> HIDE DEF b
  <2>3. Quietly(call[p], d)
    BY <2>2 DEF Quietly, CallOK, Fields
  <2>4. UNCHANGED <<place, ever>>
    BY <1>6 DEF Shown, world
  <2> QED BY <2>1, <2>3, <2>4, QuietStep DEF b
<1> QED BY <1>2, <1>3, <1>4, <1>5, <1>6

\* What asks where a transaction stands, syncs, or gives up.
LEMMA ReadStep ==
  ASSUME SendingIInv, NEW p \in Calls,
         StartStatus(p) \/ StartSync(p) \/ AskRead(p) \/ Fails(p)
  PROVE  Step
<1>1. CallOK(call[p]) /\ DOMAIN call = Calls
  BY DEF SendingIInv, CallsOK
<1>2. UNCHANGED <<place, ever>>
  BY DEF StartStatus, StartSync, AskRead, Fails, world
<1>3. CASE StartStatus(p)
  <2> DEFINE d == Begin(p, "status", SendEndpoints("broadcast"))
  <2>1. DOMAIN d = Fields /\ d.tx = {} /\ d.result = "none" /\ d.kind = "status"
    BY Begun
  <2>2. call' = [call EXCEPT ![p] = d]
    BY <1>3 DEF StartStatus
  <2> HIDE DEF d
  <2>3. Quietly(call[p], d)
    BY <2>1 DEF Quietly, CallOK
  <2> QED BY <1>2, <2>2, <2>3, QuietStep
<1>4. CASE StartSync(p)
  <2>1. PICK order, first :
          call' = [call EXCEPT ![p] = [Begin(p, "sync", order) EXCEPT !.watch = first]]
    BY <1>4, Zenon DEF StartSync
  <2> DEFINE b == Begin(p, "sync", order)
             d == [b EXCEPT !.watch = first]
  <2>2. DOMAIN b = Fields /\ b.tx = {} /\ b.result = "none" /\ b.kind = "sync"
    BY Begun
  <2> HIDE DEF b
  <2>3. Quietly(call[p], d)
    BY <2>2 DEF Quietly, CallOK, Fields
  <2> QED BY <1>2, <2>1, <2>3, QuietStep DEF b
<1>5. CASE AskRead(p)
  <2> DEFINE c == [call[p] EXCEPT !.hit = @ \cup {Asked(p)}]
  <2>1. PICK fault, result :
          /\ result \in {"read", "not_read"}
          /\ \/ call' = [call EXCEPT ![p] = FailedAt(c, Asked(p), fault)]
             \/ call' = [call EXCEPT ![p] = Done(c, result)]
    BY <1>5, Zenon DEF AskRead
  <2>2. CallOK(c) /\ c.tx = call[p].tx /\ c.result = call[p].result
    BY <1>1 DEF CallOK, Fields
  <2> HIDE DEF c
  <2>3. Quietly(call[p], FailedAt(c, Asked(p), fault)) /\ Quietly(call[p], Done(c, result))
    BY <2>1, <2>2, GoesOn DEF Quietly
  <2> QED BY <1>2, <2>1, <2>3, QuietStep
<1>6. CASE Fails(p)
  <2>1. call' = [call EXCEPT ![p] = Done(call[p], "failed")]
    BY <1>6, <1>1 DEF Fails, Done
  <2>2. Quietly(call[p], Done(call[p], "failed"))
    BY <1>1, GoesOn DEF Quietly
  <2> QED BY <1>2, <2>1, <2>2, QuietStep
<1> QED BY <1>3, <1>4, <1>5, <1>6

\* A call that hands its transaction over, and what it tells of it.
LEMMA HandedStep ==
  ASSUME SendingIInv, NEW p \in Calls, NEW d, CallOK(d), d.tx = call[p].tx,
         call' = [call EXCEPT ![p] = d], HeldWasTaken', ever \subseteq ever',
         d.result = "sent" => d.tx \subseteq ever',
         d.result = "refused" => \/ call[p].result = "refused"
                                 \/ \A t \in d.tx : place[t] = "away"
  PROVE  Step
<1>1. DOMAIN call' = Calls /\ call'[p] = d /\ \A q \in Calls \ {p} : call'[q] = call[q]
  BY DEF SendingIInv, CallsOK
<1>2. CallsOK'
  BY <1>1 DEF SendingIInv, CallsOK
<1>3. SentIsTaken'
  BY <1>1 DEF SendingIInv, SentIsTaken
<1>4. RefusedIsAway
  BY <1>1 DEF RefusedIsAway
<1> QED BY <1>2, <1>3, <1>4 DEF Step, SendingIInv

\* A broadcast begins, or one server is handed the transaction: it is told
\* sent only when the node that answered has it, refused only by a node that
\* has not.
LEMMA BroadcastStep ==
  ASSUME SendingIInv, NEW p \in Calls, StartBroadcast(p) \/ Hand(p)
  PROVE  Step
<1>1. CallOK(call[p]) /\ DOMAIN call = Calls
  BY DEF SendingIInv, CallsOK
<1>2. CASE StartBroadcast(p)
  <2> DEFINE b == Begin(p, "broadcast", SendEndpoints("broadcast"))
  <2>1. PICK t \in Txs : call' = [call EXCEPT ![p] = [b EXCEPT !.tx = {t}]]
    BY <1>2 DEF StartBroadcast
  <2>2. DOMAIN b = Fields /\ b.result = "none"
    BY Begun
  <2>3. UNCHANGED <<place, ever>>
    BY <1>2 DEF StartBroadcast, world
  <2> DEFINE d == [b EXCEPT !.tx = {t}]
  <2> HIDE DEF b
  <2>4. DOMAIN d = Fields /\ d.tx = {t} /\ d.result = "none"
    BY <2>2 DEF Fields
  <2>5. CallOK(d)
    BY <2>4 DEF CallOK
  <2> HIDE DEF d
  <2>6. DOMAIN call' = Calls /\ call'[p] = d /\ \A q \in Calls \ {p} : call'[q] = call[q]
    BY <1>1, <2>1 DEF d
  <2>7. CallsOK' /\ SentIsTaken' /\ RefusedIsAway
    BY <2>3, <2>4, <2>5, <2>6 DEF SendingIInv, CallsOK, SentIsTaken, RefusedIsAway
  <2>8. HeldWasTaken'
    BY <2>3 DEF SendingIInv, HeldWasTaken, Held
  <2> QED BY <2>7, <2>8 DEF Step, SendingIInv
<1>3. CASE Hand(p)
  <2> DEFINE e == Asked(p)
             t == CHOOSE t \in call[p].tx : TRUE
             after(result) == ToldBy(call[p], e, result)
  <2>1. t \in Txs /\ call[p].tx = {t}
    BY <1>1, <1>3 DEF Hand, Asking, CallOK
  <2>2. ASSUME NEW result
        PROVE  CallOK(after(result)) /\ after(result).tx = {t} /\ after(result).result = result
    <3> DEFINE c == Done(call[p], result)
    <3>1. CallOK(c) /\ c.tx = {t} /\ c.result = result
      BY <1>1, <2>1, GoesOn
    <3> HIDE DEF c
    <3> QED BY <3>1 DEF CallOK, Fields, ToldBy, c
  <2>3. UNCHANGED <<place, ever>> => HeldWasTaken' /\ ever \subseteq ever'
    BY DEF SendingIInv, HeldWasTaken, Held
  <2>4. Takes(t) => HeldWasTaken' /\ ever \subseteq ever' /\ t \in ever'
    BY <2>1, TakenStep DEF SendingIInv, Takes
  <2> HIDE DEF t, e
  <2>5. ASSUME NEW fault, Unsent(p, e, fault), Takes(t) \/ UNCHANGED <<place, ever>>
        PROVE  Step
    <3> DEFINE d == FailedAt(call[p], e, fault)
    <3>1. call' = [call EXCEPT ![p] = d]
      BY <1>1, <2>5 DEF Unsent
    <3>2. CallOK(d) /\ d.tx = call[p].tx /\ d.result = call[p].result
      BY <1>1, GoesOn
    <3>3. call[p].result = "sent" => call[p].tx \subseteq ever
      BY DEF SendingIInv, SentIsTaken
    <3>4. HeldWasTaken' /\ ever \subseteq ever'
      BY <2>3, <2>4, <2>5
    <3> HIDE DEF d
    <3> QED BY <3>1, <3>2, <3>3, <3>4, HandedStep
  <2>6. ASSUME Sent(p, e, t), HeldWasTaken', ever \subseteq ever', t \in ever'
        PROVE  Step
    <3>1. call' = [call EXCEPT ![p] = after("sent")]
      BY <1>1, <2>6 DEF Sent
    <3> HIDE DEF after
    <3> QED BY <2>1, <2>2, <2>6, <3>1, HandedStep
  <2>7. ASSUME \E fault \in Faults(e) : Unsent(p, e, fault),
               UNCHANGED <<place, ever>> \/ ("taken" \in Verdict(t) /\ Takes(t))
        PROVE  Step
    BY <2>5, <2>7
  <2>8. ASSUME NEW txid \in Txs,
               IF SentAs(t, txid) THEN Sent(p, e, t) ELSE Unsent(p, e, "other"),
               Takes(t) \/ (txid # t /\ UNCHANGED <<place, ever>>)
        PROVE  Step
    <3>1. CASE txid = t
      BY <2>4, <2>6, <2>8, <3>1 DEF SentAs
    <3>2. CASE txid # t
      BY <2>5, <2>8, <3>2 DEF SentAs
    <3> QED BY <3>1, <3>2
  <2>9. ASSUME NEW words \in Verdict(t), AlreadyKnown(words), UNCHANGED <<place, ever>>,
               Sent(p, e, t) \/ \E fault \in Faults(e) : Unsent(p, e, fault)
        PROVE  Step
    <3>1. place[t] # "away"
      BY <2>9 DEF Verdict, AlreadyKnown
    <3>2. t \in ever'
      BY <2>1, <2>9, <3>1 DEF SendingIInv, HeldWasTaken, Held
    <3> QED BY <2>3, <2>5, <2>6, <2>9, <3>2
  <2>10. ASSUME NEW words \in Verdict(t), words # "taken", ~AlreadyKnown(words),
                call' = [call EXCEPT ![p] = after("refused")], UNCHANGED <<place, ever>>
         PROVE  Step
    <3>1. place[t] = "away"
      <4>1. place[t] \in Places
        BY <2>1 DEF SendingIInv, HeldWasTaken
      <4> QED BY <2>10, <4>1 DEF Verdict, AlreadyKnown, Places
    <3> HIDE DEF after
    <3> QED BY <2>1, <2>2, <2>3, <2>10, <3>1, HandedStep
  <2>11. \/ /\ \E fault \in Faults(e) : Unsent(p, e, fault)
            /\ UNCHANGED <<place, ever>> \/ ("taken" \in Verdict(t) /\ Takes(t))
         \/ \E words \in Verdict(t) :
              \/ \E txid \in Txs :
                   /\ IF SentAs(t, txid) THEN Sent(p, e, t) ELSE Unsent(p, e, "other")
                   /\ Takes(t) \/ (txid # t /\ UNCHANGED <<place, ever>>)
              \/ /\ AlreadyKnown(words) /\ UNCHANGED <<place, ever>>
                 /\ Sent(p, e, t) \/ \E fault \in Faults(e) : Unsent(p, e, fault)
              \/ /\ words # "taken" /\ ~AlreadyKnown(words) /\ UNCHANGED <<place, ever>>
                 /\ call' = [call EXCEPT ![p] = after("refused")]
    BY <1>1, <1>3, Zenon DEF Hand, e, t
  <2> HIDE DEF after
  <2> QED BY <2>7, <2>8, <2>9, <2>10, <2>11
<1> QED BY <1>2, <1>3

\* Every step.
LEMMA NextStep == SendingIInv /\ [Next]_vars => Step
<1> SUFFICES ASSUME SendingIInv, [Next]_vars PROVE Step
  OBVIOUS
<1>1. ASSUME NEW p \in Calls,
             \/ StartPreview(p) \/ AskCoins(p) \/ CoinsAsked(p) \/ AskTip(p) \/ Shown(p)
             \/ StartBroadcast(p) \/ Hand(p)
             \/ StartStatus(p) \/ StartSync(p) \/ AskRead(p) \/ Fails(p)
      PROVE  Step
  BY <1>1, PreviewStep, ReadStep, BroadcastStep
<1> QED BY <1>1, WorldStep DEF Next

\* What calls know of their transactions and what the network holds, from
\* the start and through every step.
THEOREM SendingInductive == Spec => []SendingIInv
<1>1. Init => SendingIInv
  <2> SUFFICES ASSUME Init PROVE SendingIInv
    OBVIOUS
  <2>1. CallOK(NoCall) /\ NoCall.tx = {}
    BY DEF CallOK, NoCall, Fields
  <2>2. call = [p \in Calls |-> NoCall] /\ place = [t \in Txs |-> "away"]
    BY DEF Init
  <2> HIDE DEF NoCall
  <2>3. CallsOK /\ SentIsTaken
    BY <2>1, <2>2 DEF CallsOK, SentIsTaken
  <2>4. HeldWasTaken
    BY <2>2 DEF HeldWasTaken, Held, Places
  <2> QED BY <2>3, <2>4 DEF SendingIInv
<1>2. SendingIInv /\ [Next]_vars => SendingIInv'
  BY NextStep DEF Step
<1> QED BY <1>1, <1>2, PTL DEF Spec

\* A broadcast told sent reached the network, whichever answers were lost or
\* named another transaction and whichever calls raced (broadcast_transaction).
THEOREM SentHolds == Spec => []SentIsTaken
<1>1. SendingIInv => SentIsTaken
  BY DEF SendingIInv
<1> QED BY <1>1, SendingInductive, PTL

\* A transaction the network holds is never told refused by a retry at a
\* node that has it already (broadcast_transaction).
THEOREM RefusedHolds == Spec => TakenIsNotRefused
<1>1. SendingIInv /\ [Next]_vars
        => [\A p \in Calls : \A t \in call[p].tx :
              call'[p].result = "refused" /\ call[p].result # "refused"
                => place[t] = "away"]_vars
  BY NextStep DEF Step, RefusedIsAway
<1> QED BY <1>1, SendingInductive, PTL DEF Spec, TakenIsNotRefused

-----------------------------------------------------------------------------
(* Induction and recursion over the natural numbers.                       *)

\* A set of numbers that is not empty has a smallest.
LEMMA Smallest ==
  ASSUME NEW S, S \subseteq Nat, S # {}
  PROVE  \E m \in S : \A n \in S : m <= n
<1>1. PICK m \in S : \A n \in S : ~ (<<n, m>> \in OpToRel(<, Nat))
  BY WFMin, NatLessThanWellFounded
<1>2. \A a, b \in Nat : a < b => <<a, b>> \in OpToRel(<, Nat)
  BY DEF OpToRel
<1>3. m \in Nat /\ \A n \in S : n \in Nat /\ ~(n < m)
  BY <1>1, <1>2
<1> QED BY <1>3

\* A set that has 0, and the next number of each it has, has them all.
LEMMA Induction ==
  ASSUME NEW S, 0 \in S, \A n \in Nat : n \in S => n + 1 \in S
  PROVE  Nat \subseteq S
<1> DEFINE B == {n \in Nat : n \notin S}
<1> SUFFICES ASSUME B # {} PROVE FALSE
  OBVIOUS
<1>1. PICK m \in B : \A n \in B : m <= n
  BY Smallest
<1>2. m # 0 /\ m \in Nat
  BY <1>1
<1>3. m - 1 \in Nat /\ m - 1 \notin B /\ (m - 1) + 1 = m
  BY <1>1, <1>2
<1> QED BY <1>1, <1>3

\* What a step from one number to the next makes of a first value.
Steps(g, m, v, step) ==
  g[0] = v /\ \A i \in 0..(m - 1) : g[i + 1] = step[<<i + 1, g[i]>>]

\* So many steps can be made from any first value.
LEMMA StepsExist ==
  ASSUME NEW V, NEW v \in V, NEW step \in [Nat \X V -> V]
  PROVE  \A m \in Nat : \E g \in [0..m -> V] : Steps(g, m, v, step)
<1> DEFINE S == {m \in Nat : \E g \in [0..m -> V] : Steps(g, m, v, step)}
<1>1. 0 \in S
  <2>1. [i \in 0..0 |-> v] \in [0..0 -> V] /\ Steps([i \in 0..0 |-> v], 0, v, step)
    BY DEF Steps
  <2> QED BY <2>1
<1>2. ASSUME NEW m \in Nat, m \in S PROVE m + 1 \in S
  <2>1. PICK g \in [0..m -> V] : Steps(g, m, v, step)
    BY <1>2
  <2> DEFINE h == [i \in 0..(m + 1) |-> IF i = m + 1 THEN step[<<m + 1, g[m]>>] ELSE g[i]]
  <2>2. g[m] \in V /\ step[<<m + 1, g[m]>>] \in V
    OBVIOUS
  <2>3. h \in [0..(m + 1) -> V]
    BY <2>2
  <2>4. h[0] = v
    BY <2>1 DEF Steps
  <2>5. ASSUME NEW i \in 0..m PROVE h[i + 1] = step[<<i + 1, h[i]>>]
    <3>1. CASE i = m
      <4>1. m \in 0..(m + 1) /\ m + 1 \in 0..(m + 1) /\ m # m + 1
        OBVIOUS
      <4>2. h[m] = g[m] /\ h[m + 1] = step[<<m + 1, g[m]>>]
        BY <4>1
      <4> QED BY <3>1, <4>2
    <3>2. CASE i # m
      <4>1. i \in 0..(m - 1) /\ i + 1 \in 0..m /\ i + 1 # m + 1 /\ i # m + 1
        BY <3>2
      <4>2. h[i + 1] = g[i + 1] /\ h[i] = g[i]
        BY <4>1
      <4> QED BY <2>1, <4>1, <4>2 DEF Steps
    <3> QED BY <3>1, <3>2
  <2>6. (m + 1) - 1 = m
    OBVIOUS
  <2> HIDE DEF h
  <2>7. Steps(h, m + 1, v, step)
    BY <2>4, <2>5, <2>6 DEF Steps
  <2> QED BY <2>3, <2>7
<1> HIDE DEF S
<1>3. Nat \subseteq S
  BY <1>1, <1>2, Induction
<1> QED BY <1>3 DEF S

\* Steps from the same value agree as far as both go.
LEMMA StepsAgree ==
  ASSUME NEW v, NEW step, NEW g, NEW h, NEW m \in Nat, NEW n \in Nat, m <= n,
         Steps(g, m, v, step), Steps(h, n, v, step)
  PROVE  \A i \in 0..m : g[i] = h[i]
<1> DEFINE S == {i \in Nat : i <= m => g[i] = h[i]}
<1>1. 0 \in S
  BY DEF Steps
<1>2. ASSUME NEW i \in Nat, i \in S PROVE i + 1 \in S
  <2> SUFFICES ASSUME i + 1 <= m PROVE g[i + 1] = h[i + 1]
    OBVIOUS
  <2>1. i \in 0..(m - 1) /\ i \in 0..(n - 1) /\ g[i] = h[i]
    BY <1>2
  <2> QED BY <2>1 DEF Steps
<1> HIDE DEF S
<1>3. Nat \subseteq S
  BY <1>1, <1>2, Induction
<1> QED BY <1>3 DEF S

\* A value for every number.
Recurs(f, v, step) == f[0] = v /\ \A n \in Nat : f[n + 1] = step[<<n + 1, f[n]>>]

\* A function defined by recursion on the numbers exists.
LEMMA Recursion ==
  ASSUME NEW V, NEW v \in V, NEW step \in [Nat \X V -> V]
  PROVE  \E f \in [Nat -> V] : Recurs(f, v, step)
<1> DEFINE G(m) == CHOOSE g \in [0..m -> V] : Steps(g, m, v, step)
           f == [m \in Nat |-> G(m)[m]]
<1>1. ASSUME NEW m \in Nat PROVE G(m) \in [0..m -> V] /\ Steps(G(m), m, v, step)
  BY StepsExist
<1> HIDE DEF G
<1>2. f \in [Nat -> V]
  <2>1. \A m \in Nat : G(m)[m] \in V
    BY <1>1
  <2> QED BY <2>1
<1>3. f[0] = v
  BY <1>1 DEF Steps
<1>4. ASSUME NEW n \in Nat PROVE f[n + 1] = step[<<n + 1, f[n]>>]
  <2>1. n + 1 \in Nat /\ n <= n + 1 /\ n \in 0..((n + 1) - 1) /\ n \in 0..n
    OBVIOUS
  <2>2. G(n + 1)[n] = G(n)[n]
    BY <1>1, <2>1, StepsAgree
  <2>3. G(n + 1)[n + 1] = step[<<n + 1, G(n + 1)[n]>>]
    BY <1>1, <2>1 DEF Steps
  <2> QED BY <2>1, <2>2, <2>3
<1> QED BY <1>2, <1>3, <1>4 DEF Recurs

-----------------------------------------------------------------------------
(* The lists of servers.                                                   *)

\* The watch's server comes before every server of another operator.
Leads(list, w) ==
  \A i \in DOMAIN list : list[i].operator # w.operator =>
    \E j \in DOMAIN list : j < i /\ list[j] = w

\* What the recursion of Only builds.
Filters(f, list, some) ==
  f = [i \in 0..Len(list) |->
         IF i = 0 THEN << >>
         ELSE IF list[i] \in some THEN Append(f[i - 1], list[i]) ELSE f[i - 1]]

\* The function that filters a list, one element after the other, exists.
LEMMA FiltersExist ==
  ASSUME NEW S, NEW list \in Seq(S), NEW some
  PROVE  \E f : Filters(f, list, some)
<1> DEFINE V == Seq(S)
           n == Len(list)
           step == [x \in Nat \X V |->
                      IF x[1] \in 1..n /\ list[x[1]] \in some
                      THEN Append(x[2], list[x[1]]) ELSE x[2]]
<1>1. n \in Nat /\ \A i \in 1..n : list[i] \in S
  OBVIOUS
<1>2. step \in [Nat \X V -> V]
  <2> SUFFICES ASSUME NEW x \in Nat \X V
               PROVE  (IF x[1] \in 1..n /\ list[x[1]] \in some
                       THEN Append(x[2], list[x[1]]) ELSE x[2]) \in V
    OBVIOUS
  <2>1. x[2] \in V
    OBVIOUS
  <2> QED BY <1>1, <2>1
<1>3. << >> \in V
  OBVIOUS
<1>4. \A i \in Nat, u \in V : step[<<i, u>>] =
         IF i \in 1..n /\ list[i] \in some THEN Append(u, list[i]) ELSE u
  OBVIOUS
<1> HIDE DEF V, step, n
<1>5. PICK f \in [Nat -> V] : f[0] = << >> /\ \A k \in Nat : f[k + 1] = step[<<k + 1, f[k]>>]
  <2> DEFINE none == << >>
  <2>1. none \in V
    BY <1>3
  <2> HIDE DEF none
  <2>2. \E f \in [Nat -> V] : Recurs(f, none, step)
    BY <1>2, <2>1, Recursion
  <2> QED BY <2>2 DEF none, Recurs
<1> DEFINE g == [i \in 0..n |-> f[i]]
<1>6. ASSUME NEW i \in 1..n
      PROVE  f[i] = IF list[i] \in some THEN Append(f[i - 1], list[i]) ELSE f[i - 1]
  <2>1. i \in Nat /\ i - 1 \in Nat /\ (i - 1) + 1 = i
    BY <1>1
  <2>2. f[i] = step[<<i, f[i - 1]>>] /\ f[i - 1] \in V
    BY <1>5, <2>1
  <2> QED BY <1>4, <2>1, <2>2
<1>7. \A i \in 1..n : g[i] = f[i] /\ g[i - 1] = f[i - 1]
  BY <1>1
<1>8. \A i \in 0..n : i # 0 => i \in 1..n
  BY <1>1
<1>9. g[0] = << >>
  BY <1>1, <1>5
<1>10. g = [i \in 0..n |-> IF i = 0 THEN << >>
              ELSE IF list[i] \in some THEN Append(g[i - 1], list[i]) ELSE g[i - 1]]
  <2>1. ASSUME NEW i \in 0..n
        PROVE  g[i] = IF i = 0 THEN << >>
                 ELSE IF list[i] \in some THEN Append(g[i - 1], list[i]) ELSE g[i - 1]
    BY <1>6, <1>7, <1>8, <1>9
  <2>2. g = [i \in 0..n |-> g[i]]
    OBVIOUS
  <2> HIDE DEF g
  <2> QED BY <2>1, <2>2
<1> HIDE DEF g
<1> QED BY <1>10 DEF Filters, n

\* Only keeps what is in the set, and what comes first.
LEMMA OnlyIs ==
  ASSUME NEW S, NEW list \in Seq(S), NEW some
  PROVE  /\ Only(list, some) \in Seq(S)
         /\ ToSet(Only(list, some)) = ToSet(list) \cap some
         /\ \A w \in some : Leads(list, w) => Leads(Only(list, some), w)
<1> DEFINE n == Len(list)
           f == CHOOSE f : Filters(f, list, some)
<1>1. n \in Nat /\ DOMAIN list = 1..n /\ \A i \in 1..n : list[i] \in S
  OBVIOUS
<1>2. Filters(f, list, some)
  BY FiltersExist
<1>3. Only(list, some) = f[n]
  BY DEF Only, Filters
<1> HIDE DEF f
<1>4. f[0] = << >>
  BY <1>1, <1>2 DEF Filters
<1>5. ASSUME NEW i \in 1..n
      PROVE  f[i] = IF list[i] \in some THEN Append(f[i - 1], list[i]) ELSE f[i - 1]
  <2>1. i \in 0..Len(list) /\ i # 0
    BY <1>1
  <2>2. f[i] = IF i = 0 THEN << >>
               ELSE IF list[i] \in some THEN Append(f[i - 1], list[i]) ELSE f[i - 1]
    BY <1>2, <2>1, Zenon DEF Filters
  <2> QED BY <2>1, <2>2
<1> DEFINE P(i) == /\ f[i] \in Seq(S)
                   /\ ToSet(f[i]) = {list[k] : k \in 1..i} \cap some
                   /\ \A w \in some : Leads(list, w) => Leads(f[i], w)
           D == {i \in Nat : i <= n => P(i)}
<1>6. 0 \in D
  <2>1. f[0] \in Seq(S) /\ DOMAIN f[0] = {}
    BY <1>4
  <2>2. ToSet(f[0]) = {} /\ {list[k] : k \in 1..0} = {}
    BY <2>1 DEF ToSet
  <2>3. \A w \in some : Leads(f[0], w)
    BY <2>1 DEF Leads
  <2> QED BY <2>1, <2>2, <2>3
<1>7. ASSUME NEW j \in Nat, j \in D PROVE j + 1 \in D
  <2> SUFFICES ASSUME j + 1 <= n PROVE P(j + 1)
    OBVIOUS
  <2> DEFINE i == j + 1
             s == f[j]
             x == list[i]
  <2>1. i \in 1..n /\ i - 1 = j /\ j <= n
    BY <1>1
  <2>2. P(j)
    BY <1>7, <2>1
  <2>3. f[i] = IF x \in some THEN Append(s, x) ELSE s
    BY <1>5, <2>1
  <2>4. {list[k] : k \in 1..i} = {list[k] : k \in 1..j} \cup {x}
    <3>1. 1..i = 1..j \cup {i}
      BY <2>1
    <3> QED BY <3>1
  <2>5. CASE x \notin some
    BY <2>2, <2>3, <2>4, <2>5
  <2>6. CASE x \in some
    <3>1. f[i] = Append(s, x) /\ s \in Seq(S) /\ x \in S
      BY <1>1, <2>1, <2>2, <2>3, <2>6
    <3> HIDE DEF s, x
    <3>2. /\ f[i] \in Seq(S) /\ Len(s) \in Nat /\ DOMAIN s = 1..Len(s)
          /\ DOMAIN f[i] = 1..(Len(s) + 1)
          /\ f[i][Len(s) + 1] = x /\ \A k \in 1..Len(s) : f[i][k] = s[k]
      BY <3>1
    <3>3. ToSet(f[i]) = ToSet(s) \cup {x}
      <4>1. \A y : y \in ToSet(f[i]) <=> \E k \in 1..(Len(s) + 1) : y = f[i][k]
        BY <3>2 DEF ToSet
      <4>2. \A y : y \in ToSet(s) <=> \E k \in 1..Len(s) : y = s[k]
        BY <3>2 DEF ToSet
      <4>3. \A k \in 1..(Len(s) + 1) : k \in 1..Len(s) \/ k = Len(s) + 1
        BY <3>2
      <4>4. 1..Len(s) \subseteq 1..(Len(s) + 1) /\ Len(s) + 1 \in 1..(Len(s) + 1)
        BY <3>2
      <4> QED BY <3>2, <4>1, <4>2, <4>3, <4>4
    <3>4. ToSet(f[i]) = {list[k] : k \in 1..i} \cap some
      BY <2>2, <2>4, <2>6, <3>3 DEF s, x
    <3>5. ASSUME NEW w \in some, Leads(list, w) PROVE Leads(f[i], w)
      <4> SUFFICES ASSUME NEW k \in DOMAIN f[i], f[i][k].operator # w.operator
                   PROVE  \E l \in DOMAIN f[i] : l < k /\ f[i][l] = w
        BY DEF Leads
      <4>1. CASE k \in 1..Len(s)
        <5>1. s[k].operator # w.operator /\ k \in DOMAIN s
          BY <3>2, <4>1
        <5>2. PICK l \in DOMAIN s : l < k /\ s[l] = w
          BY <2>2, <3>5, <5>1 DEF Leads, s
        <5> QED BY <3>2, <5>2
      <4>2. CASE k = Len(s) + 1
        <5>1. x.operator # w.operator
          BY <3>2, <4>2
        <5>2. PICK l \in DOMAIN list : l < i /\ list[l] = w
          BY <1>1, <2>1, <3>5, <5>1 DEF Leads, x
        <5>3. l \in 1..j
          BY <1>1, <2>1, <5>2
        <5>4. w \in ToSet(s)
          BY <2>2, <5>2, <5>3 DEF s
        <5>5. PICK m \in 1..Len(s) : s[m] = w
          BY <3>2, <5>4 DEF ToSet
        <5> QED BY <3>2, <4>2, <5>5
      <4> QED BY <3>2, <4>1, <4>2
    <3> QED BY <3>2, <3>4, <3>5
  <2> QED BY <2>5, <2>6
<1> HIDE DEF D
<1>8. Nat \subseteq D
  BY <1>6, <1>7, Induction
<1>9. P(n)
  <2>1. n \in D /\ n <= n
    BY <1>1, <1>8
  <2> QED BY <2>1 DEF D
<1>10. ToSet(list) = {list[k] : k \in 1..n}
  BY <1>1 DEF ToSet
<1> QED BY <1>3, <1>9, <1>10

\* Two lists one after the other.
LEMMA JoinIs ==
  ASSUME NEW S, NEW a \in Seq(S), NEW b \in Seq(S)
  PROVE  /\ a \o b \in Seq(S) /\ ToSet(a \o b) = ToSet(a) \cup ToSet(b)
         /\ \A w : (Leads(a, w) /\ (w \in ToSet(a) \/ \A x \in ToSet(b) : x.operator = w.operator))
                     => Leads(a \o b, w)
<1> DEFINE c == a \o b
<1>1. /\ Len(a) \in Nat /\ DOMAIN a = 1..Len(a) /\ Len(b) \in Nat /\ DOMAIN b = 1..Len(b)
      /\ c \in Seq(S) /\ DOMAIN c = 1..(Len(a) + Len(b))
      /\ \A k \in 1..Len(a) : c[k] = a[k]
      /\ \A k \in 1..Len(b) : c[Len(a) + k] = b[k]
  BY ConcatProperties
<1> HIDE DEF c
<1>2. \A k \in DOMAIN c : \/ k \in 1..Len(a)
                          \/ \E l \in 1..Len(b) : k = Len(a) + l
  <2> SUFFICES ASSUME NEW k \in DOMAIN c, k \notin 1..Len(a) PROVE \E l \in 1..Len(b) : k = Len(a) + l
    OBVIOUS
  <2>1. k - Len(a) \in 1..Len(b) /\ k = Len(a) + (k - Len(a))
    BY <1>1
  <2> QED BY <2>1
<1>3. \A k \in 1..Len(b) : Len(a) + k \in DOMAIN c
  BY <1>1
<1>4. \A k \in 1..Len(a) : k \in DOMAIN c
  BY <1>1
<1>5. ToSet(c) = ToSet(a) \cup ToSet(b)
  <2>1. \A x \in ToSet(a) : x \in ToSet(c)
    BY <1>1, <1>4 DEF ToSet
  <2>2. \A x \in ToSet(b) : x \in ToSet(c)
    BY <1>1, <1>3 DEF ToSet
  <2>3. \A x \in ToSet(c) : x \in ToSet(a) \/ x \in ToSet(b)
    <3> SUFFICES ASSUME NEW k \in DOMAIN c PROVE c[k] \in ToSet(a) \/ c[k] \in ToSet(b)
      BY DEF ToSet
    <3>1. CASE k \in 1..Len(a)
      BY <1>1, <3>1 DEF ToSet
    <3>2. ASSUME NEW l \in 1..Len(b), k = Len(a) + l PROVE c[k] \in ToSet(b)
      BY <1>1, <3>2 DEF ToSet
    <3> QED BY <1>2, <3>1, <3>2
  <2> QED BY <2>1, <2>2, <2>3
<1>6. ASSUME NEW w, Leads(a, w), w \in ToSet(a) \/ \A x \in ToSet(b) : x.operator = w.operator
      PROVE  Leads(c, w)
  <2> SUFFICES ASSUME NEW k \in DOMAIN c, c[k].operator # w.operator
               PROVE  \E j \in DOMAIN c : j < k /\ c[j] = w
    BY DEF Leads
  <2>1. CASE k \in 1..Len(a)
    <3>1. PICK j \in DOMAIN a : j < k /\ a[j] = w
      BY <1>1, <1>6, <2>1 DEF Leads
    <3> QED BY <1>1, <1>4, <3>1
  <2>2. ASSUME NEW l \in 1..Len(b), k = Len(a) + l
        PROVE  \E j \in DOMAIN c : j < k /\ c[j] = w
    <3>1. b[l].operator # w.operator /\ b[l] \in ToSet(b)
      BY <1>1, <2>2 DEF ToSet
    <3>2. PICK j \in DOMAIN a : a[j] = w
      BY <1>6, <3>1 DEF ToSet
    <3> QED BY <1>1, <1>4, <2>2, <3>2
  <2> QED BY <1>2, <2>1, <2>2
<1> QED BY <1>1, <1>5, <1>6 DEF c

\* Every server a call may ask.
Known == ToSet(Rotation) \cup ToSet(Catalogue) \cup ToSet(Config)

\* A list over a set is one over a larger set.
LEMMA Wider ==
  ASSUME NEW S, NEW T, S \subseteq T, NEW list \in Seq(S)
  PROVE  list \in Seq(T)
<1>1. Len(list) \in Nat /\ list \in [1..Len(list) -> S]
  OBVIOUS
<1>2. list \in [1..Len(list) -> T]
  BY <1>1
<1> QED BY <1>1, <1>2, SeqDef

\* The endpoints of a configuration and the servers of a watch are known.
LEMMA ServersKnown ==
  /\ Endpoints(Config) \in Seq(Known)
  /\ ToSet(ServersFor(Config)) \subseteq Known
<1>1. Rotation \in Seq(Known) /\ Catalogue \in Seq(Known) /\ Config \in Seq(Known)
  <2>1. ToSet(Rotation) \subseteq Known /\ ToSet(Catalogue) \subseteq Known /\ ToSet(Config) \subseteq Known
    BY DEF Known
  <2> QED BY <2>1, Wider, RelegationAssumption, ConfigAssumption
<1>2. ToSet(Rotation) \subseteq Known /\ ToSet(Config) \subseteq Known
  BY DEF Known
<1>3. ASSUME NEW A, NEW B
      PROVE  LET pushing == Only(Catalogue, A)
             IN  Only(pushing, B) \o Rotation \in Seq(Known)
  <2>1. Only(Catalogue, A) \in Seq(Known)
    BY <1>1, OnlyIs
  <2>2. Only(Only(Catalogue, A), B) \in Seq(Known)
    BY <2>1, OnlyIs
  <2> QED BY <1>1, <2>2, JoinIs
<1>4. ServersFor(Config) \in Seq(Known)
  <2>1. CASE Config # << >>
    BY <1>1, <2>1 DEF ServersFor
  <2>2. CASE Config = << >>
    BY <1>3, <2>2 DEF ServersFor
  <2> QED BY <2>1, <2>2
<1>5. ToSet(ServersFor(Config)) \subseteq Known
  <2> HIDE DEF Known
  <2>1. \A i \in DOMAIN ServersFor(Config) : ServersFor(Config)[i] \in Known
    BY <1>4, ElementOfSeq
  <2> QED BY <2>1 DEF ToSet
<1> QED BY <1>1, <1>5 DEF Endpoints

\* A list of one server starts with it.
LEMMA Alone ==
  ASSUME NEW S, NEW w \in S
  PROVE  /\ <<w>> \in Seq(S) /\ ToSet(<<w>>) = {w} /\ Leads(<<w>>, w)
<1>1. <<w>> \in Seq(S) /\ DOMAIN <<w>> = 1..1 /\ <<w>>[1] = w
  OBVIOUS
<1>2. ToSet(<<w>>) = {w}
  BY <1>1 DEF ToSet
<1>3. Leads(<<w>>, w)
  BY <1>1 DEF Leads
<1> QED BY <1>1, <1>2, <1>3

\* Servers put last leave the watch's before the others.
LEMMA OrderLeads ==
  ASSUME NEW S, NEW list \in Seq(S), NEW first, NEW t, NEW put
  PROVE  /\ Order(put, list, first, t) \in Seq(S)
         /\ \A w \in first : Leads(list, w) => Leads(Order(put, list, first, t), w)
<1> DEFINE kept == {e \in ToSet(list) : StaysPut(put, first, e, t)}
           a == Only(list, kept)
           b == Only(list, ToSet(list) \ kept)
<1>1. Order(put, list, first, t) = a \o b
  BY DEF Order
<1>2. a \in Seq(S) /\ ToSet(a) = kept /\ b \in Seq(S) /\ ToSet(b) = ToSet(list) \ kept
  BY OnlyIs
<1>3. ASSUME NEW w \in first, Leads(list, w) PROVE Leads(a \o b, w)
  <2>1. CASE w \in ToSet(list)
    <3>1. w \in kept
      BY <2>1 DEF StaysPut
    <3>2. Leads(a, w)
      BY <1>3, <3>1, OnlyIs
    <3> HIDE DEF a, b, kept
    <3> QED BY <1>2, <3>1, <3>2, JoinIs
  <2>2. CASE w \notin ToSet(list)
    <3>1. \A x \in ToSet(list) : x.operator = w.operator
      <4> SUFFICES ASSUME NEW i \in DOMAIN list, list[i].operator # w.operator PROVE FALSE
        BY DEF ToSet
      <4> QED BY <1>3, <2>2 DEF Leads, ToSet
    <3>2. \A x \in ToSet(a) : x.operator = w.operator
      BY <1>2, <3>1
    <3>3. \A x \in ToSet(b) : x.operator = w.operator
      BY <1>2, <3>1
    <3>4. Leads(a, w)
      <4> HIDE DEF a
      <4> QED BY <3>2 DEF Leads, ToSet
    <3> HIDE DEF a, b
    <3> QED BY <1>2, <3>3, <3>4, JoinIs
  <2> QED BY <2>1, <2>2
<1>4. a \o b \in Seq(S)
  <2> HIDE DEF a, b
  <2> QED BY <1>2, JoinIs
<1> QED BY <1>1, <1>3, <1>4

\* A server put first comes first (sync_order).
LEMMA FirstLeads ==
  ASSUME NEW S, NEW list \in Seq(S), NEW some \in SUBSET S
  PROVE  /\ First(list, some) \in Seq(S)
         /\ \A w : some = {w} => Leads(First(list, some), w)
<1>1. CASE some = {}
  BY <1>1 DEF First
<1>2. CASE some # {}
  <2> DEFINE e == CHOOSE e \in some : TRUE
             rest == Without(list, e)
  <2>1. e \in some /\ First(list, some) = <<e>> \o rest
    BY <1>2 DEF First
  <2>2. rest \in Seq(S)
    BY OnlyIs DEF Without
  <2>3. \A w : some = {w} => e = w
    BY <2>1
  <2> HIDE DEF e, rest
  <2>4. <<e>> \in Seq(S) /\ ToSet(<<e>>) = {e} /\ Leads(<<e>>, e)
    BY <2>1, Alone
  <2>5. <<e>> \o rest \in Seq(S) /\ Leads(<<e>> \o rest, e)
    BY <2>2, <2>4, JoinIs
  <2> QED BY <2>1, <2>3, <2>5
<1> QED BY <1>1, <1>2

\* The watch's server, or its operator's own site, comes first in what a
\* transaction is sent to (send_order).
LEMMA SendLeads ==
  ASSUME NEW S, NEW list \in Seq(S), NEW w \in S, NEW purpose \in {"preview", "broadcast"}
  PROVE  SendOrder(list, {w}, purpose) \in Seq(S) /\ Leads(SendOrder(list, {w}, purpose), w)
<1> DEFINE rest == Without(list, w)
           sites == {e \in ToSet(rest) : e.protocol = "esplora" /\ e.operator = w.operator}
           web == Only(rest, sites)
           others == IF web = << >> THEN rest ELSE Without(rest, web[1])
           head == CASE web = << >> -> <<w>>
                     [] web # << >> /\ purpose = "preview" -> <<web[1], w>>
                     [] web # << >> /\ purpose = "broadcast" -> <<w, web[1]>>
<1>1. SendOrder(list, {w}, purpose) = head \o others
  <2>1. (CHOOSE e \in {w} : TRUE) = w
    OBVIOUS
  <2> QED BY <2>1, Zenon DEF SendOrder
<1>2. rest \in Seq(S)
  BY OnlyIs DEF Without
<1> HIDE DEF rest
<1>3. web \in Seq(S) /\ ToSet(web) = sites
  BY <1>2, OnlyIs
<1>4. others \in Seq(S)
  BY <1>2, OnlyIs DEF Without
<1> HIDE DEF others
<1>5. web # << >> => web[1] \in S /\ web[1] \in sites
  <2> HIDE DEF web
  <2>1. web # << >> => 1 \in DOMAIN web
    BY <1>3
  <2> QED BY <1>3, <2>1 DEF ToSet
<1>6. web # << >> => web[1].operator = w.operator
  BY <1>5
<1> HIDE DEF web, sites
<1>7. head \in Seq(S) /\ w \in ToSet(head) /\ Leads(head, w)
  <2>1. CASE web = << >>
    BY <2>1, Alone
  <2>2. CASE web # << >> /\ purpose = "preview"
    <3> DEFINE x == web[1]
    <3>1. x \in S /\ x.operator = w.operator
      BY <1>5, <1>6, <2>2
    <3> HIDE DEF x
    <3>2. <<x, w>> \in Seq(S) /\ DOMAIN <<x, w>> = 1..2 /\ <<x, w>>[1] = x /\ <<x, w>>[2] = w
      BY <3>1
    <3>3. w \in ToSet(<<x, w>>) /\ Leads(<<x, w>>, w)
      BY <3>1, <3>2 DEF ToSet, Leads
    <3>4. head = <<x, w>>
      BY <2>2 DEF x
    <3> QED BY <3>2, <3>3, <3>4
  <2>3. CASE web # << >> /\ purpose = "broadcast"
    <3> DEFINE x == web[1]
    <3>1. x \in S /\ x.operator = w.operator
      BY <1>5, <1>6, <2>3
    <3> HIDE DEF x
    <3>2. <<w, x>> \in Seq(S) /\ DOMAIN <<w, x>> = 1..2 /\ <<w, x>>[1] = w /\ <<w, x>>[2] = x
      BY <3>1
    <3>3. w \in ToSet(<<w, x>>) /\ Leads(<<w, x>>, w)
      BY <3>1, <3>2 DEF ToSet, Leads
    <3>4. head = <<w, x>>
      BY <2>3 DEF x
    <3> QED BY <3>2, <3>3, <3>4
  <2> QED BY <2>1, <2>2, <2>3
<1> HIDE DEF head
<1>8. head \o others \in Seq(S) /\ Leads(head \o others, w)
  BY <1>4, <1>7, JoinIs
<1> QED BY <1>1, <1>8

-----------------------------------------------------------------------------
(* What is asked, and of whom.                                             *)

\* The watch's server leads the servers of a preview or a broadcast, whoever
\* is put last.
LEMMA SendEndpointsLead ==
  ASSUME live = {} \/ \E l : live = {l}, NEW purpose \in {"preview", "broadcast"}
  PROVE  /\ SendEndpoints(purpose) \in Seq(Known)
         /\ \A w \in Watching : Leads(SendEndpoints(purpose), w)
<1> DEFINE list == SendOrder(Endpoints(Config), Watching, purpose)
<1>1. Endpoints(Config) \in Seq(Known) /\ Watching \subseteq Known
  BY ServersKnown DEF Watching, LiveEndpoint
<1>2. Watching = {} \/ \E w : Watching = {w}
  BY DEF Watching, LiveEndpoint
<1>3. list \in Seq(Known) /\ \A w \in Watching : Leads(list, w)
  <2>1. CASE Watching = {}
    BY <1>1, <2>1 DEF SendOrder
  <2>2. CASE Watching # {}
    <3>1. PICK w \in Known : Watching = {w}
      BY <1>1, <1>2, <2>2
    <3> QED BY <1>1, <3>1, SendLeads
  <2> QED BY <2>1, <2>2
<1> HIDE DEF list
<1>4. SendEndpoints(purpose) = Order(relegated, list, Watching, now)
  BY DEF SendEndpoints, list
<1> QED BY <1>3, <1>4, OrderLeads

\* The server a sync prefers leads those it asks.
LEMMA SyncEndpointsLead ==
  ASSUME NEW first \in SUBSET Known, first = {} \/ \E w : first = {w}
  PROVE  /\ SyncEndpoints(first) \in Seq(Known)
         /\ \A w \in first : Leads(SyncEndpoints(first), w)
<1> DEFINE inner == First(Endpoints(Config), last \cap ToSet(Endpoints(Config)))
           list == SyncOrder(Endpoints(Config), last, first)
<1>1. Endpoints(Config) \in Seq(Known)
  BY ServersKnown
<1>2. ToSet(Endpoints(Config)) \subseteq Known
  <2>1. \A i \in DOMAIN Endpoints(Config) : Endpoints(Config)[i] \in Known
    BY <1>1, ElementOfSeq
  <2> QED BY <2>1 DEF ToSet
<1>3. inner \in Seq(Known)
  BY <1>1, <1>2, FirstLeads
<1>4. list = First(inner, first)
  BY DEF SyncOrder
<1> HIDE DEF inner
<1>5. list \in Seq(Known) /\ \A w \in first : Leads(list, w)
  BY <1>3, <1>4, FirstLeads
<1> HIDE DEF list
<1>6. SyncEndpoints(first) = Order(relegated, list, first, now)
  BY DEF SyncEndpoints, list
<1> QED BY <1>5, <1>6, OrderLeads

\* A call has another server to ask.
Trying(c) ==
  \/ c.at = "asking" /\ (c.kind = "preview" => Open(c) # {})
  \/ c.at = "tip" /\ c.tips

\* The watch's server comes first in the order of a call, those before the
\* next failed it, and no other operator was asked before it did.
CallWatch(c) ==
  /\ c.order \in Seq(Known) /\ c.next \in Nat \ {0}
  /\ \A w \in c.watch : Leads(c.order, w)
  /\ Trying(c) => \A k \in DOMAIN c.order : k < c.next => c.order[k] \in c.down
  /\ \A w \in c.watch : (\E e \in c.hit : e.operator # w.operator) => w \in c.down

\* A step of a call that asks the server whose turn it is, or none.
LEMMA WatchStep ==
  ASSUME NEW c, CallWatch(c), NEW d,
         d.order = c.order, d.watch = c.watch, c.down \subseteq d.down,
         d.next \in Nat \ {0},
         \/ d.hit \subseteq c.hit
         \/ /\ Trying(c) /\ c.next <= Len(c.order)
            /\ d.hit \subseteq c.hit \cup {c.order[c.next]},
         \/ ~Trying(d) \/ d.next = 1
         \/ Trying(c) /\ d.next = c.next
         \/ Trying(c) /\ d.next = c.next + 1 /\ c.order[c.next] \in d.down
  PROVE  CallWatch(d)
<1>1. DOMAIN c.order = 1..Len(c.order) /\ Len(c.order) \in Nat /\ c.next \in Nat \ {0}
  BY DEF CallWatch
<1>2. ASSUME Trying(d), NEW k \in DOMAIN d.order, k < d.next PROVE d.order[k] \in d.down
  <2>1. k \in Nat \ {0} /\ k \in DOMAIN c.order
    BY <1>1, <1>2
  <2>2. CASE Trying(c) /\ d.next = c.next
    BY <1>2, <2>1, <2>2 DEF CallWatch
  <2>3. CASE Trying(c) /\ d.next = c.next + 1 /\ c.order[c.next] \in d.down
    <3>1. k = c.next \/ k < c.next
      BY <1>1, <1>2, <2>1, <2>3
    <3> QED BY <2>1, <2>3, <3>1 DEF CallWatch
  <2> QED BY <1>2, <2>1, <2>2, <2>3
<1>3. ASSUME NEW w \in c.watch, NEW e \in d.hit, e.operator # w.operator PROVE w \in c.down
  <2>1. CASE e \in c.hit
    BY <1>3, <2>1 DEF CallWatch
  <2>2. CASE Trying(c) /\ c.next <= Len(c.order) /\ e = c.order[c.next]
    <3>1. c.next \in DOMAIN c.order
      BY <1>1, <2>2
    <3>2. PICK j \in DOMAIN c.order : j < c.next /\ c.order[j] = w
      BY <1>3, <2>2, <3>1 DEF CallWatch, Leads
    <3> QED BY <2>2, <3>2 DEF CallWatch
  <2> QED BY <2>1, <2>2
<1> QED BY <1>2, <1>3 DEF CallWatch

\* A call that begins.
LEMMA WatchBegun ==
  ASSUME NEW d, d.order \in Seq(Known), d.next = 1, d.hit = {},
         \A w \in d.watch : Leads(d.order, w)
  PROVE  CallWatch(d)
<1>1. \A k \in DOMAIN d.order : ~(k < 1)
  OBVIOUS
<1> QED BY <1>1 DEF CallWatch

-----------------------------------------------------------------------------
(* How long a server sits out.                                             *)

\* The doubling that saturates is a number.
LEMMA PowIs ==
  ASSUME NEW n \in Nat
  PROVE  SaturatingPow(n) \in Nat
<1> DEFINE P(k) == 2^k \in Nat
<1>1. CASE n >= 32
  BY <1>1 DEF SaturatingPow
<1>2. CASE n < 32
  <2>1. n \in {0, 1, 2, 3, 4, 5, 6, 7, 8, 9, 10, 11, 12, 13, 14, 15, 16, 17, 18, 19, 20,
              21, 22, 23, 24, 25, 26, 27, 28, 29, 30, 31}
    BY <1>2
  <2>2. P(0) /\ P(1) /\ P(2) /\ P(3) /\ P(4) /\ P(5) /\ P(6) /\ P(7)
    OBVIOUS
  <2>3. P(8) /\ P(9) /\ P(10) /\ P(11) /\ P(12) /\ P(13) /\ P(14) /\ P(15)
    OBVIOUS
  <2>4. P(16) /\ P(17) /\ P(18) /\ P(19) /\ P(20) /\ P(21) /\ P(22) /\ P(23)
    OBVIOUS
  <2>5. P(24) /\ P(25) /\ P(26) /\ P(27) /\ P(28) /\ P(29) /\ P(30) /\ P(31)
    OBVIOUS
  <2>6. P(n)
    <3> HIDE DEF P
    <3> QED BY <2>1, <2>2, <2>3, <2>4, <2>5
  <2> QED BY <1>2, <2>6 DEF SaturatingPow
<1> QED BY <1>1, <1>2

\* A server is put last for a number of seconds (relegation_for).
LEMMA RelegationIs ==
  ASSUME NEW n \in Nat
  PROVE  RelegationFor(n) \in Nat
<1> DEFINE q == SaturatingPow(n)
           a == RELEGATION_FIRST * q
<1>0. q \in Nat /\ RELEGATION_FIRST \in Nat /\ RELEGATION_MAX \in Nat
  BY PowIs, RelegationAssumption
<1>1. a \in Nat /\ RELEGATION_MAX \in Nat
  <2> HIDE DEF q
  <2> QED BY <1>0
<1> HIDE DEF a
<1>2. Min({a, RELEGATION_MAX}) = IF a <= RELEGATION_MAX THEN a ELSE RELEGATION_MAX
  BY <1>1 DEF Min
<1> QED BY <1>1, <1>2 DEF RelegationFor, a

\* The sum of the times sat out.
LEMMA SatOutIs ==
  /\ SatOut[0] = 0
  /\ \A n \in Nat : SatOut[n] \in Nat /\ SatOut[n + 1] = SatOut[n] + RelegationFor(n)
<1> DEFINE step == [x \in Nat \X Nat |->
                      IF x[1] = 0 THEN x[2] ELSE x[2] + RelegationFor(x[1] - 1)]
           Sums(f) == f = [n \in Nat |-> IF n = 0 THEN 0 ELSE f[n - 1] + RelegationFor(n - 1)]
<1>1. step \in [Nat \X Nat -> Nat]
  <2> SUFFICES ASSUME NEW x \in Nat \X Nat
               PROVE  (IF x[1] = 0 THEN x[2] ELSE x[2] + RelegationFor(x[1] - 1)) \in Nat
    OBVIOUS
  <2>1. x[1] \in Nat /\ x[2] \in Nat
    OBVIOUS
  <2>2. x[1] # 0 => RelegationFor(x[1] - 1) \in Nat
    BY <2>1, RelegationIs
  <2> QED BY <2>1, <2>2
<1>2. \A n, u \in Nat : step[<<n + 1, u>>] = u + RelegationFor(n)
  <2> SUFFICES ASSUME NEW n \in Nat, NEW u \in Nat PROVE step[<<n + 1, u>>] = u + RelegationFor(n)
    OBVIOUS
  <2>1. n + 1 \in Nat /\ n + 1 # 0 /\ (n + 1) - 1 = n
    OBVIOUS
  <2> QED BY <2>1
<1> HIDE DEF step
<1>3. PICK f \in [Nat -> Nat] : Recurs(f, 0, step)
  BY <1>1, Recursion
<1>4. \A n \in Nat : f[n + 1] = f[n] + RelegationFor(n)
  BY <1>2, <1>3 DEF Recurs
<1>5. Sums(f)
  <2>1. ASSUME NEW n \in Nat
        PROVE  f[n] = IF n = 0 THEN 0 ELSE f[n - 1] + RelegationFor(n - 1)
    <3>1. CASE n = 0
      BY <1>3, <3>1 DEF Recurs
    <3>2. CASE n # 0
      <4>1. n - 1 \in Nat /\ (n - 1) + 1 = n
        BY <3>2
      <4> QED BY <1>4, <3>2, <4>1
    <3> QED BY <3>1, <3>2
  <2>2. f = [n \in Nat |-> f[n]]
    OBVIOUS
  <2> QED BY <2>1, <2>2
<1>6. Sums(SatOut)
  BY <1>5 DEF SatOut
<1>7. SatOut[0] = 0
  BY <1>6
<1>8. ASSUME NEW n \in Nat PROVE SatOut[n + 1] = SatOut[n] + RelegationFor(n)
  <2>1. n + 1 \in Nat /\ n + 1 # 0 /\ (n + 1) - 1 = n
    OBVIOUS
  <2>2. SatOut[n + 1] = IF n + 1 = 0 THEN 0 ELSE SatOut[(n + 1) - 1] + RelegationFor((n + 1) - 1)
    BY <1>6, <2>1
  <2> QED BY <2>1, <2>2
<1> DEFINE S == {n \in Nat : SatOut[n] \in Nat}
<1>9. 0 \in S
  BY <1>7
<1>10. ASSUME NEW n \in Nat, n \in S PROVE n + 1 \in S
  BY <1>8, <1>10, RelegationIs
<1> HIDE DEF S
<1>11. Nat \subseteq S
  BY <1>9, <1>10, Induction
<1> QED BY <1>7, <1>8, <1>11 DEF S

\* The record of those put last, with the times they sat out.
PutLast(put, from, e) ==
  /\ put[e].until \in Nat /\ put[e].count \in Nat \ {0} /\ from[e] \in Int
  /\ put[e].until >= from[e] + SatOut[put[e].count]

CountInv ==
  /\ now \in Nat
  /\ \A e \in DOMAIN relegated : PutLast(relegated, since, e)

\* An answer keeps the count of those put last: one still put last is not
\* put last again (Relegations::answered).
LEMMA AnsweredStep ==
  ASSUME CountInv, NEW p, NEW e, AnsweredAfter(p, e), now' = now
  PROVE  CountInv'
<1> DEFINE kept == {x \in DOMAIN relegated : relegated[x].until + RELEGATION_MAX > now} \ {e}
           count(x) == IF x \in kept THEN relegated[x].count ELSE 0
           spared(x) == x \in kept /\ (x \notin call[p].failed \/ Spared(relegated, x, now))
           put(x) == [until |-> now + RelegationFor(count(x)), count |-> count(x) + 1]
<1>1. relegated' = [x \in kept \cup call[p].failed |-> IF spared(x) THEN relegated[x] ELSE put(x)]
  BY DEF AnsweredAfter, Answered
<1>2. since' = [x \in DOMAIN relegated' |->
                  IF relegated'[x].count = 1 THEN relegated'[x].until - RelegationFor(0) ELSE since[x]]
  BY DEF AnsweredAfter
<1>3. SatOut[1] = RelegationFor(0) /\ RelegationFor(0) \in Nat
  <2>1. 0 + 1 = 1 /\ 0 \in Nat
    OBVIOUS
  <2>2. SatOut[0 + 1] = SatOut[0] + RelegationFor(0) /\ SatOut[0] = 0
    BY <2>1, SatOutIs
  <2> QED BY <2>1, <2>2, RelegationIs
<1>4. kept \subseteq DOMAIN relegated /\ now \in Nat
  BY DEF CountInv
<1> SUFFICES ASSUME NEW x \in DOMAIN relegated' PROVE PutLast(relegated', since', x)
  BY <1>4 DEF CountInv
<1>5. CASE spared(x)
  <2>1. relegated'[x] = relegated[x] /\ x \in DOMAIN relegated /\ PutLast(relegated, since, x)
    BY <1>1, <1>4, <1>5 DEF CountInv
  <2>2. CASE relegated[x].count = 1
    BY <1>2, <1>3, <2>1, <2>2 DEF PutLast
  <2>3. CASE relegated[x].count # 1
    BY <1>2, <2>1, <2>3 DEF PutLast
  <2> QED BY <2>2, <2>3
<1>6. CASE ~spared(x) /\ x \notin kept
  <2>1. relegated'[x] = put(x) /\ count(x) = 0
    BY <1>1, <1>6
  <2>2. relegated'[x].until = now + RelegationFor(0) /\ relegated'[x].count = 1
    BY <2>1
  <2>3. since'[x] = now
    BY <1>2, <1>3, <1>4, <2>2
  <2> QED BY <1>3, <1>4, <2>2, <2>3 DEF PutLast
<1>7. CASE ~spared(x) /\ x \in kept
  <2> DEFINE n == relegated[x].count
  <2>1. relegated'[x] = put(x) /\ count(x) = n
    BY <1>1, <1>7
  <2>2. relegated'[x].until = now + RelegationFor(n) /\ relegated'[x].count = n + 1
    BY <2>1
  <2>3. PutLast(relegated, since, x) /\ ~(relegated[x].until > now)
    BY <1>4, <1>7 DEF CountInv, Spared
  <2>4. /\ n \in Nat /\ n # 0 /\ RelegationFor(n) \in Nat
        /\ SatOut[n] \in Nat /\ SatOut[n + 1] = SatOut[n] + RelegationFor(n)
    BY <2>3, RelegationIs, SatOutIs DEF PutLast
  <2>5. since'[x] = since[x]
    <3>1. n + 1 # 1
      BY <2>4
    <3> QED BY <1>2, <2>2, <3>1
  <2>6. now >= relegated[x].until /\ relegated[x].until >= since[x] + SatOut[n] /\ since[x] \in Int
        /\ relegated[x].until \in Nat
    BY <1>4, <2>3 DEF PutLast
  <2> HIDE DEF n
  <2> QED BY <1>4, <2>2, <2>4, <2>5, <2>6 DEF PutLast
<1> QED BY <1>5, <1>6, <1>7

-----------------------------------------------------------------------------
(* The steps.                                                              *)

OrderIInv ==
  /\ CountInv
  /\ live = {} \/ \E l : live = {l}
  /\ \A p \in Calls : CallWatch(call[p])

\* One call goes on, with or without a change in who is put last.
LEMMA CallStep ==
  ASSUME SendingIInv, OrderIInv, NEW p \in Calls, NEW d, CallWatch(d),
         call' = [call EXCEPT ![p] = d], UNCHANGED <<now, live>>,
         (\E q, e : AnsweredAfter(q, e)) \/ UNCHANGED <<relegated, since>>
  PROVE  OrderIInv'
<1>1. \A q \in Calls : call'[q] = IF q = p THEN d ELSE call[q]
  BY DEF SendingIInv, CallsOK
<1>2. \A q \in Calls : CallWatch(call'[q])
  BY <1>1 DEF OrderIInv
<1>3. CountInv'
  <2>1. CASE UNCHANGED <<relegated, since>>
    BY <2>1 DEF OrderIInv, CountInv, PutLast
  <2> QED BY <2>1, AnsweredStep DEF OrderIInv
<1>4. live' = {} \/ \E l : live' = {l}
  BY DEF OrderIInv
<1> QED BY <1>2, <1>3, <1>4 DEF OrderIInv

\* The world moves, or the process starts again.
LEMMA OrderWorld ==
  ASSUME OrderIInv,
         \/ \E t \in Txs : Arrives(t) \/ Mined(t) \/ ForgetBroadcast(t)
         \/ \E e \in ToSet(ServersFor(Config)) : Flips(e)
         \/ WatchMoves \/ Tick \/ Restart \/ UNCHANGED vars
  PROVE  OrderIInv'
<1>1. CASE UNCHANGED <<now, live, call, relegated, since>>
  BY <1>1 DEF OrderIInv, CountInv, PutLast
<1>2. ASSUME NEW t \in Txs, Arrives(t) \/ Mined(t) \/ ForgetBroadcast(t) PROVE OrderIInv'
  BY <1>1, <1>2 DEF Arrives, Mined, ForgetBroadcast, world
<1>3. ASSUME NEW e, Flips(e) PROVE OrderIInv'
  BY <1>1, <1>3 DEF Flips
<1>4. CASE WatchMoves
  <2>1. UNCHANGED <<now, call, relegated, since>> /\ (live' = {} \/ \E l : live' = {l})
    BY <1>4 DEF WatchMoves
  <2> QED BY <2>1 DEF OrderIInv, CountInv, PutLast
<1>5. CASE Tick
  <2>1. UNCHANGED <<live, call, relegated, since>> /\ now' = now + 1
    BY <1>5 DEF Tick
  <2> QED BY <2>1 DEF OrderIInv, CountInv, PutLast
<1>6. CASE Restart
  <2>1. /\ call' = [p \in Calls |-> NoCall] /\ relegated' = << >> /\ live' = {} /\ now' = now
    BY <1>6 DEF Restart
  <2>2. CallWatch(NoCall)
    <3>1. NoCall.order = << >> /\ NoCall.next = 1 /\ NoCall.hit = {} /\ NoCall.watch = {}
      BY DEF NoCall
    <3>2. << >> \in Seq(Known)
      OBVIOUS
    <3> HIDE DEF NoCall
    <3>3. NoCall.order \in Seq(Known) /\ \A w \in NoCall.watch : Leads(NoCall.order, w)
      BY <3>1, <3>2
    <3> QED BY <3>1, <3>3, WatchBegun
  <2> HIDE DEF NoCall
  <2>3. \A p \in Calls : CallWatch(call'[p])
    BY <2>1, <2>2
  <2>4. CountInv'
    BY <2>1 DEF OrderIInv, CountInv
  <2> QED BY <2>1, <2>3, <2>4 DEF OrderIInv
<1>7. CASE UNCHANGED vars
  BY <1>1, <1>7 DEF vars
<1> QED BY <1>2, <1>3, <1>4, <1>5, <1>6, <1>7

\* A call begins with the watch of the moment.
LEMMA OrderStarts ==
  ASSUME SendingIInv, OrderIInv, NEW p \in Calls,
         StartPreview(p) \/ StartBroadcast(p) \/ StartStatus(p) \/ StartSync(p)
  PROVE  OrderIInv'
<1>1. ASSUME NEW kind, NEW order
      PROVE  LET b == Begin(p, kind, order)
             IN  /\ DOMAIN b = Fields /\ b.order = order /\ b.next = 1 /\ b.hit = {}
                 /\ b.watch = Watching
  BY DEF Begin, NoCall, Fields
<1>2. UNCHANGED <<now, live, relegated, since>>
  BY DEF StartPreview, StartBroadcast, StartStatus, StartSync, world
<1>3. \A purpose \in {"preview", "broadcast"} :
        /\ SendEndpoints(purpose) \in Seq(Known)
        /\ \A w \in Watching : Leads(SendEndpoints(purpose), w)
  BY SendEndpointsLead DEF OrderIInv
<1>4. CASE StartPreview(p)
  <2>1. PICK decoded, facts, tip, routed :
          call' = [call EXCEPT ![p] = PreviewBegun(p, decoded, facts, tip, routed)]
    BY <1>4, ZenonT(40) DEF StartPreview
  <2> DEFINE order == IF routed THEN SendEndpoints("preview") ELSE << >>
             b == Begin(p, "preview", order)
             d == PreviewBegun(p, decoded, facts, tip, routed)
  <2>2. order \in Seq(Known) /\ \A w \in Watching : Leads(order, w)
    <3>1. << >> \in Seq(Known) /\ \A w : Leads(<< >>, w)
      BY DEF Leads
    <3> QED BY <1>3, <3>1
  <2> HIDE DEF order
  <2>3. DOMAIN b = Fields /\ b.order = order /\ b.next = 1 /\ b.hit = {} /\ b.watch = Watching
    BY <1>1
  <2>4. d = [b EXCEPT !.decoded = {decoded}, !.facts = facts, !.tip = tip,
                      !.settled = {i \in DOMAIN facts : Settled(facts[i])},
                      !.checks = NeedsChain(facts),
                      !.tips = NeedsTip(decoded.tx.lock, tip)]
    BY DEF PreviewBegun, order
  <2> HIDE DEF b, d
  <2>5. d.order = order /\ d.next = 1 /\ d.hit = {} /\ d.watch = Watching
    BY <2>3, <2>4 DEF Fields
  <2>6. CallWatch(d)
    BY <2>2, <2>5, WatchBegun
  <2> QED BY <1>2, <2>1, <2>6, CallStep DEF d
<1>5. CASE StartBroadcast(p)
  <2> DEFINE b == Begin(p, "broadcast", SendEndpoints("broadcast"))
  <2>1. PICK t \in Txs : call' = [call EXCEPT ![p] = [b EXCEPT !.tx = {t}]]
    BY <1>5 DEF StartBroadcast
  <2> DEFINE d == [b EXCEPT !.tx = {t}]
  <2>2. /\ DOMAIN b = Fields /\ b.order = SendEndpoints("broadcast") /\ b.next = 1 /\ b.hit = {}
        /\ b.watch = Watching
    BY <1>1
  <2> HIDE DEF b
  <2>3. d.order = SendEndpoints("broadcast") /\ d.next = 1 /\ d.hit = {} /\ d.watch = Watching
    BY <2>2 DEF Fields
  <2> HIDE DEF d
  <2>4. CallWatch(d)
    BY <1>3, <2>3, WatchBegun
  <2> QED BY <1>2, <2>1, <2>4, CallStep DEF d
<1>6. CASE StartStatus(p)
  <2> DEFINE d == Begin(p, "status", SendEndpoints("broadcast"))
  <2>1. d.order = SendEndpoints("broadcast") /\ d.next = 1 /\ d.hit = {} /\ d.watch = Watching
    BY <1>1
  <2>2. call' = [call EXCEPT ![p] = d]
    BY <1>6 DEF StartStatus
  <2> HIDE DEF d
  <2>3. CallWatch(d)
    BY <1>3, <2>1, WatchBegun
  <2> QED BY <1>2, <2>2, <2>3, CallStep
<1>7. CASE StartSync(p)
  <2>1. PICK prefer \in {{}} \cup {{e} : e \in ToSet(ServersFor(Config))} :
          LET first == IF prefer # {} THEN prefer ELSE Watching
          IN  call' = [call EXCEPT ![p] = [Begin(p, "sync", SyncEndpoints(first)) EXCEPT !.watch = first]]
    BY <1>7 DEF StartSync
  <2> DEFINE first == IF prefer # {} THEN prefer ELSE Watching
             b == Begin(p, "sync", SyncEndpoints(first))
             d == [b EXCEPT !.watch = first]
  <2>2. first \in SUBSET Known /\ (first = {} \/ \E w : first = {w})
    <3>1. Watching \subseteq Known /\ (Watching = {} \/ \E w : Watching = {w})
      <4>1. \A w \in Watching : w \in Known
        BY ServersKnown DEF Watching, LiveEndpoint
      <4>2. CASE live = {}
        BY <4>2 DEF Watching, LiveEndpoint
      <4>3. ASSUME NEW l, live = {l} PROVE Watching = {} \/ \E w : Watching = {w}
        <5>1. Watching \subseteq {l.server}
          BY <4>3 DEF Watching, LiveEndpoint
        <5> QED BY <5>1
      <4>4. live = {} \/ \E l : live = {l}
        BY DEF OrderIInv
      <4> QED BY <4>1, <4>2, <4>3, <4>4
    <3>2. prefer # {} => \E e \in ToSet(ServersFor(Config)) : prefer = {e}
      BY <2>1, Zenon
    <3>3. prefer # {} => \E e \in Known : prefer = {e}
      BY <3>2, ServersKnown, Zenon
    <3> QED BY <3>1, <3>3, Zenon
  <2> HIDE DEF first
  <2>3. SyncEndpoints(first) \in Seq(Known) /\ \A w \in first : Leads(SyncEndpoints(first), w)
    BY <2>2, SyncEndpointsLead
  <2>4. DOMAIN b = Fields /\ b.order = SyncEndpoints(first) /\ b.next = 1 /\ b.hit = {}
    BY <1>1
  <2>5. call' = [call EXCEPT ![p] = d]
    BY <2>1 DEF first
  <2> HIDE DEF b
  <2>6. d.order = SyncEndpoints(first) /\ d.next = 1 /\ d.hit = {} /\ d.watch = first
    BY <2>4 DEF Fields
  <2> HIDE DEF d
  <2>7. CallWatch(d)
    BY <2>3, <2>6, WatchBegun
  <2> QED BY <1>2, <2>5, <2>7, CallStep
<1> QED BY <1>4, <1>5, <1>6, <1>7

\* A call asks the server whose turn it is, goes past it or ends.
LEMMA WatchGoesOn ==
  ASSUME NEW c, CallOK(c), CallWatch(c), NEW e, NEW fault, NEW result,
         Trying(c), c.next <= Len(c.order), e = c.order[c.next]
  PROVE  /\ CallWatch(FailedAt(c, e, fault)) /\ CallWatch(ToldBy(c, e, result))
<1> DEFINE f == FailedAt(c, e, fault)
           b == Done(c, result)
           d == ToldBy(c, e, result)
<1>1. c.next \in Nat \ {0} /\ c.next + 1 \in Nat \ {0}
  BY DEF CallWatch
<1>2. /\ f.order = c.order /\ f.watch = c.watch /\ f.next = c.next + 1
      /\ f.hit = c.hit \cup {e} /\ f.down = c.down \cup {e}
  BY DEF FailedAt, CallOK, Fields
<1>3. /\ DOMAIN b = Fields /\ b.at = "done"
      /\ b.order = c.order /\ b.watch = c.watch /\ b.next = c.next
      /\ b.hit = c.hit /\ b.down = c.down
  BY DEF Done, CallOK, Fields
<1>4. d = [b EXCEPT !.hit = @ \cup {e}]
  BY DEF ToldBy
<1> HIDE DEF b, d, f
<1>5. /\ d.at = "done" /\ d.order = c.order /\ d.watch = c.watch /\ d.next = c.next
      /\ d.hit = c.hit \cup {e} /\ d.down = c.down
  BY <1>3, <1>4 DEF Fields
<1>6. ~Trying(d)
  BY <1>5 DEF Trying
<1>7. CallWatch(f)
  BY <1>1, <1>2, WatchStep
<1>8. CallWatch(d)
  BY <1>1, <1>5, <1>6, WatchStep
<1> QED BY <1>7, <1>8 DEF f, d

\* A preview asks about its coins, then for the tip, and is shown.
LEMMA OrderPreviews ==
  ASSUME SendingIInv, OrderIInv, NEW p \in Calls,
         AskCoins(p) \/ CoinsAsked(p) \/ AskTip(p) \/ Shown(p)
  PROVE  OrderIInv'
<1> DEFINE c == call[p]
           e == Asked(p)
<1>1. CallOK(c) /\ DOMAIN call = Calls /\ DOMAIN c = Fields
  BY DEF SendingIInv, CallsOK, CallOK
<1>2. CallWatch(c) /\ c.next \in Nat \ {0} /\ c.next + 1 \in Nat \ {0} /\ e = c.order[c.next]
  BY DEF OrderIInv, CallWatch, Asked
<1>3. UNCHANGED <<now, live>>
  BY DEF AskCoins, CoinsAsked, AskTip, Shown, world
<1>4. CASE AskCoins(p)
  <2>1. /\ c.at = "asking" /\ c.kind = "preview" /\ c.next <= Len(c.order) /\ Open(c) # {}
    BY <1>4 DEF AskCoins, Asking
  <2>2. Trying(c)
    BY <2>1 DEF Trying
  <2> DEFINE outpoints == (CHOOSE d \in c.decoded : TRUE).outpoints
  <2>some. PICK some \in {s \in SUBSET Open(c) : \A i \in s, j \in Open(c) : j <= i => j \in s} :
        \E said \in [some -> UNION {Answers(e, outpoints[i]) : i \in some}] :
        \E fault \in Faults(e) :
          /\ e \in down => some # Open(c)
          /\ \A i \in some : said[i] \in Answers(e, outpoints[i])
          /\ LET facts == [i \in DOMAIN c.facts |->
                    IF i \in some THEN Learn(c.facts[i], said[i]) ELSE c.facts[i]]
                 told == [c EXCEPT !.facts = facts, !.settled = @ \cup some]
             IN  call' = [call EXCEPT ![p] =
                    IF some # Open(c)
                    THEN FailedAt(told, e, fault)
                    ELSE [told EXCEPT !.next = @ + 1, !.hit = @ \cup {e}]]
          /\ IF some # {} THEN AnsweredAfter(p, e)
             ELSE UNCHANGED <<relegated, since>>
    BY <1>4, ZenonT(60) DEF AskCoins
  <2>3. PICK said \in [some -> UNION {Answers(e, outpoints[i]) : i \in some}], fault \in Faults(e) :
          /\ LET facts == [i \in DOMAIN c.facts |->
                    IF i \in some THEN Learn(c.facts[i], said[i]) ELSE c.facts[i]]
                 told == [c EXCEPT !.facts = facts, !.settled = @ \cup some]
             IN  call' = [call EXCEPT ![p] =
                    IF some # Open(c)
                    THEN FailedAt(told, e, fault)
                    ELSE [told EXCEPT !.next = @ + 1, !.hit = @ \cup {e}]]
          /\ IF some # {} THEN AnsweredAfter(p, e)
             ELSE UNCHANGED <<relegated, since>>
    BY <2>some, ZenonT(60)
  <2>open. some \in SUBSET Open(c)
    BY <2>some, Zenon
  <2> DEFINE facts == [i \in DOMAIN c.facts |->
                         IF i \in some THEN Learn(c.facts[i], said[i]) ELSE c.facts[i]]
  <2> DEFINE told == [c EXCEPT !.facts = facts, !.settled = @ \cup some]
             on == [told EXCEPT !.next = @ + 1, !.hit = @ \cup {e}]
             off == FailedAt(told, e, fault)
  <2> HIDE DEF c
  <2>4. /\ DOMAIN told = Fields /\ told.facts = facts /\ told.settled = c.settled \cup some
        /\ told.at = "asking" /\ told.kind = "preview"
        /\ told.order = c.order /\ told.watch = c.watch /\ told.next = c.next
        /\ told.hit = c.hit /\ told.down = c.down
    BY <1>1, <2>1 DEF Fields
  <2> HIDE DEF told, facts
  <2>5. /\ on.facts = facts /\ on.settled = c.settled \cup some
        /\ on.at = "asking" /\ on.kind = "preview"
        /\ on.order = c.order /\ on.watch = c.watch /\ on.next = c.next + 1
        /\ on.hit = c.hit \cup {e} /\ on.down = c.down
    BY <2>4 DEF Fields
  <2>6. /\ off.order = c.order /\ off.watch = c.watch /\ off.next = c.next + 1
        /\ off.hit = c.hit \cup {e} /\ off.down = c.down \cup {e}
    BY <2>4 DEF FailedAt, Fields
  <2> HIDE DEF on, off, e
  <2>7. CallWatch(off)
    BY <1>2, <2>1, <2>2, <2>6, WatchStep
  <2>8. some = Open(c) => ~Trying(on)
    <3>1. some = Open(c) => Open(on) = {}
      BY <2>open, <2>5 DEF Open, facts
    <3> QED BY <2>5, <3>1 DEF Trying
  <2>9. some = Open(c) => CallWatch(on)
    BY <1>2, <2>1, <2>2, <2>5, <2>8, WatchStep
  <2>10. \/ call' = [call EXCEPT ![p] = off]
         \/ some = Open(c) /\ call' = [call EXCEPT ![p] = on]
    BY <2>3 DEF on, off, told, facts, e
  <2>11. (\E q, x : AnsweredAfter(q, x)) \/ UNCHANGED <<relegated, since>>
    BY <2>3, Zenon
  <2>12. CASE call' = [call EXCEPT ![p] = off]
    BY <1>3, <2>7, <2>11, <2>12, CallStep
  <2>13. CASE some = Open(c) /\ call' = [call EXCEPT ![p] = on]
    BY <1>3, <2>9, <2>11, <2>13, CallStep
  <2> QED BY <2>10, <2>12, <2>13
<1>5. CASE CoinsAsked(p)
  <2> DEFINE d == [c EXCEPT !.at = "tip", !.next = 1]
  <2>1. call' = [call EXCEPT ![p] = d] /\ UNCHANGED <<relegated, since>>
    BY <1>1, <1>5 DEF CoinsAsked
  <2>2. /\ d.order = c.order /\ d.watch = c.watch /\ d.next = 1
        /\ d.hit = c.hit /\ d.down = c.down
    BY <1>1 DEF Fields
  <2> HIDE DEF d
  <2>3. CallWatch(d)
    BY <1>2, <2>2, WatchStep
  <2> QED BY <1>3, <2>1, <2>3, CallStep
<1>6. CASE AskTip(p)
  <2>1. c.at = "tip" /\ c.tips /\ c.next <= Len(c.order) /\ Trying(c)
    BY <1>6 DEF AskTip, Trying
  <2> DEFINE over == [c EXCEPT !.next = @ + 1]
             told == [c EXCEPT !.tip = {1}, !.tips = FALSE, !.hit = @ \cup {e}]
  <2>2. PICK fault :
          \/ /\ e \in c.down /\ call' = [call EXCEPT ![p].next = @ + 1]
             /\ UNCHANGED <<relegated, since>>
          \/ /\ call' = [call EXCEPT ![p].tip = {1}, ![p].tips = FALSE, ![p].hit = @ \cup {e}]
             /\ AnsweredAfter(p, e)
          \/ /\ call' = [call EXCEPT ![p] = FailedAt(c, e, fault)]
             /\ UNCHANGED <<relegated, since>>
    BY <1>6, Zenon DEF AskTip
  <2>3. (\E q, x : AnsweredAfter(q, x)) \/ UNCHANGED <<relegated, since>>
    BY <2>2, Zenon
  <2>4. \/ e \in c.down /\ call' = [call EXCEPT ![p] = over]
        \/ call' = [call EXCEPT ![p] = told]
        \/ call' = [call EXCEPT ![p] = FailedAt(c, e, fault)]
    BY <1>1, <2>2
  <2> HIDE DEF c
  <2>5. /\ over.order = c.order /\ over.watch = c.watch /\ over.next = c.next + 1
        /\ over.hit = c.hit /\ over.down = c.down
    BY <1>1 DEF Fields
  <2>6. /\ told.at = "tip" /\ told.tips = FALSE
        /\ told.order = c.order /\ told.watch = c.watch /\ told.next = c.next
        /\ told.hit = c.hit \cup {e} /\ told.down = c.down
    BY <1>1, <2>1 DEF Fields
  <2> HIDE DEF over, told, e
  <2>7. e \in c.down => CallWatch(over)
    BY <1>2, <2>1, <2>5, WatchStep
  <2>8. CallWatch(told)
    <3>1. ~Trying(told)
      BY <2>6 DEF Trying
    <3> QED BY <1>2, <2>1, <2>6, <3>1, WatchStep
  <2>9. CallWatch(FailedAt(c, e, fault))
    BY <1>1, <1>2, <2>1, WatchGoesOn
  <2>10. CASE e \in c.down /\ call' = [call EXCEPT ![p] = over]
    BY <1>3, <2>3, <2>7, <2>10, CallStep
  <2>11. CASE call' = [call EXCEPT ![p] = told]
    BY <1>3, <2>3, <2>8, <2>11, CallStep
  <2>12. CASE call' = [call EXCEPT ![p] = FailedAt(c, e, fault)]
    BY <1>3, <2>3, <2>9, <2>12, CallStep
  <2> QED BY <2>4, <2>10, <2>11, <2>12
<1>7. CASE Shown(p)
  <2>1. PICK facts, preview :
          call' = [call EXCEPT ![p] = [Done(c, "shown") EXCEPT
                                         !.facts = facts, !.preview = preview]]
    BY <1>7, Zenon DEF Shown
  <2> DEFINE b == Done(c, "shown")
             d == [b EXCEPT !.facts = facts, !.preview = preview]
  <2> HIDE DEF c
  <2>2. /\ DOMAIN b = Fields /\ b.at = "done"
        /\ b.order = c.order /\ b.watch = c.watch /\ b.next = c.next
        /\ b.hit = c.hit /\ b.down = c.down
    BY <1>1 DEF Done, Fields
  <2> HIDE DEF b
  <2>3. /\ d.at = "done" /\ d.order = c.order /\ d.watch = c.watch /\ d.next = c.next
        /\ d.hit = c.hit /\ d.down = c.down
    BY <2>2 DEF Fields
  <2>4. call' = [call EXCEPT ![p] = d] /\ UNCHANGED <<relegated, since>>
    BY <1>7, <2>1 DEF Shown, b
  <2> HIDE DEF d
  <2>5. ~Trying(d)
    BY <2>3 DEF Trying
  <2>6. CallWatch(d)
    BY <1>2, <2>3, <2>5, WatchStep
  <2> QED BY <1>3, <2>4, <2>6, CallStep
<1> QED BY <1>4, <1>5, <1>6, <1>7

\* A transaction is handed over, a status or a wallet is read, or the
\* servers are out.
LEMMA OrderAsks ==
  ASSUME SendingIInv, OrderIInv, NEW p \in Calls, Hand(p) \/ AskRead(p) \/ Fails(p)
  PROVE  OrderIInv'
<1> DEFINE c == call[p]
           e == Asked(p)
<1>1. CallOK(c) /\ DOMAIN call = Calls /\ DOMAIN c = Fields
  BY DEF SendingIInv, CallsOK, CallOK
<1>2. CallWatch(c) /\ c.next \in Nat \ {0} /\ e = c.order[c.next]
  BY DEF OrderIInv, CallWatch, Asked
<1>3. UNCHANGED <<now, live>>
  BY DEF Hand, AskRead, Fails, world
<1>4. ASSUME Trying(c), c.next <= Len(c.order), NEW fault, NEW result,
             \/ call' = [call EXCEPT ![p] = FailedAt(c, e, fault)]
             \/ call' = [call EXCEPT ![p] = ToldBy(c, e, result)],
             (\E q, x : AnsweredAfter(q, x)) \/ UNCHANGED <<relegated, since>>
      PROVE  OrderIInv'
  <2> HIDE DEF c, e
  <2>1. CallWatch(FailedAt(c, e, fault)) /\ CallWatch(ToldBy(c, e, result))
    BY <1>1, <1>2, <1>4, WatchGoesOn
  <2>2. CASE call' = [call EXCEPT ![p] = FailedAt(c, e, fault)]
    BY <1>3, <1>4, <2>1, <2>2, CallStep
  <2>3. CASE call' = [call EXCEPT ![p] = ToldBy(c, e, result)]
    BY <1>3, <1>4, <2>1, <2>3, CallStep
  <2> QED BY <1>4, <2>2, <2>3
<1>5. CASE Hand(p)
  <2>1. Trying(c) /\ c.next <= Len(c.order)
    BY <1>5 DEF Hand, Asking, Trying
  <2>2. PICK fault, t :
          \/ Unsent(p, e, fault)
          \/ Sent(p, e, t)
          \/ /\ call' = [call EXCEPT ![p] = ToldBy(@, e, "refused")]
             /\ UNCHANGED <<relegated, since>>
    BY <1>5, Zenon DEF Hand
  <2>3. PICK result :
          /\ \/ call' = [call EXCEPT ![p] = FailedAt(c, e, fault)]
             \/ call' = [call EXCEPT ![p] = ToldBy(c, e, result)]
          /\ (\E q, x : AnsweredAfter(q, x)) \/ UNCHANGED <<relegated, since>>
    <3>1. CASE Unsent(p, e, fault)
      BY <1>1, <3>1 DEF Unsent
    <3>2. CASE Sent(p, e, t)
      <4>1. call' = [call EXCEPT ![p] = ToldBy(c, e, "sent")] /\ AnsweredAfter(p, e)
        BY <1>1, <3>2 DEF Sent
      <4> QED BY <4>1, Zenon
    <3>3. CASE /\ call' = [call EXCEPT ![p] = ToldBy(@, e, "refused")]
               /\ UNCHANGED <<relegated, since>>
      BY <1>1, <3>3
    <3> QED BY <2>2, <3>1, <3>2, <3>3
  <2> HIDE DEF c, e
  <2> QED BY <1>4, <2>1, <2>3
<1>6. CASE AskRead(p)
  <2> DEFINE a == [c EXCEPT !.hit = @ \cup {e}]
  <2>1. Trying(c) /\ c.next <= Len(c.order)
    BY <1>6 DEF AskRead, Asking, Trying
  <2>2. PICK fault, result :
          /\ \/ call' = [call EXCEPT ![p] = FailedAt(a, e, fault)]
             \/ call' = [call EXCEPT ![p] = Done(a, result)]
          /\ AnsweredAfter(p, e) \/ UNCHANGED <<relegated, since>>
    BY <1>6, Zenon DEF AskRead
  <2> HIDE DEF c
  <2>3. /\ FailedAt(a, e, fault) = FailedAt(c, e, fault)
        /\ Done(a, result) = ToldBy(c, e, result)
    BY <1>1, ZenonT(40) DEF FailedAt, Done, ToldBy, Fields
  <2>4. (\E q, x : AnsweredAfter(q, x)) \/ UNCHANGED <<relegated, since>>
    BY <2>2, Zenon
  <2>5. \/ call' = [call EXCEPT ![p] = FailedAt(c, e, fault)]
        \/ call' = [call EXCEPT ![p] = ToldBy(c, e, result)]
    BY <2>2, <2>3, Zenon
  <2> HIDE DEF a, e
  <2> QED BY <1>4, <2>1, <2>4, <2>5
<1>7. CASE Fails(p)
  <2> DEFINE d == Done(c, "failed")
  <2>1. call' = [call EXCEPT ![p] = d] /\ UNCHANGED <<relegated, since>>
    BY <1>1, <1>7 DEF Fails
  <2>2. /\ d.at = "done" /\ d.order = c.order /\ d.watch = c.watch /\ d.next = c.next
        /\ d.hit = c.hit /\ d.down = c.down
    BY <1>1 DEF Done, Fields
  <2> HIDE DEF c, d
  <2>3. ~Trying(d)
    BY <2>2 DEF Trying
  <2>4. CallWatch(d)
    BY <1>2, <2>2, <2>3, WatchStep
  <2> QED BY <1>3, <2>1, <2>4, CallStep
<1> QED BY <1>5, <1>6, <1>7

\* Every step keeps the order of the calls and the count of those put last.
LEMMA OrderInductive ==
  ASSUME SendingIInv, OrderIInv, [Next]_vars
  PROVE  OrderIInv'
<1>1. ASSUME NEW p \in Calls,
             \/ StartPreview(p) \/ AskCoins(p) \/ CoinsAsked(p) \/ AskTip(p) \/ Shown(p)
             \/ StartBroadcast(p) \/ Hand(p) \/ StartStatus(p) \/ StartSync(p) \/ AskRead(p)
             \/ Fails(p)
      PROVE  OrderIInv'
  BY <1>1, OrderStarts, OrderPreviews, OrderAsks
<1> QED BY <1>1, OrderWorld, Zenon DEF Next

\* It holds before the first call.
LEMMA OrderInit ==
  Init => OrderIInv
<1> SUFFICES ASSUME Init PROVE OrderIInv
  OBVIOUS
<1>1. call = [p \in Calls |-> NoCall] /\ relegated = << >> /\ live = {} /\ now = 0
  BY DEF Init
<1>2. CallWatch(NoCall)
  <2>1. NoCall.order = << >> /\ NoCall.next = 1 /\ NoCall.hit = {} /\ NoCall.watch = {}
    BY DEF NoCall
  <2>2. << >> \in Seq(Known)
    OBVIOUS
  <2> HIDE DEF NoCall
  <2>3. NoCall.order \in Seq(Known) /\ \A w \in NoCall.watch : Leads(NoCall.order, w)
    BY <2>1, <2>2
  <2> QED BY <2>1, <2>3, WatchBegun
<1> HIDE DEF NoCall
<1>3. CountInv
  BY <1>1 DEF CountInv
<1> QED BY <1>1, <1>2, <1>3 DEF OrderIInv

\* The order and the counts say who was asked and who sat out.
LEMMA OrderShown ==
  OrderIInv => OrderInv
<1>1. CountInv => CountedOnce
  BY DEF CountInv, PutLast, CountedOnce
<1> QED BY <1>1 DEF OrderIInv, CallWatch, OrderInv, OthersAfterWatch

\* No operator but the watch's is shown what a call asks about unless the
\* watch's server failed it, and a server put last for the n-th time sat out
\* each of the times before, however the calls interleave (ask_in_turn,
\* Relegations).
THEOREM OrderHolds == Spec => []OrderInv
<1>1. SendingIInv /\ OrderIInv /\ [Next]_vars => OrderIInv'
  BY OrderInductive
<1> QED BY <1>1, OrderInit, OrderShown, SendingInductive, PTL DEF Spec

-----------------------------------------------------------------------------
(* What a preview says of the coins.                                       *)

FactFields == {"prevout", "wallet", "spent", "by", "listed", "contradicted",
               "unknown", "unchecked", "satisfaction"}

\* A spend that refuses a transaction is of the coin and in a block.
InBlock(where, c, by) == /\ by.tx \in Txs /\ c \in SpendsOf[by.tx] /\ where[by.tx] = "block"
SpendsOK(where, c, spends) == \A by \in spends : SpentBlocks(by) => InBlock(where, c, by)

\* What is known of a coin is what it holds, unless it is a listing's word.
FactOK(where, f, c) ==
  /\ DOMAIN f = FactFields /\ f.listed \in BOOLEAN
  /\ ~f.listed => f.prevout = {} \/ f.prevout = {Truth[c]}
  /\ SpendsOK(where, c, f.by)

\* Nothing is known of a coin at first.
LEMMA NothingKnown ==
  ASSUME NEW c
  PROVE  FactOK(place, NoFacts, c)
BY DEF FactOK, NoFacts, FactFields, SpendsOK

\* What a wallet says leaves it so.
LEMMA WalletSays ==
  ASSUME NEW f, NEW c, FactOK(place, f, c), NEW w, w.kind \in {"descriptors", "address"},
         NEW by, SpendsOK(place, c, by)
  PROVE  FactOK(place, WalletCoin(f, w, c, by), c)
<1>1. CASE c \notin w.coins
  BY <1>1 DEF WalletCoin
<1>2. CASE c \in w.coins /\ w.kind = "descriptors"
  <2> DEFINE g == [f EXCEPT !.prevout = {Truth[c]}, !.wallet = {w.name},
                            !.spent = {by # {}}, !.by = by, !.satisfaction = w.satisfaction]
  <2>1. WalletCoin(f, w, c, by) = g
    BY <1>2 DEF WalletCoin
  <2>2. /\ DOMAIN g = FactFields /\ g.listed = f.listed /\ g.prevout = {Truth[c]}
        /\ g.by = by
    BY DEF FactOK, FactFields
  <2> HIDE DEF g
  <2> QED BY <2>1, <2>2 DEF FactOK
<1>3. CASE c \in w.coins /\ w.kind = "address"
  <2> DEFINE g == [f EXCEPT !.prevout = {w.listing[c]}, !.wallet = {w.name}, !.listed = TRUE]
  <2>1. WalletCoin(f, w, c, by) = g
    BY <1>3 DEF WalletCoin
  <2>2. DOMAIN g = FactFields /\ g.listed = TRUE /\ g.by = f.by
    BY DEF FactOK, FactFields
  <2> HIDE DEF g
  <2> QED BY <2>1, <2>2 DEF FactOK
<1> QED BY <1>1, <1>2, <1>3

\* What the recursion over the wallets builds.
WalletsInTurn(f, vault, c, by) ==
  f = [k \in 0..Len(vault) |->
         IF k = 0 THEN NoFacts ELSE WalletCoin(f[k - 1], vault[k], c, by)]

\* It exists: what is said of a coin is one of few things.
LEMMA WalletsExist ==
  ASSUME NEW vault \in Vaults, NEW c, NEW by
  PROVE  \E f : WalletsInTurn(f, vault, c, by)
<1> DEFINE n == Len(vault)
           V == [prevout : {{}, {Truth[c]}} \cup {{vault[k].listing[c]} : k \in 1..n},
                 wallet : {{}} \cup {{vault[k].name} : k \in 1..n},
                 spent : {{}, {by # {}}}, by : {{}, by}, listed : BOOLEAN,
                 contradicted : {{}}, unknown : {FALSE}, unchecked : {FALSE},
                 satisfaction : {{}} \cup {vault[k].satisfaction : k \in 1..n}]
           step == [x \in Nat \X V |->
                      IF x[1] \in 1..n THEN WalletCoin(x[2], vault[x[1]], c, by) ELSE x[2]]
<1>1. /\ n \in Nat /\ DOMAIN vault = 1..n
      /\ \A k \in 1..n : vault[k].kind \in {"descriptors", "address"}
  <2>1. /\ vault \in Seq(ToSet(vault))
        /\ \A w \in ToSet(vault) : w.kind \in {"descriptors", "address"}
    BY VaultsAssumption
  <2>2. n \in Nat /\ DOMAIN vault = 1..n
    BY <2>1
  <2> QED BY <2>1, <2>2 DEF ToSet
<1>2. ASSUME NEW k \in 1..n, NEW u \in V PROVE WalletCoin(u, vault[k], c, by) \in V
  <2> DEFINE w == vault[k]
  <2>1. CASE c \notin w.coins
    BY <2>1 DEF WalletCoin
  <2>2. CASE c \in w.coins /\ w.kind = "descriptors"
    <3>1. WalletCoin(u, w, c, by) =
            [u EXCEPT !.prevout = {Truth[c]}, !.wallet = {w.name},
                      !.spent = {by # {}}, !.by = by, !.satisfaction = w.satisfaction]
      BY <2>2 DEF WalletCoin
    <3>2. /\ {w.name} \in {{}} \cup {{vault[j].name} : j \in 1..n}
          /\ w.satisfaction \in {{}} \cup {vault[j].satisfaction : j \in 1..n}
      OBVIOUS
    <3> HIDE DEF w
    <3> QED BY <3>1, <3>2 DEF w
  <2>3. CASE c \in w.coins /\ w.kind = "address"
    <3>1. WalletCoin(u, w, c, by) =
            [u EXCEPT !.prevout = {w.listing[c]}, !.wallet = {w.name}, !.listed = TRUE]
      BY <2>3 DEF WalletCoin
    <3>2. /\ {w.name} \in {{}} \cup {{vault[j].name} : j \in 1..n}
          /\ {w.listing[c]} \in {{vault[j].listing[c]} : j \in 1..n}
      OBVIOUS
    <3> HIDE DEF w
    <3> QED BY <3>1, <3>2 DEF w
  <2> QED BY <1>1, <2>1, <2>2, <2>3
<1>3. NoFacts \in V
  BY DEF NoFacts
<1> HIDE DEF V, n
<1>4. step \in [Nat \X V -> V]
  <2> SUFFICES ASSUME NEW x \in Nat \X V
               PROVE  (IF x[1] \in 1..n THEN WalletCoin(x[2], vault[x[1]], c, by) ELSE x[2]) \in V
    OBVIOUS
  <2>1. x[2] \in V
    OBVIOUS
  <2> QED BY <1>2, <2>1
<1>5. \A i \in Nat, u \in V : step[<<i, u>>] =
         IF i \in 1..n THEN WalletCoin(u, vault[i], c, by) ELSE u
  OBVIOUS
<1> HIDE DEF step
<1>6. PICK f \in [Nat -> V] : Recurs(f, NoFacts, step)
  BY <1>3, <1>4, Recursion
<1> DEFINE g == [i \in 0..n |-> f[i]]
<1>7. ASSUME NEW i \in 1..n PROVE f[i] = WalletCoin(f[i - 1], vault[i], c, by)
  <2>1. i \in Nat /\ i - 1 \in Nat /\ (i - 1) + 1 = i
    BY <1>1
  <2>2. f[i] = step[<<i, f[i - 1]>>] /\ f[i - 1] \in V
    BY <1>6, <2>1 DEF Recurs
  <2> QED BY <1>5, <2>1, <2>2
<1>8. \A i \in 1..n : g[i] = f[i] /\ g[i - 1] = f[i - 1]
  BY <1>1
<1>9. \A i \in 0..n : i # 0 => i \in 1..n
  BY <1>1
<1>10. g[0] = NoFacts
  BY <1>1, <1>6 DEF Recurs
<1>11. g = [i \in 0..n |-> IF i = 0 THEN NoFacts ELSE WalletCoin(g[i - 1], vault[i], c, by)]
  <2>1. ASSUME NEW i \in 0..n
        PROVE  g[i] = IF i = 0 THEN NoFacts ELSE WalletCoin(g[i - 1], vault[i], c, by)
    BY <1>7, <1>8, <1>9, <1>10
  <2>2. g = [i \in 0..n |-> g[i]]
    OBVIOUS
  <2> HIDE DEF g
  <2> QED BY <2>1, <2>2
<1> HIDE DEF g
<1> QED BY <1>11 DEF WalletsInTurn, n

\* What the wallets of a vault say together.
LEMMA WalletsAgree ==
  ASSUME NEW vault \in Vaults, NEW c, NEW by, SpendsOK(place, c, by)
  PROVE  FactOK(place, WalletsSay(vault, c, by), c)
<1> DEFINE n == Len(vault)
           f == CHOOSE f : WalletsInTurn(f, vault, c, by)
<1>1. /\ n \in Nat
      /\ \A k \in 1..n : vault[k].kind \in {"descriptors", "address"}
  <2>1. /\ vault \in Seq(ToSet(vault))
        /\ \A w \in ToSet(vault) : w.kind \in {"descriptors", "address"}
    BY VaultsAssumption
  <2>2. n \in Nat /\ DOMAIN vault = 1..n
    BY <2>1
  <2> QED BY <2>1, <2>2 DEF ToSet
<1>2. WalletsInTurn(f, vault, c, by)
  BY WalletsExist
<1>3. WalletsSay(vault, c, by) = f[n]
  BY DEF WalletsSay, WalletsInTurn
<1> HIDE DEF f
<1>4. ASSUME NEW i \in 0..n
      PROVE  f[i] = IF i = 0 THEN NoFacts ELSE WalletCoin(f[i - 1], vault[i], c, by)
  BY <1>2, Zenon DEF WalletsInTurn
<1> DEFINE D == {i \in Nat : i <= n => FactOK(place, f[i], c)}
<1>5. 0 \in D
  <2>1. 0 \in 0..n
    BY <1>1
  <2>2. f[0] = NoFacts
    BY <1>4, <2>1
  <2> QED BY <2>2, NothingKnown
<1>6. ASSUME NEW j \in Nat, j \in D PROVE j + 1 \in D
  <2> SUFFICES ASSUME j + 1 <= n PROVE FactOK(place, f[j + 1], c)
    OBVIOUS
  <2>1. j + 1 \in 0..n /\ j + 1 # 0 /\ (j + 1) - 1 = j /\ j <= n /\ j + 1 \in 1..n
    BY <1>1
  <2>2. f[j + 1] = WalletCoin(f[j], vault[j + 1], c, by)
    BY <1>4, <2>1
  <2>3. FactOK(place, f[j], c) /\ vault[j + 1].kind \in {"descriptors", "address"}
    BY <1>1, <1>6, <2>1
  <2> QED BY <2>2, <2>3, WalletSays
<1> HIDE DEF D
<1>7. Nat \subseteq D
  BY <1>5, <1>6, Induction
<1> QED BY <1>1, <1>3, <1>7 DEF D

\* What a server says of a coin that it shows is so.
LEMMA AnswersAre ==
  ASSUME NEW e, NEW c, NEW a \in Answers(e, c)
  PROVE  (a.txout = {} \/ a.txout = {Truth[c]}) /\ SpendsOK(place, c, a.by)
<1>1. NotFound.txout = {} /\ NotFound.by = {}
  BY DEF NotFound
<1>2. CASE a = NotFound
  BY <1>1, <1>2 DEF SpendsOK
<1>3. CASE a \in EsploraAnswers(c) /\ a # NotFound
  <2>1. /\ a \in EsploraFacts(c)
        /\ \A by \in a.by : by.verified => /\ by.confirmed /\ c \in SpendsOf[by.tx]
                                           /\ place[by.tx] = "block"
    BY <1>3 DEF EsploraAnswers
  <2>2. a.txout = {Truth[c]} /\ \A by \in a.by : by.tx \in Txs
    <3>1. CASE \E s : a = [txout |-> {Truth[c]}, spent |-> s, by |-> {}]
      BY <3>1
    <3>2. ASSUME NEW x \in [tx : Txs, confirmed : BOOLEAN, verified : BOOLEAN],
                 a = [txout |-> {Truth[c]}, spent |-> {TRUE}, by |-> {x}]
          PROVE  a.txout = {Truth[c]} /\ \A by \in a.by : by.tx \in Txs
      BY <3>2
    <3> QED BY <2>1, <3>1, <3>2, Zenon DEF EsploraFacts
  <2> QED BY <2>1, <2>2 DEF SpendsOK, SpentBlocks, InBlock
<1>4. CASE a \in ElectrumAnswers(c) /\ a # NotFound
  <2>1. /\ a.txout = {Truth[c]}
        /\ \A by \in a.by : \E t \in Spenders(c) : by = [tx |-> t, confirmed |-> place[t] = "block",
                                                         verified |-> TRUE]
    <3>1. CASE \E s : a = [txout |-> {Truth[c]}, spent |-> s, by |-> {}]
      BY <3>1
    <3>2. CASE \E t \in Spenders(c) :
                 a = [txout |-> {Truth[c]}, spent |-> {TRUE},
                      by |-> {[tx |-> t, confirmed |-> place[t] = "block", verified |-> TRUE]}]
      <4>1. PICK t \in Spenders(c) :
                 a = [txout |-> {Truth[c]}, spent |-> {TRUE},
                      by |-> {[tx |-> t, confirmed |-> place[t] = "block", verified |-> TRUE]}]
        BY <3>2
      <4>2. a.txout = {Truth[c]}
            /\ a.by = {[tx |-> t, confirmed |-> place[t] = "block", verified |-> TRUE]}
        BY <4>1
      <4> QED BY <4>2
    <3> QED BY <1>4, <3>1, <3>2, Zenon DEF ElectrumAnswers
  <2>2. ASSUME NEW by \in a.by, SpentBlocks(by) PROVE InBlock(place, c, by)
    <3>1. PICK t \in Spenders(c) : by = [tx |-> t, confirmed |-> place[t] = "block",
                                         verified |-> TRUE]
      BY <2>1
    <3>2. by.tx = t /\ by.confirmed = (place[t] = "block")
      BY <3>1
    <3> QED BY <2>2, <3>2 DEF SpentBlocks, InBlock, Spenders
  <2> QED BY <2>1, <2>2 DEF SpendsOK
<1> QED BY <1>2, <1>3, <1>4 DEF Answers

\* What is learned of a coin from a server leaves it so.
LEMMA Learned ==
  ASSUME NEW f, NEW c, FactOK(place, f, c), NEW e, NEW a \in Answers(e, c)
  PROVE  FactOK(place, Learn(f, a), c)
<1>1. (a.txout = {} \/ a.txout = {Truth[c]}) /\ SpendsOK(place, c, a.by)
  BY AnswersAre
<1> DEFINE coin == CASE f.prevout # {} /\ ~f.listed -> f
                     [] OTHER -> IF a.txout = {} THEN [f EXCEPT !.unknown = TRUE]
                                 ELSE Backed(f, a.txout)
<1>2. FactOK(place, Backed(f, {Truth[c]}), c)
  <2>1. CASE ~f.listed
    <3> DEFINE g == [f EXCEPT !.prevout = {Truth[c]}]
    <3>1. Backed(f, {Truth[c]}) = g
      BY <2>1 DEF Backed
    <3>2. DOMAIN g = FactFields /\ g.listed = f.listed /\ g.prevout = {Truth[c]} /\ g.by = f.by
      BY DEF FactOK, FactFields
    <3> HIDE DEF g
    <3> QED BY <3>1, <3>2 DEF FactOK
  <2>2. CASE f.listed
    <3> DEFINE txout == {Truth[c]}
               differs == f.prevout # {} /\ f.prevout # txout
               same == \A x \in f.prevout, y \in txout : x.script = y.script
               g == [f EXCEPT !.listed = FALSE, !.prevout = txout,
                              !.wallet = IF differs /\ ~same THEN {} ELSE @,
                              !.contradicted = IF differs THEN f.prevout ELSE @]
    <3>1. Backed(f, txout) = g
      BY <2>2 DEF Backed
    <3> HIDE DEF differs, same
    <3>2. DOMAIN g = FactFields /\ g.listed = FALSE /\ g.prevout = txout /\ g.by = f.by
      BY DEF FactOK, FactFields
    <3> HIDE DEF g
    <3> QED BY <3>1, <3>2 DEF FactOK
  <2> QED BY <2>1, <2>2 DEF FactOK
<1>3. FactOK(place, [f EXCEPT !.unknown = TRUE], c)
  <2> DEFINE g == [f EXCEPT !.unknown = TRUE]
  <2>1. DOMAIN g = FactFields /\ g.listed = f.listed /\ g.prevout = f.prevout /\ g.by = f.by
    BY DEF FactOK, FactFields
  <2> HIDE DEF g
  <2>2. FactOK(place, g, c)
    BY <2>1 DEF FactOK
  <2> QED BY <2>2 DEF g
<1>4. FactOK(place, coin, c)
  <2>1. CASE f.prevout # {} /\ ~f.listed
    BY <2>1
  <2>2. CASE ~(f.prevout # {} /\ ~f.listed)
    <3>1. coin = IF a.txout = {} THEN [f EXCEPT !.unknown = TRUE] ELSE Backed(f, a.txout)
      BY <2>2
    <3> HIDE DEF coin
    <3> QED BY <1>1, <1>2, <1>3, <3>1
  <2> QED BY <2>1, <2>2
<1>5. Learn(f, a) = IF f.spent # {} THEN coin ELSE [coin EXCEPT !.spent = a.spent, !.by = a.by]
  BY DEF Learn
<1> HIDE DEF coin
<1> DEFINE h == [coin EXCEPT !.spent = a.spent, !.by = a.by]
<1>6. DOMAIN h = FactFields /\ h.listed = coin.listed /\ h.prevout = coin.prevout /\ h.by = a.by
  BY <1>4 DEF FactOK, FactFields
<1> HIDE DEF h
<1>7. FactOK(place, h, c)
  BY <1>1, <1>4, <1>6 DEF FactOK
<1> QED BY <1>4, <1>5, <1>7 DEF h

\* What a file says of the coins it carries the transactions of is so.
DecodedOK(d) ==
  /\ DOMAIN d.inputs = DOMAIN d.outpoints
  /\ \A i \in DOMAIN d.inputs :
       /\ d.inputs[i].proven \in BOOLEAN
       /\ d.inputs[i].proven => d.inputs[i].prevout = {Truth[d.outpoints[i]]}

\* What is pasted opens to one of the containers (decode_transaction).
LEMMA PastedOpens ==
  ASSUME NEW text \in Pasted, NEW b \in DecodeTransaction(text)
  PROVE  b \in Containers
<1> DEFINE plain == {Plain(x) : x \in Containers}
           opens(t) == CASE t.wrapped = "none" -> {t.inner}
                         [] t.wrapped = "part" -> {}
                         [] t.wrapped = "whole" ->
                              {u.inner : u \in {u \in Squeezed(t.inner) : u.wrapped = "none"}}
<1>1. b \in opens(text)
  <2>1. PICK t \in Squeezed(text) : b \in opens(t)
    BY Zenon DEF DecodeTransaction
  <2>2. t = text
    BY DEF Squeezed
  <2> QED BY <2>1, <2>2, Zenon
<1>2. \A x : Plain(x).wrapped = "none" /\ Plain(x).inner = x
  BY DEF Plain
<1>3. \A x : [Plain(x) EXCEPT !.wrapped = "whole"].wrapped = "whole"
             /\ [Plain(x) EXCEPT !.wrapped = "whole"].inner = x
  BY DEF Plain
<1> HIDE DEF plain
<1>4. \/ \E x \in Containers : text = Plain(x)
      \/ \E t \in plain \cup Enveloped(plain) : text = [Plain(t) EXCEPT !.wrapped = "whole"]
  BY DEF Pasted, Enveloped, plain
<1>5. CASE \E x \in Containers : text = Plain(x)
  BY <1>1, <1>2, <1>5
<1>6. ASSUME NEW t \in plain \cup Enveloped(plain), text = [Plain(t) EXCEPT !.wrapped = "whole"]
      PROVE  b \in Containers
  <2>1. text.wrapped = "whole" /\ text.inner = t
    BY <1>3, <1>6
  <2>2. t.wrapped = "none" /\ b = t.inner
    BY <1>1, <2>1 DEF Squeezed
  <2>3. t \in plain
    BY <1>3, <1>6, <2>2 DEF Enveloped
  <2> QED BY <1>2, <2>2, <2>3 DEF plain
<1> QED BY <1>4, <1>5, <1>6

\* A container decoded (decode_transaction).
LEMMA DecodedIs ==
  ASSUME NEW b \in Containers, b.source \in {"psbt", "raw"}, NEW d \in Decode(b)
  PROVE  DecodedOK(d)
<1> DEFINE ready == \A i \in DOMAIN b.inputs : b.inputs[i].signatures \in {"enough", "final"}
           inputs == [i \in DOMAIN b.inputs |->
                        IF b.source = "psbt" THEN PsbtInput(b.inputs[i], ready)
                        ELSE RawInput(b.inputs[i])]
           outpoints == [i \in DOMAIN b.inputs |-> b.inputs[i].outpoint]
<1>1. /\ d.inputs = inputs /\ d.outpoints = outpoints
      /\ b.source = "psbt" => \A i \in DOMAIN b.inputs : Coherent(b.inputs[i])
  <2> DEFINE bad == \/ b.inputs = << >> \/ Repeated(b.inputs)
                    \/ b.source = "psbt" /\ \E i \in DOMAIN b.inputs : ~Coherent(b.inputs[i])
             read == [source |-> b.source, tx |-> b.tx, inputs |-> inputs, outpoints |-> outpoints,
                      ready |-> \A i \in DOMAIN inputs : inputs[i].signed]
  <2>1. Decode(b) = IF bad THEN {} ELSE {read}
    BY DEF Decode
  <2>2. read.inputs = inputs /\ read.outpoints = outpoints
    OBVIOUS
  <2> HIDE DEF read
  <2> QED BY <2>1, <2>2
<1> HIDE DEF ready
<1>2. ASSUME NEW i \in DOMAIN b.inputs
      PROVE  /\ inputs[i].proven \in BOOLEAN
             /\ inputs[i].proven => inputs[i].prevout = {Truth[outpoints[i]]}
  <2>1. CASE b.source = "psbt"
    <3> DEFINE input == b.inputs[i]
               known == FromPrevious(input)
    <3>1. inputs[i] = PsbtInput(input, ready)
      BY <2>1
    <3>2. PsbtInput(input, ready).proven = (known # {})
          /\ (known # {} => PsbtInput(input, ready).prevout = known)
      BY DEF PsbtInput
    <3>3. \A x \in known : x = Truth[input.outpoint]
      BY <1>1, <2>1, ContainersAssumption DEF Coherent, FromPrevious
    <3>4. known # {} => known = {Truth[input.outpoint]}
      BY <3>3
    <3> QED BY <3>1, <3>2, <3>4
  <2>2. CASE b.source # "psbt"
    <3>1. inputs[i] = RawInput(b.inputs[i])
      BY <2>2
    <3>2. RawInput(b.inputs[i]).proven = FALSE
      BY DEF RawInput
    <3> QED BY <3>1, <3>2
  <2> QED BY <2>1, <2>2
<1> QED BY <1>1, <1>2 DEF DecodedOK

FactsOK(where, d, facts) ==
  /\ DOMAIN facts = DOMAIN d.outpoints
  /\ \A i \in DOMAIN facts : FactOK(where, facts[i], d.outpoints[i])

\* What the coins of a transaction bring, as they are.
TrueCoins(d) == [i \in DOMAIN d.outpoints |-> {Truth[d.outpoints[i]]}]

\* What a preview says of the fee, and what it refuses for.
PreviewOK(where, d, v) ==
  /\ \A f \in v.fee : ~v.declared => f = Brought(TrueCoins(d)) - Paid(d.tx)
  /\ v.readiness = "refused" =>
       \/ OutputsImpossible(d.tx)
       \/ Paid(d.tx) > Brought(TrueCoins(d))
       \/ \E i \in DOMAIN d.outpoints : \E t \in Txs :
            d.outpoints[i] \in SpendsOf[t] /\ where[t] = "block"

\* A coin that is vouched for is as it is.
LEMMA VouchedIsTrue ==
  ASSUME NEW d, DecodedOK(d), NEW facts, FactsOK(place, d, facts), NEW i \in DOMAIN d.inputs,
         IsProven(d, facts, i)
  PROVE  Spent(d, facts)[i] = {Truth[d.outpoints[i]]}
<1>1. Spent(d, facts)[i] = IF d.inputs[i].proven \/ facts[i].prevout = {}
                           THEN d.inputs[i].prevout ELSE facts[i].prevout
  BY DEF Spent
<1>2. CASE d.inputs[i].proven
  BY <1>1, <1>2 DEF DecodedOK
<1>3. CASE ~d.inputs[i].proven
  <2>1. facts[i].prevout # {} /\ ~facts[i].listed
    BY <1>3 DEF IsProven
  <2>2. i \in DOMAIN facts
    BY DEF DecodedOK, FactsOK
  <2>3. facts[i].prevout = {Truth[d.outpoints[i]]}
    BY <2>1, <2>2 DEF FactsOK, FactOK
  <2> QED BY <1>1, <1>3, <2>1, <2>3
<1> QED BY <1>2, <1>3

\* When each is, so is their sum.
LEMMA VouchedAreTrue ==
  ASSUME NEW d, DecodedOK(d), NEW facts, FactsOK(place, d, facts),
         \A i \in DOMAIN d.inputs : IsProven(d, facts, i)
  PROVE  Spent(d, facts) = TrueCoins(d)
<1>1. \A i \in DOMAIN d.outpoints : Spent(d, facts)[i] = {Truth[d.outpoints[i]]}
  BY VouchedIsTrue DEF DecodedOK
<1>2. /\ DOMAIN Spent(d, facts) = DOMAIN d.outpoints
      /\ Spent(d, facts) = [i \in DOMAIN Spent(d, facts) |-> Spent(d, facts)[i]]
  BY DEF Spent, DecodedOK
<1> QED BY <1>1, <1>2 DEF TrueCoins

\* A warning that blocks, other than for what is not signed.
LEMMA WhatBlocks ==
  ASSUME NEW d, NEW facts, NEW spent, NEW tip, NEW time,
         NEW w \in Warnings(d, facts, spent, tip, time), w.blocking, w.kind # "unsigned"
  PROVE  \/ OutputsImpossible(d.tx)
         \/ Overspends(d.tx, spent) /\ \A i \in DOMAIN d.inputs : IsProven(d, facts, i)
         \/ \E i \in DOMAIN d.inputs : \E by \in facts[i].by : SpentBlocks(by)
<1> DEFINE tx == d.tx
           unsigned == \E i \in DOMAIN d.inputs : ~d.inputs[i].signed
           pooled == InMempool(d, facts)
           small(o) == ~tx.outs[o].data /\ tx.outs[o].value < DUST
           dust == \E o \in DOMAIN tx.outs : small(o)
           watched == \E i \in DOMAIN facts : facts[i].wallet # {}
           still == unsigned /\ ~(pooled /\ ~d.ready)
           late == Locked(tx.lock, tip, time)
           measured == Measured(d, facts, spent)
           ofFee == FeeCautions(d, facts, spent, measured)
           ofInputs == UNION {InputCautions(d, facts, spent, i) : i \in DOMAIN d.inputs}
<1>1. ASSUME NEW cond, NEW kind, NEW at, NEW blocking, w \in Says(cond, kind, at, blocking)
      PROVE  w = Caution(kind, at, blocking)
  BY <1>1 DEF Says
<1>2. ASSUME NEW kind, NEW at, NEW blocking, w = Caution(kind, at, blocking)
      PROVE  blocking /\ kind # "unsigned"
  <2>1. w.kind = kind /\ w.blocking = blocking
    BY <1>2 DEF Caution
  <2> QED BY <2>1
<1>3. Warnings(d, facts, spent, tip, time) =
        Says(still, "unsigned", 0, TRUE) \cup ofInputs \cup Says(pooled, "in_mempool", 0, FALSE)
          \cup ofFee \cup Says(late, "locked", 0, FALSE) \cup Says(dust, "dust", 0, FALSE)
          \cup Says(watched, "spends_watched", 0, FALSE)
  BY DEF Warnings
<1>4. CASE w \in ofFee
  <2> DEFINE vouched == \A i \in DOMAIN d.inputs : IsProven(d, facts, i)
             fee == Fee(tx, spent)
             refused == \/ OutputsImpossible(tx)
                        \/ ~InputsImpossible(spent) /\ Overspends(tx, spent) /\ vouched
             rate(f) == f > HIGH_FEE_RATE_SAT_VB * measured.judged
             share(f) == f * 100 > HIGH_FEE_SHARE * Brought(spent)
  <2>1. ofFee = IF fee = {} THEN {Caution("fee_unknown", 0, refused)}
                ELSE UNION {Says(rate(f), "high_fee_rate", 0, FALSE)
                              \cup Says(share(f), "high_fee_share", 0, FALSE) : f \in fee}
    BY Zenon DEF FeeCautions
  <2> HIDE DEF ofFee, fee, refused, rate, share
  <2>2. CASE fee = {}
    <3>1. w = Caution("fee_unknown", 0, refused)
      BY <1>4, <2>1, <2>2
    <3>2. w.blocking = refused
      BY <3>1 DEF Caution
    <3>3. refused
      BY <3>2
    <3> QED BY <3>3, Zenon DEF refused
  <2>3. CASE fee # {}
    <3>1. PICK f \in fee : \/ w \in Says(rate(f), "high_fee_rate", 0, FALSE)
                           \/ w \in Says(share(f), "high_fee_share", 0, FALSE)
      BY <1>4, <2>1, <2>3
    <3> QED BY <1>1, <1>2, <3>1, Zenon
  <2> QED BY <2>2, <2>3
<1>5. ASSUME NEW i \in DOMAIN d.inputs, w \in InputCautions(d, facts, spent, i)
      PROVE  \E by \in facts[i].by : SpentBlocks(by)
  <2> DEFINE in == d.inputs[i]
             f == facts[i]
             loose == in.loose
             differs == \/ in.prevout # {} /\ in.disputed # {}
                        \/ f.prevout # {} /\ in.prevout # {} /\ f.prevout # in.prevout
                        \/ f.contradicted # {} /\ spent[i] # {}
             gone == \E by \in f.by : SpentBlocks(by)
             seen == f.spent = {TRUE} /\ ~\E by \in f.by : by.tx = d.tx.id /\ ~by.confirmed
  <2>1. InputCautions(d, facts, spent, i) =
          Says(loose, "uncommitted", i, FALSE) \cup Says(differs, "input_mismatch", i, FALSE)
            \cup (IF f.unknown \/ f.unchecked THEN {Caution("input_unknown", i, FALSE)}
                  ELSE SpentCaution(d, f, i))
    BY Zenon DEF InputCautions
  <2>2. SpentCaution(d, f, i) = Says(seen, "input_spent", i, gone)
    BY Zenon DEF SpentCaution
  <2> HIDE DEF loose, differs, seen, gone
  <2>3. \/ w \in Says(loose, "uncommitted", i, FALSE)
        \/ w \in Says(differs, "input_mismatch", i, FALSE)
        \/ w = Caution("input_unknown", i, FALSE) \/ w \in Says(seen, "input_spent", i, gone)
    BY <1>5, <2>1, <2>2
  <2>4. ASSUME w \in Says(seen, "input_spent", i, gone) PROVE gone
    <3>1. w = Caution("input_spent", i, gone)
      BY <2>4 DEF Says
    <3>2. w.blocking = gone
      BY <3>1 DEF Caution
    <3> QED BY <3>2
  <2>5. gone
    BY <1>1, <1>2, <2>3, <2>4, Zenon
  <2> QED BY <2>5, Zenon DEF gone
<1> HIDE DEF still, pooled, ofFee, late, dust, watched
<1>6. \/ w \in Says(still, "unsigned", 0, TRUE) \/ w \in ofInputs
      \/ w \in Says(pooled, "in_mempool", 0, FALSE)
      \/ w \in ofFee \/ w \in Says(late, "locked", 0, FALSE) \/ w \in Says(dust, "dust", 0, FALSE)
      \/ w \in Says(watched, "spends_watched", 0, FALSE)
  BY <1>3, Zenon
<1>7. CASE w \in ofInputs
  BY <1>5, <1>7, Zenon
<1> QED BY <1>1, <1>2, <1>4, <1>6, <1>7, Zenon

\* A preview built from what is so says what is so (build_preview).
LEMMA BuiltIsReal ==
  ASSUME NEW d, DecodedOK(d), NEW facts, FactsOK(place, d, facts), NEW tip, NEW time
  PROVE  PreviewOK(place, d, BuildPreview(d, facts, tip, time))
<1> DEFINE spent == Spent(d, facts)
           warnings == Warnings(d, facts, spent, tip, time)
           v == BuildPreview(d, facts, tip, time)
<1>1. /\ v.fee = Fee(d.tx, spent)
      /\ v.declared = (\E i \in DOMAIN spent : spent[i] # {} /\ ~IsProven(d, facts, i))
      /\ v.readiness = Readiness(d, facts, warnings)
  BY DEF BuildPreview
<1>2. DOMAIN spent = DOMAIN d.inputs
  BY DEF Spent
<1> HIDE DEF v
<1>3. ASSUME NEW f \in v.fee, ~v.declared PROVE f = Brought(TrueCoins(d)) - Paid(d.tx)
  <2>1. f = Brought(spent) - Paid(d.tx) /\ Amounts(d.tx, spent)
    BY <1>1, <1>3 DEF Fee
  <2>2. \A i \in DOMAIN spent : spent[i] # {}
    BY <2>1 DEF Amounts, ValuesKnown
  <2>3. \A i \in DOMAIN d.inputs : IsProven(d, facts, i)
    BY <1>1, <1>2, <1>3, <2>2
  <2>4. spent = TrueCoins(d)
    BY <2>3, VouchedAreTrue
  <2> HIDE DEF spent
  <2> QED BY <2>1, <2>4
<1>4. ASSUME v.readiness = "refused"
      PROVE  \/ OutputsImpossible(d.tx)
             \/ Paid(d.tx) > Brought(TrueCoins(d))
             \/ \E i \in DOMAIN d.outpoints : \E t \in Txs :
                  d.outpoints[i] \in SpendsOf[t] /\ place[t] = "block"
  <2>1. PICK w \in warnings : w.blocking /\ w.kind # "unsigned"
    BY <1>1, <1>4 DEF Readiness
  <2>2. \/ OutputsImpossible(d.tx)
        \/ Overspends(d.tx, spent) /\ \A i \in DOMAIN d.inputs : IsProven(d, facts, i)
        \/ \E i \in DOMAIN d.inputs : \E by \in facts[i].by : SpentBlocks(by)
    BY <2>1, WhatBlocks
  <2>3. CASE Overspends(d.tx, spent) /\ \A i \in DOMAIN d.inputs : IsProven(d, facts, i)
    <3>1. spent = TrueCoins(d)
      BY <2>3, VouchedAreTrue
    <3> HIDE DEF spent
    <3>2. Paid(d.tx) > Brought(spent)
      BY <2>3 DEF Overspends
    <3> QED BY <3>1, <3>2
  <2>4. ASSUME NEW i \in DOMAIN d.inputs, NEW by \in facts[i].by, SpentBlocks(by)
        PROVE  \E t \in Txs : d.outpoints[i] \in SpendsOf[t] /\ place[t] = "block"
    <3>1. i \in DOMAIN facts
      BY DEF DecodedOK, FactsOK
    <3>2. InBlock(place, d.outpoints[i], by)
      BY <2>4, <3>1 DEF FactsOK, FactOK, SpendsOK
    <3> QED BY <3>2 DEF InBlock
  <2> QED BY <2>2, <2>3, <2>4 DEF DecodedOK
<1>5. PreviewOK(place, d, v)
  BY <1>3, <1>4 DEF PreviewOK
<1> QED BY <1>5 DEF v

-----------------------------------------------------------------------------
(* The calls, and the network.                                             *)

\* What a call holds of its preview.
CallPreview(where, c) ==
  \/ c.decoded = {} /\ c.facts = << >> /\ c.preview = {}
  \/ \E d : /\ c.decoded = {d} /\ DecodedOK(d) /\ FactsOK(where, d, c.facts)
            /\ c.preview = {} \/ \E v : c.preview = {v} /\ PreviewOK(where, d, v)

PreviewIInv == \A p \in Calls : CallPreview(place, call[p])

\* No transaction leaves a block.
BlocksStay == \A t \in Txs : place[t] = "block" => place'[t] = "block"

\* What holds of the coins holds while blocks stay.
LEMMA PreviewStays ==
  ASSUME BlocksStay, NEW c, CallPreview(place, c), NEW d,
         d.decoded = c.decoded, d.facts = c.facts, d.preview = c.preview
  PROVE  CallPreview(place', d)
<1>1. CASE c.decoded = {} /\ c.facts = << >> /\ c.preview = {}
  BY <1>1 DEF CallPreview
<1>2. ASSUME NEW x, c.decoded = {x}, DecodedOK(x), FactsOK(place, x, c.facts),
             c.preview = {} \/ \E v : c.preview = {v} /\ PreviewOK(place, x, v)
      PROVE  CallPreview(place', d)
  <2>1. \A o, spends : SpendsOK(place, o, spends) => SpendsOK(place', o, spends)
    BY DEF BlocksStay, SpendsOK, InBlock
  <2>2. FactsOK(place', x, c.facts)
    BY <1>2, <2>1 DEF FactsOK, FactOK
  <2>3. ASSUME NEW v, PreviewOK(place, x, v) PROVE PreviewOK(place', x, v)
    BY <2>3 DEF BlocksStay, PreviewOK
  <2> QED BY <1>2, <2>2, <2>3 DEF CallPreview
<1> QED BY <1>1, <1>2 DEF CallPreview

\* One call goes on.
LEMMA PreviewCallStep ==
  ASSUME SendingIInv, PreviewIInv, BlocksStay, NEW p \in Calls, NEW d,
         CallPreview(place', d), call' = [call EXCEPT ![p] = d]
  PROVE  PreviewIInv'
<1>1. \A q \in Calls : call'[q] = IF q = p THEN d ELSE call[q]
  BY DEF SendingIInv, CallsOK
<1>2. ASSUME NEW q \in Calls PROVE CallPreview(place', call'[q])
  <2>1. CASE q = p
    BY <1>1, <2>1
  <2>2. CASE q # p
    <3>1. CallPreview(place, call[q])
      BY DEF PreviewIInv
    <3>2. CallPreview(place', call[q])
      BY <3>1, PreviewStays
    <3> QED BY <1>1, <2>2, <3>2
  <2> QED BY <2>1, <2>2
<1> QED BY <1>2 DEF PreviewIInv

\* A call that goes on says nothing new of its coins.
LEMMA PreviewKept ==
  ASSUME SendingIInv, PreviewIInv, BlocksStay, NEW p \in Calls, NEW d,
         d.decoded = call[p].decoded, d.facts = call[p].facts, d.preview = call[p].preview,
         call' = [call EXCEPT ![p] = d]
  PROVE  PreviewIInv'
<1>1. CallPreview(place, call[p])
  BY DEF PreviewIInv
<1>2. CallPreview(place', d)
  BY <1>1, PreviewStays
<1> QED BY <1>2, PreviewCallStep

\* Blocks stay: a transaction is taken only while no rival of it is in one.
LEMMA BlocksStayAlways ==
  ASSUME SendingIInv, [Next]_vars
  PROVE  BlocksStay
<1>1. ASSUME NEW t \in Txs, place' = Pooled(t), place[t] = "away",
             \A u \in Rivals(t) : place[u] # "block"
      PROVE  BlocksStay
  BY <1>1 DEF BlocksStay, Pooled
<1>2. ASSUME UNCHANGED place PROVE BlocksStay
  BY <1>2 DEF BlocksStay
<1>3. ASSUME NEW t \in Txs, Arrives(t) PROVE BlocksStay
  BY <1>1, <1>3 DEF Arrives
<1>4. ASSUME NEW t \in Txs, Mined(t) PROVE BlocksStay
  BY <1>4 DEF Mined, BlocksStay, SendingIInv, HeldWasTaken
<1>5. ASSUME NEW p \in Calls, Hand(p) PROVE BlocksStay
  <2> DEFINE t == CHOOSE t \in call[p].tx : TRUE
  <2>1. t \in Txs
    <3>1. CallOK(call[p]) /\ call[p].tx # {}
      BY <1>5 DEF SendingIInv, CallsOK, CallOK, Hand, Asking
    <3> QED BY <3>1 DEF CallOK
  <2>2. UNCHANGED place \/ ("taken" \in Verdict(t) /\ place' = Pooled(t))
    BY <1>5, Zenon DEF Hand, Takes
  <2> HIDE DEF t
  <2>3. CASE "taken" \in Verdict(t) /\ place' = Pooled(t)
    <3>1. place[t] = "away" /\ \A u \in Rivals(t) : place[u] # "block"
      <4>1. place[t] \in Places
        BY <2>1 DEF SendingIInv, HeldWasTaken
      <4>2. CASE place[t] = "pool"
        BY <2>3, <4>2 DEF Verdict
      <4>3. CASE place[t] = "block"
        BY <2>3, <4>3 DEF Verdict
      <4>4. CASE place[t] = "away"
        BY <2>3, <4>4 DEF Verdict
      <4> QED BY <4>1, <4>2, <4>3, <4>4 DEF Places
    <3> QED BY <1>1, <2>1, <2>3, <3>1
  <2> QED BY <1>2, <2>2, <2>3
<1>6. ASSUME NEW t \in Txs, ForgetBroadcast(t) PROVE BlocksStay
  BY <1>2, <1>6 DEF ForgetBroadcast, world
<1>7. ASSUME NEW e, Flips(e) PROVE BlocksStay
  BY <1>2, <1>7 DEF Flips
<1>8. CASE WatchMoves \/ Tick \/ Restart \/ UNCHANGED vars
  BY <1>2, <1>8 DEF WatchMoves, Tick, Restart, vars
<1>9. ASSUME NEW p \in Calls,
             \/ StartPreview(p) \/ AskCoins(p) \/ CoinsAsked(p) \/ AskTip(p) \/ Shown(p)
             \/ StartBroadcast(p) \/ StartStatus(p) \/ StartSync(p) \/ AskRead(p) \/ Fails(p)
      PROVE  BlocksStay
  <2>1. UNCHANGED place
    BY <1>9 DEF StartPreview, AskCoins, CoinsAsked, AskTip, Shown, StartBroadcast, StartStatus,
                StartSync, AskRead, Fails, world
  <2> QED BY <1>2, <2>1
<1> QED BY <1>3, <1>4, <1>5, <1>6, <1>7, <1>8, <1>9, Zenon DEF Next

\* A listing set aside leaves nothing known of the coin.
LEMMA SetAsideIs ==
  ASSUME NEW f, NEW o, FactOK(place, f, o), NEW in
  PROVE  FactOK(place, SetAside(f, in), o)
<1> DEFINE g == [NoFacts EXCEPT !.contradicted = f.prevout]
<1>1. SetAside(f, in) = f \/ SetAside(f, in) = g
  BY DEF SetAside
<1>2. DOMAIN g = FactFields /\ g.listed = FALSE /\ g.prevout = {} /\ g.by = {}
  BY DEF NoFacts, FactFields
<1> HIDE DEF g
<1>3. FactOK(place, g, o)
  BY <1>2 DEF FactOK, SpendsOK
<1> QED BY <1>1, <1>3

\* What a wallet's engine knows of a spend.
LEMMA EngineSpendsAre ==
  ASSUME NEW o, NEW by \in EngineSpends(o)
  PROVE  SpendsOK(place, o, by)
<1> DEFINE said == {[tx |-> t, confirmed |-> b, verified |-> TRUE] :
                      t \in {t \in Txs : o \in SpendsOf[t]}, b \in BOOLEAN}
<1>1. EngineSpends(o) = {{}} \cup {{x} : x \in {x \in said : x.confirmed => place[x.tx] = "block"}}
  BY DEF EngineSpends
<1>2. \A x \in said : x.tx \in Txs /\ o \in SpendsOf[x.tx]
  OBVIOUS
<1> HIDE DEF said
<1>3. \A x \in by : x \in said /\ (x.confirmed => place[x.tx] = "block")
  BY <1>1
<1> QED BY <1>2, <1>3 DEF SpendsOK, SpentBlocks, InBlock

\* A preview begins with what the file and the vault say.
LEMMA PreviewBegins ==
  ASSUME SendingIInv, PreviewIInv, BlocksStay, NEW p \in Calls, StartPreview(p)
  PROVE  PreviewIInv'
<1>1. PICK bytes \in UNION {DecodeTransaction(text) : text \in Pasted}, vault \in Vaults :
      \E decoded \in Decode(bytes) :
      \E by \in [DOMAIN decoded.outpoints ->
                   UNION {EngineSpends(decoded.outpoints[i]) : i \in DOMAIN decoded.outpoints}] :
        /\ \A i \in DOMAIN by : by[i] \in EngineSpends(decoded.outpoints[i])
        /\ LET held == VaultFacts(vault, decoded.outpoints, by)
               facts == [i \in DOMAIN held |-> SetAside(held[i], decoded.inputs[i])]
               tip == IF \E k \in DOMAIN vault : vault[k].kind = "descriptors"
                      THEN {0} ELSE {}
               asks == NeedsChain(facts) \/ NeedsTip(decoded.tx.lock, tip)
           IN  \E routed \in {asks, FALSE} :
                 call' = [call EXCEPT ![p] = PreviewBegun(p, decoded, facts, tip, routed)]
  BY Zenon DEF StartPreview
<1>2. PICK decoded \in Decode(bytes) :
      \E by \in [DOMAIN decoded.outpoints ->
                   UNION {EngineSpends(decoded.outpoints[i]) : i \in DOMAIN decoded.outpoints}] :
        /\ \A i \in DOMAIN by : by[i] \in EngineSpends(decoded.outpoints[i])
        /\ LET held == VaultFacts(vault, decoded.outpoints, by)
               facts == [i \in DOMAIN held |-> SetAside(held[i], decoded.inputs[i])]
               tip == IF \E k \in DOMAIN vault : vault[k].kind = "descriptors"
                      THEN {0} ELSE {}
               asks == NeedsChain(facts) \/ NeedsTip(decoded.tx.lock, tip)
           IN  \E routed \in {asks, FALSE} :
                 call' = [call EXCEPT ![p] = PreviewBegun(p, decoded, facts, tip, routed)]
  BY <1>1, Zenon
<1>3. PICK by \in [DOMAIN decoded.outpoints ->
                   UNION {EngineSpends(decoded.outpoints[i]) : i \in DOMAIN decoded.outpoints}] :
        /\ \A i \in DOMAIN by : by[i] \in EngineSpends(decoded.outpoints[i])
        /\ LET held == VaultFacts(vault, decoded.outpoints, by)
               facts == [i \in DOMAIN held |-> SetAside(held[i], decoded.inputs[i])]
               tip == IF \E k \in DOMAIN vault : vault[k].kind = "descriptors"
                      THEN {0} ELSE {}
               asks == NeedsChain(facts) \/ NeedsTip(decoded.tx.lock, tip)
           IN  \E routed \in {asks, FALSE} :
                 call' = [call EXCEPT ![p] = PreviewBegun(p, decoded, facts, tip, routed)]
  BY <1>2, Zenon
<1> DEFINE held == VaultFacts(vault, decoded.outpoints, by)
           facts == [i \in DOMAIN held |-> SetAside(held[i], decoded.inputs[i])]
           tip == IF \E k \in DOMAIN vault : vault[k].kind = "descriptors" THEN {0} ELSE {}
           asks == NeedsChain(facts) \/ NeedsTip(decoded.tx.lock, tip)
<1>4. PICK routed \in {asks, FALSE} :
        call' = [call EXCEPT ![p] = PreviewBegun(p, decoded, facts, tip, routed)]
  BY <1>3, Zenon
<1>5. DecodedOK(decoded)
  <2>1. PICK text \in Pasted : bytes \in DecodeTransaction(text)
    OBVIOUS
  <2>2. bytes \in Containers /\ bytes.source \in {"psbt", "raw"}
    BY <2>1, PastedOpens DEF DecodeTransaction
  <2> QED BY <2>2, DecodedIs
<1>6. /\ DOMAIN held = DOMAIN decoded.outpoints
      /\ \A i \in DOMAIN held : held[i] = WalletsSay(vault, decoded.outpoints[i], by[i])
  BY DEF VaultFacts
<1> HIDE DEF held, tip, asks
<1>7. FactsOK(place, decoded, facts)
  <2>1. DOMAIN facts = DOMAIN decoded.outpoints /\ DOMAIN by = DOMAIN decoded.outpoints
    BY <1>6
  <2>2. ASSUME NEW i \in DOMAIN facts PROVE FactOK(place, facts[i], decoded.outpoints[i])
    <3>1. SpendsOK(place, decoded.outpoints[i], by[i])
      BY <1>3, <2>1, EngineSpendsAre
    <3>2. FactOK(place, held[i], decoded.outpoints[i])
      BY <1>6, <2>1, <3>1, WalletsAgree
    <3>3. facts[i] = SetAside(held[i], decoded.inputs[i])
      OBVIOUS
    <3> QED BY <3>2, <3>3, SetAsideIs
  <2> QED BY <2>1, <2>2 DEF FactsOK
<1> HIDE DEF facts
<1> DEFINE b == Begin(p, "preview", IF routed THEN SendEndpoints("preview") ELSE << >>)
           d == PreviewBegun(p, decoded, facts, tip, routed)
<1>8. DOMAIN b = Fields /\ b.preview = {}
  BY DEF Begin, NoCall, Fields
<1>9. d = [b EXCEPT !.decoded = {decoded}, !.facts = facts, !.tip = tip,
                    !.settled = {i \in DOMAIN facts : Settled(facts[i])},
                    !.checks = NeedsChain(facts),
                    !.tips = NeedsTip(decoded.tx.lock, tip)]
  BY DEF PreviewBegun
<1> HIDE DEF b, d
<1>10. d.decoded = {decoded} /\ d.facts = facts /\ d.preview = {}
  BY <1>8, <1>9 DEF Fields
<1>11. CallPreview(place, d)
  BY <1>5, <1>7, <1>10 DEF CallPreview
<1>12. CallPreview(place', d)
  BY <1>11, PreviewStays
<1> QED BY <1>4, <1>12, PreviewCallStep DEF d

\* A server is asked about the coins.
LEMMA PreviewLearns ==
  ASSUME SendingIInv, PreviewIInv, BlocksStay, NEW p \in Calls, AskCoins(p)
  PROVE  PreviewIInv'
<1> DEFINE c == call[p]
           e == Asked(p)
           outpoints == (CHOOSE d \in c.decoded : TRUE).outpoints
<1>1. DOMAIN c = Fields
  BY DEF SendingIInv, CallsOK, CallOK
<1>2. PICK some \in {s \in SUBSET Open(c) : \A i \in s, j \in Open(c) : j <= i => j \in s} :
      \E said \in [some -> UNION {Answers(e, outpoints[i]) : i \in some}] :
      \E fault \in Faults(e) :
        /\ e \in down => some # Open(c)
        /\ \A i \in some : said[i] \in Answers(e, outpoints[i])
        /\ LET facts == [i \in DOMAIN c.facts |->
                  IF i \in some THEN Learn(c.facts[i], said[i]) ELSE c.facts[i]]
               told == [c EXCEPT !.facts = facts, !.settled = @ \cup some]
           IN  call' = [call EXCEPT ![p] =
                  IF some # Open(c)
                  THEN FailedAt(told, e, fault)
                  ELSE [told EXCEPT !.next = @ + 1, !.hit = @ \cup {e}]]
        /\ IF some # {} THEN AnsweredAfter(p, e)
           ELSE UNCHANGED <<relegated, since>>
  BY ZenonT(60) DEF AskCoins
<1>3. PICK said \in [some -> UNION {Answers(e, outpoints[i]) : i \in some}], fault \in Faults(e) :
        /\ \A i \in some : said[i] \in Answers(e, outpoints[i])
        /\ LET facts == [i \in DOMAIN c.facts |->
                  IF i \in some THEN Learn(c.facts[i], said[i]) ELSE c.facts[i]]
               told == [c EXCEPT !.facts = facts, !.settled = @ \cup some]
           IN  call' = [call EXCEPT ![p] =
                  IF some # Open(c)
                  THEN FailedAt(told, e, fault)
                  ELSE [told EXCEPT !.next = @ + 1, !.hit = @ \cup {e}]]
  BY <1>2, ZenonT(60)
<1> DEFINE facts == [i \in DOMAIN c.facts |->
                       IF i \in some THEN Learn(c.facts[i], said[i]) ELSE c.facts[i]]
           told == [c EXCEPT !.facts = facts, !.settled = @ \cup some]
           on == [told EXCEPT !.next = @ + 1, !.hit = @ \cup {e}]
           off == FailedAt(told, e, fault)
<1>4. some \subseteq DOMAIN c.facts /\ Open(c) # {} /\ DOMAIN facts = DOMAIN c.facts
  BY <1>2 DEF AskCoins, Open
<1>5. PICK x : /\ c.decoded = {x} /\ DecodedOK(x) /\ FactsOK(place, x, c.facts)
               /\ c.preview = {} \/ \E v : c.preview = {v} /\ PreviewOK(place, x, v)
  <2>1. CallPreview(place, c)
    BY DEF PreviewIInv
  <2>2. c.facts # << >>
    BY <1>4 DEF Open
  <2> QED BY <2>1, <2>2 DEF CallPreview
<1>6. outpoints = x.outpoints
  BY <1>5
<1> HIDE DEF outpoints, e
<1>7. FactsOK(place, x, facts)
  <2>1. ASSUME NEW i \in DOMAIN facts PROVE FactOK(place, facts[i], x.outpoints[i])
    <3>1. FactOK(place, c.facts[i], x.outpoints[i])
      BY <1>4, <1>5 DEF FactsOK
    <3>2. CASE i \in some
      <4>1. facts[i] = Learn(c.facts[i], said[i]) /\ said[i] \in Answers(e, x.outpoints[i])
        BY <1>3, <1>6, <3>2
      <4> QED BY <3>1, <4>1, Learned
    <3>3. CASE i \notin some
      BY <3>1, <3>3
    <3> QED BY <3>2, <3>3
  <2> QED BY <1>4, <1>5, <2>1 DEF FactsOK
<1>8. \/ call' = [call EXCEPT ![p] = off]
      \/ call' = [call EXCEPT ![p] = on]
  BY <1>3
<1> HIDE DEF facts, c
<1>9. /\ DOMAIN told = Fields /\ told.facts = facts
      /\ told.decoded = c.decoded /\ told.preview = c.preview
  BY <1>1 DEF Fields
<1> HIDE DEF told
<1>10. CallPreview(place, told)
  BY <1>5, <1>7, <1>9 DEF CallPreview
<1>11. /\ on.facts = told.facts /\ on.decoded = told.decoded /\ on.preview = told.preview
       /\ off.facts = told.facts /\ off.decoded = told.decoded /\ off.preview = told.preview
  BY <1>9 DEF FailedAt, Fields
<1> HIDE DEF on, off
<1>12. CallPreview(place', on) /\ CallPreview(place', off)
  BY <1>10, <1>11, PreviewStays
<1> QED BY <1>8, <1>12, PreviewCallStep

\* The preview is built and shown.
LEMMA PreviewShows ==
  ASSUME SendingIInv, PreviewIInv, BlocksStay, NEW p \in Calls, Shown(p)
  PROVE  PreviewIInv'
<1> DEFINE c == call[p]
           unchecked(i) == /\ c.checks
                           /\ (c.facts[i].prevout = {} \/ c.facts[i].listed)
                           /\ ~c.facts[i].unknown
           facts == [i \in DOMAIN c.facts |-> [c.facts[i] EXCEPT !.unchecked = unchecked(i)]]
           built == {BuildPreview(d, facts, c.tip, now) : d \in c.decoded}
           b == Done(c, "shown")
           d == [b EXCEPT !.facts = facts, !.preview = built]
<1>1. DOMAIN c = Fields
  BY DEF SendingIInv, CallsOK, CallOK
<1>2. call' = [call EXCEPT ![p] = d]
  BY Zenon DEF Shown
<1>3. CallPreview(place, c)
  BY DEF PreviewIInv
<1> HIDE DEF unchecked, c
<1>4. DOMAIN b = Fields /\ b.decoded = c.decoded
  BY <1>1 DEF Done, Fields
<1>5. DOMAIN facts = DOMAIN c.facts
  OBVIOUS
<1>6. ASSUME NEW x, FactsOK(place, x, c.facts) PROVE FactsOK(place, x, facts)
  <2>1. ASSUME NEW i \in DOMAIN facts PROVE FactOK(place, facts[i], x.outpoints[i])
    <3> DEFINE f == c.facts[i]
               g == [f EXCEPT !.unchecked = unchecked(i)]
    <3>1. FactOK(place, f, x.outpoints[i]) /\ facts[i] = g
      BY <1>6 DEF FactsOK
    <3> HIDE DEF f
    <3>2. DOMAIN g = FactFields /\ g.listed = f.listed /\ g.prevout = f.prevout /\ g.by = f.by
      BY <3>1 DEF FactOK, FactFields
    <3> HIDE DEF g
    <3> QED BY <3>1, <3>2 DEF FactOK
  <2> QED BY <1>5, <1>6, <2>1 DEF FactsOK
<1> HIDE DEF b, facts
<1>7. d.decoded = c.decoded /\ d.facts = facts /\ d.preview = built
  BY <1>4 DEF Fields
<1> HIDE DEF d
<1>8. CASE c.decoded = {} /\ c.facts = << >> /\ c.preview = {}
  <2>1. built = {} /\ facts = << >>
    BY <1>8 DEF facts
  <2>2. CallPreview(place', d)
    BY <1>7, <1>8, <2>1 DEF CallPreview
  <2> QED BY <1>2, <2>2, PreviewCallStep
<1>9. ASSUME NEW x, c.decoded = {x}, DecodedOK(x), FactsOK(place, x, c.facts)
      PROVE  PreviewIInv'
  <2>1. FactsOK(place, x, facts)
    BY <1>6, <1>9
  <2>2. PreviewOK(place, x, BuildPreview(x, facts, c.tip, now))
    BY <1>9, <2>1, BuiltIsReal
  <2>3. built = {BuildPreview(x, facts, c.tip, now)}
    BY <1>9
  <2> HIDE DEF built
  <2>4. CallPreview(place, d)
    BY <1>7, <1>9, <2>1, <2>2, <2>3 DEF CallPreview
  <2>5. CallPreview(place', d)
    BY <2>4, PreviewStays
  <2> QED BY <1>2, <2>5, PreviewCallStep
<1> QED BY <1>3, <1>8, <1>9 DEF CallPreview

\* A call of another kind begins, and knows nothing of coins.
LEMMA OthersBegin ==
  ASSUME SendingIInv, PreviewIInv, BlocksStay, NEW p \in Calls,
         StartBroadcast(p) \/ StartStatus(p) \/ StartSync(p)
  PROVE  PreviewIInv'
<1>1. ASSUME NEW d, d.decoded = {}, d.facts = << >>, d.preview = {},
             call' = [call EXCEPT ![p] = d]
      PROVE  PreviewIInv'
  <2>1. CallPreview(place', d)
    BY <1>1 DEF CallPreview
  <2> QED BY <1>1, <2>1, PreviewCallStep
<1>2. ASSUME NEW kind, NEW order
      PROVE  /\ DOMAIN Begin(p, kind, order) = Fields
             /\ Begin(p, kind, order).decoded = {} /\ Begin(p, kind, order).facts = << >>
             /\ Begin(p, kind, order).preview = {}
  BY DEF Begin, NoCall, Fields
<1>3. CASE StartBroadcast(p)
  <2> DEFINE b == Begin(p, "broadcast", SendEndpoints("broadcast"))
  <2>1. PICK t \in Txs : call' = [call EXCEPT ![p] = [b EXCEPT !.tx = {t}]]
    BY <1>3, Zenon DEF StartBroadcast
  <2>2. /\ DOMAIN b = Fields /\ b.decoded = {} /\ b.facts = << >> /\ b.preview = {}
    BY <1>2
  <2> HIDE DEF b
  <2> DEFINE d == [b EXCEPT !.tx = {t}]
  <2>3. d.decoded = {} /\ d.facts = << >> /\ d.preview = {}
    BY <2>2 DEF Fields
  <2> HIDE DEF d
  <2> QED BY <1>1, <2>1, <2>3 DEF d
<1>4. CASE StartStatus(p)
  <2> DEFINE b == Begin(p, "status", SendEndpoints("broadcast"))
  <2>1. call' = [call EXCEPT ![p] = b]
    BY <1>4, Zenon DEF StartStatus
  <2>2. b.decoded = {} /\ b.facts = << >> /\ b.preview = {}
    BY <1>2
  <2> HIDE DEF b
  <2> QED BY <1>1, <2>1, <2>2
<1>5. CASE StartSync(p)
  <2>1. \E first : call' = [call EXCEPT ![p] =
                     [Begin(p, "sync", SyncEndpoints(first)) EXCEPT !.watch = first]]
    BY <1>5, Zenon DEF StartSync
  <2>2. PICK first : call' = [call EXCEPT ![p] =
                     [Begin(p, "sync", SyncEndpoints(first)) EXCEPT !.watch = first]]
    BY <2>1
  <2> DEFINE b == Begin(p, "sync", SyncEndpoints(first))
  <2>3. /\ DOMAIN b = Fields /\ b.decoded = {} /\ b.facts = << >> /\ b.preview = {}
    BY <1>2
  <2> HIDE DEF b
  <2> DEFINE d == [b EXCEPT !.watch = first]
  <2>4. d.decoded = {} /\ d.facts = << >> /\ d.preview = {}
    BY <2>3 DEF Fields
  <2>5. call' = [call EXCEPT ![p] = d]
    BY <2>2, Zenon DEF b
  <2> HIDE DEF d
  <2> QED BY <1>1, <2>4, <2>5
<1> QED BY <1>3, <1>4, <1>5

\* A call goes on without a word about coins.
LEMMA OthersGoOn ==
  ASSUME SendingIInv, PreviewIInv, BlocksStay, NEW p \in Calls,
         CoinsAsked(p) \/ AskTip(p) \/ Hand(p) \/ AskRead(p) \/ Fails(p)
  PROVE  PreviewIInv'
<1> DEFINE c == call[p]
           same(d) == /\ DOMAIN d = Fields /\ d.decoded = c.decoded
                      /\ d.facts = c.facts /\ d.preview = c.preview
<1>1. same(c)
  BY DEF SendingIInv, CallsOK, CallOK
<1>2. ASSUME NEW d, same(d), call' = [call EXCEPT ![p] = d] PROVE PreviewIInv'
  BY <1>2, PreviewKept
<1> HIDE DEF c
<1>3. \A d : same(d) => /\ \A e, fault : same(FailedAt(d, e, fault))
                        /\ \A r : same(Done(d, r))
                        /\ \A e : same([d EXCEPT !.hit = @ \cup {e}])
  BY DEF FailedAt, Done, Fields
<1>4. ASSUME NEW e, NEW r, NEW d, same(d) PROVE same(ToldBy(d, e, r))
  BY <1>3, <1>4, ZenonT(40) DEF ToldBy
<1>5. CASE CoinsAsked(p)
  <2> DEFINE d == [c EXCEPT !.at = "tip", !.next = 1]
  <2>1. call' = [call EXCEPT ![p] = d]
    BY <1>5 DEF CoinsAsked, c, SendingIInv, CallsOK
  <2>2. same(d)
    BY <1>1 DEF Fields
  <2> QED BY <1>2, <2>1, <2>2
<1>6. CASE AskTip(p)
  <2> DEFINE e == Asked(p)
             on == [c EXCEPT !.next = @ + 1]
             told == [c EXCEPT !.tip = {1}, !.tips = FALSE, !.hit = @ \cup {e}]
  <2>1. \/ call' = [call EXCEPT ![p].next = @ + 1]
        \/ call' = [call EXCEPT ![p].tip = {1}, ![p].tips = FALSE, ![p].hit = @ \cup {e}]
        \/ \E fault \in Faults(e) : call' = [call EXCEPT ![p] = FailedAt(c, e, fault)]
    BY <1>6, Zenon DEF AskTip, c
  <2> HIDE DEF e
  <2>2. \/ call' = [call EXCEPT ![p] = on]
        \/ call' = [call EXCEPT ![p] = told]
        \/ \E fault \in Faults(e) : call' = [call EXCEPT ![p] = FailedAt(c, e, fault)]
    BY <2>1 DEF c, SendingIInv, CallsOK
  <2>3. same(on) /\ same(told)
    BY <1>1 DEF Fields
  <2> HIDE DEF on, told, same
  <2> QED BY <1>1, <1>2, <1>3, <2>2, <2>3
<1>7. CASE Hand(p)
  <2>1. \/ \E e, fault : call' = [call EXCEPT ![p] = FailedAt(@, e, fault)]
        \/ \E e, r : call' = [call EXCEPT ![p] = ToldBy(@, e, r)]
    BY <1>7, ZenonT(60) DEF Hand, Sent, Unsent
  <2>2. \/ \E e, fault : call' = [call EXCEPT ![p] = FailedAt(c, e, fault)]
        \/ \E e, r : call' = [call EXCEPT ![p] = ToldBy(c, e, r)]
    BY <2>1 DEF c
  <2> HIDE DEF same
  <2> QED BY <1>1, <1>2, <1>3, <1>4, <2>2
<1>8. CASE AskRead(p)
  <2> DEFINE e == Asked(p)
             d == [c EXCEPT !.hit = @ \cup {e}]
  <2>1. \/ \E fault \in Faults(e) : call' = [call EXCEPT ![p] = FailedAt(d, e, fault)]
        \/ \E r : call' = [call EXCEPT ![p] = Done(d, r)]
    BY <1>8, Zenon DEF AskRead, c
  <2>2. same(d)
    BY <1>1, <1>3
  <2> HIDE DEF d, e, same
  <2> QED BY <1>2, <1>3, <2>1, <2>2
<1>9. CASE Fails(p)
  <2>1. call' = [call EXCEPT ![p] = Done(c, "failed")]
    BY <1>9 DEF Fails, c
  <2> HIDE DEF same
  <2> QED BY <1>1, <1>2, <1>3, <2>1
<1> QED BY <1>5, <1>6, <1>7, <1>8, <1>9

\* Every step leaves what the calls hold of coins so.
LEMMA PreviewInductive ==
  ASSUME SendingIInv, PreviewIInv, [Next]_vars
  PROVE  PreviewIInv'
<1>1. BlocksStay
  BY BlocksStayAlways
<1>2. ASSUME UNCHANGED call PROVE PreviewIInv'
  <2>1. ASSUME NEW q \in Calls PROVE CallPreview(place', call'[q])
    <3>1. CallPreview(place, call[q])
      BY DEF PreviewIInv
    <3> QED BY <1>1, <1>2, <3>1, PreviewStays
  <2> QED BY <2>1 DEF PreviewIInv
<1>3. ASSUME NEW t \in Txs, Arrives(t) \/ Mined(t) \/ ForgetBroadcast(t) PROVE PreviewIInv'
  BY <1>2, <1>3 DEF Arrives, Mined, ForgetBroadcast
<1>4. ASSUME NEW e, Flips(e) PROVE PreviewIInv'
  BY <1>2, <1>4 DEF Flips
<1>5. CASE WatchMoves \/ Tick \/ UNCHANGED vars
  BY <1>2, <1>5 DEF WatchMoves, Tick, vars
<1>6. CASE Restart
  <2>1. \A q \in Calls : call'[q] = NoCall
    BY <1>6 DEF Restart
  <2>2. CallPreview(place', NoCall)
    BY DEF CallPreview, NoCall
  <2> QED BY <2>1, <2>2 DEF PreviewIInv
<1>7. ASSUME NEW p \in Calls,
             \/ StartPreview(p) \/ AskCoins(p) \/ CoinsAsked(p) \/ AskTip(p) \/ Shown(p)
             \/ StartBroadcast(p) \/ Hand(p) \/ StartStatus(p) \/ StartSync(p) \/ AskRead(p)
             \/ Fails(p)
      PROVE  PreviewIInv'
  BY <1>1, <1>7, PreviewBegins, PreviewLearns, PreviewShows, OthersBegin, OthersGoOn
<1> QED BY <1>3, <1>4, <1>5, <1>6, <1>7, Zenon DEF Next

\* It holds at first.
LEMMA PreviewInitial == Init => PreviewIInv
<1> SUFFICES ASSUME Init PROVE PreviewIInv
  OBVIOUS
<1>1. \A q \in Calls : call[q] = NoCall
  BY DEF Init
<1>2. CallPreview(place, NoCall)
  BY DEF CallPreview, NoCall
<1> QED BY <1>1, <1>2 DEF PreviewIInv

\* It says what the property says.
LEMMA PreviewImplies == PreviewIInv => PreviewInv
<1> SUFFICES ASSUME PreviewIInv PROVE PreviewInv
  OBVIOUS
<1>1. ASSUME NEW p \in Calls, call[p].preview # {}
      PROVE  PreviewOK(place, Decoded(p), PreviewOf(p))
  <2>1. CallPreview(place, call[p])
    BY DEF PreviewIInv
  <2>2. PICK d, v : call[p].decoded = {d} /\ call[p].preview = {v} /\ PreviewOK(place, d, v)
    BY <1>1, <2>1 DEF CallPreview
  <2>3. Decoded(p) = d /\ PreviewOf(p) = v
    BY <2>2 DEF Decoded, PreviewOf
  <2> QED BY <2>2, <2>3
<1>2. \A p : Really(p) = Brought(TrueCoins(Decoded(p)))
  BY DEF Really, TrueCoins
<1>3. FeeIsReal
  BY <1>1, <1>2 DEF FeeIsReal, PreviewOK
<1>4. BlockedIsRefused
  <2> SUFFICES ASSUME NEW p \in Calls, call[p].preview # {}, PreviewOf(p).readiness = "refused"
               PROVE  \/ OutputsImpossible(Decoded(p).tx)
                      \/ Paid(Decoded(p).tx) > Really(p)
                      \/ \E i \in DOMAIN Decoded(p).outpoints :
                           \E t \in Spenders(Decoded(p).outpoints[i]) : place[t] = "block"
    BY DEF BlockedIsRefused
  <2>1. \A o : \A t \in Txs : (o \in SpendsOf[t] /\ place[t] = "block") => t \in Spenders(o)
    BY DEF Spenders
  <2> QED BY <1>1, <1>2, <2>1 DEF PreviewOK
<1> QED BY <1>3, <1>4 DEF PreviewInv

\* A fee shown as more than a file's or a listing's word is the fee that is
\* paid, and a preview refuses only what the network would (preview_transaction),
\* for every transaction, vault, file and order of servers.
THEOREM PreviewHolds == Spec => []PreviewInv
<1>1. SendingIInv /\ PreviewIInv /\ [Next]_vars => PreviewIInv'
  BY PreviewInductive
<1> QED BY <1>1, SendingInductive, PreviewInitial, PreviewImplies, PTL DEF Spec
=============================================================================
