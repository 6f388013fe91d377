--------------------------- MODULE NetworkProofs ----------------------------
(***************************************************************************)
(* Proofs about Onion, Requests, Dial and Servers: the client the next     *)
(* stream to an onion service starts on, whose answer a batch hands over,  *)
(* a connection abandoned while it opens, how long silent addresses hold   *)
(* the others back, and who is reached over which road, for any streams,   *)
(* servers, windows, addresses and certificates.                           *)
(***************************************************************************)
EXTENDS Onion, Requests, Dial, Servers, Naturals, Sequences, FiniteSetTheorems,
        WellFoundedInduction, TLAPS

-----------------------------------------------------------------------------
(* Streams to an onion service.                                            *)

OnionSpec == OnionInit /\ [][OnionNext]_onionVars

Clients == 0..made
StreamStates ==
    [at : {"idle", "starting", "proxied", "first", "both", "settling"}, first : Clients,
     second : SUBSET Clients, failed : SUBSET Clients, used : SUBSET Clients]

\* Every client a stream or the route knows was made.
OnionTypeOK ==
    /\ made \in Nat
    /\ streams \in [Streams -> StreamStates]
    /\ route \in [current : Clients, next : SUBSET Clients, untried : BOOLEAN]
    /\ waited \subseteq Clients

OnionIInv == OnionTypeOK /\ HungIsLeft

\* A client made is not one that was.
LEMMA MadeMore ==
    ASSUME OnionTypeOK, made' \in Nat, made <= made'
    PROVE  /\ Clients \subseteq Clients' /\ StreamStates \subseteq StreamStates'
           /\ streams \in [Streams -> StreamStates']
<1>1. Clients \subseteq Clients'
    BY DEF OnionTypeOK, Clients
<1>2. StreamStates \subseteq StreamStates'
    BY <1>1 DEF StreamStates
<1> QED BY <1>1, <1>2 DEF OnionTypeOK

\* What a step makes of one stream.
LEMMA StreamSet ==
    ASSUME OnionTypeOK, NEW s \in Streams, NEW t \in StreamStates, made' = made,
           streams' = [streams EXCEPT ![s] = t], UNCHANGED <<route, waited>>
    PROVE  OnionTypeOK'
    BY DEF OnionTypeOK, StreamStates, Clients

\* Routes::settle leaves no stream on a client that hung: it is another
\* client than the one a stream waited on, or one it connected through.
LEMMA OnionStep ==
    ASSUME OnionIInv, [OnionNext]_onionVars
    PROVE  OnionIInv'
<1>1. /\ made \in Nat /\ streams \in [Streams -> StreamStates] /\ waited \subseteq Clients
      /\ route \in [current : Clients, next : SUBSET Clients, untried : BOOLEAN]
      /\ route.current \in Clients /\ route.next \subseteq Clients
      /\ route.current \notin waited /\ OnionTypeOK
    BY DEF OnionIInv, OnionTypeOK, HungIsLeft
<1>2. /\ \A s \in Streams : streams[s] \in StreamStates
      /\ 0 \in Clients /\ made \in Clients
    BY <1>1 DEF Clients
<1>3. Quiet \in StreamStates /\ [Quiet EXCEPT !.at = "first", !.first = route.current] \in StreamStates
    BY <1>1, <1>2 DEF Quiet, StreamStates
<1>4. ASSUME NEW s \in Streams, NEW t \in StreamStates, streams' = [streams EXCEPT ![s] = t],
             UNCHANGED <<route, made, waited>>
      PROVE  OnionIInv'
    BY <1>1, <1>4, StreamSet DEF OnionIInv, HungIsLeft
<1>5. ASSUME NEW s \in Streams, NEW at \in {"idle", "starting", "proxied", "first", "both", "settling"},
             streams' = [streams EXCEPT ![s].at = at], UNCHANGED <<route, made, waited>>
      PROVE  OnionIInv'
    <2>1. [streams[s] EXCEPT !.at = at] \in StreamStates
        BY <1>2 DEF StreamStates
    <2>2. streams' = [streams EXCEPT ![s] = [streams[s] EXCEPT !.at = at]]
        BY <1>5
    <2> QED BY <1>4, <1>5, <2>1, <2>2
<1>6. ASSUME UNCHANGED <<streams, route, made, waited>> PROVE OnionIInv'
    BY <1>6 DEF OnionIInv, OnionTypeOK, HungIsLeft, StreamStates, Clients
<1>7. CASE UNCHANGED onionVars
    BY <1>6, <1>7 DEF onionVars
<1>8. ASSUME NEW s \in Streams, NEW mode \in Modes, NEW probed \in BOOLEAN,
             Resolve(s, mode, probed) \/ ResolveRunning(s, mode, probed)
      PROVE  OnionIInv'
    BY <1>5, <1>8 DEF Resolve, ResolveRunning
<1>9. ASSUME NEW s \in Streams, StartEmbedded(s) PROVE OnionIInv'
    BY <1>6, <1>9 DEF StartEmbedded
<1>10. ASSUME NEW s \in Streams, NEW reached \in BOOLEAN, Bootstrap(s, reached) PROVE OnionIInv'
    BY <1>3, <1>4, <1>6, <1>10 DEF Bootstrap
<1>11. ASSUME NEW s \in Streams, DropStart(s) \/ EndsAlone(s) PROVE OnionIInv'
    BY <1>3, <1>4, <1>11 DEF DropStart, EndsAlone
<1>12. ASSUME NEW s \in Streams, Access(s) PROVE OnionIInv'
    BY <1>5, <1>12 DEF Access
<1>13. ASSUME NEW s \in Streams, NEW session \in Sessions, OpenSession(s, session) PROVE OnionIInv'
    BY <1>3, <1>4, <1>13 DEF OpenSession
<1>14. ASSUME NEW s \in Streams, NEW client \in 0..MaxClients, StreamFails(s, client) PROVE OnionIInv'
    <2>1. client \in Clients
        BY <1>2, <1>14 DEF StreamFails, StreamStates
    <2>2. [streams[s] EXCEPT !.failed = @ \cup {client}] \in StreamStates
        BY <1>2, <2>1 DEF StreamStates
    <2>3. streams' = [streams EXCEPT ![s] = [streams[s] EXCEPT !.failed = @ \cup {client}]]
        BY <1>14 DEF StreamFails
    <2> QED BY <1>4, <1>14, <2>2, <2>3 DEF StreamFails
<1>15. ASSUME NEW s \in Streams, NEW client \in 0..MaxClients, Connects(s, client) PROVE OnionIInv'
    <2>1. client \in Clients
        BY <1>2, <1>15 DEF Connects, StreamStates
    <2>2. [streams[s] EXCEPT !.at = "settling", !.used = {client}, !.failed = {}] \in StreamStates
        BY <1>2, <2>1 DEF StreamStates
    <2>3. streams' = [streams EXCEPT ![s] = [streams[s] EXCEPT !.at = "settling", !.used = {client}, !.failed = {}]]
        BY <1>1, <1>15 DEF Connects
    <2> QED BY <1>4, <1>15, <2>2, <2>3 DEF Connects
<1>16. ASSUME NEW s \in Streams, GivesUp(s) PROVE OnionIInv'
    <2>1. [streams[s] EXCEPT !.at = "settling", !.failed = {}] \in StreamStates
        BY <1>2 DEF StreamStates
    <2>2. streams' = [streams EXCEPT ![s] = [streams[s] EXCEPT !.at = "settling", !.failed = {}]]
        BY <1>1, <1>16 DEF GivesUp
    <2> QED BY <1>4, <1>16, <2>1, <2>2 DEF GivesUp
<1>17. ASSUME NEW s \in Streams, Second(s) PROVE OnionIInv'
    <2> DEFINE fresh == route.current = streams[s].first /\ route.next = {}
               client == IF route.current # streams[s].first THEN {route.current}
                         ELSE IF fresh THEN {made + 1} ELSE route.next
    <2>1. /\ made' = IF fresh THEN made + 1 ELSE made
          /\ route' = IF route.current = streams[s].first THEN [route EXCEPT !.next = client] ELSE route
          /\ streams' = [streams EXCEPT ![s].at = "both", ![s].second = client]
          /\ waited' = waited
        BY <1>17 DEF Second
    <2>2. made' \in Nat /\ made <= made' /\ client \subseteq Clients'
        BY <1>1, <2>1 DEF Clients
    <2>3. Clients \subseteq Clients' /\ StreamStates \subseteq StreamStates' /\ streams \in [Streams -> StreamStates']
        BY <1>1, <2>2, MadeMore
    <2> HIDE DEF client, fresh
    <2>4. [streams[s] EXCEPT !.at = "both", !.second = client] \in StreamStates'
        BY <1>2, <2>2, <2>3 DEF StreamStates
    <2>5. streams' = [streams EXCEPT ![s] = [streams[s] EXCEPT !.at = "both", !.second = client]]
        BY <1>1, <2>1
    <2>6. streams' \in [Streams -> StreamStates']
        BY <2>3, <2>4, <2>5
    <2>7. /\ route' \in [current : Clients', next : SUBSET Clients', untried : BOOLEAN]
          /\ route'.current = route.current
        BY <1>1, <2>1, <2>2, <2>3
    <2> QED BY <1>1, <2>1, <2>2, <2>3, <2>6, <2>7 DEF OnionIInv, OnionTypeOK, HungIsLeft
<1>18. ASSUME NEW s \in Streams, Settles(s) PROVE OnionIInv'
    <2> DEFINE used == streams[s].used
               first == streams[s].first
               moves == MovesOn(route.current, first, route.untried, used)
               isolated == moves /\ used = {}
               next == IF used = {} THEN made + 1 ELSE CHOOSE c \in used : TRUE
    <2>1. /\ made' = IF isolated THEN made + 1 ELSE made
          /\ route' = IF moves THEN [current |-> next, next |-> {}, untried |-> used = {}] ELSE route
          /\ waited' = (waited \cup {first}) \ used
          /\ streams' = [streams EXCEPT ![s] = Quiet]
        BY <1>18 DEF Settles
    <2>2. used \subseteq Clients /\ first \in Clients
        BY <1>2 DEF StreamStates
    <2>3. ~moves => route.current # first
        BY DEF MovesOn
    <2> HIDE DEF used, first, moves, next
    <2>4. made' \in Nat /\ made <= made'
        BY <1>1, <2>1
    <2>5. Clients \subseteq Clients' /\ StreamStates \subseteq StreamStates' /\ streams \in [Streams -> StreamStates']
        BY <1>1, <2>4, MadeMore
    <2>6. streams' \in [Streams -> StreamStates'] /\ waited' \subseteq Clients'
        BY <1>3, <2>1, <2>2, <2>5, <1>1
    <2>7. CASE ~moves
        BY <1>1, <2>1, <2>3, <2>4, <2>5, <2>6, <2>7 DEF OnionIInv, OnionTypeOK, HungIsLeft
    <2>8. CASE moves
        <3>1. next \in Clients' /\ next \notin waited'
            <4>1. CASE used = {}
                BY <1>1, <2>1, <2>2, <2>8, <4>1 DEF next, Clients
            <4>2. CASE used # {}
                <5>1. next \in used
                    BY <4>2 DEF next
                <5> QED BY <5>1, <2>1, <2>2, <2>5
            <4> QED BY <4>1, <4>2
        <3>2. /\ route' \in [current : Clients', next : SUBSET Clients', untried : BOOLEAN]
              /\ route'.current = next
            BY <2>1, <2>8, <3>1
        <3> QED BY <2>4, <2>6, <3>1, <3>2 DEF OnionIInv, OnionTypeOK, HungIsLeft
    <2> QED BY <2>7, <2>8
<1> QED BY <1>7, <1>8, <1>9, <1>10, <1>11, <1>12, <1>13, <1>14, <1>15, <1>16, <1>17, <1>18 DEF OnionNext

\* No stream to an onion service starts on a client that hung for another
\* (Routes::first, second, settle), for any number of streams, whatever order
\* they end in.
THEOREM HungIsLeftHolds == OnionSpec => []HungIsLeft
<1>1. OnionInit => OnionIInv
    BY DEF OnionInit, OnionIInv, OnionTypeOK, HungIsLeft, Quiet, StreamStates, Clients
<1>2. OnionIInv /\ [OnionNext]_onionVars => OnionIInv'
    BY OnionStep
<1>3. OnionIInv => HungIsLeft
    BY DEF OnionIInv
<1> QED BY <1>1, <1>2, <1>3, PTL DEF OnionSpec
-----------------------------------------------------------------------------
(* Requests.  The parts of the module interleave here; no step of one      *)
(* changes what another keeps.                                             *)

RequestsNext == BatchNext \/ ThreadNext \/ GetNext
RequestsSpec == RequestsInit /\ [][RequestsNext]_requestVars

\* The fields of a batch that decide whose answer is handed over, and how
\* often.
BatchTypeOK ==
    batch \in [at : {"first", "again", "done", "outage", "refused"}, queue : {batch.queue},
               waiting : {batch.waiting}, nextId : Nat, busy : {batch.busy}, given : {batch.given},
               patient : {batch.patient}, pauses : {batch.pauses}, stray : {batch.stray},
               read : {batch.read}]

\* A request that waits is one the server read, and no two went out under
\* one id of the connection.
WireInv ==
    /\ batch.waiting \subseteq wire
    /\ \A p \in wire : p[1] \in Nat /\ p[1] < batch.nextId
    /\ \A p, q \in wire : p[1] = q[1] => p = q

ThreadTypeOK ==
    /\ thread \in [at : {"connecting", "holding", "held", "talking", "ended"},
                   pauses : {thread.pauses}, shut : BOOLEAN]
    /\ cancel \in [flag : BOOLEAN, held : BOOLEAN, abort : {"no", "flagged", "done"}]

\* A thread past hold's first step keeps its socket in the Cancel, and an
\* abort raised the flag first; one that talks after an abort is shut.
CancelInv ==
    /\ thread.at \in {"held", "talking"} => cancel.held
    /\ cancel.abort # "no" => cancel.flag
    /\ AbandonedIsShut

\* Each index of the parameters is in one place at a time: left to ask,
\* waiting under one id, refused and to be asked again, or handed over.
PlacesInv ==
    /\ batch.queue \cup batch.busy \subseteq Indices
    /\ batch.queue \cap batch.busy = {}
    /\ \A w \in batch.waiting : w[2] \in Indices \ (batch.queue \cup batch.busy)
    /\ \A v, w \in batch.waiting : v[2] = w[2] => v = w
    /\ \A g \in batch.given :
         /\ g.index \in Indices \ (batch.queue \cup batch.busy)
         /\ \A w \in batch.waiting : w[2] # g.index
    /\ \A i \in Indices : \/ i \in batch.queue \cup batch.busy
                          \/ \E w \in batch.waiting : w[2] = i
                          \/ \E g \in batch.given : g.index = i
    /\ batch.at = "again" => batch.busy = {}
    /\ batch.at = "done" => batch.queue = {} /\ batch.waiting = {} /\ batch.busy = {}

RequestsIInv ==
    BatchTypeOK /\ WireInv /\ OwnAnswers /\ PlacesInv /\ ThreadTypeOK /\ CancelInv

BatchInv == BatchTypeOK /\ WireInv /\ OwnAnswers

\* A batch step that asks nothing and hands over nothing.
LEMMA BatchAside ==
    ASSUME BatchInv, BatchTypeOK', UNCHANGED wire,
           batch'.waiting \subseteq batch.waiting, batch'.nextId = batch.nextId,
           batch'.given \subseteq batch.given
    PROVE  BatchInv'
    BY DEF BatchInv, WireInv, OwnAnswers

LEMMA BatchStep ==
    ASSUME BatchInv, BatchNext
    PROVE  BatchInv'
<1> USE DEF BatchTypeOK
<1>1. CASE SendRequest
    <2>0. PICK i \in batch.queue :
            /\ batch' = [batch EXCEPT !.queue = @ \ {i}, !.nextId = @ + 1,
                                      !.waiting = @ \cup {<<batch.nextId, i>>}]
            /\ wire' = wire \cup {<<batch.nextId, i>>}
        BY <1>1 DEF SendRequest
    <2> DEFINE p == <<batch.nextId, i>>
               rest == batch.queue \ {i}
               waits == batch.waiting \cup {p}
               next == batch.nextId + 1
    <2>1. /\ batch' = [batch EXCEPT !.queue = rest, !.nextId = next, !.waiting = waits]
          /\ wire' = wire \cup {p}
        BY <2>0
    <2>2. batch.nextId \in Nat /\ next \in Nat /\ p[1] = batch.nextId
        BY DEF BatchInv
    <2> HIDE DEF p, rest, waits, next
    <2>3. /\ batch'.nextId = batch.nextId + 1 /\ batch'.waiting = batch.waiting \cup {p}
          /\ batch'.given = batch.given /\ BatchTypeOK'
        <3>1. batch'.nextId = next /\ batch'.waiting = waits /\ batch'.given = batch.given
            BY <2>1, <2>2 DEF BatchInv
        <3>2. batch' \in [at : {"first", "again", "done", "outage", "refused"}, queue : {rest},
                          waiting : {waits}, nextId : Nat, busy : {batch.busy}, given : {batch.given},
                          patient : {batch.patient}, pauses : {batch.pauses},
                          stray : {batch.stray}, read : {batch.read}]
            BY <2>1, <2>2 DEF BatchInv
        <3>3. BatchTypeOK'
            BY <3>2
        <3> QED BY <3>1, <3>3 DEF waits, next
    <2>4. WireInv'
        <3>1. \A q \in wire : q[1] \in Nat /\ q[1] < batch.nextId
            BY DEF BatchInv, WireInv
        <3>2. \A q \in wire' : q[1] \in Nat /\ q[1] < batch'.nextId
            BY <2>1, <2>2, <2>3, <3>1
        <3>3. \A q \in wire : q[1] # p[1]
            BY <2>2, <3>1
        <3>4. \A q, r \in wire' : q[1] = r[1] => q = r
            BY <2>1, <3>3 DEF BatchInv, WireInv
        <3> QED BY <2>1, <2>3, <3>2, <3>4 DEF BatchInv, WireInv
    <2>5. OwnAnswers'
        BY <2>3 DEF BatchInv, OwnAnswers
    <2> QED BY <2>3, <2>4, <2>5 DEF BatchInv
<1>2. CASE SendFails
    <2>1. /\ BatchTypeOK' /\ UNCHANGED wire /\ batch'.waiting = batch.waiting
          /\ batch'.nextId = batch.nextId /\ batch'.given = batch.given
        BY <1>2 DEF SendFails, BatchInv
    <2> QED BY <2>1, BatchAside
<1>3. CASE ReceiveStray
    <2>1. /\ BatchTypeOK' /\ UNCHANGED wire /\ batch'.waiting = batch.waiting
          /\ batch'.nextId = batch.nextId /\ batch'.given = batch.given
        BY <1>3 DEF ReceiveStray, BatchInv
    <2> QED BY <2>1, BatchAside
<1>4. ASSUME NEW kind \in {"outage", "refused"}, ReceiveFails(kind) PROVE BatchInv'
    <2>1. /\ BatchTypeOK' /\ UNCHANGED wire /\ batch'.waiting = batch.waiting
          /\ batch'.nextId = batch.nextId /\ batch'.given = batch.given
        BY <1>4 DEF ReceiveFails, BatchInv
    <2> QED BY <2>1, BatchAside
<1>5. CASE RoundEnds
    <2>1. /\ BatchTypeOK' /\ UNCHANGED wire /\ batch'.waiting = batch.waiting
          /\ batch'.nextId = batch.nextId /\ batch'.given = batch.given
        <3>1. batch' = AskedAgain(batch) \/ batch' = [batch EXCEPT !.at = "done"]
            BY <1>5 DEF RoundEnds
        <3>2. CASE batch' = AskedAgain(batch)
            <4>1. PICK again :
                    batch' = [batch EXCEPT !.at = "again", !.pauses = @ - 1, !.busy = {}, !.stray = 0, !.queue = again]
                BY <3>2, Zenon DEF AskedAgain
            <4> QED BY <1>5, <4>1 DEF RoundEnds, BatchInv
        <3>3. CASE batch' = [batch EXCEPT !.at = "done"]
            BY <1>5, <3>3 DEF RoundEnds, BatchInv
        <3> QED BY <3>1, <3>2, <3>3
    <2> QED BY <2>1, BatchAside
<1>6. CASE NextBatch
    <2>1. /\ BatchTypeOK' /\ UNCHANGED wire /\ batch'.waiting = {}
          /\ batch'.nextId = batch.nextId /\ batch'.given = {}
        BY <1>6 DEF NextBatch, NoBatch, BatchInv
    <2> QED BY <2>1, BatchAside
<1>7. ASSUME NEW asked \in wire, NEW busy \in BOOLEAN, ReceiveAnswer(asked, busy) PROVE BatchInv'
    <2> DEFINE w == CHOOSE v \in batch.waiting : v[1] = asked[1]
               held == busy /\ batch.patient /\ batch.at = "first"
               told == [index |-> w[2], answerTo |-> asked[2]]
    <2>1. /\ w \in batch.waiting /\ w[1] = asked[1] /\ UNCHANGED wire
          /\ batch' = [batch EXCEPT !.waiting = @ \ {w}, !.stray = 0, !.read = @ + 1,
                                    !.busy = IF held THEN @ \cup {w[2]} ELSE @,
                                    !.given = IF held THEN @ ELSE @ \cup {told}]
        BY <1>7 DEF ReceiveAnswer
    <2>2. w = asked
        BY <2>1 DEF BatchInv, WireInv
    <2>3. told.answerTo = told.index
        BY <2>2
    <2> HIDE DEF w, held, told
    <2>4. /\ batch'.waiting \subseteq batch.waiting /\ batch'.nextId = batch.nextId
          /\ batch'.given \subseteq batch.given \cup {told} /\ BatchTypeOK'
        BY <2>1 DEF BatchInv
    <2> QED BY <2>1, <2>3, <2>4 DEF BatchInv, WireInv, OwnAnswers
<1> QED BY <1>1, <1>2, <1>3, <1>4, <1>5, <1>6, <1>7 DEF BatchNext

\* hold keeps the socket before it looks at the flag, abort raises the flag
\* before it looks for the socket: one of the two sees the other.
LEMMA ThreadStep ==
    ASSUME ThreadTypeOK, CancelInv, ThreadNext
    PROVE  ThreadTypeOK' /\ CancelInv'
<1> USE DEF ThreadTypeOK, CancelInv, AbandonedIsShut
<1>1. ASSUME NEW worked \in BOOLEAN, Connected(worked) PROVE ThreadTypeOK' /\ CancelInv'
    BY <1>1 DEF Connected
<1>2. CASE Hold
    <2>1. \/ /\ thread.at = "holding" /\ cancel' = [cancel EXCEPT !.held = TRUE]
             /\ thread' = [thread EXCEPT !.at = "held"]
          \/ /\ thread.at = "held" /\ cancel' = cancel
             /\ thread' = IF cancel.flag THEN [thread EXCEPT !.at = "ended", !.shut = TRUE]
                          ELSE [thread EXCEPT !.at = "talking"]
        BY <1>2 DEF Hold, HoldOrder
    <2> QED BY <2>1
<1>3. ASSUME NEW answer \in {"next", "busy", "end"}, Talk(answer) PROVE ThreadTypeOK' /\ CancelInv'
    BY <1>3 DEF Talk
<1>4. CASE AbortFlag
    BY <1>4 DEF AbortFlag
<1>5. CASE AbortSocket
    BY <1>5 DEF AbortSocket
<1> QED BY <1>1, <1>2, <1>3, <1>4, <1>5 DEF ThreadNext

\* Each step of a batch moves indices from one place to the next.
LEMMA PlacesStep ==
    ASSUME BatchInv, PlacesInv, BatchNext
    PROVE  PlacesInv'
<1> USE DEF BatchTypeOK
<1>1. CASE SendRequest
    <2>1. PICK i \in batch.queue :
            batch' = [batch EXCEPT !.queue = @ \ {i}, !.nextId = @ + 1,
                                   !.waiting = @ \cup {<<batch.nextId, i>>}]
        BY <1>1 DEF SendRequest
    <2> DEFINE p == <<batch.nextId, i>>
    <2>2. /\ batch'.queue = batch.queue \ {i} /\ batch'.waiting = batch.waiting \cup {p}
          /\ batch'.busy = batch.busy /\ batch'.given = batch.given /\ batch'.at = batch.at
          /\ p[2] = i /\ batch.at # "done"
        BY <1>1, <2>1 DEF BatchInv, SendRequest, Running
    <2> HIDE DEF p
    <2> QED BY <2>2 DEF PlacesInv
<1>2. ASSUME SendFails \/ ReceiveStray \/ \E kind \in {"outage", "refused"} : ReceiveFails(kind)
      PROVE  PlacesInv'
    <2>1. /\ batch'.queue = batch.queue /\ batch'.waiting = batch.waiting
          /\ batch'.busy = batch.busy /\ batch'.given = batch.given
          /\ batch'.at \in {batch.at, "outage", "refused"}
        BY <1>2 DEF BatchInv, SendFails, ReceiveStray, ReceiveFails
    <2> QED BY <2>1 DEF PlacesInv
<1>3. CASE RoundEnds
    <2>1. batch.queue = {} /\ batch.waiting = {} /\ (batch.at = "again" \/ batch.at = "first")
        BY <1>3 DEF RoundEnds, Running
    <2>2. CASE batch.at = "first" /\ batch.busy # {}
        <3>1. /\ batch'.queue = batch.busy /\ batch'.waiting = {} /\ batch'.busy = {}
              /\ batch'.given = batch.given /\ batch'.at = "again"
            BY <1>3, <2>1, <2>2 DEF RoundEnds, AskedAgain, BatchInv
        <3> QED BY <2>1, <3>1 DEF PlacesInv
    <2>3. CASE ~(batch.at = "first" /\ batch.busy # {})
        <3>1. /\ batch'.queue = {} /\ batch'.waiting = {} /\ batch'.busy = batch.busy
              /\ batch'.given = batch.given /\ batch'.at = "done"
            BY <1>3, <2>1, <2>3 DEF RoundEnds, BatchInv
        <3>2. batch.busy = {}
            BY <2>1, <2>3 DEF PlacesInv
        <3> QED BY <2>1, <3>1, <3>2 DEF PlacesInv
    <2> QED BY <2>2, <2>3
<1>4. CASE NextBatch
    <2>1. /\ batch'.queue = Indices /\ batch'.waiting = {} /\ batch'.busy = {}
          /\ batch'.given = {} /\ batch'.at = "first"
        BY <1>4 DEF NextBatch, NoBatch
    <2> QED BY <2>1 DEF PlacesInv
<1>5. ASSUME NEW asked \in wire, NEW busy \in BOOLEAN, ReceiveAnswer(asked, busy) PROVE PlacesInv'
    <2> DEFINE w == CHOOSE v \in batch.waiting : v[1] = asked[1]
               held == busy /\ batch.patient /\ batch.at = "first"
               told == [index |-> w[2], answerTo |-> asked[2]]
    <2>1. /\ w \in batch.waiting /\ told.index = w[2] /\ (held => batch.at = "first")
          /\ batch' = [batch EXCEPT !.waiting = @ \ {w}, !.stray = 0, !.read = @ + 1,
                                    !.busy = IF held THEN @ \cup {w[2]} ELSE @,
                                    !.given = IF held THEN @ ELSE @ \cup {told}]
          /\ batch.at # "done"
        BY <1>5 DEF ReceiveAnswer, Receiving, Running
    <2> HIDE DEF w, held, told
    <2>2. /\ batch'.queue = batch.queue /\ batch'.waiting = batch.waiting \ {w}
          /\ batch'.busy = IF held THEN batch.busy \cup {w[2]} ELSE batch.busy
          /\ batch'.given = IF held THEN batch.given ELSE batch.given \cup {told}
          /\ batch'.at = batch.at
        BY <2>1 DEF BatchInv
    <2>3. CASE held
        BY <2>1, <2>2, <2>3 DEF PlacesInv
    <2>4. CASE ~held
        BY <2>1, <2>2, <2>4 DEF PlacesInv
    <2> QED BY <2>3, <2>4
<1> QED BY <1>1, <1>2, <1>3, <1>4, <1>5 DEF BatchNext

LEMMA RequestsStep ==
    ASSUME RequestsIInv, [RequestsNext]_requestVars
    PROVE  RequestsIInv'
<1> USE DEF RequestsIInv
<1>1. ASSUME UNCHANGED batchVars PROVE BatchInv' /\ PlacesInv'
    BY <1>1 DEF batchVars, BatchInv, BatchTypeOK, WireInv, OwnAnswers, PlacesInv
<1>2. ASSUME UNCHANGED threadVars PROVE ThreadTypeOK' /\ CancelInv'
    BY <1>2 DEF threadVars, ThreadTypeOK, CancelInv, AbandonedIsShut
<1>3. CASE BatchNext
    <2>1. UNCHANGED threadVars
        BY <1>3 DEF BatchNext, SendRequest, SendFails, ReceiveStray, RoundEnds, NextBatch, ReceiveAnswer, ReceiveFails
    <2> QED BY <1>2, <1>3, <2>1, BatchStep, PlacesStep DEF BatchInv
<1>4. CASE ThreadNext
    <2>1. UNCHANGED batchVars
        BY <1>4 DEF ThreadNext, Connected, Hold, Talk, AbortFlag, AbortSocket
    <2> QED BY <1>1, <1>4, <2>1, ThreadStep DEF BatchInv
<1>5. CASE GetNext \/ UNCHANGED requestVars
    <2>1. UNCHANGED batchVars /\ UNCHANGED threadVars
        BY <1>5 DEF GetNext, GetFails, GetLimited, GetStatus, GetBody, TakeRateLimit, requestVars, batchVars, threadVars
    <2> QED BY <1>1, <1>2, <2>1 DEF BatchInv
<1> QED BY <1>3, <1>4, <1>5 DEF RequestsNext

\* A request on the wire, waiting or handed over keeps its id and its index
\* through retries and rounds, and an abort that returned left its mark on
\* the socket or on the flag (Connection::round, receive, Cancel): what both
\* theorems below rest on.
THEOREM RequestsInductive == RequestsSpec => []RequestsIInv
<1>1. RequestsInit => RequestsIInv
    <2> SUFFICES ASSUME RequestsInit PROVE RequestsIInv
        OBVIOUS
    <2>1. BatchTypeOK /\ WireInv /\ OwnAnswers
        BY DEF RequestsInit, NoBatch, BatchTypeOK, WireInv, OwnAnswers
    <2>2. ThreadTypeOK /\ CancelInv
        BY DEF RequestsInit, NoThread, NoCancel, ThreadTypeOK, CancelInv, AbandonedIsShut
    <2>3. PlacesInv
        BY DEF RequestsInit, NoBatch, PlacesInv
    <2> QED BY <2>1, <2>2, <2>3 DEF RequestsIInv
<1>2. RequestsIInv /\ [RequestsNext]_requestVars => RequestsIInv'
    BY RequestsStep
<1> QED BY <1>1, <1>2, PTL DEF RequestsSpec

\* A batch hands over the server's own answer to each of its parameters,
\* each once and all of them when it ends well, for any window, parameters
\* and waits (Connection::batch, round, receive); and a connection that was
\* abandoned ends, wherever the abort falls in its opening (Cancel::hold,
\* Cancel::abort).
THEOREM RequestsHold == RequestsSpec => []RequestsInv
<1>1. RequestsIInv => RequestsInv
    <2> SUFFICES ASSUME RequestsIInv PROVE HandedOnce
        BY DEF RequestsIInv, RequestsInv, CancelInv
    <2>1. \A g \in batch.given : /\ g.index \in Indices \ (batch.queue \cup batch.busy)
                                 /\ \A w \in batch.waiting : w[2] # g.index
        BY DEF RequestsIInv, PlacesInv
    <2>2. ASSUME batch.at = "done" PROVE {g.index : g \in batch.given} = Indices
        <3>1. \A i \in Indices : \E g \in batch.given : g.index = i
            BY <2>2 DEF RequestsIInv, PlacesInv
        <3> QED BY <2>1, <3>1
    <2> QED BY <2>1, <2>2 DEF HandedOnce
<1> QED BY <1>1, RequestsInductive, PTL

-----------------------------------------------------------------------------
(* The race of the addresses of a host.                                    *)

DialSpec == DialInit /\ [][DialNext]_dial

\* When attempt k + 1 starts at the latest.
Bound(k) == (k \div AT_ONCE) * STALL + (k % AT_ONCE) * STAGGER

Attempts == {NoAttempt} \cup {{t} : t \in Nat}

DialTypeOK ==
    /\ dial \in [order : Seq({4, 6}), flights : Seq(Attempts), now : Nat, next : Nat,
                 last : {"nowhere", "shortage", "refused"},
                 at : {"racing", "connected", "timed_out", "nowhere", "shortage", "refused"}]
    /\ Len(dial.flights) <= Len(dial.order)

\* Every attempt alive started in time, the next one is due in time.
InTime ==
    /\ \A i \in Alive(dial.flights) :
         /\ Started(dial.flights, i) <= dial.now
         /\ i <= MOST => Started(dial.flights, i) <= Bound(i - 1)
    /\ (Left > 0 /\ Len(dial.flights) < MOST) =>
         dial.now <= Bound(Len(dial.flights)) /\ dial.next <= Bound(Len(dial.flights))

Alternates ==
    Len(dial.order) >= 2 /\ Cardinality(Families(dial.order)) = 2 => dial.order[1] # dial.order[2]

Crowd ==
    /\ Cardinality(Waiting(dial.flights, dial.now)) <= AT_ONCE
    /\ Cardinality(Alive(dial.flights)) <= MOST
    /\ dial.at = "timed_out" => dial.now >= Timeout

DialIInv == DialTypeOK /\ InTime /\ Alternates /\ Crowd

\* Quotient and remainder, of the number of attempts by AT_ONCE.
LEMMA DivMod ==
  ASSUME NEW k \in Nat
  PROVE  /\ k \div AT_ONCE \in Nat /\ k % AT_ONCE \in 0..(AT_ONCE - 1)
         /\ k = AT_ONCE * (k \div AT_ONCE) + (k % AT_ONCE)
<1>1. k \div AT_ONCE \in Nat /\ k % AT_ONCE \in 0..(AT_ONCE - 1)
  BY DialAssumption
<1> DEFINE q == k \div AT_ONCE
           r == k % AT_ONCE
<1>2. k % AT_ONCE = k - AT_ONCE * (k \div AT_ONCE)
  BY DialAssumption
<1>3. AT_ONCE * q \in Nat
  BY <1>1, DialAssumption
<1> HIDE DEF q, r
<1>4. k = AT_ONCE * q + r
  BY <1>1, <1>2, <1>3 DEF q, r
<1> QED BY <1>1, <1>4 DEF q, r

\* Multiplication keeps the order.
LEMMA Multiples ==
  ASSUME NEW a \in Nat, NEW b \in Nat, NEW c \in Nat, a <= b
  PROVE  a * c \in Nat /\ b * c \in Nat /\ a * c <= b * c /\ (a < b => a * c + c <= b * c)
<1>1. (a + 1) * c = a * c + c
  OBVIOUS
<1>2. \A x, y \in Nat : x <= y => x * c <= y * c
  OBVIOUS
<1> QED BY <1>1, <1>2

\* The bound of an attempt, from the round it is in and its place there.
LEMMA BoundOf ==
  ASSUME NEW q \in Nat, NEW r \in Nat, r < AT_ONCE
  PROVE  /\ Bound(AT_ONCE * q + r) = q * STALL + r * STAGGER
         /\ AT_ONCE * q + r \in Nat
<1> DEFINE n == AT_ONCE * q + r
<1>1. n \in Nat /\ r \in 0..(AT_ONCE - 1)
  BY DialAssumption
<1>2. n \div AT_ONCE = q /\ n % AT_ONCE = r
  BY <1>1, DialAssumption
<1> QED BY <1>1, <1>2 DEF Bound

\* Every attempt has a round and a place in it.
LEMMA Parts ==
  ASSUME NEW k \in Nat
  PROVE  \E q, r \in Nat :
           /\ r < AT_ONCE /\ k = AT_ONCE * q + r /\ Bound(k) = q * STALL + r * STAGGER
           /\ AT_ONCE * q \in Nat /\ q * STALL \in Nat /\ r * STAGGER \in Nat
           /\ r * STAGGER + STAGGER <= STALL
<1> DEFINE q == k \div AT_ONCE
           r == k % AT_ONCE
<1>1. q \in Nat /\ r \in 0..(AT_ONCE - 1) /\ k = AT_ONCE * q + r
  BY DivMod
<1> HIDE DEF q, r
<1>2. r \in Nat /\ r < AT_ONCE
  BY <1>1, DialAssumption
<1>3. Bound(k) = q * STALL + r * STAGGER
  BY <1>1, <1>2, BoundOf
<1>4. AT_ONCE * q \in Nat /\ q * STALL \in Nat /\ r * STAGGER \in Nat /\ AT_ONCE * STAGGER \in Nat
  BY <1>1, <1>2, DialAssumption
<1>5. r * STAGGER + STAGGER <= AT_ONCE * STAGGER
  BY <1>2, Multiples, DialAssumption
<1>6. r * STAGGER + STAGGER <= STALL
  BY <1>4, <1>5, DialAssumption
<1> QED BY <1>1, <1>2, <1>3, <1>4, <1>6

\* Bounds grow with the attempts, by a stagger at least.
LEMMA BoundGrows ==
  ASSUME NEW j \in Nat, NEW k \in Nat, j <= k
  PROVE  Bound(j) \in Nat /\ Bound(k) \in Nat /\ Bound(j) <= Bound(k) /\ (j < k => Bound(j) + STAGGER <= Bound(k))
<1>1. PICK p, s \in Nat :
        /\ s < AT_ONCE /\ j = AT_ONCE * p + s /\ Bound(j) = p * STALL + s * STAGGER
        /\ AT_ONCE * p \in Nat /\ p * STALL \in Nat /\ s * STAGGER \in Nat
        /\ s * STAGGER + STAGGER <= STALL
  BY Parts
<1>2. PICK q, r \in Nat :
        /\ r < AT_ONCE /\ k = AT_ONCE * q + r /\ Bound(k) = q * STALL + r * STAGGER
        /\ AT_ONCE * q \in Nat /\ q * STALL \in Nat /\ r * STAGGER \in Nat
        /\ r * STAGGER + STAGGER <= STALL
  BY Parts
<1>3. p <= q
  <2> SUFFICES ASSUME q < p PROVE FALSE
    OBVIOUS
  <2>1. q * AT_ONCE + AT_ONCE <= p * AT_ONCE
    BY Multiples, DialAssumption
  <2>2. q * AT_ONCE = AT_ONCE * q /\ p * AT_ONCE = AT_ONCE * p
    BY DialAssumption
  <2> QED BY <1>1, <1>2, <2>1, <2>2, DialAssumption
<1>4. CASE p = q
  <2>1. s <= r /\ (j < k => s < r)
    BY <1>1, <1>2, <1>4
  <2>2. s * STAGGER <= r * STAGGER /\ (s < r => s * STAGGER + STAGGER <= r * STAGGER)
    BY <2>1, Multiples, DialAssumption
  <2> QED BY <1>1, <1>2, <1>4, <2>1, <2>2, DialAssumption
<1>5. CASE p < q
  <2>1. p * STALL + STALL <= q * STALL
    BY <1>5, Multiples, DialAssumption
  <2> QED BY <1>1, <1>2, <2>1, DialAssumption
<1> QED BY <1>3, <1>4, <1>5

\* An attempt AT_ONCE later may start a stall later.
LEMMA BoundStalls ==
  ASSUME NEW j \in Nat, NEW k \in Nat, j + AT_ONCE <= k
  PROVE  Bound(j) + STALL <= Bound(k)
<1>1. PICK p, s \in Nat :
        /\ s < AT_ONCE /\ j = AT_ONCE * p + s /\ Bound(j) = p * STALL + s * STAGGER
        /\ AT_ONCE * p \in Nat /\ p * STALL \in Nat /\ s * STAGGER \in Nat
  BY Parts
<1>2. AT_ONCE * (p + 1) = AT_ONCE * p + AT_ONCE /\ (p + 1) * STALL = p * STALL + STALL
  BY DialAssumption
<1>3. j + AT_ONCE = AT_ONCE * (p + 1) + s
  BY <1>1, <1>2, DialAssumption
<1>4. Bound(AT_ONCE * (p + 1) + s) = (p + 1) * STALL + s * STAGGER
  BY <1>1, BoundOf
<1>5. Bound(j + AT_ONCE) = Bound(j) + STALL
  BY <1>1, <1>2, <1>3, <1>4, DialAssumption
<1>6. Bound(j + AT_ONCE) <= Bound(k)
  BY BoundGrows, DialAssumption
<1> QED BY <1>5, <1>6

\* A set of numbers has a smallest.
LEMMA Smallest ==
  ASSUME NEW S, S \subseteq Nat, S # {}
  PROVE  \E m \in S : \A n \in S : m <= n
<1>1. PICK m \in S : \A n \in S : ~ (<<n, m>> \in OpToRel(<, Nat))
  BY WFMin, NatLessThanWellFounded
<1>2. \A a, b \in Nat : a < b => <<a, b>> \in OpToRel(<, Nat)
  BY DEF OpToRel
<1>3. m \in Nat /\ \A n \in S : n \in Nat /\ ~(n < m)
  BY <1>1, <1>2
<1> QED BY <1>3

\* The attempts alive and waiting are finitely many, each with its start.
LEMMA FlightsAre ==
  ASSUME NEW flights \in Seq(Attempts), NEW now \in Nat
  PROVE  /\ Alive(flights) \subseteq 1..Len(flights)
         /\ Waiting(flights, now) \subseteq Alive(flights)
         /\ IsFiniteSet(Alive(flights)) /\ IsFiniteSet(Waiting(flights, now))
         /\ Cardinality(Alive(flights)) \in Nat /\ Cardinality(Waiting(flights, now)) \in Nat
         /\ Cardinality(Alive(flights)) <= Len(flights)
         /\ \A i \in Alive(flights) : /\ Started(flights, i) \in Nat
                                      /\ flights[i] = {Started(flights, i)}
<1>1. /\ Alive(flights) \subseteq 1..Len(flights) /\ Len(flights) \in Nat
      /\ Waiting(flights, now) \subseteq Alive(flights)
  BY DEF Alive, Waiting
<1>2. IsFiniteSet(1..Len(flights)) /\ Cardinality(1..Len(flights)) = Len(flights)
  <2> DEFINE n == Len(flights)
  <2>1. 1 \in Int /\ n \in Int /\ n >= 0
    BY <1>1
  <2> HIDE DEF n
  <2>2. IsFiniteSet(1..n) /\ Cardinality(1..n) = IF 1 > n THEN 0 ELSE n - 1 + 1
    BY <2>1, FS_Interval
  <2>3. Cardinality(1..n) = n
    BY <2>1, <2>2
  <2> QED BY <2>2, <2>3 DEF n
<1>3. IsFiniteSet(Alive(flights)) /\ Cardinality(Alive(flights)) <= Len(flights)
  BY <1>1, <1>2, FS_Subset
<1>4. IsFiniteSet(Waiting(flights, now))
  BY <1>1, <1>3, FS_Subset
<1>5. ASSUME NEW i \in Alive(flights)
      PROVE  Started(flights, i) \in Nat /\ flights[i] = {Started(flights, i)}
  <2>1. PICK t \in Nat : flights[i] = {t}
    BY <1>1 DEF Alive, Attempts
  <2> QED BY <2>1 DEF Started
<1> QED BY <1>1, <1>3, <1>4, <1>5, FS_CardinalityType

\* When the next attempt may start: after next, and once the oldest of
\* AT_ONCE silent attempts stalled.
LEMMA OpeningIs ==
  ASSUME NEW flights \in Seq(Attempts), NEW now \in Nat, NEW next \in Nat,
         Cardinality(Waiting(flights, now)) <= AT_ONCE,
         Cardinality(Alive(flights)) < MOST
  PROVE  \E t \in Nat :
           /\ Opening(flights, now, next) = {t} /\ t >= next
           /\ \/ Cardinality(Waiting(flights, now)) < AT_ONCE /\ t = next
              \/ \E m \in Waiting(flights, now) :
                   /\ m - 1 + AT_ONCE <= Len(flights)
                   /\ t >= Started(flights, m) + STALL
                   /\ t \in {next, Started(flights, m) + STALL}
<1> DEFINE waiting == Waiting(flights, now)
           from(i) == {j \in waiting : j >= i}
           oldest == {i \in waiting : Cardinality(from(i)) = AT_ONCE}
           ends == {Started(flights, i) + STALL : i \in oldest}
<1>1. /\ waiting \subseteq 1..Len(flights) /\ IsFiniteSet(waiting)
      /\ Cardinality(waiting) \in Nat /\ Len(flights) \in Nat
      /\ \A i \in waiting : Started(flights, i) \in Nat
  <2>1. /\ Alive(flights) \subseteq 1..Len(flights) /\ waiting \subseteq Alive(flights)
        /\ IsFiniteSet(waiting) /\ Cardinality(waiting) \in Nat
        /\ \A i \in Alive(flights) : Started(flights, i) \in Nat
    BY FlightsAre, Zenon
  <2>2. Len(flights) \in Nat
    OBVIOUS
  <2> HIDE DEF waiting
  <2> QED BY <2>1, <2>2, Zenon
<1>2. \A i \in waiting : /\ IsFiniteSet(from(i)) /\ Cardinality(from(i)) <= Cardinality(waiting)
                         /\ Cardinality(from(i)) \in Nat
                         /\ Cardinality(from(i)) = Cardinality(waiting) => from(i) = waiting
  <2> SUFFICES ASSUME NEW i \in waiting
               PROVE  /\ IsFiniteSet(from(i)) /\ Cardinality(from(i)) <= Cardinality(waiting)
                      /\ Cardinality(from(i)) \in Nat
                      /\ Cardinality(from(i)) = Cardinality(waiting) => from(i) = waiting
    OBVIOUS
  <2>1. from(i) \in SUBSET waiting
    OBVIOUS
  <2> HIDE DEF from
  <2> QED BY <1>1, <2>1, FS_Subset, FS_CardinalityType
<1>3. Opening(flights, now, next) = {LaterOf({next} \cup ends)}
  <2>1. ~(Cardinality(Alive(flights)) >= MOST)
    BY FlightsAre, DialAssumption
  <2> QED BY <2>1 DEF Opening
<1>4. CASE Cardinality(waiting) < AT_ONCE
  <2>1. \A i \in waiting : Cardinality(from(i)) # AT_ONCE
    <3> HIDE DEF from, waiting
    <3> QED BY <1>1, <1>2, <1>4, DialAssumption
  <2>2. {next} \cup ends = {next}
    BY <2>1
  <2>3. LaterOf({next}) = next
    BY DEF LaterOf
  <2>4. LaterOf({next} \cup ends) = next
    <3> HIDE DEF ends
    <3> QED BY <2>2, <2>3
  <2> HIDE DEF ends
  <2>5. Opening(flights, now, next) = {next} /\ next >= next
    BY <1>3, <2>4
  <2> QED BY <1>4, <2>5, Zenon
<1>5. CASE Cardinality(waiting) = AT_ONCE
  <2>1. waiting # {}
    BY <1>5, FS_EmptySet, DialAssumption
  <2>2. PICK m \in waiting : \A n \in waiting : m <= n
    <3>1. waiting \subseteq Nat
      BY <1>1
    <3> HIDE DEF waiting
    <3> QED BY <2>1, <3>1, Smallest
  <2>3. from(m) = waiting
    BY <1>1, <2>2
  <2>4. oldest = {m}
    <3>1. m \in oldest
      BY <1>5, <2>3
    <3>2. ASSUME NEW i \in oldest PROVE i = m
      <4>1. from(i) = waiting /\ i \in waiting
        BY <1>2, <1>5, <3>2
      <4>2. m >= i
        BY <4>1, <2>2
      <4> QED BY <1>1, <2>2, <4>1, <4>2
    <3> QED BY <3>1, <3>2
  <2> DEFINE end == Started(flights, m) + STALL
             t == LaterOf({next} \cup ends)
  <2>5. ends = {end} /\ end \in Nat
    <3>1. end \in Nat
      BY <1>1, DialAssumption
    <3> HIDE DEF oldest
    <3> QED BY <2>4, <3>1
  <2>6. t \in {next, end} /\ t >= next /\ t >= end
    <3>1. \E u \in {next, end} : \A v \in {next, end} : v <= u
      BY <2>5
    <3>2. t = CHOOSE u \in {next, end} : \A v \in {next, end} : v <= u
      BY <2>5 DEF LaterOf
    <3> HIDE DEF t, end
    <3> QED BY <2>5, <3>1, <3>2
  <2>7. m - 1 + AT_ONCE <= Len(flights)
    <3>1. waiting \in SUBSET (m..Len(flights)) /\ m \in Nat /\ m <= Len(flights)
      BY <1>1, <2>2
    <3>2. IsFiniteSet(m..Len(flights)) /\ Cardinality(m..Len(flights)) = Len(flights) - m + 1
      BY <1>1, <3>1, FS_Interval
    <3>3. Cardinality(waiting) <= Len(flights) - m + 1
      BY <3>1, <3>2, FS_Subset
    <3> QED BY <1>1, <1>5, <3>1, <3>3, DialAssumption
  <2> HIDE DEF t, end
  <2>8. t \in Nat
    BY <2>5, <2>6
  <2> QED BY <1>3, <2>6, <2>7, <2>8 DEF t, end
<1>6. Cardinality(waiting) < AT_ONCE \/ Cardinality(waiting) = AT_ONCE
  BY <1>1, DialAssumption
<1> QED BY <1>4, <1>5, <1>6, Zenon

\* An attempt that may start has room beside those that wait.
LEMMA DueHasRoom ==
  ASSUME DialTypeOK, Crowd, Due
  PROVE  /\ Cardinality(Waiting(dial.flights, dial.now)) < AT_ONCE
         /\ Cardinality(Alive(dial.flights)) < MOST /\ Left > 0
<1> DEFINE flights == dial.flights
           now == dial.now
<1>1. flights \in Seq(Attempts) /\ now \in Nat /\ dial.next \in Nat
  BY DEF DialTypeOK
<1>2. /\ Cardinality(Alive(flights)) \in Nat /\ Cardinality(Waiting(flights, now)) \in Nat
      /\ Waiting(flights, now) \subseteq Alive(flights)
      /\ \A i \in Alive(flights) : Started(flights, i) \in Nat
  BY <1>1, FlightsAre
<1>3. Cardinality(Alive(flights)) < MOST /\ Left > 0
  BY <1>2, DialAssumption DEF Due, Opening
<1>4. PICK t \in Nat :
        /\ Opening(flights, now, dial.next) = {t}
        /\ \/ Cardinality(Waiting(flights, now)) < AT_ONCE /\ t = dial.next
           \/ \E m \in Waiting(flights, now) : t >= Started(flights, m) + STALL
  BY <1>1, <1>3, OpeningIs DEF Crowd
<1>5. t <= now
  BY <1>4 DEF Due
<1>6. ASSUME NEW m \in Waiting(flights, now), t >= Started(flights, m) + STALL PROVE FALSE
  <2>1. now < Started(flights, m) + STALL /\ Started(flights, m) \in Nat
    BY <1>2 DEF Waiting
  <2> QED BY <1>1, <1>5, <1>6, <2>1, DialAssumption
<1> QED BY <1>3, <1>4, <1>6

\* The clock only moves while the next attempt's latest start is ahead.
LEMMA NotDueIsEarly ==
  ASSUME DialTypeOK, InTime, Crowd, ~Due, Left > 0, Len(dial.flights) < MOST
  PROVE  dial.now < Bound(Len(dial.flights))
<1> DEFINE flights == dial.flights
           now == dial.now
           k == Len(dial.flights)
<1>1. flights \in Seq(Attempts) /\ now \in Nat /\ dial.next \in Nat /\ k \in Nat
  BY DEF DialTypeOK
<1>2. /\ Cardinality(Alive(flights)) \in Nat /\ Cardinality(Alive(flights)) <= k
      /\ Waiting(flights, now) \subseteq Alive(flights) /\ Alive(flights) \subseteq 1..k
      /\ \A i \in Alive(flights) : Started(flights, i) \in Nat
  BY <1>1, FlightsAre
<1>3. Cardinality(Alive(flights)) < MOST
  BY <1>1, <1>2, DialAssumption
<1>4. PICK t \in Nat :
        /\ Opening(flights, now, dial.next) = {t}
        /\ \/ t = dial.next
           \/ \E m \in Waiting(flights, now) :
                /\ m - 1 + AT_ONCE <= k
                /\ t \in {dial.next, Started(flights, m) + STALL}
  BY <1>1, <1>3, OpeningIs DEF Crowd
<1>5. now < t
  BY <1>1, <1>4 DEF Due
<1>6. dial.next <= Bound(k) /\ Bound(k) \in Nat
  BY <1>1, BoundGrows DEF InTime
<1>7. ASSUME NEW m \in Waiting(flights, now), m - 1 + AT_ONCE <= k
      PROVE  Started(flights, m) + STALL <= Bound(k)
  <2>1. m \in Alive(flights) /\ m \in 1..k /\ Started(flights, m) \in Nat
    BY <1>2
  <2>2. m - 1 \in Nat /\ m <= MOST
    BY <1>1, <2>1, DialAssumption
  <2>3. Started(flights, m) <= Bound(m - 1)
    BY <2>1, <2>2 DEF InTime
  <2>4. Bound(m - 1) + STALL <= Bound(k) /\ Bound(m - 1) \in Nat
    BY <1>1, <1>7, <2>2, BoundStalls, BoundGrows
  <2> QED BY <1>6, <2>1, <2>3, <2>4, DialAssumption
<1>8. t <= Bound(k)
  BY <1>4, <1>6, <1>7
<1> QED BY <1>1, <1>5, <1>6, <1>8

\* Attempts that end, and time that passes, leave no more of them waiting.
LEMMA Fewer ==
  ASSUME DialTypeOK, DialTypeOK', Crowd, dial'.now >= dial.now,
         Alive(dial'.flights) \subseteq Alive(dial.flights),
         \A i \in Alive(dial'.flights) : dial'.flights[i] = dial.flights[i]
  PROVE  /\ Cardinality(Waiting(dial'.flights, dial'.now)) <= AT_ONCE
         /\ Cardinality(Alive(dial'.flights)) <= MOST
         /\ \A i \in Alive(dial'.flights) :
              Started(dial'.flights, i) = Started(dial.flights, i)
<1> DEFINE waiting == Waiting(dial.flights, dial.now)
           alive == Alive(dial.flights)
           stillWaiting == Waiting(dial'.flights, dial'.now)
           stillAlive == Alive(dial'.flights)
<1>1. /\ dial.flights \in Seq(Attempts) /\ dial'.flights \in Seq(Attempts)
      /\ dial.now \in Nat /\ dial'.now \in Nat
  BY DEF DialTypeOK
<1>2. \A i \in stillAlive : Started(dial'.flights, i) = Started(dial.flights, i)
  BY DEF Started
<1>3. \A i \in alive : Started(dial.flights, i) \in Nat
  BY <1>1, FlightsAre
<1>4. stillWaiting \subseteq waiting
  BY <1>1, <1>2, <1>3, DialAssumption DEF Waiting
<1>5. /\ IsFiniteSet(waiting) /\ IsFiniteSet(alive)
      /\ Cardinality(waiting) \in Nat /\ Cardinality(alive) \in Nat
      /\ Cardinality(stillWaiting) \in Nat /\ Cardinality(stillAlive) \in Nat
  BY <1>1, FlightsAre
<1> HIDE DEF waiting, alive, stillWaiting, stillAlive
<1>6. Cardinality(stillWaiting) <= Cardinality(waiting) /\ Cardinality(stillAlive) <= Cardinality(alive)
  <2>1. stillAlive \subseteq alive
    BY DEF stillAlive, alive
  <2> QED BY <1>4, <1>5, <2>1, FS_Subset
<1>7. Cardinality(waiting) <= AT_ONCE /\ Cardinality(alive) <= MOST
  BY DEF Crowd, waiting, alive
<1>8. Cardinality(stillWaiting) <= AT_ONCE /\ Cardinality(stillAlive) <= MOST
  BY <1>5, <1>6, <1>7, DialAssumption
<1> QED BY <1>2, <1>8 DEF stillWaiting, stillAlive

\* An attempt started is one more.
LEMMA OneMore ==
  ASSUME NEW flights \in Seq(Attempts), NEW now \in Nat
  PROVE  LET k == Len(flights)
             more == Append(flights, {now})
         IN  /\ more \in Seq(Attempts) /\ Len(more) = k + 1
             /\ Alive(more) = Alive(flights) \cup {k + 1}
             /\ Started(more, k + 1) = now
             /\ \A i \in Alive(flights) : Started(more, i) = Started(flights, i)
             /\ Cardinality(Alive(more)) <= Cardinality(Alive(flights)) + 1
             /\ Cardinality(Waiting(more, now)) <= Cardinality(Waiting(flights, now)) + 1
<1> DEFINE k == Len(flights)
           more == Append(flights, {now})
<1>1. /\ more \in Seq(Attempts) /\ Len(more) = k + 1 /\ k \in Nat /\ more[k + 1] = {now}
      /\ \A i \in 1..k : more[i] = flights[i]
  <2>1. {now} \in Attempts
    BY DEF Attempts
  <2> QED BY <2>1
<1> HIDE DEF more
<1>2. DOMAIN more = 1..(k + 1) /\ DOMAIN flights = 1..k
  BY <1>1
<1>3. Alive(more) = Alive(flights) \cup {k + 1}
  <2>1. ASSUME NEW i \in 1..k PROVE i \in Alive(more) <=> i \in Alive(flights)
    BY <1>1, <1>2 DEF Alive
  <2>2. k + 1 \in Alive(more)
    BY <1>1, <1>2 DEF Alive, NoAttempt
  <2>3. Alive(more) \subseteq 1..(k + 1) /\ Alive(flights) \subseteq 1..k
    BY <1>2 DEF Alive
  <2> QED BY <1>1, <2>1, <2>2, <2>3
<1>4. Started(more, k + 1) = now
  BY <1>1 DEF Started
<1>5. \A i \in Alive(flights) : Started(more, i) = Started(flights, i)
  BY <1>1, <1>2 DEF Started, Alive
<1>6. Waiting(more, now) \subseteq Waiting(flights, now) \cup {k + 1}
  BY <1>3, <1>5 DEF Waiting
<1>7. \A S, T, x : IsFiniteSet(S) /\ T \subseteq S \cup {x} => Cardinality(T) <= Cardinality(S) + 1
  <2> SUFFICES ASSUME NEW S, NEW T, NEW x, IsFiniteSet(S), T \subseteq S \cup {x}
               PROVE  Cardinality(T) <= Cardinality(S) + 1
    OBVIOUS
  <2>1. IsFiniteSet(S \cup {x}) /\ Cardinality(S \cup {x}) <= Cardinality(S) + 1
    <3>1. Cardinality(S) \in Nat
      BY FS_CardinalityType
    <3>2. /\ IsFiniteSet(S \cup {x})
          /\ Cardinality(S \cup {x}) = IF x \in S THEN Cardinality(S) ELSE Cardinality(S) + 1
      BY FS_AddElement
    <3> QED BY <3>1, <3>2
  <2>2. Cardinality(T) <= Cardinality(S \cup {x}) /\ IsFiniteSet(T)
    BY <2>1, FS_Subset
  <2>3. Cardinality(T) \in Nat /\ Cardinality(S) \in Nat /\ Cardinality(S \cup {x}) \in Nat
    BY <2>1, <2>2, FS_CardinalityType
  <2> QED BY <2>1, <2>2, <2>3
<1>8. IsFiniteSet(Alive(flights)) /\ IsFiniteSet(Waiting(flights, now))
  BY FlightsAre
<1>9. Cardinality(Alive(more)) <= Cardinality(Alive(flights)) + 1
  BY <1>3, <1>7, <1>8
<1>10. Cardinality(Waiting(more, now)) <= Cardinality(Waiting(flights, now)) + 1
  BY <1>6, <1>7, <1>8
<1> QED BY <1>1, <1>3, <1>4, <1>5, <1>9, <1>10 DEF more

\* The resolver's families alternate from the first one's.
LEMMA OrderedAlternates ==
  ASSUME NEW addresses \in Seq({4, 6}), addresses # <<>>
  PROVE  LET order == Ordered(addresses)
         IN  /\ order \in Seq({4, 6}) /\ Len(order) = Len(addresses)
             /\ Len(order) >= 2 /\ Cardinality(Families(order)) = 2 => order[1] # order[2]
<1> DEFINE n == Len(addresses)
           lead == addresses[1]
           other == IF lead = 6 THEN 4 ELSE 6
           leading == {i \in DOMAIN addresses : addresses[i] = lead}
           ahead == Cardinality(leading)
           behind == n - ahead
           paired == IF ahead < behind THEN ahead ELSE behind
           at(i) == CASE i <= 2 * paired -> IF i % 2 = 1 THEN lead ELSE other
                      [] OTHER -> IF ahead > paired THEN lead ELSE other
           order == [i \in DOMAIN addresses |-> at(i)]
<1>1. n \in Nat /\ n >= 1 /\ DOMAIN addresses = 1..n /\ lead \in {4, 6}
  OBVIOUS
<1>2. ahead \in Nat /\ ahead >= 1 /\ ahead <= n
  <2>1. IsFiniteSet(1..n) /\ Cardinality(1..n) = n
    <3> HIDE DEF n
    <3> QED BY <1>1, FS_Interval
  <2>2. leading \in SUBSET (1..n) /\ 1 \in leading
    BY <1>1
  <2> HIDE DEF leading, n
  <2>3. IsFiniteSet(leading) /\ Cardinality(leading) <= n
    BY <2>1, <2>2, FS_Subset
  <2>4. Cardinality(leading) \in Nat /\ Cardinality(leading) # 0
    BY <2>2, <2>3, FS_CardinalityType, FS_EmptySet
  <2> QED BY <2>3, <2>4
<1>3. Ordered(addresses) = order
  BY DEF Ordered
<1> HIDE DEF n, lead, ahead
<1>4. other \in {4, 6} /\ other # lead
  BY <1>1
<1> HIDE DEF other
<1>5. paired \in Nat /\ (behind >= 1 => paired >= 1) /\ (behind < 1 => paired = 0) /\ ahead > 0
  BY <1>1, <1>2
<1> HIDE DEF paired
<1>6. \A i \in 1..n : at(i) \in {4, 6}
  BY <1>1, <1>4
<1>7. behind >= 1 => at(1) = lead /\ at(2) = other
  <2>1. 1 % 2 = 1 /\ 2 % 2 = 0
    OBVIOUS
  <2>2. behind >= 1 => 1 <= 2 * paired /\ 2 <= 2 * paired
    BY <1>5
  <2> QED BY <2>1, <2>2
<1>8. behind < 1 => \A i \in 1..n : at(i) = lead
  BY <1>1, <1>5
<1> HIDE DEF at
<1>9. order \in Seq({4, 6}) /\ Len(order) = n /\ DOMAIN order = 1..n
  BY <1>1, <1>6
<1>10. CASE behind >= 1
  <2>1. n >= 2 => order[1] # order[2]
    BY <1>1, <1>4, <1>7, <1>10
  <2> HIDE DEF order
  <2> QED BY <1>3, <1>9, <2>1 DEF n
<1>11. CASE behind < 1
  <2>1. Families(order) = {lead}
    BY <1>1, <1>8, <1>11 DEF Families
  <2>2. Cardinality({lead}) = 1
    BY FS_Singleton
  <2> HIDE DEF order
  <2>3. Cardinality(Families(order)) # 2
    BY <2>1, <2>2
  <2> QED BY <1>3, <1>9, <2>3 DEF n
<1> QED BY <1>1, <1>2, <1>10, <1>11

\* The race opens within its bounds.
LEMMA DialOpens == DialInit => DialIInv
<1> SUFFICES ASSUME DialInit PROVE DialIInv
  OBVIOUS
<1>1. PICK addresses \in Resolutions :
        dial = [order |-> IF addresses = <<>> THEN <<>> ELSE Ordered(addresses), flights |-> <<>>,
                now |-> 0, next |-> 0, last |-> "nowhere", at |-> "racing"]
  BY DEF DialInit
<1>2. addresses \in Seq({4, 6})
  BY DialAssumption
<1>3. dial.order \in Seq({4, 6}) /\ Alternates
  <2>1. CASE addresses = <<>>
    BY <1>1, <2>1 DEF Alternates
  <2>2. CASE addresses # <<>>
    <3>1. dial.order = Ordered(addresses)
      BY <1>1, <2>2
    <3> QED BY <1>2, <2>2, <3>1, OrderedAlternates DEF Alternates
  <2> QED BY <2>1, <2>2
<1>4. dial.flights = <<>> /\ dial.now = 0 /\ dial.next = 0 /\ dial.last = "nowhere" /\ dial.at = "racing"
  BY <1>1
<1>5. DialTypeOK
  <2>1. dial.flights \in Seq(Attempts) /\ Len(dial.flights) = 0 /\ Len(dial.order) \in Nat
    BY <1>3, <1>4
  <2> QED BY <1>1, <1>3, <2>1 DEF DialTypeOK
<1>6. Alive(dial.flights) = {} /\ Waiting(dial.flights, dial.now) = {}
  BY <1>4 DEF Alive, Waiting
<1>7. InTime
  <2>1. Len(dial.flights) = 0 /\ Bound(0) \in Nat
    BY <1>4, BoundGrows
  <2> QED BY <1>4, <1>6, <2>1 DEF InTime
<1>8. Crowd
  <2>1. Cardinality({}) = 0
    BY FS_EmptySet
  <2>2. 0 <= AT_ONCE /\ 0 <= MOST
    BY DialAssumption
  <2> QED BY <1>4, <1>6, <2>1, <2>2 DEF Crowd
<1> QED BY <1>3, <1>5, <1>7, <1>8 DEF DialIInv

\* An address left is past the attempts made.
LEMMA OneIsLeft ==
  ASSUME DialTypeOK, Left > 0
  PROVE  Len(dial.flights) + 1 <= Len(dial.order)
<1>1. dial.order \in Seq({4, 6}) /\ dial.flights \in Seq(Attempts)
  BY DEF DialTypeOK
<1>2. Len(dial.order) \in Nat /\ Len(dial.flights) \in Nat
  BY <1>1
<1>3. Len(dial.order) - Len(dial.flights) > 0
  BY DEF Left
<1>4. \A a, b \in Nat : a - b > 0 => b + 1 <= a
  OBVIOUS
<1> QED BY <1>2, <1>3, <1>4

\* The next address is tried, in time.
LEMMA TriedInTime ==
  ASSUME DialIInv, StartAttempt(TRUE)
  PROVE  DialIInv'
<1> DEFINE k == Len(dial.flights)
           now == dial.now
<1>1. dial' = [dial EXCEPT !.flights = Append(@, {dial.now}), !.next = dial.now + STAGGER] /\ Due
  BY DEF StartAttempt
<1>2. DialTypeOK /\ InTime /\ Alternates /\ Crowd
  BY DEF DialIInv
<1>3. /\ Cardinality(Waiting(dial.flights, now)) < AT_ONCE
      /\ Cardinality(Alive(dial.flights)) < MOST /\ Left > 0
  BY <1>1, <1>2, DueHasRoom
<1>4. dial.flights \in Seq(Attempts) /\ now \in Nat /\ k \in Nat /\ Len(dial.order) \in Nat
  BY <1>2 DEF DialTypeOK
<1>5. /\ dial'.flights = Append(dial.flights, {now}) /\ dial'.next = now + STAGGER
      /\ dial'.now = now /\ dial'.order = dial.order /\ dial'.at = dial.at /\ dial'.last = dial.last
  BY <1>1, <1>2 DEF DialTypeOK
<1>6. /\ dial'.flights \in Seq(Attempts) /\ Len(dial'.flights) = k + 1
      /\ Alive(dial'.flights) = Alive(dial.flights) \cup {k + 1}
      /\ Started(dial'.flights, k + 1) = now
      /\ \A i \in Alive(dial.flights) : Started(dial'.flights, i) = Started(dial.flights, i)
      /\ Cardinality(Alive(dial'.flights)) <= Cardinality(Alive(dial.flights)) + 1
      /\ Cardinality(Waiting(dial'.flights, now)) <= Cardinality(Waiting(dial.flights, now)) + 1
  <2> DEFINE more == Append(dial.flights, {now})
  <2>1. /\ more \in Seq(Attempts) /\ Len(more) = k + 1
        /\ Alive(more) = Alive(dial.flights) \cup {k + 1}
        /\ Started(more, k + 1) = now
        /\ \A i \in Alive(dial.flights) : Started(more, i) = Started(dial.flights, i)
        /\ Cardinality(Alive(more)) <= Cardinality(Alive(dial.flights)) + 1
        /\ Cardinality(Waiting(more, now)) <= Cardinality(Waiting(dial.flights, now)) + 1
    BY <1>4, OneMore, Zenon
  <2>2. dial'.flights = more
    BY <1>5
  <2> HIDE DEF more
  <2> QED BY <2>1, <2>2
<1>7. DialTypeOK'
  <2>1. now + STAGGER \in Nat
    BY <1>4, DialAssumption
  <2>2. k + 1 <= Len(dial.order)
    BY <1>2, <1>3, OneIsLeft
  <2> QED BY <1>1, <1>2, <1>5, <1>6, <2>1, <2>2 DEF DialTypeOK
<1>8. InTime'
  <2>1. Bound(k) \in Nat /\ Bound(k + 1) \in Nat /\ Bound(k) + STAGGER <= Bound(k + 1)
    BY <1>4, BoundGrows, SMTT(30)
  <2>2. k < MOST => now <= Bound(k)
    BY <1>2, <1>3 DEF InTime
  <2>3. ASSUME NEW i \in Alive(dial'.flights)
        PROVE  /\ Started(dial'.flights, i) <= dial'.now
               /\ i <= MOST => Started(dial'.flights, i) <= Bound(i - 1)
    <3>1. CASE i = k + 1
      <4>1. i - 1 = k /\ (i <= MOST => k < MOST)
        BY <1>4, <3>1, DialAssumption
      <4> QED BY <1>4, <1>5, <1>6, <2>2, <3>1, <4>1
    <3>2. CASE i \in Alive(dial.flights)
      BY <1>2, <1>5, <1>6, <3>2 DEF InTime
    <3> QED BY <1>6, <2>3, <3>1, <3>2
  <2>4. k + 1 < MOST => now <= Bound(k + 1) /\ now + STAGGER <= Bound(k + 1)
    BY <1>4, <2>1, <2>2, DialAssumption
  <2> QED BY <1>5, <1>6, <2>3, <2>4 DEF InTime, Bound
<1>9. Alternates'
  BY <1>2, <1>5 DEF Alternates, Families
<1>10. Crowd'
  <2>1. /\ Cardinality(Alive(dial.flights)) \in Nat /\ Cardinality(Waiting(dial.flights, now)) \in Nat
        /\ Cardinality(Alive(dial'.flights)) \in Nat /\ Cardinality(Waiting(dial'.flights, now)) \in Nat
    BY <1>4, <1>6, FlightsAre
  <2>2. Cardinality(Alive(dial'.flights)) <= MOST /\ Cardinality(Waiting(dial'.flights, now)) <= AT_ONCE
    BY <1>3, <1>6, <2>1, DialAssumption
  <2>3. dial'.at = "timed_out" => dial'.now >= Timeout
    BY <1>2, <1>5 DEF Crowd
  <2> QED BY <1>5, <2>2, <2>3 DEF Crowd
<1> QED BY <1>7, <1>8, <1>9, <1>10 DEF DialIInv

\* A step that starts nothing keeps the attempts it leaves in time: the next
\* one is due by the bound of its number.
LEMMA StillInTime ==
  ASSUME DialIInv, DialTypeOK', dial'.order = dial.order,
         dial'.now >= dial.now,
         Len(dial'.flights) >= Len(dial.flights),
         Alive(dial'.flights) \subseteq Alive(dial.flights),
         \A i \in Alive(dial'.flights) : dial'.flights[i] = dial.flights[i],
         (Left' > 0 /\ Len(dial'.flights) < MOST) =>
            dial'.now <= Bound(Len(dial'.flights)) /\ dial'.next <= Bound(Len(dial'.flights)),
         dial'.at = "timed_out" => dial'.now >= Timeout
  PROVE  DialIInv'
<1>1. DialTypeOK /\ InTime /\ Alternates /\ Crowd
  BY DEF DialIInv
<1>2. /\ Cardinality(Waiting(dial'.flights, dial'.now)) <= AT_ONCE
      /\ Cardinality(Alive(dial'.flights)) <= MOST
      /\ \A i \in Alive(dial'.flights) : Started(dial'.flights, i) = Started(dial.flights, i)
  BY <1>1, Fewer
<1>3. \A i \in Alive(dial'.flights) : Started(dial'.flights, i) \in Nat
  <2>1. dial'.flights \in Seq(Attempts) /\ dial'.now \in Nat
    BY DEF DialTypeOK
  <2> QED BY <2>1, FlightsAre
<1>4. dial.now \in Nat /\ dial'.now \in Nat
  BY <1>1 DEF DialTypeOK
<1>5. ASSUME NEW i \in Alive(dial'.flights)
      PROVE  /\ Started(dial'.flights, i) <= dial'.now
             /\ i <= MOST => Started(dial'.flights, i) <= Bound(i - 1)
  <2>1. Started(dial'.flights, i) = Started(dial.flights, i) /\ i \in Alive(dial.flights)
    BY <1>2
  <2>2. Started(dial.flights, i) <= dial.now /\ (i <= MOST => Started(dial.flights, i) <= Bound(i - 1))
    BY <1>1, <2>1 DEF InTime
  <2>3. Started(dial'.flights, i) \in Nat
    BY <1>3
  <2> QED BY <1>4, <2>1, <2>2, <2>3
<1>6. InTime'
  BY <1>5 DEF InTime, Bound
<1>7. Alternates'
  BY <1>1 DEF Alternates, Families
<1>8. Crowd'
  BY <1>2 DEF Crowd
<1> QED BY <1>6, <1>7, <1>8 DEF DialIInv

\* Every step keeps the race within its bounds.
LEMMA DialStep == DialIInv /\ [DialNext]_dial => DialIInv'
<1> SUFFICES ASSUME DialIInv, [DialNext]_dial PROVE DialIInv'
  OBVIOUS
<1> DEFINE k == Len(dial.flights)
<1>1. DialTypeOK /\ InTime /\ Alternates /\ Crowd
  BY DEF DialIInv
<1>2. /\ dial.flights \in Seq(Attempts) /\ k \in Nat /\ Len(dial.order) \in Nat
      /\ dial.now \in Nat /\ dial.next \in Nat /\ DOMAIN dial.flights = 1..k
  BY <1>1 DEF DialTypeOK
<1>3. Bound(k) \in Nat /\ Bound(k + 1) \in Nat /\ Bound(k) <= Bound(k + 1)
  BY <1>2, BoundGrows, SMTT(30)
<1>4. (Left > 0 /\ k < MOST) => dial.now <= Bound(k) /\ dial.next <= Bound(k)
  BY <1>1 DEF InTime
<1>5. CASE StartAttempt(TRUE)
  BY <1>5, TriedInTime
<1>6. CASE StartAttempt(FALSE)
  <2>1. dial' = [dial EXCEPT !.flights = Append(@, NoAttempt), !.last = "shortage"] /\ Due
    BY <1>6 DEF StartAttempt
  <2>2. /\ dial'.flights = Append(dial.flights, NoAttempt) /\ dial'.next = dial.next
        /\ dial'.now = dial.now /\ dial'.order = dial.order /\ dial'.at = dial.at
    BY <1>1, <2>1 DEF DialTypeOK
  <2>3. /\ dial'.flights \in Seq(Attempts) /\ Len(dial'.flights) = k + 1
        /\ DOMAIN dial'.flights = 1..(k + 1) /\ dial'.flights[k + 1] = NoAttempt
        /\ \A i \in 1..k : dial'.flights[i] = dial.flights[i]
    <3>1. NoAttempt \in Attempts
      BY DEF Attempts
    <3> QED BY <1>2, <2>2, <3>1
  <2>4. Left > 0 /\ k + 1 <= Len(dial.order)
    BY <1>1, <2>1, OneIsLeft DEF Due
  <2>5. DialTypeOK'
    BY <1>1, <2>1, <2>2, <2>3, <2>4 DEF DialTypeOK
  <2>6. /\ Alive(dial'.flights) \subseteq Alive(dial.flights)
        /\ \A i \in Alive(dial'.flights) : dial'.flights[i] = dial.flights[i]
    <3>1. ASSUME NEW i \in Alive(dial'.flights) PROVE i \in 1..k
      <4>1. i \in 1..(k + 1) /\ i # k + 1
        BY <2>3, <3>1 DEF Alive
      <4> QED BY <1>2, <4>1
    <3> QED BY <1>2, <2>3, <3>1 DEF Alive
  <2>7. k + 1 < MOST => dial.now <= Bound(k + 1) /\ dial.next <= Bound(k + 1)
    BY <1>2, <1>3, <1>4, <2>4, DialAssumption
  <2>8. dial'.at = "timed_out" => dial'.now >= Timeout
    BY <1>1, <2>2 DEF Crowd
  <2>9. Len(dial'.flights) >= k /\ dial'.now >= dial.now
    BY <1>2, <2>2, <2>3
  <2> QED BY <2>2, <2>3, <2>5, <2>6, <2>7, <2>8, <2>9, StillInTime
<1>7. ASSUME NEW i \in DOMAIN dial.flights, NEW connected \in BOOLEAN, AttemptEnds(i, connected)
      PROVE  DialIInv'
  <2>1. /\ dial'.flights = [dial.flights EXCEPT ![i] = NoAttempt]
        /\ dial'.now = dial.now /\ dial'.order = dial.order
        /\ dial'.next \in {dial.next, dial.now} /\ dial'.at \in {dial.at, "connected"}
        /\ dial'.last \in {dial.last, "refused"}
        /\ dial' = [dial EXCEPT !.flights = dial'.flights, !.next = dial'.next,
                                !.at = dial'.at, !.last = dial'.last]
    <3>1. CASE connected
      BY <1>1, <1>7, <3>1 DEF AttemptEnds, DialTypeOK
    <3>2. CASE ~connected
      BY <1>1, <1>7, <3>2 DEF AttemptEnds, DialTypeOK
    <3> QED BY <3>1, <3>2
  <2>2. /\ dial'.flights \in Seq(Attempts) /\ Len(dial'.flights) = k
        /\ DOMAIN dial'.flights = 1..k /\ dial'.flights[i] = NoAttempt
        /\ \A j \in 1..k : j # i => dial'.flights[j] = dial.flights[j]
    <3>1. NoAttempt \in Attempts
      BY DEF Attempts
    <3> QED BY <1>2, <2>1, <3>1
  <2>3. DialTypeOK'
    BY <1>1, <1>2, <2>1, <2>2 DEF DialTypeOK
  <2>4. /\ Alive(dial'.flights) \subseteq Alive(dial.flights)
        /\ \A j \in Alive(dial'.flights) : dial'.flights[j] = dial.flights[j]
    BY <1>2, <2>2 DEF Alive
  <2>5. Left' = Left
    BY <2>1, <2>2 DEF Left
  <2>6. (Left' > 0 /\ k < MOST) => dial'.now <= Bound(k) /\ dial'.next <= Bound(k)
    BY <1>4, <2>1, <2>5
  <2>7. dial'.at = "timed_out" => dial'.now >= Timeout
    BY <1>1, <2>1 DEF Crowd
  <2>8. Len(dial'.flights) >= k /\ dial'.now >= dial.now
    BY <1>2, <2>1, <2>2
  <2> QED BY <2>1, <2>2, <2>3, <2>4, <2>6, <2>7, <2>8, StillInTime
<1>8. CASE RaceEnds
  <2>1. /\ dial'.flights = dial.flights /\ dial'.now = dial.now /\ dial'.order = dial.order
        /\ dial'.next = dial.next /\ dial'.at \in {"timed_out", dial.last}
        /\ dial' = [dial EXCEPT !.at = dial'.at]
    BY <1>1, <1>8 DEF RaceEnds, DialTypeOK
  <2>2. DialTypeOK'
    BY <1>1, <2>1 DEF DialTypeOK
  <2>3. dial'.at = "timed_out" => dial'.now >= Timeout
    <3>1. CASE Alive(dial.flights) # {} \/ Left > 0
      BY <1>8, <2>1, <3>1 DEF RaceEnds
    <3>2. CASE ~(Alive(dial.flights) # {} \/ Left > 0)
      BY <1>1, <1>8, <3>2 DEF RaceEnds, DialTypeOK
    <3> QED BY <3>1, <3>2
  <2>4. Left' = Left /\ Len(dial'.flights) >= k /\ dial'.now >= dial.now
    BY <1>2, <2>1 DEF Left
  <2> QED BY <1>4, <2>1, <2>2, <2>3, <2>4, StillInTime
<1>9. CASE DialClock
  <2>1. /\ dial'.flights = dial.flights /\ dial'.now = dial.now + 1 /\ dial'.order = dial.order
        /\ dial'.next = dial.next /\ dial'.at = dial.at /\ ~Due
        /\ dial' = [dial EXCEPT !.now = dial.now + 1] /\ dial.at = "racing"
    BY <1>1, <1>9 DEF DialClock, DialTypeOK, Racing
  <2>2. DialTypeOK'
    BY <1>1, <1>2, <2>1 DEF DialTypeOK
  <2>3. Left' = Left /\ Len(dial'.flights) >= k /\ dial'.now >= dial.now
    BY <1>2, <2>1 DEF Left
  <2>4. (Left > 0 /\ k < MOST) => dial.now + 1 <= Bound(k)
    BY <1>1, <1>2, <1>3, <2>1, NotDueIsEarly
  <2> QED BY <1>4, <2>1, <2>2, <2>3, <2>4, StillInTime
<1>10. CASE UNCHANGED dial
  BY <1>1, <1>10 DEF DialIInv, DialTypeOK, InTime, Alternates, Crowd, Left, Bound
<1> QED
  BY <1>5, <1>6, <1>7, <1>8, <1>9, <1>10 DEF DialNext

\* Silent addresses hold the others back for a bounded time, whatever the
\* resolver answered, the stagger, the stall and the two limits.
THEOREM SilentHolds == DialSpec => []SilentHoldNobody
<1>1. DialIInv => SilentHoldNobody
  <2> SUFFICES ASSUME DialIInv PROVE SilentHoldNobody
    OBVIOUS
  <2>1. DialTypeOK /\ InTime /\ Alternates /\ Crowd
    BY DEF DialIInv
  <2>2. Len(dial.flights) >= 2 => Len(dial.order) >= 2
    <3>1. Len(dial.flights) \in Nat /\ Len(dial.order) \in Nat /\ Len(dial.flights) <= Len(dial.order)
      BY <2>1 DEF DialTypeOK
    <3> QED BY <3>1
  <2>3. (Racing /\ Left > 0 /\ Len(dial.flights) < MOST) => dial.now <= Bound(Len(dial.flights))
    BY <2>1 DEF InTime
  <2> QED BY <2>1, <2>2, <2>3 DEF SilentHoldNobody, Alternates, Crowd, Bound
<1> QED BY <1>1, DialOpens, DialStep, PTL DEF DialSpec

-----------------------------------------------------------------------------
(* Servers chosen, certificates accepted, connections opened.              *)

ServersSpec == ServersInit /\ [][ServersNext]_serverVars

-----------------------------------------------------------------------------
(* The readings of an address.                                             *)

Part == [n : Nat, letter : {"none", "s", "t", "x"}]

\* The ports servers are reached at by default are ports.
LEMMA DefaultPorts ==
    MaxPort \in Nat /\ \A tls : DefaultPort(tls) \in 1..MaxPort
    BY DEF MaxPort, DefaultPort, ElectrumTls, ElectrumTcp

\* A sequence of at most one element.
LEMMA AtMostOne ==
    ASSUME NEW S, NEW p \in Seq(S), Len(p) <= 1
    PROVE  \/ p = <<>> /\ Len(p) = 0 /\ DOMAIN p = {}
           \/ Len(p) = 1 /\ DOMAIN p = {1} /\ p[1] \in S /\ p # <<>>
<1>1. Len(p) \in Nat /\ DOMAIN p = 1..Len(p)
    OBVIOUS
<1>2. Len(p) \in {0, 1}
    BY <1>1
<1>3. CASE Len(p) = 0
    BY <1>1, <1>3
<1>4. CASE Len(p) = 1
    BY <1>1, <1>4
<1> QED BY <1>2, <1>3, <1>4

\* What follows the host of an address with at most one part.
LEMMA AddressParts ==
    ASSUME NEW a \in Addresses, Len(a.parts) <= 1
    PROVE  \/ a.parts = <<>> /\ Len(a.parts) = 0 /\ DOMAIN a.parts = {}
           \/ /\ Len(a.parts) = 1 /\ DOMAIN a.parts = {1} /\ a.parts[1] \in Part
              /\ a.parts # <<>>
<1>1. a.parts \in Seq(Part)
    BY DEF Addresses, Part
<1> HIDE DEF Part
<1> QED BY <1>1, AtMostOne, Zenon

\* The spelling of a host says nothing of what it is.
LEMMA CanonicalHost ==
    ASSUME NEW h \in Hosts
    PROVE  /\ Canonical(h) \in Hosts /\ Canonical(h).is = h.is
           /\ Canonical(Canonical(h)) = Canonical(h)
           /\ HostReads(Canonical(h)) = HostReads(h)
           /\ IsOnionHost(Canonical(h)) = IsOnionHost(h)
    BY DEF Canonical, Hosts, HostReads, IsOnionHost

\* The stored form of an Electrum address.
PortPart(n) == [n |-> n, letter |-> "none"]
Stored(h, n, tls) ==
    [scheme |-> IF tls THEN "ssl" ELSE "tcp", bracket |-> h.is = "ip6", host |-> h,
     parts |-> <<PortPart(n)>>, path |-> "none", material |-> "none"]

LEMMA PortPartFields ==
    ASSUME NEW n \in Nat
    PROVE  PortPart(n).n = n /\ PortPart(n).letter = "none" /\ PortPart(n) \in Part
    BY DEF PortPart, Part

LEMMA One ==
    ASSUME NEW x
    PROVE  /\ <<x>>[1] = x /\ Len(<<x>>) = 1 /\ DOMAIN <<x>> = {1} /\ <<x>> # <<>>
           /\ (CHOOSE y \in {x} : TRUE) = x
    OBVIOUS

LEMMA OneSeq ==
    ASSUME NEW S, NEW x \in S
    PROVE  <<x>> \in Seq(S)
    OBVIOUS

\* Its fields, each on its own.
Fields(a, h, n, tls) ==
    /\ a.host = h /\ a.path = "none" /\ a.scheme = (IF tls THEN "ssl" ELSE "tcp")
    /\ a.bracket = (h.is = "ip6")
    /\ DOMAIN a.parts = {1} /\ Len(a.parts) = 1
    /\ a.parts[1].n = n /\ a.parts[1].letter = "none"
    /\ {a.parts[i].n : i \in DOMAIN a.parts} = {n}

LEMMA StoredFields ==
    ASSUME NEW h, NEW n \in Nat, NEW tls \in BOOLEAN
    PROVE  Fields(Stored(h, n, tls), h, n, tls)
<1>1. /\ Stored(h, n, tls).parts = <<PortPart(n)>> /\ Stored(h, n, tls).host = h
      /\ Stored(h, n, tls).path = "none"
      /\ Stored(h, n, tls).scheme = IF tls THEN "ssl" ELSE "tcp"
    <2> HIDE DEF PortPart
    <2> QED BY DEF Stored
<1>2. Stored(h, n, tls).bracket = (h.is = "ip6")
    BY Zenon DEF Stored
<1> DEFINE p == Stored(h, n, tls).parts
<1>3. DOMAIN p = {1} /\ Len(p) = 1 /\ p[1] = PortPart(n)
    BY <1>1, One, Zenon
<1> HIDE DEF p
<1>4. p[1].n = n /\ p[1].letter = "none"
    BY <1>3, PortPartFields, Zenon
<1>5. {p[i].n : i \in DOMAIN p} = {n}
    BY <1>3, <1>4
<1> QED BY <1>1, <1>2, <1>3, <1>4, <1>5, Zenon DEF p, Fields

LEMMA StoredIsAddress ==
    ASSUME NEW h \in Hosts, NEW n \in Nat, NEW tls \in BOOLEAN
    PROVE  Stored(h, n, tls) \in Addresses
<1>1. PortPart(n) \in Part
    BY PortPartFields
<1> DEFINE p == <<PortPart(n)>>
<1>2. p \in Seq(Part)
    BY <1>1, OneSeq, Zenon DEF p
<1> HIDE DEF p
<1> QED BY <1>2, Zenon DEF Stored, Addresses, Part, p

\* Both parsers read it as what it was made of.
LEMMA StoredReads ==
    ASSUME NEW h \in Hosts, HostReads(h), Canonical(h) = h, NEW n \in 1..MaxPort,
           NEW tls \in BOOLEAN
    PROVE  /\ Parse(Stored(h, n, tls)) = {[tls |-> tls, host |-> h, port |-> n]}
           /\ HostOf(Stored(h, n, tls)) = {h}
<1> DEFINE a == Stored(h, n, tls)
<1>0. n \in Nat /\ n \in 0..MaxPort
    BY DefaultPorts
<1> HIDE DEF a
<1>a. Fields(a, h, n, tls)
    BY <1>0, StoredFields, Zenon DEF a
<1>b. a.bracket = (a.host.is = "ip6")
    BY <1>a, Zenon DEF Fields
<1>1. /\ a.host = h /\ a.path = "none" /\ a.scheme = (IF tls THEN "ssl" ELSE "tcp")
      /\ a.bracket = (a.host.is = "ip6")
      /\ DOMAIN a.parts = {1} /\ Len(a.parts) = 1
      /\ a.parts[1].n = n /\ a.parts[1].letter = "none"
      /\ {a.parts[i].n : i \in DOMAIN a.parts} = {n}
    BY <1>a, <1>b, Zenon DEF Fields
<1>2. \A i \in DOMAIN a.parts : a.parts[i].letter = "none" /\ a.parts[i].n \in 0..MaxPort
    BY <1>0, <1>1, Zenon
<1>3. (a.scheme \in {"none", "ssl", "tls"}) = tls /\ a.scheme \in {"none", "ssl", "tls", "tcp"}
    BY <1>1
<1>4. Len(a.parts) <= 1 /\ ~(Len(a.parts) > 1)
    <2>1. 1 <= 1 /\ ~(1 > 1)
        OBVIOUS
    <2> QED BY <1>1, <2>1, Zenon
<1>5. HostOf(a) = {h}
    BY <1>1, <1>2, <1>4, Zenon DEF HostOf, UrlReads
<1>6. Parse(a) = {[tls |-> tls, host |-> h, port |-> n]}
    <2>1. (CHOOSE m \in {n} : TRUE) = n /\ {n} # {} /\ "none" # "fragment"
        OBVIOUS
    <2>2. ~(\/ a.scheme \notin {"none", "ssl", "tls", "tcp"}
            \/ Len(a.parts) > 1
            \/ \E i \in DOMAIN a.parts : a.parts[i].letter # "none" \/ a.parts[i].n \notin 0..MaxPort
            \/ a.path = "fragment" /\ ~(a.bracket /\ a.parts = <<>>)
            \/ ~HostReads(a.host))
        BY <1>1, <1>2, <1>3, <1>4, <2>1, Zenon
    <2> DEFINE t == a.scheme \in {"none", "ssl", "tls"}
               port == PortOf({a.parts[i].n : i \in DOMAIN a.parts}, t)
               host == Canonical(a.host)
    <2>3. Parse(a) = {[tls |-> t, host |-> host, port |-> port]}
        BY <2>2, Zenon DEF Parse
    <2>4. t = tls /\ host = h
        BY <1>1, <1>3, Zenon
    <2>5. port = n
        <3>1. port = PortOf({n}, t)
            BY <1>1, Zenon
        <3> QED BY <2>1, <3>1, Zenon DEF PortOf
    <2> HIDE DEF t, host, port
    <2> QED BY <2>3, <2>4, <2>5, Zenon
<1> QED BY <1>5, <1>6 DEF a

-----------------------------------------------------------------------------
(* From an address as typed to the form it is stored in.                   *)

Ports(a) == {a.parts[i].n : i \in DOMAIN a.parts}
LEMMA SplitReads ==
    ASSUME NEW a \in Addresses, NEW s \in SplitHostPort(a), NEW tls \in BOOLEAN
    PROVE  /\ s.host = Canonical(a.host) /\ s.port = Ports(a) /\ HostReads(a.host)
           /\ PortOf(Ports(a), tls) \in 1..MaxPort
<1>1. /\ Len(a.parts) <= 1 /\ \A i \in DOMAIN a.parts : IsPort(a.parts[i])
      /\ HostReads(a.host) /\ s = [host |-> Canonical(a.host), port |-> Ports(a)]
    <2>1. a.parts \in Seq(Part)
        BY DEF Addresses, Part
    <2>2. Len(a.parts) \in Nat
        BY <2>1
    <2> DEFINE len == Len(a.parts)
    <2>3. ~(len > 1) => len <= 1
        <3> HIDE DEF len
        <3>1. len \in Nat
            BY <2>2 DEF len
        <3> QED BY <3>1
    <2> QED BY <2>3, Zenon DEF SplitHostPort, Ports
<1>2. s.host = Canonical(a.host) /\ s.port = Ports(a)
    BY <1>1
<1>3. CASE DOMAIN a.parts = {}
    <2>1. Ports(a) = {}
        BY <1>3 DEF Ports
    <2> QED BY <1>1, <1>2, <2>1, DefaultPorts, Zenon DEF PortOf
<1>4. CASE DOMAIN a.parts = {1}
    <2> DEFINE n == a.parts[1].n
    <2>1. Ports(a) = {n}
        BY <1>4 DEF Ports
    <2>2. n \in 1..MaxPort
        BY <1>1, <1>4, Zenon DEF IsPort
    <2> HIDE DEF n
    <2>3. PortOf({n}, tls) = n
        BY One DEF PortOf
    <2> QED BY <1>1, <1>2, <2>1, <2>2, <2>3, Zenon
<1> QED BY <1>1, <1>3, <1>4, AddressParts, Zenon

LEMMA ElectrumIsStored ==
    ASSUME NEW h, NEW ports, NEW tls \in BOOLEAN
    PROVE  Electrum(h, ports, tls) = Stored(h, PortOf(ports, tls), tls)
    BY Zenon DEF Electrum, Stored, PortPart

\* An address made of a split is read back by both parsers as its host.
LEMMA ElectrumReads ==
    ASSUME NEW a \in Addresses, NEW s \in SplitHostPort(a), NEW tls \in BOOLEAN,
           NEW u, u = Electrum(s.host, s.port, tls)
    PROVE  /\ u \in Addresses /\ u.host = Canonical(a.host) /\ HostOf(u) = {Canonical(a.host)}
           /\ Parse(u) = {[tls |-> tls, host |-> Canonical(a.host), port |-> PortOf(Ports(a), tls)]}
<1> DEFINE n == PortOf(Ports(a), tls)
           h == Canonical(a.host)
<1>1. a.host \in Hosts
    BY DEF Addresses
<1>2. h \in Hosts /\ HostReads(h) /\ Canonical(h) = h
    BY <1>1, SplitReads, CanonicalHost, Zenon
<1>3. n \in 1..MaxPort
    BY SplitReads, Zenon
<1>4. n \in Nat
    BY <1>3, DefaultPorts
<1>5. u = Stored(h, n, tls)
    <2>1. u = Electrum(h, Ports(a), tls)
        BY SplitReads, Zenon
    <2> QED BY <2>1, ElectrumIsStored, Zenon
<1> HIDE DEF n, h
<1>6. u \in Addresses /\ u.host = h
    <2>1. Stored(h, n, tls) \in Addresses
        BY <1>2, <1>4, StoredIsAddress, Zenon
    <2>2. Fields(Stored(h, n, tls), h, n, tls)
        BY <1>4, StoredFields, Zenon
    <2>3. Stored(h, n, tls).host = h
        BY <2>2, Zenon DEF Fields
    <2> QED BY <1>5, <2>1, <2>3, Zenon
<1>7. HostOf(u) = {h} /\ Parse(u) = {[tls |-> tls, host |-> h, port |-> n]}
    <2> DEFINE st == Stored(h, n, tls)
    <2>1. Parse(st) = {[tls |-> tls, host |-> h, port |-> n]} /\ HostOf(st) = {h}
        BY <1>2, <1>3, StoredReads
    <2> HIDE DEF st
    <2>2. u = st
        BY <1>5 DEF st
    <2> QED BY <2>1, <2>2, Zenon
<1> QED BY <1>6, <1>7, Zenon DEF n, h

LEMMA BareTlsIsBoolean ==
    ASSUME NEW s
    PROVE  BareTls(s) \in BOOLEAN
    BY DEF BareTls, IsOnionHost

LEMMA UnflaggedReads ==
    ASSUME NEW a \in Addresses, HasFlag(a)
    PROVE  Unflagged(a) \in Addresses /\ Unflagged(a).host = a.host
<1> DEFINE p == a.parts
           q == SubSeq(p, 1, Len(p) - 1)
<1>1. p \in Seq(Part) /\ p # <<>>
    BY DEF Addresses, Part, HasFlag
<1>2. q \in Seq(Part)
    <2> HIDE DEF p
    <2> QED BY <1>1
<1>3. Unflagged(a) = [a EXCEPT !.parts = q]
    BY Zenon DEF Unflagged
<1> HIDE DEF q, p
<1> QED BY <1>2, <1>3 DEF Addresses, Part

LEMMA EsploraReads ==
    ASSUME NEW a \in Addresses, NEW u \in Esplora(a)
    PROVE  u \in Addresses /\ u.host = Canonical(a.host) /\ HostOf(u) = {Canonical(a.host)}
<1>1. a.host \in Hosts
    BY DEF Addresses
<1> DEFINE h == Canonical(a.host)
           path == IF a.path = "slash" THEN "none" ELSE a.path
<1>2. UrlReads(a) /\ u = [a EXCEPT !.host = h, !.path = path]
    BY Zenon DEF Esplora
<1>3. h \in Hosts /\ HostReads(h) = HostReads(a.host) /\ h.is = a.host.is /\ Canonical(h) = h
    BY <1>1, CanonicalHost, Zenon
<1>4. path \in {"none", "slash", "fragment", "other"}
    BY DEF Addresses
<1> HIDE DEF h, path
<1>5. u \in Addresses /\ u.host = h /\ u.parts = a.parts /\ u.bracket = a.bracket
    BY <1>2, <1>3, <1>4 DEF Addresses
<1>6. UrlReads(u)
    BY <1>2, <1>3, <1>5, Zenon DEF UrlReads
<1> QED BY <1>3, <1>5, <1>6, Zenon DEF HostOf, h

\* Whatever form it is stored in, an address keeps its host.
LEMMA ParseBackendReads ==
    ASSUME NEW a \in Addresses, NEW u \in ParseBackend(a)
    PROVE  u \in Addresses /\ u.host = Canonical(a.host) /\ HostOf(u) = {Canonical(a.host)}
<1>1. CASE u \in Esplora(a)
    BY <1>1, EsploraReads, Zenon
<1>2. CASE u \in ElectrumOf(SplitHostPort(a), TRUE) \/ u \in ElectrumOf(SplitHostPort(a), FALSE)
    <2>1. PICK s \in SplitHostPort(a), tls \in BOOLEAN : u = Electrum(s.host, s.port, tls)
        BY <1>2, Zenon DEF ElectrumOf
    <2> QED BY <2>1, ElectrumReads, Zenon
<1>3. CASE HasFlag(a) /\ u \in ElectrumOf(SplitHostPort(Unflagged(a)), Flag(a) = "s")
    <2>1. PICK s \in SplitHostPort(Unflagged(a)) : u = Electrum(s.host, s.port, Flag(a) = "s")
        BY <1>3, Zenon DEF ElectrumOf
    <2>2. (Flag(a) = "s") \in BOOLEAN
        OBVIOUS
    <2>3. Unflagged(a) \in Addresses /\ Unflagged(a).host = a.host
        BY <1>3, UnflaggedReads, Zenon
    <2> DEFINE b == Unflagged(a)
               tls == Flag(a) = "s"
    <2> HIDE DEF b, tls
    <2>4. u \in Addresses /\ u.host = Canonical(b.host) /\ HostOf(u) = {Canonical(b.host)}
        <3>1. b \in Addresses /\ tls \in BOOLEAN
            BY <2>2, <2>3, Zenon DEF b, tls
        <3>2. s \in SplitHostPort(b) /\ u = Electrum(s.host, s.port, tls)
            BY <2>1, Zenon DEF b, tls
        <3> QED BY <3>1, <3>2, ElectrumReads, Zenon
    <2>5. b.host = a.host
        BY <2>3, Zenon DEF b
    <2> QED BY <2>4, <2>5, Zenon
<1>4. CASE \E s \in SplitHostPort(a) : u = Electrum(s.host, s.port, BareTls(s))
    <2>1. PICK s \in SplitHostPort(a) : u = Electrum(s.host, s.port, BareTls(s))
        BY <1>4
    <2>2. BareTls(s) \in BOOLEAN
        BY BareTlsIsBoolean, Zenon
    <2> DEFINE tls == BareTls(s)
    <2> HIDE DEF tls
    <2>3. tls \in BOOLEAN /\ u = Electrum(s.host, s.port, tls)
        BY <2>1, <2>2, Zenon DEF tls
    <2> QED BY <2>3, ElectrumReads, Zenon
<1>5. \/ u \in Esplora(a)
      \/ u \in ElectrumOf(SplitHostPort(a), TRUE) \/ u \in ElectrumOf(SplitHostPort(a), FALSE)
      \/ HasFlag(a) /\ u \in ElectrumOf(SplitHostPort(Unflagged(a)), Flag(a) = "s")
      \/ \E s \in SplitHostPort(a) : u = Electrum(s.host, s.port, BareTls(s))
    BY DEF ParseBackend
<1> QED BY <1>1, <1>2, <1>3, <1>4, <1>5

LEMMA StoredFormReads ==
    ASSUME NEW a \in Addresses, NEW kind, NEW u \in StoredForm(kind, a)
    PROVE  u \in Addresses /\ u.host = Canonical(a.host) /\ HostOf(u) = {Canonical(a.host)}
<1> DEFINE ssl == [a EXCEPT !.scheme = "ssl", !.bracket = @ \/ IsBareIpv6(a)]
<1>1. ssl \in Addresses /\ ssl.host = a.host
    BY DEF Addresses, IsBareIpv6
<1>2. u \in ParseBackend(a) \/ u \in ParseBackend(ssl)
    BY Zenon DEF StoredForm
<1> HIDE DEF ssl
<1>3. CASE u \in ParseBackend(a)
    BY <1>3, ParseBackendReads, Zenon
<1>4. CASE u \in ParseBackend(ssl)
    <2>1. u \in Addresses /\ u.host = Canonical(ssl.host) /\ HostOf(u) = {Canonical(ssl.host)}
        BY <1>1, <1>4, ParseBackendReads, Zenon
    <2> QED BY <1>1, <2>1, Zenon
<1> QED BY <1>2, <1>3, <1>4

\* A certificate looked at under one spelling has the key of the stored form.
LEMMA SameKey ==
    ASSUME NEW a \in Addresses, NEW p \in Parse(a), p.tls, NEW u \in StoredForm("electrum", a)
    PROVE  CertificateKey(u) = CertificateKey(a)
<1> DEFINE h == Canonical(a.host)
           n == PortOf(Ports(a), TRUE)
           reading == {[tls |-> TRUE, host |-> h, port |-> n]}
<1> DEFINE tls == a.scheme \in {"none", "ssl", "tls"}
<1>0. /\ Len(a.parts) <= 1
      /\ \A i \in DOMAIN a.parts : a.parts[i].letter = "none"
      /\ Parse(a) = {[tls |-> tls, host |-> h, port |-> PortOf(Ports(a), tls)]}
    <2>1. a.parts \in Seq(Part)
        BY DEF Addresses, Part
    <2> DEFINE len == Len(a.parts)
    <2>2. len \in Nat
        BY <2>1
    <2> HIDE DEF len
    <2>3. ~(len > 1) => len <= 1
        BY <2>2
    <2> QED BY <2>3, Zenon DEF Parse, Ports, len
<1>1. /\ a.scheme \in {"none", "ssl", "tls"} /\ Len(a.parts) <= 1
      /\ \A i \in DOMAIN a.parts : a.parts[i].letter = "none"
      /\ Parse(a) = reading
    <2> HIDE DEF tls, h
    <2>1. tls \in BOOLEAN
        BY DEF tls
    <2>2. p = [tls |-> tls, host |-> h, port |-> PortOf(Ports(a), tls)]
        BY <1>0, Zenon
    <2>3. tls = TRUE
        <3> DEFINE port == PortOf(Ports(a), tls)
        <3> HIDE DEF port
        <3>1. p = [tls |-> tls, host |-> h, port |-> port]
            BY <2>2, Zenon DEF port
        <3>2. p.tls = tls
            BY <3>1
        <3> QED BY <2>1, <3>2
    <2> QED BY <1>0, <2>3, Zenon DEF tls
<1>2. ~HasFlag(a)
    <2>1. CASE a.parts = <<>>
        BY <2>1, Zenon DEF HasFlag
    <2>2. CASE Len(a.parts) = 1 /\ DOMAIN a.parts = {1}
        BY <1>1, <2>2, Zenon DEF HasFlag
    <2> QED BY <1>1, <2>1, <2>2, AddressParts, Zenon
<1>3. PICK b \in Addresses :
        /\ b.host = a.host /\ b.parts = a.parts
        /\ \E s \in SplitHostPort(b) : u = Electrum(s.host, s.port, TRUE)
    <2> DEFINE ssl == [a EXCEPT !.scheme = "ssl", !.bracket = @ \/ IsBareIpv6(a)]
    <2>1. ssl \in Addresses /\ ssl.host = a.host /\ ssl.parts = a.parts /\ ssl.scheme = "ssl"
        BY DEF Addresses, IsBareIpv6
    <2>2. \/ u \in ParseBackend(a) /\ a.scheme \in {"ssl", "tls"}
          \/ u \in ParseBackend(ssl)
        BY <1>1, <1>2, Zenon DEF StoredForm
    <2> HIDE DEF ssl
    <2>3. ASSUME NEW b \in Addresses, b.scheme \in {"ssl", "tls"}, u \in ParseBackend(b)
          PROVE  \E s \in SplitHostPort(b) : u = Electrum(s.host, s.port, TRUE)
        <3>1. /\ ~(b.scheme \in {"http", "https"}) /\ b.scheme \in {"ssl", "tls", "electrums"}
              /\ ~(b.scheme \in {"tcp", "electrum"}) /\ b.scheme # "none" /\ b.scheme # "other"
            BY <2>3
        <3>2. \A x \in ParseBackend(b) : x \in ElectrumOf(SplitHostPort(b), TRUE)
            BY <3>1 DEF ParseBackend, HasFlag
        <3> QED BY <2>3, <3>2, Zenon DEF ElectrumOf
    <2>4. CASE u \in ParseBackend(a) /\ a.scheme \in {"ssl", "tls"}
        BY <2>3, <2>4, Zenon
    <2>5. CASE u \in ParseBackend(ssl)
        BY <2>1, <2>3, <2>5, Zenon
    <2> QED BY <2>2, <2>4, <2>5
<1>4. Parse(u) = reading
    <2> HIDE DEF h, n
    <2>1. Parse(u) = {[tls |-> TRUE, host |-> Canonical(b.host), port |-> PortOf(Ports(b), TRUE)]}
        <3>1. PICK s \in SplitHostPort(b) : u = Electrum(s.host, s.port, TRUE)
            BY <1>3, Zenon
        <3> QED BY <3>1, ElectrumReads, Zenon
    <2>2. Ports(b) = Ports(a)
        BY <1>3, Zenon DEF Ports
    <2>3. Canonical(b.host) = h /\ PortOf(Ports(b), TRUE) = n
        BY <1>3, <2>2, Zenon DEF h, n
    <2> QED BY <2>1, <2>3, Zenon
<1>5. reading # {}
    OBVIOUS
<1> HIDE DEF reading
<1>6. Parse(u) = Parse(a) /\ Parse(u) # {} /\ Parse(a) # {}
    BY <1>1, <1>4, <1>5, Zenon
<1> QED BY <1>6 DEF CertificateKey, KeyHost

\* An address opened goes to the host its route was chosen by.
LEMMA SocketHost ==
    ASSUME NEW e, NEW p \in Socket(e)
    PROVE  IsOnionTarget(e.url, p.host) = IsOnionHost(p.host)
<1> DEFINE h == Canonical(e.url.host)
<1>1. \A x \in HostOf(e.url) : x = h
    BY Zenon DEF HostOf
<1>2. p.host = h
    <2>1. CASE e.kind = "electrum"
        <3> DEFINE a == e.url
                   tls == a.scheme \in {"none", "ssl", "tls"}
                   port == PortOf({a.parts[i].n : i \in DOMAIN a.parts}, tls)
        <3>0. p \in Parse(a) /\ h = Canonical(a.host)
            BY <2>1, Zenon DEF Socket
        <3> HIDE DEF a, h
        <3>a. Parse(a) = {[tls |-> tls, host |-> Canonical(a.host), port |-> port]}
            BY <3>0, Zenon DEF Parse
        <3> HIDE DEF tls, port
        <3>1. p = [tls |-> tls, host |-> Canonical(a.host), port |-> port]
            BY <3>0, <3>a, Zenon
        <3> DEFINE host == Canonical(a.host)
        <3>2. p = [tls |-> tls, host |-> host, port |-> port] /\ h = host
            BY <3>0, <3>1, Zenon
        <3> HIDE DEF host
        <3> QED BY <3>2
    <2>2. CASE e.kind # "electrum"
        <3> DEFINE tls == e.url.scheme = "https"
        <3>1. PICK x \in HostOf(e.url) : p = [tls |-> tls, host |-> x, port |-> 0]
            BY <2>2, Zenon DEF Socket
        <3> HIDE DEF h, tls
        <3> QED BY <1>1, <3>1
    <2> QED BY <2>1, <2>2
<1> HIDE DEF h
<1>3. IsOnion(e.url) => IsOnionHost(p.host)
    BY <1>1, <1>2, Zenon DEF IsOnion
<1> QED BY <1>3 DEF IsOnionTarget, IsOnionHost, IsOnion

-----------------------------------------------------------------------------
(* The invariant.                                                          *)

\* A configuration as it is kept: a public server, or one address.
Config == [is : {"public", "esplora", "electrum"},
           server : SUBSET (DOMAIN Public \cup {"dropped"}), url : SUBSET Addresses]
KeptConfig(c) ==
    /\ c \in Config
    /\ \/ c.is = "public" /\ c.url = {}
       \/ c.is # "public" /\ \E a \in Addresses : c.url = {a}

BackendsInv ==
    backends \in [Networks -> Config] /\ \A n \in Networks : KeptConfig(backends[n])

\* One certificate is accepted for a socket.
CertsInv == \A c, d \in certs : c.key = d.key => c.fp = d.fp
ConnectionInv == \A c \in connection : \A x, y \in c.endpoint.pin : x = y

\* What is reported, and accepted, was looked at over TLS.
Reported(r) == r.url \in Addresses /\ \E p \in Parse(r.url) : p.tls
ReportsInv == \A r \in report : Reported(r)
AcceptancesInv ==
    \A x \in acceptances : Reported(x) /\ [key |-> CertificateKey(x.url), fp |-> x.fp] \in certs

ServersIInv ==
    /\ BackendsInv /\ CertsInv /\ ConnectionInv /\ ReportsInv /\ AcceptancesInv
    /\ OnionStaysInTor /\ AcceptedIsMet

\* What is accepted is found under every spelling.
LEMMA FoundFromAccepted ==
    ASSUME AcceptancesInv
    PROVE  FoundUnderEverySpelling
<1> SUFFICES ASSUME NEW x \in acceptances, NEW u \in StoredForm("electrum", x.url)
             PROVE  x.fp \in PinFor(u)
    BY DEF FoundUnderEverySpelling
<1>1. /\ x.url \in Addresses /\ [key |-> CertificateKey(x.url), fp |-> x.fp] \in certs
      /\ \E p \in Parse(x.url) : p.tls
    BY DEF AcceptancesInv, Reported
<1>2. CertificateKey(u) = CertificateKey(x.url)
    BY <1>1, SameKey, Zenon
<1> DEFINE k == CertificateKey(u)
<1>3. [key |-> k, fp |-> x.fp] \in certs
    BY <1>1, <1>2, Zenon
<1> HIDE DEF k
<1> QED BY <1>3 DEF PinFor, k

LEMMA ConfigsAreKept ==
    ASSUME NEW config \in Configs
    PROVE  KeptConfig(config)
<1>1. CASE config = NoConfig
    BY <1>1 DEF NoConfig, KeptConfig, Config
<1>2. CASE \E id \in DOMAIN Public \cup {"dropped"} : config = [NoConfig EXCEPT !.server = {id}]
    BY <1>2 DEF NoConfig, KeptConfig, Config
<1>3. CASE \E kind \in {"esplora", "electrum"}, a \in Typed : config = Custom(kind, a)
    BY <1>3, ServersAssumption DEF Custom, KeptConfig, Config
<1> QED BY <1>1, <1>2, <1>3 DEF Configs

LEMMA CanonicalIsKept ==
    ASSUME NEW config, KeptConfig(config), NEW c \in CanonicalConfig(config)
    PROVE  KeptConfig(c)
<1>1. CASE config.is = "public"
    BY <1>1, Zenon DEF CanonicalConfig
<1>2. CASE config.is # "public"
    <2>1. PICK u \in UNION {StoredForm(config.is, a) : a \in config.url} :
            c = [config EXCEPT !.url = {u}]
        BY <1>2, Zenon DEF CanonicalConfig
    <2>2. PICK a \in config.url : u \in StoredForm(config.is, a)
        OBVIOUS
    <2>3. a \in Addresses
        BY DEF KeptConfig, Config
    <2>4. u \in Addresses
        BY <2>2, <2>3, StoredFormReads, Zenon
    <2> QED BY <1>2, <2>1, <2>4 DEF KeptConfig, Config
<1> QED BY <1>1, <1>2

\* A backend kept under an onion's name is reached through Tor, or not at all.
LEMMA OnionUsesTor ==
    ASSUME BackendsInv, NEW n \in Networks, NEW a \in backends[n].url, a.host.is = "onion"
    PROVE  UsesTor
<1> DEFINE c == backends[n]
<1>1. c.is # "public" /\ c.url = {a} /\ a \in Addresses
    BY DEF BackendsInv, KeptConfig
<1>2. CASE EndpointsOf(c) = {}
    <2>1. NamesOnion(a)
        BY DEF NamesOnion
    <2> QED BY <1>2, <2>1, Zenon DEF UsesTor
<1>3. CASE EndpointsOf(c) # {}
    <2>1. PICK u \in UNION {c2.url : c2 \in CanonicalConfig(c)} : Endpoint(c.is, u) \in EndpointsOf(c)
        BY <1>1, <1>3 DEF EndpointsOf
    <2>2. PICK c2 \in CanonicalConfig(c) : u \in c2.url
        OBVIOUS
    <2>3. PICK v \in UNION {StoredForm(c.is, b) : b \in c.url} : c2 = [c EXCEPT !.url = {v}]
        BY <1>1, <2>2, Zenon DEF CanonicalConfig
    <2>4. u = v
        BY <2>2, <2>3 DEF BackendsInv, KeptConfig, Config
    <2>5. u \in StoredForm(c.is, a)
        BY <1>1, <2>4
    <2>6. HostOf(u) = {Canonical(a.host)}
        BY <1>1, <2>5, StoredFormReads, Zenon
    <2>7. IsOnionHost(Canonical(a.host))
        BY <1>1, CanonicalHost DEF Addresses, IsOnionHost
    <2>8. Endpoint(c.is, u).url = u
        BY DEF Endpoint
    <2>9. NeedsTor(EndpointsOf(c))
        BY <2>1, <2>6, <2>7, <2>8, Zenon DEF NeedsTor, IsOnion
    <2> QED BY <1>3, <2>9, Zenon DEF UsesTor
<1> QED BY <1>2, <1>3

\* A certificate met in place of another completes no handshake.
LEMMA MetIsAccepted ==
    ASSUME NEW pin, \A x, y \in pin : x = y, NEW cert, Completes(pin, cert)
    PROVE  cert.holdsKey /\ IF pin = {} THEN cert.vouched ELSE pin = {cert.fp}
<1>1. cert.holdsKey /\ CertVerdict(pin, cert) \in {"pinned", "trusted"}
    BY Zenon DEF Completes
<1>2. CASE pin # {} /\ cert.fp \in pin
    BY <1>1, <1>2
<1>3. CASE pin # {} /\ cert.fp \notin pin
    BY <1>1, <1>3 DEF CertVerdict
<1>4. CASE pin = {}
    BY <1>1, <1>4 DEF CertVerdict
<1> QED BY <1>2, <1>3, <1>4

LEMMA PinIsOne ==
    ASSUME CertsInv, NEW kind, NEW a
    PROVE  \A x, y \in Endpoint(kind, a).pin : x = y
    BY DEF CertsInv, Endpoint, PinFor

-----------------------------------------------------------------------------
(* The steps.                                                              *)

LEMMA ServersStart == ServersInit => ServersIInv
<1> SUFFICES ASSUME ServersInit PROVE ServersIInv
    OBVIOUS
<1>1. KeptConfig(NoConfig) /\ \A a \in Typed : KeptConfig(Custom("electrum", a))
    BY ConfigsAreKept DEF Configs
<1>2. PICK old \in {NoConfig} \cup {Custom("electrum", a) : a \in Typed} :
        backends = [n \in Networks |-> IF n = Active THEN old ELSE NoConfig]
    BY DEF ServersInit
<1>3. KeptConfig(old)
    BY <1>1
<1>4. BackendsInv
    BY <1>1, <1>2, <1>3 DEF BackendsInv, KeptConfig
<1> QED BY <1>4 DEF ServersInit, ServersIInv, CertsInv, ConnectionInv,
           ReportsInv,
                    AcceptancesInv, OnionStaysInTor, AcceptedIsMet

\* A configuration put in the place of another.
LEMMA BackendKept ==
    ASSUME BackendsInv, NEW n \in Networks, NEW config \in Configs, NEW c \in CanonicalConfig(config),
           backends' = [backends EXCEPT ![n] = c]
    PROVE  BackendsInv'
<1>1. KeptConfig(c)
    BY ConfigsAreKept, CanonicalIsKept, Zenon
<1>2. KeptConfig(c)' = KeptConfig(c)
    BY DEF KeptConfig, Config
<1>3. \A m \in Networks : backends'[m] = IF m = n THEN c ELSE backends[m]
    BY DEF BackendsInv
<1>4. backends' \in [Networks -> Config]
    BY <1>1 DEF BackendsInv, KeptConfig
<1> QED BY <1>1, <1>3, <1>4 DEF BackendsInv, KeptConfig

\* A certificate accepted, and those under its key given up.
LEMMA AcceptedKept ==
    ASSUME CertsInv, AcceptancesInv, ReportsInv, NEW r \in report,
           certs' = Inserted(CertificateKey(r.url), r.fp),
           acceptances' = {x \in acceptances : CertificateKey(x.url) # CertificateKey(r.url)}
                            \cup {[url |-> r.url, fp |-> r.fp]}
    PROVE  CertsInv' /\ AcceptancesInv'
<1> DEFINE k == CertificateKey(r.url)
           new == [key |-> k, fp |-> r.fp]
           acc == [url |-> r.url, fp |-> r.fp]
<1>1. certs' = {c \in certs : c.key # k} \cup {new}
    BY Zenon DEF Inserted
<1>2. acceptances' = {x \in acceptances : CertificateKey(x.url) # k} \cup {acc}
    BY Zenon
<1>3. Reported(acc) /\ acc.url = r.url /\ acc.fp = r.fp
    BY DEF ReportsInv, Reported
<1>4. new.key = k /\ new.fp = r.fp
    <2> HIDE DEF k
    <2> QED OBVIOUS
<1> HIDE DEF k
<1>5. CertsInv'
    <2> HIDE DEF new
    <2> QED BY <1>1, <1>4 DEF CertsInv
<1>6. AcceptancesInv'
    <2> HIDE DEF new, acc
    <2> SUFFICES ASSUME NEW x \in acceptances'
                 PROVE  Reported(x) /\ [key |-> CertificateKey(x.url), fp |-> x.fp] \in certs'
        BY DEF AcceptancesInv, Reported
    <2>1. CASE x = acc
        <3>1. [key |-> CertificateKey(x.url), fp |-> x.fp] = new
            BY <1>3, <2>1, Zenon DEF new, k
        <3> QED BY <1>1, <1>3, <2>1, <3>1
    <2>2. CASE x \in acceptances /\ CertificateKey(x.url) # k
        <3> DEFINE kx == CertificateKey(x.url)
                   old == [key |-> kx, fp |-> x.fp]
        <3>1. Reported(x) /\ old \in certs
            BY <2>2 DEF AcceptancesInv
        <3>2. old.key # k
            BY <2>2
        <3> HIDE DEF kx, old
        <3>3. old \in certs'
            BY <1>1, <3>1, <3>2
        <3> QED BY <3>1, <3>3 DEF kx, old
    <2> QED BY <1>2, <2>1, <2>2
<1> QED BY <1>5, <1>6

LEMMA ServersStep ==
    ASSUME ServersIInv, [ServersNext]_serverVars
    PROVE  ServersIInv'
<1> USE DEF ServersIInv
<1>1. ASSUME NEW n \in Networks, NEW config \in Configs, SetBackend(n, config)
      PROVE  ServersIInv'
    <2>1. BackendsInv'
        BY <1>1, BackendKept DEF SetBackend
    <2> QED BY <1>1, <2>1 DEF SetBackend, wireVars, CertsInv, ConnectionInv,
               ReportsInv,
              AcceptancesInv, Reported, OnionStaysInTor, AcceptedIsMet
<1>2. ASSUME NEW n \in Networks, NEW config \in Configs, SetBackendTrusting(n, config)
      PROVE  ServersIInv'
    <2>1. PICK r \in report, c \in CanonicalConfig(config) :
            /\ certs' = Inserted(CertificateKey(r.url), r.fp)
            /\ acceptances' = {x \in acceptances : CertificateKey(x.url) # CertificateKey(r.url)}
                                \cup {[url |-> r.url, fp |-> r.fp]}
            /\ backends' = [backends EXCEPT ![n] = c]
        BY <1>2, Zenon DEF SetBackendTrusting
    <2>2. BackendsInv'
        BY <2>1, BackendKept, Zenon
    <2>3. CertsInv' /\ AcceptancesInv'
        BY <2>1, AcceptedKept, Zenon
    <2> QED BY <1>2, <2>2, <2>3 DEF SetBackendTrusting, wireVars,
               ConnectionInv, ReportsInv,
              OnionStaysInTor, AcceptedIsMet
<1>3. CASE TrustCertificate
    <2>1. PICK r \in report :
            /\ certs' = Inserted(CertificateKey(r.url), r.fp)
            /\ acceptances' = {x \in acceptances : CertificateKey(x.url) # CertificateKey(r.url)}
                                \cup {[url |-> r.url, fp |-> r.fp]}
        BY <1>3, Zenon DEF TrustCertificate
    <2>2. CertsInv' /\ AcceptancesInv'
        BY <2>1, AcceptedKept, Zenon
    <2> QED BY <1>3, <2>2 DEF TrustCertificate, wireVars, BackendsInv,
               ConnectionInv, ReportsInv,
              OnionStaysInTor, AcceptedIsMet
<1>4. CASE ForgetCertificate
    <2>1. PICK c \in certs :
            /\ certs' = certs \ {c}
            /\ acceptances' = {x \in acceptances : CertificateKey(x.url) # c.key}
        BY <1>4, Zenon DEF ForgetCertificate
    <2>2. CertsInv'
        BY <2>1 DEF CertsInv
    <2>3. AcceptancesInv'
        <3> SUFFICES ASSUME NEW x \in acceptances'
                     PROVE  Reported(x) /\ [key |-> CertificateKey(x.url), fp |-> x.fp] \in certs'
            BY DEF AcceptancesInv, Reported
        <3> DEFINE k == CertificateKey(x.url)
                   old == [key |-> k, fp |-> x.fp]
        <3>1. Reported(x) /\ old \in certs /\ k # c.key
            BY <2>1 DEF AcceptancesInv
        <3>2. old.key = k
            <4> HIDE DEF k
            <4> QED OBVIOUS
        <3> HIDE DEF k, old
        <3>3. old \in certs'
            BY <2>1, <3>1, <3>2
        <3> QED BY <3>1, <3>3 DEF k, old
    <2> QED BY <1>4, <2>2, <2>3 DEF ForgetCertificate, wireVars, BackendsInv,
               ConnectionInv,
              ReportsInv, OnionStaysInTor, AcceptedIsMet
<1>5. ASSUME NEW a \in Typed, NEW cert \in Certificates, InspectCertificate(a, cert)
      PROVE  ServersIInv'
    <2>1. PICK p \in Looked(a) : resolved' = {p.host} /\ report' = Inspected(a, cert)
        BY <1>5, Zenon DEF InspectCertificate
    <2>2. p \in Parse(a) /\ p.tls /\ ~IsOnionHost(p.host)
        BY <2>1, Zenon DEF Looked, IsOnionTarget
    <2>3. a \in Addresses
        BY ServersAssumption
    <2>4. \A r \in report' : r = [url |-> a, fp |-> cert.fp]
        BY <2>1 DEF Inspected
    <2>5. ReportsInv'
        BY <2>2, <2>3, <2>4 DEF ReportsInv, Reported
    <2>6. OnionStaysInTor'
        BY <1>5, <2>1, <2>2 DEF InspectCertificate, OnionStaysInTor,
           IsOnionHost
    <2> QED BY <1>5, <2>5, <2>6 DEF InspectCertificate, settingVars,
               BackendsInv, CertsInv,
              ConnectionInv, AcceptancesInv, AcceptedIsMet
<1>6. ASSUME NEW n \in Networks, NEW tor \in BOOLEAN, ReadSetup(n, tor)
      PROVE  ServersIInv'
    <2>1. PICK e \in EndpointsOf(backends[n]) :
            connection' = {[endpoint |-> e, proxy |-> NeedsTor(EndpointsOf(backends[n]))]}
        BY <1>6, Zenon DEF ReadSetup
    <2>2. \E kind, a : e = Endpoint(kind, a)
        BY DEF EndpointsOf
    <2>3. \A x, y \in e.pin : x = y
        BY <2>2, PinIsOne, Zenon
    <2> DEFINE proxy == NeedsTor(EndpointsOf(backends[n]))
    <2> HIDE DEF proxy
    <2>4. connection' = {[endpoint |-> e, proxy |-> proxy]}
        BY <2>1, Zenon DEF proxy
    <2>5. ConnectionInv'
        BY <2>3, <2>4 DEF ConnectionInv
    <2> QED BY <1>6, <2>5 DEF ReadSetup, settingVars, BackendsInv, CertsInv,
              ReportsInv, AcceptancesInv, OnionStaysInTor, AcceptedIsMet
<1>7. ASSUME NEW cert \in Certificates, OpenSocket(cert)
      PROVE  ServersIInv'
    <2>1. PICK c \in connection :
            /\ resolved' = {p.host : p \in {p \in Socket(c.endpoint) : ~IsOnionTarget(c.endpoint.url, p.host)}}
            /\ opened' = {[url |-> c.endpoint.url, tls |-> p.tls, onion |-> IsOnionHost(p.host),
                           pin |-> c.endpoint.pin, cert |-> cert] :
                            p \in {p \in Socket(c.endpoint) : ServerConnects(c, p, cert)}}
            /\ connection' = {}
        BY <1>7, Zenon DEF OpenSocket
    <2>2. OnionStaysInTor'
        BY <1>7, <2>1 DEF OpenSocket, OnionStaysInTor, IsOnionTarget,
           IsOnionHost
    <2>3. AcceptedIsMet'
        <3> SUFFICES ASSUME NEW o \in opened', o.tls, ~o.onion
                     PROVE  /\ o.cert.holdsKey
                            /\ IF o.pin = {} THEN o.cert.vouched ELSE o.pin = {o.cert.fp}
            BY DEF AcceptedIsMet
        <3>1. PICK p \in Socket(c.endpoint) :
                /\ ServerConnects(c, p, cert)
                /\ o = [url |-> c.endpoint.url, tls |-> p.tls, onion |-> IsOnionHost(p.host),
                        pin |-> c.endpoint.pin, cert |-> cert]
            BY <2>1
        <3>2. o.tls = p.tls /\ o.onion = IsOnionHost(p.host) /\ o.pin = c.endpoint.pin /\ o.cert = cert
            BY <3>1
        <3>3. p.tls /\ ~IsOnionTarget(c.endpoint.url, p.host)
            BY <3>2, SocketHost, Zenon
        <3>4. Completes(o.pin, cert)
            BY <3>1, <3>2, <3>3, Zenon DEF ServerConnects, Handshakes
        <3>5. \A x, y \in o.pin : x = y
            BY <3>2 DEF ConnectionInv
        <3> QED BY <3>2, <3>4, <3>5, MetIsAccepted, Zenon
    <2> QED BY <1>7, <2>1, <2>2, <2>3 DEF OpenSocket, settingVars,
               BackendsInv, CertsInv,
              ConnectionInv, ReportsInv, AcceptancesInv
<1>8. CASE BesideSyncs
    <2>1. (\E n \in Networks : \E a \in backends[n].url : a.host.is = "onion") => UsesTor
        BY OnionUsesTor, Zenon
    <2> DEFINE meant == \E n \in Networks : \E a \in backends[n].url : a.host.is = "onion"
    <2>2. beside' = {[direct |-> ~UsesTor, meant |-> meant]} /\ resolved' = resolved
        BY <1>8, Zenon DEF BesideSyncs
    <2> DEFINE direct == ~UsesTor
    <2>a. \A b \in beside' : b = [direct |-> direct, meant |-> meant]
        BY <2>2, Zenon
    <2>b. meant => ~direct
        BY <2>1, Zenon
    <2> HIDE DEF meant, direct
    <2>c. \A b \in beside' : b.direct = direct /\ b.meant = meant
        BY <2>a
    <2>3. OnionStaysInTor'
        BY <2>2, <2>b, <2>c, Zenon DEF OnionStaysInTor
    <2> QED BY <1>8, <2>3 DEF BesideSyncs, settingVars, BackendsInv, CertsInv,
              ConnectionInv, ReportsInv, AcceptancesInv, AcceptedIsMet
<1>9. CASE UNCHANGED serverVars
    BY <1>9 DEF serverVars, BackendsInv, CertsInv, ConnectionInv, ReportsInv,
       AcceptancesInv,
                OnionStaysInTor, AcceptedIsMet
<1> QED BY <1>1, <1>2, <1>3, <1>4, <1>5, <1>6, <1>7, <1>8, <1>9 DEF ServersNext

(* Whoever is reached is who the user named, over the road he chose: the   *)
(* name of a hidden service never reaches the resolver and nothing leaves  *)
(* beside Tor while a backend names one (src/src/chain/net.rs, tor.rs);    *)
(* data over TLS met the certificate accepted for its socket, or one that  *)
(* authorities vouch for (tls.rs); and what was accepted under one         *)
(* spelling is asked for under the stored one (electrum.rs,                *)
(* certificate_key).                                                       *)
THEOREM ServersHold == ServersSpec => []ServersInv
<1>1. ServersInit => ServersIInv
    BY ServersStart
<1>2. ServersIInv /\ [ServersNext]_serverVars => ServersIInv'
    BY ServersStep
<1>3. ServersIInv => ServersInv
    BY FoundFromAccepted DEF ServersIInv, ServersInv, PinsInv
<1> QED BY <1>1, <1>2, <1>3, PTL DEF ServersSpec
=============================================================================
