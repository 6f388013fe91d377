-------------------------- MODULE WatchHubProofs ---------------------------
(***************************************************************************)
(* Proofs about WatchHub: which setup the watch runs with, which one its   *)
(* pass is of, and that an open pass is being made, for any wallets,       *)
(* scripts, servers and configurations, and however commands, readings,    *)
(* sessions and events interleave.                                         *)
(***************************************************************************)
EXTENDS WatchHub, FiniteSetTheorems, SequenceTheorems, WellFoundedInduction,
        TLAPS

\* A set of numbers has a smallest.
LEMMA Smallest ==
  ASSUME NEW S, S \subseteq Nat, S # {}
  PROVE  \E m \in S : \A n \in S : m <= n
<1>1. PICK m \in S : \A n \in S : ~ (<<n, m>> \in OpToRel(<, Nat))
  BY WFMin, NatLessThanWellFounded
<1>2. \A a, b \in Nat : a < b => <<a, b>> \in OpToRel(<, Nat)
  BY DEF OpToRel
<1>3. m \in Nat /\ \A n \in S : n \in Nat /\ ~(n < m)
  BY <1>1, <1>2
<1> QED BY <1>3

-----------------------------------------------------------------------------
(* The pass over the servers, and where the supervisor waits.              *)

\* What the hub keeps.
HubFields ==
  {"config", "watched", "pass", "serving", "held", "heardBy", "tip", "caughtUp",
   "interrupted", "statuses", "prints", "shunned", "refusals", "track", "turn",
   "reopened"}

\* The hub has its fields; a pass that is open is made with no server served.
HubOK(h) ==
  /\ DOMAIN h = HubFields /\ h.config \in HubConfigs
  /\ DOMAIN h.pass = {"setup", "open"} /\ h.pass.setup \in Nat
  /\ h.pass.open => h.serving = NONE

\* Where the supervisor is, and which server it talks to.
AtOK(a) ==
  /\ DOMAIN a = {"where", "e", "stage", "esplora", "last"}
  /\ a.where \in Where /\ a.stage \in Stages
  /\ a.where \in {"opening", "open"} => a.e \in HubEndpoints /\ a.stage # NONE

\* A step of the hub that touches neither the pass nor the server served.
Same(h, g) ==
  /\ DOMAIN g = DOMAIN h /\ g.config = h.config
  /\ g.pass = h.pass /\ g.serving = h.serving

\* The same, or the pass settled.
Settled(h, g) ==
  /\ HubOK(g) /\ g.pass.setup = h.pass.setup /\ ~g.pass.open

\* The smallest of a set of numbers is in it.
LEMMA MinIsIn ==
  ASSUME NEW S, S \subseteq Nat, S # {}
  PROVE  Min(S) \in S
BY Smallest DEF Min

\* Where a server is in a list, or 0.
LEMMA IndexIs ==
  ASSUME NEW cands \in Seq(HubEndpoints), NEW e
  PROVE  IndexIn(cands, e) \in Nat /\ (e \notin HubEndpoints => IndexIn(cands, e) = 0)
<1> DEFINE I == {i \in 1..Len(cands) : cands[i] = e}
<1>1. IndexIn(cands, e) = IF I # {} THEN Min(I) ELSE 0
  BY DEF IndexIn, SelectInSeq
<1>2. I \subseteq Nat
  OBVIOUS
<1>3. I # {} => Min(I) \in Nat
  <2> HIDE DEF I
  <2> QED BY <1>2, MinIsIn
<1>4. e \notin HubEndpoints => I = {}
  OBVIOUS
<1> HIDE DEF I
<1> QED BY <1>1, <1>3, <1>4

\* The servers left to try are of the list.
LEMMA UntriedAre ==
  ASSUME NEW h, h.config \in HubConfigs, NEW stage, NEW after, NEW esplora,
         Untried(h, stage, after, esplora) # {}
  PROVE  LET i == Min(Untried(h, stage, after, esplora))
         IN  HubServers[h.config][i] \in HubEndpoints
<1> DEFINE cands == HubServers[h.config]
           left == Untried(h, stage, after, esplora)
<1>1. cands \in Seq(HubEndpoints)
  BY HubAssumption
<1>2. IndexIn(cands, after) \in Nat /\ Len(cands) \in Nat
  BY <1>1, IndexIs
<1>3. left \subseteq (IndexIn(cands, after) + 1)..Len(cands)
  BY DEF Untried
<1> HIDE DEF left, cands
<1>4. left \subseteq 1..Len(cands)
  BY <1>2, <1>3
<1>5. Min(left) \in left
  BY <1>4, MinIsIn DEF left
<1>6. Min(left) \in 1..Len(cands)
  BY <1>4, <1>5
<1>7. cands[Min(left)] \in HubEndpoints
  BY <1>1, <1>6
<1> QED BY <1>7 DEF left, cands

\* A server tried is one of the list's.
LEMMA TryIsOK ==
  ASSUME NEW h, h.config \in HubConfigs, NEW after, NEW esplora, NEW last,
         NEW stage \in {"electrum", "push", "poll"}
  PROVE  LET a == TryFrom(h, stage, after, esplora, last)
         IN  AtOK(a) /\ a.where \in {"opening", "nothing"}
<1> DEFINE OK(a) == AtOK(a) /\ a.where \in {"opening", "nothing"}
<1>1. ASSUME NEW s \in {"electrum", "push", "poll"}, NEW f, NEW es, NEW l, NEW es2,
             Untried(h, s, f, es) # {}
      PROVE  OK(OpeningAt(h, s, Min(Untried(h, s, f, es)), es2, l))
  <2> DEFINE i == Min(Untried(h, s, f, es))
  <2>1. HubServers[h.config][i] \in HubEndpoints
    BY <1>1, UntriedAre
  <2> HIDE DEF i
  <2>2. OK(OpeningAt(h, s, i, es2, l))
    BY <2>1 DEF OpeningAt, AtOK, Where, Stages, NONE
  <2> QED BY <2>2 DEF i
<1>2. \A l : OK([Nothing EXCEPT !.last = l])
  BY DEF Nothing, AtOK, Where, Stages, NONE
<1> HIDE DEF OK
<1>3. \A es, f, l : OK(Polled(h, es, f, l))
  BY <1>1, <1>2 DEF Polled
<1>4. \A es, f, l, worth : OK(Pushing(h, es, f, l, worth))
  BY <1>1, <1>3 DEF Pushing
<1>5. OK(TryFrom(h, stage, after, esplora, last))
  BY <1>1, <1>3, <1>4 DEF TryFrom
<1> QED BY <1>5 DEF OK

\* A backoff settles the pass.
LEMMA BackoffIs ==
  ASSUME NEW h, HubOK(h), NEW exit
  PROVE  LET b == Backoff(h, exit)
         IN  AtOK(b.at) /\ b.at.where = "backoff" /\ Settled(h, b.hub)
BY DEF Backoff, AtOK, Nothing, Where, Stages, NONE, HubOK, HubFields, Settled, Settle, ServeNone

\* The loop of the supervisor settles the pass when there is nothing to
\* follow, and keeps it otherwise.
LEMMA LoopIs ==
  ASSUME NEW h, HubOK(h)
  PROVE  LET l == Loop(h)
         IN  /\ AtOK(l.at) /\ l.at.where \in {"opening", "nothing"} /\ HubOK(l.hub)
             /\ l.hub.pass.setup = h.pass.setup
             /\ \/ l.at.where = "nothing" /\ Settled(h, l.hub)
                \/ Entries(h) # << >> /\ l.hub = h
<1>1. CASE Entries(h) = << >>
  BY <1>1 DEF Loop, AtOK, Nothing, Where, Stages, NONE, HubOK, HubFields, Settled, Settle, ServeNone
<1>2. CASE Entries(h) # << >>
  <2>1. Loop(h) = [hub |-> h, at |-> TryFrom(h, "electrum", NONE, {}, "Lost")]
    BY <1>2 DEF Loop
  <2>2. LET a == TryFrom(h, "electrum", NONE, {}, "Lost")
        IN  AtOK(a) /\ a.where \in {"opening", "nothing"}
    BY TryIsOK DEF HubOK
  <2> QED BY <1>2, <2>1, <2>2
<1> QED BY <1>1, <1>2

\* Where a step leaves the supervisor: its pass is open only while servers
\* are tried, and of the setup it was of.
MovesOn(h) ==
  /\ HubOK(hub') /\ AtOK(at') /\ at'.where \notin {"open", "stopped"}
  /\ hub'.pass.setup = h.pass.setup
  /\ hub'.pass.open => at'.where = "opening"

\* The loop goes on, and backs off when it finds no server to try.
LEMMA ResumeIs ==
  ASSUME NEW h, HubOK(h), Resume(h)
  PROVE  MovesOn(h)
<1> DEFINE loop == Loop(h)
           back == Backoff(h, loop.at.last)
<1>1. /\ AtOK(loop.at) /\ loop.at.where \in {"opening", "nothing"} /\ HubOK(loop.hub)
      /\ loop.hub.pass.setup = h.pass.setup
      /\ \/ loop.at.where = "nothing" /\ Settled(h, loop.hub)
         \/ Entries(h) # << >> /\ loop.hub = h
  BY LoopIs
<1>2. AtOK(back.at) /\ back.at.where = "backoff" /\ Settled(h, back.hub)
  BY BackoffIs
<1>3. \/ Entries(h) # << >> /\ loop.at.where = "nothing" /\ hub' = back.hub /\ at' = back.at
      \/ ~(Entries(h) # << >> /\ loop.at.where = "nothing") /\ hub' = loop.hub /\ at' = loop.at
  BY DEF Resume
<1> HIDE DEF loop, back
<1> QED BY <1>1, <1>2, <1>3 DEF MovesOn, Settled

\* A server given up on, or left alone, is none the pass depends on.
LEMMA GivenUpIs ==
  ASSUME NEW h, HubOK(h), NEW e
  PROVE  /\ HubOK(GiveUpOn(h, e)) /\ Same(h, GiveUpOn(h, e))
         /\ HubOK(Shun(h, e)) /\ Same(h, Shun(h, e))
BY DEF HubOK, HubFields, Same, GiveUpOn, Shun

\* A session, or an opening, that ends.
LEMMA LeaveIs ==
  ASSUME NEW h, HubOK(h), AtOK(at), at.where \in {"opening", "open"},
         NEW exit \in {"Unreachable", "Refused", "NoPush", "Lost", "Reprobe"},
         exit = "Reprobe" => ~h.pass.open, Leave(h, exit)
  PROVE  MovesOn(h)
<1> DEFINE after == After(h, exit)
<1>1. hub' = after.hub /\ at' = after.at
  BY DEF Leave
<1>2. CASE exit = "Lost"
  <2>1. after = Backoff(h, "Lost")
    BY <1>2 DEF After
  <2> HIDE DEF after
  <2> QED BY <1>1, <2>1, BackoffIs DEF MovesOn, Settled
<1>3. CASE exit = "Reprobe"
  <2>1. after = Loop(h)
    BY <1>3 DEF After
  <2> HIDE DEF after
  <2>2. /\ AtOK(after.at) /\ after.at.where \in {"opening", "nothing"} /\ HubOK(after.hub)
        /\ after.hub.pass.setup = h.pass.setup /\ ~after.hub.pass.open
    BY <1>3, <2>1, LoopIs DEF Settled
  <2> QED BY <1>1, <2>2 DEF MovesOn
<1>4. CASE exit \in {"Unreachable", "Refused", "NoPush"}
  <2> DEFINE left == CASE exit = "Unreachable" -> GiveUpOn(h, at.e)
                       [] exit = "Refused" -> Shun(h, at.e)
                       [] OTHER -> h
             next == TryFrom(left, at.stage, at.e, at.esplora, exit)
  <2>1. HubOK(left) /\ left.pass = h.pass
    BY <1>4, GivenUpIs DEF Same
  <2>2. after = IF next.where = "nothing" THEN Backoff(left, next.last)
                ELSE [hub |-> left, at |-> next]
    BY <1>4 DEF After
  <2> HIDE DEF after, left
  <2>3. at.stage \in {"electrum", "push", "poll"}
    BY DEF AtOK, Stages
  <2>4. AtOK(next) /\ next.where \in {"opening", "nothing"}
    BY <2>1, <2>3, TryIsOK DEF HubOK
  <2> HIDE DEF next
  <2>5. CASE next.where = "nothing"
    <3>1. after = Backoff(left, next.last)
      BY <2>2, <2>5
    <3>2. AtOK(after.at) /\ after.at.where = "backoff" /\ Settled(left, after.hub)
      BY <2>1, <3>1, BackoffIs
    <3> QED BY <1>1, <2>1, <3>2 DEF MovesOn, Settled
  <2>6. CASE next.where = "opening"
    <3>1. after.hub = left /\ after.at = next
      BY <2>2, <2>6
    <3> QED BY <1>1, <2>1, <2>4, <2>6, <3>1 DEF MovesOn
  <2> QED BY <2>4, <2>5, <2>6
<1> QED BY <1>2, <1>3, <1>4

-----------------------------------------------------------------------------
(* The inductive invariant.                                                *)

\* Readings of the setup are kept in the order they were made; the last one
\* is the setup, or was handed over and every other is behind it.
Matches(r) == r.config = config /\ r.list = ListOf(present, hold)
Reading(C, L) == [config : C, list : L, stale : BOOLEAN]
ReadingsInv ==
  /\ config \in HubConfigs
  /\ \E L : readings \in Seq(Reading(HubConfigs, L))
  /\ \/ /\ readings # << >>
        /\ ~readings[Len(readings)].stale /\ Matches(readings[Len(readings)])
     \/ Matches(running) /\ \A i \in DOMAIN readings : readings[i].stale

\* A command that counts as a setup carries its number; the last of them
\* carries the handle's, which is the watcher's once it took them all.
Counted(c) == c.kind # "tick" /\ c.count > 0
Command(L) ==
  [kind : {"tick"}] \cup [kind : {"wallets"}, list : L, count : Nat]
    \cup [kind : {"reconfigure"}, config : HubConfigs, list : L, count : Nat \ {0}]
CommandsInv ==
  /\ setups \in Nat
  /\ \E L : commands \in Seq(Command(L))
  /\ \A k \in DOMAIN commands : Counted(commands[k]) => commands[k].count <= setups
  /\ hub.pass.setup <= setups
  /\ at.where # "stopped" =>
       \/ /\ hub.pass.setup = setups
          /\ \A k \in DOMAIN commands : ~Counted(commands[k])
       \/ \E k \in DOMAIN commands :
            /\ Counted(commands[k]) /\ commands[k].count = setups
            /\ \A j \in DOMAIN commands : j > k => ~Counted(commands[j])

\* The queue holds events of three kinds, within its bound.
EventsOK ==
  /\ \E E : events \in Seq(E)
  /\ \A k \in DOMAIN events : events[k].kind \in {"block", "changed", "confirmed"}
  /\ Len(events) <= EVENT_QUEUE

\* The supervisor serves the server it talks to, and the queue has its bound.
WaitsInv ==
  /\ HubOK(hub) /\ AtOK(at) /\ PassIsMade
  /\ at.where = "open" => hub.serving # NONE
  /\ EventsOK

\* Every wallet holds a status for every script.
HoldInv == truth \in [Scripts -> Int] /\ hold \in [Ids -> [Scripts -> Int]]

\* The inductive invariant: what HubInv says of a command not sent yet, or
\* a setup not handed over, depends on all of those still on their way.
HubIInv == HoldInv /\ ReadingsInv /\ CommandsInv /\ WaitsInv

\* It implies what the hub promises.
LEMMA HubPromises == HubIInv => HubInv
<1> SUFFICES ASSUME HubIInv PROVE HubInv
  OBVIOUS
<1>1. HoldInv /\ ReadingsInv /\ CommandsInv /\ WaitsInv
  BY DEF HubIInv
<1>2. HubTypeOK /\ PassIsMade
  BY <1>1 DEF WaitsInv, EventsOK, AtOK, HubTypeOK
<1>3. LatestSetup
  BY <1>1 DEF ReadingsInv, Matches, LatestSetup
<1>4. SetupsTaken
  BY <1>1 DEF CommandsInv, Counted, SetupsTaken
<1> QED BY <1>2, <1>3, <1>4 DEF HubInv

-----------------------------------------------------------------------------
(* Steps of the watcher.                                                   *)

\* A step of the watcher alone leaves the readings as they are.
LEMMA ReadingsAside ==
  ASSUME ReadingsInv, UNCHANGED <<config, readings, running, present, hold>>
  PROVE  ReadingsInv'
BY DEF ReadingsInv, Matches, Reading

\* Neither are the commands touched, nor the setup of the pass.
LEMMA CommandsAside ==
  ASSUME CommandsInv, UNCHANGED <<setups, commands>>, hub'.pass.setup = hub.pass.setup,
         at'.where # "stopped" => at.where # "stopped"
  PROVE  CommandsInv'
<1>1. /\ setups' \in Nat /\ hub'.pass.setup <= setups'
      /\ \A k \in DOMAIN commands' : Counted(commands'[k]) => commands'[k].count <= setups'
  BY DEF CommandsInv
<1>2. \E L : commands' \in Seq(Command(L))
  BY DEF CommandsInv
<1>3. at'.where # "stopped" =>
        \/ /\ hub'.pass.setup = setups'
           /\ \A k \in DOMAIN commands' : ~Counted(commands'[k])
        \/ \E k \in DOMAIN commands' :
             /\ Counted(commands'[k]) /\ commands'[k].count = setups'
             /\ \A j \in DOMAIN commands' : j > k => ~Counted(commands'[j])
  BY DEF CommandsInv
<1> QED BY <1>1, <1>2, <1>3 DEF CommandsInv, Counted, Command

\* An event sent to the queue when it has room.
LEMMA EventSent ==
  ASSUME EventsOK, NEW event, events' = Append(events, event), Len(events) < EVENT_QUEUE,
         event.kind \in {"block", "changed", "confirmed"}
  PROVE  EventsOK'
<1>1. PICK E : events \in Seq(E)
  BY DEF EventsOK
<1>2. events \in Seq(E \cup {event}) /\ event \in E \cup {event}
  BY <1>1
<1>3. /\ events' \in Seq(E \cup {event}) /\ Len(events') = Len(events) + 1 /\ Len(events) \in Nat
      /\ DOMAIN events' = 1..(Len(events) + 1) /\ DOMAIN events = 1..Len(events)
      /\ events'[Len(events) + 1] = event /\ \A k \in 1..Len(events) : events'[k] = events[k]
  BY <1>2
<1>4. \A k \in DOMAIN events' : events'[k].kind \in {"block", "changed", "confirmed"}
  BY <1>3 DEF EventsOK
<1>5. Len(events') <= EVENT_QUEUE
  BY <1>3, HubAssumption
<1> QED BY <1>3, <1>4, <1>5 DEF EventsOK

\* A block is an event, lost when the queue is full.
LEMMA BlockSent ==
  ASSUME EventsOK, NEW height, events' = BlockEvents(hub, events, height)
  PROVE  EventsOK'
<1>1. CASE events' = events
  BY <1>1 DEF EventsOK
<1>2. CASE Len(events) < EVENT_QUEUE /\ events' = Append(events, [kind |-> "block"])
  BY <1>2, EventSent
<1> QED BY <1>1, <1>2 DEF BlockEvents, TrySend

\* A step of the watcher that goes on to another wait.
LEMMA WatcherStep ==
  ASSUME HubIInv, UNCHANGED <<outside, commands, events>>, at.where # "stopped", MovesOn(hub)
  PROVE  HubIInv'
<1>1. HoldInv /\ ReadingsInv /\ CommandsInv /\ WaitsInv
  BY DEF HubIInv
<1>2. ReadingsInv'
  BY <1>1, ReadingsAside DEF outside, relay
<1>hold. HoldInv'
  BY <1>1 DEF HoldInv, outside
<1>3. CommandsInv'
  BY <1>1, CommandsAside DEF outside, handle, MovesOn
<1>4. WaitsInv'
  BY <1>1 DEF WaitsInv, EventsOK, MovesOn, PassIsMade, HubOK
<1> QED BY <1>2, <1>hold, <1>3, <1>4 DEF HubIInv

\* A step of the watcher where it waits.
LEMMA QuietStep ==
  ASSUME HubIInv, UNCHANGED <<outside, commands, at>>, Same(hub, hub'), EventsOK'
  PROVE  HubIInv'
<1>1. HoldInv /\ ReadingsInv /\ CommandsInv /\ WaitsInv
  BY DEF HubIInv
<1>2. ReadingsInv'
  BY <1>1, ReadingsAside DEF outside, relay
<1>hold. HoldInv'
  BY <1>1 DEF HoldInv, outside
<1>3. CommandsInv'
  BY <1>1, CommandsAside DEF outside, handle, Same
<1>4. HubOK(hub') /\ AtOK(at') /\ PassIsMade' /\ (at'.where = "open" => hub'.serving # NONE)
  BY <1>1 DEF WaitsInv, Same, HubOK, PassIsMade
<1>5. WaitsInv'
  BY <1>4 DEF WaitsInv, EventsOK
<1> QED BY <1>2, <1>hold, <1>3, <1>5 DEF HubIInv

\* A session that opens settles the pass and serves its server.
LEMMA OpensStep ==
  ASSUME HubIInv, UNCHANGED <<outside, commands>>, EventsOK',
         at.where = "opening", at' = [at EXCEPT !.where = "open"],
         DOMAIN hub' = DOMAIN hub, hub'.config = hub.config,
         hub'.pass = [hub.pass EXCEPT !.open = FALSE], hub'.serving = at.e
  PROVE  HubIInv'
<1>1. HoldInv /\ ReadingsInv /\ CommandsInv /\ WaitsInv
  BY DEF HubIInv
<1>2. ReadingsInv'
  BY <1>1, ReadingsAside DEF outside, relay
<1>hold. HoldInv'
  BY <1>1 DEF HoldInv, outside
<1>3. HubOK(hub) /\ AtOK(at)
  BY <1>1 DEF WaitsInv
<1>4. hub'.pass.setup = hub.pass.setup /\ ~hub'.pass.open /\ at'.where = "open" /\ at'.e = at.e
  BY <1>3 DEF HubOK, AtOK
<1>5. CommandsInv'
  BY <1>1, <1>4, CommandsAside DEF outside, handle
<1>6. AtOK(at') /\ HubOK(hub')
  BY <1>3, <1>4 DEF HubOK, AtOK, Where
<1>7. hub'.serving # NONE
  BY <1>3, HubAssumption DEF AtOK
<1>8. WaitsInv'
  BY <1>4, <1>6, <1>7 DEF WaitsInv, EventsOK, PassIsMade
<1> QED BY <1>2, <1>hold, <1>5, <1>8 DEF HubIInv

\* What the hub notes beside its pass.
LEMMA NotesAre ==
  ASSUME NEW h, HubOK(h), NEW x
  PROVE  /\ Same(h, h) /\ Same(h, SetRefusals(h, x)) /\ Same(h, RetryLimit(h))
         /\ Same(h, NewTip(h, x)) /\ Same(h, CaughtUp(h)) /\ Same(h, Apply(h, x))
         /\ Same(h, AskLess(h, x).hub) /\ Same(h, Forgotten(x, h))
<1>1. \A r : Same(h, SetRefusals(h, r))
  BY DEF Same, HubOK, HubFields, SetRefusals
<1>2. Same(h, h) /\ Same(h, RetryLimit(h))
  BY <1>1 DEF Same, RetryLimit
<1>3. Same(h, NewTip(h, x)) /\ Same(h, CaughtUp(h))
  BY DEF Same, HubOK, HubFields, NewTip, CaughtUp
<1>4. Same(h, Apply(h, x)) /\ Same(h, Forgotten(x, h))
  BY DEF Same, HubOK, HubFields, Apply, Forgotten
<1>5. Same(h, AskLess(h, x).hub)
  BY <1>1, <1>2 DEF AskLess
<1> QED BY <1>1, <1>2, <1>3, <1>4, <1>5

\* What notes nothing of the pass keeps the hub well, however often.
LEMMA SameSame ==
  ASSUME NEW h, NEW g, HubOK(h), Same(h, g)
  PROVE  HubOK(g) /\ \A f : Same(g, f) => Same(h, f)
BY DEF Same, HubOK

\* The first answers settled note what they say, and nothing of the pass.
LEMMA ReadyIs ==
  ASSUME NEW h, HubOK(h), NEW p, NEW x, SettleReady(h, p, x)
  PROVE  Same(h, hub')
<1>1. CASE hub' = h
  BY <1>1 DEF Same
<1>2. CASE hub' = CaughtUp(SetRefusals(h, [RefusalsOf(h) EXCEPT !.leftOut = {}]))
  <2> DEFINE g == SetRefusals(h, [RefusalsOf(h) EXCEPT !.leftOut = {}])
  <2>1. Same(h, g)
    BY NotesAre
  <2> HIDE DEF g
  <2>2. HubOK(g)
    BY <2>1, SameSame
  <2>3. Same(g, CaughtUp(g))
    BY <2>2, NotesAre
  <2>4. hub' = CaughtUp(g)
    BY <1>2 DEF g
  <2> QED BY <2>1, <2>3, <2>4, SameSame
<1> QED BY <1>1, <1>2 DEF SettleReady

\* What the invariant says of the watcher, for the steps below.
LEMMA WatcherIs ==
  ASSUME HubIInv
  PROVE  HubOK(hub) /\ AtOK(at) /\ PassIsMade /\ EventsOK /\ (at.where = "open" => ~hub.pass.open)
BY DEF HubIInv, WaitsInv, EventsOK, PassIsMade

\* A connection opens, or does not.
LEMMA ConnectingStep == HubIInv /\ Connecting => HubIInv'
<1> SUFFICES ASSUME HubIInv, Connecting PROVE HubIInv'
  OBVIOUS
<1>1. HubOK(hub) /\ AtOK(at) /\ EventsOK
  BY WatcherIs
<1>2. \A h, e : HubOK(h) => /\ DOMAIN Serve(h, e) = DOMAIN h /\ Serve(h, e).config = h.config
                            /\ Serve(h, e).pass = [h.pass EXCEPT !.open = FALSE]
                            /\ Serve(h, e).serving = e
  <2> SUFFICES ASSUME NEW h, NEW e, HubOK(h)
               PROVE  /\ DOMAIN Serve(h, e) = DOMAIN h /\ Serve(h, e).config = h.config
                      /\ Serve(h, e).pass = [h.pass EXCEPT !.open = FALSE]
                      /\ Serve(h, e).serving = e
    OBVIOUS
  <2> QED BY DEF Serve, Settle, HubOK, HubFields
<1>3. HubOK(Serve(hub, at.e))
  <2>1. /\ DOMAIN Serve(hub, at.e) = DOMAIN hub /\ Serve(hub, at.e).config = hub.config
        /\ Serve(hub, at.e).pass = [hub.pass EXCEPT !.open = FALSE]
    BY <1>1, <1>2
  <2> QED BY <1>1, <2>1 DEF HubOK
<1>4. CASE ElectrumOpens
  <2>1. /\ at.where = "opening" /\ at' = [at EXCEPT !.where = "open"]
        /\ hub' = Serve(RetryLimit(hub), at.e) /\ UNCHANGED <<outside, commands, events>>
    BY <1>4 DEF ElectrumOpens
  <2>2. Same(hub, RetryLimit(hub))
    BY <1>1, NotesAre
  <2>3. HubOK(RetryLimit(hub))
    BY <1>1, <2>2, SameSame
  <2>4. /\ DOMAIN hub' = DOMAIN hub /\ hub'.config = hub.config
        /\ hub'.pass = [hub.pass EXCEPT !.open = FALSE] /\ hub'.serving = at.e
    BY <1>2, <2>1, <2>2, <2>3 DEF Same
  <2>5. EventsOK'
    BY <1>1, <2>1 DEF EventsOK
  <2> QED BY <2>1, <2>4, <2>5, OpensStep
<1>5. CASE PushOpens
  <2>1. /\ at.where = "opening" /\ at' = [at EXCEPT !.where = "open"]
        /\ hub' = CaughtUp(Serve(hub, at.e)) /\ UNCHANGED <<outside, commands, events>>
    BY <1>5 DEF PushOpens
  <2>2. HubOK(Serve(hub, at.e))
    BY <1>1, <1>3, <2>1
  <2>3. Same(Serve(hub, at.e), hub')
    BY <2>1, <2>2, NotesAre
  <2>4. /\ DOMAIN hub' = DOMAIN hub /\ hub'.config = hub.config
        /\ hub'.pass = [hub.pass EXCEPT !.open = FALSE] /\ hub'.serving = at.e
    BY <1>1, <1>2, <2>3 DEF Same
  <2>5. EventsOK'
    BY <1>1, <2>1 DEF EventsOK
  <2> QED BY <2>1, <2>4, <2>5, OpensStep
<1>6. ASSUME NEW height \in 0..MaxHeight, PollOpens(height) PROVE HubIInv'
  <2> DEFINE tipped == NewTip(hub, height)
             applied == Apply(tipped, Plan(hub, 0, HOT))
             caught == CaughtUp(applied)
  <2>1. /\ at.where = "opening" /\ at' = [at EXCEPT !.where = "open"]
        /\ hub' = Serve(caught, at.e) /\ UNCHANGED <<outside, commands>>
        /\ events' = BlockEvents(hub, events, height)
    BY <1>6 DEF PollOpens
  <2>2. Same(hub, tipped) /\ HubOK(tipped)
    BY <1>1, NotesAre, SameSame
  <2> HIDE DEF tipped
  <2>3. Same(tipped, applied) /\ HubOK(applied)
    BY <2>2, NotesAre, SameSame
  <2> HIDE DEF applied
  <2>4. Same(applied, caught) /\ HubOK(caught)
    BY <2>3, NotesAre, SameSame
  <2> HIDE DEF caught
  <2>5. Same(hub, caught)
    BY <1>1, <2>2, <2>3, <2>4, SameSame
  <2>6. /\ DOMAIN hub' = DOMAIN hub /\ hub'.config = hub.config
        /\ hub'.pass = [hub.pass EXCEPT !.open = FALSE] /\ hub'.serving = at.e
    BY <1>2, <2>1, <2>4, <2>5 DEF Same
  <2>7. EventsOK'
    BY <1>1, <2>1, BlockSent
  <2> QED BY <2>1, <2>6, <2>7, OpensStep
<1>7. ASSUME NEW kind \in {"unreachable", "network", "nopush"}, NotOpened(kind) PROVE HubIInv'
  <2>1. at.where = "opening" /\ UNCHANGED <<outside, commands, events>>
    BY <1>7 DEF NotOpened
  <2>2. \E exit \in {"Unreachable", "Refused", "NoPush"} : Leave(hub, exit)
    BY <1>7 DEF NotOpened
  <2>3. MovesOn(hub)
    BY <1>1, <2>1, <2>2, LeaveIs
  <2> QED BY <2>1, <2>3, WatcherStep
<1> QED BY <1>4, <1>5, <1>6, <1>7 DEF Connecting

\* A subscription is answered, or refused.
LEMMA AnsweringStep == HubIInv /\ Answering => HubIInv'
<1> SUFFICES ASSUME HubIInv, NEW s \in Scripts,
                    StatusAnswered(s) \/ (\E named \in BOOLEAN : Refused(s, named))
             PROVE  HubIInv'
  BY DEF Answering
<1>1. HubOK(hub) /\ EventsOK
  BY WatcherIs
<1>2. UNCHANGED <<outside, commands, at, events>>
  BY DEF StatusAnswered, Refused
<1>3. \E h, p, x : Same(hub, h) /\ SettleReady(h, p, x)
  <2>1. CASE StatusAnswered(s)
    <3> DEFINE acked == ses.acked + 1
               h1 == IF ses.atLimit
                     THEN SetRefusals(hub, W!Learn(RefusalsOf(hub), Max({RefusalsOf(hub).limit, acked})))
                     ELSE hub
               h2 == IF s \in EntryScripts(h1) THEN [h1 EXCEPT !.statuses[s] = truth[s]] ELSE h1
    <3>1. Same(hub, h1) /\ HubOK(h1)
      <4>1. \A r : Same(hub, SetRefusals(hub, r)) /\ Same(hub, hub)
        BY <1>1, NotesAre
      <4>2. Same(hub, h1)
        BY <4>1
      <4> HIDE DEF h1
      <4> QED BY <1>1, <4>2, SameSame
    <3>2. \E p, x : SettleReady(h2, p, x)
      BY <2>1 DEF StatusAnswered
    <3> HIDE DEF h1
    <3>3. h2 = h1 \/ h2 = [h1 EXCEPT !.statuses = [h1.statuses EXCEPT ![s] = truth[s]]]
      OBVIOUS
    <3>4. Same(h1, h2)
      <4> HIDE DEF h2
      <4> QED BY <3>1, <3>3 DEF Same, HubOK, HubFields
    <3> HIDE DEF h2
    <3> QED BY <1>1, <3>1, <3>2, <3>4, SameSame
  <2>2. ASSUME NEW named \in BOOLEAN, Refused(s, named)
        PROVE  \E h, p, x : Same(hub, h) /\ SettleReady(h, p, x)
    <3>1. \E r, p, x : SettleReady(SetRefusals(hub, r), p, x)
      BY <2>2 DEF Refused
    <3> QED BY <1>1, <3>1, NotesAre
  <2> QED BY <2>1, <2>2
<1>4. Same(hub, hub')
  BY <1>1, <1>3, ReadyIs, SameSame
<1>5. EventsOK'
  BY <1>1, <1>2 DEF EventsOK
<1> QED BY <1>2, <1>4, <1>5, QuietStep

\* A status is pushed, or a block.
LEMMA HearingStep == HubIInv /\ Hearing => HubIInv'
<1> SUFFICES ASSUME HubIInv, Hearing PROVE HubIInv'
  OBVIOUS
<1>1. HubOK(hub) /\ EventsOK
  BY WatcherIs
<1>2. ASSUME NEW s \in Scripts, Notified(s) \/ Framed(s) PROVE HubIInv'
  <2>1. UNCHANGED <<outside, commands, at, events>>
    BY <1>2 DEF Notified, Framed
  <2>2. hub' = hub \/ \E x : hub' = [hub EXCEPT !.statuses = x]
    BY <1>2 DEF Notified, Framed
  <2>3. Same(hub, hub')
    BY <1>1, <2>2 DEF Same, HubOK, HubFields
  <2>4. EventsOK'
    BY <1>1, <2>1 DEF EventsOK
  <2> QED BY <2>1, <2>3, <2>4, QuietStep
<1>3. ASSUME NEW height \in 0..MaxHeight, TipHeard(height) PROVE HubIInv'
  <2>1. /\ UNCHANGED <<outside, commands, at>> /\ hub' = NewTip(hub, height)
        /\ events' = BlockEvents(hub, events, height)
    BY <1>3 DEF TipHeard
  <2>2. Same(hub, hub')
    BY <1>1, <2>1, NotesAre
  <2>3. EventsOK'
    BY <1>1, <2>1, BlockSent
  <2> QED BY <2>1, <2>2, <2>3, QuietStep
<1> QED BY <1>2, <1>3 DEF Hearing

\* A session that ends, of a hub that noted something beside its pass.
LEMMA EndsStep ==
  ASSUME HubIInv, UNCHANGED <<outside, commands, events>>, at.where \in {"opening", "open"},
         NEW h, Same(hub, h), NEW exit \in {"Unreachable", "Refused", "NoPush", "Lost", "Reprobe"},
         exit = "Reprobe" => at.where = "open", Leave(h, exit)
  PROVE  HubIInv'
<1>1. HubOK(hub) /\ AtOK(at) /\ (at.where = "open" => ~hub.pass.open)
  BY WatcherIs
<1>2. HubOK(h) /\ h.pass = hub.pass
  BY <1>1, SameSame DEF Same
<1>3. MovesOn(h)
  BY <1>1, <1>2, LeaveIs
<1>4. MovesOn(hub)
  BY <1>2, <1>3 DEF MovesOn
<1> QED BY <1>4, WatcherStep

\* A step that leaves the hub and its supervisor as they are.
LEMMA StillStep ==
  ASSUME HubIInv, UNCHANGED <<outside, commands, events, hub, at>>
  PROVE  HubIInv'
<1>1. HubOK(hub) /\ EventsOK
  BY WatcherIs
<1>2. Same(hub, hub')
  BY DEF Same
<1>3. EventsOK'
  BY <1>1 DEF EventsOK
<1> QED BY <1>2, <1>3, QuietStep

\* The proof of a confirmation ends.
LEMMA ProvingStep == HubIInv /\ Proving => HubIInv'
<1> SUFFICES ASSUME HubIInv, NEW s \in Scripts, NEW outcome \in {"holds", "unsure", "false"},
                    Proved(s, outcome)
             PROVE  HubIInv'
  BY DEF Proving
<1>1. /\ UNCHANGED <<outside, commands, events>> /\ at.where = "open"
      /\ UNCHANGED <<hub, at>> \/ Leave(hub, "Refused")
  BY DEF Proved, ElectrumOpen
<1>2. Same(hub, hub)
  BY DEF Same
<1> QED BY <1>1, <1>2, StillStep, EndsStep

\* A round of polling begins, ends or fails.
LEMMA PollingStep == HubIInv /\ Polling => HubIInv'
<1> SUFFICES ASSUME HubIInv, Polling PROVE HubIInv'
  OBVIOUS
<1>1. HubOK(hub) /\ EventsOK /\ Same(hub, hub)
  BY WatcherIs DEF Same
<1>2. ASSUME NEW height \in 0..MaxHeight, PollEnds(height) PROVE HubIInv'
  <2> DEFINE h == IF ses.kind = "poll" THEN NewTip(hub, height) ELSE hub
             plan == [scripts |-> ses.looked, turn |-> h.turn]
  <2>1. /\ UNCHANGED <<outside, commands, at>> /\ hub' = Apply(h, plan)
        /\ events' \in {events, BlockEvents(hub, events, height)}
    BY <1>2 DEF PollEnds
  <2>2. Same(hub, h) /\ HubOK(h)
    BY <1>1, NotesAre, SameSame
  <2> HIDE DEF h
  <2>3. Same(h, Apply(h, plan))
    BY <2>2, NotesAre
  <2>4. Same(hub, hub')
    BY <1>1, <2>1, <2>2, <2>3, SameSame
  <2>5. events' = events => EventsOK'
    BY <1>1 DEF EventsOK
  <2>6. EventsOK'
    BY <1>1, <2>1, <2>5, BlockSent
  <2> QED BY <2>1, <2>4, <2>6, QuietStep
<1>3. CASE RoundBegins
  <2>1. /\ UNCHANGED <<outside, commands, at, events>>
        /\ \E x : hub' = [hub EXCEPT !.turn = x]
    BY <1>3 DEF RoundBegins
  <2>2. Same(hub, hub')
    BY <1>1, <2>1 DEF Same, HubOK, HubFields
  <2>3. EventsOK'
    BY <1>1, <2>1 DEF EventsOK
  <2> QED BY <2>1, <2>2, <2>3, QuietStep
<1>4. CASE RoundFails
  <2>1. /\ UNCHANGED <<outside, commands, events>> /\ at.where = "open"
        /\ UNCHANGED <<hub, at>> \/ Leave(hub, "Lost")
    BY <1>4 DEF RoundFails
  <2> QED BY <1>1, <2>1, StillStep, EndsStep
<1>5. CASE PollReprobes
  <2>1. UNCHANGED <<outside, commands, events>> /\ at.where = "open" /\ Leave(hub, "Reprobe")
    BY <1>5 DEF PollReprobes
  <2> QED BY <1>1, <2>1, EndsStep
<1> QED BY <1>2, <1>3, <1>4, <1>5 DEF Polling

\* A server names its limit, or cuts the session for its cost.
LEMMA LimitingStep == HubIInv /\ Limiting => HubIInv'
<1> SUFFICES ASSUME HubIInv, Limiting PROVE HubIInv'
  OBVIOUS
<1>1. HubOK(hub) /\ EventsOK /\ Same(hub, hub)
  BY WatcherIs DEF Same
<1>2. CostExit(FALSE) \in {"Refused", "Unreachable"} /\ CostExit(TRUE) \in {"Refused", "Lost"}
  BY HubAssumption DEF CostExit
<1>3. \A kept : Same(hub, AskLess(hub, kept).hub)
  BY <1>1, NotesAre
<1>4. CASE HelloCostly
  <2>1. UNCHANGED <<outside, commands, events>> /\ at.where = "opening"
    BY <1>4 DEF HelloCostly
  <2>2. \E h : Same(hub, h) /\ Leave(h, CostExit(FALSE))
    BY <1>1, <1>3, <1>4 DEF HelloCostly
  <2> QED BY <1>2, <2>1, <2>2, EndsStep
<1>5. ASSUME at.where = "open", UNCHANGED <<outside, commands, events>>, Cut PROVE HubIInv'
  <2>1. \E h : Same(hub, h) /\ Leave(h, CostExit(TRUE))
    BY <1>3, <1>5 DEF Cut
  <2> QED BY <1>2, <1>5, <2>1, EndsStep
<1>6. CASE CutForCost
  BY <1>5, <1>6 DEF CutForCost, ElectrumOpen
<1>7. CASE LimitAskedAgain
  <2>1. UNCHANGED <<outside, commands, events>> /\ at.where = "open" /\ Leave(hub, "Reprobe")
    BY <1>7 DEF LimitAskedAgain, ElectrumOpen
  <2> QED BY <1>1, <2>1, EndsStep
<1>8. ASSUME NEW s \in Scripts, Busy(s) PROVE HubIInv'
  <2>1. /\ UNCHANGED <<outside, commands, events>> /\ at.where = "open"
        /\ UNCHANGED <<hub, at>> \/ Cut
    BY <1>8 DEF Busy, ElectrumOpen
  <2> QED BY <1>5, <2>1, StillStep
<1>9. ASSUME NEW limit \in 0..FIRST_ASK, TrackRefused(limit) PROVE HubIInv'
  <2>1. UNCHANGED <<outside, commands, at, events>> /\ hub' = [hub EXCEPT !.track = limit]
    BY <1>9 DEF TrackRefused
  <2>2. Same(hub, hub')
    BY <1>1, <2>1 DEF Same, HubOK, HubFields
  <2>3. EventsOK'
    BY <1>1, <2>1 DEF EventsOK
  <2> QED BY <2>1, <2>2, <2>3, QuietStep
<1> QED BY <1>4, <1>6, <1>7, <1>8, <1>9 DEF Limiting

\* A session is lost, a wait ends, a server is tried again.
LEMMA LeavingStep == HubIInv /\ Leaving => HubIInv'
<1> SUFFICES ASSUME HubIInv, Leaving PROVE HubIInv'
  OBVIOUS
<1>1. HubOK(hub) /\ EventsOK /\ Same(hub, hub)
  BY WatcherIs DEF Same
<1>2. CASE SessionLost
  <2>1. UNCHANGED <<outside, commands, events>> /\ at.where = "open" /\ Leave(hub, "Lost")
    BY <1>2 DEF SessionLost
  <2> QED BY <1>1, <2>1, EndsStep
<1>3. CASE BackoffEnds
  <2>1. UNCHANGED <<outside, commands, events>> /\ at.where = "backoff" /\ Resume(hub)
    BY <1>3 DEF BackoffEnds
  <2>2. MovesOn(hub)
    BY <1>1, <2>1, ResumeIs
  <2> QED BY <2>1, <2>2, WatcherStep
<1>4. CASE ReprobeDue
  BY <1>4, StillStep DEF ReprobeDue
<1>5. ASSUME NEW e \in ElectrumServers, FoundBehind(e) PROVE HubIInv'
  <2>1. UNCHANGED <<outside, commands, events>> /\ at.where = "open"
    BY <1>5 DEF FoundBehind, ElectrumOpen
  <2>2. Same(hub, Shun(hub, e))
    BY <1>1, GivenUpIs
  <2>3. CASE Leave(Shun(hub, e), "Reprobe")
    BY <2>1, <2>2, <2>3, EndsStep
  <2>4. CASE hub' = Shun(hub, e) /\ UNCHANGED at
    <3>1. Same(hub, hub') /\ EventsOK'
      BY <1>1, <2>1, <2>2, <2>4 DEF EventsOK
    <3> QED BY <2>1, <2>4, <3>1, QuietStep
  <2> QED BY <1>5, <2>3, <2>4 DEF FoundBehind
<1>6. ASSUME NEW e \in HubEndpoints, ShunEnds(e) \/ LimitAges(e) PROVE HubIInv'
  <2>1. /\ UNCHANGED <<outside, commands, at, events>>
        /\ \E x : hub' = [hub EXCEPT !.shunned = x] \/ hub' = [hub EXCEPT !.refusals = x]
    BY <1>6 DEF ShunEnds, LimitAges
  <2>2. Same(hub, hub')
    BY <1>1, <2>1 DEF Same, HubOK, HubFields
  <2>3. EventsOK'
    BY <1>1, <2>1 DEF EventsOK
  <2> QED BY <2>1, <2>2, <2>3, QuietStep
<1> QED BY <1>2, <1>3, <1>4, <1>5, <1>6 DEF Leaving

\* A command taken: the pass is of its setup, when it counts as one.
LEMMA CommandTaken ==
  ASSUME CommandsInv, commands # << >>, commands' = Tail(commands), setups' = setups,
         at.where # "stopped",
         hub'.pass.setup = IF Counted(Head(commands)) THEN Head(commands).count ELSE hub.pass.setup
  PROVE  CommandsInv'
<1>1. PICK L : commands \in Seq(Command(L))
  BY DEF CommandsInv
<1> DEFINE n == Len(commands)
<1>2. /\ n \in Nat /\ n >= 1 /\ DOMAIN commands = 1..n /\ commands[1] = Head(commands)
      /\ commands' \in Seq(Command(L)) /\ DOMAIN commands' = 1..(n - 1)
      /\ \A j \in 1..(n - 1) : commands'[j] = commands[j + 1]
  BY <1>1
<1> HIDE DEF n
<1>3. setups \in Nat /\ hub.pass.setup <= setups /\ 1 \in DOMAIN commands
  BY <1>2 DEF CommandsInv
<1>4. hub'.pass.setup <= setups'
  BY <1>2, <1>3 DEF CommandsInv
<1>5. \A k \in DOMAIN commands' : Counted(commands'[k]) => commands'[k].count <= setups'
  BY <1>2 DEF CommandsInv
<1>6. CASE hub.pass.setup = setups /\ \A k \in DOMAIN commands : ~Counted(commands[k])
  <2>1. hub'.pass.setup = setups' /\ \A k \in DOMAIN commands' : ~Counted(commands'[k])
    BY <1>2, <1>3, <1>6
  <2> QED BY <1>1, <1>2, <1>3, <1>4, <1>5, <2>1 DEF CommandsInv, Counted, Command
<1>7. ASSUME NEW k \in DOMAIN commands, Counted(commands[k]), commands[k].count = setups,
             \A j \in DOMAIN commands : j > k => ~Counted(commands[j])
      PROVE  \/ hub'.pass.setup = setups' /\ \A j \in DOMAIN commands' : ~Counted(commands'[j])
             \/ \E m \in DOMAIN commands' :
                  /\ Counted(commands'[m]) /\ commands'[m].count = setups'
                  /\ \A j \in DOMAIN commands' : j > m => ~Counted(commands'[j])
  <2>1. CASE k = 1
    BY <1>2, <1>7, <2>1
  <2>2. CASE k > 1
    <3>1. k - 1 \in DOMAIN commands' /\ commands'[k - 1] = commands[k]
      BY <1>2, <2>2
    <3>2. \A j \in DOMAIN commands' : j > k - 1 => ~Counted(commands'[j])
      BY <1>2, <1>7
    <3> QED BY <1>7, <3>1, <3>2
  <2> QED BY <1>2, <2>1, <2>2
<1>8. \/ hub'.pass.setup = setups' /\ \A j \in DOMAIN commands' : ~Counted(commands'[j])
      \/ \E m \in DOMAIN commands' :
           /\ Counted(commands'[m]) /\ commands'[m].count = setups'
           /\ \A j \in DOMAIN commands' : j > m => ~Counted(commands'[j])
  BY <1>6, <1>7, <1>2, <1>3 DEF CommandsInv
<1> QED BY <1>1, <1>2, <1>3, <1>4, <1>5, <1>8 DEF CommandsInv, Counted, Command

\* A command sent: counted, with the number the handle then has, or not.
LEMMA CommandSent ==
  ASSUME CommandsInv, HubOK(hub), NEW c, commands' = Append(commands, c), UNCHANGED <<hub, at>>,
         \E M : c \in Command(M),
         \/ setups' = setups /\ ~Counted(c)
         \/ setups' = setups + 1 /\ Counted(c) /\ c.count = setups'
  PROVE  CommandsInv'
<1>1. PICK L : commands \in Seq(Command(L))
  BY DEF CommandsInv
<1>2. PICK M : c \in Command(M)
  OBVIOUS
<1>3. commands \in Seq(Command(L \cup M)) /\ c \in Command(L \cup M)
  BY <1>1, <1>2 DEF Command
<1> DEFINE n == Len(commands)
<1>4. /\ n \in Nat /\ DOMAIN commands = 1..n /\ commands' \in Seq(Command(L \cup M))
      /\ DOMAIN commands' = 1..(n + 1) /\ commands'[n + 1] = c
      /\ \A j \in 1..n : commands'[j] = commands[j]
  BY <1>3
<1> HIDE DEF n
<1>5. setups \in Nat /\ hub.pass.setup <= setups /\ setups' \in Nat /\ setups <= setups'
  BY DEF CommandsInv
<1>6. \A k \in 1..n : Counted(commands[k]) => commands[k].count <= setups /\ commands[k].count \in Nat
  <2> SUFFICES ASSUME NEW k \in 1..n, Counted(commands[k])
               PROVE  commands[k].count <= setups /\ commands[k].count \in Nat
    OBVIOUS
  <2>1. commands[k] \in Command(L) /\ commands[k].count <= setups
    BY <1>1, <1>4 DEF CommandsInv
  <2>2. commands[k].count \in Nat
    BY <2>1 DEF Command, Counted
  <2> QED BY <2>1, <2>2
<1>7. \A k \in DOMAIN commands' : Counted(commands'[k]) => commands'[k].count <= setups'
  BY <1>4, <1>5, <1>6
<1>8. hub'.pass.setup <= setups'
  BY <1>5 DEF HubOK
<1>9. ASSUME at'.where # "stopped"
      PROVE  \/ hub'.pass.setup = setups' /\ \A j \in DOMAIN commands' : ~Counted(commands'[j])
             \/ \E m \in DOMAIN commands' :
                  /\ Counted(commands'[m]) /\ commands'[m].count = setups'
                  /\ \A j \in DOMAIN commands' : j > m => ~Counted(commands'[j])
  <2>1. CASE Counted(c)
    BY <1>4, <2>1
  <2>2. CASE ~Counted(c)
    <3>1. setups' = setups
      BY <2>2
    <3>2. CASE hub.pass.setup = setups /\ \A k \in DOMAIN commands : ~Counted(commands[k])
      BY <1>4, <2>2, <3>1, <3>2
    <3>3. ASSUME NEW k \in DOMAIN commands, Counted(commands[k]), commands[k].count = setups,
                 \A j \in DOMAIN commands : j > k => ~Counted(commands[j])
          PROVE  \E m \in DOMAIN commands' :
                   /\ Counted(commands'[m]) /\ commands'[m].count = setups'
                   /\ \A j \in DOMAIN commands' : j > m => ~Counted(commands'[j])
      BY <1>4, <2>2, <3>1, <3>3
    <3> QED BY <1>9, <3>2, <3>3 DEF CommandsInv
  <2> QED BY <2>1, <2>2
<1> QED BY <1>4, <1>5, <1>7, <1>8, <1>9 DEF CommandsInv, Counted, Command

\* A wait that is left as it is.
LEMMA WaitIs ==
  ASSUME HubIInv, UNCHANGED <<at, events>>, HubOK(hub'),
         hub'.pass.open => at.where = "opening", at.where = "open" => hub'.serving # NONE
  PROVE  WaitsInv'
BY DEF HubIInv, WaitsInv, EventsOK, PassIsMade, HubOK

\* A command taken, wherever the supervisor then is.
LEMMA TakenStep ==
  ASSUME HubIInv, UNCHANGED outside, commands # << >>, commands' = Tail(commands),
         at.where # "stopped", WaitsInv',
         hub'.pass.setup = IF Counted(Head(commands)) THEN Head(commands).count ELSE hub.pass.setup
  PROVE  HubIInv'
<1>1. HoldInv /\ ReadingsInv /\ CommandsInv
  BY DEF HubIInv
<1>2. ReadingsInv' /\ HoldInv'
  BY <1>1, ReadingsAside DEF outside, relay, HoldInv
<1>3. CommandsInv'
  BY <1>1, CommandTaken DEF outside, handle
<1> QED BY <1>2, <1>3 DEF HubIInv

\* A wait gone on to, with the queue as it was.
LEMMA MovedIs ==
  ASSUME HubIInv, NEW h, MovesOn(h), UNCHANGED events
  PROVE  WaitsInv' /\ hub'.pass.setup = h.pass.setup
<1>1. HubOK(hub') /\ AtOK(at') /\ PassIsMade' /\ at'.where # "open" /\ hub'.pass.setup = h.pass.setup
  BY DEF MovesOn, PassIsMade, HubOK
<1>2. EventsOK
  BY WatcherIs
<1> QED BY <1>1, <1>2 DEF WaitsInv, EventsOK

\* A new list opens a pass only while no server is served.
LEMMA RelistedIs ==
  ASSUME NEW h, HubOK(h), NEW c, c.count \in Nat
  PROVE  LET g == Relisted(h, c)
         IN  /\ HubOK(g) /\ g.serving = h.serving
             /\ g.pass.setup = IF c.count > 0 THEN c.count ELSE h.pass.setup
             /\ g.pass.open => h.pass.open \/ g.reopened = TRUE
<1> DEFINE h1 == [h EXCEPT !.watched = NewWatched(c.list)]
           serving == h.serving # NONE
<1>1. Same(h, h1)
  BY DEF Same, HubOK, HubFields
<1>2. HubOK(h1) /\ h1.pass = h.pass /\ h1.serving = h.serving
  BY <1>1, SameSame DEF Same
<1> HIDE DEF h1
<1>3. CASE c.count = 0
  <2>1. Relisted(h, c) = h1
    BY <1>3 DEF Relisted, h1
  <2> QED BY <1>2, <1>3, <2>1
<1>4. CASE c.count > 0 /\ Entries(h) = << >> /\ Entries(h1) # << >> /\ ~serving
  <2>1. Relisted(h, c) = [OpenFirstPass(h1, c.count) EXCEPT !.reopened = TRUE]
    BY <1>4 DEF Relisted, h1
  <2> QED BY <1>2, <1>4, <2>1 DEF OpenFirstPass, HubOK, HubFields
<1>5. CASE c.count > 0 /\ ~(Entries(h) = << >> /\ Entries(h1) # << >> /\ ~serving)
  <2>1. Relisted(h, c) = [h1 EXCEPT !.pass.setup = c.count, !.pass.open = @ /\ ~serving]
    BY <1>5 DEF Relisted, h1
  <2> DEFINE g == [h1 EXCEPT !.pass.setup = c.count, !.pass.open = @ /\ ~serving]
  <2>2. /\ DOMAIN g = HubFields /\ g.config = h1.config /\ g.serving = h1.serving
        /\ DOMAIN g.pass = {"setup", "open"} /\ g.pass.setup = c.count
    BY <1>2 DEF HubOK, HubFields
  <2>3. g.pass.open = (h1.pass.open /\ ~serving)
    BY <1>2 DEF HubOK, HubFields
  <2>4. g.pass.open => h.pass.open /\ h.serving = NONE
    <3> HIDE DEF g
    <3> QED BY <1>2, <2>3
  <2> HIDE DEF g
  <2>5. Relisted(h, c) = g
    BY <2>1 DEF g
  <2> QED BY <1>2, <1>5, <2>2, <2>4, <2>5 DEF HubOK
<1>6. c.count = 0 \/ c.count > 0
  OBVIOUS
<1> QED BY <1>3, <1>4, <1>5, <1>6, Zenon

\* The command taken is one of those sent.
LEMMA HeadIs ==
  ASSUME CommandsInv, commands # << >>
  PROVE  LET c == Head(commands)
         IN  /\ c.kind \in {"tick", "wallets", "reconfigure"}
             /\ c.kind = "tick" => ~Counted(c)
             /\ c.kind = "wallets" => c.count \in Nat /\ (Counted(c) <=> c.count > 0)
             /\ c.kind = "reconfigure" => Counted(c) /\ c.count \in Nat /\ c.config \in HubConfigs
<1>1. PICK L : commands \in Seq(Command(L))
  BY DEF CommandsInv
<1>2. Head(commands) \in Command(L)
  BY <1>1
<1> DEFINE c == Head(commands)
<1>3. c \in Command(L)
  BY <1>2
<1> HIDE DEF c
<1>4. /\ c.kind \in {"tick", "wallets", "reconfigure"}
      /\ c.kind = "tick" => ~Counted(c)
      /\ c.kind = "wallets" => c.count \in Nat /\ (Counted(c) <=> c.count > 0)
      /\ c.kind = "reconfigure" => Counted(c) /\ c.count \in Nat /\ c.config \in HubConfigs
  BY <1>3 DEF Command, Counted
<1> QED BY <1>4 DEF c

\* The watcher takes a command.
LEMMA CommandedStep == HubIInv /\ Commanded => HubIInv'
<1> SUFFICES ASSUME HubIInv, Commanded PROVE HubIInv'
  OBVIOUS
<1> DEFINE c == Head(commands)
<1>1. /\ HubOK(hub) /\ AtOK(at) /\ PassIsMade /\ EventsOK /\ CommandsInv
      /\ at.where = "open" => ~hub.pass.open /\ hub.serving # NONE
  BY WatcherIs DEF HubIInv, WaitsInv
<1>2. /\ at.where # "stopped" /\ commands # << >> /\ commands' = Tail(commands)
      /\ UNCHANGED <<outside, events>>
  BY DEF Commanded, TakeReconfigure, TakeWallets, TakeTick
<1>3. /\ c.kind = "tick" => ~Counted(c)
      /\ c.kind = "wallets" => c.count \in Nat /\ (Counted(c) <=> c.count > 0)
      /\ c.kind = "reconfigure" => Counted(c) /\ c.count \in Nat /\ c.config \in HubConfigs
  BY <1>1, <1>2, HeadIs
<1> HIDE DEF c
<1>4. hub.pass.open => at.where = "opening"
  BY <1>1, <1>2 DEF PassIsMade
<1>5. CASE TakeReconfigure
  <2> DEFINE h == Reconfigured(hub, c)
  <2>1. c.kind = "reconfigure" /\ Resume(h)
    BY <1>5 DEF TakeReconfigure, c
  <2>2. HubOK(h) /\ h.pass.setup = c.count
    BY <1>1, <1>3, <2>1 DEF Reconfigured, ServeNone, OpenFirstPass, HubOK, HubFields
  <2> HIDE DEF h
  <2>3. WaitsInv' /\ hub'.pass.setup = c.count
    BY <1>2, <2>1, <2>2, ResumeIs, MovedIs
  <2> QED BY <1>2, <1>3, <2>1, <2>3, TakenStep DEF c
<1>6. CASE TakeTick
  <2>1. c.kind = "tick"
    BY <1>6 DEF TakeTick, c
  <2>2. \/ Resume(hub)
        \/ at.where = "open" /\ Leave(hub, "Reprobe")
        \/ UNCHANGED <<hub, at>>
    BY <1>6 DEF TakeTick, ElectrumOpen
  <2>3. WaitsInv' /\ hub'.pass.setup = hub.pass.setup
    <3>1. CASE Resume(hub)
      BY <1>1, <1>2, <3>1, ResumeIs, MovedIs
    <3>2. CASE at.where = "open" /\ Leave(hub, "Reprobe")
      <4>1. MovesOn(hub)
        BY <1>1, <3>2, LeaveIs
      <4> QED BY <1>2, <4>1, MovedIs
    <3>3. CASE UNCHANGED <<hub, at>>
      BY <1>1, <1>2, <1>4, <3>3, WaitIs
    <3> QED BY <2>2, <3>1, <3>2, <3>3
  <2> QED BY <1>2, <1>3, <2>1, <2>3, TakenStep DEF c
<1>7. CASE TakeWallets
  <2> DEFINE h == Relisted(hub, c)
  <2>1. c.kind = "wallets"
    BY <1>7 DEF TakeWallets, c
  <2>2. /\ HubOK(h) /\ h.serving = hub.serving
        /\ h.pass.setup = IF c.count > 0 THEN c.count ELSE hub.pass.setup
        /\ h.pass.open => hub.pass.open \/ h.reopened = TRUE
    BY <1>1, <1>3, <2>1, RelistedIs
  <2>3. at.where = "open" => ~h.pass.open
    BY <1>1, <2>2 DEF HubOK
  <2>4. \/ Resume(h) \/ Resume([h EXCEPT !.reopened = FALSE])
        \/ at.where = "open" /\ Leave(h, "Reprobe")
        \/ /\ at.where = "open" /\ UNCHANGED at
           /\ \E p, x : SettleReady(Forgotten(ses, h), p, x)
        \/ hub' = h /\ UNCHANGED at /\ at.where # "nothing" /\ ~(at.where = "backoff" /\ h.reopened)
    BY <1>7 DEF TakeWallets, c
  <2> HIDE DEF h
  <2>5. WaitsInv' /\ hub'.pass.setup = h.pass.setup
    <3>1. CASE Resume(h)
      BY <1>2, <2>2, <3>1, ResumeIs, MovedIs
    <3>2. CASE Resume([h EXCEPT !.reopened = FALSE])
      <4> DEFINE g == [h EXCEPT !.reopened = FALSE]
      <4>1. HubOK(g) /\ g.pass = h.pass
        BY <2>2 DEF HubOK, HubFields
      <4>2. Resume(g)
        BY <3>2
      <4> HIDE DEF g
      <4> QED BY <1>2, <4>1, <4>2, ResumeIs, MovedIs
    <3>3. CASE at.where = "open" /\ Leave(h, "Reprobe")
      <4>1. MovesOn(h)
        BY <1>1, <2>2, <2>3, <3>3, LeaveIs
      <4> QED BY <1>2, <4>1, MovedIs
    <3>4. ASSUME at.where = "open", UNCHANGED at, NEW p, NEW x, SettleReady(Forgotten(ses, h), p, x)
          PROVE  WaitsInv' /\ hub'.pass.setup = h.pass.setup
      <4> DEFINE g == Forgotten(ses, h)
      <4>1. Same(h, g) /\ HubOK(g)
        BY <2>2, NotesAre, SameSame
      <4> HIDE DEF g
      <4>2. Same(g, hub')
        BY <3>4, <4>1, ReadyIs DEF g
      <4>3. HubOK(hub') /\ hub'.pass = h.pass /\ hub'.serving = hub.serving
        BY <2>2, <4>1, <4>2, SameSame DEF Same
      <4>4. WaitsInv'
        BY <1>1, <1>2, <2>3, <3>4, <4>3, WaitIs
      <4> QED BY <4>3, <4>4
    <3>5. CASE hub' = h /\ UNCHANGED at /\ at.where # "nothing" /\ ~(at.where = "backoff" /\ h.reopened)
      <4>1. h.pass.open => at.where = "opening"
        <5>1. at.where \in {"opening", "open", "backoff"}
          BY <1>1, <1>2, <3>5 DEF AtOK, Where
        <5> QED BY <1>4, <2>2, <2>3, <3>5, <5>1
      <4>2. at.where = "open" => h.serving # NONE
        BY <1>1, <2>2
      <4> QED BY <1>2, <2>2, <3>5, <4>1, <4>2, WaitIs
    <3> QED BY <2>4, <3>1, <3>2, <3>3, <3>4, <3>5
  <2>6. hub'.pass.setup = IF Counted(c) THEN c.count ELSE hub.pass.setup
    BY <1>3, <2>1, <2>2, <2>5
  <2> QED BY <1>2, <2>5, <2>6, TakenStep DEF c
<1> QED BY <1>5, <1>6, <1>7 DEF Commanded

-----------------------------------------------------------------------------
(* Steps of the app: setups read, counted and sent; events consumed.       *)

\* A sequence without one of its elements.
LEMMA Removed ==
  ASSUME NEW S, NEW s \in Seq(S), NEW i \in 1..Len(s)
  PROVE  /\ RemoveAt(s, i) \in Seq(S) /\ Len(RemoveAt(s, i)) = Len(s) - 1
         /\ \A j \in 1..(Len(s) - 1) : RemoveAt(s, i)[j] = IF j < i THEN s[j] ELSE s[j + 1]
<1> DEFINE a == SubSeq(s, 1, i - 1)
           b == SubSeq(s, i + 1, Len(s))
<1>1. /\ a \in Seq(S) /\ Len(a) = i - 1 /\ \A j \in 1..(i - 1) : a[j] = s[j]
  OBVIOUS
<1>2. /\ b \in Seq(S) /\ Len(b) = Len(s) - i /\ \A j \in 1..(Len(s) - i) : b[j] = s[i + j]
  OBVIOUS
<1>3. RemoveAt(s, i) = a \o b
  BY DEF RemoveAt
<1> HIDE DEF a, b
<1>4. /\ a \o b \in Seq(S) /\ Len(a \o b) = Len(s) - 1
      /\ \A j \in 1..(Len(s) - 1) : (a \o b)[j] = IF j < i THEN a[j] ELSE b[j - (i - 1)]
  <2>1. a \o b \in Seq(S) /\ Len(a \o b) = Len(a) + Len(b)
    BY <1>1, <1>2, ConcatProperties
  <2>2. \A j \in 1..(Len(a) + Len(b)) : (a \o b)[j] = IF j <= Len(a) THEN a[j] ELSE b[j - Len(a)]
    BY <1>1, <1>2, ConcatProperties
  <2>3. Len(s) \in Nat /\ Len(a) + Len(b) = Len(s) - 1
    BY <1>1, <1>2
  <2> QED BY <1>1, <2>1, <2>2, <2>3, SMTT(30)
<1>5. \A j \in 1..(Len(s) - 1) : (a \o b)[j] = IF j < i THEN s[j] ELSE s[j + 1]
  <2> SUFFICES ASSUME NEW j \in 1..(Len(s) - 1)
               PROVE  (a \o b)[j] = IF j < i THEN s[j] ELSE s[j + 1]
    OBVIOUS
  <2>1. CASE j < i
    BY <1>1, <1>4, <2>1
  <2>2. CASE ~(j < i)
    <3>1. j - (i - 1) \in 1..(Len(s) - i) /\ i + (j - (i - 1)) = j + 1
      BY <2>2
    <3> QED BY <1>2, <1>4, <2>2, <3>1
  <2> QED BY <2>1, <2>2
<1> QED BY <1>3, <1>4, <1>5

\* A setup read is the latest.
IsLatest(r) == r.config = config' /\ r.list = ListOf(present', hold')
LEMMA ReadIs ==
  ASSUME ReadingsInv, config' \in HubConfigs, SetupRead(config', present', hold')
  PROVE  ReadingsInv'
<1> DEFINE list == ListOf(present', hold')
           r == [config |-> config', list |-> list, stale |-> FALSE]
           n == Len(readings)
<1>1. PICK L : readings \in Seq(Reading(HubConfigs, L))
  BY DEF ReadingsInv
<1>2. readings' = Append(readings, r)
  BY DEF SetupRead
<1> HIDE DEF list
<1> DEFINE R == Reading(HubConfigs, L \cup {list})
<1>3. readings \in Seq(R) /\ r \in R
  <2>1. Reading(HubConfigs, L) \subseteq R /\ r \in R
    BY DEF Reading
  <2> HIDE DEF R
  <2> QED BY <1>1, <2>1
<1> HIDE DEF r, R
<1>4. /\ readings' \in Seq(R)
      /\ Len(readings') = n + 1 /\ n \in Nat /\ readings'[n + 1] = r
  BY <1>2, <1>3
<1>5. readings' # << >>
  BY <1>4
<1>6. ~readings'[Len(readings')].stale /\ IsLatest(readings'[Len(readings')])
  BY <1>4 DEF r, list, IsLatest
<1>7. \E K : readings' \in Seq(Reading(HubConfigs, K))
  BY <1>4 DEF R
<1> QED BY <1>5, <1>6, <1>7 DEF ReadingsInv, Reading, Matches, IsLatest

\* Of the readings handed over, the later wins.
LEMMA AppliedIs ==
  ASSUME ReadingsInv, NEW i \in DOMAIN readings, SetupApplied(i)
  PROVE  ReadingsInv'
<1> DEFINE n == Len(readings)
<1>1. PICK L : readings \in Seq(Reading(HubConfigs, L))
  BY DEF ReadingsInv
<1>2. n \in Nat /\ DOMAIN readings = 1..n /\ i \in 1..n /\ n >= 1
  BY <1>1
<1>3. \A k \in 1..n : readings[k] \in Reading(HubConfigs, L)
  BY <1>1
<1>4. UNCHANGED <<present, config, hold>> /\ config' \in HubConfigs
  BY DEF SetupApplied, ReadingsInv
<1>5. \/ /\ readings # << >> /\ ~readings[n].stale /\ Matches(readings[n])
      \/ Matches(running) /\ \A k \in 1..n : readings[k].stale
  BY <1>2 DEF ReadingsInv
<1>6. CASE readings[i].stale
  <2>1. readings' = RemoveAt(readings, i) /\ running' = running
    BY <1>6 DEF SetupApplied
  <2>2. /\ readings' \in Seq(Reading(HubConfigs, L)) /\ Len(readings') = n - 1
        /\ \A j \in 1..(n - 1) : readings'[j] = IF j < i THEN readings[j] ELSE readings[j + 1]
    BY <1>1, <1>2, <2>1, Removed
  <2>3. DOMAIN readings' = 1..(n - 1)
    BY <1>2, <2>2
  <2>4. CASE ~readings[n].stale /\ Matches(readings[n])
    <3>1. i < n /\ n - 1 \in 1..(n - 1) /\ readings'[n - 1] = readings[n]
      <4>1. i # n
        BY <1>6, <2>4
      <4>2. i < n /\ n - 1 \in 1..(n - 1) /\ ~(n - 1 < i) /\ (n - 1) + 1 = n
        BY <1>2, <4>1
      <4> QED BY <2>2, <4>2
    <3>2. readings' # << >>
      BY <1>2, <2>2, <3>1
    <3>3. ~readings'[Len(readings')].stale /\ IsLatest(readings'[Len(readings')])
      BY <1>4, <2>2, <2>4, <3>1 DEF Matches, IsLatest
    <3> QED BY <1>4, <2>2, <3>2, <3>3 DEF ReadingsInv, Reading, Matches, IsLatest
  <2>5. CASE Matches(running) /\ \A k \in 1..n : readings[k].stale
    <3>1. \A j \in DOMAIN readings' : readings'[j].stale
      BY <1>2, <2>2, <2>3, <2>5, SMTT(30)
    <3>2. Matches(running)'
      BY <1>4, <2>1, <2>5 DEF Matches
    <3> QED BY <1>4, <2>2, <3>1, <3>2 DEF ReadingsInv, Reading, Matches
  <2> QED BY <1>5, <2>4, <2>5
<1>7. CASE ~readings[i].stale
  <2> DEFINE later == [k \in DOMAIN readings |-> [readings[k] EXCEPT !.stale = @ \/ k < i]]
  <2>1. readings' = RemoveAt(later, i) /\ running' = [config |-> readings[i].config, list |-> readings[i].list]
    BY <1>7 DEF SetupApplied
  <2>2. \A k \in 1..n : /\ later[k] \in Reading(HubConfigs, L)
                        /\ later[k].config = readings[k].config /\ later[k].list = readings[k].list
                        /\ later[k].stale = (readings[k].stale \/ k < i)
    <3> SUFFICES ASSUME NEW k \in 1..n
                 PROVE  /\ later[k] \in Reading(HubConfigs, L)
                        /\ later[k].config = readings[k].config /\ later[k].list = readings[k].list
                        /\ later[k].stale = (readings[k].stale \/ k < i)
      OBVIOUS
    <3>1. readings[k] \in Reading(HubConfigs, L) /\ k \in DOMAIN readings
      BY <1>2, <1>3
    <3>2. later[k] = [readings[k] EXCEPT !.stale = @ \/ k < i]
      BY <3>1
    <3> HIDE DEF later
    <3> QED BY <3>1, <3>2 DEF Reading
  <2>3. later \in Seq(Reading(HubConfigs, L)) /\ Len(later) = n
    <3>1. later = [k \in 1..n |-> later[k]]
      BY <1>2
    <3> HIDE DEF later
    <3> QED BY <1>2, <2>2, <3>1
  <2> HIDE DEF later
  <2>4. /\ readings' \in Seq(Reading(HubConfigs, L)) /\ Len(readings') = n - 1
        /\ \A j \in 1..(n - 1) : readings'[j] = IF j < i THEN later[j] ELSE later[j + 1]
    BY <1>2, <2>1, <2>3, Removed
  <2>5. DOMAIN readings' = 1..(n - 1)
    BY <1>2, <2>4
  <2>6. ~readings[n].stale /\ Matches(readings[n])
    BY <1>2, <1>5, <1>7
  <2>7. CASE i = n
    <3>1. \A j \in DOMAIN readings' : readings'[j].stale
      <4> SUFFICES ASSUME NEW j \in 1..(n - 1) PROVE readings'[j].stale
        BY <2>5
      <4>1. j < i /\ j \in 1..n
        BY <1>2, <2>7
      <4>2. readings'[j] = later[j] /\ later[j].stale = (readings[j].stale \/ j < i)
        BY <2>2, <2>4, <4>1
      <4> QED BY <4>1, <4>2
    <3>2. Matches(running)'
      BY <1>4, <2>1, <2>6, <2>7 DEF Matches
    <3> QED BY <1>4, <2>4, <3>1, <3>2 DEF ReadingsInv, Reading, Matches
  <2>8. CASE i < n
    <3>1. n - 1 \in 1..(n - 1) /\ ~(n - 1 < i) /\ (n - 1) + 1 = n /\ ~(n < i) /\ n \in 1..n
      BY <1>2, <2>8
    <3>2. readings'[n - 1] = later[n]
      BY <2>4, <3>1
    <3>3. later[n].stale = readings[n].stale \/ ~later[n].stale
      BY <2>2, <2>6, <3>1
    <3>4. ~later[n].stale /\ later[n].config = readings[n].config /\ later[n].list = readings[n].list
      BY <2>2, <2>6, <3>1
    <3>5. ~readings'[Len(readings')].stale /\ IsLatest(readings'[Len(readings')])
      BY <1>4, <2>4, <2>6, <3>2, <3>4 DEF Matches, IsLatest
    <3>6. readings' # << >>
      BY <1>2, <2>4, <3>1
    <3> QED BY <1>4, <2>4, <3>5, <3>6 DEF ReadingsInv, Reading, Matches, IsLatest
  <2> QED BY <1>2, <2>7, <2>8
<1> QED BY <1>6, <1>7

\* A step of the app, which leaves the hub and its wait alone.
LEMMA AsideStep ==
  ASSUME HubIInv, UNCHANGED <<hub, at>>, HoldInv', ReadingsInv', CommandsInv', EventsOK'
  PROVE  HubIInv'
<1>1. HubOK(hub') /\ AtOK(at') /\ PassIsMade' /\ (at'.where = "open" => hub'.serving # NONE)
  BY DEF HubIInv, WaitsInv, HubOK, AtOK, PassIsMade
<1>2. WaitsInv'
  BY <1>1 DEF WaitsInv, EventsOK
<1> QED BY <1>2 DEF HubIInv

\* A setup handed over is counted and sent, or nothing to send.
LEMMA HandedStep ==
  ASSUME HubIInv, NEW i \in DOMAIN readings, SetupApplied(i)
  PROVE  HubIInv'
<1> DEFINE r == readings[i]
<1>1. /\ HoldInv /\ ReadingsInv /\ CommandsInv /\ HubOK(hub) /\ EventsOK
  BY DEF HubIInv, WaitsInv, EventsOK
<1>2. UNCHANGED <<hub, at, events, hold, truth>>
  BY DEF SetupApplied, watcher
<1>3. ReadingsInv'
  BY <1>1, AppliedIs
<1>4. r.config \in HubConfigs
  <2>1. PICK L : readings \in Seq(Reading(HubConfigs, L))
    BY <1>1 DEF ReadingsInv
  <2>2. r \in Reading(HubConfigs, L)
    BY <2>1
  <2> HIDE DEF r
  <2> QED BY <2>2 DEF Reading
<1>5. \/ Reconfigure(r.config, r.list) \/ SetWallets(r.list) \/ UNCHANGED <<handle, commands>>
  BY DEF SetupApplied
<1> HIDE DEF r
<1>6. setups \in Nat
  BY <1>1 DEF CommandsInv
<1>7. CASE Reconfigure(r.config, r.list)
  <2> DEFINE c == Reconfigure_(r.config, r.list, setups')
  <2>1. commands' = Append(commands, c) /\ setups' = setups + 1
    BY <1>7 DEF Reconfigure
  <2>2. Counted(c) /\ c.count = setups' /\ c \in Command({r.list})
    BY <1>4, <1>6, <2>1 DEF Reconfigure_, Counted, Command
  <2> HIDE DEF c
  <2>3. CommandsInv'
    BY <1>1, <1>2, <2>1, <2>2, CommandSent
  <2> QED BY <1>1, <1>2, <1>3, <2>3, AsideStep DEF HoldInv, EventsOK
<1>8. CASE SetWallets(r.list)
  <2> DEFINE n == IF followedNone THEN setups' ELSE 0
             c == Wallets_(r.list, n)
  <2>1. commands' = Append(commands, c) /\ setups' = IF followedNone THEN setups + 1 ELSE setups
    BY <1>8 DEF SetWallets
  <2>2. \/ setups' = setups /\ n = 0
        \/ setups' = setups + 1 /\ n = setups'
    BY <2>1
  <2> HIDE DEF n
  <2>3. n \in Nat /\ c \in Command({r.list}) /\ c.count = n /\ (Counted(c) <=> n > 0)
    BY <1>6, <2>2 DEF Wallets_, Counted, Command
  <2> HIDE DEF c
  <2>4. \/ setups' = setups /\ ~Counted(c)
        \/ setups' = setups + 1 /\ Counted(c) /\ c.count = setups'
    BY <1>6, <2>2, <2>3
  <2>5. CommandsInv'
    BY <1>1, <1>2, <2>1, <2>3, <2>4, CommandSent
  <2> QED BY <1>1, <1>2, <1>3, <2>5, AsideStep DEF HoldInv, EventsOK
<1>9. CASE UNCHANGED <<handle, commands>>
  <2>1. CommandsInv'
    BY <1>1, <1>2, <1>9, CommandsAside DEF handle
  <2> QED BY <1>1, <1>2, <1>3, <2>1, AsideStep DEF HoldInv, EventsOK
<1> QED BY <1>5, <1>7, <1>8, <1>9

\* A change of the settings, the wallets or what they hold is read.
LEMMA ChangedStep ==
  ASSUME HubIInv, UNCHANGED <<hub, at, setups, commands>>, HoldInv', EventsOK',
         config' \in HubConfigs, SetupRead(config', present', hold')
  PROVE  HubIInv'
<1>1. ReadingsInv /\ CommandsInv
  BY DEF HubIInv
<1>2. ReadingsInv'
  BY <1>1, ReadIs
<1>3. CommandsInv'
  BY <1>1, CommandsAside
<1> QED BY <1>2, <1>3, AsideStep

\* What a wallet holds, written anew.
LEMMA HeldAnew ==
  ASSUME HoldInv, NEW w, NEW f \in [Scripts -> Int], hold' = [hold EXCEPT ![w] = f],
         UNCHANGED truth
  PROVE  HoldInv'
BY DEF HoldInv

\* The consumer takes an event.
LEMMA ConsumeStep == HubIInv /\ Consume => HubIInv'
<1> SUFFICES ASSUME HubIInv, Consume PROVE HubIInv'
  OBVIOUS
<1>1. HoldInv /\ ReadingsInv /\ CommandsInv /\ EventsOK /\ config \in HubConfigs
  BY DEF HubIInv, WaitsInv, EventsOK, ReadingsInv
<1>2. /\ UNCHANGED <<present, config, running, setups, commands, hub, at, truth>>
      /\ events # << >> /\ events' = Tail(events)
  BY DEF Consume, handle, watcher
<1>3. EventsOK'
  <2>1. PICK E : events \in Seq(E)
    BY <1>1 DEF EventsOK
  <2>2. /\ events' \in Seq(E) /\ Len(events') = Len(events) - 1 /\ Len(events) \in Nat
        /\ DOMAIN events' = 1..(Len(events) - 1) /\ DOMAIN events = 1..Len(events)
        /\ \A k \in 1..(Len(events) - 1) : events'[k] = events[k + 1]
    BY <1>2, <2>1
  <2>3. \A k \in DOMAIN events' : events'[k].kind \in {"block", "changed", "confirmed"}
    <3> SUFFICES ASSUME NEW k \in 1..(Len(events) - 1)
                 PROVE  events'[k].kind \in {"block", "changed", "confirmed"}
      BY <2>2
    <3>1. k + 1 \in DOMAIN events /\ events'[k] = events[k + 1]
      BY <2>2
    <3> QED BY <1>1, <3>1 DEF EventsOK
  <2>4. Len(events') <= EVENT_QUEUE
    BY <1>1, <2>2, HubAssumption DEF EventsOK
  <2> QED BY <2>2, <2>3, <2>4 DEF EventsOK
<1>kind. Head(events).kind \in {"block", "changed", "confirmed"}
  <2>1. PICK E : events \in Seq(E)
    BY <1>1 DEF EventsOK
  <2>2. 1 \in DOMAIN events /\ Head(events) = events[1]
    BY <1>2, <2>1
  <2> QED BY <1>1, <2>2 DEF EventsOK
<1> DEFINE w == Head(events).wallet
           fits == {c \in Head(events).of : hold[w][c[1]] = c[2] - 1}
           f == [s \in Scripts |-> IF \E c \in fits : c[1] = s THEN hold[w][s] + 1
                                   ELSE hold[w][s]]
<1>4. \/ UNCHANGED <<hold, readings>>
      \/ /\ hold' = [hold EXCEPT ![w] = f]
         /\ IF fits = {} THEN UNCHANGED readings ELSE SetupRead(config, present, hold')
  BY <1>kind DEF Consume
<1> HIDE DEF w
<1>5. CASE UNCHANGED <<hold, readings>>
  <2>1. HoldInv' /\ ReadingsInv' /\ CommandsInv'
    BY <1>1, <1>2, <1>5, ReadingsAside, CommandsAside DEF HoldInv
  <2> QED BY <1>2, <1>3, <2>1, AsideStep
<1>6. CASE /\ hold' = [hold EXCEPT ![w] = f]
           /\ IF fits = {} THEN UNCHANGED readings ELSE SetupRead(config, present, hold')
  <2>1. HoldInv'
    <3>1. CASE w \in Ids
      <4>1. f \in [Scripts -> Int]
        <5> HIDE DEF fits
        <5> QED BY <1>1, <3>1 DEF HoldInv
      <4> HIDE DEF f, fits
      <4> QED BY <1>1, <1>2, <1>6, <4>1, HeldAnew
    <3>2. CASE w \notin Ids
      <4> HIDE DEF f, fits
      <4>1. hold' = hold
        BY <1>1, <1>6, <3>2 DEF HoldInv
      <4> QED BY <1>1, <1>2, <4>1 DEF HoldInv
    <3> QED BY <3>1, <3>2
  <2>2. CASE fits = {}
    <3>1. w \in Ids => f = hold[w]
      BY <1>1, <2>2 DEF HoldInv
    <3> HIDE DEF f
    <3>2. hold' = hold
      BY <1>1, <1>6, <3>1 DEF HoldInv
    <3>3. ReadingsInv' /\ CommandsInv'
      BY <1>1, <1>2, <1>6, <2>2, <3>2, ReadingsAside, CommandsAside
    <3> QED BY <1>2, <1>3, <2>1, <3>3, AsideStep
  <2>3. CASE fits # {}
    <3>1. SetupRead(config', present', hold')
      BY <1>2, <1>6, <2>3
    <3> QED BY <1>1, <1>2, <1>3, <2>1, <3>1, ChangedStep
  <2> QED BY <2>2, <2>3
<1> QED BY <1>4, <1>5, <1>6

\* The watch is halted.
LEMMA StopStep == HubIInv /\ Stop => HubIInv'
<1> SUFFICES ASSUME HubIInv, Stop PROVE HubIInv'
  OBVIOUS
<1>1. HoldInv /\ ReadingsInv /\ CommandsInv /\ HubOK(hub) /\ EventsOK
  BY DEF HubIInv, WaitsInv, EventsOK
<1>2. UNCHANGED <<outside, commands, events>>
  BY DEF Stop
<1>3. at'.where = "stopped" /\ AtOK(at')
  BY DEF Stop, Nothing, AtOK, Where, Stages, NONE
<1>4. HubOK(hub') /\ hub'.pass = hub.pass
  BY <1>1 DEF Stop, ServeNone, HubOK, HubFields
<1>5. ReadingsInv' /\ HoldInv'
  BY <1>1, <1>2, ReadingsAside DEF outside, relay, HoldInv
<1>6. CommandsInv'
  BY <1>1, <1>2, <1>3, <1>4, CommandsAside DEF outside, handle
<1>7. WaitsInv'
  BY <1>1, <1>2, <1>3, <1>4 DEF WaitsInv, EventsOK, PassIsMade
<1> QED BY <1>5, <1>6, <1>7 DEF HubIInv

\* A step of the app, of the consumer or of the chain.
LEMMA AppStep == HubIInv /\ App => HubIInv'
<1> SUFFICES ASSUME HubIInv, App PROVE HubIInv'
  OBVIOUS
<1>1. HoldInv /\ ReadingsInv /\ CommandsInv /\ HubOK(hub) /\ EventsOK /\ config \in HubConfigs
  BY DEF HubIInv, WaitsInv, EventsOK, ReadingsInv
<1>2. CASE HubTick
  <2> DEFINE c == [kind |-> "tick"]
  <2>1. UNCHANGED <<outside, hub, at, events>> /\ commands' = Append(commands, c)
    BY <1>2 DEF HubTick, watcher
  <2>2. c \in Command({}) /\ ~Counted(c)
    BY DEF Command, Counted
  <2> HIDE DEF c
  <2>3. ReadingsInv' /\ HoldInv'
    BY <1>1, <2>1, ReadingsAside DEF outside, relay, HoldInv
  <2>4. setups' = setups
    BY <2>1 DEF outside, handle
  <2>5. CommandsInv'
    BY <1>1, <2>1, <2>2, <2>4, CommandSent
  <2> QED BY <1>1, <2>1, <2>3, <2>5, AsideStep DEF EventsOK
<1>3. CASE Stop
  BY <1>3, StopStep
<1>4. CASE \E i \in DOMAIN readings : SetupApplied(i)
  BY <1>4, HandedStep
<1>5. ASSUME NEW c \in HubConfigs, SettingsChange(c)
      PROVE  HubIInv'
  <2>1. /\ UNCHANGED <<present, hold, truth, setups, commands, hub, at, events>>
        /\ config' = c /\ SetupRead(c, present, hold)
    BY <1>5 DEF SettingsChange, handle, watcher
  <2>2. SetupRead(config', present', hold') /\ HoldInv' /\ EventsOK'
    BY <1>1, <2>1 DEF HoldInv, EventsOK
  <2> QED BY <2>1, <2>2, ChangedStep
<1>6. ASSUME NEW w \in Ids, WalletAdded(w)
      PROVE  HubIInv'
  <2>1. /\ UNCHANGED <<config, truth, setups, commands, hub, at, events>>
        /\ hold' = [hold EXCEPT ![w] = truth] /\ SetupRead(config, present', hold')
    BY <1>6 DEF WalletAdded, handle, watcher
  <2>2. HoldInv'
    BY <1>1, <2>1, HeldAnew DEF HoldInv
  <2>3. SetupRead(config', present', hold') /\ EventsOK'
    BY <1>1, <2>1 DEF EventsOK
  <2> QED BY <1>1, <2>1, <2>2, <2>3, ChangedStep
<1>7. ASSUME NEW w \in Ids, WalletRemoved(w)
      PROVE  HubIInv'
  <2>1. /\ UNCHANGED <<config, truth, setups, commands, hub, at, events>>
        /\ hold' = [hold EXCEPT ![w] = Gone] /\ SetupRead(config, present', hold')
    BY <1>7 DEF WalletRemoved, handle, watcher
  <2>2. Gone \in [Scripts -> Int]
    BY DEF Gone, UNREAD
  <2>3. HoldInv'
    BY <1>1, <2>1, <2>2, HeldAnew
  <2>4. SetupRead(config', present', hold') /\ EventsOK'
    BY <1>1, <2>1 DEF EventsOK
  <2> QED BY <1>1, <2>1, <2>3, <2>4, ChangedStep
<1>8. ASSUME NEW w \in Ids, Sync(w)
      PROVE  HubIInv'
  <2> DEFINE f == [s \in Scripts |-> IF s \in todo[w] THEN truth[s] ELSE hold[w][s]]
  <2>1. /\ UNCHANGED <<present, config, truth, setups, commands, hub, at, events>>
        /\ hold' = [hold EXCEPT ![w] = f] /\ SetupRead(config, present, hold')
    BY <1>8 DEF Sync, handle, watcher
  <2>2. f \in [Scripts -> Int]
    BY <1>1 DEF HoldInv
  <2> HIDE DEF f
  <2>3. HoldInv'
    BY <1>1, <2>1, <2>2, HeldAnew
  <2>4. SetupRead(config', present', hold') /\ EventsOK'
    BY <1>1, <2>1 DEF EventsOK
  <2> QED BY <1>1, <2>1, <2>3, <2>4, ChangedStep
<1>9. ASSUME NEW w \in Ids, Flush(w)
      PROVE  HubIInv'
  <2>1. /\ UNCHANGED <<outside, commands, hub, at>>
        /\ \/ Len(events) < EVENT_QUEUE /\ events' = Append(events, EventOf(w, pending[w]))
           \/ UNCHANGED events
    BY <1>9 DEF Flush
  <2>2. EventsOK'
    <3>1. CASE UNCHANGED events
      BY <1>1, <3>1 DEF EventsOK
    <3>2. CASE Len(events) < EVENT_QUEUE /\ events' = Append(events, EventOf(w, pending[w]))
      <4>1. EventOf(w, pending[w]).kind \in {"block", "changed", "confirmed"}
        BY DEF EventOf
      <4> QED BY <1>1, <3>2, <4>1, EventSent
    <3> QED BY <2>1, <3>1, <3>2
  <2>3. Same(hub, hub')
    BY <2>1 DEF Same
  <2> QED BY <2>1, <2>2, <2>3, QuietStep
<1>10. CASE Consume
  BY <1>10, ConsumeStep
<1>11. ASSUME NEW s \in Scripts, Moves(s)
       PROVE  HubIInv'
  <2>1. /\ UNCHANGED <<present, config, hold, readings, running, setups, commands, hub, at, events>>
        /\ \E v \in NextVersions(truth[s]) : truth' = [truth EXCEPT ![s] = v]
    BY <1>11 DEF Moves, relay, handle
  <2>2. truth[s] \in Int
    BY <1>1 DEF HoldInv
  <2>3. \A v \in NextVersions(truth[s]) : v \in Int
    BY <2>2 DEF NextVersions
  <2>4. HoldInv'
    BY <1>1, <2>1, <2>3 DEF HoldInv
  <2>5. ReadingsInv' /\ CommandsInv' /\ EventsOK'
    BY <1>1, <2>1, ReadingsAside, CommandsAside DEF EventsOK
  <2> QED BY <2>1, <2>4, <2>5, AsideStep
<1> QED BY <1>2, <1>3, <1>4, <1>5, <1>6, <1>7, <1>8, <1>9, <1>10, <1>11 DEF App

-----------------------------------------------------------------------------
\* The first pass of a watch that follows a script finds a server to try.
LEMMA FirstTry ==
  ASSUME NEW h, h.config \in HubConfigs, h.shunned = {}, noPush = FALSE,
         Len(HubServers[h.config]) > 1
  PROVE  TryFrom(h, "electrum", NONE, {}, "Lost").where = "opening"
<1> DEFINE cands == HubServers[h.config]
           left == Untried(h, "electrum", NONE, {})
           esplora == (ToSet(cands) \ ElectrumServers) \ h.shunned
           pushed == Untried(h, "push", NONE, esplora)
<1>1. cands \in Seq(HubEndpoints) /\ Len(cands) \in Nat /\ 1 \in 1..Len(cands)
  BY HubAssumption
<1>2. IndexIn(cands, NONE) = 0
  BY <1>1, IndexIs, HubAssumption
<1>3. left = {i \in 1..Len(cands) : cands[i] \in ElectrumServers}
  BY <1>2 DEF Untried
<1>4. cands[1] \in ToSet(cands)
  BY <1>1 DEF ToSet
<1>5. \A s, i, es, l : OpeningAt(h, s, i, es, l).where = "opening"
  BY DEF OpeningAt
<1>6. CASE left # {}
  <2>1. \E i, l : TryFrom(h, "electrum", NONE, {}, "Lost") = OpeningAt(h, "electrum", i, {}, l)
    BY <1>6 DEF TryFrom
  <2> QED BY <1>5, <2>1
<1>7. CASE left = {}
  <2>1. cands[1] \in esplora
    BY <1>1, <1>3, <1>4, <1>7
  <2>2. \E l : TryFrom(h, "electrum", NONE, {}, "Lost") = Pushing(h, esplora, NONE, l, TRUE)
    BY <1>7 DEF TryFrom
  <2> HIDE DEF esplora
  <2>3. 1 \in pushed
    BY <1>1, <1>2, <2>1 DEF Untried
  <2>4. \A l : Pushing(h, esplora, NONE, l, TRUE) = OpeningAt(h, "push", Min(pushed), esplora, l)
    BY <2>3 DEF Pushing
  <2> QED BY <1>5, <2>2, <2>4
<1> QED BY <1>6, <1>7

\* It holds when the watch starts.
LEMMA HubStart == HubInit => HubIInv
<1> SUFFICES ASSUME HubInit PROVE HubIInv
  OBVIOUS
<1> DEFINE h == FirstHub(config, ListOf(present, hold))
           loop == Loop(h)
<1>1. /\ config \in HubConfigs /\ truth = Start /\ hold = [w \in Ids |-> Start]
      /\ readings = << >> /\ running = [config |-> config, list |-> ListOf(present, hold)]
      /\ setups = 1 /\ commands = << >> /\ noPush = FALSE /\ events = << >>
      /\ hub = loop.hub /\ at = loop.at
  BY DEF HubInit
<1>2. HoldInv
  BY <1>1, HubAssumption DEF HoldInv
<1>3. ReadingsInv
  <2>1. Matches(running)
    BY <1>1 DEF Matches
  <2> QED BY <1>1, <2>1 DEF ReadingsInv
<1>4. /\ HubOK(h) /\ h.pass.setup = 1 /\ h.config = config /\ h.shunned = {}
      /\ h.pass.open = (Len(HubServers[config]) > 1)
  BY <1>1 DEF FirstHub, OpenFirstPass, HubOK, HubFields
<1> HIDE DEF h
<1>5. /\ AtOK(loop.at) /\ loop.at.where \in {"opening", "nothing"} /\ HubOK(loop.hub)
      /\ loop.hub.pass.setup = 1
      /\ \/ loop.at.where = "nothing" /\ Settled(h, loop.hub)
         \/ Entries(h) # << >> /\ loop.hub = h
  BY <1>4, LoopIs
<1>6. loop.hub.pass.open => loop.at.where = "opening"
  <2>1. CASE Settled(h, loop.hub)
    BY <2>1 DEF Settled
  <2>2. CASE Entries(h) # << >> /\ loop.hub = h
    <3>1. loop.at = TryFrom(h, "electrum", NONE, {}, "Lost")
      BY <2>2 DEF Loop
    <3>2. h.pass.open => TryFrom(h, "electrum", NONE, {}, "Lost").where = "opening"
      BY <1>1, <1>4, FirstTry
    <3> QED BY <2>2, <3>1, <3>2
  <2> QED BY <1>5, <2>1, <2>2
<1> HIDE DEF loop
<1>7. EventsOK
  BY <1>1, HubAssumption DEF EventsOK
<1>8. WaitsInv
  BY <1>1, <1>5, <1>6, <1>7 DEF WaitsInv, PassIsMade, HubOK
<1>9. CommandsInv
  BY <1>1, <1>5 DEF CommandsInv
<1> QED BY <1>2, <1>3, <1>8, <1>9 DEF HubIInv

\* Every step keeps it.
LEMMA HubStep == HubIInv /\ [HubNext]_hubVars => HubIInv'
<1> SUFFICES ASSUME HubIInv, [HubNext]_hubVars PROVE HubIInv'
  OBVIOUS
<1>1. CASE HubNext
  BY <1>1, ConnectingStep, AnsweringStep, HearingStep, ProvingStep, PollingStep,
     LimitingStep, LeavingStep, CommandedStep, AppStep DEF HubNext
<1>2. CASE UNCHANGED hubVars
  <2>1. UNCHANGED <<outside, commands, at, hub, events>>
    BY <1>2 DEF hubVars, watcher
  <2>2. Same(hub, hub') /\ EventsOK'
    BY <2>1 DEF Same, HubIInv, WaitsInv, EventsOK
  <2> QED BY <2>1, <2>2, QuietStep
<1> QED BY <1>1, <1>2

(* The wait of an opening sync ends, and with the latest setup: the first  *)
(* pass it waits for is being made (src/src/watch/mod.rs, first_pass); the *)
(* watcher comes to the setup the handle counted last; of two refreshes    *)
(* that race, the later reading is the one the watch runs with             *)
(* (live_refresh); and the queue of events keeps its bound.                *)
THEOREM HubHolds == HubSpec => []HubInv
<1>1. HubInit => HubIInv
  BY HubStart
<1>2. HubIInv /\ [HubNext]_hubVars => HubIInv'
  BY HubStep
<1>3. HubIInv => HubInv
  BY HubPromises
<1> QED BY <1>1, <1>2, <1>3, PTL DEF HubSpec
=============================================================================
