------------------------------ MODULE WatchHub ------------------------------
(***************************************************************************)
(* The live watch (watch/): a handle that counts and sends setups, and one *)
(* task, the watcher, that goes through the servers of the configuration,  *)
(* keeps a session open with the first that will do (an Electrum server, a *)
(* mempool WebSocket, an Esplora server it polls), and reports the wallets *)
(* whose scripts moved through a bounded queue of events.                  *)
(*                                                                         *)
(* Around it: live_refresh, which reads the setup under one lock and hands *)
(* it over under another; the chain, on which scripts move; the servers,   *)
(* which answer, push, refuse and fail; the consumer of the events, which  *)
(* syncs the wallets they name.                                            *)
(*                                                                         *)
(* The status of a script is a version: 0 for no history, an odd number    *)
(* when a transaction of it waits for a block, the next even one when that *)
(* block took it.  Every time left out (the quiet of a burst, a backoff, a *)
(* server left alone) is over whenever it is; reasons and the word rescan, *)
(* which only say how to sync, are left out.                               *)
(***************************************************************************)
EXTENDS Integers, Sequences, FiniteSets, SequencesExt, FiniteSetsExt, TLC

CONSTANTS
  Wallets,        \* a sequence: the wallets, in the order of the list
  ScriptsOfWallet,\* the scripts of each, a sequence
  ElectrumServers,\* the endpoints that are Electrum servers
  HubServers,     \* the servers of each configuration, in order
  OwnNode,        \* whether the backend is the user's own node
  Limits,         \* what a watch takes of one wallet, and of all of them
  ELECTRUM_WINDOW,\* requests in flight at once (32)
  REFUSALS,       \* refusals in a row that are a limit (5)
  FIRST_ASK,      \* scripts a WebSocket is first asked to track
  HOT,            \* scripts every round of polling reads
  ROUND_BUDGET,   \* lookups in a round
  FAILED_ROUNDS,  \* rounds failed in a row that end a session
  EVENT_QUEUE,    \* events held for a consumer that lags (64)
  TIP_LAG_MAX,    \* a tip this far lower was never real
  HubFaults,      \* what servers may do wrong
  Start,          \* the status of each script at the start
  Returns,        \* whether a script may return to the status it had
  MaxMoves, MaxTroubles, MaxDisturbed, MaxHeight, Backlog

\* The faults: a server out of reach, a session lost, one script refused, a
\* limit named, a request let wait too long, a cut for cost, a hello refused
\* for cost, a server behind or of another network, no push to offer, a
\* round failed, a proof that does not hold, late, or false.
AllFaults == {"unreachable", "lost", "refuses", "limit", "busy", "cut",
              "hello", "behind", "network", "nopush", "round", "unsure",
              "false"}

W == INSTANCE Watched

Ids == ToSet(Wallets)
Scripts == UNION {ToSet(ScriptsOfWallet[w]) : w \in Ids}
HubConfigs == DOMAIN HubServers
HubEndpoints == UNION {ToSet(HubServers[c]) : c \in HubConfigs}
Moved(versions) == MapThenSumSet(LAMBDA s : versions[s], Scripts)
NONE == "none"
UNREAD == -1
WHOLE == "whole"

\* Every list of servers puts the Electrum ones first (servers_for).
ASSUME HubAssumption ==
  /\ \A c \in HubConfigs : HubServers[c] \in Seq(HubEndpoints)
  /\ ElectrumServers \subseteq HubEndpoints /\ NONE \notin HubEndpoints
  /\ HubFaults \subseteq AllFaults
  /\ \A c \in HubConfigs : \A i, j \in DOMAIN HubServers[c] :
       (HubServers[c][i] \notin ElectrumServers /\ i < j) => HubServers[c][j] \notin ElectrumServers
  /\ ELECTRUM_WINDOW \in Nat \ {0} /\ REFUSALS \in Nat \ {0} /\ EVENT_QUEUE \in Nat \ {0}
  /\ FIRST_ASK \in Nat /\ HOT \in Nat /\ ROUND_BUDGET \in Nat \ {0}
  /\ FAILED_ROUNDS \in Nat \ {0} /\ TIP_LAG_MAX \in Nat
  /\ {OwnNode, Returns} \subseteq BOOLEAN
  /\ Start \in [Scripts -> Nat]
  /\ {MaxMoves, MaxTroubles, MaxDisturbed, MaxHeight, Backlog} \subseteq Nat

VARIABLES
  \* the app and live_refresh
  present,    \* the wallets of the active network
  hold,       \* the status each wallet holds for each script
  config,     \* the configuration in the settings
  readings,   \* setups read and not handed over yet, in the order of
              \* their ranks: config, list, and whether a later one was
              \* handed over already
  running,    \* what was last handed over: config, list
  \* the handle
  setups, followedNone, commands,
  \* the hub
  hub,        \* config, watched, pass, serving, held, heardBy, tip,
              \* caughtUp, interrupted, statuses, prints, shunned, refusals,
              \* track, turn, reopened
  pending,    \* what each wallet is reported for, once its burst settles
  events,     \* the queue of events
  \* the supervisor and its session
  at,         \* where it is: where, e, stage, esplora, last
  noPush,     \* push was found missing on every Esplora server lately
  ses,        \* the session open
  \* the world
  truth,      \* the status of each script on the chain
  troubles,   \* faults of servers, and edits of the user, so far
  todo,       \* scripts the consumer was told to sync, by wallet
  \* history
  told        \* what the watch was told of each script it listens to

relay == <<readings, running>>
handle == <<setups, followedNone>>
\* What neither the watcher nor its commands touch.
outside == <<present, config, hold, relay, handle, truth, todo>>
watcher == <<hub, pending, at, noPush, ses, told>>
hubVars == <<outside, commands, watcher, events, troubles>>

-----------------------------------------------------------------------------
(***************************************************************************)
(* The list, as list_of builds it of the wallets present.                  *)
(***************************************************************************)
Listed(w, holds) ==
  [id |-> w,
   scripts |-> [r \in DOMAIN ScriptsOfWallet[w] |->
                  LET s == ScriptsOfWallet[w][r]
                  IN  [script |-> s, watchable |-> TRUE, lookahead |-> FALSE,
                       status |-> holds[w][s]]],
   pinned |-> FALSE, coins |-> FALSE, unlisted |-> 0,
   pending |-> \E s \in ToSet(ScriptsOfWallet[w]) : holds[w][s] % 2 = 1]

ListOf(there, holds) ==
  LET order == SelectSeq(Wallets, LAMBDA w : w \in there)
  IN  [i \in DOMAIN order |-> Listed(order[i], holds)]

NewWatched(list) == W!NewWatched(list, Limits)
Entries(h) == h.watched.entries
EntryScripts(h) == W!ScriptsOf(Entries(h))
EntryOf(h, s) == CHOOSE e \in ToSet(Entries(h)) : e.script = s
IdsOf(watched) == {wallet.id : wallet \in ToSet(watched.wallets)}
Owners(watched, s) ==
  {watched.wallets[o].id :
     o \in UNION {DOMAIN e.held : e \in {x \in ToSet(watched.entries) :
                                           x.script = s}}}

-----------------------------------------------------------------------------
(***************************************************************************)
(* Bursts: what is pending of a wallet, and what goes out for it.          *)
(***************************************************************************)
NotPending == [scripts |-> {}, proven |-> {}]
IsPending(p) == p # NotPending

\* Debouncer::mark: a script moved, or the whole wallet.
MarkWallet(p, s) ==
  [p EXCEPT !.scripts = IF s = WHOLE \/ @ = {WHOLE} THEN {WHOLE} ELSE @ \cup {s}]

\* Hub::mark_entry for a set of scripts, and Hub::mark_all for wallets.
MarkEntries(p, watched, scripts) ==
  [w \in Ids |->
     FoldSet(LAMBDA s, q : IF w \in Owners(watched, s) THEN MarkWallet(q, s)
                           ELSE q, p[w], scripts)]
MarkWhole(p, ids) ==
  [w \in Ids |-> IF w \in ids THEN MarkWallet(p[w], WHOLE) ELSE p[w]]

\* Hub::mark_proven.
MarkProven(p, watched, s, v) ==
  [w \in Ids |-> IF w \in Owners(watched, s)
                 THEN [p[w] EXCEPT !.proven = @ \cup {<<s, v>>}] ELSE p[w]]

MutEventOf(w, p) ==
  IF p.scripts = {} THEN [kind |-> "confirmed", wallet |-> w, of |-> p.proven]
  ELSE [kind |-> "changed", wallet |-> w, of |-> p.scripts]

\* Pending::event: the confirmations alone, or a sync of what moved and of
\* the scripts of those confirmations.
EventOf(w, p) ==
  IF p.scripts = {} THEN [kind |-> "confirmed", wallet |-> w, of |-> p.proven]
  ELSE [kind |-> "changed", wallet |-> w,
        of |-> IF p.scripts = {WHOLE} THEN {WHOLE}
               ELSE p.scripts \cup {proven[1] : proven \in p.proven}]

TrySend(queue, event) ==
  IF Len(queue) < EVENT_QUEUE THEN Append(queue, event) ELSE queue

\* Hub::flush of a wallet whose burst settled: sent, or still pending.
Flush(w) ==
  /\ at.where # "stopped" /\ IsPending(pending[w])
  /\ IF Len(events) < EVENT_QUEUE
     THEN /\ events' = Append(events, EventOf(w, pending[w]))
          /\ pending' = [pending EXCEPT ![w] = NotPending]
     ELSE UNCHANGED <<events, pending>>
  /\ UNCHANGED <<outside, commands, hub, at, noPush, ses, told, troubles>>

-----------------------------------------------------------------------------
(***************************************************************************)
(* The first pass over the servers, and the server the syncs follow.       *)
(***************************************************************************)
OpenFirstPass(h, count) ==
  [h EXCEPT !.pass = [setup |-> count, open |-> Len(HubServers[h.config]) > 1]]
Settle(h) == [h EXCEPT !.pass.open = FALSE]

ServeNone(h) == [h EXCEPT !.serving = NONE]
Serve(h, e) ==
  [Settle(h) EXCEPT !.heardBy = e, !.held = e, !.serving = e]

GiveUpOn(h, e) == [h EXCEPT !.held = IF @ = e THEN NONE ELSE @]
Shun(h, e) == [GiveUpOn(h, e) EXCEPT !.shunned = @ \cup {e}]

HeardRefusals(h) ==
  IF h.heardBy = NONE THEN W!NoRefusals ELSE h.refusals[h.heardBy]

\* Hub::new_tip.  The block itself is an event that a full queue loses; a
\* wallet that waits for one is marked when the transport does not push
\* what it hears, or does not hear the wallet whole.
NewTip(h, height) ==
  [h EXCEPT !.tip =
     IF @ = UNREAD \/ height + TIP_LAG_MAX < @ \/ height > @ THEN height ELSE @]
IsBlock(h, height) == h.tip # UNREAD /\ height > h.tip
WaitingFor(h, syncPending) ==
  {wallet.id : wallet \in {x \in ToSet(h.watched.wallets) :
     /\ x.pending
     /\ syncPending \/ x.id \in W!Capped(h.watched, HeardRefusals(h))}}
BlockMarks(h, p, height, syncPending) ==
  IF IsBlock(h, height) THEN MarkWhole(p, WaitingFor(h, syncPending)) ELSE p
BlockEvents(h, queue, height) ==
  IF IsBlock(h, height) THEN TrySend(queue, [kind |-> "block"]) ELSE queue

\* Hub::ready: what the session could not hear before it listened.
ReadyIds(h, exact) ==
  CASE ~h.caughtUp /\ exact -> W!Capped(h.watched, W!NoRefusals)
    [] ~h.caughtUp /\ ~exact -> IdsOf(h.watched)
    [] h.caughtUp /\ h.interrupted /\ ~exact -> IdsOf(h.watched)
    [] OTHER -> {}
CaughtUp(h) == [h EXCEPT !.caughtUp = TRUE, !.interrupted = FALSE]

-----------------------------------------------------------------------------
(***************************************************************************)
(* The supervisor.  Its waits are: nothing to follow, a connection being   *)
(* opened, a session, a backoff.                                           *)
(***************************************************************************)
Where == {"nothing", "opening", "open", "backoff", "stopped"}
Stages == {"electrum", "push", "poll", NONE}

Nothing == [where |-> "nothing", e |-> NONE, stage |-> NONE, esplora |-> {},
            last |-> NONE]
\* kind: the transport.  Electrum: queue, flight (asked and unanswered),
\* subscribed, taken (answered: the server pushes them), acked (how many),
\* run (refused in a row), atLimit, early (in flight when the window was
\* narrowed), opening, ready, proving (confirmations foretold), wire (the
\* statuses pushed and not read).  WebSocket: tracked, and wire.  Both it
\* and polling: round (its lookups run), looked (their scripts), failed
\* rounds in a row.
NoSession ==
  [kind |-> NONE, queue |-> << >>, flight |-> {}, subscribed |-> {},
   taken |-> {}, acked |-> 0, run |-> {}, atLimit |-> FALSE, early |-> {},
   narrowed |-> FALSE, opening |-> {}, ready |-> FALSE, proving |-> {},
   wire |-> [s \in Scripts |-> << >>], tracked |-> {}, failed |-> 0,
   round |-> FALSE, looked |-> {}]

\* One more server to try in a stage of the pass, after the one tried last.
IndexIn(cands, e) == SelectInSeq(cands, LAMBDA x : x = e)
Untried(h, stage, after, esplora) ==
  LET cands == HubServers[h.config]
  IN  {i \in (IndexIn(cands, after) + 1)..Len(cands) :
         /\ cands[i] \notin h.shunned
         /\ IF stage = "electrum" THEN cands[i] \in ElectrumServers
            ELSE cands[i] \in esplora}
OpeningAt(h, stage, i, esplora, last) ==
  [where |-> "opening", e |-> HubServers[h.config][i], stage |-> stage,
   esplora |-> esplora, last |-> last]

\* run_once from a stage on: the Electrum servers, the WebSockets when
\* push is worth trying, then polling; NONE when every server was tried.
Polled(h, esplora, after, last) ==
  LET left == Untried(h, "poll", after, esplora)
  IN  IF left # {} THEN OpeningAt(h, "poll", Min(left), esplora, last)
      ELSE [Nothing EXCEPT !.last = last]
Pushing(h, esplora, after, last, worth) ==
  LET left == Untried(h, "push", after, esplora)
  IN  IF worth /\ left # {} THEN OpeningAt(h, "push", Min(left), esplora, last)
      ELSE Polled(h, esplora, NONE, last)
TryFrom(h, stage, after, esplora, last) ==
  LET cands == HubServers[h.config]
      left == Untried(h, "electrum", after, {})
      skipped == \E i \in (IndexIn(cands, after) + 1)..Len(cands) :
                   /\ cands[i] \in h.shunned
                   /\ left = {} \/ i < Min(left)
      seen == IF skipped THEN "Refused" ELSE last
  IN  CASE stage = "electrum" /\ left # {} ->
             OpeningAt(h, "electrum", Min(left), {}, seen)
        [] stage = "electrum" /\ left = {} ->
             Pushing(h, (ToSet(cands) \ ElectrumServers) \ h.shunned, NONE, seen,
                     ~noPush)
        [] stage = "push" -> Pushing(h, esplora, after, last, TRUE)
        [] stage = "poll" -> Polled(h, esplora, after, last)

\* Push was found missing: every WebSocket was tried and none opened.
FoundNoPush(from, to) == from.stage = "push" /\ to.stage # "push"

\* The top of the loop of supervise.
Loop(h) ==
  IF Entries(h) = << >>
  THEN [hub |-> ServeNone(Settle(h)), at |-> Nothing]
  ELSE [hub |-> h, at |-> TryFrom(h, "electrum", NONE, {}, "Lost")]

\* A pass that ends with nothing open, or a session lost: a backoff.
Backoff(h, exit) ==
  [hub |-> ServeNone(Settle([h EXCEPT !.interrupted = @ \/ exit = "Lost"])),
   at |-> [Nothing EXCEPT !.where = "backoff"]]

\* How an exit of a session, or of its opening, is taken: the next
\* candidate may do, or the loop of supervise goes on.
After(h, exit) ==
  LET left == CASE exit = "Unreachable" -> GiveUpOn(h, at.e)
                [] exit = "Refused" -> Shun(h, at.e)
                [] OTHER -> h
      next == TryFrom(left, at.stage, at.e, at.esplora, exit)
  IN  CASE exit \in {"Unreachable", "Refused", "NoPush"} ->
             IF next.where = "nothing" THEN Backoff(left, next.last)
             ELSE [hub |-> left, at |-> next]
        [] exit = "Lost" -> Backoff(h, "Lost")
        [] exit \in {"Reprobe", "Reconfigured"} -> Loop(h)

\* A session that ends: what it heard holds no longer.
Leave(h, exit) ==
  LET after == After(h, exit)
  IN  /\ hub' = after.hub /\ at' = after.at /\ ses' = NoSession
      /\ noPush' = CASE exit \in {"Reprobe", "Reconfigured"} -> FALSE
                     [] OTHER -> noPush \/ FoundNoPush(at, after.at)

\* The pass begun at the top of the loop may find no server to try: every
\* one is left alone.
Resume(h) ==
  LET loop == Loop(h)
      stuck == Entries(h) # << >> /\ loop.at.where = "nothing"
      next == IF stuck THEN Backoff(h, loop.at.last) ELSE loop
  IN  hub' = next.hub /\ at' = next.at

\* A server left alone may be tried again.
ShunEnds(e) ==
  /\ e \in hub.shunned /\ hub' = [hub EXCEPT !.shunned = @ \ {e}]
  /\ UNCHANGED <<outside, commands, pending, at, noPush, ses, told, events,
                  troubles>>

\* A backoff runs out, never before a server may be asked again.
BackoffEnds ==
  /\ at.where = "backoff"
  /\ ~(ToSet(HubServers[hub.config]) \subseteq hub.shunned)
  /\ Resume(hub)
  /\ UNCHANGED <<outside, commands, pending, noPush, ses, told, events,
                  troubles>>

\* Push is worth trying again.
ReprobeDue ==
  /\ noPush /\ noPush' = FALSE
  /\ UNCHANGED <<outside, commands, hub, pending, at, ses, told, events,
                  troubles>>

-----------------------------------------------------------------------------
(***************************************************************************)
(* A session with an Electrum server.                                      *)
(***************************************************************************)
Trouble ==
  /\ troubles < MaxTroubles /\ Moved(truth) + troubles < MaxDisturbed
  /\ troubles' = troubles + 1
BlockBound(height) ==
  IF IsBlock(hub, height) THEN Trouble ELSE UNCHANGED troubles
RefusalsOf(h) == h.refusals[at.e]
SetRefusals(h, r) == [h EXCEPT !.refusals[at.e] = r]
Fault(kind) == kind \in HubFaults /\ Trouble
ElectrumOpen == at.where = "open" /\ ses.kind = "electrum"

\* enqueue: every script the server is asked for and was not yet; pump: as
\* many as the window takes.
Enqueue(x, h) ==
  LET fresh == SelectSeq([k \in DOMAIN W!Heard(h.watched, RefusalsOf(h)) |->
                            W!Heard(h.watched, RefusalsOf(h))[k].script],
                         LAMBDA s : s \notin x.subscribed)
  IN  [x EXCEPT !.queue = @ \o fresh, !.subscribed = @ \cup ToSet(fresh)]
Pump(x) ==
  LET n == Min({Len(x.queue), Max({0, ELECTRUM_WINDOW - Cardinality(x.flight)})})
  IN  [x EXCEPT !.flight = @ \cup ToSet(SubSeq(x.queue, 1, n)),
                !.queue = SubSeq(@, n + 1, Len(@))]

\* retry_limit: a limit kept long enough is asked again; what it left out
\* was reported then.
RetryLimit(h) ==
  LET r == RefusalsOf(h)
  IN  IF ~W!RanOut(r) THEN h
      ELSE SetRefusals(h, [r EXCEPT !.limit = W!NOLIMIT, !.kept = "new",
             !.leftOut = @ \cup W!ScriptsOf(W!PastLimit(h.watched, r))])

\* check_ready: every script of the first pass has its answer.
SettleReady(h, p, x) ==
  IF x.opening = {} /\ ~x.ready
  THEN /\ ses' = Pump([x EXCEPT !.ready = TRUE])
       /\ hub' = CaughtUp(SetRefusals(h, [RefusalsOf(h) EXCEPT !.leftOut = {}]))
       /\ pending' = MarkWhole(p, ReadyIds(h, TRUE))
  ELSE ses' = Pump(x) /\ hub' = h /\ pending' = p

ElectrumOpens ==
  /\ at.where = "opening" /\ at.stage = "electrum"
  /\ LET h == Serve(RetryLimit(hub), at.e)
         x == Enqueue([NoSession EXCEPT !.kind = "electrum"], h)
     IN  /\ hub' = h
         /\ ses' = Pump([x EXCEPT !.opening = ToSet(x.queue)])
  /\ at' = [at EXCEPT !.where = "open"]
  /\ UNCHANGED <<outside, commands, pending, noPush, told, events, troubles>>

\* ask_less: the next session there asks for fewer, and each script that
\* leaves out is reported once.  None kept is no cut.
AskLess(h, kept) ==
  LET r == RefusalsOf(h)
      least == IF r.limit = W!NOLIMIT THEN kept ELSE Min({r.limit, kept})
      heard == W!Heard(h.watched, r)
  IN  IF kept = 0 THEN [hub |-> h, past |-> {}]
      ELSE [hub |-> SetRefusals(h, W!LearnCut(r, least)),
            past |-> W!ScriptsOf(SubSeq(heard, least + 1, Len(heard)))
                       \ r.leftOut]
CostExit(opened) ==
  CASE ~OwnNode -> "Refused" [] OwnNode /\ opened -> "Lost"
    [] OwnNode /\ ~opened -> "Unreachable"
GaveUp(scripts) == [s \in Scripts |-> IF s \in scripts THEN truth[s] ELSE told[s]]

\* refused_at_hello: half of what was to be asked, unless a cut halved it.
HelloCostly ==
  /\ at.where = "opening" /\ at.stage = "electrum" /\ Fault("hello")
  /\ LET r == RefusalsOf(hub)
         less == IF r.cut THEN [hub |-> hub, past |-> {}]
                 ELSE AskLess(hub, Len(W!Heard(hub.watched, r)) \div 2)
     IN  /\ Leave(less.hub, CostExit(FALSE))
         /\ pending' = MarkEntries(pending, hub.watched, less.past)
         /\ told' = GaveUp(less.past)
  /\ UNCHANGED <<outside, commands, events>>

\* The session is cut for what it costs: half of what it took is kept.
Cut ==
  LET less == AskLess(hub, ses.acked \div 2)
  IN  /\ Leave(less.hub, CostExit(TRUE))
      /\ pending' = MarkEntries(pending, hub.watched, less.past)
      /\ told' = GaveUp(less.past)

CutForCost ==
  /\ ElectrumOpen /\ Fault("cut") /\ Cut
  /\ UNCHANGED <<outside, commands, events>>

\* A subscription that waited too long: sent again later when it was in
\* flight as the window narrowed, or a session about to be cut.
Busy(s) ==
  /\ ElectrumOpen /\ s \in ses.flight /\ Fault("busy")
  /\ LET early == IF ses.narrowed THEN ses.early ELSE ses.flight
     IN  IF s \in early
         THEN /\ ses' = Pump([ses EXCEPT !.narrowed = TRUE,
                                !.early = early \ {s}, !.flight = @ \ {s},
                                !.queue = <<s>> \o @])
              /\ UNCHANGED <<hub, pending, at, noPush, told>>
         ELSE Cut
  /\ UNCHANGED <<outside, commands, events>>

\* status(): news when it differs from what a wallet holds for the script;
\* a notification must differ from the last status given as well.
Lacking(h, s, v) ==
  \E o \in DOMAIN EntryOf(h, s).held : EntryOf(h, s).held[o] # v
\* Whether a status pushed is what the history each wallet holds comes to
\* once the latest block takes what waits in it.
Foretold(h, s, v) ==
  /\ v > 0 /\ v % 2 = 0 /\ ~EntryOf(h, s).lookahead
  /\ \A o \in DOMAIN EntryOf(h, s).held : EntryOf(h, s).held[o] = v - 1

\* The answer to a subscription, taken out of order past a limit or not.
StatusAnswered(s) ==
  /\ ElectrumOpen /\ s \in ses.flight
  /\ LET acked == ses.acked + 1
         r == RefusalsOf(hub)
         h1 == IF ses.atLimit THEN SetRefusals(hub, W!Learn(r, Max({r.limit, acked})))
               ELSE hub
         listed == s \in EntryScripts(h1)
         h2 == IF listed THEN [h1 EXCEPT !.statuses[s] = truth[s]] ELSE h1
         x == [ses EXCEPT !.flight = @ \ {s}, !.acked = acked, !.run = {},
                 !.taken = IF listed THEN @ \cup {s} ELSE @,
                 !.opening = @ \ {s}, !.early = @ \ {s}]
         marked == IF listed /\ Lacking(h2, s, truth[s]) THEN {s} ELSE {}
     IN  /\ SettleReady(h2, MarkEntries(pending, h2.watched, marked), x)
         /\ told' = IF listed THEN [told EXCEPT ![s] = truth[s]] ELSE told
  /\ UNCHANGED <<outside, commands, at, noPush, events, troubles>>

\* refused(): one script turned down, or the limit of the connection, named
\* or guessed from several in a row.  Each script given up has a sync of its
\* own, unless a limit that ran out had left it out before.
Refused(s, named) ==
  /\ ElectrumOpen /\ s \in ses.flight
  /\ Fault(IF named THEN "limit" ELSE "refuses")
  /\ LET r == RefusalsOf(hub)
         run == ses.run \cup {s}
         limit == ~ses.atLimit /\ (named \/ Cardinality(run) >= REFUSALS)
         learned == CASE ses.atLimit -> r
                      [] limit -> W!Learn([r EXCEPT !.scripts = @ \ run], ses.acked)
                      [] OTHER -> [r EXCEPT !.scripts = @ \cup {s}]
         givenUp == {s} \cup (IF limit THEN ToSet(ses.queue) ELSE {})
         report == (givenUp \ learned.leftOut) \cap EntryScripts(hub)
         x == [ses EXCEPT !.flight = @ \ {s}, !.early = @ \ {s},
                 !.atLimit = @ \/ limit,
                 !.run = IF limit THEN {} ELSE IF ses.atLimit THEN @ ELSE run,
                 !.queue = IF limit THEN << >> ELSE @,
                 !.opening = @ \ givenUp]
     IN  /\ SettleReady(SetRefusals(hub, learned),
                        MarkEntries(pending, hub.watched, report), x)
         /\ told' = GaveUp(report)
  /\ UNCHANGED <<outside, commands, at, noPush, events>>

\* A notification is read.
Notified(s) ==
  /\ ElectrumOpen /\ ses.wire[s] # << >>
  /\ LET v == Head(ses.wire[s])
         x == [ses EXCEPT !.wire[s] = Tail(@)]
         same == hub.statuses[s] = v
         moot == {proof \in x.proving : proof[1] = s /\ ~same}
         news == ~same /\ Lacking(hub, s, v)
     IN  IF s \notin EntryScripts(hub)
         THEN ses' = x /\ UNCHANGED <<hub, pending, told>>
         ELSE /\ hub' = [hub EXCEPT !.statuses[s] = v]
              /\ ses' = Pump([x EXCEPT !.proving =
                   (@ \ moot) \cup (IF news /\ Foretold(hub, s, v)
                                    THEN {<<s, v>>} ELSE {})])
              /\ pending' = IF news /\ ~Foretold(hub, s, v)
                            THEN MarkEntries(pending, hub.watched, {s})
                            ELSE pending
              /\ told' = IF news /\ Foretold(hub, s, v) THEN told
                         ELSE [told EXCEPT ![s] = v]
  /\ UNCHANGED <<outside, commands, at, noPush, events, troubles>>

\* The proofs of a confirmation foretold all hold, and it is reported with
\* them; or one is unsure, leads elsewhere or is late, and its script is
\* reported for a sync; or one is false, and the server is refused as well.
Proved(s, outcome) ==
  /\ ElectrumOpen
  /\ \E proof \in ses.proving :
       /\ proof[1] = s
       /\ LET x == [ses EXCEPT !.proving = @ \ {proof}]
          IN  IF outcome = "holds"
              THEN /\ pending' = MarkProven(pending, hub.watched, s, proof[2])
                   /\ ses' = x
                   /\ UNCHANGED <<hub, at, noPush, troubles>>
              ELSE /\ Fault(outcome)
                   /\ pending' = MarkEntries(pending, hub.watched, {s})
                   /\ IF outcome = "false" THEN Leave(hub, "Refused")
                      ELSE ses' = x /\ UNCHANGED <<hub, at, noPush>>
       /\ told' = [told EXCEPT ![s] = proof[2]]
  /\ UNCHANGED <<outside, commands, events>>

\* The server announces a tip, or answers for it.
TipHeard(height) ==
  /\ BlockBound(height)
  /\ at.where = "open" /\ ses.kind # "poll" /\ ~ses.round
  /\ LET syncPending == ses.kind # "electrum"
     IN  /\ height # hub.tip
         /\ hub' = NewTip(hub, height)
         /\ pending' = BlockMarks(hub, pending, height, syncPending)
         /\ events' = BlockEvents(hub, events, height)
  /\ UNCHANGED <<outside, commands, at, noPush, ses, told>>

\* A look at the tip of another server of the operator, one not left alone:
\* whichever is two blocks behind is left alone, and the watch moves on when
\* it is the one it talks to.
Siblings(h) == (ToSet(HubServers[h.config]) \cap ElectrumServers) \ ({at.e} \cup h.shunned)
FoundBehind(e) ==
  /\ ElectrumOpen /\ Siblings(hub) # {} /\ Fault("behind")
  /\ \/ e = at.e /\ Leave(Shun(hub, e), "Reprobe")
     \/ e \in Siblings(hub) /\ hub' = Shun(hub, e) /\ UNCHANGED <<at, noPush, ses>>
  /\ UNCHANGED <<outside, commands, pending, told, events>>

\* A limit learned is kept an hour, then a day; run out, it is asked again
\* at the next ping.
LimitAges(e) ==
  /\ hub.refusals[e].limit # W!NOLIMIT /\ hub.refusals[e].kept # "day"
  /\ hub' = [hub EXCEPT !.refusals[e].kept = IF @ = "new" THEN "hour" ELSE "day"]
  /\ UNCHANGED <<outside, commands, pending, at, noPush, ses, told, events,
                  troubles>>

LimitAskedAgain ==
  /\ ElectrumOpen /\ W!RanOut(RefusalsOf(hub))
  /\ Leave(hub, "Reprobe")
  /\ UNCHANGED <<outside, commands, pending, told, events, troubles>>

\* relist: the scripts that left are dropped, the new ones are asked for.
Relist(x, h) ==
  LET gone == x.subscribed \ EntryScripts(h)
  IN  Enqueue([x EXCEPT !.subscribed = @ \ gone, !.opening = @ \ gone,
                 !.taken = @ \ gone, !.queue = SelectSeq(@, LAMBDA s : s \notin gone),
                 !.proving = {proof \in @ : proof[1] \notin gone},
                 !.wire = [s \in Scripts |-> IF s \in gone THEN << >> ELSE @[s]]], h)
Forgotten(x, h) ==
  [h EXCEPT !.statuses =
     [s \in Scripts |-> IF s \in x.subscribed \ EntryScripts(h) THEN UNREAD ELSE @[s]]]

-----------------------------------------------------------------------------
(***************************************************************************)
(* A mempool WebSocket, which keeps no record of what it missed, and the   *)
(* rounds that read an Esplora server.                                     *)
(***************************************************************************)
\* The scripts past those pushed that a round reads: the hot ones, then the
\* next ones in turn, from the script the turn was left on, or from where
\* it stood when that one left the list.
TurnFirst(turn, rest) ==
  LET i == SelectInSeq(rest, LAMBDA s : s = turn.next)
  IN  IF i > 0 THEN i ELSE IF turn.at <= Len(rest) THEN turn.at ELSE 1
Plan(h, skip, hot) ==
  LET all == [k \in DOMAIN Entries(h) |-> Entries(h)[k].script]
      pool == SubSeq(all, skip + 1, Len(all))
      first == Min({hot, Len(pool), ROUND_BUDGET})
      rest == SubSeq(pool, first + 1, Len(pool))
      count == Min({ROUND_BUDGET - first, Len(rest)})
      start == TurnFirst(h.turn, rest)
      nth(n) == ((start - 1 + n) % Len(rest)) + 1
  IN  [scripts |-> {pool[k] : k \in 1..first}
                     \cup {rest[nth(n)] : n \in 0..(count - 1)},
       turn |-> IF rest = << >> THEN h.turn
                ELSE [next |-> rest[nth(count)], at |-> nth(count)]]

\* apply: a reading that differs from the one before, or, the first, from
\* what a wallet holds, is a change.
Changed(h, scripts) ==
  {s \in scripts \cap EntryScripts(h) :
     IF h.prints[s] = UNREAD THEN Lacking(h, s, truth[s])
     ELSE h.prints[s] # truth[s]}
Apply(h, plan) ==
  [h EXCEPT !.turn = plan.turn,
     !.prints = [s \in Scripts |->
        CASE s \notin EntryScripts(h) -> UNREAD
          [] s \in plan.scripts -> truth[s] [] OTHER -> @[s]]]
ReadBy(scripts) == [s \in Scripts |-> IF s \in scripts THEN truth[s] ELSE told[s]]

\* The head of the list the server is asked to track.
Track(x, h) ==
  [x EXCEPT !.tracked =
     {Entries(h)[k].script : k \in 1..Min({h.track, Len(Entries(h))})}]

PushOpens ==
  /\ at.where = "opening" /\ at.stage = "push"
  /\ LET h == Serve(hub, at.e)
     IN  /\ hub' = CaughtUp(h)
         /\ ses' = Track([NoSession EXCEPT !.kind = "mempool", !.ready = TRUE], h)
         /\ pending' = MarkWhole(pending, ReadyIds(h, FALSE))
         /\ told' = IF ReadyIds(h, FALSE) = {} THEN told
                    ELSE ReadBy(EntryScripts(h))
  /\ at' = [at EXCEPT !.where = "open"]
  /\ UNCHANGED <<outside, commands, noPush, events, troubles>>

\* The first round that answers opens a session of polling.
PollOpens(height) ==
  /\ BlockBound(height)
  /\ at.where = "opening" /\ at.stage = "poll"
  /\ LET plan == Plan(hub, 0, HOT)
         ids == ReadyIds(hub, FALSE)
         marked == BlockMarks(hub, pending, height, TRUE)
     IN  /\ hub' = Serve(CaughtUp(Apply(NewTip(hub, height), plan)), at.e)
         /\ pending' = MarkWhole(MarkEntries(marked, hub.watched,
                                             Changed(hub, plan.scripts)), ids)
         /\ told' = ReadBy(IF ids = {} THEN plan.scripts ELSE EntryScripts(hub))
  /\ events' = BlockEvents(hub, events, height)
  /\ ses' = [NoSession EXCEPT !.kind = "poll", !.ready = TRUE]
  /\ at' = [at EXCEPT !.where = "open"]
  /\ UNCHANGED <<outside, commands, noPush>>

\* A frame names scripts that moved.
Framed(s) ==
  /\ at.where = "open" /\ ses.kind = "mempool" /\ ~ses.round
  /\ ses.wire[s] # << >>
  /\ pending' = MarkEntries(pending, hub.watched, {s})
  /\ ses' = [ses EXCEPT !.wire[s] = Tail(@)]
  /\ told' = IF s \in EntryScripts(hub) THEN [told EXCEPT ![s] = Head(ses.wire[s])]
             ELSE told
  /\ UNCHANGED <<outside, commands, hub, at, noPush, events, troubles>>

\* The server refuses the list, and names the most it tracks, or nothing
\* that helps.
TrackRefused(limit) ==
  /\ at.where = "open" /\ ses.kind = "mempool" /\ ~ses.round
  /\ Fault("limit")
  /\ limit < hub.track
  /\ hub' = [hub EXCEPT !.track = limit]
  /\ ses' = Track(ses, hub')
  /\ UNCHANGED <<outside, commands, pending, at, noPush, told, events>>

\* A round: of the scripts the WebSocket does not track, or of the list.
\* While its lookups run, commands are served, and nothing else.
RoundBegins ==
  /\ at.where = "open" /\ ses.kind \in {"mempool", "poll"} /\ ~ses.round
  /\ LET plan == IF ses.kind = "poll" THEN Plan(hub, 0, HOT)
                 ELSE Plan(hub, Cardinality(ses.tracked), 0)
     IN  /\ ses' = [ses EXCEPT !.round = TRUE, !.looked = plan.scripts]
         /\ hub' = [hub EXCEPT !.turn = plan.turn]
  /\ UNCHANGED <<outside, commands, pending, at, noPush, told, events,
                  troubles>>

PollEnds(height) ==
  /\ at.where = "open" /\ ses.round
  /\ IF ses.kind = "poll" THEN BlockBound(height)
     ELSE height = 0 /\ UNCHANGED troubles
  /\ LET h == IF ses.kind = "poll" THEN NewTip(hub, height) ELSE hub
         marked == IF ses.kind = "poll" THEN BlockMarks(hub, pending, height, TRUE)
                   ELSE pending
     IN  /\ hub' = Apply(h, [scripts |-> ses.looked, turn |-> h.turn])
         /\ pending' = MarkEntries(marked, hub.watched, Changed(hub, ses.looked))
         /\ events' = IF ses.kind = "poll" THEN BlockEvents(hub, events, height)
                      ELSE events
  /\ told' = ReadBy(ses.looked \cap EntryScripts(hub))
  /\ ses' = [ses EXCEPT !.failed = 0, !.round = FALSE, !.looked = {}]
  /\ UNCHANGED <<outside, commands, at, noPush>>

\* A round fails; several in a row lose a session of polling.
RoundFails ==
  /\ at.where = "open" /\ ses.round /\ Fault("round")
  /\ IF ses.kind = "poll" /\ ses.failed + 1 >= FAILED_ROUNDS
     THEN Leave(hub, "Lost")
     ELSE /\ ses' = [ses EXCEPT !.failed = @ + 1, !.round = FALSE, !.looked = {}]
          /\ UNCHANGED <<hub, at, noPush>>
  /\ UNCHANGED <<outside, commands, pending, told, events>>

\* Polling gives push another chance after a while.
PollReprobes ==
  /\ at.where = "open" /\ ses.kind = "poll" /\ ~ses.round
  /\ Leave(hub, "Reprobe")
  /\ UNCHANGED <<outside, commands, pending, told, events, troubles>>

\* A connection that cannot be opened, or comes to nothing.
NotOpened(kind) ==
  /\ at.where = "opening" /\ Fault(kind)
  /\ kind = "nopush" => at.stage = "push"
  /\ Leave(hub, CASE kind = "unreachable" -> "Unreachable"
                  [] kind = "network" -> "Refused"
                  [] kind = "nopush" -> "NoPush")
  /\ UNCHANGED <<outside, commands, pending, told, events>>

SessionLost ==
  /\ at.where = "open" /\ ses.kind # "poll" /\ ~ses.round /\ Fault("lost")
  /\ Leave(hub, "Lost")
  /\ UNCHANGED <<outside, commands, pending, told, events>>

-----------------------------------------------------------------------------
(***************************************************************************)
(* live_refresh and the handle: a setup is counted and sent under a lock.  *)
(***************************************************************************)
\* watch_setup, read under the state's lock by the refresh that follows
\* each change, with the rank of that reading.
SetupRead(c, there, holds) ==
  readings' = Append(readings, [config |-> c, list |-> ListOf(there, holds),
                                stale |-> FALSE])

Wallets_(list, count) == [kind |-> "wallets", list |-> list, count |-> count]
Reconfigure_(c, list, count) ==
  [kind |-> "reconfigure", config |-> c, list |-> list, count |-> count]

\* set_wallets: only a list that comes to a watch that followed no script
\* counts as a setup.  reconfigure: always.
SetWallets(list) ==
  /\ followedNone' = W!NoScripts(list)
  /\ setups' = IF followedNone THEN setups + 1 ELSE setups
  /\ commands' = Append(commands,
                   Wallets_(list, IF followedNone THEN setups' ELSE 0))
Reconfigure(c, list) ==
  /\ followedNone' = W!NoScripts(list)
  /\ setups' = setups + 1
  /\ commands' = Append(commands, Reconfigure_(c, list, setups'))

MutSetupApplied(i) ==
  /\ i \in DOMAIN readings
  /\ LET r == readings[i]
     IN  /\ readings' = RemoveAt(readings, i)
         /\ running' = [config |-> r.config, list |-> r.list]
         /\ CASE r.config # running.config -> Reconfigure(r.config, r.list)
              [] r.config = running.config /\ r.list # running.list ->
                   SetWallets(r.list)
              [] OTHER -> UNCHANGED <<handle, commands>>
  /\ UNCHANGED <<present, config, hold, watcher, events, truth, troubles,
                  todo>>

\* Of two readings that race, the later wins.
SetupApplied(i) ==
  /\ i \in DOMAIN readings
  /\ LET r == readings[i]
         later == [k \in DOMAIN readings |->
                     [readings[k] EXCEPT !.stale = @ \/ k < i]]
     IN  IF r.stale
         THEN readings' = RemoveAt(readings, i) /\ UNCHANGED <<running, handle, commands>>
         ELSE /\ readings' = RemoveAt(later, i)
              /\ running' = [config |-> r.config, list |-> r.list]
              /\ CASE r.config # running.config -> Reconfigure(r.config, r.list)
                   [] r.config = running.config /\ r.list # running.list ->
                        SetWallets(r.list)
                   [] OTHER -> UNCHANGED <<handle, commands>>
  /\ UNCHANGED <<present, config, hold, watcher, events, truth, troubles,
                  todo>>

HubTick ==
  /\ Len(commands) < Backlog /\ Trouble
  /\ commands' = Append(commands, [kind |-> "tick"])
  /\ UNCHANGED <<outside, watcher, events>>

-----------------------------------------------------------------------------
(***************************************************************************)
(* The watcher takes a command, wherever it waits.                         *)
(***************************************************************************)
\* Reconfigure forgets every baseline and opens a first pass.
Reconfigured(h, c) ==
  ServeNone(OpenFirstPass(
    [h EXCEPT !.config = c.config, !.watched = NewWatched(c.list), !.tip = UNREAD,
       !.caughtUp = FALSE, !.interrupted = FALSE,
       !.statuses = [s \in Scripts |-> UNREAD], !.prints = [s \in Scripts |-> UNREAD],
       !.track = FIRST_ASK, !.shunned = {},
       !.refusals = [e \in HubEndpoints |-> W!NoRefusals], !.heardBy = NONE,
       !.held = NONE], c.count))

\* A list opens a pass when it comes to a watch that had nothing to follow
\* and no session; otherwise the setup is only noted.
Relisted(h, c) ==
  LET hadNone == Entries(h) = << >>
      h1 == [h EXCEPT !.watched = NewWatched(c.list)]
      serving == h.serving # NONE
  IN  CASE c.count = 0 -> h1
        [] c.count > 0 /\ hadNone /\ Entries(h1) # << >> /\ ~serving ->
             [OpenFirstPass(h1, c.count) EXCEPT !.reopened = TRUE]
        [] OTHER -> [h1 EXCEPT !.pass.setup = c.count,
                               !.pass.open = @ /\ ~serving]

Kept(p, h) == [w \in Ids |-> IF w \in IdsOf(h.watched) THEN p[w] ELSE NotPending]
StillTold(h) == [s \in Scripts |-> IF s \in EntryScripts(h) THEN told[s] ELSE 0]

TakeReconfigure ==
  /\ at.where # "stopped" /\ commands # << >>
  /\ LET c == Head(commands)
     IN  /\ c.kind = "reconfigure"
         /\ Resume(Reconfigured(hub, c))
  /\ commands' = Tail(commands)
  /\ pending' = [w \in Ids |-> NotPending] /\ told' = [s \in Scripts |-> 0]
  /\ ses' = NoSession /\ noPush' = FALSE
  /\ UNCHANGED <<outside, events, troubles>>

TakeWallets ==
  /\ at.where # "stopped" /\ commands # << >> /\ Head(commands).kind = "wallets"
  /\ LET h == Relisted(hub, Head(commands))
         p == Kept(pending, h)
         idle == at.where = "nothing" \/ (at.where = "backoff" /\ h.reopened)
         listens == at.where = "open" /\ ~ses.round
         emptied == listens /\ Entries(h) = << >>
     IN  /\ told' = StillTold(h)
         /\ \/ /\ idle /\ pending' = p
               /\ Resume(IF at.where = "backoff" THEN [h EXCEPT !.reopened = FALSE]
                         ELSE h)
               /\ UNCHANGED <<ses, noPush>>
            \/ emptied /\ Leave(h, "Reprobe") /\ pending' = p
            \/ /\ listens /\ ~emptied /\ ses.kind = "electrum"
               /\ SettleReady(Forgotten(ses, h), p, Relist(ses, h))
               /\ UNCHANGED <<at, noPush>>
            \/ /\ ~idle /\ ~emptied /\ ses.kind # "electrum"
               /\ hub' = h /\ pending' = p
               /\ ses' = IF listens /\ ses.kind = "mempool" THEN Track(ses, h)
                         ELSE ses
               /\ UNCHANGED <<at, noPush>>
  /\ commands' = Tail(commands)
  /\ UNCHANGED <<outside, events, troubles>>

\* A tick ends any idle wait, and looks at the limit of an open session.
TakeTick ==
  /\ at.where # "stopped" /\ commands # << >> /\ Head(commands).kind = "tick"
  /\ CASE at.where \in {"nothing", "backoff"} ->
            Resume(hub) /\ UNCHANGED <<ses, noPush>>
       [] ElectrumOpen /\ W!RanOut(RefusalsOf(hub)) -> Leave(hub, "Reprobe")
       [] OTHER -> UNCHANGED <<hub, at, ses, noPush>>
  /\ commands' = Tail(commands)
  /\ UNCHANGED <<outside, pending, told, events, troubles>>

\* The handle halts the watcher, wherever it waits.
Stop ==
  /\ at.where # "stopped" /\ Trouble
  /\ at' = [Nothing EXCEPT !.where = "stopped"]
  /\ hub' = [ServeNone(hub) EXCEPT !.watched = NewWatched(<< >>), !.held = NONE]
  /\ ses' = NoSession /\ told' = [s \in Scripts |-> 0]
  /\ UNCHANGED <<outside, commands, pending, noPush, events>>

-----------------------------------------------------------------------------
(***************************************************************************)
(* The world: scripts move, the consumer syncs, the settings change.       *)
(***************************************************************************)
NextVersions(v) == {v + 1} \cup {u \in {v - 1} : Returns /\ v % 2 = 1}
\* A script moves on: to its next version, or back to the one it had.  The
\* server pushes it when it was asked to.
Moves(s) ==
  /\ \E v \in NextVersions(truth[s]) : truth' = [truth EXCEPT ![s] = v]
  /\ Moved(truth') <= MaxMoves /\ Moved(truth') + troubles <= MaxDisturbed
  /\ ses' = IF s \in ses.taken \cup ses.tracked
            THEN [ses EXCEPT !.wire[s] = Append(@, truth'[s])] ELSE ses
  /\ \A x \in Scripts : Len(ses'.wire[x]) <= MaxMoves
  /\ UNCHANGED <<present, config, hold, relay, handle, commands, hub, pending,
                  at, noPush, told, events, troubles, todo>>

\* The consumer takes an event: a wallet to sync, or confirmations it adds
\* to what it holds, when it still holds what they confirm.
Consume ==
  /\ events # << >> /\ events' = Tail(events)
  /\ LET event == Head(events)
         w == event.wallet
         fits == {c \in event.of : hold[w][c[1]] = c[2] - 1}
     IN  CASE event.kind = "block" \/ event.wallet \notin present ->
                UNCHANGED <<hold, todo, readings>>
           [] event.kind = "changed" /\ event.wallet \in present ->
                /\ todo' = [todo EXCEPT ![w] = @ \cup
                     IF event.of = {WHOLE} THEN ToSet(ScriptsOfWallet[w])
                     ELSE event.of]
                /\ UNCHANGED <<hold, readings>>
           [] event.kind = "confirmed" /\ event.wallet \in present ->
                /\ hold' = [hold EXCEPT ![w] = [s \in Scripts |->
                     IF \E c \in fits : c[1] = s THEN @[s] + 1 ELSE @[s]]]
                /\ todo' = [todo EXCEPT ![w] = @ \cup
                              {c[1] : c \in event.of \ fits}]
                /\ IF fits = {} THEN UNCHANGED readings
                   ELSE SetupRead(config, present, hold')
  /\ UNCHANGED <<present, config, running, handle, commands, watcher, truth,
                  troubles>>

Sync(w) ==
  /\ todo[w] # {} /\ w \in present /\ todo' = [todo EXCEPT ![w] = {}]
  /\ hold' = [hold EXCEPT ![w] = [s \in Scripts |->
                IF s \in todo[w] THEN truth[s] ELSE @[s]]]
  /\ SetupRead(config, present, hold')
  /\ UNCHANGED <<present, config, running, handle, commands, watcher, events,
                  truth, troubles>>

SettingsChange(c) ==
  /\ c # config /\ config' = c /\ Trouble /\ SetupRead(c, present, hold)
  /\ UNCHANGED <<present, hold, running, handle, commands, watcher, events,
                  truth, todo>>

Gone == [s \in Scripts |-> UNREAD]
WalletRemoved(w) ==
  /\ w \in present /\ present' = present \ {w} /\ Trouble
  /\ hold' = [hold EXCEPT ![w] = Gone]
  /\ SetupRead(config, present', hold')
  /\ todo' = [todo EXCEPT ![w] = {}]
  /\ UNCHANGED <<config, running, handle, commands, watcher, events, truth>>

\* A wallet added is a new one, synced by the app that adds it.
WalletAdded(w) ==
  /\ w \notin present /\ hold[w] # Gone /\ Trouble
  /\ present' = present \cup {w}
  /\ hold' = [hold EXCEPT ![w] = truth]
  /\ SetupRead(config, present', hold')
  /\ UNCHANGED <<config, running, handle, commands, watcher, events, truth, todo>>

FirstHub(c, list) ==
  OpenFirstPass(
    [config |-> c, watched |-> NewWatched(list),
     pass |-> [setup |-> 0, open |-> FALSE], serving |-> NONE, held |-> NONE,
     heardBy |-> NONE, tip |-> UNREAD, caughtUp |-> FALSE, interrupted |-> FALSE,
     statuses |-> [s \in Scripts |-> UNREAD], prints |-> [s \in Scripts |-> UNREAD],
     shunned |-> {}, refusals |-> [e \in HubEndpoints |-> W!NoRefusals],
     track |-> FIRST_ASK, turn |-> [next |-> NONE, at |-> 1],
     reopened |-> FALSE], 1)

\* live_start: the setup read first, the watch started with it.
HubInit ==
  /\ present \in {{}, Ids} /\ config \in HubConfigs
  /\ truth = Start /\ hold = [w \in Ids |-> Start]
  /\ readings = << >>
  /\ running = [config |-> config, list |-> ListOf(present, hold)]
  /\ setups = 1 /\ followedNone = (present = {}) /\ commands = << >>
  /\ noPush = FALSE
  /\ LET loop == Loop(FirstHub(config, ListOf(present, hold)))
     IN  hub = loop.hub /\ at = loop.at
  /\ pending = [w \in Ids |-> NotPending] /\ events = << >>
  /\ ses = NoSession /\ troubles = 0
  /\ todo = [w \in Ids |-> {}] /\ told = [s \in Scripts |-> 0]

Connecting ==
  \/ ElectrumOpens \/ PushOpens \/ (\E height \in 0..MaxHeight : PollOpens(height))
  \/ (\E kind \in {"unreachable", "network", "nopush"} : NotOpened(kind))

Answering ==
  \E s \in Scripts : StatusAnswered(s) \/ (\E named \in BOOLEAN : Refused(s, named))

Hearing ==
  \/ (\E s \in Scripts : Notified(s) \/ Framed(s))
  \/ (\E height \in 0..MaxHeight : TipHeard(height))

Proving ==
  \E s \in Scripts, outcome \in {"holds", "unsure", "false"} : Proved(s, outcome)

Polling ==
  \/ (\E height \in 0..MaxHeight : PollEnds(height))
  \/ RoundBegins \/ RoundFails \/ PollReprobes

Limiting ==
  \/ HelloCostly \/ CutForCost \/ LimitAskedAgain
  \/ (\E s \in Scripts : Busy(s))
  \/ (\E limit \in 0..FIRST_ASK : TrackRefused(limit))

Leaving ==
  \/ SessionLost \/ BackoffEnds \/ ReprobeDue
  \/ (\E e \in ElectrumServers : FoundBehind(e))
  \/ (\E e \in HubEndpoints : ShunEnds(e) \/ LimitAges(e))

Commanded == TakeReconfigure \/ TakeWallets \/ TakeTick

App ==
  \/ HubTick \/ Stop \/ (\E i \in DOMAIN readings : SetupApplied(i))
  \/ (\E c \in HubConfigs : SettingsChange(c))
  \/ (\E w \in Ids : WalletAdded(w) \/ WalletRemoved(w) \/ Sync(w))
  \/ (\E w \in Ids : Flush(w)) \/ Consume \/ (\E s \in Scripts : Moves(s))

HubNext ==
  \/ Connecting \/ Answering \/ Hearing \/ Proving \/ Polling \/ Limiting
  \/ Leaving \/ Commanded \/ App

HubSpec == HubInit /\ [][HubNext]_hubVars

-----------------------------------------------------------------------------
\* The supervisor is at one of its waits, and the queue within its bound.
HubTypeOK ==
  /\ at.where \in Where /\ at.stage \in Stages
  /\ Len(events) <= EVENT_QUEUE

\* What a wallet is to be synced for, wherever that stands.
Covered(w, s) ==
  \/ s \in todo[w]
  \/ pending[w].scripts = {WHOLE} \/ s \in pending[w].scripts
  \/ \E c \in pending[w].proven : c[1] = s
  \/ \E proof \in ses.proving : proof[1] = s
  \/ \E k \in DOMAIN events :
       /\ events[k].kind # "block" /\ events[k].wallet = w
       /\ \/ events[k].of = {WHOLE} \/ s \in events[k].of
          \/ \E c \in events[k].of : c = <<s, truth[s]>> \/ c = <<s, told[s]>>

\* What the watch was told of a script: what the session open heard of it,
\* and what it marked.
Said(s) == IF s \in ses.taken THEN Max({told[s], hub.statuses[s]}) ELSE told[s]

\* Nothing a server said is lost: a script it gave another status for than
\* its wallet holds, or that the watch gave up on, is being proven, pending,
\* in the queue, or with the consumer, whatever the queue's room, the
\* reconnections, the lists and the limits learned meanwhile.
NothingUnsaid ==
  \A s \in EntryScripts(hub) :
    \A w \in Owners(hub.watched, s) \cap present :
      Said(s) > hold[w][s] => Covered(w, s)

\* A first pass a sync waits for is one the watcher is making: it tries
\* servers, it has no session, and it rests on no backoff.
PassIsMade ==
  hub.pass.open /\ at.where # "stopped" =>
    at.where = "opening" /\ hub.serving = NONE

\* The watcher comes to the setup the handle counted last: no sync waits
\* for one that never comes.
SetupsTaken ==
  /\ hub.pass.setup <= setups
  /\ at.where # "stopped" /\ (\A k \in DOMAIN commands : commands[k].kind = "tick")
       => hub.pass.setup = setups

\* Two refreshes that race leave the watch with the latest setup.
LatestSetup ==
  readings = << >> =>
    running.config = config /\ running.list = ListOf(present, hold)

\* The wait of an opening sync ends: the first pass it waits for is the one of
\* a setup the watcher takes, and is being made (LiveWatch::first_pass); and
\* the setup it has is the latest once nobody is handing one over.
HubInv == HubTypeOK /\ PassIsMade /\ SetupsTaken /\ LatestSetup

=============================================================================
