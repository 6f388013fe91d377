----------------------------- MODULE LiveRelay ------------------------------
(***************************************************************************)
(* The relay of the live watch (live.rs): one task that hears what the     *)
(* watch says, has the wallets it names synced, a few at a time and one at *)
(* a time per wallet, and hands out the news those syncs found, through a  *)
(* bounded queue, to the host.                                             *)
(*                                                                         *)
(* The relay is one loop that picks any arm that is ready; an arm that     *)
(* awaits (room in the queue, the vault) leaves the loop until it is done. *)
(* The syncs are tasks of their own.  Around them: the watch, which fills  *)
(* its own queue of events; the app, which syncs, claims and offers what   *)
(* it synced, and changes the configuration; the host, which reads, stops  *)
(* the watch, or goes away.                                                *)
(*                                                                         *)
(* Times are left out: a hold, a delay before a retry and the hour between *)
(* two looks at one wallet are over whenever they are.                     *)
(***************************************************************************)
EXTENDS Integers, Sequences, FiniteSets, FiniteSetsExt

CONSTANTS
  Wallets,          \* the wallets of the watched network
  WalletScripts,    \* the scripts of a wallet
  SYNCS_AT_ONCE,    \* permits (2)
  EVENT_QUEUE,      \* events held for a consumer that lags (256)
  CLAIM_BATCH,      \* transactions claimed at a time (32)
  FREE_FUTILE,      \* futile syncs in a row that cost no wait (2)
  Backlog,          \* bound on the events of the watch not yet taken
  Scenarios         \* what happens around the relay, and how much of it:
                    \* wallets, the ones that change; heard, what the watch
                    \* may say of them; looks, what a look looks for; halts,
                    \* how the host may leave; savesFail, of a claim;
                    \* retries of a sync that found nothing (2); and the
                    \* bounds on unclaimed news and on configurations

NO_WALLET == "none"
Reasons == {"NewBlock", "Activity", "Started", "Reconnected"}

\* What was asked of a wallet: these scripts, or, whole, what the reason
\* asks for; or confirmations proven on these scripts, and nothing else.
Asked == [reason : Reasons, scripts : SUBSET WalletScripts, whole : BOOLEAN,
          proven : BOOLEAN]

\* A watch that says which scripts moved gives another reason than a block,
\* and confirmations it proved are those of scripts it names.
Sayable == {a \in Asked : /\ a.reason = "NewBlock" => a.whole
                          /\ a.proven => ~ a.whole}

ASSUME RelayAssumption ==
  /\ NO_WALLET \notin Wallets /\ IsFiniteSet(Wallets)
  /\ Scenarios \subseteq
       [wallets : SUBSET Wallets, heard : SUBSET Sayable,
        looks : SUBSET {"complete", "recheck"},
        halts : SUBSET {"stopped", "gone"}, savesFail : BOOLEAN,
        retries : Nat, news : Nat, configs : Nat]
  /\ SYNCS_AT_ONCE \in Nat \ {0}
  /\ CLAIM_BATCH \in Nat \ {0} /\ EVENT_QUEUE \in Nat
  /\ CLAIM_BATCH <= EVENT_QUEUE
  /\ FREE_FUTILE \in Nat /\ Backlog \in Nat

VARIABLES
  scenario,         \* the one that plays out
  changes,          \* the events of the watch, oldest first
  config,           \* the configuration in place: its number
  tasks,            \* the syncs under way, and those done and not joined
  permits,          \* the permits left
  busy,             \* the keys of again: wallets with a sync under way
  next,             \* the values of again: what was asked of them since
  owed,             \* what a sync that failed was asked
  futile,           \* futile syncs in a row, up to FREE_FUTILE + 1
  tried, rechecked, \* wallets left alone for the hour after a look
  seen,             \* the configuration the relay last heard of
  relay,            \* where the relay is
  offered,          \* wallets whose sync the app handed over
  syncing,          \* wallets whose sync the app has yet to hand over
  news,             \* the news of each wallet in the vault, unclaimed
  out,              \* events in the queue to the host
  host,             \* reading, stopping the watch, or gone
  lost,             \* history: news claimed that found no room
  due               \* history: scripts asked for that no sync read since

asks == <<busy, next, owed, futile, tried, rechecked>>
outside == <<changes, config, offered, syncing, host>>
relayVars == <<outside, tasks, permits, asks, seen, relay, news, out, lost, due>>
allRelayVars == <<scenario, relayVars>>

\* covers: what was due when the sync began, and it reads; tries: retries
\* made; found: the report lists something.
Task == [nth : Nat, wallet : Wallets, asked : Asked,
         at : {"hold", "proofs", "wait", "run", "ok", "failed"},
         covers : SUBSET WalletScripts, tries : Nat, found : BOOLEAN]

\* at: awaiting what, in announce or in deliver.  room: the room reserved;
\* todo: wallets whose news was left unclaimed before the start.
Relay == [at : {"start", "select", "count", "reserve", "claim", "report",
                "deliver", "ended"},
          wallet : Wallets \cup {NO_WALLET}, room : Nat, joined : BOOLEAN,
          todo : SUBSET Wallets]

Ask(reason, scripts) ==
  [reason |-> reason, scripts |-> scripts, whole |-> scripts = {},
   proven |-> FALSE]

Select(todo) ==
  [at |-> IF todo = {} THEN "select" ELSE "start", wallet |-> NO_WALLET,
   room |-> 0, joined |-> FALSE, todo |-> todo]

Nothing == [w \in Wallets |-> {}]

RelayInit ==
  /\ scenario \in Scenarios
  /\ changes = << >> /\ config = 0
  /\ tasks = {} /\ permits = SYNCS_AT_ONCE
  /\ busy = {} /\ next = Nothing /\ owed = Nothing
  /\ futile = [w \in Wallets |-> 0] /\ tried = {} /\ rechecked = {}
  /\ seen = 0
  /\ news \in [Wallets -> 0..scenario.news]
  /\ \A w \in Wallets \ scenario.wallets : news[w] = 0
  /\ relay = Select({w \in Wallets : news[w] > 0})
  /\ offered = {} /\ syncing = {} /\ out = 0 /\ host = "reading"
  /\ lost = 0 /\ due = Nothing

-----------------------------------------------------------------------------
(***************************************************************************)
(* What is asked of a wallet.                                              *)
(***************************************************************************)
ReasonRank(reason) ==
  CASE reason = "NewBlock" -> 0 [] reason = "Activity" -> 1
    [] reason = "Started" -> 2  [] reason = "Reconnected" -> 3

\* The strongest reason.
Strongest(asked) ==
  CHOOSE r \in {a.reason : a \in asked} :
    \A a \in asked : ReasonRank(r) >= ReasonRank(a.reason)

\* Scripts named stay the only ones read.
MutAnd(asked) ==
  [reason |-> Strongest(asked), scripts |-> UNION {a.scripts : a \in asked},
   whole |-> \A a \in asked : a.whole,
   proven |-> \A a \in asked : a.proven]

\* All of them together.
And(asked) ==
  LET whole == \E a \in asked : a.whole
  IN  [reason |-> Strongest(asked),
       scripts |-> IF whole THEN {} ELSE UNION {a.scripts : a \in asked},
       whole |-> whole,
       proven |-> \A a \in asked : a.proven]

\* The scripts a sync asked for this reads; for a block, the ones that wait
\* for it, which nothing else asks for.
ReadsFor(a) ==
  IF ~ a.whole THEN a.scripts
  ELSE IF a.reason = "NewBlock" THEN {} ELSE WalletScripts

\* The server's word that scripts moved.
ClaimedMoved(a) ==
  /\ ~ a.proven
  /\ a.reason = "Activity" \/ (~ a.whole /\ a.reason # "NewBlock")

Held(w, a) == ClaimedMoved(a) /\ futile[w] >= FREE_FUTILE

FutileAfter(w, a, found) ==
  IF found THEN 0
  ELSE IF ClaimedMoved(a) THEN Min({futile[w] + 1, FREE_FUTILE + 1})
  ELSE futile[w]

\* A task for what is asked; nth tells it from others of the wallet.
NewTask(w, a) ==
  [nth |-> Cardinality({t \in tasks : t.wallet = w}), wallet |-> w, asked |-> a,
   at |-> IF Held(w, a) THEN "hold" ELSE IF a.proven THEN "proofs" ELSE "wait",
   covers |-> {}, tries |-> 0, found |-> FALSE]

\* Runs what is asked first of each wallet, or, with a sync under way, keeps
\* it, and in any case what is asked after it, for when that one ends.
AskAll(asked, after) ==
  LET free == {w \in Wallets \ busy : asked[w] # {}}
      kept(w) == next[w] \cup after[w] \cup (IF w \in free THEN {} ELSE asked[w])
  IN  /\ tasks' = tasks \cup UNION {{NewTask(w, a) : a \in asked[w]} : w \in free}
      /\ busy' = busy \cup free
      /\ next' = [w \in Wallets |-> IF kept(w) = {} THEN {} ELSE {And(kept(w))}]

-----------------------------------------------------------------------------
(***************************************************************************)
(* Around the relay.                                                       *)
(***************************************************************************)
inside == <<tasks, permits, asks, seen, relay, lost, due>>

\* The watch reports a wallet, or a block (NO_WALLET).
Report ==
  /\ Len(changes) < Backlog
  /\ \E w \in scenario.wallets \cup {NO_WALLET}, a \in scenario.heard :
       /\ w = NO_WALLET => a = CHOOSE h \in scenario.heard : TRUE
       /\ changes' = Append(changes, [wallet |-> w, asked |-> a])
  /\ UNCHANGED <<inside, config, offered, syncing, host, news, out>>

\* live_refresh hands a new configuration over.
Reconfigure ==
  /\ config < scenario.configs
  /\ config' = config + 1
  /\ UNCHANGED <<inside, changes, offered, syncing, host, news, out>>

\* A sync of the app's finds something, ...
AppSyncs(w) ==
  /\ w \in scenario.wallets \ syncing
  /\ news[w] < scenario.news
  /\ news' = [news EXCEPT ![w] = @ + 1]
  /\ syncing' = syncing \cup {w}
  /\ UNCHANGED <<inside, changes, config, offered, host, out>>

\* ... and is offered to the watch.
AppOffers(w) ==
  /\ w \in syncing
  /\ syncing' = syncing \ {w}
  /\ offered' = offered \cup {w}
  /\ UNCHANGED <<inside, changes, config, host, news, out>>

AppClaims(w) ==
  /\ news[w] > 0
  /\ news' = [news EXCEPT ![w] = 0]
  /\ UNCHANGED <<inside, outside, out>>

HostReads ==
  /\ host # "gone" /\ out > 0
  /\ out' = out - 1
  /\ UNCHANGED <<inside, outside, news>>

HostStops ==
  /\ host = "reading"
  /\ host' \in scenario.halts
  /\ UNCHANGED <<inside, changes, config, offered, syncing, news, out>>

-----------------------------------------------------------------------------
(***************************************************************************)
(* A sync of the watch's (live_sync).                                      *)
(***************************************************************************)
loop == <<asks, seen, relay, lost>>

Move(t, u) == tasks' = (tasks \ {t}) \cup {u}

HoldOver(t) ==
  /\ t.at = "hold"
  /\ Move(t, [t EXCEPT !.at = "wait"])
  /\ UNCHANGED <<outside, loop, permits, news, out, due>>

\* Confirmations proven are taken as they are, news with them, or their
\* scripts are read after all, or the vault fails.
TakeProofs(t) ==
  /\ t.at = "proofs"
  /\ \/ /\ Move(t, [t EXCEPT !.at = "ok", !.found = TRUE])
        /\ due' = [due EXCEPT ![t.wallet] = @ \ t.asked.scripts]
        /\ news' = [news EXCEPT ![t.wallet] = Min({@ + 1, scenario.news})]
     \/ /\ \E at \in {"wait", "failed"} : Move(t, [t EXCEPT !.at = at])
        /\ UNCHANGED <<due, news>>
  /\ UNCHANGED <<outside, loop, permits, out>>

Acquire(t) ==
  /\ t.at = "wait"
  /\ permits > 0
  /\ permits' = permits - 1
  /\ LET covers == due[t.wallet] \cap ReadsFor(t.asked)
     IN  /\ Move(t, [t EXCEPT !.at = "run", !.covers = covers])
         /\ due' = [due EXCEPT ![t.wallet] = @ \ covers]
  /\ UNCHANGED <<outside, loop, news, out>>

\* It found something, ...
SyncFinds(t) ==
  /\ t.at = "run"
  /\ permits' = permits + 1
  /\ Move(t, [t EXCEPT !.at = "ok", !.covers = {}, !.found = TRUE])
  /\ news' = [news EXCEPT ![t.wallet] = Min({@ + 1, scenario.news})]
  /\ UNCHANGED <<outside, loop, out, due>>

\* ... or nothing: behind a pushed change, and read elsewhere than where the
\* watch heard it, it is run again.
SyncFindsNothing(t) ==
  /\ t.at = "run"
  /\ permits' = permits + 1
  /\ \/ Move(t, [t EXCEPT !.at = "ok", !.covers = {}])
     \/ /\ t.asked.reason = "Activity" /\ t.tries < scenario.retries
        /\ news[t.wallet] = 0
        /\ Move(t, [t EXCEPT !.at = "wait", !.covers = {}, !.tries = @ + 1])
  /\ UNCHANGED <<outside, loop, news, out, due>>

SyncFails(t) ==
  /\ t.at = "run"
  /\ permits' = permits + 1
  /\ Move(t, [t EXCEPT !.at = "failed", !.covers = {}])
  /\ due' = [due EXCEPT ![t.wallet] = @ \cup t.covers]
  /\ UNCHANGED <<outside, loop, news, out>>

-----------------------------------------------------------------------------
(***************************************************************************)
(* The arms of the loop.                                                   *)
(***************************************************************************)
Announce(w, at, joined) ==
  [relay EXCEPT !.at = at, !.wallet = w, !.room = 0, !.joined = joined]

\* What a sync found before the watch started, and nobody claimed.
Start ==
  /\ relay.at = "start"
  /\ \E w \in relay.todo :
       relay' = [Announce(w, "count", FALSE) EXCEPT !.todo = @ \ {w}]
  /\ UNCHANGED <<outside, tasks, permits, asks, seen, news, out, lost, due>>

\* A wallet that changed is asked for.
TakeChange ==
  /\ relay.at = "select" /\ changes # << >>
  /\ changes' = Tail(changes)
  /\ LET e == Head(changes)
     IN  /\ e.wallet # NO_WALLET
         /\ AskAll([Nothing EXCEPT ![e.wallet] = {e.asked}], Nothing)
         /\ due' = [due EXCEPT ![e.wallet] = @ \cup ReadsFor(e.asked)]
  /\ UNCHANGED <<config, offered, syncing, host, permits, owed,
                 futile, tried, rechecked, seen, relay, news, out, lost>>

\* Of three asked in turn, at most: the one asked first, and the others.
FirstOf(a, b, c) == IF a # {} THEN a ELSE IF b # {} THEN b ELSE c
AfterIt(a, b, c) ==
  IF a # {} THEN b \cup c ELSE IF b # {} THEN c ELSE {}

\* What is owed is asked again, then a complete sync of some wallets, then
\* the scripts of what vanished from others.
LookFor(complete, vanished, scripts) ==
  LET whole(w) == IF w \in complete THEN {Ask("Started", {})} ELSE {}
      named(w) == IF w \in vanished THEN {Ask("NewBlock", scripts)} ELSE {}
  IN  /\ AskAll([w \in Wallets |-> FirstOf(owed[w], whole(w), named(w))],
                [w \in Wallets |-> AfterIt(owed[w], whole(w), named(w))])
      /\ owed' = Nothing
      /\ due' = [w \in Wallets |->
                  IF w \in complete THEN WalletScripts ELSE due[w]]

\* With a session, the wallets that had no complete sync for a day, and what
\* vanished, are looked for, each at most once an hour; without one, nothing.
Look ==
  \/ UNCHANGED <<tasks, asks, due>>
  \/ \E complete \in SUBSET {w \in scenario.wallets : "complete" \in scenario.looks},
        recheck \in SUBSET {w \in scenario.wallets : "recheck" \in scenario.looks},
        keptTried \in SUBSET tried, keptRechecked \in SUBSET rechecked,
        scripts \in SUBSET WalletScripts :
       /\ (recheck \subseteq keptRechecked) <=> (scripts = {})
       /\ LookFor(complete \ keptTried, recheck \ keptRechecked, scripts)
       /\ tried' = keptTried \cup complete
       /\ rechecked' = keptRechecked \cup recheck
       /\ UNCHANGED futile

\* A block, or, with nothing looked for, the status of the watch.
TakeBlock ==
  /\ relay.at = "select" /\ changes # << >>
  /\ changes' = Tail(changes)
  /\ Head(changes).wallet = NO_WALLET
  /\ Look
  /\ relay' = [relay EXCEPT !.at = "deliver"]
  /\ UNCHANGED <<config, offered, syncing, host, permits, seen, news,
                 out, lost>>

LooksTick ==
  /\ relay.at = "select"
  /\ Look
  /\ UNCHANGED <<outside, permits, seen, relay, news, out, lost>>

\* The permits the abandoned syncs held stay taken.
MutAbortAll ==
  /\ tasks' = {}
  /\ permits' = permits

\* Every sync is abandoned, the permits they held with them.
AbortAll ==
  /\ tasks' = {}
  /\ permits' = SYNCS_AT_ONCE

\* A new configuration: what was asked under the old one is dropped.
TakeConfig ==
  /\ relay.at = "select" /\ seen # config
  /\ seen' = config
  /\ AbortAll
  /\ busy' = {} /\ next' = Nothing
  /\ owed' = Nothing
  /\ tried' = {} /\ rechecked' = {}
  /\ due' = Nothing
  /\ UNCHANGED <<outside, futile, relay, news, out, lost>>

\* A sync of the watch's own under way claims it.
TakeOffer(w) ==
  /\ relay.at = "select" /\ w \in offered
  /\ offered' = offered \ {w}
  /\ relay' = IF w \in busy \/ news[w] = 0 THEN relay
              ELSE Announce(w, "count", FALSE)
  /\ UNCHANGED <<changes, config, syncing, host, tasks, permits,
                 asks, seen, news, out, lost, due>>

\* A sync ended: what it found decides the holds, what it was asked is owed
\* when it failed, and it is announced.
Join(t) ==
  /\ relay.at = "select" /\ t.at \in {"ok", "failed"}
  /\ tasks' = tasks \ {t}
  /\ LET w == t.wallet
         found == t.at = "ok" /\ (t.found \/ news[w] > 0)
     IN  /\ futile' = [futile EXCEPT ![w] = FutileAfter(w, t.asked, found)]
         /\ owed' = IF t.at = "ok" THEN owed
                    ELSE [owed EXCEPT ![w] =
                            {And(@ \cup {t.asked})}]
         /\ relay' = Announce(w, IF t.at = "ok" THEN "count" ELSE "report", TRUE)
  /\ UNCHANGED <<outside, permits, busy, next, tried, rechecked, seen, news,
                 out, lost, due>>

-----------------------------------------------------------------------------
(***************************************************************************)
(* What the loop awaits: announce and deliver.                             *)
(***************************************************************************)
aside == <<outside, tasks, permits, asks, seen, due>>

Count ==
  /\ relay.at = "count"
  /\ LET waiting == Min({news[relay.wallet], CLAIM_BATCH})
     IN  relay' = IF waiting = 0 THEN [relay EXCEPT !.at = "report"]
                  ELSE [relay EXCEPT !.at = "reserve", !.room = waiting]
  /\ UNCHANGED <<aside, news, out, lost>>

Reserve ==
  /\ relay.at = "reserve"
  /\ host # "gone"
  /\ out + relay.room <= EVENT_QUEUE
  /\ relay' = [relay EXCEPT !.at = "claim"]
  /\ UNCHANGED <<aside, news, out, lost>>

\* As much is claimed as is there by then, room or not.
MutClaim ==
  /\ relay.at = "claim"
  /\ LET w == relay.wallet
         claimed == Min({news[w], CLAIM_BATCH})
         sent == Min({claimed, relay.room})
     IN  /\ news' = [news EXCEPT ![w] = @ - claimed]
         /\ out' = out + sent
         /\ lost' = Min({lost + claimed - sent, 1})
         /\ relay' = [relay EXCEPT !.at = IF claimed < relay.room THEN "report"
                                          ELSE "count", !.room = 0]
  /\ UNCHANGED aside

\* What is claimed, no more than there is room for, goes out at once; a
\* claim that is not saved leaves the news to a later one.
Claim ==
  /\ relay.at = "claim"
  /\ \/ LET w == relay.wallet
            claimed == Min({news[w], relay.room})
            sent == Min({claimed, relay.room})
        IN  /\ news' = [news EXCEPT ![w] = @ - claimed]
            /\ out' = out + sent
            /\ lost' = Min({lost + claimed - sent, 1})
            /\ relay' = [relay EXCEPT !.at = IF claimed < relay.room
                                             THEN "report" ELSE "count",
                                      !.room = 0]
     \/ /\ scenario.savesFail
        /\ relay' = [relay EXCEPT !.at = "report", !.room = 0]
        /\ UNCHANGED <<news, out, lost>>
  /\ UNCHANGED aside

\* The report is handed over.  After a sync of the watch's own, what was
\* asked of the wallet since is run.
Hand ==
  /\ relay.at = "report"
  /\ host # "gone"
  /\ out < EVENT_QUEUE
  /\ out' = out + 1
  /\ LET w == relay.wallet
     IN  IF relay.joined /\ w \in busy
         THEN /\ busy' = IF next[w] = {} THEN busy \ {w} ELSE busy
              /\ next' = [next EXCEPT ![w] = {}]
              /\ tasks' = tasks \cup {NewTask(w, a) : a \in next[w]}
         ELSE UNCHANGED <<busy, next, tasks>>
  /\ relay' = Select(relay.todo)
  /\ UNCHANGED <<outside, permits, owed, futile, tried, rechecked, seen, news,
                 lost, due>>

\* A block is handed over.
Deliver ==
  /\ relay.at = "deliver"
  /\ host # "gone"
  /\ out < EVENT_QUEUE
  /\ out' = out + 1
  /\ relay' = Select({})
  /\ UNCHANGED <<aside, news, lost>>

\* The watch stops, or nobody takes the events any more; a last status goes
\* out if there is room, unless the loop had yet to begin.
End ==
  /\ \/ host = "stopped" /\ relay.at \in {"select", "reserve", "report", "deliver"}
     \/ host = "gone" /\ relay.at \in {"reserve", "report", "deliver"}
  /\ relay' = [Select({}) EXCEPT !.at = "ended"]
  /\ AbortAll
  /\ busy' = {} /\ next' = Nothing
  /\ owed' = Nothing
  /\ tried' = {} /\ rechecked' = {} /\ futile' = [w \in Wallets |-> 0]
  /\ due' = Nothing
  /\ out' \in {out, Min({out + 1, EVENT_QUEUE})}
  /\ UNCHANGED <<outside, seen, news, lost>>

Goes(t) ==
  \/ HoldOver(t) \/ TakeProofs(t)
  \/ SyncFinds(t) \/ SyncFindsNothing(t) \/ SyncFails(t)

Await == Start \/ Count \/ Reserve \/ Claim \/ Hand \/ Deliver

RelayStep ==
  \/ Start \/ TakeChange \/ TakeBlock \/ LooksTick \/ TakeConfig
  \/ \E w \in Wallets : TakeOffer(w)
  \/ \E t \in tasks : Join(t)
  \/ Count \/ Reserve \/ Claim \/ Hand \/ Deliver \/ End

Around ==
  \/ Report \/ Reconfigure \/ HostReads \/ HostStops
  \/ \E w \in Wallets : AppSyncs(w) \/ AppOffers(w) \/ AppClaims(w)

RelayNext ==
  /\ \/ Around
     \/ RelayStep
     \/ \E t \in tasks : Goes(t) \/ Acquire(t)
  /\ UNCHANGED scenario

RelaySpec == RelayInit /\ [][RelayNext]_allRelayVars

Of(w, Step(_)) == \E t \in tasks : t.wallet = w /\ Step(t)

\* The loop goes on with what it awaits, and picks at random among the arms
\* that are ready, so a sync that ended is joined; a sync goes on, every
\* request having a timeout, and the permits go to whoever waited longest;
\* the host reads.
RelayFairness ==
  /\ WF_relayVars(Await) /\ WF_relayVars(End) /\ WF_relayVars(HostReads)
  /\ \A w \in Wallets : /\ SF_relayVars(Of(w, Join))
                        /\ SF_relayVars(Of(w, Acquire))
                        /\ WF_relayVars(Of(w, Goes))

-----------------------------------------------------------------------------
(***************************************************************************)
(* Properties.                                                             *)
(***************************************************************************)
RelayTypeOK ==
  /\ changes \in Seq([wallet : Wallets \cup {NO_WALLET}, asked : Asked])
  /\ config \in 0..scenario.configs /\ seen \in 0..scenario.configs
  /\ tasks \subseteq Task /\ permits \in 0..SYNCS_AT_ONCE
  /\ busy \subseteq Wallets
  /\ next \in [Wallets -> SUBSET Asked] /\ owed \in [Wallets -> SUBSET Asked]
  /\ futile \in [Wallets -> 0..(FREE_FUTILE + 1)]
  /\ tried \subseteq Wallets /\ rechecked \subseteq Wallets
  /\ relay \in Relay
  /\ offered \subseteq Wallets /\ syncing \subseteq Wallets
  /\ news \in [Wallets -> 0..scenario.news]
  /\ out \in 0..EVENT_QUEUE
  /\ host \in {"reading", "stopped", "gone"}

\* What is still to be run for a wallet.
ToRun(w) ==
  {t.asked : t \in {u \in tasks : u.wallet = w /\ u.at \notin {"run", "ok"}}}
    \cup next[w] \cup owed[w]

Kept(w, script) == \E a \in ToRun(w) : script \in ReadsFor(a)

\* A script the relay was told to read is read by a sync that began later,
\* or there is one to come that reads it: nothing that syncs under way,
\* failures, holds and requests put together do loses it (ask, and, owed).
NothingForgotten ==
  \A w \in Wallets : \A script \in due[w] : Kept(w, script)

\* A wallet has at most one sync of the watch's, and is marked busy for as
\* long as that sync runs and is announced, no longer: otherwise what is
\* asked of it waits for a sync that never ends.
OneSyncAWallet ==
  \A w \in Wallets :
    /\ Cardinality({t \in tasks : t.wallet = w}) <= 1
    /\ (w \in busy) <=> ((\E t \in tasks : t.wallet = w)
                          \/ (relay.joined /\ relay.wallet = w))

\* News that is claimed goes out: a watch that stops, or a host that stops
\* reading, finds it in the vault (announce).
NeverClaimedAndLost == lost = 0

\* While the watch runs, news in the vault always has someone who will hand
\* it out: the app that just synced, an offer, a sync of the watch's.
NewsHasAHandler ==
  \A w \in Wallets :
    (news[w] > 0 /\ relay.at # "ended") =>
      \/ w \in syncing \cup offered \cup busy \cup relay.todo
      \/ owed[w] # {}
      \/ relay.wallet = w

\* What was asked of a wallet while its sync ran is run in its turn, where
\* the app's own syncs do not bring news for ever: the relay hands that out
\* first.
AskedIsRun ==
  \A w \in Wallets : next[w] # {} ~> next[w] = {}

\* Together, with their types: every reading asked for is still to be made,
\* by one sync of the wallet at a time.
RelayInv == RelayTypeOK /\ NothingForgotten /\ OneSyncAWallet
=============================================================================
