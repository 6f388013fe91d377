------------------------------ MODULE Sending -------------------------------
(***************************************************************************)
(* The calls that go to the servers of a backend (manager/broadcast.rs,    *)
(* manager/sync.rs): the preview of a transaction, its broadcast, where it *)
(* stands, and the syncs of wallets, each trying one server after another  *)
(* while servers fail and recover, other calls relegate them, the watch    *)
(* moves, coins are spent and blocks are found.                            *)
(*                                                                         *)
(* A network has one mempool: a node that has not got a transaction in it  *)
(* is a server down. What a server shows is a transaction as its txid      *)
(* commits to it; a spend it shows and puts in a block is in a block; all  *)
(* else it says may be wrong. One network, one backend.                    *)
(***************************************************************************)
EXTENDS ServerOrder, Preview

CONSTANTS Calls,
          Config, Network,
          Txs,            \* transactions that may be sent
          SpendsOf,       \* the outpoints each spends
          Truth,          \* what each outpoint holds
          Vaults,         \* the wallets a vault may hold, in order
          Containers,     \* what may be pasted for a preview
          RECENT_BROADCASTS,
          Scenarios,      \* kinds of calls that run together, how many, among
                          \* how many moves of which parts of the world
          MaxTime

ASSUME ConfigAssumption == Config \in Seq(ToSet(Config))
ASSUME VaultsAssumption ==
  \A vault \in Vaults : /\ vault \in Seq(ToSet(vault))
                        /\ \A w \in ToSet(vault) : w.kind \in {"descriptors", "address"}
\* A txid commits to the transaction: the one a PSBT carries for a coin has
\* the coin.
ASSUME ContainersAssumption ==
  \A b \in Containers : b.source = "psbt" =>
    \A i \in DOMAIN b.inputs : \A prev \in b.inputs[i].previous :
      (prev.tx = b.inputs[i].outpoint.tx /\ b.inputs[i].outpoint.vout \in DOMAIN prev.outs) =>
        prev.outs[b.inputs[i].outpoint.vout] = Truth[b.inputs[i].outpoint]

VARIABLES now, relegated, down, live, place, recent, saved, call, calls, moves,
          since,          \* when each was put last the first time in a row
          ever,           \* what the network took
          last,           \* the server that answered the last sync
          scenario

vars == <<now, relegated, down, live, place, recent, saved, call, calls, moves,
          since, ever, last, scenario>>
world == <<now, down, live, place, moves, ever, last, scenario>>

NoCall == [at |-> "idle", kind |-> "none", order |-> << >>, next |-> 1,
           failed |-> {}, hit |-> {}, down |-> {}, watch |-> {}, tx |-> {},
           decoded |-> {}, facts |-> << >>, settled |-> {}, tip |-> {}, checks |-> FALSE,
           tips |-> FALSE, result |-> "none", preview |-> {}]

Init == /\ now = 0 /\ relegated = << >> /\ down = {} /\ live = {}
        /\ place = [t \in Txs |-> "away"]
        /\ recent = << >> /\ saved = << >>
        /\ call = [p \in Calls |-> NoCall]
        /\ calls = 0 /\ moves = 0
        /\ since = << >> /\ ever = {} /\ last = {}
        /\ scenario \in Scenarios

-----------------------------------------------------------------------------
\* The network.

Spenders(c) == {t \in Txs : c \in SpendsOf[t] /\ place[t] # "away"}
Rivals(t) == {u \in Txs \ {t} : SpendsOf[u] \cap SpendsOf[t] # {}}
Held(t) == place[t] # "away"

Move == moves < scenario.moves /\ moves' = moves + 1

Pooled(t) == [u \in Txs |-> IF u = t THEN "pool"
                            ELSE IF u \in Rivals(t) THEN "away" ELSE place[u]]
Arrives(t) == /\ Move /\ "chain" \in scenario.world
              /\ place[t] = "away" /\ \A u \in Rivals(t) : place[u] # "block"
              /\ place' = Pooled(t) /\ ever' = ever \cup {t}
              /\ UNCHANGED <<now, relegated, down, live, recent, saved, call,
                             calls, since, last, scenario>>
Mined(t) == /\ Move /\ "chain" \in scenario.world /\ place[t] = "pool"
            /\ place' = [place EXCEPT ![t] = "block"]
            /\ UNCHANGED <<now, relegated, down, live, recent, saved, call,
                           calls, since, ever, last, scenario>>
Flips(e) == /\ Move /\ "servers" \in scenario.world
            /\ down' = IF e \in down THEN down \ {e} ELSE down \cup {e}
            /\ UNCHANGED <<now, relegated, live, place, recent, saved, call,
                           calls, since, ever, last, scenario>>
WatchMoves == /\ Move /\ "watch" \in scenario.world
              /\ live' \in {{}} \cup {{[network |-> n, server |-> e]} :
                                        n \in {Network, "another"},
                                        e \in ToSet(ServersFor(Config))}
              /\ live' # live
              /\ UNCHANGED <<now, relegated, down, place, recent, saved, call,
                             calls, since, ever, last, scenario>>
Tick == /\ "servers" \in scenario.world /\ now < MaxTime /\ now' = now + 1
        /\ UNCHANGED <<relegated, down, live, place, recent, saved, call, calls,
                       moves, since, ever, last, scenario>>

-----------------------------------------------------------------------------
\* The servers a call asks.

Watching == LiveEndpoint(Config, Network, live)
SendEndpoints(purpose) ==
  Order(relegated, SendOrder(Endpoints(Config), Watching, purpose), Watching, now)
SyncEndpoints(first) ==
  Order(relegated, SyncOrder(Endpoints(Config), last, first), first, now)

Asked(p) == call[p].order[call[p].next]
Asking(p, kind) == /\ call[p].at = "asking" /\ call[p].kind = kind
                   /\ call[p].next <= Len(call[p].order)

\* One that answered relegates those that were down before it.
AnsweredAfter(p, e) ==
  /\ relegated' = Answered(relegated, e, call[p].failed, now)
  /\ since' = [x \in DOMAIN relegated' |->
                 IF relegated'[x].count = 1 THEN relegated'[x].until - RelegationFor(0)
                 ELSE since[x]]

Begin(p, kind, order) ==
  [NoCall EXCEPT !.at = "asking", !.kind = kind, !.order = order,
                 !.watch = Watching]
Ready(p, kind) == /\ call[p].at \in {"idle", "done"} /\ kind \in scenario.kinds
                  /\ calls < scenario.calls /\ calls' = calls + 1

\* What a failure is: an outage of the server, or anything else.
Faults(e) == IF e \in down THEN {"outage"} ELSE {"other"}
FailedAt(c, e, fault) ==
  [c EXCEPT !.next = @ + 1, !.hit = @ \cup {e}, !.down = @ \cup {e},
            !.failed = IF fault = "outage" THEN @ \cup {e} ELSE @]
Done(c, result) == [c EXCEPT !.at = "done", !.result = result]
ToldBy(c, e, result) == [Done(c, result) EXCEPT !.hit = @ \cup {e}]

-----------------------------------------------------------------------------
\* A preview.

EngineSpends(c) ==
  LET said == {[tx |-> t, confirmed |-> b, verified |-> TRUE] :
                 t \in {t \in Txs : c \in SpendsOf[t]}, b \in BOOLEAN}
  IN  {{}} \cup {{by} : by \in {by \in said : by.confirmed => place[by.tx] = "block"}}

\* What one wallet says of an outpoint: a descriptor wallet holds its
\* transactions, a watched address the listing of its last sync. What an
\* earlier wallet said of its standing stays.
WalletCoin(f, w, c, by) ==
  CASE c \notin w.coins -> f
    [] c \in w.coins /\ w.kind = "descriptors" ->
         [f EXCEPT !.prevout = {Truth[c]}, !.wallet = {w.name},
                   !.spent = {by # {}}, !.by = by, !.satisfaction = w.satisfaction]
    [] c \in w.coins /\ w.kind = "address" ->
         [f EXCEPT !.prevout = {w.listing[c]}, !.wallet = {w.name},
                   !.listed = TRUE]
WalletsSay(vault, c, by) ==
  LET upTo[k \in 0..Len(vault)] ==
        IF k = 0 THEN NoFacts ELSE WalletCoin(upTo[k - 1], vault[k], c, by)
  IN  upTo[Len(vault)]
VaultFacts(vault, outpoints, by) ==
  [i \in DOMAIN outpoints |-> WalletsSay(vault, outpoints[i], by[i])]

\* A listing the PSBT's previous transaction contradicts is set aside.
SetAside(f, d) ==
  IF f.listed /\ d.proven /\ f.prevout # {} /\ f.prevout # d.prevout
  THEN [NoFacts EXCEPT !.contradicted = f.prevout] ELSE f

NeedsChain(facts) == \E i \in DOMAIN facts :
  facts[i].prevout = {} \/ facts[i].spent = {} \/ facts[i].listed
NeedsTip(lock, tip) ==
  lock.kind = "height" /\ lock.at > 0 /\ \A t \in tip : lock.at > t

\* A coin is settled once a server has spoken for it, whatever it left
\* open: the next server is another operator.
Settled(f) ==
  (f.prevout # {} /\ f.spent # {} /\ ~f.listed) \/ f.unknown

\* What is pasted: a container, one in an envelope, one in two.
Plain(inner) == [blank |-> FALSE, long |-> FALSE, wrapped |-> "none", inner |-> inner]
Enveloped(texts) == {[Plain(t) EXCEPT !.wrapped = "whole"] : t \in texts}
Pasted == LET plain == {Plain(b) : b \in Containers}
          IN  plain \cup Enveloped(plain) \cup Enveloped(Enveloped(plain))

\* The call with what the file and the vault say, routed to the servers or
\* not: offline, it is built from that alone.
PreviewBegun(p, decoded, facts, tip, routed) ==
  [Begin(p, "preview", IF routed THEN SendEndpoints("preview") ELSE << >>)
     EXCEPT !.decoded = {decoded}, !.facts = facts, !.tip = tip,
            !.settled = {i \in DOMAIN facts : Settled(facts[i])},
            !.checks = NeedsChain(facts),
            !.tips = NeedsTip(decoded.tx.lock, tip)]

StartPreview(p) ==
  /\ Ready(p, "preview")
  /\ \E bytes \in UNION {DecodeTransaction(text) : text \in Pasted}, vault \in Vaults :
     \E decoded \in Decode(bytes) :
     \E by \in [DOMAIN decoded.outpoints ->
                  UNION {EngineSpends(decoded.outpoints[i]) :
                           i \in DOMAIN decoded.outpoints}] :
       /\ \A i \in DOMAIN by : by[i] \in EngineSpends(decoded.outpoints[i])
       /\ LET held == VaultFacts(vault, decoded.outpoints, by)
              facts == [i \in DOMAIN held |-> SetAside(held[i], decoded.inputs[i])]
              tip == IF \E k \in DOMAIN vault : vault[k].kind = "descriptors"
                     THEN {0} ELSE {}
              asks == NeedsChain(facts) \/ NeedsTip(decoded.tx.lock, tip)
          IN  \E routed \in {asks, FALSE} :
                call' = [call EXCEPT ![p] = PreviewBegun(p, decoded, facts, tip, routed)]
  /\ UNCHANGED <<relegated, recent, saved, since>> /\ UNCHANGED world

\* What a server may say of a coin: it has no such transaction, or hands it
\* over, with a word on whether it is spent, by what and where that is.
NotFound == [txout |-> {}, spent |-> {}, by |-> {}]
EsploraFacts(c) ==
  {[txout |-> {Truth[c]}, spent |-> s, by |-> {}] : s \in {{}, {FALSE}, {TRUE}}}
    \cup {[txout |-> {Truth[c]}, spent |-> {TRUE}, by |-> {by}] :
            by \in [tx : Txs, confirmed : BOOLEAN, verified : BOOLEAN]}
EsploraAnswers(c) ==
  {NotFound} \cup {a \in EsploraFacts(c) : \A by \in a.by :
     by.verified => /\ by.confirmed /\ c \in SpendsOf[by.tx]
                    /\ place[by.tx] = "block"}

\* An Electrum server lists the coins of the script, then its history,
\* whose transactions are read to find the one that spends the coin.
ElectrumAnswers(c) ==
  {NotFound}
    \cup {[txout |-> {Truth[c]}, spent |-> s, by |-> {}] :
            s \in {{}, {FALSE}, {TRUE}}}
    \cup {[txout |-> {Truth[c]}, spent |-> {TRUE},
           by |-> {[tx |-> t, confirmed |-> place[t] = "block",
                    verified |-> TRUE]}] : t \in Spenders(c)}
Answers(e, c) == IF e.protocol = "esplora" THEN EsploraAnswers(c)
                 ELSE ElectrumAnswers(c)

\* A coin handed over in its transaction replaces a listing.
Backed(f, txout) ==
  IF ~f.listed THEN [f EXCEPT !.prevout = txout]
  ELSE LET differs == f.prevout # {} /\ f.prevout # txout
           same == \A a \in f.prevout, b \in txout : a.script = b.script
       IN  [f EXCEPT !.listed = FALSE, !.prevout = txout,
                     !.wallet = IF differs /\ ~same THEN {} ELSE @,
                     !.contradicted = IF differs THEN f.prevout ELSE @]

\* What an answer changes: the coin unless a wallet's engine holds it, its
\* standing unless one says it.
Learn(f, a) ==
  LET coin == CASE f.prevout # {} /\ ~f.listed -> f
                [] OTHER -> IF a.txout = {} THEN [f EXCEPT !.unknown = TRUE]
                            ELSE Backed(f, a.txout)
  IN  IF f.spent # {} THEN coin
      ELSE [coin EXCEPT !.spent = a.spent, !.by = a.by]

Open(c) == DOMAIN c.facts \ c.settled

\* One server is asked about the coins still open, in order, until it
\* stops answering. A server that answered any relegates those before it.
AskCoins(p) ==
  LET c == call[p]
      e == Asked(p)
      open == Open(c)
      decoded == CHOOSE d \in c.decoded : TRUE
  IN  /\ Asking(p, "preview")
      /\ open # {}
      /\ \E some \in {s \in SUBSET open : \A i \in s, j \in open : j <= i => j \in s} :
         \E said \in [some -> UNION {Answers(e, decoded.outpoints[i]) : i \in some}] :
         \E fault \in Faults(e) :
           /\ e \in down => some # open
           /\ \A i \in some : said[i] \in Answers(e, decoded.outpoints[i])
           /\ LET facts == [i \in DOMAIN c.facts |->
                     IF i \in some THEN Learn(c.facts[i], said[i]) ELSE c.facts[i]]
                  told == [c EXCEPT !.facts = facts, !.settled = @ \cup some]
              IN  call' = [call EXCEPT ![p] =
                     IF some # open
                     THEN FailedAt(told, e, fault)
                     ELSE [told EXCEPT !.next = @ + 1, !.hit = @ \cup {e}]]
           /\ IF some # {} THEN AnsweredAfter(p, e)
              ELSE UNCHANGED <<relegated, since>>
      /\ UNCHANGED <<recent, saved, calls>> /\ UNCHANGED world

\* The coins are settled or the servers are out: the tip is asked next,
\* of the servers that did not stop answering.
CoinsAsked(p) ==
  /\ call[p].at = "asking" /\ call[p].kind = "preview"
  /\ call[p].next > Len(call[p].order) \/ Open(call[p]) = {}
  /\ call' = [call EXCEPT ![p].at = "tip", ![p].next = 1]
  /\ UNCHANGED <<relegated, recent, saved, calls, since>> /\ UNCHANGED world

AskTip(p) ==
  LET c == call[p]
      e == Asked(p)
  IN  /\ c.at = "tip" /\ c.tips /\ c.next <= Len(c.order)
      /\ \/ /\ e \in c.down
            /\ call' = [call EXCEPT ![p].next = @ + 1]
            /\ UNCHANGED <<relegated, since>>
         \/ /\ e \notin c.down /\ e \notin down
            /\ call' = [call EXCEPT ![p].tip = {1}, ![p].tips = FALSE,
                                    ![p].hit = @ \cup {e}]
            /\ AnsweredAfter(p, e)
         \/ /\ e \notin c.down
            /\ \E fault \in Faults(e) :
                 call' = [call EXCEPT ![p] = FailedAt(c, e, fault)]
            /\ UNCHANGED <<relegated, since>>
      /\ UNCHANGED <<recent, saved, calls>> /\ UNCHANGED world

\* A coin no server spoke for is marked, and the preview is built.
Shown(p) ==
  LET c == call[p]
      facts == [i \in DOMAIN c.facts |->
                  [c.facts[i] EXCEPT !.unchecked =
                     /\ c.checks
                     /\ (c.facts[i].prevout = {} \/ c.facts[i].listed)
                     /\ ~c.facts[i].unknown]]
  IN  /\ c.at = "tip" /\ (~c.tips \/ c.next > Len(c.order))
      /\ call' = [call EXCEPT ![p] =
           [Done(c, "shown") EXCEPT !.facts = facts,
              !.preview = {BuildPreview(d, facts, c.tip, now) : d \in c.decoded}]]
      /\ UNCHANGED <<relegated, recent, saved, calls, since>> /\ UNCHANGED world

-----------------------------------------------------------------------------
\* A broadcast.

StartBroadcast(p) ==
  /\ Ready(p, "broadcast")
  /\ \E t \in Txs : call' = [call EXCEPT ![p] =
       [Begin(p, "broadcast", SendEndpoints("broadcast")) EXCEPT !.tx = {t}]]
  /\ UNCHANGED <<relegated, recent, saved, since>> /\ UNCHANGED world

\* What the node of a server says of a transaction: it takes it, has it
\* already, or refuses it in words of its own.
Verdict(t) ==
  CASE place[t] = "pool" -> {"txn-already-in-mempool"}
    [] place[t] = "block" -> {"outputs already in utxo set"}
    [] OTHER -> CASE \E u \in Rivals(t) : place[u] = "block" -> {"missing inputs"}
                  [] OTHER -> {"taken", "insufficient fee"}

MutAlreadyKnown(words) == words = "txn-already-in-mempool"

AlreadyKnown(words) ==
  words \in {"txn-already-in-mempool", "outputs already in utxo set"}

MutSentAs(t, txid) == TRUE

\* Sent means the server answered with the txid of the transaction.
SentAs(t, txid) == txid = t

Remember(t) ==
  LET list == <<t>> \o Without(recent, t)
  IN  SubSeq(list, 1, Min({Len(list), RECENT_BROADCASTS}))

Sent(p, e, t) ==
  /\ AnsweredAfter(p, e)
  /\ recent' = Remember(t)
  /\ saved' \in {recent', saved}
  /\ call' = [call EXCEPT ![p] = ToldBy(@, e, "sent")]

Unsent(p, e, fault) ==
  /\ call' = [call EXCEPT ![p] = FailedAt(@, e, fault)]
  /\ UNCHANGED <<relegated, recent, saved, since>>

Takes(t) == place' = Pooled(t) /\ ever' = ever \cup {t}

\* One server is handed the transaction. An answer may be lost after the
\* node took it; a server may answer with another txid; one whose node has
\* it already is asked for it.
Hand(p) ==
  LET e == Asked(p)
      t == CHOOSE t \in call[p].tx : TRUE
  IN  /\ Asking(p, "broadcast")
      /\ \/ /\ \E fault \in Faults(e) : Unsent(p, e, fault)
            /\ \/ UNCHANGED <<place, ever>>
               \/ "taken" \in Verdict(t) /\ Takes(t)
         \/ /\ e \notin down
            /\ \E words \in Verdict(t) :
                 \/ /\ words = "taken"
                    /\ \E txid \in Txs :
                         /\ IF SentAs(t, txid) THEN Sent(p, e, t)
                            ELSE Unsent(p, e, "other")
                         /\ \/ Takes(t)
                            \/ txid # t /\ UNCHANGED <<place, ever>>
                 \/ /\ words # "taken" /\ AlreadyKnown(words)
                    /\ \/ Sent(p, e, t)
                       \/ \E fault \in Faults(e) : Unsent(p, e, fault)
                    /\ UNCHANGED <<place, ever>>
                 \/ /\ words # "taken" /\ ~AlreadyKnown(words)
                    /\ call' = [call EXCEPT ![p] = ToldBy(@, e, "refused")]
                    /\ UNCHANGED <<relegated, recent, saved, since, place, ever>>
      /\ UNCHANGED <<now, down, live, moves, calls, last, scenario>>

-----------------------------------------------------------------------------
\* Where a transaction stands, and a sync or a load of older history.

StartStatus(p) ==
  /\ Ready(p, "status")
  /\ call' = [call EXCEPT ![p] =
       Begin(p, "status", SendEndpoints("broadcast"))]
  /\ UNCHANGED <<relegated, recent, saved, since>> /\ UNCHANGED world

\* The sync the watch asked for starts at the server that told of it.
StartSync(p) ==
  /\ Ready(p, "sync")
  /\ \E prefer \in {{}} \cup {{e} : e \in ToSet(ServersFor(Config))} :
       LET first == IF prefer # {} THEN prefer ELSE Watching
       IN  call' = [call EXCEPT ![p] =
             [Begin(p, "sync", SyncEndpoints(first)) EXCEPT !.watch = first]]
  /\ UNCHANGED <<relegated, recent, saved, since>> /\ UNCHANGED world

\* One server is asked; an address whose history it disowns is left as it
\* was, and no other server is asked.
AskRead(p) ==
  LET e == Asked(p)
      c == [call[p] EXCEPT !.hit = @ \cup {e}]
  IN  /\ \E kind \in {"status", "sync"} : Asking(p, kind)
      /\ \/ /\ \E fault \in Faults(e) :
                 call' = [call EXCEPT ![p] = FailedAt(c, e, fault)]
            /\ UNCHANGED <<relegated, since, last>>
         \/ /\ e \notin down /\ AnsweredAfter(p, e)
            /\ \/ /\ call' = [call EXCEPT ![p] = Done(c, "read")]
                  /\ last' = IF c.kind = "sync" THEN {e} ELSE last
               \/ /\ c.kind = "sync"
                  /\ call' = [call EXCEPT ![p] = Done(c, "not_read")]
                  /\ UNCHANGED last
      /\ UNCHANGED <<now, down, live, place, moves, ever, scenario, recent,
                     saved, calls>>

\* The servers are out: one error says what each of them said.
Fails(p) ==
  /\ call[p].at = "asking" /\ call[p].kind # "preview"
  /\ call[p].next > Len(call[p].order)
  /\ call' = [call EXCEPT ![p] = Done(@, "failed")]
  /\ UNCHANGED <<relegated, recent, saved, calls, since>> /\ UNCHANGED world

ForgetBroadcast(t) ==
  /\ t \in ToSet(recent)
  /\ recent' = Without(recent, t) /\ saved' = recent'
  /\ UNCHANGED <<relegated, call, calls, since>> /\ UNCHANGED world

\* The process ends and starts again.
Restart == /\ Move /\ "watch" \in scenario.world
           /\ call' = [p \in Calls |-> NoCall]
           /\ recent' = saved
           /\ relegated' = << >> /\ since' = << >> /\ live' = {}
           /\ UNCHANGED <<now, down, place, saved, calls, ever, last, scenario>>

Next ==
  \/ \E t \in Txs : Arrives(t) \/ Mined(t) \/ ForgetBroadcast(t)
  \/ \E e \in ToSet(ServersFor(Config)) : Flips(e)
  \/ WatchMoves \/ Tick \/ Restart
  \/ \E p \in Calls : \/ StartPreview(p) \/ AskCoins(p) \/ CoinsAsked(p)
                      \/ AskTip(p) \/ Shown(p)
                      \/ StartBroadcast(p) \/ Hand(p)
                      \/ StartStatus(p) \/ StartSync(p) \/ AskRead(p)
                      \/ Fails(p)

Spec == Init /\ [][Next]_vars

-----------------------------------------------------------------------------
Decoded(p) == CHOOSE d \in call[p].decoded : TRUE
PreviewOf(p) == CHOOSE v \in call[p].preview : TRUE
Really(p) ==
  Brought([i \in DOMAIN Decoded(p).outpoints |-> {Truth[Decoded(p).outpoints[i]]}])

\* A fee shown as more than the word of a file or of a listing is the fee
\* the transaction pays, whatever the PSBT, the listings of the watched
\* addresses and the servers said, in whatever order they were heard.
FeeIsReal == \A p \in Calls : call[p].preview # {} =>
  \A f \in PreviewOf(p).fee :
    ~PreviewOf(p).declared => f = Really(p) - Paid(Decoded(p).tx)

\* The app refuses a transaction before the network does only when the
\* network would: it pays more than it brings or than there is, or a coin
\* of it is spent in a block.
BlockedIsRefused == \A p \in Calls :
  call[p].preview # {} /\ PreviewOf(p).readiness = "refused" =>
    \/ OutputsImpossible(Decoded(p).tx)
    \/ Paid(Decoded(p).tx) > Really(p)
    \/ \E i \in DOMAIN Decoded(p).outpoints :
         \E t \in Spenders(Decoded(p).outpoints[i]) : place[t] = "block"

\* What a preview says holds of the chain, whoever said it (preview_transaction).
PreviewInv == FeeIsReal /\ BlockedIsRefused

\* No operator but that of the watch is shown what a call asks about
\* unless the watch's own server failed it, whatever was relegated
\* meanwhile and wherever the watch has moved.
OthersAfterWatch == \A p \in Calls : \A w \in call[p].watch :
  (\E e \in call[p].hit : e.operator # w.operator) => w \in call[p].down

\* An outage several calls met counts once: a server put last for the
\* n-th time sat out each of the times before.
SatOut[n \in Nat] == IF n = 0 THEN 0 ELSE SatOut[n - 1] + RelegationFor(n - 1)
CountedOnce == \A e \in DOMAIN relegated :
  relegated[e].until >= since[e] + SatOut[relegated[e].count]

\* Both: who is asked, and who is put last for it (ask_in_turn).
OrderInv == OthersAfterWatch /\ CountedOnce

\* What is told sent reached the network, when answers are lost, servers
\* answer for another transaction and calls race.
SentIsTaken == \A p \in Calls : \A t \in call[p].tx :
  call[p].result = "sent" => t \in ever

\* A transaction the network holds is not told refused by a retry at a
\* server that already has it.
TakenIsNotRefused ==
  [][\A p \in Calls : \A t \in call[p].tx :
       call'[p].result = "refused" /\ call[p].result # "refused"
         => place[t] = "away"]_vars
=============================================================================
