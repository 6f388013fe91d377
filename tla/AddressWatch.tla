---------------------------- MODULE AddressWatch ----------------------------
(***************************************************************************)
(* A wallet of one watched address (manager/sync.rs, chain/esplora.rs,     *)
(* chain/electrum/address.rs): a sync reads the newest round of its        *)
(* history and its coins, and `load older transactions' reads a round      *)
(* below the cursor, each request by request, with no turn taken between   *)
(* them and with the chain of the server moving between two requests.      *)
(*                                                                         *)
(* Transactions are numbers, in their order within a block.  An entry of a *)
(* list is a record tx, height; height 0 is a transaction unconfirmed.     *)
(***************************************************************************)
EXTENDS Tip, Integers, Sequences, FiniteSets, SequencesExt, FiniteSetsExt

CONSTANTS
  AddressTxs,              \* transactions that pay the address: numbers
  ADDRESS_PAGE,            \* confirmed transactions Esplora lists in a page
  HISTORY_PAGES_PER_ROUND, \* pages of a round
  MEMPOOL_PER_ROUND,       \* unconfirmed ones of an Electrum round
  REORDERED_MAX,           \* transactions of a mempool tried in every order
  Servers,                 \* the protocols a wallet's servers may have
  MaxTip, MaxTxMoves,      \* bounds: blocks, moves of the chain
  MaxRounds, MaxLoads,     \* bounds: syncs and loads of older rounds
  MaxUndone                \* bound: blocks taken back

ASSUME ReorderedAssumption == REORDERED_MAX \in Nat

ASSUME AddressAssumption ==
  /\ AddressTxs \subseteq Nat \ {0} /\ IsFiniteSet(AddressTxs)
  /\ {ADDRESS_PAGE, HISTORY_PAGES_PER_ROUND, MEMPOOL_PER_ROUND} \subseteq Nat \ {0}
  /\ {MaxTip, MaxTxMoves, MaxRounds, MaxLoads, MaxUndone} \subseteq Nat
  /\ Servers \subseteq SUBSET {"esplora", "electrum"}

VARIABLES
  kinds,  \* the protocols of the wallet's servers
  txPlace,  \* where the server has each transaction: a height, 0, or ELSEWHERE
  tip,    \* its tip
  told,   \* {} or {the status the watch heard last}
  watch,  \* the stored state: txs, coins, cursor; NEVER before a sync
  proven, \* PROVEN_COINS: the coins proven in this session
  reading,   \* the sync under way
  more,   \* the load of older transactions under way
  txMoves, reorgs, rounds, loads \* the bounds used

addressVars == <<kinds, txPlace, tip, told, watch, proven, reading, more, txMoves, reorgs,
          rounds, loads>>
addressWorld == <<kinds, txPlace, tip, told, txMoves, reorgs>>

ELSEWHERE == -1
NO_TX == 0
NEVER == [txs |-> <<>>, coins |-> <<>>, cursor |-> NO_TX]
CONFIRMED_PER_ROUND == HISTORY_PAGES_PER_ROUND * ADDRESS_PAGE

-----------------------------------------------------------------------------
(***************************************************************************)
(* What a sync does with a history an Electrum server lists when a watch   *)
(* heard a status of the script from the same server                       *)
(* (chain/electrum/status.rs).  A status is a hash of a history in the     *)
(* order it is listed: here that history itself, <<>> for the status of a  *)
(* script that has none.                                                   *)
(***************************************************************************)
InMempool(entry) == entry.height = 0
InBlock(entry) == entry.height > 0
WaitingOf(history) == Len(SelectSeq(history, InMempool))
TxsOf(history) == {history[i].tx : i \in DOMAIN history}

\* Whether a head followed by a mempool in some order spells the status.
InSomeOrder(head, left, status) ==
  \E p \in SetToSeqs(DOMAIN left) :
    head \o [i \in DOMAIN left |-> left[p[i]]] = status

\* Whether a history is the one its status hashes.
Agrees(history, status) ==
  LET confirmed == SelectSeq(history, InBlock)
      mempool == SelectSeq(history, InMempool)
  IN  CASE history = status -> "Holds"
        [] history # status /\ (history = <<>> \/ status = <<>>) -> "Differs"
        [] history # status /\ history # <<>> /\ status # <<>> ->
             CASE Len(mempool) < 2 -> "Differs"
               [] Len(mempool) > REORDERED_MAX -> "Undecided"
               [] Len(mempool) \in 2..REORDERED_MAX ->
                    IF InSomeOrder(confirmed, mempool, status)
                    THEN "Holds" ELSE "Differs"

\* A disagreement the order of the mempool may explain is asked about again.
AsksAgain(agreed, history) ==
  \/ agreed = "Undecided"
  \/ agreed = "Differs" /\ WaitingOf(history) >= 2

\* What a sync does with a history, the wallet holding `expected` there.
VerdictOf(history, status, expected, askedAgain) ==
  LET agreed == Agrees(history, status) IN
    CASE agreed = "Holds" \/ expected \subseteq TxsOf(history) -> "Read"
      [] OTHER ->
           CASE askedAgain /\ agreed = "Undecided" -> "Read"
             [] ~askedAgain /\ AsksAgain(agreed, history) -> "AskAgain"
             [] OTHER -> "SetAside"

\* The check of one script: none without a status heard for it.
StatusVerdict(heard, history, expected, askedAgain) ==
  IF heard = {} THEN "Read"
  ELSE VerdictOf(history, CHOOSE s \in heard : TRUE, expected, askedAgain)

-----------------------------------------------------------------------------
Heights(entries) == {entries[i].height : i \in DOMAIN entries} \ {0}
Has(entries, tx, height) ==
  \E i \in DOMAIN entries : entries[i].tx = tx /\ entries[i].height = height
Entry(tx) == [tx |-> tx, height |-> txPlace[tx]]
Confirmed(entries) == SelectSeq(entries, InBlock)
LastOf(entries) == entries[Len(entries)].tx
First(entries, n) == SubSeq(entries, 1, IF n < Len(entries) THEN n ELSE Len(entries))

-----------------------------------------------------------------------------
(* What the server lists: external.                                        *)

\* Newest first, and in reverse block order within a block.
Newer(t, u) == txPlace[t] > txPlace[u] \/ (txPlace[t] = txPlace[u] /\ t > u)
Mempool == LET waiting == {t \in AddressTxs : txPlace[t] = 0}
           IN  [i \in 1..Cardinality(waiting) |-> Entry(SetToSortSeq(waiting, <)[i])]
Chain == LET sorted == SetToSortSeq({t \in AddressTxs : txPlace[t] > 0}, Newer)
         IN  [i \in DOMAIN sorted |-> Entry(sorted[i])]
Position(entries, tx) == CHOOSE i \in DOMAIN entries : entries[i].tx = tx
After(entries, tx) ==
  IF tx = NO_TX THEN entries
  ELSE IF tx \notin TxsOf(entries) THEN <<>>
  ELSE SubSeq(entries, Position(entries, tx) + 1, Len(entries))

\* A page of an Esplora history: every unconfirmed transaction comes with
\* the first one.
PageAfter(tx) ==
  (IF tx = NO_TX THEN Mempool ELSE <<>>) \o First(After(Chain, tx), ADDRESS_PAGE)

\* The history of an Electrum server: oldest first, the mempool last.
History == Reverse(Chain) \o Mempool

-----------------------------------------------------------------------------
(* Reading a round.                                                        *)

\* A round being read: from a cursor, with the count of the server and
\* what the wallet holds (a sync), or without either (older rounds).
RoundOf(protocol, from, held) ==
  [at |-> "tip", protocol |-> protocol, from |-> from, held |-> held,
   tip |-> 0, total |-> NO_TX, txs |-> <<>>, last |-> NO_TX, pages |-> 0,
   allHeld |-> FALSE, cursor |-> NO_TX, claimed |-> {}, coins |-> {},
   listed |-> <<>>, asked |-> FALSE, quiet |-> TRUE]
NoSync == [at |-> "idle", quiet |-> FALSE]

\* A page is read: what the wallet does not hold at that height is to be
\* proven.
ReadPage(r, page) ==
  LET found == Confirmed(page) IN
    [r EXCEPT !.txs = @ \o page, !.pages = @ + 1,
       !.last = IF found = <<>> THEN @ ELSE LastOf(found),
       !.claimed = @ \cup {e \in Range(found) : ~Has(r.held, e.tx, e.height)},
       !.allHeld = \A i \in DOMAIN page :
                     Has(r.held, page[i].tx, page[i].height)]

\* What the wallet holds below the page, when it and what was read come to
\* no more than the server counts.
Below(r) ==
  LET below == Confirmed(r.txs)[Len(Confirmed(r.txs))].height
  IN  SelectSeq(r.held, LAMBDA e : /\ InBlock(e) /\ e.height <= below
                                   /\ e.tx \notin TxsOf(r.txs))
Fills(r) ==
  /\ r.allHeld /\ Confirmed(r.txs) # <<>>
  /\ Len(Confirmed(r.txs)) + Len(Below(r)) <= r.total
\* A mutant: the whole of what is held below, and no cursor.
FillFromHeld(r) ==
  LET read == Len(Confirmed(r.txs))
      room == IF read < CONFIRMED_PER_ROUND THEN CONFIRMED_PER_ROUND - read ELSE 0
      txs == r.txs \o First(Below(r), room)
  IN  [r EXCEPT !.txs = txs, !.at = "prove",
         !.cursor = IF Len(Confirmed(txs)) < r.total
                    THEN LastOf(Confirmed(txs)) ELSE NO_TX]

\* After a page: the history is whole, or filled, or the round is full, or
\* another page is asked for.
Decide(r, counted) ==
  CASE \/ counted /\ Len(Confirmed(r.txs)) >= r.total
       \/ r.last = NO_TX -> [r EXCEPT !.at = "prove"]
    [] OTHER ->
         CASE counted /\ Fills(r) -> FillFromHeld(r)
           [] OTHER ->
                IF r.pages >= HISTORY_PAGES_PER_ROUND
                THEN [r EXCEPT !.at = "prove", !.cursor = r.last]
                ELSE [r EXCEPT !.at = "page"]

\* An answer with a page: an empty one ends the history.
HistoryRound(r, page, counted) ==
  IF page = <<>> /\ r.pages > 0 THEN [r EXCEPT !.at = "prove"]
  ELSE Decide(ReadPage(r, page), counted)

\* The round of an Electrum history: a transaction held at its height is
\* kept as it is.
ElectrumRound(r, history) ==
  LET rest == After(SelectSeq(Reverse(history), InBlock), r.from)
      taken == First(rest, CONFIRMED_PER_ROUND)
      waiting == IF r.from = NO_TX THEN SelectSeq(history, InMempool) ELSE <<>>
      round == First(waiting, MEMPOOL_PER_ROUND) \o taken
  IN  [r EXCEPT !.txs = round, !.listed = history,
         !.cursor = IF Len(rest) > Len(taken) THEN LastOf(taken) ELSE NO_TX,
         !.claimed = {e \in Range(taken) : ~Has(r.held, e.tx, e.height)}]

\* Proving the confirmations claimed: Esplora reads its tip again before it
\* refuses one far above it.  One unsure is left unconfirmed.
TipFor(r) ==
  IF r.protocol = "esplora"
     /\ \E e \in r.claimed : AboveTheTip(e.height, r.tip) = "false"
  THEN Max({r.tip, tip}) ELSE r.tip
Refused(r) ==
  \E e \in r.claimed : AboveTheTip(e.height, TipFor(r)) = "false"
Holds(r, e) == AboveTheTip(e.height, TipFor(r)) = "below" /\ txPlace[e.tx] = e.height
Prove(r) ==
  [i \in DOMAIN r.txs |->
     IF r.txs[i] \in r.claimed /\ ~Holds(r, r.txs[i])
     THEN [r.txs[i] EXCEPT !.height = 0] ELSE r.txs[i]]

-----------------------------------------------------------------------------
(* The coins.                                                              *)

\* Past the round, a coin is confirmed where the server puts it when the
\* wallet holds it there, when this session proved it there, or when it is
\* proven now.
PastTheRound(r, e) ==
  /\ e.height > 0 /\ e.tx \notin TxsOf(r.txs)
  /\ r.protocol = "esplora" =>
       r.cursor # NO_TX /\ Heights(r.txs) # {} /\ e.height <= Min(Heights(r.txs))
Known(r, e) == Has(r.held, e.tx, e.height) \/ <<r.protocol, e>> \in proven
CoinOf(r, e) ==
  CASE e.tx \in TxsOf(r.txs) -> r.txs[Position(r.txs, e.tx)]
    [] /\ e.tx \notin TxsOf(r.txs)
       /\ PastTheRound(r, e) /\ (Known(r, e) \/ Holds(r, e)) -> e
    [] OTHER -> [e EXCEPT !.height = 0]

-----------------------------------------------------------------------------
(* A sync.                                                                 *)

SyncBegins(protocol) ==
  /\ reading.at = "idle" /\ rounds < MaxRounds
  /\ reading' = [RoundOf(protocol, NO_TX, watch.txs) EXCEPT !.tip = tip,
                !.at = IF protocol = "esplora" THEN "stats" ELSE "history"]
  /\ rounds' = rounds + 1
  /\ UNCHANGED <<addressWorld, watch, proven, more, loads>>

SyncStats ==
  /\ reading.at = "stats"
  /\ reading' = [reading EXCEPT !.total = Len(Chain), !.at = "page"]
  /\ UNCHANGED <<addressWorld, watch, proven, more, rounds, loads>>

SyncPage ==
  /\ reading.at = "page"
  /\ reading' = HistoryRound(reading, PageAfter(reading.last), TRUE)
  /\ UNCHANGED <<addressWorld, watch, proven, more, rounds, loads>>

\* An Electrum history is checked against the status the watch heard: read,
\* asked for once more, or set aside and the sync with it.
SyncHistory ==
  LET verdict == StatusVerdict(told, History, TxsOf(reading.held), reading.asked) IN
    /\ reading.at = "history"
    /\ reading' = CASE verdict = "Read" ->
                      [ElectrumRound(reading, History) EXCEPT !.at = "unspent"]
                 [] verdict = "AskAgain" -> [reading EXCEPT !.asked = TRUE]
                 [] verdict = "SetAside" -> NoSync
    /\ UNCHANGED <<addressWorld, watch, proven, more, rounds, loads>>

\* The coins listed, before an Electrum round is proven.
SyncUnspent ==
  /\ reading.at = "unspent"
  /\ reading' = [reading EXCEPT !.at = "prove",
                !.coins = {t \in AddressTxs : txPlace[t] # ELSEWHERE}]
  /\ UNCHANGED <<addressWorld, watch, proven, more, rounds, loads>>

SyncProve ==
  /\ reading.at = "prove"
  /\ reading' = IF Refused(reading) THEN NoSync
             ELSE [reading EXCEPT !.txs = Prove(reading), !.at = "coins"]
  /\ UNCHANGED <<addressWorld, watch, proven, more, rounds, loads>>

\* Where the server puts each coin it lists: Esplora by the coin, Electrum
\* by the history read before.
CoinEntries ==
  IF reading.protocol = "esplora"
  THEN {Entry(t) : t \in {u \in AddressTxs : txPlace[u] # ELSEWHERE}}
  ELSE {[tx |-> t, height |->
           IF t \in TxsOf(reading.listed)
           THEN reading.listed[Position(reading.listed, t)].height ELSE 0] :
          t \in reading.coins}
\* Those past the round nothing vouches for are read again and proven, and
\* remembered for the session.
SyncCoins ==
  LET unread == {e \in CoinEntries : PastTheRound(reading, e) /\ ~Known(reading, e)}
      r == [reading EXCEPT !.claimed = unread]
      coins == SetToSortSeq({CoinOf(r, e) : e \in CoinEntries},
                            LAMBDA a, b : a.tx < b.tx)
  IN  /\ reading.at = "coins"
      /\ proven' = IF Refused(r) THEN proven
                   ELSE proven \cup {<<r.protocol, e>> :
                                       e \in {c \in unread : Holds(r, c)}}
      /\ reading' = IF Refused(r) THEN NoSync
                 ELSE [reading EXCEPT !.at = "apply", !.listed = coins]
      /\ UNCHANGED <<addressWorld, watch, more, rounds, loads>>

\* The older rounds loaded before: what confirmed strictly below the fresh
\* round is carried over, and the deeper cursor with it.
Older(txs, previous) ==
  SelectSeq(previous.txs,
    LAMBDA e : /\ InBlock(e) /\ e.height < Min(Heights(txs))
               /\ e.tx \notin TxsOf(txs))
KeepOlderHistory(r, previous) ==
  IF Heights(r.txs) = {} \/ Older(r.txs, previous) = <<>>
  THEN [txs |-> r.txs, coins |-> r.listed, cursor |-> r.cursor]
  ELSE [txs |-> r.txs \o Older(r.txs, previous), coins |-> r.listed,
        cursor |-> previous.cursor]

ApplyAddressState ==
  /\ reading.at = "apply"
  /\ watch' = KeepOlderHistory(reading, watch)
  /\ reading' = NoSync
  /\ UNCHANGED <<addressWorld, proven, more, rounds, loads>>

-----------------------------------------------------------------------------
(* Loading older transactions: the cursor read first, applied to whatever  *)
(* the list is by then.                                                    *)

MoreBegins(protocol) ==
  /\ more.at = "idle" /\ loads < MaxLoads /\ watch.cursor # NO_TX
  /\ more' = [RoundOf(protocol, watch.cursor, <<>>) EXCEPT !.tip = tip,
                !.last = watch.cursor,
                !.at = IF protocol = "esplora" THEN "page" ELSE "history"]
  /\ loads' = loads + 1
  /\ UNCHANGED <<addressWorld, watch, proven, reading, rounds>>

MorePage ==
  /\ more.at = "page"
  /\ more' = IF more.pages = 0 /\ Confirmed(PageAfter(more.last)) = <<>>
             THEN [more EXCEPT !.at = "prove"]
             ELSE HistoryRound(more, PageAfter(more.last), FALSE)
  /\ UNCHANGED <<addressWorld, watch, proven, reading, rounds, loads>>

\* A cursor the history no longer has fails the load.
MoreHistory ==
  /\ more.at = "history"
  /\ more' = IF more.from \in TxsOf(Chain)
             THEN [ElectrumRound(more, History) EXCEPT !.at = "prove"]
             ELSE NoSync
  /\ UNCHANGED <<addressWorld, watch, proven, reading, rounds, loads>>

MoreProve ==
  /\ more.at = "prove"
  /\ more' = IF Refused(more) THEN NoSync
             ELSE [more EXCEPT !.txs = Prove(more), !.at = "apply"]
  /\ UNCHANGED <<addressWorld, watch, proven, reading, rounds, loads>>

\* A mutant: what the list holds by then is added again.
MutLoadMoreHistory ==
  /\ more.at = "apply"
  /\ watch' = [watch EXCEPT !.txs = @ \o more.txs, !.cursor = more.cursor]
  /\ more' = NoSync
  /\ reading' = [reading EXCEPT !.quiet = FALSE]
  /\ UNCHANGED <<addressWorld, proven, rounds, loads>>
LoadMoreHistory ==
  LET fresh == SelectSeq(more.txs, LAMBDA e : e.tx \notin TxsOf(watch.txs)) IN
    /\ more.at = "apply"
    /\ watch' = [watch EXCEPT !.txs = @ \o fresh, !.cursor = more.cursor]
    /\ more' = NoSync
    /\ reading' = [reading EXCEPT !.quiet = FALSE]
    /\ UNCHANGED <<addressWorld, proven, rounds, loads>>

-----------------------------------------------------------------------------
(* The chain of the server moves, and the watch hears of it: external.       *)

HistoryMoved == /\ txMoves < MaxTxMoves /\ txMoves' = txMoves + 1
         /\ reading' = [reading EXCEPT !.quiet = FALSE]
         /\ UNCHANGED <<kinds, told, watch, proven, more, rounds, loads>>

\* The numbers are given as the transactions come.
TxArrives(t) == /\ txPlace[t] = ELSEWHERE /\ HistoryMoved
                /\ \A u \in AddressTxs : txPlace[u] = ELSEWHERE => t <= u
                /\ txPlace' = [txPlace EXCEPT ![t] = 0]
                /\ UNCHANGED <<tip, reorgs>>
TxLeaves(t) == /\ txPlace[t] = 0 /\ HistoryMoved
               /\ txPlace' = [txPlace EXCEPT ![t] = ELSEWHERE]
               /\ UNCHANGED <<tip, reorgs>>
TxMined(S) == /\ tip < MaxTip /\ HistoryMoved
              /\ \A t \in S : txPlace[t] = 0
              /\ tip' = tip + 1
              /\ txPlace' = [t \in AddressTxs |-> IF t \in S THEN tip + 1 ELSE txPlace[t]]
              /\ UNCHANGED reorgs
\* Not under an Esplora server, whose pages are no snapshot: read across a
\* reorganisation they may list a transaction twice.
BlockUndone == /\ kinds = {"electrum"} /\ tip > 0 /\ reorgs < MaxUndone /\ HistoryMoved
               /\ tip' = tip - 1 /\ reorgs' = reorgs + 1
               /\ txPlace' = [t \in AddressTxs |-> IF txPlace[t] = tip THEN 0 ELSE txPlace[t]]
Announced == /\ "electrum" \in kinds /\ told # {History} /\ told' = {History}
             /\ UNCHANGED <<kinds, txPlace, tip, txMoves, reorgs, watch, proven,
                            reading, more, rounds, loads>>

AddressInit ==
  /\ kinds \in Servers
  /\ txPlace = [t \in AddressTxs |-> ELSEWHERE] /\ tip = 0 /\ told = {}
  /\ watch = NEVER /\ proven = {} /\ reading = NoSync /\ more = NoSync
  /\ txMoves = 0 /\ reorgs = 0 /\ rounds = 0 /\ loads = 0

AddressNext ==
  \/ \E p \in kinds : SyncBegins(p) \/ MoreBegins(p)
  \/ SyncStats \/ SyncPage \/ SyncHistory \/ SyncUnspent \/ SyncProve
  \/ SyncCoins \/ ApplyAddressState
  \/ MorePage \/ MoreHistory \/ MoreProve \/ LoadMoreHistory
  \/ \E t \in AddressTxs : TxArrives(t) \/ TxLeaves(t)
  \/ \E S \in SUBSET AddressTxs : TxMined(S)
  \/ BlockUndone \/ Announced

AddressSpec == AddressInit /\ [][AddressNext]_addressVars

-----------------------------------------------------------------------------
\* A load of older transactions that raced a sync lists no transaction
\* twice, whatever the list became meanwhile (load_more_history).
NothingTwice ==
  \A i, j \in DOMAIN watch.txs :
    watch.txs[i].tx = watch.txs[j].tx => i = j

\* A transaction of the server between two of a list, and not on it.
Hole(entries) ==
  \E t \in AddressTxs \ TxsOf(entries) :
    /\ txPlace[t] > 0
    /\ \E e \in Range(entries) : InBlock(e) /\ Newer(e.tx, t)
    /\ \E e \in Range(entries) : InBlock(e) /\ Newer(t, e.tx)

\* A sync nothing moved during comes to what the server has, although it
\* reads little of it again: its mempool, the newest of its history with
\* the cursor wherever it stops short, and every coin as confirmed as its
\* transaction, given a list it can go by (history_round, fill_from_held,
\* coins).
QuietIsTrue ==
  (reading.at = "apply" /\ reading.quiet /\ ~Hole(reading.held)) =>
    LET listed == Confirmed(reading.txs) IN
      /\ SelectSeq(reading.txs, InMempool) =
           IF reading.protocol = "esplora" THEN Mempool
           ELSE First(Mempool, MEMPOOL_PER_ROUND)
      /\ listed = First(Chain, Len(listed))
      /\ reading.cursor = IF Len(listed) = Len(Chain) THEN NO_TX ELSE LastOf(listed)
      /\ Range(reading.listed) = {Entry(t) : t \in {u \in AddressTxs : txPlace[u] # ELSEWHERE}}

\* Both: what an address shows is what its server has, each thing once.
AddressInv == NothingTwice /\ QuietIsTrue

\* The rounds loaded are kept by the syncs after, and nothing between two
\* transactions listed is missing (apply_address_state,
\* keep_older_history).
NoHole == ~Hole(watch.txs)
=============================================================================
