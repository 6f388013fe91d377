----------------------------- MODULE ChainScan ------------------------------
(***************************************************************************)
(* The syncs of a descriptor wallet, request by request, over Esplora      *)
(* (chain/esplora/sync.rs) and over Electrum (chain/electrum/sync.rs): the *)
(* latest blocks, the walk down to a block both chains have, the histories *)
(* of the scripts of the plan and of a scan past them, the scripts a       *)
(* reorganisation moved, the proofs of what is new, and the update applied *)
(* (manager/sync.rs).  The chain moves between any two requests, blocks    *)
(* are replaced, and the server asked may be behind.                       *)
(***************************************************************************)
EXTENDS ChainView, Tip, SequencesExt

CONSTANTS
  Heard,             \* those a watch may hear of: a sync reads one alone
  Scripts,           \* the scripts of the keychain: 1 .. some bound
  StopGap,           \* unused scripts in a row that end a scan
  PARALLEL_REQUESTS, \* Esplora requests at a time
  WALK_BATCH,        \* Electrum histories of a scan asked at once, at most
  PAGE,              \* confirmed transactions of an Esplora page
  MEMPOOL_LISTED,    \* unconfirmed ones it lists at most
  LATEST,            \* latest blocks read with the tip
  Protocols,         \* of the servers asked: "esplora", "electrum"
  Lags,              \* how far behind a server may be
  MaxHeight, MaxMoves, MaxSyncs, \* bounds
  MaxReorgs, MaxDepth \* bounds: reorganisations, and blocks one replaces

ASSUME ScanAssumption ==
  /\ Scripts = 1..Cardinality(Scripts) /\ Heard \subseteq Scripts /\ Lags \subseteq Nat
  /\ {StopGap, PARALLEL_REQUESTS, WALK_BATCH, PAGE, MEMPOOL_LISTED, LATEST}
       \subseteq Nat \ {0}
  /\ {MaxHeight, MaxMoves, MaxReorgs, MaxDepth, MaxSyncs}
       \subseteq Nat
  /\ Protocols \subseteq {"esplora", "electrum"}

VARIABLES
  chain,   \* the best chain
  place,   \* where it has each transaction: a height, 0, or AWAY
  forks,   \* what both were before each reorganisation
  wallet,  \* what the wallet holds
  sync,    \* the sync under way
  reads,   \* the scripts being read, and how far
  moves, syncs

vars == <<chain, place, forks, wallet, sync, reads, moves,
          syncs>>
world == <<chain, place, forks, moves>>

AWAY == -1
STUCK == -1
NONE == 0
Reaches == {"Full", "Complete", "Checked", "Scripts"}
Genesis == [h \in {0} |-> 0]
NewWallet == [chain |-> Genesis, anchors |-> [t \in Txs |-> {}],
              word |-> [t \in Txs |-> "none"], revealed |-> 0]
Idle == [at |-> "idle"]

-----------------------------------------------------------------------------
(* The server asked: external.                                             *)

\* It is in step with the best chain, so many blocks behind, or still on
\* a branch that was left.
Here == [chain |-> chain, place |-> place]
Asked == IF sync.lag = STUCK THEN sync.fork ELSE Here
Server == IF sync.lag = STUCK THEN sync.fork.chain ELSE UpTo(chain, Tip(chain) - sync.lag)
At(t) == IF Asked.place[t] > Tip(Server) THEN 0 ELSE Asked.place[t]
BlockOf(t) == <<At(t), Server[At(t)]>>
On_(s) == {t \in Txs : s \in Touches[t] /\ At(t) # AWAY}
MempoolOf(s) == {t \in On_(s) : At(t) = 0}
ChainOf(s) == SetToSortSeq({t \in On_(s) : At(t) > 0},
                LAMBDA t, u : At(t) > At(u) \/ (At(t) = At(u) /\ t > u))
StatsOf(s) == [chain |-> Len(ChainOf(s)), mempool |-> Cardinality(MempoolOf(s))]
Listed(t) == [tx |-> t, block |-> IF At(t) > 0 THEN BlockOf(t) ELSE <<0, 0>>]
FirstOf(seq, n) == SubSeq(seq, 1, IF n < Len(seq) THEN n ELSE Len(seq))
Waiting(s) == LET all == SetToSortSeq(MempoolOf(s), <)
                  some == FirstOf(all, MEMPOOL_LISTED)
              IN  [i \in DOMAIN some |-> Listed(some[i])]
PageOf(s, after) ==
  LET all == ChainOf(s)
      from == IF after = NONE THEN 0
              ELSE IF \E i \in DOMAIN all : all[i] = after
                   THEN CHOOSE i \in DOMAIN all : all[i] = after ELSE Len(all)
      page == FirstOf(SubSeq(all, from + 1, Len(all)), PAGE)
  IN  (IF after = NONE THEN Waiting(s) ELSE <<>>)
        \o [i \in DOMAIN page |-> Listed(page[i])]
HistoryOf(s) == {Listed(t) : t \in On_(s)}

-----------------------------------------------------------------------------
(* The chain.                                                              *)

\* The plan of a sync: a full scan walks the keychain from its start, the
\* others read what is revealed and walk past it, or one script alone.
PlanFor(protocol, lag, fork, reach, script) ==
  [at |-> "latest", protocol |-> protocol, lag |-> lag, fork |-> fork,
   reading |-> IF reach = "Checked" THEN "Checked" ELSE "Complete",
   todo |-> CASE reach = "Full" -> {}
              [] reach = "Scripts" -> {script}
              [] reach \in {"Complete", "Checked"} -> 1..wallet.revealed,
   next |-> CASE reach = "Full" -> 1
              [] reach = "Scripts" -> Max(Scripts) + 1
              [] reach \in {"Complete", "Checked"} -> wallet.revealed + 1,
   phase |-> "scripts", unused |-> 0, lastActive |-> 0, covered |-> {},
   latest |-> <<>>, tip |-> 0, local |-> <<>>, meet |-> <<>>,
   anchors |-> {}, claims |-> {}, seen |-> {}, evicted |-> {}, taken |-> {},
   steady |-> Blocks(chain), quiet |-> TRUE]
Begin(protocol, lag, fork, reach, script) ==
  /\ sync.at = "idle" /\ syncs < MaxSyncs
  /\ lag <= Tip(chain) /\ (lag = STUCK <=> fork # Here)
  /\ sync' = PlanFor(protocol, lag, IF fork = Here THEN NONE ELSE fork, reach, script)
  /\ script # Min(Heard) => reach = "Scripts"
  /\ syncs' = syncs + 1
  /\ UNCHANGED <<world, wallet, reads>>

Fails == sync' = Idle /\ reads' = <<>>

\* The latest blocks, before any history; the wallet's far above the
\* server's tip are left out of the walk, or the server is refused.
ReadLatest ==
  /\ sync.at = "latest"
  /\ IF TooFarAbove(wallet.chain, Tip(Server))
        /\ DropsAConfirmation(wallet, Tip(Server))
     THEN Fails
     ELSE /\ sync' = [sync EXCEPT !.at = "walk", !.tip = Tip(Server),
                !.latest = Restrict(Server, {h \in DOMAIN Server :
                                              h > Tip(Server) - LATEST}),
                !.local = WalkedChain(wallet.chain, Tip(Server))]
          /\ UNCHANGED reads
  /\ UNCHANGED <<world, wallet, syncs>>

\* The server's chain as the walk reads it: the latest blocks, and the
\* others asked for one by one.
Walked == On(sync.latest, UpTo(Server, sync.tip))
\* A confirmation replaced below the latest blocks has the server's blocks
\* up to them read, and proven to chain: one fork, as it is asked now.
Unproven ==
  ToProve(wallet, sync.local, Walked, Min(DOMAIN sync.latest)) # {}
    /\ ~(Blocks(sync.latest) \subseteq Blocks(Server))
Walk ==
  /\ sync.at = "walk"
  /\ IF \/ Unproven
        \/ sync.protocol = "esplora" /\ RefusedBehind(wallet, sync.local, Walked)
     THEN Fails
     ELSE /\ sync' = [sync EXCEPT !.at = "plan", !.meet = Walked]
          /\ UNCHANGED reads
  /\ UNCHANGED <<world, wallet, syncs>>
Agreed == Agreement(sync.local, sync.meet)
\* The hashes an Electrum sync read: on the way down, and the latest.
Hashes ==
  LET walked == Restrict(sync.meet, Replaced(sync.local, sync.meet) \cup {Agreed})
  IN  IF IsBehind(sync.local, sync.meet) THEN walked ELSE On(sync.latest, walked)

-----------------------------------------------------------------------------
(* The scripts, a batch at a time.                                         *)

NoRead == [at |-> "stats", stats |-> [chain |-> 0, mempool |-> 0], txs |-> <<>>,
           after |-> NONE, listed |-> 0, whole |-> FALSE, pages |-> FALSE,
           complete |-> TRUE]
InBatch(S, n) == {s \in S : Cardinality({u \in S : u < s}) < n}

BatchOf ==
  LET esplora == sync.protocol = "esplora"
      room == StopGap - sync.unused
      most == IF esplora THEN PARALLEL_REQUESTS ELSE WALK_BATCH
      ahead == IF most < room THEN most ELSE room
  IN  CASE sync.phase = "scan" ->
             {s \in Scripts : s >= sync.next /\ s < sync.next + ahead}
        [] OTHER ->
             IF esplora THEN InBatch(sync.todo, PARALLEL_REQUESTS) ELSE sync.todo

\* What of a script is asked first: every page of one the wallet does not
\* know, the counters of the others.
IsHeld(s) == s <= wallet.revealed \/ sync.phase # "scan"
Opened(s) ==
  LET checked == sync.phase = "scripts" /\ sync.reading = "Checked"
  IN  [NoRead EXCEPT !.at = CASE sync.protocol = "electrum" -> "history"
                              [] sync.protocol = "esplora" ->
                                   IF IsHeld(s) THEN "stats" ELSE "page",
                     !.complete = ~checked]

\* The phases of a sync: the plan's scripts, the scan past them until the
\* gap, and what a reorganisation moved.
NextPhase ==
  CASE sync.phase = "scripts" -> [sync EXCEPT !.phase = "scan"]
    [] sync.phase = "scan" ->
         [sync EXCEPT !.phase = "moved",
            !.todo = Moved(wallet, Agreed, sync.covered)]
    [] sync.phase = "moved" -> [sync EXCEPT !.at = "prove"]
StartBatch ==
  /\ sync.at = "plan"
  /\ IF BatchOf = {} \/ (sync.phase = "scan" /\ sync.unused >= StopGap)
     THEN sync' = NextPhase /\ UNCHANGED reads
     ELSE /\ reads' = [s \in BatchOf |-> Opened(s)]
          /\ sync' = [sync EXCEPT !.at = "read", !.covered = @ \cup BatchOf]
  /\ UNCHANGED <<world, wallet, syncs>>

\* Counters that agree with what the wallet holds end the read, but for
\* the mempool a complete reading lists.
ScriptStats(s) ==
  LET stats == StatsOf(s)
      same == stats = CountsOf(wallet, s) /\ ~MovedOn(wallet, s, Agreed)
  IN  /\ reads[s].at = "stats"
      /\ reads' = [reads EXCEPT ![s].stats = stats, ![s].at =
                     CASE same /\ (~reads[s].complete \/ stats.mempool = 0) -> "done"
                       [] same /\ reads[s].complete /\ stats.mempool > 0 -> "mempool"
                       [] ~same -> "page"]
      /\ UNCHANGED <<world, wallet, sync, syncs>>
ScriptMempool(s) ==
  /\ reads[s].at = "mempool"
  /\ reads' = [reads EXCEPT ![s].txs = Waiting(s), ![s].at = "done",
                 ![s].pages = TRUE, ![s].listed = Len(Waiting(s))]
  /\ UNCHANGED <<world, wallet, sync, syncs>>

IsAnchored(e) == e.block[1] > 0
Found(r) == {e.tx : e \in Range(r.txs)}
\* A mutant: a transaction the wallet holds confirmed is enough.
MutEnough(s, r) ==
  \E e \in Range(r.txs) : IsAnchored(e) /\ e.tx \in ConfirmedOn(wallet, s)
                          /\ e.block \in AnchorOf(wallet, e.tx)
\* The pages read leave nothing out.
Enough(s, r) ==
  LET read == {e \in Range(r.txs) : IsAnchored(e)}
  IN  /\ Expected(wallet, s) \ ConfirmedOn(wallet, s) \subseteq Found(r)
      /\ \E e \in read : e.tx \in ConfirmedOn(wallet, s)
                         /\ e.block \in AnchorOf(wallet, e.tx)
      /\ Cardinality(ConfirmedOn(wallet, s) \cup {e.tx : e \in read})
           >= r.stats.chain
PageRead(s, r, page) ==
  LET confirmed == SelectSeq(page, IsAnchored)
      txs == r.txs \o page
      last == IF confirmed = <<>> THEN NONE ELSE confirmed[Len(confirmed)].tx
      whole == Len(confirmed) < PAGE \/ last = r.after
      read == [r EXCEPT !.txs = txs, !.pages = TRUE, !.whole = whole, !.after = last,
                 !.listed = IF r.after = NONE THEN Len(page) - Len(confirmed) ELSE @]
  IN  [read EXCEPT !.at = IF whole \/ (IsHeld(s) /\ Enough(s, read))
                          THEN "done" ELSE "page"]
ScriptPage(s) ==
  /\ reads[s].at = "page"
  /\ reads' = [reads EXCEPT ![s] = PageRead(s, reads[s], PageOf(s, reads[s].after))]
  /\ UNCHANGED <<world, wallet, sync, syncs>>

\* One request for the histories of a whole batch.
ScriptHistories ==
  /\ \E s \in DOMAIN reads : reads[s].at = "history"
  /\ reads' = [s \in DOMAIN reads |->
                 [reads[s] EXCEPT !.txs = SetToSeq(HistoryOf(s)), !.at = "done",
                    !.whole = TRUE, !.pages = TRUE]]
  /\ UNCHANGED <<world, wallet, sync, syncs>>

-----------------------------------------------------------------------------
(* What was read, taken.                                                   *)

\* What the wallet expected and the server no longer lists: nothing when
\* it left some of its mempool off.
Evicted(s, r) ==
  IF ~IsHeld(s) \/ ~r.pages \/ r.listed < r.stats.mempool
  THEN {}
  ELSE {t \in Expected(wallet, s) :
          (r.whole \/ t \notin ConfirmedOn(wallet, s)) /\ t \notin Found(r)}
IsUsed(r) == Found(r) # {} \/ r.stats.chain + r.stats.mempool > 0
StillHolds(t, b) == \E a \in AnchorOf(wallet, t) :
  /\ a[1] = b[1]
  /\ IF sync.protocol = "esplora" THEN a = b
     ELSE IF a[1] \in DOMAIN Hashes THEN Hashes[a[1]] = a[2] ELSE a[1] <= Agreed
\* Of a transaction listed twice, by one script or by two, the first
\* listing stands.
FirstListed(s) ==
  LET r == reads[s]
      before == sync.taken \cup UNION {Found(reads[u]) : u \in {v \in DOMAIN reads : v < s}}
  IN  {e \in Range(r.txs) : e.tx \notin before
         /\ \A i, j \in DOMAIN r.txs :
              (r.txs[j] = e /\ r.txs[i].tx = e.tx) => i >= j}
TakeBatch ==
  LET batch == DOMAIN reads
      fresh == UNION {FirstListed(s) : s \in batch}
      anchored == {e \in fresh : IsAnchored(e)}
      held == {e \in anchored : StillHolds(e.tx, e.block)}
      used == {s \in batch : IsUsed(reads[s])}
      scans == sync.phase = "scan"
  IN  /\ sync.at = "read" /\ \A s \in batch : reads[s].at = "done"
      /\ sync' = [sync EXCEPT !.at = "plan", !.todo = @ \ batch,
           !.next = IF scans THEN @ + Cardinality(batch) ELSE @,
           !.taken = @ \cup UNION {Found(reads[s]) : s \in batch},
           !.evicted = @ \cup UNION {Evicted(s, reads[s]) : s \in batch},
           !.seen = @ \cup {e.tx : e \in fresh \ anchored},
           !.anchors = @ \cup {<<e.tx, e.block>> :
                                e \in IF sync.protocol = "esplora" THEN held ELSE {}},
           !.claims = @ \cup (anchored \ held),
           !.unused = CASE ~scans -> @
                        [] scans /\ used = {} -> @ + Cardinality(batch)
                        [] scans /\ used # {} -> Cardinality({s \in batch : s > Max(used)}),
           !.lastActive = IF scans /\ used # {} THEN Max(used) ELSE @]
      /\ reads' = <<>>
      /\ UNCHANGED <<world, wallet, syncs>>

-----------------------------------------------------------------------------
(* Proofs, and the update.                                                 *)

\* The tip is read again before a confirmation far above it is refused.
TooHigh(tip) == \E e \in sync.claims : AboveTheTip(e.block[1], tip) = "false"
TipAgain == IF TooHigh(sync.tip) THEN Max({sync.tip, Tip(Server)}) ELSE sync.tip
\* The block a claim is proven in: the one listed, or over Electrum the
\* one of the header read before, if any.
ClaimBlock(e) ==
  LET h == e.block[1] IN
    CASE sync.protocol = "esplora" \/ h \notin DOMAIN Hashes \cup DOMAIN Server -> e.block
      [] sync.protocol = "electrum" /\ h \in DOMAIN Hashes \cup DOMAIN Server ->
           <<h, IF h \in DOMAIN Hashes THEN Hashes[h] ELSE Server[h]>>
Proven(e) ==
  /\ e.block[1] <= TipAgain /\ At(e.tx) = e.block[1]
  /\ ClaimBlock(e) \in Blocks(Server)
ProveAll ==
  /\ sync.at = "prove"
  /\ IF TooHigh(TipAgain) THEN Fails
     ELSE /\ sync' = [sync EXCEPT !.at = "chain",
               !.anchors = @ \cup {<<e.tx, ClaimBlock(e)>> :
                                     e \in {c \in sync.claims : Proven(c)}},
               !.seen = @ \cup {e.tx : e \in {c \in sync.claims : ~Proven(c)}}]
          /\ UNCHANGED reads
  /\ UNCHANGED <<world, wallet, syncs>>

\* The blocks of the anchors, asked for where the latest ones lack them.
NewChain ==
  LET anchors == {a[2] : a \in sync.anchors}
      heights == {b[1] : b \in anchors}
      known == On(sync.latest, UpTo(Server, sync.tip))
  IN  IF sync.protocol = "esplora"
      THEN EsploraChain(EsploraBase(sync.local, sync.meet), sync.latest, known,
                        heights \cap DOMAIN known)
      ELSE ElectrumChain(ElectrumBase(sync.local, sync.latest, sync.meet),
                         Hashes, anchors)
Word(t) == IF t \in sync.evicted THEN "evicted"
           ELSE IF t \in sync.seen THEN "seen" ELSE wallet.word[t]
ApplySynced ==
  /\ sync.at = "chain"
  /\ wallet' = [chain |-> Merge(sync.local, NewChain),
                anchors |-> [t \in Txs |-> wallet.anchors[t] \cup
                               {a[2] : a \in {b \in sync.anchors : b[1] = t}}],
                word |-> [t \in Txs |-> Word(t)],
                revealed |-> Max({wallet.revealed, sync.lastActive}
                                   \cup UNION {Touches[t] : t \in sync.taken})]
  /\ sync' = [sync EXCEPT !.at = "done"]
  /\ UNCHANGED <<world, reads, syncs>>
Finish == /\ sync.at = "done" /\ sync' = Idle
          /\ UNCHANGED <<world, wallet, reads, syncs>>

-----------------------------------------------------------------------------
(* The chain moves: external.                                              *)

\* Between two steps of a sync that ask for nothing, a move is one before
\* or after them; past the last sync there is nothing to read.
Awaited == \/ sync.at \in {"latest", "walk", "prove", "chain"}
           \/ sync.at = "read" /\ \E s \in DOMAIN reads : reads[s].at # "done"
           \/ sync.at = "idle" /\ syncs < MaxSyncs
MayMove == moves < MaxMoves /\ Awaited
Moving == /\ moves' = moves + 1
          /\ sync' = IF sync.at = "idle" THEN sync
                     ELSE [sync EXCEPT !.quiet = FALSE,
                             !.steady = @ \cap Blocks(chain')]
          /\ UNCHANGED <<wallet, reads, syncs>>
Arrives(t) == /\ MayMove /\ place[t] = AWAY
              /\ place' = [place EXCEPT ![t] = 0]
              /\ UNCHANGED <<chain, forks>> /\ Moving
Leaves(t) == /\ MayMove /\ place[t] = 0
             /\ place' = [place EXCEPT ![t] = AWAY]
             /\ UNCHANGED <<chain, forks>> /\ Moving
\* A block with some of the mempool.
Mined(S) == /\ MayMove /\ Tip(chain) < MaxHeight /\ \A t \in S : place[t] = 0
            /\ chain' = Put(chain, Tip(chain) + 1, Cardinality(forks))
            /\ place' = [t \in Txs |-> IF t \in S THEN Tip(chain) + 1 ELSE place[t]]
            /\ UNCHANGED forks /\ Moving
\* The blocks from one on replaced by a longer branch, with some of what
\* they held in a block of it.
Reorganised(h, k, S) ==
  /\ MayMove /\ h \in DOMAIN chain \ {0} /\ Tip(chain) < MaxHeight
  /\ Cardinality(forks) < MaxReorgs /\ Tip(chain) - h < MaxDepth
  /\ k \in {h, Tip(chain) + 1} /\ \A t \in S : place[t] = 0 \/ place[t] >= h
  /\ chain' = [i \in 0..(Tip(chain) + 1) |->
                 IF i < h THEN chain[i] ELSE Cardinality(forks) + 1]
  /\ place' = [t \in Txs |-> IF t \in S THEN k
                             ELSE IF place[t] >= h THEN 0 ELSE place[t]]
  /\ forks' = forks \cup {Here} /\ Moving

\* A new wallet, on a chain that has blocks and payments waiting already.
Init ==
  /\ chain = Put(Genesis, 1, 0)
  /\ place = [t \in Txs |-> 0]
  /\ forks = {} /\ wallet = NewWallet /\ sync = Idle /\ reads = <<>>
  /\ moves = 0 /\ syncs = 0

Next ==
  \/ \E p \in Protocols, l \in Lags \cup {STUCK}, f \in forks \cup {Here},
        r \in Reaches, s \in Heard : Begin(p, l, f, r, s)
  \/ ReadLatest \/ Walk \/ StartBatch \/ TakeBatch \/ ScriptHistories
  \/ \E s \in DOMAIN reads : ScriptStats(s) \/ ScriptMempool(s) \/ ScriptPage(s)
  \/ ProveAll \/ ApplySynced \/ Finish
  \/ \E t \in Txs : Arrives(t) \/ Leaves(t)
  \/ \E S \in SUBSET Txs : Mined(S) \/ \E h, k \in 1..MaxHeight : Reorganised(h, k, S)

Spec == Init /\ [][Next]_vars

-----------------------------------------------------------------------------
\* The wallet's chain is of one fork, also when blocks were replaced
\* between two requests of a sync (Meeting::chain, Chain::update).
OneFork ==
  \E f \in forks \cup {Here} : Blocks(wallet.chain) \subseteq Blocks(f.chain)

\* A complete sync of a server in step, nothing moving under it, leaves the
\* wallet showing what the server has: nothing the counters or the pages
\* spared hid anything, the wallet's chain being of one fork.  Two
\* exceptions: what is past the unconfirmed ones the server lists, and what
\* a reorganisation took out of a block and no server has (run,
\* read_script, enough, evicted).
PastTheList(t) ==
  sync.protocol = "esplora" /\ \E s \in Touches[t] : StatsOf(s).mempool > MEMPOOL_LISTED
WasRead(t) == Touches[t] \cap sync.covered # {}
QuietIsServer ==
  (sync.at = "done" /\ sync.quiet /\ sync.lag = 0 /\ sync.reading = "Complete"
     /\ OneFork) =>
    \A t \in {u \in Txs : WasRead(u)} :
      /\ At(t) > 0 => AnchorOf(wallet, t) = {BlockOf(t)}
      /\ At(t) = 0 /\ ~PastTheList(t) =>
           IsShown(wallet, t) /\ ~IsConfirmed(wallet, t)
      /\ At(t) = AWAY /\ wallet.anchors[t] = {} => ~IsShown(wallet, t)

\* Whatever server a sync asks, behind, on a branch that was left or not,
\* and whatever moves under it, it takes back no confirmation on mainnet
\* whose block stayed on the best chain all along, but for one the server
\* has another block in the place of (drops_a_confirmation, Meeting,
\* Chain::read).
Stands(b) == b \in sync.steady /\ (b[1] <= Tip(Server) => b \in Blocks(Server))
KeepsConfirmations ==
  [][(sync.at = "chain" /\ Mainnet) =>
       \A t \in Txs : (\E b \in AnchorOf(wallet, t) : Stands(b)) =>
         IsConfirmed(wallet', t)]_wallet
=============================================================================
