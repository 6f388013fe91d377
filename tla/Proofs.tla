------------------------------- MODULE Proofs -------------------------------
(***************************************************************************)
(* What proves that a transaction confirmed (chain/proof.rs): the work of  *)
(* a header at its height, a merkle branch to its root, and for a block    *)
(* whose header is cheap to forge, the chain of headers from it to the     *)
(* checkpoint that ends its period, kept for the session.                  *)
(*                                                                         *)
(* Hashes are symbolic: a transaction's leaf is <<t>>, an inner node the   *)
(* pair of its children, and the txid of a 64 byte transaction is the pair *)
(* of hashes it reads as. A header is a record id (its hash), prev, root,  *)
(* target (larger is easier), worked (its hash meets that target). A       *)
(* server claims what it likes; it cannot make a header whose id is that   *)
(* of another. A branch is a record height, pos, nodes.                    *)
(***************************************************************************)
EXTENDS Tip, Integers, Sequences, SequencesExt, FiniteSets, FiniteSetsExt, Functions

CONSTANTS RETARGET_PERIOD, PAST_THE_TABLE, BRANCH_MAX,
          CHAINED_MAX, CHAIN_REQUESTS_MAX, BLOCKS_PER_REQUEST,
          Limit,           \* the easiest target of the network
          Targets,         \* the target of each period, from 0
          Ends,            \* the last block of each period that has ended
          ChainBelow,      \* difficulty under which each protocol chains
          SixtyFour,       \* inner nodes that read as a transaction
          TrueChain,       \* the network's headers, by height
          TrueTxs,         \* its transactions
          Forged,          \* headers a server may make up
          Claims,          \* the confirmations servers claim
          FASTEST_BLOCK_SECS, WRITTEN_AFTER, GenesisTime, MaxProofs

VARIABLES kept,            \* the chains to checkpoints, by period
          accepted,        \* the confirmation taken last, if it was
          proofs

proofVars == <<kept, accepted, proofs>>

-----------------------------------------------------------------------------
\* Work.

LastPeriod == Max(DOMAIN Targets)
PeriodOf(height) == height \div RETARGET_PERIOD
Easier(target, times) == Min({Limit, target * 4 ^ times})

\* The target of its period; past the table, easier for a few periods.
EasiestTarget(height) ==
  LET period == PeriodOf(height)
      past == Max({0, Min({period, LastPeriod + PAST_THE_TABLE}) - LastPeriod})
  IN  Easier(Targets[Min({period, LastPeriod})], past)

HasProofOfWork(height, header) ==
  header.target <= EasiestTarget(height) /\ header.worked

\* A block a minute since the first, by a clock no earlier than the code.
HeightLimit(now) ==
  (Max({now, WRITTEN_AFTER}) - GenesisTime) \div FASTEST_BLOCK_SECS
CheckedTip(height, header, now) ==
  height <= HeightLimit(now) /\ HasProofOfWork(height, header)

-----------------------------------------------------------------------------
\* Branches.

\* A node is never taken for a transaction.
MutReadsAsTransaction(left, right) == FALSE

\* A node that is also a transaction proves nothing below it.
ReadsAsTransaction(left, right) == <<left, right>> \in SixtyFour

\* One step up the tree, from a record node, index, why (the fault met).
Paired(at, sibling) ==
  LET right == at.index % 2 = 1
      pair == IF right THEN <<sibling, at.node>> ELSE <<at.node, sibling>>
  IN  CASE at.why # "none" -> at
        [] at.why = "none" /\ right /\ sibling = at.node ->
             [at EXCEPT !.why = "shape"]
        [] at.why = "none" /\ ~(right /\ sibling = at.node) ->
             [node |-> pair, index |-> at.index \div 2,
              why |-> IF ReadsAsTransaction(pair[1], pair[2])
                      THEN "transaction" ELSE "none"]

\* The root a branch leads to from a leaf, or why it leads to none.
MerkleRoot(leaf, pos, nodes) ==
  LET start == [node |-> leaf, index |-> pos,
                why |-> IF Len(nodes) > BRANCH_MAX THEN "shape" ELSE "none"]
      top == FoldLeft(Paired, start, nodes)
  IN  IF top.why = "none" /\ top.index # 0 THEN [top EXCEPT !.why = "shape"]
      ELSE top

CheckConfirmation(height, header, leaf, branch) ==
  LET root == MerkleRoot(leaf, branch.pos, branch.nodes)
  IN  CASE branch.height # height -> "unsure"
        [] branch.height = height /\ ~HasProofOfWork(height, header) -> "false"
        [] OTHER -> CASE root.why = "shape" -> "false"
                      [] root.why = "transaction" -> "unsure"
                      [] root.why = "none" /\ root.node = header.root -> "holds"
                      [] OTHER -> "elsewhere"

\* A branch that led elsewhere, once the header is read again.
Recheck(height, first, again, leaf, branch) ==
  IF /\ again.id # first.id
     /\ CheckConfirmation(height, again, leaf, branch) = "holds"
  THEN "unsure" ELSE "false"

-----------------------------------------------------------------------------
\* Chains to the checkpoints.

Difficulty(target) == Limit \div target
PeriodEnd(height) == (PeriodOf(height) + 1) * RETARGET_PERIOD - 1

\* The end of the period of a height and its hash, when the checkpoints
\* have it and a header there is cheap.
CheckpointBelow(height, difficulty) ==
  LET period == PeriodOf(height)
  IN  {[height |-> PeriodEnd(height), id |-> id] :
         id \in {Ends[p] : p \in {p \in DOMAIN Ends \cap {period} :
                                    Difficulty(Targets[p]) < difficulty}}}
CheckpointFor(height) == CheckpointBelow(height, ChainBelow.electrum)
EsploraChains(height) == CheckpointBelow(height, ChainBelow.esplora) # {}

Follow(headers) == \A i \in 1..(Len(headers) - 1) :
  headers[i + 1].prev = headers[i].id

MutReachesEnd(headers, from, end) == TRUE

\* The headers are as many as there are blocks to the end of the period.
ReachesEnd(headers, from, end) == Len(headers) = end - from + 1

\* The hashes of headers that follow one another to their checkpoint.
ChainToCheckpoint(from, headers) ==
  {[i \in DOMAIN headers |-> headers[i].id] : end \in
     {end \in CheckpointFor(from) :
        /\ ReachesEnd(headers, from, end.height) /\ headers # << >>
        /\ Follow(headers) /\ Last(headers).id = end.id}}

ChainedBefore(height) ==
  {k.ids[height - k.from + 1] :
     k \in {kept[p] : p \in {p \in DOMAIN kept : /\ p = PeriodOf(height)
                               /\ height - kept[p].from + 1 \in DOMAIN kept[p].ids}}}

\* Kept unless one that starts lower is; all go when there are too many.
RememberChained(chains, from, ids) ==
  LET period == PeriodOf(from)
      left == IF Cardinality(DOMAIN chains) >= CHAINED_MAX THEN {} ELSE DOMAIN chains
      entry == [from |-> from, ids |-> ids]
  IN  IF period \in DOMAIN chains /\ chains[period].from <= from THEN chains
      ELSE [p \in left \cup {period} |-> IF p = period THEN entry ELSE chains[p]]

\* What chaining says of a block, from the chains this sync read, records
\* from, ids, and those of the session.
Chained(height, id, read) ==
  LET ends == {c.height : c \in CheckpointFor(height)}
      inRead == {r.ids[height - r.from + 1] : r \in {r \in read :
                   r.from <= height /\ r.from + Len(r.ids) - 1 \in ends}}
      real == IF inRead # {} THEN inRead ELSE ChainedBefore(height)
  IN  CASE ends = {} -> "holds"
        [] ends # {} /\ real = {} -> "unsure"
        [] OTHER -> IF id \in real THEN "holds" ELSE "false"

\* The chains these heights need and the session lacks, each from the
\* lowest height of its period, records from, count.
ChainsToRead(heights) ==
  LET need == {h \in heights : CheckpointFor(h) # {} /\ ChainedBefore(h) = {}}
      lowest == {h \in need : \A k \in need : PeriodOf(k) = PeriodOf(h) => h <= k}
  IN  {[from |-> h, count |-> PeriodEnd(h) - h + 1] : h \in lowest}

-----------------------------------------------------------------------------
\* A server proves a confirmation: it says where the transaction is, and
\* gives a header, its tip, a branch and, asked for it, the header again.

Verdict(claim) ==
  LET above == AboveTheTip(claim.height, claim.tip)
      first == CheckConfirmation(claim.height, claim.header, claim.leaf, claim.branch)
  IN  CASE above # "below" -> above
        [] above = "below" /\ first = "elsewhere" ->
             Recheck(claim.height, claim.header, claim.again, claim.leaf, claim.branch)
        [] OTHER -> first

\* Over Esplora, only the cheapest periods are chained, and a chain past
\* the requests left is not read.
IsChained(claim) == claim.protocol = "esplora" => EsploraChains(claim.height)
Affordable(read, protocol) ==
  protocol = "esplora" =>
    (read.count + BLOCKS_PER_REQUEST - 1) \div BLOCKS_PER_REQUEST
      <= CHAIN_REQUESTS_MAX
ReadsFor(claim) ==
  IF Verdict(claim) = "holds" /\ IsChained(claim)
  THEN {r \in ChainsToRead({claim.height}) : Affordable(r, claim.protocol)}
  ELSE {}

TakeProof(claim, read) ==
  accepted' = IF /\ Verdict(claim) = "holds"
                 /\ IsChained(claim) =>
                      Chained(claim.height, claim.header.id, read) = "holds"
              THEN {[height |-> claim.height, id |-> claim.header.id,
                     leaf |-> claim.leaf, pos |-> claim.branch.pos,
                     protocol |-> claim.protocol]}
              ELSE {}

Headers == Range(TrueChain) \cup Forged

\* The checkpoints are blocks of the network, each block names the one
\* before it, and the hash of a header is of no other: a server makes up
\* headers, never one with the hash of another.  Esplora chains no period
\* that Electrum does not.
ASSUME ChainAssumption ==
  /\ RETARGET_PERIOD \in Nat \ {0} /\ CHAINED_MAX \in Nat
  /\ Limit \in Nat /\ DOMAIN Ends \subseteq DOMAIN Targets
  /\ \A p \in DOMAIN Targets : p \in Nat /\ Targets[p] \in Nat \ {0}
  /\ \A h \in DOMAIN TrueChain : h \in Nat
  /\ \A h \in DOMAIN TrueChain \ {0} :
       h - 1 \in DOMAIN TrueChain /\ TrueChain[h].prev = TrueChain[h - 1].id
  /\ \A p \in DOMAIN Ends :
       LET end == (p + 1) * RETARGET_PERIOD - 1
       IN  end \in DOMAIN TrueChain /\ Ends[p] = TrueChain[end].id
  /\ \A a, b \in Headers : a.id = b.id => a = b
  /\ {ChainBelow.electrum, ChainBelow.esplora} \subseteq Nat
  /\ ChainBelow.esplora <= ChainBelow.electrum
  /\ \A c \in Claims : c.height \in Nat /\ c.protocol \in {"electrum", "esplora"}

Lists == UNION {[1..n -> Headers] : n \in 1..RETARGET_PERIOD}

\* Any headers the server can make; a chain that does not hold refuses it.
ProvesByChain(claim) ==
  \E r \in ReadsFor(claim), headers \in Lists :
    LET chain == ChainToCheckpoint(r.from, headers)
    IN  IF chain = {} THEN accepted' = {} /\ UNCHANGED kept
        ELSE \E ids \in chain :
               /\ kept' = RememberChained(kept, r.from, ids)
               /\ TakeProof(claim, {[from |-> r.from, ids |-> ids]})

\* None is needed, or the server does not send it: nothing is read.
ProvesAlone(claim) == TakeProof(claim, {}) /\ UNCHANGED kept

ProofsInit == kept = << >> /\ accepted = {} /\ proofs = 0

\* The tip the server gave, checked first.
Proves(claim) == /\ proofs < MaxProofs /\ proofs' = proofs + 1
                 /\ CheckedTip(claim.tip, TrueChain[claim.tip], claim.now)
                 /\ ProvesByChain(claim) \/ ProvesAlone(claim)

ProofsNext == \E claim \in Claims : Proves(claim)
ProofsSpec == ProofsInit /\ [][ProofsNext]_proofVars

-----------------------------------------------------------------------------
\* A confirmation taken in a period its protocol chains is in a block of the
\* network: the block is the network's at that height, whatever headers
\* servers sent in this sync or an earlier one and whichever chains the
\* session kept (chain_to_checkpoint, chained, remember_chained).
InChainedPeriod(a) == CheckpointBelow(a.height, ChainBelow[a.protocol]) # {}
BlockIsReal == \A a \in accepted :
  InChainedPeriod(a) => a.id = TrueChain[a.height].id

\* And the transaction is the one at that place of the block, whatever the
\* branch starts at: the copy an odd row makes of its last node, or half of
\* a transaction of 64 bytes (merkle_root, check_confirmation).
PlaceIsReal == \A a \in accepted : InChainedPeriod(a) =>
  /\ a.pos + 1 \in DOMAIN TrueTxs[a.height]
  /\ TrueTxs[a.height][a.pos + 1] = a.leaf
=============================================================================
