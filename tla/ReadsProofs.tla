---------------------------- MODULE ReadsProofs -----------------------------
(***************************************************************************)
(* Proofs about what a sync reads of a server: the confirmations chained   *)
(* to a checkpoint (Proofs), and those a sync leaves standing (ChainScan). *)
(***************************************************************************)
EXTENDS ChainScan, Proofs, SequenceTheorems, WellFoundedInduction, TLAPS

\* A set of numbers that is not empty has a smallest: the induction the
\* proofs below go by.
LEMMA Smallest ==
  ASSUME NEW S, S \subseteq Nat, S # {}
  PROVE  \E m \in S : \A n \in S : m <= n
<1>1. PICK m \in S : \A n \in S : ~ (<<n, m>> \in OpToRel(<, Nat))
  BY WFMin, NatLessThanWellFounded
<1>2. \A a, b \in Nat : a < b => <<a, b>> \in OpToRel(<, Nat)
  BY DEF OpToRel
<1>3. m \in Nat /\ \A n \in S : n \in Nat /\ ~(n < m)
  BY <1>1, <1>2
<1> QED BY <1>3

-----------------------------------------------------------------------------
(* Chains to the checkpoints.                                              *)

\* Heights and ends of periods.
LEMMA EndOfPeriod ==
  ASSUME NEW h \in Nat
  PROVE  /\ PeriodOf(h) \in Nat
         /\ PeriodEnd(h) \in Nat
         /\ h <= PeriodEnd(h)
<1> DEFINE R == RETARGET_PERIOD
           q == h \div R
<1>1. R \in Nat /\ R > 0
  BY ChainAssumption
<1>2. q \in Nat /\ h < (q + 1) * R
  BY <1>1, SMTT(30)
<1>3. (q + 1) * R \in Nat
  BY <1>1, <1>2
<1> QED BY <1>2, <1>3 DEF PeriodOf, PeriodEnd

\* A chain of headers that follow one another to a block of the network is
\* the network's all along: each names by its hash the one before it.
LEMMA FollowIsReal ==
  ASSUME NEW n \in Nat, NEW headers \in [1..n -> Headers], n > 0,
         NEW from \in Nat, from + n - 1 \in DOMAIN TrueChain,
         Follow(headers), headers[n].id = TrueChain[from + n - 1].id
  PROVE  \A i \in 1..n : /\ from + i - 1 \in DOMAIN TrueChain
                         /\ headers[i].id = TrueChain[from + i - 1].id
<1> DEFINE Real(i) == /\ from + i - 1 \in DOMAIN TrueChain
                      /\ headers[i].id = TrueChain[from + i - 1].id
           Bad == {k \in Nat : k < n /\ ~Real(n - k)}
<1> SUFFICES ASSUME Bad # {} PROVE FALSE
  <2>1. Bad = {} => \A i \in 1..n : Real(i)
    <3> SUFFICES ASSUME Bad = {}, NEW i \in 1..n PROVE Real(i)
      OBVIOUS
    <3>1. n - i \in Nat /\ n - i < n /\ n - (n - i) = i
      OBVIOUS
    <3>2. n - i \notin Bad
      OBVIOUS
    <3> QED BY <3>1, <3>2
  <2> QED BY <2>1
<1>1. PICK k \in Bad : \A m \in Bad : k <= m
  BY Smallest
<1>2. k # 0
  <2>1. Real(n)
    OBVIOUS
  <2> QED BY <2>1, <1>1
<1>3. k - 1 \in Nat /\ k - 1 < n /\ ~(k <= k - 1)
  <2>1. k \in Nat /\ k < n
    BY <1>1
  <2> QED BY <1>2, <2>1
<1>4. Real(n - (k - 1))
  BY <1>1, <1>3
<1> DEFINE i == n - k
<1>5. i \in 1..n /\ i + 1 \in 1..n /\ n - (k - 1) = i + 1
  BY <1>1, <1>2
<1>6. Real(i + 1)
  BY <1>4, <1>5
<1> HIDE DEF i
<1>7. headers[i + 1].prev = headers[i].id
  <2>1. Len(headers) = n
    BY LenProperties, SeqDef
  <2>2. i \in 1..(Len(headers) - 1)
    BY <2>1, <1>5
  <2> QED BY <2>2 DEF Follow
<1> DEFINE h == from + (i + 1) - 1
<1>8. h \in DOMAIN TrueChain /\ headers[i + 1].id = TrueChain[h].id
  BY <1>6
<1>9. h = from + i /\ h # 0 /\ h - 1 = from + i - 1 /\ h \in Nat
  BY <1>5
<1>10. headers[i + 1] = TrueChain[h]
  <2>1. headers[i + 1] \in Headers /\ TrueChain[h] \in Headers
    BY <1>5, <1>8 DEF Headers, Range
  <2> QED BY <2>1, <1>8, ChainAssumption
<1>11. h - 1 \in DOMAIN TrueChain /\ TrueChain[h].prev = TrueChain[h - 1].id
  BY <1>8, <1>9, ChainAssumption
<1>12. Real(i)
  BY <1>7, <1>9, <1>10, <1>11
<1>13. ~Real(n - k)
  BY <1>1
<1> QED BY <1>12, <1>13 DEF i

\* The checkpoint of a height is that of its period.
LEMMA CheckpointIs ==
  ASSUME NEW h, NEW d
  PROVE  /\ \A c \in CheckpointBelow(h, d) :
              /\ c.height = PeriodEnd(h) /\ PeriodOf(h) \in DOMAIN Ends
              /\ c.id = Ends[PeriodOf(h)] /\ Difficulty(Targets[PeriodOf(h)]) < d
         /\ (PeriodOf(h) \in DOMAIN Ends /\ Difficulty(Targets[PeriodOf(h)]) < d)
              => CheckpointBelow(h, d) # {}
<1> DEFINE P == {p \in DOMAIN Ends \cap {PeriodOf(h)} : Difficulty(Targets[p]) < d}
           Ids == {Ends[p] : p \in P}
           C(id) == [height |-> PeriodEnd(h), id |-> id]
<1>1. CheckpointBelow(h, d) = {C(id) : id \in Ids}
  BY DEF CheckpointBelow
<1>2. \A id \in Ids : /\ PeriodOf(h) \in DOMAIN Ends /\ id = Ends[PeriodOf(h)]
                       /\ Difficulty(Targets[PeriodOf(h)]) < d
  OBVIOUS
<1>3. (PeriodOf(h) \in DOMAIN Ends /\ Difficulty(Targets[PeriodOf(h)]) < d) => Ids # {}
  <2> SUFFICES ASSUME PeriodOf(h) \in DOMAIN Ends, Difficulty(Targets[PeriodOf(h)]) < d PROVE Ids # {}
    OBVIOUS
  <2>1. PeriodOf(h) \in P
    OBVIOUS
  <2> QED BY <2>1
<1> HIDE DEF Ids
<1>4. \A c \in CheckpointBelow(h, d) : \E id \in Ids : c = C(id)
  BY <1>1
<1>5. \A id \in Ids : C(id) \in CheckpointBelow(h, d)
  BY <1>1
<1>6. \A id : C(id).height = PeriodEnd(h) /\ C(id).id = id
  OBVIOUS
<1> HIDE DEF C
<1>7. ASSUME NEW c \in CheckpointBelow(h, d)
      PROVE  /\ c.height = PeriodEnd(h) /\ PeriodOf(h) \in DOMAIN Ends
             /\ c.id = Ends[PeriodOf(h)] /\ Difficulty(Targets[PeriodOf(h)]) < d
  BY <1>2, <1>4, <1>6
<1> QED BY <1>3, <1>5, <1>7

\* A chain kept or read that holds the network's hashes.
RealIds(from, ids) ==
  /\ from \in Nat
  /\ \A i \in DOMAIN ids : i \in Nat /\ ids[i] = TrueChain[from + i - 1].id

\* What chain_to_checkpoint takes is the network's, up to the checkpoint.
LEMMA CheckpointedIsReal ==
  ASSUME NEW from \in Nat, NEW headers \in Lists,
         NEW ids \in ChainToCheckpoint(from, headers)
  PROVE  RealIds(from, ids) /\ DOMAIN ids = 1..Len(ids) /\ Len(ids) \in Nat
<1>1. PICK n \in 1..RETARGET_PERIOD : headers \in [1..n -> Headers]
  BY DEF Lists
<1>2. n \in Nat /\ n > 0 /\ Len(headers) = n /\ DOMAIN headers = 1..n
  BY <1>1, ChainAssumption, LenProperties, SeqDef
<1>3. PICK end \in CheckpointFor(from) :
        /\ ReachesEnd(headers, from, end.height)
        /\ Follow(headers) /\ Last(headers).id = end.id
        /\ ids = [i \in DOMAIN headers |-> headers[i].id]
  BY DEF ChainToCheckpoint
<1>4. end.height = PeriodEnd(from) /\ PeriodOf(from) \in DOMAIN Ends /\ end.id = Ends[PeriodOf(from)]
  BY <1>3, CheckpointIs DEF CheckpointFor
<1>5. PeriodEnd(from) \in DOMAIN TrueChain /\ Ends[PeriodOf(from)] = TrueChain[PeriodEnd(from)].id
  BY <1>4, ChainAssumption DEF PeriodEnd
<1>6. from + n - 1 = PeriodEnd(from)
  <2>1. n = PeriodEnd(from) - from + 1
    BY <1>2, <1>3, <1>4 DEF ReachesEnd
  <2>2. PeriodEnd(from) \in Nat
    BY EndOfPeriod
  <2> QED BY <1>2, <2>1, <2>2
<1>7. headers[n].id = TrueChain[from + n - 1].id
  BY <1>2, <1>3, <1>4, <1>5, <1>6 DEF Last
<1>8. \A i \in 1..n : headers[i].id = TrueChain[from + i - 1].id
  BY <1>1, <1>2, <1>3, <1>5, <1>6, <1>7, FollowIsReal
<1>9. ids = [i \in 1..n |-> headers[i].id]
  BY <1>2, <1>3
<1>10. Len(ids) = n
  BY <1>2, <1>9
<1> QED BY <1>2, <1>8, <1>9, <1>10 DEF RealIds

-----------------------------------------------------------------------------
(* What the session keeps, and what it takes.                              *)

\* Every chain the session keeps is the network's: what makes BlockIsReal
\* hold from one sync to the next.
KeptIsReal == \A p \in DOMAIN kept : RealIds(kept[p].from, kept[p].ids)
ProofsIInv == KeptIsReal /\ BlockIsReal

LEMMA Remembered ==
  ASSUME KeptIsReal, NEW from, NEW ids, RealIds(from, ids),
         kept' = RememberChained(kept, from, ids)
  PROVE  KeptIsReal'
<1> SUFFICES ASSUME NEW p \in DOMAIN kept' PROVE RealIds(kept'[p].from, kept'[p].ids)
  BY DEF KeptIsReal, RealIds
<1> DEFINE period == PeriodOf(from)
           left == IF Cardinality(DOMAIN kept) >= CHAINED_MAX THEN {} ELSE DOMAIN kept
           entry == [from |-> from, ids |-> ids]
<1>1. CASE kept' = kept
  BY <1>1 DEF KeptIsReal
<1>2. CASE kept' = [q \in left \cup {period} |-> IF q = period THEN entry ELSE kept[q]]
  <2>1. p \in left \cup {period} /\ kept'[p] = IF p = period THEN entry ELSE kept[p]
    BY <1>2
  <2>2. CASE p = period
    BY <2>1, <2>2
  <2>3. CASE p # period
    BY <2>1, <2>3 DEF KeptIsReal
  <2> QED BY <2>2, <2>3
<1> QED BY <1>1, <1>2 DEF RememberChained

LEMMA TakenIsReal ==
  ASSUME KeptIsReal, NEW claim \in Claims, NEW read,
         \A r \in read : /\ RealIds(r.from, r.ids)
                         /\ DOMAIN r.ids = 1..Len(r.ids) /\ Len(r.ids) \in Nat,
         TakeProof(claim, read)
  PROVE  BlockIsReal'
<1> DEFINE h == claim.height
<1> SUFFICES ASSUME NEW a \in accepted', CheckpointBelow(a.height, ChainBelow[a.protocol]) # {}
             PROVE  a.id = TrueChain[a.height].id
  BY DEF BlockIsReal, InChainedPeriod, CheckpointBelow
<1>1. /\ a.height = h /\ a.id = claim.header.id /\ a.protocol = claim.protocol
      /\ IsChained(claim) => Chained(h, claim.header.id, read) = "holds"
  BY DEF TakeProof
<1>2. h \in Nat /\ claim.protocol \in {"electrum", "esplora"}
  BY ChainAssumption
<1>3. IsChained(claim)
  BY <1>1 DEF IsChained, EsploraChains
<1>4. CheckpointFor(h) # {}
  <2>1. CASE claim.protocol = "electrum"
    BY <1>1, <2>1 DEF CheckpointFor
  <2>2. CASE claim.protocol = "esplora"
    <3> DEFINE p == PeriodOf(h)
    <3>1. p \in DOMAIN Ends /\ Difficulty(Targets[p]) < ChainBelow.esplora
      BY <1>1, <2>2, CheckpointIs
    <3>2. Difficulty(Targets[p]) \in Int
      BY <3>1, ChainAssumption DEF Difficulty
    <3>3. Difficulty(Targets[p]) < ChainBelow.electrum
      BY <3>1, <3>2, ChainAssumption
    <3> QED BY <3>1, <3>3, CheckpointIs DEF CheckpointFor
  <2> QED BY <1>2, <2>1, <2>2
<1> DEFINE ends == {c.height : c \in CheckpointFor(h)}
           inRead == {r.ids[h - r.from + 1] : r \in {r \in read :
                        r.from <= h /\ r.from + Len(r.ids) - 1 \in ends}}
           real == IF inRead # {} THEN inRead ELSE ChainedBefore(h)
<1>5. claim.header.id \in real
  BY <1>1, <1>3, <1>4 DEF Chained
<1>6. \A x \in inRead : x = TrueChain[h].id
  <2> SUFFICES ASSUME NEW r \in read, r.from <= h, r.from + Len(r.ids) - 1 \in ends
               PROVE  r.ids[h - r.from + 1] = TrueChain[h].id
    OBVIOUS
  <2>1. r.from + Len(r.ids) - 1 = PeriodEnd(h)
    <3>1. PICK c \in CheckpointFor(h) : r.from + Len(r.ids) - 1 = c.height
      OBVIOUS
    <3>2. c.height = PeriodEnd(h)
      BY CheckpointIs DEF CheckpointFor
    <3> QED BY <3>1, <3>2
  <2>2. r.from \in Nat /\ Len(r.ids) \in Nat
    BY DEF RealIds
  <2>3. h - r.from + 1 \in 1..Len(r.ids)
    <3>1. PeriodEnd(h) \in Nat /\ h <= PeriodEnd(h)
      BY <1>2, EndOfPeriod
    <3> HIDE DEF h
    <3> QED BY <1>2, <2>1, <2>2, <3>1
  <2>4. r.from + (h - r.from + 1) - 1 = h
    BY <1>2, <2>2
  <2> QED BY <2>3, <2>4 DEF RealIds
<1>7. \A x \in ChainedBefore(h) : x = TrueChain[h].id
  <2> SUFFICES ASSUME NEW p \in DOMAIN kept, h - kept[p].from + 1 \in DOMAIN kept[p].ids
               PROVE  kept[p].ids[h - kept[p].from + 1] = TrueChain[h].id
    BY DEF ChainedBefore
  <2>1. kept[p].from \in Nat
    BY DEF KeptIsReal, RealIds
  <2>2. kept[p].from + (h - kept[p].from + 1) - 1 = h
    BY <1>2, <2>1
  <2> QED BY <2>2 DEF KeptIsReal, RealIds
<1> QED BY <1>1, <1>5, <1>6, <1>7

LEMMA ProofsStart == ProofsInit => ProofsIInv
BY DEF ProofsInit, ProofsIInv, KeptIsReal, BlockIsReal

LEMMA ProofsStep == ProofsIInv /\ [ProofsNext]_proofVars => ProofsIInv'
<1> SUFFICES ASSUME ProofsIInv, [ProofsNext]_proofVars PROVE ProofsIInv'
  OBVIOUS
<1>1. KeptIsReal
  BY DEF ProofsIInv
<1>2. CASE UNCHANGED proofVars
  BY <1>2 DEF ProofsIInv, KeptIsReal, RealIds, BlockIsReal, InChainedPeriod, CheckpointBelow, proofVars
<1>3. ASSUME NEW claim \in Claims, ProvesAlone(claim)
      PROVE  ProofsIInv'
  <2>1. kept' = kept /\ TakeProof(claim, {})
    BY <1>3 DEF ProvesAlone
  <2>2. BlockIsReal'
    BY <1>1, <2>1, TakenIsReal
  <2> QED BY <1>1, <2>1, <2>2 DEF ProofsIInv, KeptIsReal, RealIds
<1>4. ASSUME NEW claim \in Claims, ProvesByChain(claim)
      PROVE  ProofsIInv'
  <2>1. PICK r \in ReadsFor(claim), headers \in Lists :
          LET hashes == ChainToCheckpoint(r.from, headers)
          IN  IF hashes = {} THEN accepted' = {} /\ UNCHANGED kept
              ELSE \E ids \in hashes :
                     /\ kept' = RememberChained(kept, r.from, ids)
                     /\ TakeProof(claim, {[from |-> r.from, ids |-> ids]})
    BY <1>4 DEF ProvesByChain
  <2>2. r.from \in Nat
    BY ChainAssumption DEF ReadsFor, ChainsToRead
  <2>3. CASE ChainToCheckpoint(r.from, headers) = {}
    BY <1>1, <2>1, <2>3 DEF ProofsIInv, KeptIsReal, RealIds, BlockIsReal
  <2>4. CASE ChainToCheckpoint(r.from, headers) # {}
    <3>1. PICK ids \in ChainToCheckpoint(r.from, headers) :
            /\ kept' = RememberChained(kept, r.from, ids)
            /\ TakeProof(claim, {[from |-> r.from, ids |-> ids]})
      BY <2>1, <2>4
    <3>2. RealIds(r.from, ids) /\ DOMAIN ids = 1..Len(ids) /\ Len(ids) \in Nat
      BY <2>2, CheckpointedIsReal
    <3>3. KeptIsReal'
      BY <1>1, <3>1, <3>2, Remembered
    <3>4. BlockIsReal'
      BY <1>1, <3>1, <3>2, TakenIsReal
    <3> QED BY <3>3, <3>4 DEF ProofsIInv
  <2> QED BY <2>3, <2>4
<1> QED BY <1>2, <1>3, <1>4 DEF ProofsNext, Proves

\* A confirmation taken in a chained period is in a block of the network,
\* for any headers servers make up, any claims in any order, any number of
\* syncs, and however many chains the session keeps or lets go.
THEOREM BlockHolds == ProofsSpec => []BlockIsReal
<1>1. ProofsIInv => BlockIsReal
  BY DEF ProofsIInv
<1> QED BY <1>1, ProofsStart, ProofsStep, PTL DEF ProofsSpec

-----------------------------------------------------------------------------
(* Chains: a server's has every height up to its tip, a wallet's some.     *)

Line(c) == c[0] = 0 /\ \E n \in Nat : DOMAIN c = 0..n
Sparse(c) ==
  /\ DOMAIN c \subseteq Nat /\ 0 \in DOMAIN c /\ c[0] = 0
  /\ \E n \in Nat : \A h \in DOMAIN c : h <= n

\* The greatest of numbers that have a bound.
LEMMA Greatest ==
  ASSUME NEW S, S \subseteq Nat, S # {}, NEW n \in Nat, \A x \in S : x <= n
  PROVE  Max(S) \in S /\ Max(S) \in Nat /\ \A x \in S : x <= Max(S)
<1> DEFINE T == {n - x : x \in S}
<1>1. T \subseteq Nat /\ T # {}
  <2>1. \A x \in S : n - x \in Nat
    OBVIOUS
  <2>2. PICK x \in S : TRUE
    OBVIOUS
  <2>3. n - x \in T
    OBVIOUS
  <2> QED BY <2>1, <2>3
<1>2. PICK m \in T : \A k \in T : m <= k
  BY <1>1, Smallest
<1>3. PICK x \in S : m = n - x
  BY <1>2
<1>4. \A y \in S : n - x <= n - y
  BY <1>2, <1>3
<1>5. \A y \in S : x >= y
  BY <1>3, <1>4
<1>6. Max(S) \in S /\ \A y \in S : Max(S) >= y
  BY <1>5 DEF Max
<1> QED BY <1>6

LEMMA TipIs ==
  ASSUME NEW c, Sparse(c)
  PROVE  Tip(c) \in DOMAIN c /\ Tip(c) \in Nat /\ \A h \in DOMAIN c : h <= Tip(c)
<1>1. PICK n \in Nat : \A h \in DOMAIN c : h <= n
  BY DEF Sparse
<1>2. DOMAIN c \subseteq Nat /\ DOMAIN c # {}
  BY DEF Sparse
<1> QED BY <1>1, <1>2, Greatest DEF Tip

LEMMA LineTip ==
  ASSUME NEW c, NEW n \in Nat, DOMAIN c = 0..n
  PROVE  Tip(c) = n
<1>1. DOMAIN c \subseteq Nat /\ DOMAIN c # {} /\ \A x \in DOMAIN c : x <= n
  OBVIOUS
<1>2. Max(DOMAIN c) \in DOMAIN c /\ \A x \in DOMAIN c : x <= Max(DOMAIN c)
  BY <1>1, Greatest
<1> QED BY <1>2 DEF Tip

LEMMA LineIs ==
  ASSUME NEW c, Line(c)
  PROVE  Tip(c) \in Nat /\ DOMAIN c = 0..Tip(c) /\ c[0] = 0
BY LineTip DEF Line

-----------------------------------------------------------------------------
(* What a sync under way knows of the chain.                               *)

Fields == {"at", "protocol", "lag", "fork", "latest", "tip", "local", "meet",
           "steady", "quiet", "phase"}
Phases == {"scripts", "scan", "moved"}

\* A block that stayed on the best chain since the sync began, and that a
\* server on a branch left has too, as far as that branch goes.
Kept(s, b) ==
  /\ b \in s.steady
  /\ (s.lag = STUCK /\ b[1] <= Tip(s.fork.chain)) => b \in Blocks(s.fork.chain)
\* A chain read of the server has no other block in the place of one kept.
HasKept(s, c) == \A b \in s.steady : (Kept(s, b) /\ b[1] \in DOMAIN c) => c[b[1]] = b[2]

Asking(s, best) ==
  /\ Fields \subseteq DOMAIN s /\ s.phase \in Phases
  /\ s.lag = STUCK => Line(s.fork.chain)
  /\ s.lag # STUCK => s.lag \in Nat /\ s.lag <= Tip(best)
  /\ s.steady \subseteq Blocks(best)

HasLatest(s, best, w) ==
  /\ s.tip \in Nat
  /\ s.lag = STUCK => s.tip = Tip(s.fork.chain)
  /\ s.lag # STUCK => s.tip + s.lag <= Tip(best)
  /\ DOMAIN s.latest = {h \in 0..s.tip : h > s.tip - LATEST}
  /\ 0 \in DOMAIN s.latest => s.latest[0] = 0
  /\ HasKept(s, s.latest)
  /\ s.local = WalkedChain(w.chain, s.tip)
  /\ ~(TooFarAbove(w.chain, s.tip) /\ DropsAConfirmation(w, s.tip))

HasMet(s, w) ==
  /\ DOMAIN s.meet = 0..s.tip /\ s.meet[0] = 0 /\ HasKept(s, s.meet)
  /\ s.protocol = "esplora" => ~RefusedBehind(w, s.local, s.meet)

Met == {"plan", "read", "prove", "chain"}
ScanIInv ==
  /\ Line(chain) /\ \A f \in forks : Line(f.chain)
  /\ Sparse(wallet.chain)
  /\ sync.at # "idle" => Asking(sync, chain)
  /\ sync.at \in {"walk"} \cup Met => HasLatest(sync, chain, wallet)
  /\ sync.at \in Met => HasMet(sync, wallet)

\* The chain of the server asked: of every height, and with the blocks kept.
LEMMA ServerIs ==
  ASSUME Line(chain), Asking(sync, chain)
  PROVE  /\ Line(Server) /\ HasKept(sync, Server)
         /\ sync.lag = STUCK => Tip(Server) = Tip(sync.fork.chain)
         /\ sync.lag # STUCK => Tip(Server) = Tip(chain) - sync.lag
<1>1. CASE sync.lag = STUCK
  <2>1. Server = sync.fork.chain /\ Line(sync.fork.chain)
    BY <1>1 DEF Server, Asking
  <2>2. DOMAIN Server = 0..Tip(Server) /\ Tip(Server) \in Nat
    BY <2>1, LineIs
  <2>3. ASSUME NEW b \in sync.steady, Kept(sync, b), b[1] \in DOMAIN Server
        PROVE  Server[b[1]] = b[2]
    <3>1. b \in Blocks(Server)
      BY <1>1, <2>1, <2>2, <2>3 DEF Kept
    <3> QED BY <3>1 DEF Blocks
  <2> QED BY <1>1, <2>1, <2>3 DEF HasKept
<1>2. CASE sync.lag # STUCK
  <2> DEFINE n == Tip(chain) - sync.lag
  <2>1. Server = UpTo(chain, n)
    BY <1>2 DEF Server
  <2>2. DOMAIN chain = 0..Tip(chain) /\ Tip(chain) \in Nat /\ chain[0] = 0
    BY LineIs
  <2>3. sync.lag \in Nat /\ sync.lag <= Tip(chain)
    BY <1>2 DEF Asking
  <2>4. n \in Nat /\ DOMAIN Server = 0..n
    BY <2>1, <2>2, <2>3 DEF UpTo, Restrict
  <2>5. \A h \in 0..n : Server[h] = chain[h]
    BY <2>1, <2>2, <2>3, <2>4 DEF UpTo, Restrict
  <2>6. Server[0] = 0
    BY <2>2, <2>4, <2>5
  <2>7. Tip(Server) = n
    BY <2>4, LineTip
  <2>8. ASSUME NEW b \in sync.steady, b[1] \in DOMAIN Server
        PROVE  Server[b[1]] = b[2]
    <3>1. b \in Blocks(chain)
      BY DEF Asking
    <3> QED BY <3>1, <2>4, <2>5, <2>8 DEF Blocks
  <2> QED BY <1>2, <2>4, <2>6, <2>7, <2>8 DEF Line, HasKept
<1> QED BY <1>1, <1>2

-----------------------------------------------------------------------------
(* The server's chain met with the wallet's.                               *)

LEMMA OnIs ==
  ASSUME NEW a, NEW b
  PROVE  /\ DOMAIN On(a, b) = DOMAIN a \cup DOMAIN b
         /\ \A h \in DOMAIN a : On(a, b)[h] = a[h]
         /\ \A h \in DOMAIN b \ DOMAIN a : On(a, b)[h] = b[h]
BY DEF On

LEMMA RestrictIs ==
  ASSUME NEW c, NEW S
  PROVE  DOMAIN Restrict(c, S) = S /\ \A h \in S : Restrict(c, S)[h] = c[h]
BY DEF Restrict

LEMMA UpToIs ==
  ASSUME NEW c, NEW n
  PROVE  /\ DOMAIN UpTo(c, n) = {k \in DOMAIN c : k <= n}
         /\ \A h \in DOMAIN c : h <= n => UpTo(c, n)[h] = c[h]
BY DEF UpTo, Restrict

\* What a sync walks is of the wallet's chain, and holds it all but for
\* blocks far above the tip of the server.
LEMMA LocalIs ==
  ASSUME NEW c, Sparse(c), NEW tip \in Nat
  PROVE  LET l == WalkedChain(c, tip)
         IN  /\ Sparse(l)
             /\ \A h \in DOMAIN l : h \in DOMAIN c /\ l[h] = c[h]
             /\ \A h \in DOMAIN c : h <= tip => h \in DOMAIN l
             /\ ~TooFarAbove(c, tip) => l = c
<1>1. CASE TooFarAbove(c, tip)
  <2>1. WalkedChain(c, tip) = UpTo(c, tip)
    BY <1>1 DEF WalkedChain
  <2> DEFINE l == UpTo(c, tip)
  <2>2. DOMAIN l = {k \in DOMAIN c : k <= tip} /\ \A h \in DOMAIN c : h <= tip => l[h] = c[h]
    BY UpToIs
  <2> HIDE DEF l
  <2>3. DOMAIN c \subseteq Nat /\ 0 \in DOMAIN c /\ c[0] = 0
    BY DEF Sparse
  <2>4. DOMAIN l \subseteq Nat /\ 0 \in DOMAIN l /\ l[0] = 0 /\ \A h \in DOMAIN l : h <= tip
    BY <2>2, <2>3
  <2>5. Sparse(l)
    BY <2>4 DEF Sparse
  <2> QED BY <1>1, <2>1, <2>2, <2>5 DEF l
<1>2. CASE ~TooFarAbove(c, tip)
  BY <1>2 DEF WalkedChain
<1> QED BY <1>1, <1>2

\* The agreement of two chains is at or above every block they agree on.
LEMMA AgreementIs ==
  ASSUME NEW c, Sparse(c), NEW m, NEW n \in Nat, DOMAIN m = 0..n, m[0] = 0
  PROVE  /\ Tip(m) = n /\ Agreement(c, m) \in Nat
         /\ \A h \in DOMAIN c : (h <= n /\ c[h] = m[h]) => h <= Agreement(c, m)
<1> DEFINE S == {h \in Common(c, m) : c[h] = m[h]}
<1>1. Tip(m) = n
  BY LineTip
<1>2. Common(c, m) = {h \in DOMAIN c : h <= n}
  BY <1>1 DEF Common
<1>3. S \subseteq Nat /\ 0 \in S /\ \A h \in S : h <= n
  BY <1>2 DEF Sparse
<1>4. Max(S) \in Nat /\ \A h \in S : h <= Max(S)
  BY <1>3, Greatest
<1>5. \A h \in DOMAIN c : (h <= n /\ c[h] = m[h]) => h \in S
  BY <1>2
<1> QED BY <1>1, <1>4, <1>5 DEF Agreement

LEMMA MergeIs ==
  ASSUME NEW c, Sparse(c), NEW u, Sparse(u)
  PROVE  /\ Sparse(Merge(c, u))
         /\ \A h \in DOMAIN u : h \in DOMAIN Merge(c, u) /\ Merge(c, u)[h] = u[h]
<1>1. PICK below : Merge(c, u) = On(u, below) /\ DOMAIN below \subseteq DOMAIN c
  <2>1. CASE Merge(c, u) = On(u, c)
    BY <2>1
  <2>2. ASSUME NEW k, Merge(c, u) = On(u, UpTo(c, k))
        PROVE  \E below : Merge(c, u) = On(u, below) /\ DOMAIN below \subseteq DOMAIN c
    <3>1. DOMAIN UpTo(c, k) \subseteq DOMAIN c
      BY UpToIs
    <3> QED BY <2>2, <3>1
  <2> DEFINE conflicts == {h \in DOMAIN c \cap DOMAIN u : c[h] # u[h]}
  <2>3. Merge(c, u) = On(u, c) \/ Merge(c, u) = On(u, UpTo(c, Min(conflicts) - 1))
    BY DEF Merge
  <2> HIDE DEF conflicts
  <2> QED BY <2>1, <2>2, <2>3
<1>2. DOMAIN Merge(c, u) = DOMAIN u \cup DOMAIN below
  BY <1>1, OnIs
<1>3. \A h \in DOMAIN u : Merge(c, u)[h] = u[h]
  <2>1. \A h \in DOMAIN u : On(u, below)[h] = u[h]
    BY OnIs
  <2> QED BY <1>1, <2>1
<1>4. PICK n \in Nat : \A h \in DOMAIN c : h <= n
  BY DEF Sparse
<1>5. PICK m \in Nat : \A h \in DOMAIN u : h <= m
  BY DEF Sparse
<1>6. \A h \in DOMAIN Merge(c, u) : h \in Nat /\ h <= n + m
  <2> SUFFICES ASSUME NEW h \in DOMAIN Merge(c, u) PROVE h \in Nat /\ h <= n + m
    OBVIOUS
  <2>1. CASE h \in DOMAIN u
    BY <1>5, <2>1 DEF Sparse
  <2>2. CASE h \in DOMAIN below
    BY <1>1, <1>4, <2>2 DEF Sparse
  <2> QED BY <1>2, <2>1, <2>2
<1>7. 0 \in DOMAIN u /\ u[0] = 0
  BY DEF Sparse
<1> QED BY <1>2, <1>3, <1>6, <1>7 DEF Sparse

\* The base of an update keeps the wallet's blocks the server agrees with,
\* and all of them where the server is only behind.
LEMMA EsploraBaseIs ==
  ASSUME NEW c, Sparse(c), NEW m, NEW n \in Nat, DOMAIN m = 0..n, m[0] = 0
  PROVE  LET base == EsploraBase(c, m)
         IN  /\ DOMAIN base \subseteq DOMAIN c
             /\ \A h \in DOMAIN c : (Ahead(c, m) \/ (h <= n /\ c[h] = m[h])) =>
                  h \in DOMAIN base /\ base[h] = c[h]
<1>1. CASE Ahead(c, m)
  BY <1>1 DEF EsploraBase
<1>2. CASE ~Ahead(c, m)
  <2> DEFINE R == Restrict(m, Replaced(c, m))
             U == UpTo(c, Agreement(c, m))
  <2>1. EsploraBase(c, m) = On(R, U)
    BY <1>2 DEF EsploraBase
  <2>2. DOMAIN R = Replaced(c, m) /\ DOMAIN U = {k \in DOMAIN c : k <= Agreement(c, m)}
    BY RestrictIs, UpToIs
  <2>3. Replaced(c, m) \subseteq DOMAIN c
    BY DEF Replaced, Common
  <2>4. ASSUME NEW h \in DOMAIN c, h <= n, c[h] = m[h]
        PROVE  h \in DOMAIN U /\ h \notin DOMAIN R /\ U[h] = c[h]
    <3>1. h <= Agreement(c, m) /\ Agreement(c, m) \in Nat /\ h \in Nat
      BY <2>4, AgreementIs DEF Sparse
    <3>2. h \notin Replaced(c, m)
      BY <3>1 DEF Replaced
    <3> QED BY <2>2, <3>1, <3>2, UpToIs
  <2> HIDE DEF R, U
  <2>5. DOMAIN On(R, U) = DOMAIN R \cup DOMAIN U /\ \A h \in DOMAIN U \ DOMAIN R : On(R, U)[h] = U[h]
    BY OnIs, ZenonT(40)
  <2>6. DOMAIN EsploraBase(c, m) \subseteq DOMAIN c
    BY <2>1, <2>2, <2>3, <2>5
  <2>7. ASSUME NEW h \in DOMAIN c, Ahead(c, m) \/ (h <= n /\ c[h] = m[h])
        PROVE  h \in DOMAIN EsploraBase(c, m) /\ EsploraBase(c, m)[h] = c[h]
    <3>1. h \in DOMAIN U /\ h \notin DOMAIN R /\ U[h] = c[h]
      BY <1>2, <2>4, <2>7
    <3> QED BY <2>1, <2>5, <3>1
  <2> QED BY <2>6, <2>7
<1> QED BY <1>1, <1>2

LEMMA ElectrumBaseIs ==
  ASSUME NEW c, Sparse(c), NEW m, NEW n \in Nat, DOMAIN m = 0..n, m[0] = 0,
         NEW latest
  PROVE  LET base == ElectrumBase(c, latest, m)
         IN  /\ DOMAIN base \subseteq DOMAIN c \cup DOMAIN latest
             /\ \A h \in DOMAIN c : (IsBehind(c, m) \/ (h <= n /\ c[h] = m[h])) =>
                  h \in DOMAIN base /\ base[h] = c[h]
<1>1. CASE IsBehind(c, m)
  BY <1>1 DEF ElectrumBase
<1>2. CASE ~IsBehind(c, m)
  <2> DEFINE U == UpTo(c, Agreement(c, m))
             L == Restrict(latest, {h \in DOMAIN latest : h > Agreement(c, m)})
             R == On(Restrict(m, Replaced(c, m)), L)
  <2>1. ElectrumBase(c, latest, m) = On(U, R)
    BY <1>2 DEF ElectrumBase
  <2>2. DOMAIN R = Replaced(c, m) \cup DOMAIN L /\ DOMAIN U = {k \in DOMAIN c : k <= Agreement(c, m)}
    <3>1. DOMAIN Restrict(m, Replaced(c, m)) = Replaced(c, m)
      BY RestrictIs
    <3>2. DOMAIN R = DOMAIN Restrict(m, Replaced(c, m)) \cup DOMAIN L
      BY OnIs
    <3> QED BY <3>1, <3>2, UpToIs
  <2>3. Replaced(c, m) \subseteq DOMAIN c /\ DOMAIN L \subseteq DOMAIN latest
    BY RestrictIs DEF Replaced, Common
  <2>4. ASSUME NEW h \in DOMAIN c, h <= n, c[h] = m[h]
        PROVE  h \in DOMAIN U /\ U[h] = c[h]
    <3>1. h <= Agreement(c, m)
      BY <2>4, AgreementIs
    <3> QED BY <2>2, <3>1, UpToIs
  <2> HIDE DEF R, U
  <2>5. DOMAIN On(U, R) = DOMAIN U \cup DOMAIN R /\ \A h \in DOMAIN U : On(U, R)[h] = U[h]
    BY OnIs
  <2>6. DOMAIN ElectrumBase(c, latest, m) \subseteq DOMAIN c \cup DOMAIN latest
    BY <2>1, <2>2, <2>3, <2>5
  <2>7. ASSUME NEW h \in DOMAIN c, IsBehind(c, m) \/ (h <= n /\ c[h] = m[h])
        PROVE  LET base == ElectrumBase(c, latest, m) IN h \in DOMAIN base /\ base[h] = c[h]
    <3>1. h \in DOMAIN U /\ U[h] = c[h]
      BY <1>2, <2>4, <2>7
    <3> QED BY <2>1, <2>5, <3>1
  <2> QED BY <2>6, <2>7
<1> QED BY <1>1, <1>2

\* The chain a sync applies: of every block of the wallet the server agrees
\* with, and above the tip of a server that is only behind.
Survives(h) ==
  \/ h <= sync.tip /\ sync.local[h] = sync.meet[h]
  \/ sync.protocol = "esplora" /\ Ahead(sync.local, sync.meet)
  \/ sync.protocol # "esplora" /\ IsBehind(sync.local, sync.meet)

LEMMA NewChainIs ==
  ASSUME ScanIInv, sync.at = "chain"
  PROVE  /\ Sparse(sync.local) /\ Sparse(NewChain)
         /\ \A h \in DOMAIN sync.local : Survives(h) =>
              h \in DOMAIN NewChain /\ NewChain[h] = sync.local[h]
<1> DEFINE l == sync.local
           m == sync.meet
           anchors == {a[2] : a \in sync.anchors}
           heights == {b[1] : b \in anchors}
           known == On(sync.latest, UpTo(Server, sync.tip))
<1>1. /\ Asking(sync, chain) /\ HasLatest(sync, chain, wallet) /\ HasMet(sync, wallet)
      /\ Line(chain) /\ Sparse(wallet.chain)
  BY DEF ScanIInv, Met
<1>2. sync.tip \in Nat /\ l = WalkedChain(wallet.chain, sync.tip)
  BY <1>1 DEF HasLatest
<1>3. DOMAIN m = 0..sync.tip /\ m[0] = 0
  BY <1>1 DEF HasMet
<1>4. Sparse(l)
  BY <1>1, <1>2, LocalIs
<1>5. PICK n \in Nat : \A h \in DOMAIN l : h <= n
  BY <1>4 DEF Sparse
<1>6. DOMAIN l \subseteq Nat /\ 0 \in DOMAIN l /\ l[0] = 0
  BY <1>4 DEF Sparse
<1>7. DOMAIN sync.latest \subseteq 0..sync.tip
  BY <1>1 DEF HasLatest
<1>8. DOMAIN known \subseteq 0..sync.tip
  <2>1. DOMAIN UpTo(Server, sync.tip) = {k \in DOMAIN Server : k <= sync.tip}
    BY UpToIs
  <2>2. Line(Server)
    BY <1>1, ServerIs
  <2>3. DOMAIN Server \subseteq Nat
    BY <2>2 DEF Line
  <2>4. DOMAIN known = DOMAIN sync.latest \cup DOMAIN UpTo(Server, sync.tip)
    BY OnIs
  <2> QED BY <1>2, <1>7, <2>1, <2>3, <2>4
\* Whatever is put under a base of the wallet's blocks and of the latest.
<1>9. ASSUME NEW base, NEW under, NEW k \in Nat, DOMAIN under \subseteq 0..k,
             DOMAIN base \subseteq DOMAIN l \cup DOMAIN sync.latest,
             \A h \in DOMAIN l : Survives(h) => h \in DOMAIN base /\ base[h] = l[h],
             NewChain = On(base, under)
      PROVE  /\ Sparse(NewChain)
             /\ \A h \in DOMAIN l : Survives(h) => h \in DOMAIN NewChain /\ NewChain[h] = l[h]
  <2>1. DOMAIN NewChain = DOMAIN base \cup DOMAIN under
    BY <1>9, OnIs
  <2>2. \A h \in DOMAIN base : NewChain[h] = base[h]
    <3>1. \A h \in DOMAIN base : On(base, under)[h] = base[h]
      BY OnIs
    <3> QED BY <1>9, <3>1
  <2>3. \A h \in DOMAIN l : Survives(h) => h \in DOMAIN NewChain /\ NewChain[h] = l[h]
    BY <1>9, <2>1, <2>2
  <2>4. 0 \in DOMAIN NewChain /\ NewChain[0] = 0
    <3>1. Survives(0)
      BY <1>2, <1>3, <1>6 DEF Survives
    <3> QED BY <1>6, <2>3, <3>1
  <2>5. \A h \in DOMAIN NewChain : h \in Nat /\ h <= n + sync.tip + k
    <3> SUFFICES ASSUME NEW h \in DOMAIN NewChain PROVE h \in Nat /\ h <= n + sync.tip + k
      OBVIOUS
    <3>1. CASE h \in DOMAIN l
      <4>1. h \in Nat /\ h <= n
        BY <1>5, <1>6, <3>1
      <4> QED BY <1>2, <4>1
    <3>2. CASE h \in DOMAIN sync.latest
      <4>1. h \in 0..sync.tip
        BY <1>7, <3>2
      <4> QED BY <1>2, <4>1
    <3>3. CASE h \in DOMAIN under
      <4>1. h \in 0..k
        BY <1>9, <3>3
      <4> QED BY <1>2, <4>1
    <3> QED BY <1>9, <2>1, <3>1, <3>2, <3>3
  <2>6. n + sync.tip + k \in Nat
    BY <1>2
  <2> QED BY <2>3, <2>4, <2>5, <2>6 DEF Sparse
<1>10. CASE sync.protocol = "esplora"
  <2> DEFINE base == EsploraBase(l, m)
             S == {h \in heights \cap DOMAIN known : h <= Tip(sync.latest)}
             under == On(sync.latest, Restrict(known, S))
  <2>1. NewChain = On(base, under)
    BY <1>10 DEF NewChain, EsploraChain
  <2>2. DOMAIN under \subseteq 0..sync.tip
    <3>1. DOMAIN Restrict(known, S) = S
      BY RestrictIs
    <3>2. DOMAIN under = DOMAIN sync.latest \cup DOMAIN Restrict(known, S)
      BY OnIs
    <3> QED BY <1>7, <1>8, <3>1, <3>2
  <2>3. DOMAIN base \subseteq DOMAIN l
    BY <1>2, <1>3, <1>4, EsploraBaseIs
  <2>4. ASSUME NEW h \in DOMAIN l, Survives(h)
        PROVE  h \in DOMAIN base /\ base[h] = l[h]
    <3>1. Ahead(l, m) \/ (h <= sync.tip /\ l[h] = m[h])
      BY <1>10, <2>4 DEF Survives
    <3> QED BY <1>2, <1>3, <1>4, <3>1, EsploraBaseIs
  <2> HIDE DEF base, under
  <2> QED BY <1>2, <1>4, <1>9, <2>1, <2>2, <2>3, <2>4
<1>11. CASE sync.protocol # "esplora"
  <2> DEFINE base == ElectrumBase(l, sync.latest, m)
             high == heights \ DOMAIN base
             hash(h) == IF h \in DOMAIN Hashes THEN Hashes[h]
                        ELSE (CHOOSE b \in anchors : b[1] = h)[2]
             under == [h \in high \cap (0..Tip(base)) |-> hash(h)]
  <2>1. NewChain = On(base, under)
    BY <1>11 DEF NewChain, ElectrumChain
  <2>2. DOMAIN base \subseteq DOMAIN l \cup DOMAIN sync.latest
    BY <1>2, <1>3, <1>4, ElectrumBaseIs
  <2>3. ASSUME NEW h \in DOMAIN l, Survives(h)
        PROVE  h \in DOMAIN base /\ base[h] = l[h]
    <3>1. IsBehind(l, m) \/ (h <= sync.tip /\ l[h] = m[h])
      BY <1>11, <2>3 DEF Survives
    <3> QED BY <1>2, <1>3, <1>4, <3>1, ElectrumBaseIs
  <2>4. DOMAIN under \subseteq 0..Tip(base)
    OBVIOUS
  <2>5. Tip(base) \in Nat
    <3>1. Survives(0)
      BY <1>2, <1>3, <1>6 DEF Survives
    <3>2. 0 \in DOMAIN base
      BY <1>6, <2>3, <3>1
    <3>3. \A h \in DOMAIN base : h \in Nat /\ h <= n + sync.tip
      <4> SUFFICES ASSUME NEW h \in DOMAIN base PROVE h \in Nat /\ h <= n + sync.tip
        OBVIOUS
      <4>1. CASE h \in DOMAIN l
        <5>1. h \in Nat /\ h <= n
          BY <1>5, <1>6, <4>1
        <5> QED BY <1>2, <5>1
      <4>2. CASE h \in DOMAIN sync.latest
        <5>1. h \in 0..sync.tip
          BY <1>7, <4>2
        <5> QED BY <1>2, <5>1
      <4> QED BY <2>2, <4>1, <4>2
    <3> HIDE DEF base
    <3>4. n + sync.tip \in Nat
      BY <1>2
    <3> QED BY <3>2, <3>3, <3>4, Greatest DEF Tip
  <2> HIDE DEF base, under
  <2> QED BY <1>4, <1>9, <2>1, <2>2, <2>3, <2>4, <2>5
<1> QED BY <1>10, <1>11

-----------------------------------------------------------------------------
(* A confirmation that stands is kept by the chain applied.                *)

LEMMA StandingSurvives ==
  ASSUME ScanIInv, sync.at = "chain", Mainnet, NEW t \in Txs,
         NEW b \in AnchorOf(wallet, t), Stands(b)
  PROVE  /\ b[1] \in DOMAIN sync.local /\ sync.local[b[1]] = b[2] /\ Survives(b[1])
<1> DEFINE h == b[1]
           l == sync.local
           m == sync.meet
<1>1. /\ Asking(sync, chain) /\ HasLatest(sync, chain, wallet) /\ HasMet(sync, wallet)
      /\ Line(chain) /\ Sparse(wallet.chain)
  BY DEF ScanIInv, Met
<1>2. h \in DOMAIN wallet.chain /\ wallet.chain[h] = b[2]
  BY DEF AnchorOf
<1>3. h \in ConfirmedHeights(wallet)
  BY DEF ConfirmedHeights
<1>4. sync.tip \in Nat /\ l = WalkedChain(wallet.chain, sync.tip)
  BY <1>1 DEF HasLatest
<1>5. h \in Nat
  BY <1>1, <1>2 DEF Sparse
<1>6. TooFarAbove(wallet.chain, sync.tip) => h <= sync.tip
  BY <1>1, <1>3, <1>4, <1>5 DEF HasLatest, DropsAConfirmation
<1>7. /\ \A k \in DOMAIN l : l[k] = wallet.chain[k]
      /\ \A k \in DOMAIN wallet.chain : k <= sync.tip => k \in DOMAIN l
      /\ ~TooFarAbove(wallet.chain, sync.tip) => l = wallet.chain
      /\ Sparse(l)
  BY <1>1, <1>4, LocalIs
<1>8. h \in DOMAIN l /\ l[h] = b[2]
  BY <1>2, <1>6, <1>7
<1>9. DOMAIN m = 0..sync.tip /\ m[0] = 0 /\ HasKept(sync, m)
  BY <1>1 DEF HasMet
<1>10. b \in sync.steady /\ Kept(sync, b)
  <2>1. sync.lag = STUCK => Server = sync.fork.chain
    BY DEF Server
  <2> QED BY <2>1 DEF Stands, Kept
<1>11. CASE h <= sync.tip
  <2>1. h \in DOMAIN m
    BY <1>4, <1>5, <1>9, <1>11
  <2>2. m[h] = b[2]
    BY <1>9, <1>10, <2>1 DEF HasKept
  <2> QED BY <1>8, <1>11, <2>2 DEF Survives
<1>12. CASE ~(h <= sync.tip)
  <2>1. Tip(m) = sync.tip
    BY <1>4, <1>9, LineTip
  <2>2. h > Tip(m)
    BY <1>4, <1>5, <1>12, <2>1
  <2>3. IsBehind(l, m)
    <3>1. h <= Tip(l) /\ Tip(l) \in Nat
      BY <1>7, <1>8, TipIs
    <3> QED BY <1>4, <1>5, <2>1, <2>2, <3>1 DEF IsBehind
  <2>4. l = wallet.chain
    BY <1>6, <1>7, <1>12
  <2>5. sync.protocol = "esplora" => Ahead(l, m)
    BY <1>1, <1>3, <2>2, <2>4 DEF HasMet, RefusedBehind
  <2> QED BY <1>8, <2>3, <2>5 DEF Survives
<1> QED BY <1>11, <1>12

-----------------------------------------------------------------------------
(* The invariant, step by step.                                            *)

LEMMA ScanStart == Init => ScanIInv
<1> SUFFICES ASSUME Init PROVE ScanIInv
  OBVIOUS
<1>1. chain = [k \in {0, 1} |-> IF k = 1 THEN 0 ELSE Genesis[k]] /\ Genesis[0] = 0
  BY DEF Init, Put, Genesis
<1>2. DOMAIN chain = 0..1 /\ chain[0] = 0
  BY <1>1
<1>3. Line(chain)
  BY <1>2 DEF Line
<1>4. wallet.chain = Genesis /\ forks = {} /\ sync.at = "idle"
  BY DEF Init, NewWallet, Idle
<1>5. Sparse(Genesis)
  <2>1. DOMAIN Genesis = {0} /\ Genesis[0] = 0
    BY DEF Genesis
  <2>2. \A h \in DOMAIN Genesis : h <= 0
    BY <2>1
  <2> QED BY <2>1, <2>2 DEF Sparse
<1> QED BY <1>3, <1>4, <1>5 DEF ScanIInv, Met

\* A sync that ends, or that has not begun.
LEMMA ToIdle ==
  ASSUME ScanIInv, UNCHANGED <<chain, forks, wallet>>, sync' = Idle
  PROVE  ScanIInv'
<1>1. sync'.at = "idle"
  BY DEF Idle
<1> QED BY <1>1 DEF ScanIInv, Met

\* What a sync knows of the chain stays as it is once both chains met.
LEMMA Onward ==
  ASSUME ScanIInv, UNCHANGED <<chain, forks, wallet>>,
         sync.at \in Met, sync'.at \in Met, DOMAIN sync' = DOMAIN sync,
         sync'.phase \in Phases,
         \A f \in Fields \ {"at", "quiet", "phase"} : sync'[f] = sync[f]
  PROVE  ScanIInv'
<1>1. /\ sync'.protocol = sync.protocol /\ sync'.lag = sync.lag /\ sync'.fork = sync.fork
      /\ sync'.latest = sync.latest /\ sync'.tip = sync.tip /\ sync'.local = sync.local
      /\ sync'.meet = sync.meet /\ sync'.steady = sync.steady
  BY DEF Fields
<1>2. Asking(sync, chain) /\ HasLatest(sync, chain, wallet) /\ HasMet(sync, wallet)
  BY DEF ScanIInv, Met
<1>3. Asking(sync', chain)
  BY <1>1, <1>2 DEF Asking
<1>4. \A b : Kept(sync', b) <=> Kept(sync, b)
  BY <1>1 DEF Kept
<1>5. HasLatest(sync', chain, wallet)
  BY <1>1, <1>2, <1>4 DEF HasLatest, HasKept
<1>6. HasMet(sync', wallet)
  BY <1>1, <1>2, <1>4 DEF HasMet, HasKept
<1> QED BY <1>3, <1>5, <1>6 DEF ScanIInv

\* The chain moves under a sync: what stayed is less, and still held.
LEMMA Moves ==
  ASSUME ScanIInv, Moving, Line(chain'), Tip(chain) <= Tip(chain'),
         \A f \in forks' : Line(f.chain)
  PROVE  ScanIInv'
<1>1. wallet' = wallet /\ Line(chain)
  BY DEF Moving, ScanIInv
<1>2. Tip(chain) \in Nat /\ Tip(chain') \in Nat
  BY <1>1, LineIs
<1>3. CASE sync.at = "idle"
  BY <1>1, <1>3 DEF Moving, ScanIInv, Met
<1>4. CASE sync.at # "idle"
  <2>1. sync' = [sync EXCEPT !.quiet = FALSE, !.steady = @ \cap Blocks(chain')]
    BY <1>4 DEF Moving
  <2>2. Asking(sync, chain)
    BY <1>4 DEF ScanIInv
  <2>3. Fields \subseteq DOMAIN sync
    BY <2>2 DEF Asking
  <2>4. /\ sync'.at = sync.at /\ sync'.protocol = sync.protocol /\ sync'.lag = sync.lag
        /\ sync'.fork = sync.fork /\ sync'.latest = sync.latest /\ sync'.tip = sync.tip
        /\ sync'.local = sync.local /\ sync'.meet = sync.meet
        /\ sync'.steady = sync.steady \cap Blocks(chain') /\ DOMAIN sync' = DOMAIN sync
        /\ sync'.phase = sync.phase
    BY <2>1, <2>3 DEF Fields
  <2>5. Asking(sync', chain')
    <3>1. sync.lag # STUCK => sync.lag \in Nat /\ sync.lag <= Tip(chain')
      BY <1>2, <2>2 DEF Asking
    <3> QED BY <2>2, <2>4, <3>1 DEF Asking
  <2>6. \A b : Kept(sync', b) => Kept(sync, b)
    BY <2>4 DEF Kept
  <2>7. \A c : HasKept(sync, c) => HasKept(sync', c)
    BY <2>4, <2>6 DEF HasKept
  <2>8. HasLatest(sync, chain, wallet) => HasLatest(sync', chain', wallet)
    <3> SUFFICES ASSUME HasLatest(sync, chain, wallet) PROVE HasLatest(sync', chain', wallet)
      OBVIOUS
    <3>1. sync.lag # STUCK => sync.tip + sync.lag <= Tip(chain')
      BY <1>2, <2>2 DEF Asking, HasLatest
    <3> QED BY <2>4, <2>7, <3>1 DEF HasLatest
  <2>9. HasMet(sync, wallet) => HasMet(sync', wallet)
    BY <2>4, <2>7 DEF HasMet
  <2> QED BY <1>1, <1>4, <2>4, <2>5, <2>8, <2>9 DEF ScanIInv
<1> QED BY <1>3, <1>4

LEMMA BeginStep ==
  ASSUME ScanIInv, NEW p \in Protocols, NEW lag \in Lags \cup {STUCK},
         NEW fork \in forks \cup {Here}, NEW r \in Reaches, NEW s \in Heard,
         Begin(p, lag, fork, r, s)
  PROVE  ScanIInv'
<1>1. UNCHANGED <<chain, forks, wallet>>
  BY DEF Begin, world
<1>2. /\ lag <= Tip(chain) /\ (lag = STUCK <=> fork # Here)
      /\ sync' = PlanFor(p, lag, IF fork = Here THEN NONE ELSE fork, r, s)
  BY DEF Begin
<1>3. /\ sync'.at = "latest" /\ sync'.lag = lag /\ sync'.steady = Blocks(chain)
      /\ sync'.fork = (IF fork = Here THEN NONE ELSE fork) /\ Fields \subseteq DOMAIN sync'
      /\ sync'.phase \in Phases
  BY <1>2 DEF PlanFor, Fields, Phases
<1>4. lag # STUCK => lag \in Nat
  BY ScanAssumption
<1>5. lag = STUCK => Line(fork.chain)
  BY <1>2 DEF ScanIInv
<1>6. Asking(sync', chain)
  BY <1>2, <1>3, <1>4, <1>5 DEF Asking
<1> QED BY <1>1, <1>3, <1>6 DEF ScanIInv, Met

LEMMA ReadLatestStep == ScanIInv /\ ReadLatest => ScanIInv'
<1> SUFFICES ASSUME ScanIInv, ReadLatest PROVE ScanIInv'
  OBVIOUS
<1>1. UNCHANGED <<chain, forks, wallet>> /\ sync.at = "latest"
  BY DEF ReadLatest, world
<1>2. CASE sync' = Idle
  BY <1>1, <1>2, ToIdle
<1>3. CASE /\ ~(TooFarAbove(wallet.chain, Tip(Server)) /\ DropsAConfirmation(wallet, Tip(Server)))
           /\ sync' = [sync EXCEPT !.at = "walk", !.tip = Tip(Server),
                 !.latest = Restrict(Server, {h \in DOMAIN Server : h > Tip(Server) - LATEST}),
                 !.local = WalkedChain(wallet.chain, Tip(Server))]
  <2> DEFINE n == Tip(Server)
             S == {h \in DOMAIN Server : h > n - LATEST}
  <2>1. Asking(sync, chain) /\ Line(chain)
    BY <1>1 DEF ScanIInv
  <2>2. Line(Server) /\ HasKept(sync, Server)
    BY <2>1, ServerIs
  <2>3. n \in Nat /\ DOMAIN Server = 0..n /\ Server[0] = 0
    BY <2>2, LineIs
  <2>4. Fields \subseteq DOMAIN sync
    BY <2>1 DEF Asking
  <2>5. /\ sync'.at = "walk" /\ sync'.protocol = sync.protocol /\ sync'.lag = sync.lag
        /\ sync'.fork = sync.fork /\ sync'.latest = Restrict(Server, S) /\ sync'.tip = n
        /\ sync'.local = WalkedChain(wallet.chain, n) /\ sync'.steady = sync.steady
        /\ DOMAIN sync' = DOMAIN sync /\ sync'.phase = sync.phase
    BY <1>3, <2>4 DEF Fields
  <2>6. Asking(sync', chain)
    BY <2>1, <2>5 DEF Asking
  <2>7. DOMAIN sync'.latest = S /\ \A h \in S : sync'.latest[h] = Server[h]
    BY <2>5, RestrictIs
  <2>8. \A b : Kept(sync', b) <=> Kept(sync, b)
    BY <2>5 DEF Kept
  <2>9. HasKept(sync', sync'.latest)
    BY <2>2, <2>5, <2>7, <2>8 DEF HasKept
  <2>10. /\ sync.lag = STUCK => n = Tip(sync.fork.chain)
         /\ sync.lag # STUCK => n = Tip(chain) - sync.lag
    BY <2>1, ServerIs
  <2>11. sync.lag # STUCK => n + sync.lag <= Tip(chain)
    <3>1. Tip(chain) \in Nat
      BY <2>1, LineIs
    <3> QED BY <2>1, <2>10, <3>1 DEF Asking
  <2>12. 0 \in DOMAIN sync'.latest => sync'.latest[0] = 0
    BY <2>3, <2>7
  <2>13. DOMAIN sync'.latest = {h \in 0..n : h > n - LATEST}
    BY <2>3, <2>7
  <2> HIDE DEF n, S
  <2>14. HasLatest(sync', chain, wallet)
    <3>1. ~(TooFarAbove(wallet.chain, n) /\ DropsAConfirmation(wallet, n))
      BY <1>3 DEF n
    <3> QED BY <2>3, <2>5, <2>9, <2>10, <2>11, <2>12, <2>13, <3>1 DEF HasLatest
  <2> QED BY <1>1, <2>5, <2>6, <2>14 DEF ScanIInv, Met
<1> QED BY <1>2, <1>3 DEF ReadLatest, Fails

LEMMA WalkStep == ScanIInv /\ Walk => ScanIInv'
<1> SUFFICES ASSUME ScanIInv, Walk PROVE ScanIInv'
  OBVIOUS
<1>1. UNCHANGED <<chain, forks, wallet>> /\ sync.at = "walk"
  BY DEF Walk, world
<1>2. CASE sync' = Idle
  BY <1>1, <1>2, ToIdle
<1>3. CASE /\ ~(sync.protocol = "esplora" /\ RefusedBehind(wallet, sync.local, Walked))
           /\ sync' = [sync EXCEPT !.at = "plan", !.meet = Walked]
  <2> DEFINE U == UpTo(Server, sync.tip)
  <2>1. Asking(sync, chain) /\ HasLatest(sync, chain, wallet) /\ Line(chain)
    BY <1>1 DEF ScanIInv
  <2>2. Line(Server) /\ HasKept(sync, Server)
    BY <2>1, ServerIs
  <2>3. Tip(Server) \in Nat /\ DOMAIN Server = 0..Tip(Server) /\ Server[0] = 0
    BY <2>2, LineIs
  <2>4. Fields \subseteq DOMAIN sync
    BY <2>1 DEF Asking
  <2>5. /\ sync'.at = "plan" /\ sync'.protocol = sync.protocol /\ sync'.lag = sync.lag
        /\ sync'.fork = sync.fork /\ sync'.latest = sync.latest /\ sync'.tip = sync.tip
        /\ sync'.local = sync.local /\ sync'.steady = sync.steady
        /\ sync'.meet = Walked /\ DOMAIN sync' = DOMAIN sync /\ sync'.phase = sync.phase
    BY <1>3, <2>4 DEF Fields
  <2>6. Asking(sync', chain)
    BY <2>1, <2>5 DEF Asking
  <2>7. \A b : Kept(sync', b) <=> Kept(sync, b)
    BY <2>5 DEF Kept
  <2>8. HasLatest(sync', chain, wallet)
    BY <2>1, <2>5, <2>7 DEF HasLatest, HasKept
  <2>9. sync.tip \in Nat /\ sync.tip <= Tip(Server)
    <3>1. /\ sync.lag = STUCK => Tip(Server) = Tip(sync.fork.chain)
          /\ sync.lag # STUCK => Tip(Server) = Tip(chain) - sync.lag
      BY <2>1, ServerIs
    <3>2. Tip(chain) \in Nat
      BY <2>1, LineIs
    <3> QED BY <2>1, <2>3, <3>1, <3>2 DEF HasLatest, Asking
  <2>10. DOMAIN U = 0..sync.tip /\ \A h \in 0..sync.tip : U[h] = Server[h]
    <3>1. DOMAIN U = {k \in DOMAIN Server : k <= sync.tip}
      BY UpToIs
    <3>2. \A h \in DOMAIN Server : h <= sync.tip => U[h] = Server[h]
      BY UpToIs
    <3> HIDE DEF U
    <3> QED BY <2>3, <2>9, <3>1, <3>2
  <2> HIDE DEF U
  <2>11. DOMAIN sync.latest \subseteq 0..sync.tip /\ (0 \in DOMAIN sync.latest => sync.latest[0] = 0)
    BY <2>1 DEF HasLatest
  <2>12. Walked = On(sync.latest, U)
    BY DEF Walked, U
  <2>13. /\ DOMAIN Walked = DOMAIN sync.latest \cup DOMAIN U
         /\ \A h \in DOMAIN sync.latest : Walked[h] = sync.latest[h]
         /\ \A h \in DOMAIN U \ DOMAIN sync.latest : Walked[h] = U[h]
    <3>1. /\ DOMAIN On(sync.latest, U) = DOMAIN sync.latest \cup DOMAIN U
          /\ \A h \in DOMAIN sync.latest : On(sync.latest, U)[h] = sync.latest[h]
          /\ \A h \in DOMAIN U \ DOMAIN sync.latest : On(sync.latest, U)[h] = U[h]
      BY OnIs
    <3> QED BY <2>12, <3>1
  <2>14. DOMAIN Walked = 0..sync.tip
    BY <2>10, <2>11, <2>13
  <2>15. Walked[0] = 0
    BY <2>3, <2>9, <2>10, <2>11, <2>13
  <2>16. HasKept(sync, Walked)
    <3> SUFFICES ASSUME NEW b \in sync.steady, Kept(sync, b), b[1] \in DOMAIN Walked
                 PROVE  Walked[b[1]] = b[2]
      BY DEF HasKept
    <3>1. CASE b[1] \in DOMAIN sync.latest
      BY <2>1, <2>13, <3>1 DEF HasLatest, HasKept
    <3>2. CASE b[1] \notin DOMAIN sync.latest
      <4>1. b[1] \in 0..sync.tip /\ Walked[b[1]] = Server[b[1]]
        BY <2>10, <2>13, <2>14, <3>2
      <4>2. b[1] \in DOMAIN Server
        BY <2>3, <2>9, <4>1
      <4> QED BY <2>2, <4>1, <4>2 DEF HasKept
    <3> QED BY <3>1, <3>2
  <2>17. HasMet(sync', wallet)
    <3>1. HasKept(sync', Walked)
      BY <2>5, <2>7, <2>16 DEF HasKept
    <3> QED BY <1>3, <2>5, <2>14, <2>15, <3>1 DEF HasMet
  <2> QED BY <1>1, <2>5, <2>6, <2>8, <2>17 DEF ScanIInv
<1> QED BY <1>2, <1>3 DEF Walk, Fails

\* The scripts: what was read of them changes, never the chain met.
LEMMA StartBatchStep == ScanIInv /\ StartBatch => ScanIInv'
<1> SUFFICES ASSUME ScanIInv, StartBatch PROVE ScanIInv'
  OBVIOUS
<1>1. UNCHANGED <<chain, forks, wallet>> /\ sync.at = "plan"
  BY DEF StartBatch, world
<1>2. Fields \subseteq DOMAIN sync
  BY <1>1 DEF ScanIInv, Asking
<1>3. \/ sync' = [sync EXCEPT !.phase = "scan"]
      \/ sync' = [sync EXCEPT !.phase = "moved", !.todo = Moved(wallet, Agreed, sync.covered)]
      \/ sync' = [sync EXCEPT !.at = "prove"]
      \/ sync' = [sync EXCEPT !.at = "read", !.covered = @ \cup BatchOf]
  <2>1. sync.phase \in Phases
    BY <1>1 DEF ScanIInv, Asking
  <2> QED BY <2>1 DEF StartBatch, NextPhase, Phases
<1>4. sync'.at \in Met /\ DOMAIN sync' = DOMAIN sync
  BY <1>1, <1>2, <1>3 DEF Met, Fields
<1>5. sync'.phase \in Phases
  BY <1>1, <1>2, <1>3 DEF Fields, Phases, ScanIInv, Asking
<1>6. \A f \in Fields \ {"at", "quiet", "phase"} : sync'[f] = sync[f]
  BY <1>2, <1>3 DEF Fields
<1> QED BY <1>1, <1>4, <1>5, <1>6, Onward DEF Met

LEMMA TakeBatchStep == ScanIInv /\ TakeBatch => ScanIInv'
<1> SUFFICES ASSUME ScanIInv, TakeBatch PROVE ScanIInv'
  OBVIOUS
<1>1. UNCHANGED <<chain, forks, wallet>> /\ sync.at = "read"
  BY DEF TakeBatch, world
<1>2. Fields \subseteq DOMAIN sync
  BY <1>1 DEF ScanIInv, Asking
<1> DEFINE batch == DOMAIN reads
           fresh == UNION {FirstListed(s) : s \in batch}
           anchored == {e \in fresh : IsAnchored(e)}
           held == {e \in anchored : StillHolds(e.tx, e.block)}
           used == {s \in batch : IsUsed(reads[s])}
           scans == sync.phase = "scan"
           todo == sync.todo \ batch
           next == IF scans THEN sync.next + Cardinality(batch) ELSE sync.next
           taken == sync.taken \cup UNION {Found(reads[s]) : s \in batch}
           evicted == sync.evicted \cup UNION {Evicted(s, reads[s]) : s \in batch}
           seen == sync.seen \cup {e.tx : e \in fresh \ anchored}
           anchors == sync.anchors \cup {<<e.tx, e.block>> :
                                           e \in IF sync.protocol = "esplora" THEN held ELSE {}}
           claims == sync.claims \cup (anchored \ held)
           unused == CASE ~scans -> sync.unused
                       [] scans /\ used = {} -> sync.unused + Cardinality(batch)
                       [] scans /\ used # {} -> Cardinality({s \in batch : s > Max(used)})
           last == IF scans /\ used # {} THEN Max(used) ELSE sync.lastActive
<1>3. sync' = [sync EXCEPT !.at = "plan", !.todo = todo, !.next = next, !.taken = taken,
                 !.evicted = evicted, !.seen = seen, !.anchors = anchors,
                 !.claims = claims, !.unused = unused, !.lastActive = last]
  BY Zenon DEF TakeBatch
<1> HIDE DEF todo, next, taken, evicted, seen, anchors, claims, unused, last
<1>4. sync'.at = "plan" /\ DOMAIN sync' = DOMAIN sync /\ sync'.phase \in Phases
  BY <1>1, <1>2, <1>3 DEF Fields, ScanIInv, Asking
<1>5. \A f \in Fields \ {"at", "quiet", "phase"} : sync'[f] = sync[f]
  BY <1>2, <1>3 DEF Fields
<1> QED BY <1>1, <1>4, <1>5, Onward DEF Met

LEMMA ProveAllStep == ScanIInv /\ ProveAll => ScanIInv'
<1> SUFFICES ASSUME ScanIInv, ProveAll PROVE ScanIInv'
  OBVIOUS
<1>1. UNCHANGED <<chain, forks, wallet>> /\ sync.at = "prove"
  BY DEF ProveAll, world
<1>2. CASE sync' = Idle
  BY <1>1, <1>2, ToIdle
<1>3. ASSUME NEW anchors, NEW seen,
             sync' = [sync EXCEPT !.at = "chain", !.anchors = anchors, !.seen = seen]
      PROVE  ScanIInv'
  <2>1. Fields \subseteq DOMAIN sync
    BY <1>1 DEF ScanIInv, Asking
  <2>2. sync'.at = "chain" /\ DOMAIN sync' = DOMAIN sync /\ sync'.phase \in Phases
    BY <1>1, <1>3, <2>1 DEF Fields, ScanIInv, Asking
  <2>3. \A f \in Fields \ {"at", "quiet", "phase"} : sync'[f] = sync[f]
    BY <1>3, <2>1 DEF Fields
  <2> QED BY <1>1, <2>2, <2>3, Onward DEF Met
<1>4. sync' = Idle \/ \E anchors, seen :
        sync' = [sync EXCEPT !.at = "chain", !.anchors = anchors, !.seen = seen]
  BY DEF ProveAll, Fails
<1> QED BY <1>2, <1>3, <1>4

\* The chain applied is one of a wallet again.
LEMMA ApplyStep == ScanIInv /\ ApplySynced => ScanIInv'
<1> SUFFICES ASSUME ScanIInv, ApplySynced PROVE ScanIInv'
  OBVIOUS
<1>1. UNCHANGED <<chain, forks>> /\ sync.at = "chain"
  BY DEF ApplySynced, world
<1>2. sync' = [sync EXCEPT !.at = "done"] /\ wallet'.chain = Merge(sync.local, NewChain)
  BY DEF ApplySynced
<1>3. Sparse(wallet'.chain)
  BY <1>1, <1>2, NewChainIs, MergeIs
<1>4. Asking(sync, chain)
  BY <1>1 DEF ScanIInv
<1>5. Fields \subseteq DOMAIN sync
  BY <1>4 DEF Asking
<1>6. /\ sync'.at = "done" /\ sync'.lag = sync.lag /\ sync'.fork = sync.fork
      /\ sync'.steady = sync.steady /\ DOMAIN sync' = DOMAIN sync /\ sync'.phase = sync.phase
  BY <1>2, <1>5 DEF Fields
<1>7. Asking(sync', chain)
  BY <1>4, <1>6 DEF Asking
<1> QED BY <1>1, <1>3, <1>6, <1>7 DEF ScanIInv, Met

LEMMA MinedStep ==
  ASSUME ScanIInv, NEW S, Mined(S)
  PROVE  ScanIInv'
<1>1. Line(chain) /\ forks' = forks /\ Moving /\ chain' = Put(chain, Tip(chain) + 1, Cardinality(forks))
  BY DEF Mined, ScanIInv
<1>2. Tip(chain) \in Nat /\ DOMAIN chain = 0..Tip(chain) /\ chain[0] = 0
  BY <1>1, LineIs
<1>3. DOMAIN chain' = 0..(Tip(chain) + 1) /\ chain'[0] = 0
  BY <1>1, <1>2 DEF Put
<1>4. Line(chain')
  BY <1>2, <1>3 DEF Line
<1>5. Tip(chain') = Tip(chain) + 1
  BY <1>2, <1>3, LineTip
<1> QED BY <1>1, <1>2, <1>4, <1>5, Moves DEF ScanIInv

LEMMA ReorganisedStep ==
  ASSUME ScanIInv, NEW h, NEW k, NEW S, Reorganised(h, k, S)
  PROVE  ScanIInv'
<1>1. /\ Line(chain) /\ forks' = forks \cup {Here} /\ Moving /\ h \in DOMAIN chain \ {0}
      /\ chain' = [i \in 0..(Tip(chain) + 1) |-> IF i < h THEN chain[i] ELSE Cardinality(forks) + 1]
  BY DEF Reorganised, ScanIInv
<1>2. Tip(chain) \in Nat /\ DOMAIN chain = 0..Tip(chain) /\ chain[0] = 0
  BY <1>1, LineIs
<1>3. DOMAIN chain' = 0..(Tip(chain) + 1) /\ chain'[0] = 0
  BY <1>1, <1>2
<1>4. Line(chain')
  BY <1>2, <1>3 DEF Line
<1>5. Tip(chain') = Tip(chain) + 1
  BY <1>2, <1>3, LineTip
<1>6. \A f \in forks' : Line(f.chain)
  BY <1>1 DEF ScanIInv, Here
<1> QED BY <1>1, <1>2, <1>4, <1>5, <1>6, Moves

LEMMA ScanStep == ScanIInv /\ [Next]_vars => ScanIInv'
<1> SUFFICES ASSUME ScanIInv, [Next]_vars PROVE ScanIInv'
  OBVIOUS
<1>1. CASE UNCHANGED <<chain, forks, wallet, sync>>
  BY <1>1 DEF ScanIInv
<1>2. CASE \E t \in Txs : Arrives(t) \/ Leaves(t)
  <2>1. UNCHANGED <<chain, forks>> /\ Moving
    BY <1>2 DEF Arrives, Leaves
  <2>2. Tip(chain) \in Nat
    BY LineIs DEF ScanIInv
  <2> QED BY <2>1, <2>2, Moves DEF ScanIInv
<1>3. CASE Finish
  BY <1>3, ToIdle DEF Finish, world
<1>4. CASE \E s \in DOMAIN reads : ScriptStats(s) \/ ScriptMempool(s) \/ ScriptPage(s)
  BY <1>1, <1>4 DEF ScriptStats, ScriptMempool, ScriptPage, world
<1>5. CASE ScriptHistories
  BY <1>1, <1>5 DEF ScriptHistories, world
<1>6. CASE UNCHANGED vars
  BY <1>1, <1>6 DEF vars
<1> QED BY <1>2, <1>3, <1>4, <1>5, <1>6, BeginStep, ReadLatestStep, WalkStep, StartBatchStep,
           TakeBatchStep, ProveAllStep, ApplyStep, MinedStep, ReorganisedStep DEF Next

\* A sync takes back no confirmation on mainnet whose block stayed on the best
\* chain, whichever server it asked, for any chain, wallet and scripts, and
\* however far the chain moves and reorganises between its requests.
THEOREM KeepsHolds == Spec => KeepsConfirmations
<1>1. ScanIInv /\ [Next]_vars =>
        [(sync.at = "chain" /\ Mainnet) =>
           \A t \in Txs : (\E b \in AnchorOf(wallet, t) : Stands(b)) =>
             IsConfirmed(wallet', t)]_wallet
  <2> SUFFICES ASSUME ScanIInv, Next, wallet' # wallet, sync.at = "chain", Mainnet,
                      NEW t \in Txs, NEW b \in AnchorOf(wallet, t), Stands(b)
               PROVE  IsConfirmed(wallet', t)
    BY DEF vars
  <2>1. ApplySynced
    BY DEF Next, Begin, ReadLatest, Walk, StartBatch, TakeBatch, ScriptHistories, ScriptStats,
           ScriptMempool, ScriptPage, ProveAll, Finish, Arrives, Leaves, Mined, Reorganised, Moving
  <2> DEFINE h == b[1]
  <2>2. h \in DOMAIN sync.local /\ sync.local[h] = b[2] /\ Survives(h)
    BY StandingSurvives
  <2>3. Sparse(sync.local) /\ Sparse(NewChain) /\ h \in DOMAIN NewChain /\ NewChain[h] = b[2]
    BY <2>2, NewChainIs
  <2>4. wallet'.chain = Merge(sync.local, NewChain) /\ wallet.anchors[t] \subseteq wallet'.anchors[t]
    BY <2>1 DEF ApplySynced
  <2>5. h \in DOMAIN wallet'.chain /\ wallet'.chain[h] = b[2]
    BY <2>3, <2>4, MergeIs
  <2>6. b \in wallet'.anchors[t]
    BY <2>4 DEF AnchorOf
  <2> QED BY <2>5, <2>6 DEF IsConfirmed, AnchorOf
<1> QED BY <1>1, ScanStart, ScanStep, PTL DEF Spec, KeepsConfirmations
=============================================================================
