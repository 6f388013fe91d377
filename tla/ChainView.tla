----------------------------- MODULE ChainView ------------------------------
(***************************************************************************)
(* What a descriptor wallet holds of the chain, and how a server's chain   *)
(* is met with it (chain/mod.rs, chain/esplora/sync.rs,                    *)
(* chain/electrum/sync.rs, wallet/views.rs).                               *)
(*                                                                         *)
(* A chain is a function from heights to the version of the block there;   *)
(* a wallet's is sparse, a server's has every height from 0, the genesis   *)
(* block, to its tip.  A block is a pair of a height and a version.  A     *)
(* wallet is a record: its chain, the blocks each transaction is anchored  *)
(* in, the last word of a server on it ("none", "seen", "evicted"), and    *)
(* how many scripts it revealed.                                           *)
(***************************************************************************)
EXTENDS Integers, Sequences, FiniteSets, FiniteSetsExt, Functions

CONSTANTS
  Mainnet,     \* whether the work of a block proves it
  Txs,         \* the transactions of the wallet
  Touches,     \* the scripts each of them pays or spends from: indices
  TIP_LAG_MAX  \* how far below the wallet's tip a server is one that lags

ASSUME ViewAssumption ==
  /\ Mainnet \in BOOLEAN /\ IsFiniteSet(Txs) /\ TIP_LAG_MAX \in Nat
  /\ Touches \in [Txs -> SUBSET (Nat \ {0})]

Tip(c) == Max(DOMAIN c)
UpTo(c, h) == Restrict(c, {k \in DOMAIN c : k <= h})
Blocks(c) == {<<h, c[h]>> : h \in DOMAIN c}
Put(c, h, v) == [k \in DOMAIN c \cup {h} |-> IF k = h THEN v ELSE c[k]]

\* Two chains on one another, the first one's blocks where both have one.
On(top, below) == [h \in DOMAIN top \cup DOMAIN below |->
                     IF h \in DOMAIN top THEN top[h] ELSE below[h]]

-----------------------------------------------------------------------------
(* The engine's view: external, as the code uses it.                       *)

AnchorOf(w, t) == {b \in w.anchors[t] : b[1] \in DOMAIN w.chain
                                        /\ w.chain[b[1]] = b[2]}
IsConfirmed(w, t) == AnchorOf(w, t) # {}
\* A transaction whose block left the chain is unconfirmed, and stays
\* whatever a server says of it.
IsShown(w, t) == w.anchors[t] # {} \/ w.word[t] = "seen"

\* The chain of an update merged: the blocks above the lowest one it
\* replaces go.
Merge(c, update) ==
  LET conflicts == {h \in DOMAIN c \cap DOMAIN update : c[h] # update[h]}
  IN  IF conflicts = {} THEN On(update, c)
      ELSE On(update, UpTo(c, Min(conflicts) - 1))

-----------------------------------------------------------------------------
(* What the wallet holds, handed to a sync.                                *)

Expected(w, s) == {t \in Txs : s \in Touches[t] /\ IsShown(w, t)}
ConfirmedOn(w, s) == {t \in Expected(w, s) : IsConfirmed(w, t)}
CountsOf(w, s) ==
  [chain |-> Cardinality(ConfirmedOn(w, s)),
   mempool |-> Cardinality(Expected(w, s) \ ConfirmedOn(w, s))]
ConfirmedHeights(w) == {b[1] : b \in UNION {AnchorOf(w, t) : t \in Txs}}

\* The scripts not read with a confirmation in a block the server no
\* longer has.
MovedOn(w, s, agreed) ==
  \E t \in ConfirmedOn(w, s) : \E b \in AnchorOf(w, t) : b[1] > agreed
Moved(w, agreed, read) ==
  {s \in (1..w.revealed) \ read : MovedOn(w, s, agreed)}

-----------------------------------------------------------------------------
(* The server's chain met with the wallet's.                               *)

\* Blocks of the wallet far above a server's tip are dropped, but for one
\* that holds a confirmation, on mainnet.
TooFarAbove(c, tip) == Tip(c) > tip + TIP_LAG_MAX
DropsAConfirmation(w, tip) ==
  Mainnet /\ \E h \in ConfirmedHeights(w) : h > tip
WalkedChain(c, tip) == IF TooFarAbove(c, tip) THEN UpTo(c, tip) ELSE c

\* The heights both have, the last block they agree on, and the blocks of
\* the wallet the server replaces.
Common(c, server) == {h \in DOMAIN c : h <= Tip(server)}
Agreement(c, server) == Max({h \in Common(c, server) : c[h] = server[h]})
Replaced(c, server) == {h \in Common(c, server) : h > Agreement(c, server)}
IsBehind(c, server) == Tip(server) < Tip(c)

\* An Esplora server behind the wallet keeps its chain only when they
\* agree on every block both have.
Ahead(c, server) == IsBehind(c, server) /\ Replaced(c, server) = {}
\* A mutant: no server refused for being behind.
MutRefusedBehind(w, c, server) == FALSE
RefusedBehind(w, c, server) ==
  /\ c = w.chain /\ ~Ahead(c, server)
  /\ \E h \in ConfirmedHeights(w) : h > Tip(server)

\* A confirmation replaced below the latest blocks is replaced on proof.
ToProve(w, c, server, start) ==
  {h \in Replaced(c, server) : h < start /\ h \in ConfirmedHeights(w)}

\* The chain of an update: the wallet's up to the agreement, or whole when
\* the server is behind, then the server's blocks where it replaces one,
\* where a transaction confirmed, and its latest ones.
EsploraBase(c, server) ==
  IF Ahead(c, server) THEN c
  ELSE On(Restrict(server, Replaced(c, server)),
          UpTo(c, Agreement(c, server)))
EsploraChain(base, latest, server, heights) ==
  On(base, On(latest, Restrict(server, {h \in heights : h <= Tip(latest)})))
ElectrumBase(c, latest, server) ==
  IF IsBehind(c, server) THEN c
  ELSE On(UpTo(c, Agreement(c, server)),
          On(Restrict(server, Replaced(c, server)),
             Restrict(latest, {h \in DOMAIN latest : h > Agreement(c, server)})))
ElectrumChain(base, hashes, anchors) ==
  LET heights == {b[1] : b \in anchors} \ DOMAIN base
      hash(h) == IF h \in DOMAIN hashes THEN hashes[h]
                 ELSE (CHOOSE b \in anchors : b[1] = h)[2]
  IN  On(base, [h \in heights \cap (0..Tip(base)) |-> hash(h)])
=============================================================================
