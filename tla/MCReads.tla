------------------------------ MODULE MCReads -------------------------------
(***************************************************************************)
(* What a sync reads of a server, one part at a time: the history of a     *)
(* wallet of one address, the scripts of a wallet of descriptors and its   *)
(* chain, the proofs of confirmations.                                     *)
(***************************************************************************)
EXTENDS AddressWatch, ChainScan, Proofs, TLC

VARIABLE part

\* An Electrum server alone, or one of each protocol.
MCServers == {{"electrum"}, {"electrum", "esplora"}}

\* A transaction of the first script, and one of the first two.
MCTouches == <<{1}, {1, 2}>>

\* Periods of two blocks, the first easier than the others.
MCTargets == (0 :> 8) @@ (1 :> 2) @@ (2 :> 1)
MCEnds == (0 :> 1) @@ (1 :> 3)
MCChainBelow == [electrum |-> 5, esplora |-> 2]

\* Transactions; one of 64 bytes reads as the two hashes it is made of.  The
\* block of height 1 holds three, so that its last row is odd.
A == <<1>>
B == <<2>>
Odd == <<<<7>>, <<8>>>>
MCSixtyFour == {Odd}
MCTrueTxs == [h \in 0..5 |-> IF h = 1 THEN <<A, B, Odd>> ELSE <<A>>]
MkHeader(id, prev, root, target, worked) ==
  [id |-> id, prev |-> prev, root |-> root, target |-> target, worked |-> worked]
MCTrueChain ==
  [h \in 0..5 |-> MkHeader(h, h - 1, IF h = 1 THEN <<<<A, B>>, <<Odd, Odd>>>> ELSE A,
                           MCTargets[h \div 2], TRUE)]
\* Headers of easy targets a server can work, and ones it cannot.
MCForged ==
  {MkHeader(100 + 10 * p + t, p, B, t, t > 1) : p \in {0, 2}, t \in {8, 2, 1}}

\* Branches to those transactions, to the copy an odd row makes of its last
\* node, to half of the transaction of 64 bytes.
Branch(leaf, pos, nodes) == [leaf |-> leaf, pos |-> pos, nodes |-> nodes]
MCBranches ==
  {Branch(A, 0, << >>), Branch(B, 0, << >>), Branch(A, 0, <<B, <<Odd, Odd>>>>),
   Branch(Odd, 2, <<Odd, <<A, B>>>>), Branch(Odd, 3, <<Odd, <<A, B>>>>),
   Branch(<<7>>, 4, <<<<8>>, Odd, <<A, B>>>>)}
MCClaims ==
  {[height |-> h, header |-> header, leaf |-> b.leaf, tip |-> t, now |-> 9,
    again |-> MCTrueChain[h], protocol |-> p,
    branch |-> [height |-> k, pos |-> b.pos, nodes |-> b.nodes]] :
     h \in {1, 2, 3, 5}, k \in {1, 2, 3, 5}, b \in MCBranches,
     header \in Range(MCTrueChain) \cup MCForged, t \in {1, 5},
     p \in {"electrum", "esplora"}}

MCInit ==
  /\ part \in {"address", "scripts", "proofs"}
  /\ AddressInit /\ Init /\ ProofsInit
  /\ part # "address" => kinds = {"electrum"}
MCNext ==
  \/ part = "address" /\ AddressNext /\ UNCHANGED <<part, vars, proofVars>>
  \/ part = "scripts" /\ Next /\ UNCHANGED <<part, addressVars, proofVars>>
  \/ part = "proofs" /\ ProofsNext /\ UNCHANGED <<part, addressVars, vars>>
MCSpec == MCInit /\ [][MCNext]_<<part, addressVars, vars, proofVars>>
=============================================================================
