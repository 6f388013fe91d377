---------------------------- MODULE MCChainScan -----------------------------
(***************************************************************************)
(* Bounded instances of ChainScan.                                         *)
(***************************************************************************)
EXTENDS ChainScan

\* A transaction of the first script, and one of the first two.
MCTouches == <<{1}, {1, 2}>>
=============================================================================
