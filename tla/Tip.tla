-------------------------------- MODULE Tip ---------------------------------
(***************************************************************************)
(* What a confirmation above the tip a server gave just before is worth    *)
(* (chain/proof.rs), wherever one is looked at.                            *)
(***************************************************************************)
LOCAL INSTANCE Integers

CONSTANT ABOVE_THE_TIP  \* blocks that may have come in since the tip was read

ASSUME TipAssumption == ABOVE_THE_TIP \in Nat

AboveTheTip(height, tip) ==
  CASE height > tip + ABOVE_THE_TIP -> "false"
    [] height > tip /\ height <= tip + ABOVE_THE_TIP -> "unsure"
    [] OTHER -> "below"
=============================================================================
