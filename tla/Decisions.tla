----------------------------- MODULE Decisions ------------------------------
(***************************************************************************)
(* What the vault promises of the decisions of the user: each one is kept  *)
(* from the moment it is accepted, and only a power loss may take back the *)
(* ones the file system had not yet made firm.                             *)
(***************************************************************************)
CONSTANT Decision   \* the decisions that may be made

VARIABLES
  kept,             \* the decisions a reader of the vault finds
  firm              \* the ones a power loss cannot take back

vars == <<kept, firm>>

Init == kept = {} /\ firm = {}

Accept(d) ==
  /\ kept' = kept \cup {d}
  /\ firm' \in {firm, kept'}

Settle ==
  /\ firm' = kept
  /\ UNCHANGED kept

PowerLoss ==
  /\ kept' \in SUBSET kept
  /\ firm \subseteq kept'
  /\ firm' = kept'

Next ==
  \/ \E d \in Decision : Accept(d)
  \/ Settle
  \/ PowerLoss

Spec == Init /\ [][Next]_vars
=============================================================================
