---------------------------- MODULE MCSyncTurns -----------------------------
(***************************************************************************)
(* Calls that let go of the state between their steps, one part at a time: *)
(* the syncs of a wallet, and the checks for a release, first their        *)
(* schedule over two days, then what they find.                            *)
(***************************************************************************)
EXTENDS SyncTurns, Updates, TLC

VARIABLE part

\* What is found within the first two days: a release and a later one, a tag
\* that reads as no version.
Version(number) == [number |-> number, pre |-> Ranks]
TwoReleases == {Version(2), Version(3)}
Named(versions) ==
  [status |-> "ok", whole |-> TRUE, tag |-> {[shaped |-> TRUE, reads |-> versions]}]
Gone == [status |-> "gone", whole |-> FALSE, tag |-> {}]
MCResponses == {Gone, Named({})} \cup {Named({v}) : v \in TwoReleases}

\* The schedule alone, over twice the time: the API is gone.
Schedule ==
  INSTANCE Updates
    WITH Versions <- {}, Responses <- {Gone}, MaxElapsed <- 2 * MaxElapsed, MaxSent <- 2 * MaxSent

\* Whoever calls is one of two, the same two in every part.
Symmetry == Permutations(Callers)

MCInit ==
  /\ part \in {"syncs", "asks", "answers"}
  /\ Init /\ UpdatesInit
  /\ part = "syncs" => deviceClock = "right"

Still(p) == part = p /\ UNCHANGED part
MCNext ==
  \/ Still("syncs") /\ Next /\ UNCHANGED updateVars
  \/ Still("asks") /\ Schedule!UpdatesNext /\ UNCHANGED vars
  \/ Still("answers") /\ UpdatesNext /\ UNCHANGED vars

MCSpec == MCInit /\ [][MCNext]_<<part, vars, updateVars>>
=============================================================================
