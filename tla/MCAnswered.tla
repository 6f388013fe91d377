---------------------------- MODULE MCAnswered ------------------------------
(* Who waits, for a turn of a wallet's syncs or for the relay's, under the *)
(* fairness of each: one or the other runs.                                *)
EXTENDS SyncTurns, LiveRelay

CONSTANTS w1, w2

VARIABLE part

\* Two wallets for one permit, and a change of configuration.
MCScenarios ==
  {[wallets |-> {w1, w2}, heard |-> {Ask("Reconnected", {})}, looks |-> {},
    halts |-> {}, savesFail |-> FALSE, retries |-> 0, news |-> 0,
    configs |-> 1]}

MCInit == part \in {"turns", "relay"} /\ Init /\ RelayInit
MCNext ==
  \/ part = "turns" /\ Next /\ UNCHANGED <<part, allRelayVars>>
  \/ part = "relay" /\ RelayNext /\ UNCHANGED <<part, vars>>
MCSpec == MCInit /\ [][MCNext]_<<part, vars, allRelayVars>> /\ Fairness /\ RelayFairness
=============================================================================
