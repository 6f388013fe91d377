---------------------------- MODULE MCLiveRelay -----------------------------
(* A small instance of LiveRelay: each scenario has one part of what goes  *)
(* on around the relay.                                                    *)
EXTENDS LiveRelay

CONSTANTS w1, s1, s2

Pushed(scripts) == Ask("Activity", scripts)
Proven(scripts) == [Ask("Activity", scripts) EXCEPT !.proven = TRUE]
Quiet ==
  [wallets |-> {w1}, heard |-> {Pushed({})}, looks |-> {}, halts |-> {},
   savesFail |-> FALSE, retries |-> 0, news |-> 0, configs |-> 0]

\* Everything a watch may say, while what vanished is looked for again.
Asks ==
  [Quiet EXCEPT !.heard = {Pushed({s1}), Proven({s2}), Ask("Reconnected", {})},
                !.looks = {"recheck"}]
\* News of the app's syncs and the watch's, and a host that leaves.
News ==
  [Quiet EXCEPT !.looks = {"complete"}, !.halts = {"stopped", "gone"},
                !.savesFail = TRUE, !.retries = 1, !.news = 2]
Left == [Quiet EXCEPT !.news = 1, !.configs = 1]
MCScenarios == {Asks, News}
LeftAlone == {Left}
=============================================================================
