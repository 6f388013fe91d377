---------------------------- MODULE ServerOrder -----------------------------
(***************************************************************************)
(* Which servers a call asks, and in which order: the endpoints of a       *)
(* backend (chain/mod.rs), the server of the live watch before them, the   *)
(* servers put last for an outage after them (manager/sync.rs).            *)
(*                                                                         *)
(* A server is a record protocol, operator, name. A configuration is the   *)
(* sequence of the one server chosen or typed in, empty when automatic. An *)
(* optional value is a set of at most one element.                         *)
(***************************************************************************)
EXTENDS Integers, Sequences, SequencesExt, FiniteSets, FiniteSetsExt

CONSTANTS Rotation,          \* the web APIs of the automatic backend
          Catalogue,         \* the public Electrum servers
          RELEGATION_FIRST, RELEGATION_MAX

ASSUME RelegationAssumption ==
  /\ RELEGATION_FIRST \in Nat \ {0} /\ RELEGATION_MAX \in Nat
  /\ Rotation \in Seq(ToSet(Rotation)) /\ Catalogue \in Seq(ToSet(Catalogue))

\* The elements of a list that are in a set, in their order.
Only(list, some) ==
  LET upTo[i \in 0..Len(list)] ==
        IF i = 0 THEN << >>
        ELSE IF list[i] \in some THEN Append(upTo[i - 1], list[i]) ELSE upTo[i - 1]
  IN  upTo[Len(list)]

Endpoints(config) == IF config = << >> THEN Rotation ELSE config

\* The servers a watch may talk to: of the automatic backend, the Electrum
\* servers of the first operator of the rotation that runs one, then the
\* rotation.
ServersFor(config) ==
  LET run == {Rotation[i].operator : i \in DOMAIN Rotation}
      pushing == Only(Catalogue, {e \in ToSet(Catalogue) : e.operator \in run})
  IN  IF config # << >> THEN config
      ELSE Only(pushing, {e \in ToSet(pushing) : e.operator = pushing[1].operator})
             \o Rotation

\* The server of the watch, when the watch is on the network of the call
\* and the backend names the server.
LiveEndpoint(config, network, live) ==
  {l.server : l \in {l \in live : /\ l.network = network
                                  /\ l.server \in ToSet(ServersFor(config))}}

Without(endpoints, e) == Only(endpoints, ToSet(endpoints) \ {e})
First(endpoints, some) ==
  IF some = {} THEN endpoints
  ELSE LET e == CHOOSE e \in some : TRUE IN <<e>> \o Without(endpoints, e)

\* A sync: the server of the watch, the one that answered the last sync,
\* the rest.
SyncOrder(endpoints, answered, first) ==
  First(First(endpoints, answered \cap ToSet(endpoints)), first)

\* What is sent: the server of the watch and the web API of its operator,
\* the web API first for a preview.
SendOrder(endpoints, live, purpose) ==
  IF live = {} THEN endpoints
  ELSE LET server == CHOOSE e \in live : TRUE
           rest == Without(endpoints, server)
           web == Only(rest, {e \in ToSet(rest) : /\ e.protocol = "esplora"
                                                   /\ e.operator = server.operator})
           others == IF web = << >> THEN rest ELSE Without(rest, web[1])
       IN  (CASE web = << >> -> <<server>>
              [] web # << >> /\ purpose = "preview" -> <<web[1], server>>
              [] web # << >> /\ purpose = "broadcast" -> <<server, web[1]>>)
             \o others

SaturatingPow(n) == IF n < 32 THEN 2 ^ n ELSE 2 ^ 32 - 1
RelegationFor(before) ==
  Min({RELEGATION_FIRST * SaturatingPow(before), RELEGATION_MAX})

IsRelegated(relegated, e, now) ==
  e \in DOMAIN relegated /\ relegated[e].until > now

MutStaysPut(relegated, first, e, now) == ~IsRelegated(relegated, e, now)

StaysPut(relegated, first, e, now) ==
  e \in first \/ ~IsRelegated(relegated, e, now)

\* The servers relegated now after the others, but for the watch's own.
Order(relegated, endpoints, first, now) ==
  LET kept == {e \in ToSet(endpoints) : StaysPut(relegated, first, e, now)}
  IN  Only(endpoints, kept) \o Only(endpoints, ToSet(endpoints) \ kept)

\* Another sync that met the same outage relegated it.
Spared(relegated, e, now) == relegated[e].until > now

\* A server answered after others were down: those are relegated, unless
\* one already is, and it is no longer.
Answered(relegated, answered, failed, now) ==
  LET kept == {e \in DOMAIN relegated :
                 relegated[e].until + RELEGATION_MAX > now} \ {answered}
      count(e) == IF e \in kept THEN relegated[e].count ELSE 0
      spared(e) == e \in kept /\ (e \notin failed \/ Spared(relegated, e, now))
  IN  [e \in kept \cup failed |->
         IF spared(e) THEN relegated[e]
         ELSE [until |-> now + RelegationFor(count(e)), count |-> count(e) + 1]]
=============================================================================
