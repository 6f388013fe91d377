------------------------------- MODULE Onion --------------------------------
(***************************************************************************)
(* Onion hosts: the Tor a request goes through (src/src/chain/tor.rs), the *)
(* embedded client started once and shared (tor/embedded.rs), the SOCKS5   *)
(* sessions of its listener (tor/socks.rs), and the two attempts a stream  *)
(* to an onion service makes (tor/attempts.rs), whose routes are shared by *)
(* every stream to the service.                                            *)
(*                                                                         *)
(* One onion service. A client of arti is a number: isolated() makes the   *)
(* next one. Whether a client ever reaches the service is the network's.   *)
(***************************************************************************)
LOCAL INSTANCE Naturals

CONSTANTS
    Streams,             \* the tasks that reach the service
    MaxClients,          \* bound: clients made
    TrustLoopback,       \* TRUST_LOOPBACK_SOCKS
    EmbeddedAvailable,   \* EMBEDDED_AVAILABLE
    Sessions             \* what clients of the SOCKS listener send

VARIABLES
    cell,        \* CLIENT and PROGRESS: who starts the embedded client, and what is shown
    lastRoute,   \* LAST_ROUTE, {} before any
    route,       \* the Route of the service
    made,        \* clients made so far, the bootstrapped one being 0
    streams,     \* what each stream is at
    waited       \* clients streams gave up on and none has settled on since

onionVars == <<cell, lastRoute, route, made, streams, waited>>

Modes == {"auto", "system", "embedded"}
Quiet == [at |-> "idle", first |-> 0, second |-> {}, failed |-> {}, used |-> {}]

-----------------------------------------------------------------------------
(* The route *)

\* resolve_with: the ways a request may take, given whether the system
\* proxy answers the probe. "embedded" asks the embedded client.
ResolveWith(mode, probed, trust, available) ==
    CASE mode = "system" -> IF probed THEN "system" ELSE "refused"
      [] mode = "auto" /\ trust /\ probed -> "system"
      [] OTHER -> IF available THEN "embedded" ELSE "refused"

\* handshake: what a session on the listener comes to.
Handshake(s) ==
    CASE s.version # 5 \/ ~s.inTime -> "dropped"
      [] "user_pass" \notin s.methods -> "no_methods"
      [] s.authVersion # 1 \/ ~s.credentials -> "auth_failed"
      [] s.requestVersion # 5 -> "general_failure"
      [] s.address \notin {"ipv4", "domain", "ipv6"} -> "address_type"
      [] s.command # "connect" -> "command"
      [] OTHER -> "connect"

OnionInit ==
    /\ cell = [is |-> "empty", starter |-> {}, running |-> FALSE, bootstrapped |-> FALSE, error |-> FALSE]
    /\ lastRoute = {}
    /\ route = [current |-> 0, next |-> {}, untried |-> FALSE]
    /\ made = 0
    /\ streams = [s \in Streams |-> Quiet]
    /\ waited = {}

-----------------------------------------------------------------------------
(* resolve, resolve_running and the start of the embedded client *)

Resolve(s, mode, probed) ==
    /\ streams[s].at = "idle"
    /\ LET via == ResolveWith(mode, probed, TrustLoopback, EmbeddedAvailable)
       IN /\ streams' = [streams EXCEPT ![s].at = IF via = "embedded" THEN "starting" ELSE "idle"]
          /\ lastRoute' = IF via = "system" THEN {"system"} ELSE lastRoute
    /\ UNCHANGED <<cell, route, made, waited>>

\* resolve_running: the embedded client only when it runs already.
ResolveRunning(s, mode, probed) ==
    /\ streams[s].at = "idle"
    /\ LET via == ResolveWith(mode, probed, TrustLoopback, EmbeddedAvailable)
           up == via = "embedded" /\ cell.is = "running"
       IN /\ streams' = [streams EXCEPT ![s].at = IF up THEN "proxied" ELSE "idle"]
          /\ lastRoute' = CASE via = "system" -> {"system"} [] up -> {"embedded"} [] OTHER -> lastRoute
    /\ UNCHANGED <<cell, route, made, waited>>

\* get_or_try_init: the first caller starts the client, the others wait.
StartEmbedded(s) ==
    /\ streams[s].at = "starting" /\ cell.is = "empty"
    /\ cell' = [is |-> "starting", starter |-> {s}, running |-> TRUE, bootstrapped |-> FALSE, error |-> FALSE]
    /\ UNCHANGED <<lastRoute, route, made, streams, waited>>

\* start: the bootstrap ends, in time or not. Left empty by a failure: the
\* next caller starts it again.
Bootstrap(s, reached) ==
    /\ cell.is = "starting" /\ cell.starter = {s}
    /\ cell' = IF reached THEN [cell EXCEPT !.is = "running", !.starter = {}, !.bootstrapped = TRUE]
               ELSE [cell EXCEPT !.is = "empty", !.starter = {}, !.running = FALSE, !.error = TRUE]
    /\ streams' = IF reached THEN streams ELSE [streams EXCEPT ![s] = Quiet]
    /\ UNCHANGED <<lastRoute, route, made, waited>>

\* A caller that is dropped takes its start with it.
DropStart(s) ==
    /\ streams[s].at = "starting"
    /\ cell' = IF cell.starter = {s} THEN [cell EXCEPT !.is = "empty", !.starter = {}] ELSE cell
    /\ streams' = [streams EXCEPT ![s] = Quiet]
    /\ UNCHANGED <<lastRoute, route, made, waited>>

Access(s) ==
    /\ streams[s].at = "starting" /\ cell.is = "running"
    /\ streams' = [streams EXCEPT ![s].at = "proxied"]
    /\ lastRoute' = {"embedded"}
    /\ UNCHANGED <<cell, route, made, waited>>

-----------------------------------------------------------------------------
(* Streams of the listener to the service *)

\* Routes::first, once the session's handshake asks to connect.
OpenSession(s, session) ==
    /\ streams[s].at = "proxied"
    /\ streams' = [streams EXCEPT ![s] =
                     IF Handshake(session) = "connect"
                     THEN [Quiet EXCEPT !.at = "first", !.first = route.current] ELSE Quiet]
    /\ UNCHANGED <<cell, lastRoute, route, made, waited>>

\* two: the first attempt ends within TRY; its failure is returned as it is.
EndsAlone(s) ==
    /\ streams[s].at = "first"
    /\ streams' = [streams EXCEPT ![s] = Quiet]
    /\ UNCHANGED <<cell, lastRoute, route, made, waited>>

\* Past TRY, a second attempt beside it: Routes::second.
Second(s) ==
    /\ streams[s].at = "first"
    /\ LET fresh == route.current = streams[s].first /\ route.next = {}
           client == IF route.current # streams[s].first THEN {route.current}
                     ELSE IF fresh THEN {made + 1} ELSE route.next
       IN /\ fresh => made < MaxClients
          /\ made' = IF fresh THEN made + 1 ELSE made
          /\ route' = IF route.current = streams[s].first THEN [route EXCEPT !.next = client] ELSE route
          /\ streams' = [streams EXCEPT ![s].at = "both", ![s].second = client]
    /\ UNCHANGED <<cell, lastRoute, waited>>

\* One of the two fails, and the other is waited for.
StreamFails(s, client) ==
    /\ streams[s].at = "both"
    /\ client \in ({streams[s].first} \cup streams[s].second) \ streams[s].failed
    /\ streams' = [streams EXCEPT ![s].failed = @ \cup {client}]
    /\ UNCHANGED <<cell, lastRoute, route, made, waited>>

\* One connects; or both failed, or TRY passed again with neither.
Connects(s, client) ==
    /\ streams[s].at = "both"
    /\ client \in ({streams[s].first} \cup streams[s].second) \ streams[s].failed
    /\ streams' = [streams EXCEPT ![s].at = "settling", ![s].used = {client}, ![s].failed = {}]
    /\ UNCHANGED <<cell, lastRoute, route, made, waited>>

GivesUp(s) ==
    /\ streams[s].at = "both"
    /\ streams' = [streams EXCEPT ![s].at = "settling", ![s].failed = {}]
    /\ UNCHANGED <<cell, lastRoute, route, made, waited>>

\* A settling that keeps the client of a stream that connected nowhere.
MutMovesOn(current, first, untried, used) ==
    used # {} /\ (current = first \/ untried)

MovesOn(current, first, untried, used) ==
    current = first \/ (untried /\ used # {})

\* Routes::settle.
Settles(s) ==
    /\ streams[s].at = "settling"
    /\ LET used == streams[s].used
           first == streams[s].first
           moves == MovesOn(route.current, first, route.untried, used)
           isolated == moves /\ used = {}
       IN /\ isolated => made < MaxClients
          /\ made' = IF isolated THEN made + 1 ELSE made
          /\ route' = IF moves
                      THEN [current |-> IF used = {} THEN made + 1 ELSE CHOOSE c \in used : TRUE,
                            next |-> {}, untried |-> used = {}]
                      ELSE route
          /\ waited' = (waited \cup {first}) \ used
    /\ streams' = [streams EXCEPT ![s] = Quiet]
    /\ UNCHANGED <<cell, lastRoute>>

OnionNext == \E s \in Streams :
    \/ \E mode \in Modes, probed \in BOOLEAN : Resolve(s, mode, probed) \/ ResolveRunning(s, mode, probed)
    \/ StartEmbedded(s)
    \/ \E reached \in BOOLEAN : Bootstrap(s, reached)
    \/ DropStart(s)
    \/ Access(s)
    \/ \E session \in Sessions : OpenSession(s, session)
    \/ EndsAlone(s)
    \/ Second(s)
    \/ \E client \in 0..MaxClients : StreamFails(s, client) \/ Connects(s, client)
    \/ GivesUp(s)
    \/ Settles(s)

-----------------------------------------------------------------------------
(* The next stream to the service never starts on a client that a stream   *)
(* waited on for both its tries without reaching the service through it,   *)
(* unless another stream has reached it through that client since: settle  *)
(* moves the service on whatever order the streams end in.                 *)
HungIsLeft == route.current \notin waited

=============================================================================
