-------------------------------- MODULE Dial --------------------------------
(***************************************************************************)
(* A direct connection to a host of several addresses: race and race_async *)
(* of src/src/chain/dial.rs. Time is counted in units; the loop runs as    *)
(* soon as an attempt may start or one ends, so a start that is due goes   *)
(* before the clock. An address connects, fails or stays silent.           *)
(***************************************************************************)
EXTENDS Naturals, Sequences, FiniteSets

CONSTANTS
    Resolutions,      \* answers of the resolver: sequences of families
    STAGGER, AT_ONCE, STALL, MOST,
    Timeout

ASSUME DialAssumption ==
    /\ Resolutions \subseteq Seq({4, 6})
    /\ AT_ONCE \in Nat \ {0} /\ MOST \in Nat \ {0}
    /\ STAGGER \in Nat /\ STALL \in Nat \ {0} /\ Timeout \in Nat
    /\ STALL >= AT_ONCE * STAGGER

VARIABLE dial

NoAttempt == {}
Families(addresses) == {addresses[i] : i \in DOMAIN addresses}

\* ordered: an address is its family, so in the resolver's order the two
\* families alternate from the first one's, and what one has more comes last.
Ordered(addresses) ==
    LET lead == addresses[1]
        other == IF lead = 6 THEN 4 ELSE 6
        ahead == Cardinality({i \in DOMAIN addresses : addresses[i] = lead})
        behind == Len(addresses) - ahead
        paired == IF ahead < behind THEN ahead ELSE behind
    IN [i \in DOMAIN addresses |->
          CASE i <= 2 * paired -> IF i % 2 = 1 THEN lead ELSE other
            [] OTHER -> IF ahead > paired THEN lead ELSE other]

\* Flights: when each attempt started, while it is alive.
Alive(flights) == {i \in DOMAIN flights : flights[i] # NoAttempt}
Started(flights, i) == CHOOSE t \in flights[i] : TRUE
LaterOf(S) == CHOOSE t \in S : \A u \in S : u <= t

\* Every attempt alive holds its place, however long it was silent.
MutWaiting(flights, now) == Alive(flights)

Waiting(flights, now) == {i \in Alive(flights) : now < Started(flights, i) + STALL}

\* opening: when the next attempt may start, if it may.
Opening(flights, now, next) ==
    LET waiting == Waiting(flights, now)
        \* The last AT_ONCE of them: the oldest of these makes room.
        oldest == {i \in waiting : Cardinality({j \in waiting : j >= i}) = AT_ONCE}
    IN IF Cardinality(Alive(flights)) >= MOST THEN {}
       ELSE {LaterOf({next} \cup {Started(flights, i) + STALL : i \in oldest})}

Left == Len(dial.order) - Len(dial.flights)

DialInit == \E addresses \in Resolutions :
    dial = [order |-> IF addresses = <<>> THEN <<>> ELSE Ordered(addresses), flights |-> <<>>,
            now |-> 0, next |-> 0, last |-> "nowhere", at |-> "racing"]

Racing == dial.at = "racing" /\ dial.now < Timeout
Due == Left > 0 /\ \E t \in Opening(dial.flights, dial.now, dial.next) : t <= dial.now

\* The next address is tried, or its thread cannot be started.
StartAttempt(spawned) ==
    /\ Racing /\ Due
    /\ dial' = IF spawned
               THEN [dial EXCEPT !.flights = Append(@, {dial.now}), !.next = dial.now + STAGGER]
               ELSE [dial EXCEPT !.flights = Append(@, NoAttempt), !.last = "shortage"]

\* An attempt ends; only the failure of the latest starts the next at once.
AttemptEnds(i, connected) ==
    /\ Racing /\ ~Due
    /\ i \in Alive(dial.flights)
    /\ dial' = IF connected THEN [dial EXCEPT !.at = "connected", !.flights[i] = NoAttempt]
               ELSE [dial EXCEPT !.flights[i] = NoAttempt, !.last = "refused",
                                 !.next = IF i = Len(dial.flights) THEN dial.now ELSE @]

\* The time is up, or every address failed: the last failure is told.
RaceEnds ==
    /\ dial.at = "racing"
    /\ LET waits == Alive(dial.flights) # {} \/ Left > 0
       IN /\ dial.now >= Timeout \/ ~waits
          /\ dial' = [dial EXCEPT !.at = IF waits THEN "timed_out" ELSE dial.last]

DialClock ==
    /\ Racing /\ ~Due
    /\ Alive(dial.flights) # {} \/ Left > 0
    /\ dial' = [dial EXCEPT !.now = @ + 1]

DialNext ==
    \/ \E spawned \in BOOLEAN : StartAttempt(spawned)
    \/ \E i \in DOMAIN dial.flights, connected \in BOOLEAN : AttemptEnds(i, connected)
    \/ RaceEnds
    \/ DialClock

-----------------------------------------------------------------------------
(* Addresses that ignore the connection hold the others back for a bounded *)
(* time: address k, of the first MOST, is tried by the time k \div AT_ONCE  *)
(* stalls and the staggers of the remainder have passed, the               *)
(* second family beside the first; never more than AT_ONCE attempts wait   *)
(* for an answer that can still come; and the opening fails as a timeout   *)
(* only when its time is up.                                               *)
SilentHoldNobody ==
    /\ Cardinality(Waiting(dial.flights, dial.now)) <= AT_ONCE
    /\ Cardinality(Alive(dial.flights)) <= MOST
    /\ (Racing /\ Left > 0 /\ Len(dial.flights) < MOST) =>
         LET k == Len(dial.flights)
         IN dial.now <= (k \div AT_ONCE) * STALL + (k % AT_ONCE) * STAGGER
    /\ (Len(dial.flights) >= 2 /\ Cardinality(Families(dial.order)) = 2) => dial.order[1] # dial.order[2]
    /\ dial.at = "timed_out" => dial.now >= Timeout

=============================================================================
