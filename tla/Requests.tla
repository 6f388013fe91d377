------------------------------ MODULE Requests ------------------------------
(***************************************************************************)
(* Requests to a chain server:                                             *)
(*  - a batch on the asynchronous Electrum connection, a window at a time, *)
(*    what the server refuses for want of memory asked again once          *)
(*    (src/src/chain/electrum/rpc.rs);                                     *)
(*  - an operation on the thread of a blocking Electrum connection and the *)
(*    Cancel that abandons it from outside (src/src/chain/electrum.rs);    *)
(*  - a GET of the Esplora client, asked again after an error, a rate      *)
(*    limit or a connection closed early (src/src/chain/esplora.rs).       *)
(* The server is free: it answers what it was asked, in any order, once or *)
(* again, refuses, sends lines nobody asked for, falls silent or hangs up. *)
(***************************************************************************)
LOCAL INSTANCE Naturals
LOCAL INSTANCE FiniteSets

CONSTANTS
    Params,      \* parameters of a batch: 1..Params
    WINDOW,      \* requests awaiting their answer at any time
    MAX_STRAY,   \* lines that answer nothing asked, in a row
    MAX_READ,    \* lines one connection reads
    PAUSES,      \* waits of one connection for a server out of memory
    TRIES,       \* tries of a GET under errors of the server
    RateWaits,   \* waits a server names
    RATE_WAIT_MIN, RATE_WAIT_MAX

VARIABLES
    batch,       \* the batch under way on the asynchronous connection
    wire,        \* requests the server ever read: id -> index of the parameters
    thread,      \* the blocking connection: its thread
    cancel,      \* its Cancel: the flag, the socket, and where abort() stands
    get,         \* the GET under way
    rateLimit    \* Client.rate_limit, 0 for none

batchVars == <<batch, wire>>
threadVars == <<thread, cancel>>
getVars == <<get, rateLimit>>
requestVars == <<batch, wire, thread, cancel, get, rateLimit>>

Largest(S) == CHOOSE x \in S : \A y \in S : y <= x

-----------------------------------------------------------------------------
(* Connection::batch, round, send and receive *)

Indices == 1..Params
NoBatch ==
    [at |-> "first", queue |-> Indices, waiting |-> {}, nextId |-> 0, busy |-> {},
     given |-> {}, patient |-> PAUSES > 0, pauses |-> PAUSES, stray |-> 0, read |-> 0]

Running == batch.at \in {"first", "again"}

\* send: the next of those left to ask, in the order of the parameters,
\* while the window has room.
SendRequest ==
    /\ Running /\ Cardinality(batch.waiting) < WINDOW
    /\ \E i \in batch.queue :
         /\ \A j \in batch.queue : i <= j
         /\ batch' = [batch EXCEPT !.queue = @ \ {i}, !.nextId = @ + 1,
                                   !.waiting = @ \cup {<<batch.nextId, i>>}]
         /\ wire' = wire \cup {<<batch.nextId, i>>}
    /\ UNCHANGED <<threadVars, getVars>>

\* The server stops reading or hangs up as a request goes out.
SendFails ==
    /\ Running /\ batch.queue # {} /\ Cardinality(batch.waiting) < WINDOW
    /\ batch' = [batch EXCEPT !.at = "outage"]
    /\ UNCHANGED <<wire, threadVars, getVars>>

Receiving == Running /\ batch.waiting # {} /\ (batch.queue = {} \/ Cardinality(batch.waiting) = WINDOW)

\* receive: a line that answers the request the server read under an id,
\* kept when that id waits; a second refusal for want of memory is given.
ReceiveAnswer(asked, busy) ==
    /\ Receiving /\ batch.read < MAX_READ
    /\ asked \in wire
    /\ \E w \in batch.waiting : w[1] = asked[1]
    /\ LET w == CHOOSE v \in batch.waiting : v[1] = asked[1]
           held == busy /\ batch.patient /\ batch.at = "first"
       IN batch' = [batch EXCEPT !.waiting = @ \ {w}, !.stray = 0, !.read = @ + 1,
                                 !.busy = IF held THEN @ \cup {w[2]} ELSE @,
                                 !.given = IF held THEN @ ELSE @ \cup {[index |-> w[2], answerTo |-> asked[2]]}]
    /\ UNCHANGED <<wire, threadVars, getVars>>

\* A notification, a line that cannot be read or an answer to an id that
\* no longer waits: dropped, unless too many came in a row.
ReceiveStray ==
    /\ Receiving /\ batch.read < MAX_READ
    /\ batch' = [batch EXCEPT !.stray = @ + 1, !.read = @ + 1,
                              !.at = IF batch.stray + 1 = MAX_STRAY THEN "refused" ELSE @]
    /\ UNCHANGED <<wire, threadVars, getVars>>

\* Silence, a connection closed, a line or a connection that is too long.
ReceiveFails(kind) ==
    /\ Receiving
    /\ kind = "refused" \/ batch.read < MAX_READ
    /\ batch' = [batch EXCEPT !.at = kind]
    /\ UNCHANGED <<wire, threadVars, getVars>>

\* The ids count from the start again.
MutAskedAgain(b) ==
    [b EXCEPT !.at = "again", !.pauses = @ - 1, !.busy = {}, !.stray = 0,
              !.queue = b.busy, !.nextId = 0]

\* What was refused for want of memory, asked again under ids that go on.
AskedAgain(b) ==
    [b EXCEPT !.at = "again", !.pauses = @ - 1, !.busy = {}, !.stray = 0,
              !.queue = b.busy]

\* The round is over: those are asked again, once, after a wait; a caller
\* whose each() fails ends the batch earlier.
RoundEnds ==
    /\ Running /\ batch.queue = {} /\ batch.waiting = {}
    /\ batch' = IF batch.at = "first" /\ batch.busy # {} THEN AskedAgain(batch)
                ELSE [batch EXCEPT !.at = "done"]
    /\ UNCHANGED <<wire, threadVars, getVars>>

\* The next batch on the same connection: its ids and its waits go on.
NextBatch ==
    /\ batch.at = "done" /\ batch.nextId < 2 * Params
    /\ batch' = [NoBatch EXCEPT !.nextId = batch.nextId, !.pauses = batch.pauses,
                                !.patient = batch.pauses > 0, !.read = batch.read]
    /\ UNCHANGED <<wire, threadVars, getVars>>

-----------------------------------------------------------------------------
(* run, Cancel::hold and Cancel::abort *)

\* The thread: it opens its socket, keeps it in the Cancel, looks at the
\* flag, then talks, each read and write looking at the flag first.
NoThread == [at |-> "connecting", pauses |-> PAUSES, shut |-> FALSE]
NoCancel == [flag |-> FALSE, held |-> FALSE, abort |-> "no"]

Connected(opened) ==
    /\ thread.at = "connecting"
    /\ thread' = [thread EXCEPT !.at = IF opened THEN "holding" ELSE "ended"]
    /\ UNCHANGED <<cancel, batchVars, getVars>>

HoldOrder == <<"keeping", "looking">>

\* hold: each of its two steps.
Hold ==
    /\ thread.at \in {"holding", "held"}
    /\ LET step == HoldOrder[IF thread.at = "holding" THEN 1 ELSE 2]
           next == IF thread.at = "holding" THEN "held" ELSE "talking"
       IN \/ /\ step = "keeping"
             /\ cancel' = [cancel EXCEPT !.held = TRUE]
             /\ thread' = [thread EXCEPT !.at = next]
          \/ /\ step = "looking"
             /\ thread' = IF cancel.flag THEN [thread EXCEPT !.at = "ended", !.shut = TRUE]
                          ELSE [thread EXCEPT !.at = next]
             /\ UNCHANGED cancel
    /\ UNCHANGED <<batchVars, getVars>>

\* A call: Guarded refuses it once the flag is up; a refusal for want of
\* memory is asked again after a wait, while waits are left (patiently).
Talk(answer) ==
    /\ thread.at = "talking"
    /\ thread' = CASE cancel.flag \/ thread.shut -> [thread EXCEPT !.at = "ended"]
                   [] answer = "busy" /\ thread.pauses > 0 -> [thread EXCEPT !.pauses = @ - 1]
                   [] answer = "next" -> thread
                   [] OTHER -> [thread EXCEPT !.at = "ended"]
    /\ UNCHANGED <<cancel, batchVars, getVars>>

\* The deadline passes or the future is dropped: abort raises the flag,
\* then takes the socket's lock and shuts down the socket kept there.
AbortFlag ==
    /\ cancel.abort = "no"
    /\ cancel' = [cancel EXCEPT !.flag = TRUE, !.abort = "flagged"]
    /\ UNCHANGED <<thread, batchVars, getVars>>

AbortSocket ==
    /\ cancel.abort = "flagged"
    /\ cancel' = [cancel EXCEPT !.abort = "done"]
    /\ thread' = [thread EXCEPT !.shut = @ \/ cancel.held]
    /\ UNCHANGED <<batchVars, getVars>>

-----------------------------------------------------------------------------
(* Client::open and the faults of an answer *)

NoGet == [at |-> "asked", sends |-> 1, tries |-> 1, limited |-> FALSE, reopened |-> FALSE]

\* describe_request, fault_of and describe_status: what counts against the
\* server. Tor's own failures are this device's.
OutageCauses == {"timeout", "tls", "dns", "connect", "closed"}
Causes == OutageCauses \cup {"tor", "body", "other"}
ServerErrors == {500, 502, 503, 504}
Statuses == {200, 301, 400, 404, 501} \cup ServerErrors
StatusEnd(status) == IF status \in 500..599 THEN "outage" ELSE "failed"
CauseEnd(cause) == IF cause \in OutageCauses THEN "outage" ELSE "failed"

GetFails(cause) ==
    /\ get.at = "asked"
    /\ get' = IF cause = "closed" /\ ~get.reopened
              THEN [get EXCEPT !.reopened = TRUE, !.sends = @ + 1]
              ELSE [get EXCEPT !.at = CauseEnd(cause)]
    /\ UNCHANGED <<rateLimit, batchVars, threadVars>>

\* A 429: the wait it names, five seconds at least, noted for whoever paces
\* the requests; asked again once when it is a minute at most.
GetLimited(named) ==
    /\ get.at = "asked"
    /\ LET pause == Largest({named, RATE_WAIT_MIN})
       IN /\ rateLimit' = Largest({rateLimit, pause})
          /\ get' = IF get.limited \/ pause > RATE_WAIT_MAX THEN [get EXCEPT !.at = "outage"]
                    ELSE [get EXCEPT !.limited = TRUE, !.sends = @ + 1]
    /\ UNCHANGED <<batchVars, threadVars>>

GetStatus(status) ==
    /\ get.at = "asked"
    /\ get' = CASE status \in ServerErrors /\ get.tries < TRIES -> [get EXCEPT !.tries = @ + 1, !.sends = @ + 1]
                [] status = 404 -> [get EXCEPT !.at = "none"]
                [] status = 200 -> [get EXCEPT !.at = "body"]
                [] OTHER -> [get EXCEPT !.at = StatusEnd(status)]
    /\ UNCHANGED <<rateLimit, batchVars, threadVars>>

\* fetch, stream_json: the body, cut off past its bound, cut short, or one
\* that is not what was asked for; a cut wins over what the parser says.
GetBody(whole, parses, cause) ==
    /\ get.at = "body"
    /\ get' = [get EXCEPT !.at = CASE ~whole -> CauseEnd(cause)
                                   [] ~parses -> "failed"
                                   [] OTHER -> "read"]
    /\ UNCHANGED <<rateLimit, batchVars, threadVars>>

\* take_rate_limit.
TakeRateLimit ==
    /\ get.at \notin {"asked", "body"}
    /\ rateLimit # 0
    /\ rateLimit' = 0
    /\ UNCHANGED <<get, batchVars, threadVars>>

-----------------------------------------------------------------------------
RequestsInit ==
    /\ batch = NoBatch /\ wire = {}
    /\ thread = NoThread /\ cancel = NoCancel
    /\ get = NoGet /\ rateLimit = 0

BatchNext ==
    \/ SendRequest \/ SendFails \/ ReceiveStray \/ RoundEnds \/ NextBatch
    \/ \E asked \in wire, busy \in BOOLEAN : ReceiveAnswer(asked, busy)
    \/ \E kind \in {"outage", "refused"} : ReceiveFails(kind)
ThreadNext ==
    \/ \E opened \in BOOLEAN : Connected(opened)
    \/ Hold
    \/ \E answer \in {"next", "busy", "end"} : Talk(answer)
    \/ AbortFlag \/ AbortSocket
GetNext ==
    \/ \E cause \in Causes : GetFails(cause)
    \/ \E named \in RateWaits : GetLimited(named)
    \/ \E status \in Statuses : GetStatus(status)
    \/ \E whole, parses \in BOOLEAN, cause \in Causes : GetBody(whole, parses, cause)
    \/ TakeRateLimit

-----------------------------------------------------------------------------
(* Each result a batch hands over for some parameters is the server's own  *)
(* answer to a request of those parameters, not a late or repeated answer  *)
(* to a request of an earlier round or batch of the connection.            *)
OwnAnswers == \A g \in batch.given : g.answerTo = g.index

(* What was handed over is not asked for any more: each is handed over     *)
(* once, and a batch that ends well handed over every one.                 *)
HandedOnce ==
    /\ \A g \in batch.given :
         /\ g.index \notin batch.busy
         /\ \A w \in batch.waiting : w[2] # g.index
         /\ g.index \notin batch.queue
    /\ batch.at = "done" => {g.index : g \in batch.given} = Indices

(* A connection whose caller stopped waiting ends: once abort returned, the *)
(* thread that goes on to talk has its socket shut down, whatever point of  *)
(* its connection the abort fell on; a read that waits then returns.        *)
AbandonedIsShut ==
    (cancel.abort = "done" /\ thread.at = "talking") => thread.shut

\* What is on a connection is of the call that waits.
RequestsInv == OwnAnswers /\ HandedOnce /\ AbandonedIsShut
=============================================================================
