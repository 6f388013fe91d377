------------------------------- MODULE Updates -------------------------------
(***************************************************************************)
(* The check for a new release (updates.rs, manager/updates.rs): when the  *)
(* app asks on its own, what it makes of the answer, and what it announces *)
(* to whom.                                                                *)
(*                                                                         *)
(* A call lets go of the state between its steps: a session finds a check  *)
(* due, notes itself, looks for a running Tor, stamps the day and only     *)
(* then asks; the button asks and notes; sessions, the button, the user's  *)
(* choices and restarts interleave.  The clock of the device is right, or  *)
(* ahead since the first launch, or not set (before the first launch, or   *)
(* after a flat battery).                                                  *)
(***************************************************************************)
EXTENDS Integers, Sequences

CONSTANTS
  Calls,                  \* the calls that may be under way at once
  CHECK_EVERY,            \* a day
  NO_RIGHT_CLOCK_BEFORE,  \* the day of the build
  AheadBy,                \* what a clock that is ahead adds
  Ranks,                  \* the ranks of the pre-releases of one version
  Versions,               \* the versions there are: see below
  Responses,              \* what GitHub may answer: see Response
  MaxElapsed,             \* bound on the time that passes
  MaxSent                 \* bound on the checks made

ASSUME UpdatesAssumption ==
  /\ CHECK_EVERY \in Nat \ {0} /\ NO_RIGHT_CLOCK_BEFORE \in Nat \ {0}
  /\ AheadBy \in Nat /\ Ranks \in Nat /\ Versions \subseteq [number : Nat, pre : 0..Ranks]
  /\ MaxElapsed \in Nat /\ MaxSent \in Nat

VARIABLES
  updates,    \* the UpdateRecord of the vault
  under,      \* where each call is
  real,       \* the time it is
  deviceClock, \* the state of the device's clock
  sent,       \* history: the checks the app made on its own
  closed,     \* history: the versions closed, by the user or on screen
  born        \* history: when the first session opened: none, or one

updateVars == <<updates, under, real, deviceClock, sent, closed, born>>

-----------------------------------------------------------------------------
(* Versions: their numbers, and the rank of their pre-release identifiers  *)
(* in the order of Identifier, the highest rank for a release, which has   *)
(* none.  What does not read as a version is none at all.                  *)

IsRelease(v) == v.pre = Ranks
Later(v, w) == v.number > w.number \/ (v.number = w.number /\ v.pre > w.pre)

\* shaped: what a tag looks like, and short enough; reads: the version it
\* reads as, or none.
Tag == [shaped : BOOLEAN, reads : {{}} \cup {{v} : v \in Versions}]

\* A request that fails, or does not end within the budget of the check, has
\* the status "failed"; whole: the body ends within MAX_ANSWER.
Response ==
  [status : {"ok", "gone", "other", "failed"}, whole : BOOLEAN,
   tag : {{}} \cup {{t} : t \in Tag}]

ASSUME ResponsesAssumption == Responses \subseteq Response

ReadTag(response) == {t \in response.tag : t.shaped}

\* Asked once more without naming a version of the API when that is gone.
AskLatest(first, second) ==
  LET response == IF first.status = "gone" THEN second ELSE first
  IN IF response.status = "ok" /\ response.whole THEN ReadTag(response) ELSE {}

Found == {AskLatest(first, second) : first, second \in Responses}

-----------------------------------------------------------------------------
(* The record of the vault.                                                *)

NewRecord == [automatic |-> TRUE, first_session_at |-> {}, checked_at |-> {},
          latest |-> {}, dismissed |-> {}, tor_unavailable |-> FALSE]

\* A record that holds no session yet is due.
MutDue(record, now) ==
  /\ record.automatic
  /\ ~\E at \in record.first_session_at \cup record.checked_at :
       at <= now /\ now - at < CHECK_EVERY

Due(record, now) ==
  /\ record.automatic
  /\ \E at \in record.first_session_at : at <= now /\ now - at >= CHECK_EVERY
  /\ ~\E at \in record.checked_at : at <= now /\ now - at < CHECK_EVERY

SessionAt(record, now) ==
  IF now >= NO_RIGHT_CLOCK_BEFORE /\ \A at \in record.first_session_at : at > now
    THEN [record EXCEPT !.first_session_at = {now}]
    ELSE record

Available(record, running) ==
  {v \in record.latest : IsRelease(v) /\ Later(v, running)}

Announce(record, running) ==
  {v \in Available(record, running) : \A w \in record.dismissed : Later(v, w)}

AnsweredBy(record, tag) ==
  [record EXCEPT !.latest = {v \in tag.reads : IsRelease(v)}]

\* The last one closed, be it an older one.
MutDismiss(record, version) == [record EXCEPT !.dismissed = {version}]

Dismiss(record, version) ==
  IF \A w \in record.dismissed : Later(version, w)
    THEN [record EXCEPT !.dismissed = {version}] ELSE record

DismissAll(record, versions) ==
  IF versions = {} THEN record ELSE Dismiss(record, CHOOSE v \in versions : TRUE)

-----------------------------------------------------------------------------
(* The clock.  A build is never made before its day: the right time is     *)
(* past it, and a clock that is not set reads a time before.               *)

Clocks == {"right", "ahead", "unset"}

NowSecs ==
  CASE deviceClock = "right" -> NO_RIGHT_CLOCK_BEFORE + real
    [] deviceClock = "ahead" -> NO_RIGHT_CLOCK_BEFORE + real + AheadBy
    [] deviceClock = "unset" -> NO_RIGHT_CLOCK_BEFORE - 1

Idle == [step |-> "idle", now |-> 0, due |-> FALSE, opened |-> 0, clock |-> "right", after |-> 0]

UpdatesInit ==
  /\ updates = NewRecord
  /\ under = [c \in Calls |-> Idle]
  /\ real = 0
  /\ deviceClock \in Clocks
  /\ sent = <<>>
  /\ closed = {}
  /\ born = {}

At(c, step) == under[c].step = step
Goes(c, step) == under' = [under EXCEPT ![c].step = step]
Leaves(c, step) == under' = [under EXCEPT ![c] = [Idle EXCEPT !.step = step]]

\* A commit that fails changes nothing; note_update writes only what changes.
Saves(record) == updates' \in {updates, record}

-----------------------------------------------------------------------------
(* The check a session makes.                                              *)

UpdateSession(c) ==
  /\ At(c, "idle")
  /\ under' = [under EXCEPT ![c] =
                 [step |-> "opened", now |-> NowSecs, due |-> FALSE, opened |-> real,
                  clock |-> deviceClock, after |-> Len(sent)]]
  /\ born' = IF born = {} THEN {real} ELSE born
  /\ UNCHANGED <<updates, real, deviceClock, sent, closed>>

FindDue(c) ==
  /\ At(c, "opened")
  /\ under' = [under EXCEPT ![c].step = "found", ![c].due = Due(updates, under[c].now)]
  /\ UNCHANGED <<updates, real, deviceClock, sent, closed, born>>

NoteSession(c) ==
  /\ At(c, "found")
  /\ Saves(SessionAt(updates, under[c].now))
  /\ IF under[c].due THEN Goes(c, "route") ELSE Leaves(c, "idle")
  /\ UNCHANGED <<real, deviceClock, sent, closed, born>>

\* A proxy, or none needed; or Tor is needed and does not run.
FindRoute(c) ==
  /\ At(c, "route")
  /\ \/ updates' = updates /\ Goes(c, "stamp")
     \/ Saves([updates EXCEPT !.tor_unavailable = TRUE]) /\ Leaves(c, "idle")
  /\ UNCHANGED <<real, deviceClock, sent, closed, born>>

\* Found due again under the lock, and stamped, or nothing is sent.
Stamp(c) ==
  LET me == under[c]
      stamped == [updates EXCEPT !.checked_at = {me.now}, !.tor_unavailable = FALSE]
  IN /\ At(c, "stamp") /\ Len(sent) < MaxSent
     /\ \/ /\ Due(updates, me.now)
           /\ updates' = stamped
           /\ sent' = Append(sent, [opened |-> me.opened, clock |-> me.clock, after |-> me.after,
                                    moved |-> me.clock # deviceClock, wanted |-> updates.automatic])
           /\ Leaves(c, "ask")
        \/ Leaves(c, "idle") /\ UNCHANGED <<updates, sent>>
     /\ UNCHANGED <<real, deviceClock, closed, born>>

Answer(c) ==
  /\ At(c, "ask")
  /\ \E tag \in Found :
       IF tag = {} THEN UNCHANGED updates
       ELSE Saves(AnsweredBy(updates, CHOOSE t \in tag : TRUE))
  /\ Leaves(c, "idle")
  /\ UNCHANGED <<real, deviceClock, sent, closed, born>>

-----------------------------------------------------------------------------
(* The button, and what the user decides.                                  *)

\* Tor is started when it is needed; without it the call fails.
CheckUpdate(c) ==
  /\ At(c, "idle")
  /\ \/ Leaves(c, "button") /\ UNCHANGED updates
     \/ Saves([updates EXCEPT !.tor_unavailable = TRUE]) /\ UNCHANGED under
  /\ UNCHANGED <<real, deviceClock, sent, closed, born>>

\* The release the answer names is on screen: it counts as closed.
ButtonAnswer(c) ==
  /\ At(c, "button")
  /\ \E tag \in Found :
       LET cleared == [updates EXCEPT !.tor_unavailable = FALSE]
           told == AnsweredBy(cleared, CHOOSE t \in tag : TRUE)
           record == IF tag = {} THEN cleared ELSE DismissAll(told, told.latest)
       IN \/ /\ updates' = record
             /\ closed' = IF tag = {} THEN closed ELSE closed \cup told.latest
          \/ UNCHANGED <<updates, closed>>
  /\ Leaves(c, "idle")
  /\ UNCHANGED <<real, deviceClock, sent, born>>

DismissUpdate ==
  /\ \E version \in Versions :
       \/ updates' = Dismiss(updates, version) /\ closed' = closed \cup {version}
       \/ UNCHANGED <<updates, closed>>
  /\ UNCHANGED <<under, real, deviceClock, sent, born>>

SetUpdateAutomatic ==
  /\ \E automatic \in BOOLEAN : Saves([updates EXCEPT !.automatic = automatic])
  /\ UNCHANGED <<under, real, deviceClock, sent, closed, born>>

-----------------------------------------------------------------------------
(* The device.                                                             *)

TimePasses ==
  /\ real < MaxElapsed
  /\ real' = real + 1
  /\ UNCHANGED <<updates, under, deviceClock, sent, closed, born>>

\* Set right, or reset by a flat battery: never ahead again.
ClockSet ==
  /\ deviceClock' \in {"right", "unset"} \ {deviceClock}
  /\ UNCHANGED <<updates, under, real, sent, closed, born>>

\* The vault is all that is left; requests under way are not answered.
Restarted ==
  /\ under' = [c \in Calls |-> Idle]
  /\ UNCHANGED <<updates, real, deviceClock, sent, closed, born>>

UpdatesNext ==
  \/ \E c \in Calls :
       \/ UpdateSession(c) \/ FindDue(c) \/ NoteSession(c)
       \/ FindRoute(c) \/ Stamp(c) \/ Answer(c)
       \/ CheckUpdate(c) \/ ButtonAnswer(c)
  \/ DismissUpdate \/ SetUpdateAutomatic
  \/ TimePasses \/ ClockSet \/ Restarted

UpdatesSpec == UpdatesInit /\ [][UpdatesNext]_updateVars

-----------------------------------------------------------------------------
(* What is promised.                                                       *)

\* Types.
Times == Nat
UpdatesTypeOK ==
  /\ updates \in [automatic : BOOLEAN, first_session_at : SUBSET Times, checked_at : SUBSET Times,
                  latest : SUBSET Versions, dismissed : SUBSET Versions, tor_unavailable : BOOLEAN]
  /\ under \in [Calls -> [step : {"idle", "opened", "found", "route", "stamp", "ask", "button"},
                          now : Times, due : BOOLEAN, opened : Times, clock : Clocks, after : Nat]]
  /\ real \in Nat /\ deviceClock \in Clocks
  /\ sent \in Seq([opened : Times, clock : Clocks, after : Nat, moved : BOOLEAN,
                   wanted : BOOLEAN])
  /\ closed \subseteq Versions /\ born \subseteq Times

\* Nothing is asked within a day of the first session, whether the clock was
\* right at the first launch, ahead or not set (UpdateRecord::due,
\* session_at), by a session under way while nobody touched the clock.
QuietFirstDay ==
  \A i \in DOMAIN sent : \A at \in born :
    ~sent[i].moved => sent[i].opened >= at + CHECK_EVERY

\* A session that opens after a check went out sends none within the day,
\* whatever became of that check and whatever restarts came since, as long
\* as the clock is the one that stamped it (check_on_its_own).
OnceADay ==
  \A i \in DOMAIN sent : i > 1 =>
    LET before == sent[i - 1] me == sent[i]
    IN (me.after >= i - 1 /\ me.clock = before.clock) => me.opened >= before.opened + CHECK_EVERY

\* A check turned off before it was sent is not sent.
SentIsWanted == \A i \in DOMAIN sent : sent[i].wanted

\* The app asks on its own only when it may: off, on the first day and
\* within a day of the last check it says nothing to GitHub.
AsksSeldom == QuietFirstDay /\ OnceADay /\ SentIsWanted

\* A version once closed, or shown by the button, is not announced again, nor
\* any before it, whoever runs whichever version and whatever answers come
\* late (UpdateRecord::dismiss, status).
ClosedStaysClosed ==
  \A running \in Versions : \A v \in Announce(updates, running) :
    \A w \in closed : Later(v, w)
=============================================================================
