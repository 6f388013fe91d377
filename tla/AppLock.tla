------------------------------ MODULE AppLock -------------------------------
(***************************************************************************)
(* The lock of the app (manager/app_lock.rs): the secret that opens it,    *)
(* the calls that change it, and the delays after wrong guesses (lock.rs), *)
(* with their record beside the vault.                                     *)
(*                                                                         *)
(* A call reads the lock in place, checks the secret it was given against  *)
(* what it read, under the lock of the attempts, and commits its change:   *)
(* three steps, with those of other calls between.  Restarts may come      *)
(* anywhere, and the wall clock may be set to anything; the delays run on  *)
(* the monotonic clock, which goes on under both.                          *)
(***************************************************************************)
EXTENDS Integers, FiniteSets, FiniteSetsExt

CONSTANTS
  Callers,          \* the tasks that may call the manager
  Secrets,          \* the secrets people try
  FREE_ATTEMPTS,    \* wrong guesses that cost nothing (3)
  FIRST_DELAY,      \* the delay after the next one (5 s)
  MAX_DELAY,        \* the longest delay (300 s)
  MaxNow,           \* bound on the monotonic clock
  MaxUnix,          \* bound on the wall clock
  MaxFailures,      \* bound on the failures counted
  Operations,       \* the calls made: a subset of Ops
  ClockForward,     \* whether the wall clock may be set forward too
  FlakyDisk         \* whether the record may fail to be written or removed

NO_SECRET == "none"
Ops == {"verify", "set", "clear", "biometric"}

ASSUME LockAssumption ==
  /\ NO_SECRET \notin Secrets
  /\ Operations \subseteq Ops
  /\ {ClockForward, FlakyDisk} \subseteq BOOLEAN
  /\ FREE_ATTEMPTS \in Nat \ {0} /\ FIRST_DELAY \in Nat \ {0}
  /\ MAX_DELAY \in Nat /\ FIRST_DELAY <= MAX_DELAY
  /\ MaxNow \in Nat /\ MaxUnix \in Nat /\ MaxFailures \in Nat

VARIABLES
  appLock,          \* the lock of the settings, and whether a biometric
                    \* prompt may stand in for it
  attempts,         \* failures and blocked_until, in memory
  stored,           \* their record beside the vault: none, or one
  now,              \* the monotonic clock
  unix,             \* the wall clock
  stepOf,           \* where each call is
  call,             \* what each call came with, and the lock it read
  failed            \* history of the last wrong guess: see Failed

lockVars == <<appLock, attempts, stored, now, unix, stepOf, call, failed>>

Lock == [secret : Secrets \cup {NO_SECRET}, biometric : BOOLEAN]
NoLock == [secret |-> NO_SECRET, biometric |-> FALSE]

Call == [op : Ops, secret : Secrets \cup {NO_SECRET}, current : Secrets \cup {NO_SECRET},
         existing : Secrets \cup {NO_SECRET}]

\* at: when it was made; times: the failures counted then; restarted: a
\* restart came since; written: the record of it reached the disk.
Failed == [at : Nat, times : Nat, restarted : BOOLEAN, written : BOOLEAN]

LockTypeOK ==
  /\ appLock \in Lock
  /\ attempts \in [failures : 0..MaxFailures, until : Nat]
  /\ stored \subseteq [failures : 0..MaxFailures, until : Nat]
  /\ Cardinality(stored) <= 1
  /\ now \in 0..MaxNow /\ unix \in 0..MaxUnix
  /\ stepOf \in [Callers -> {"idle", "read", "check", "commit"}]
  /\ call \in [Callers -> Call]
  /\ failed \in Failed

NoCall == [op |-> "verify", secret |-> NO_SECRET, current |-> NO_SECRET,
           existing |-> NO_SECRET]

End(c) ==
  /\ stepOf' = [stepOf EXCEPT ![c] = "idle"]
  /\ call' = [call EXCEPT ![c] = NoCall]

LockInit ==
  /\ appLock \in {NoLock} \cup {[secret |-> s, biometric |-> FALSE] : s \in Secrets}
  /\ attempts = [failures |-> 0, until |-> 0]
  /\ stored = {}
  /\ now = 0 /\ unix = 0
  /\ stepOf = [c \in Callers |-> "idle"]
  /\ call = [c \in Callers |-> NoCall]
  /\ failed = [at |-> 0, times |-> 0, restarted |-> FALSE, written |-> TRUE]

-----------------------------------------------------------------------------
(***************************************************************************)
(* The delays.                                                             *)
(***************************************************************************)
DelayAfter(failures) ==
  IF failures < FREE_ATTEMPTS THEN 0
  ELSE Min({FIRST_DELAY * 2^Min({failures - FREE_ATTEMPTS, 16}), MAX_DELAY})

\* What is left of a delay, rounded up to a second, as a wall clock time.
Stored(a) ==
  [failures |-> a.failures,
   until |-> IF a.until > now THEN unix + (a.until - now) ELSE 0]

\* A delay far in the future is taken as it reads.
MutRestoreLong(s) ==
  [failures |-> s.failures,
   until |-> IF s.until = 0 THEN 0
             ELSE now + Max({s.until - unix, FIRST_DELAY})]

\* A stored delay read back: never longer than the longest, and never less
\* than the first one once the free attempts are spent, whatever the wall
\* clock says.
Restore(s) ==
  LET left == Min({Max({s.until - unix, 0}), MAX_DELAY})
      least == IF s.failures >= FREE_ATTEMPTS THEN Max({left, FIRST_DELAY})
               ELSE left
  IN  [failures |-> s.failures,
       until |-> IF s.until = 0 \/ least = 0 THEN 0 ELSE now + least]

-----------------------------------------------------------------------------
(***************************************************************************)
(* The calls.                                                              *)
(***************************************************************************)
Begin(c) ==
  /\ stepOf[c] = "idle"
  /\ \E op \in Operations, secret, current \in Secrets \cup {NO_SECRET} :
       /\ IF op = "set" THEN secret # NO_SECRET ELSE secret = NO_SECRET /\ current # NO_SECRET
       /\ call' = [call EXCEPT ![c] = [op |-> op, secret |-> secret,
                                       current |-> current, existing |-> NO_SECRET]]
  /\ stepOf' = [stepOf EXCEPT ![c] = "read"]
  /\ UNCHANGED <<appLock, attempts, stored, now, unix, failed>>

\* The lock in place is read, under the lock of the vault and no longer:
\* without one a set goes on to its commit, and anything else is an error.
ReadLock(c) ==
  /\ stepOf[c] = "read"
  /\ IF appLock.secret = NO_SECRET /\ call[c].op # "set" THEN End(c)
     ELSE /\ call' = [call EXCEPT ![c].existing = appLock.secret]
          /\ stepOf' = [stepOf EXCEPT ![c] = IF appLock.secret = NO_SECRET THEN "commit"
                                     ELSE "check"]
  /\ UNCHANGED <<appLock, attempts, stored, now, unix, failed>>

\* A guess is looked at: the delay is over.
Looked(c) ==
  /\ stepOf[c] = "check"
  /\ call[c].current # NO_SECRET
  /\ attempts.until <= now

\* No secret was given, or a delay runs: the call ends there.
RefusedEarly(c) ==
  /\ stepOf[c] = "check"
  /\ call[c].current = NO_SECRET \/ attempts.until > now
  /\ End(c)
  /\ UNCHANGED <<appLock, attempts, stored, now, unix, failed>>

\* The secret is the one of the lock that was read: the count starts over.
Right(c) ==
  /\ Looked(c)
  /\ call[c].current = call[c].existing
  /\ attempts' = [failures |-> 0, until |-> 0]
  /\ stored' \in IF FlakyDisk THEN {{}, stored} ELSE {{}}
  /\ failed' = [failed EXCEPT !.times = 0]
  /\ IF call[c].op = "verify" THEN End(c)
     ELSE stepOf' = [stepOf EXCEPT ![c] = "commit"] /\ UNCHANGED call
  /\ UNCHANGED <<appLock, now, unix>>

\* The record is written beside the vault, whole or not at all.
Mirror ==
  /\ stored' \in {{Stored(attempts')}} \cup IF FlakyDisk THEN {stored} ELSE {}
  /\ failed' = [at |-> now, times |-> attempts'.failures, restarted |-> FALSE,
                written |-> stored' = {Stored(attempts')}]

\* One guess too many is free.
MutWrong(c) ==
  /\ Looked(c)
  /\ call[c].current # call[c].existing
  /\ attempts.failures < MaxFailures
  /\ LET failures == attempts.failures + 1
     IN  attempts' = [failures |-> failures,
                      until |-> IF failures > FREE_ATTEMPTS
                                THEN now + DelayAfter(failures) ELSE 0]
  /\ Mirror
  /\ End(c)
  /\ UNCHANGED <<appLock, now, unix>>

\* It is not: counted, delayed and mirrored to the file.
Wrong(c) ==
  /\ Looked(c)
  /\ call[c].current # call[c].existing
  /\ attempts.failures < MaxFailures
  /\ LET failures == attempts.failures + 1
         delay == DelayAfter(failures)
     IN  attempts' = [failures |-> failures,
                      until |-> IF delay > 0 THEN now + delay ELSE 0]
  /\ Mirror
  /\ End(c)
  /\ UNCHANGED <<appLock, now, unix>>

\* The change is committed, or the save fails and it is not.  The biometric
\* prompt of a lock that is replaced stays as it was, and none is set
\* without a lock.
CommitLock(c) ==
  /\ stepOf[c] = "commit"
  /\ \/ /\ call[c].op = "set"
        /\ appLock' = [secret |-> call[c].secret, biometric |-> appLock.biometric]
     \/ call[c].op = "clear" /\ appLock' = NoLock
     \/ /\ call[c].op = "biometric"
        /\ IF appLock.secret = NO_SECRET THEN appLock' = appLock
           ELSE \E enabled \in BOOLEAN : appLock' = [appLock EXCEPT !.biometric = enabled]
     \/ appLock' = appLock
  /\ End(c)
  /\ UNCHANGED <<attempts, stored, now, unix, failed>>

-----------------------------------------------------------------------------
Tick ==
  /\ now < MaxNow
  /\ now' = now + 1
  /\ unix' = IF unix < MaxUnix THEN unix + 1 ELSE unix
  /\ UNCHANGED <<appLock, attempts, stored, stepOf, call, failed>>

SetClock ==
  /\ unix' \in {u \in 0..MaxUnix : u < unix \/ (ClockForward /\ u > unix)}
  /\ UNCHANGED <<appLock, attempts, stored, now, stepOf, call, failed>>

\* The process ends and starts again: the attempts are read back.
Restart ==
  /\ attempts' = IF stored = {} THEN [failures |-> 0, until |-> 0]
                 ELSE Restore(CHOOSE s \in stored : TRUE)
  /\ stepOf' = [c \in Callers |-> "idle"]
  /\ call' = [c \in Callers |-> NoCall]
  /\ failed' = [failed EXCEPT !.restarted = TRUE]
  /\ UNCHANGED <<appLock, stored, now, unix>>

LockNext ==
  \/ \E c \in Callers :
       Begin(c) \/ ReadLock(c) \/ RefusedEarly(c) \/ Right(c) \/ Wrong(c) \/ CommitLock(c)
  \/ Tick \/ SetClock \/ Restart

LockSpec == LockInit /\ [][LockNext]_lockVars

-----------------------------------------------------------------------------
(***************************************************************************)
(* Properties.                                                             *)
(***************************************************************************)

\* The least wait between a wrong guess and the next one looked at: the
\* delay of its count, or the first delay once a restart met a clock set
\* forward, or nothing when a restart found no record of it.
LeastWait ==
  IF failed.times < FREE_ATTEMPTS THEN 0
  ELSE IF failed.restarted /\ ~ failed.written THEN 0
  ELSE IF failed.restarted /\ ClockForward THEN FIRST_DELAY
  ELSE DelayAfter(failed.times)

\* No guess is looked at before the delay of the last wrong one is over:
\* guesses made together do not race it, quitting and relaunching between
\* two buys nothing, and moving the clock buys a shorter wait at most,
\* never a free guess (check_secret, restore).
NeverEarly ==
  [][\A c \in Callers :
       Right(c) \/ Wrong(c) => now >= failed.at + LeastWait]_lockVars

\* Nobody is kept out longer than the longest delay, whatever the clock or
\* the record says.
BoundedBlock == attempts.until <= now + MAX_DELAY

\* The lock in place changes only in a call that gave its secret
\* (set_app_lock, clear_app_lock, set_biometric_unlock).
CurrentWasGiven ==
  [][(appLock' # appLock /\ appLock.secret # NO_SECRET) =>
       \E c \in Callers : /\ stepOf[c] = "commit" /\ stepOf'[c] = "idle"
                          /\ call[c].current = appLock.secret]_lockVars

\* Together with the types of the lock, its attempts and its calls.
LockInv == LockTypeOK /\ BoundedBlock
=============================================================================
