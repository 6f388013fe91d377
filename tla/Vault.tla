------------------------------- MODULE Vault --------------------------------
(***************************************************************************)
(* The vault file (store/mod.rs) and the one state that works on it        *)
(* (ManagerState in manager/mod.rs), with the copies of the app that may   *)
(* open it, on a file system that locks or one that cannot.                *)
(*                                                                         *)
(* A save writes a temporary file of its own, flushes it, renames it over  *)
(* the vault and flushes the directory where that works.  What the user    *)
(* decides is committed: changed on a copy, saved, then made the state.    *)
(* What a sync read is applied in place and saved after.                   *)
(*                                                                         *)
(* A payload is the set of decisions it holds and a counter of the chain   *)
(* state read.  The file system is external: a process may die at any      *)
(* step, and a power loss leaves the vault's name on any file it named     *)
(* since its directory was last flushed.                                   *)
(***************************************************************************)
EXTENDS Naturals, FiniteSets

CONSTANTS
  Copies,           \* the copies of the app on one data directory
  Lockable,         \* whether the file system locks at all: TRUE, FALSE
  MaxDecisions,     \* bound on the decisions made
  MaxChain          \* bound on the chain state read

NONE == "none"

ASSUME VaultAssumption ==
  /\ NONE \notin Copies
  /\ Lockable \subseteq BOOLEAN
  /\ MaxDecisions \in Nat /\ MaxChain \in Nat

Decision == 1..MaxDecisions

\* file: what stands at the vault's name; written by this build or by one
\* that kept what this one retired.
File == [file : {"absent", "torn", "old", "current"},
         decided : SUBSET Decision, chain : Nat]

Absent == [file |-> "absent", decided |-> {}, chain |-> 0]
Torn   == [file |-> "torn", decided |-> {}, chain |-> 0]
Default == [file |-> "current", decided |-> {}, chain |-> 0]

VARIABLES
  lockable,         \* whether the file system the vault is on locks
  lock,             \* the copy that holds the lock file, or NONE
  vault,            \* the file at the vault's name, as running copies see it
  onDisk,           \* the files a power loss may leave at that name
  strays,           \* whether saves that never finished left a temporary
  tmp,              \* the temporary file of each copy's save
  pc,               \* where each copy is
  why,              \* what the save under way is made for
  mem,              \* the payload each copy works on
  next,             \* the payload its save writes
  made,             \* decisions made so far
  refused           \* history: decisions whose commit returned an error

vars == <<lockable, lock, vault, onDisk, strays, tmp, pc, why, mem, next,
          made, refused>>

Saving == {"write", "sync", "rename", "flush"}
PCs == {"closed", "look", "open"} \cup Saving
Cause == [cause : {"create", "retire", "commit", "apply"}, decision : Nat]

Init ==
  /\ lockable \in Lockable
  /\ lock = NONE
  /\ vault \in {Absent, [Default EXCEPT !.file = "old"]}
  /\ onDisk = {vault}
  /\ strays = "none"
  /\ tmp = [c \in Copies |-> "none"]
  /\ pc = [c \in Copies |-> "closed"]
  /\ why = [c \in Copies |-> [cause |-> "create", decision |-> 0]]
  /\ mem = [c \in Copies |-> Default]
  /\ next = [c \in Copies |-> Default]
  /\ made = 0
  /\ refused = {}

-----------------------------------------------------------------------------
(***************************************************************************)
(* Opening the vault.                                                      *)
(***************************************************************************)

\* The lock is not looked at.
MutOpenAnyway(c) ==
  /\ pc[c] = "closed"
  /\ lock' = c
  /\ strays' = "none"
  /\ UNCHANGED tmp
  /\ pc' = [pc EXCEPT ![c] = "look"]
  /\ UNCHANGED <<vault, onDisk, why, mem, next, made, refused>>

\* The lock is taken or the open refused; under it, the temporaries of
\* saves that never finished are removed.  A file system that cannot lock
\* gets the vault unlocked, and no temporary is touched.
Open(c) ==
  /\ pc[c] = "closed"
  /\ \/ /\ lockable /\ lock = NONE
        /\ lock' = c
        /\ strays' = "none"
        /\ tmp' = [d \in Copies |-> "none"]
     \/ /\ ~ lockable
        /\ UNCHANGED <<lock, strays, tmp>>
  /\ pc' = [pc EXCEPT ![c] = "look"]
  /\ UNCHANGED <<vault, onDisk, why, mem, next, made, refused>>

StartSave(c, cause, decision, payload) ==
  /\ pc' = [pc EXCEPT ![c] = "write"]
  /\ why' = [why EXCEPT ![c] = [cause |-> cause, decision |-> decision]]
  /\ next' = [next EXCEPT ![c] = payload]

\* The vault is read without what this build retired, and written back
\* without it under the lock.
ReadVault(c) ==
  /\ pc[c] = "look"
  /\ vault.file \in {"old", "current"}
  /\ LET payload == [vault EXCEPT !.file = "current"]
     IN  /\ mem' = [mem EXCEPT ![c] = payload]
         /\ IF vault.file = "old" /\ lock = c
            THEN StartSave(c, "retire", 0, payload)
            ELSE /\ pc' = [pc EXCEPT ![c] = "open"]
                 /\ UNCHANGED <<why, next>>
  /\ UNCHANGED <<lock, vault, onDisk, strays, tmp, made, refused>>

\* Only a vault that is certainly absent is created.
CreateVault(c) ==
  /\ pc[c] = "look"
  /\ vault.file = "absent"
  /\ mem' = [mem EXCEPT ![c] = Default]
  /\ StartSave(c, "create", 0, Default)
  /\ UNCHANGED <<lock, vault, onDisk, strays, tmp, made, refused>>

-----------------------------------------------------------------------------
(***************************************************************************)
(* Working on it.                                                          *)
(***************************************************************************)

Commit(c) ==
  /\ pc[c] = "open"
  /\ made < MaxDecisions
  /\ made' = made + 1
  /\ StartSave(c, "commit", made + 1,
               [mem[c] EXCEPT !.decided = @ \cup {made + 1}])
  /\ UNCHANGED <<lock, vault, onDisk, strays, tmp, mem, refused>>

\* A sync, more history, an address revealed.
Apply(c) ==
  /\ pc[c] = "open"
  /\ mem[c].chain < MaxChain
  /\ mem' = [mem EXCEPT ![c].chain = @ + 1]
  /\ StartSave(c, "apply", 0, mem'[c])
  /\ UNCHANGED <<lock, vault, onDisk, strays, tmp, made, refused>>

-----------------------------------------------------------------------------
(***************************************************************************)
(* A save, step by step.                                                   *)
(***************************************************************************)
Write(c) ==
  /\ pc[c] = "write"
  /\ tmp' = [tmp EXCEPT ![c] = "torn"]
  /\ pc' = [pc EXCEPT ![c] = "sync"]
  /\ UNCHANGED <<lock, vault, onDisk, strays, why, mem, next, made, refused>>

\* The bytes are not flushed before the rename.
MutSync(c) ==
  /\ pc[c] = "sync"
  /\ tmp[c] = "torn"
  /\ pc' = [pc EXCEPT ![c] = "rename"]
  /\ UNCHANGED <<lock, vault, onDisk, strays, tmp, why, mem, next, made,
                 refused>>

Sync(c) ==
  /\ pc[c] = "sync"
  /\ tmp[c] = "torn"
  /\ tmp' = [tmp EXCEPT ![c] = "synced"]
  /\ pc' = [pc EXCEPT ![c] = "rename"]
  /\ UNCHANGED <<lock, vault, onDisk, strays, why, mem, next, made, refused>>

Rename(c) ==
  /\ pc[c] = "rename"
  /\ tmp[c] # "none"
  /\ vault' = next[c]
  /\ onDisk' = onDisk \cup {IF tmp[c] = "synced" THEN next[c] ELSE Torn}
  /\ tmp' = [tmp EXCEPT ![c] = "none"]
  /\ pc' = [pc EXCEPT ![c] = "flush"]
  /\ UNCHANGED <<lock, strays, why, mem, next, made, refused>>

\* The rename is flushed where the platform allows it, and the save is made
\* whether it is or not: a commit becomes the state.
Flush(c) ==
  /\ pc[c] = "flush"
  /\ onDisk' \in {onDisk, {vault}}
  /\ mem' = [mem EXCEPT ![c] = IF why[c].cause = "commit" THEN next[c] ELSE @]
  /\ pc' = [pc EXCEPT ![c] = "open"]
  /\ UNCHANGED <<lock, vault, strays, tmp, why, next, made, refused>>

LetGo(c) == lock' = IF lock = c THEN NONE ELSE lock

\* The temporary is removed, unless that fails too.  A vault that could not
\* be created is not opened; a retired field waits for the next save; a
\* commit leaves the state as it was.
SaveFails(c) ==
  /\ pc[c] \in {"write", "sync", "rename"}
  /\ strays' \in IF tmp[c] = "none" THEN {strays} ELSE {strays, "some"}
  /\ tmp' = [tmp EXCEPT ![c] = "none"]
  /\ refused' = IF why[c].cause = "commit" THEN refused \cup {why[c].decision}
                ELSE refused
  /\ IF why[c].cause = "create"
     THEN LetGo(c) /\ pc' = [pc EXCEPT ![c] = "closed"]
     ELSE lock' = lock /\ pc' = [pc EXCEPT ![c] = "open"]
  /\ UNCHANGED <<vault, onDisk, why, mem, next, made>>

-----------------------------------------------------------------------------
(***************************************************************************)
(* What ends a copy, or all of them.                                       *)
(***************************************************************************)

\* A copy is closed, an open fails, or a process dies: its lock goes with
\* it, its temporary stays.
Exit(c) ==
  /\ pc[c] # "closed"
  /\ LetGo(c)
  /\ strays' = IF tmp[c] = "none" THEN strays ELSE "some"
  /\ tmp' = [tmp EXCEPT ![c] = "none"]
  /\ pc' = [pc EXCEPT ![c] = "closed"]
  /\ mem' = [mem EXCEPT ![c] = Default]
  /\ next' = [next EXCEPT ![c] = Default]
  /\ UNCHANGED <<vault, onDisk, why, made, refused>>

PowerLoss ==
  /\ vault' \in onDisk
  /\ onDisk' = {vault'}
  /\ lock' = NONE
  /\ strays' \in {"none", "some"}
  /\ tmp' = [c \in Copies |-> "none"]
  /\ pc' = [c \in Copies |-> "closed"]
  /\ mem' = [c \in Copies |-> Default]
  /\ next' = [c \in Copies |-> Default]
  /\ UNCHANGED <<why, made, refused>>

Step(c) ==
  \/ Open(c) \/ ReadVault(c) \/ CreateVault(c)
  \/ Commit(c) \/ Apply(c)
  \/ Write(c) \/ Sync(c) \/ Rename(c) \/ Flush(c) \/ SaveFails(c)
  \/ Exit(c)

Next ==
  /\ (\E c \in Copies : Step(c)) \/ PowerLoss
  /\ UNCHANGED lockable

Spec == Init /\ [][Next]_vars

-----------------------------------------------------------------------------
(***************************************************************************)
(* Properties.                                                             *)
(***************************************************************************)
TypeOK ==
  /\ lockable \in BOOLEAN
  /\ lock \in Copies \cup {NONE}
  /\ vault \in File /\ onDisk \subseteq File /\ onDisk # {}
  /\ strays \in {"none", "some"}
  /\ tmp \in [Copies -> {"none", "torn", "synced"}]
  /\ pc \in [Copies -> PCs] /\ why \in [Copies -> Cause]
  /\ mem \in [Copies -> File] /\ next \in [Copies -> File]
  /\ made \in 0..MaxDecisions /\ refused \subseteq Decision

\* Neither a crash in the middle of a save nor a power loss right after its
\* rename leaves a truncated vault, with however many copies (Vault::save).
NeverTorn ==
  vault.file # "torn" /\ \A f \in onDisk : f.file # "torn"

\* A decision whose commit returned an error is nowhere: not in memory, not
\* in the vault, and no later save made for something else writes it
\* (ManagerState::commit).
RefusedStaysOut ==
  /\ refused \cap vault.decided = {}
  /\ \A f \in onDisk : refused \cap f.decided = {}
  /\ \A c \in Copies : refused \cap mem[c].decided = {}

\* Nobody's temporary file is removed under its save (open_or_create).
NotUnderfoot ==
  \A c \in Copies :
    /\ pc[c] = "sync" => tmp[c] = "torn"
    /\ pc[c] = "rename" => tmp[c] = "synced"

\* Between two saves, what a copy that holds the lock works on and what the
\* vault holds are the same decisions, and the copy's chain state is no
\* older than the vault's.
InStep ==
  \A c \in Copies : (lock = c /\ pc[c] = "open") =>
    /\ mem[c].decided = vault.decided
    /\ mem[c].chain >= vault.chain

\* Where the file system locks, the vault keeps every decision it accepted,
\* and a power loss takes back none that the directory was flushed after.
promised == IF lockable THEN vault.decided ELSE {}
firmly == {d \in promised : \A f \in onDisk : d \in f.decided}
Kept == INSTANCE Decisions WITH kept <- promised, firm <- firmly
KeepsDecisions == Kept!Spec

\* Together, with their types: what holds of a vault at every step of every
\* save, crash and power loss.
VaultInv == TypeOK /\ NeverTorn /\ RefusedStaysOut /\ NotUnderfoot /\ InStep
=============================================================================
