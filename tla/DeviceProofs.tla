---------------------------- MODULE DeviceProofs ----------------------------
(***************************************************************************)
(* Proofs about the vault and the lock of the app, which share no state.   *)
(*                                                                         *)
(* The vault, for every set of copies, on a file system that locks and on  *)
(* one that does not: what VaultInv says of every state, and that a vault  *)
(* on a file system that locks implements Decisions.                       *)
(*                                                                         *)
(* The delays after wrong guesses, for any number of callers, any secrets, *)
(* delays and clocks: nobody is kept out longer than the longest delay,    *)
(* and no guess is looked at early, across restarts and clocks that are    *)
(* moved.                                                                  *)
(***************************************************************************)
EXTENDS Vault, AppLock, FiniteSetTheorems, TLAPS


\* The steps of a save at which it may still fail.
Before == {"write", "sync", "rename"}

Uncommitted(c) == pc[c] \in Before /\ why[c].cause = "commit"

\* The lock file is only held where the file system locks, and there nobody
\* works on the vault without it.
HolderInv ==
  /\ lock # NONE => lockable
  /\ \A c \in Copies : (lockable /\ pc[c] # "closed") => lock = c

\* A copy only holds what this build writes, and nothing is read of a vault
\* that is absent.
FileInv ==
  /\ \A c \in Copies : mem[c].file = "current" /\ next[c].file = "current"
  /\ vault.file = "absent" => vault = Absent
  /\ \A f \in onDisk : f.file = "absent" => f = Absent

\* Neither the vault nor what a rename replaced is a part of a file, and no
\* temporary goes under its save.
WholeInv == FileInv /\ NeverTorn /\ NotUnderfoot

\* Everything written holds decisions that were made.
MadeInv ==
  /\ vault.decided \subseteq 1..made
  /\ \A f \in onDisk : f.decided \subseteq 1..made
  /\ \A c \in Copies : mem[c].decided \subseteq 1..made
  /\ \A c \in Copies : next[c].decided \subseteq 1..made
  /\ refused \subseteq 1..made

\* A decision whose commit is not renamed yet is in the payload of its own
\* save and nowhere else.
FreshInv ==
  \A c \in Copies : Uncommitted(c) =>
    /\ why[c].decision \in 1..made
    /\ why[c].decision \notin vault.decided
    /\ \A f \in onDisk : why[c].decision \notin f.decided
    /\ \A b \in Copies : why[c].decision \notin mem[b].decided
    /\ \A b \in Copies \ {c} :
         pc[b] \in Saving => why[c].decision \notin next[b].decided

\* No save under way writes a decision that was refused.
OutInv ==
  /\ RefusedStaysOut
  /\ \A c \in Copies : pc[c] \in Saving => refused \cap next[c].decided = {}

\* What the holder of the lock works on, what its save writes and what the
\* vault holds, at each step of the save.
HeldInv ==
  \A c \in Copies : lock = c =>
    /\ pc[c] \in Before \cup {"open"} =>
         mem[c].decided = vault.decided /\ mem[c].chain >= vault.chain
    /\ pc[c] \in Saving /\ why[c].cause = "commit" =>
         next[c] = [mem[c] EXCEPT !.decided = @ \cup {why[c].decision}]
    /\ pc[c] \in Saving /\ why[c].cause # "commit" => next[c] = mem[c]
    /\ pc[c] = "flush" => vault = next[c]

\* Where the file system locks, no file a power loss may bring back holds a
\* decision the vault does not.
DiskInv == lockable => \A f \in onDisk : f.decided \subseteq vault.decided

IInv ==
  /\ TypeOK /\ HolderInv /\ FileInv /\ NeverTorn /\ NotUnderfoot
  /\ MadeInv /\ FreshInv /\ OutInv /\ HeldInv /\ DiskInv

-----------------------------------------------------------------------------
\* How an opened vault is gone on with: written back, or worked on.
Retires(c, p) ==
  /\ pc' = [pc EXCEPT ![c] = "write"]
  /\ why' = [why EXCEPT ![c] = [cause |-> "retire", decision |-> 0]]
  /\ next' = [next EXCEPT ![c] = p]

Reads(c) ==
  /\ pc' = [pc EXCEPT ![c] = "open"]
  /\ UNCHANGED <<why, next>>

\* A vault that is opened is worked on with the decisions it holds, whether
\* it is written back first or not (ReadVault).
LEMMA ReadTakes ==
  ASSUME IInv, NEW c \in Copies, ReadVault(c)
  PROVE  \E p \in File :
           /\ p.decided = vault.decided /\ mem' = [mem EXCEPT ![c] = p]
           /\ Retires(c, p) \/ Reads(c)
<1> DEFINE payload == [vault EXCEPT !.file = "current"]
<1>1. payload \in File /\ payload.decided = vault.decided
  BY DEF IInv, TypeOK, File
<1>2. mem' = [mem EXCEPT ![c] = payload] /\ (Retires(c, payload) \/ Reads(c))
  BY DEF ReadVault, StartSave, Retires, Reads
<1> QED BY <1>1, <1>2

\* The payload of a vault that was just created is one.
LEMMA DefaultIsFile == Default \in File
BY DEF Default, File

\* A rename puts what the save meant to write at the vault's name: the
\* temporary was flushed.
LEMMA RenameWhole ==
  ASSUME IInv, NEW c \in Copies, Rename(c)
  PROVE  onDisk' = onDisk \cup {next[c]}
BY DEF IInv, NotUnderfoot, Rename

\* Every step keeps the types.
LEMMA TypeStep == IInv /\ [Next]_vars => TypeOK'
<1> SUFFICES ASSUME IInv, [Next]_vars PROVE TypeOK'
  OBVIOUS
<1> USE VaultAssumption DEF IInv, TypeOK, PCs, Saving, Cause
<1>1. ASSUME NEW c \in Copies, Open(c), UNCHANGED lockable PROVE TypeOK'
  BY <1>1 DEF Open
<1>2. ASSUME NEW c \in Copies, ReadVault(c), UNCHANGED lockable PROVE TypeOK'
  <2>1. PICK p \in File :
          /\ p.decided = vault.decided /\ mem' = [mem EXCEPT ![c] = p]
          /\ Retires(c, p) \/ Reads(c)
    BY <1>2, ReadTakes
  <2>2. /\ UNCHANGED <<lockable, vault, onDisk, lock, tmp, strays, made,
                        refused>>
        /\ pc[c] = "look"
    BY <1>2 DEF ReadVault
  <2>3. CASE Retires(c, p)
    BY <2>1, <2>2, <2>3 DEF Retires
  <2>4. CASE Reads(c)
    BY <2>1, <2>2, <2>4 DEF Reads
  <2> QED BY <2>1, <2>3, <2>4
<1>3. ASSUME NEW c \in Copies, CreateVault(c), UNCHANGED lockable PROVE TypeOK'
  BY <1>3, DefaultIsFile DEF CreateVault, StartSave
<1>4. ASSUME NEW c \in Copies, Commit(c), UNCHANGED lockable PROVE TypeOK'
  <2>1. /\ made + 1 \in Decision /\ made + 1 \in Nat
        /\ made + 1 \in 0..MaxDecisions
    BY <1>4 DEF Commit, Decision
  <2>2. [mem[c] EXCEPT !.decided = @ \cup {made + 1}] \in File
    BY <2>1 DEF File
  <2> QED BY <1>4, <2>1, <2>2 DEF Commit, StartSave
<1>5. ASSUME NEW c \in Copies, Apply(c), UNCHANGED lockable PROVE TypeOK'
  <2>0. mem[c] \in File
    OBVIOUS
  <2>1. [mem[c] EXCEPT !.chain = @ + 1] \in File
    BY ONLY <2>0 DEF File
  <2>2. mem' = [mem EXCEPT ![c] = [mem[c] EXCEPT !.chain = @ + 1]]
    BY <1>5 DEF Apply
  <2>3. mem' \in [Copies -> File] /\ mem'[c] \in File
    BY <2>1, <2>2
  <2> QED BY <1>5, <2>3 DEF Apply, StartSave
<1>6. ASSUME NEW c \in Copies, Write(c), UNCHANGED lockable PROVE TypeOK'
  BY <1>6 DEF Write
<1>7. ASSUME NEW c \in Copies, Sync(c), UNCHANGED lockable PROVE TypeOK'
  BY <1>7 DEF Sync
<1>8. ASSUME NEW c \in Copies, Rename(c), UNCHANGED lockable PROVE TypeOK'
  <2>1. onDisk' = onDisk \cup {next[c]}
    BY <1>8, RenameWhole
  <2> QED BY <1>8, <2>1 DEF Rename
<1>9. ASSUME NEW c \in Copies, Flush(c), UNCHANGED lockable PROVE TypeOK'
  BY <1>9 DEF Flush
<1>10. ASSUME NEW c \in Copies, SaveFails(c), UNCHANGED lockable PROVE TypeOK'
  <2>0. why[c].cause = "commit" => why[c].decision \in Decision
    BY <1>10 DEF SaveFails, FreshInv, Uncommitted, Before, Decision
  <2>1. refused' \subseteq Decision
    BY <1>10, <2>0 DEF SaveFails
  <2>2. pc' \in [Copies -> PCs] /\ lock' \in Copies \cup {NONE}
    BY <1>10 DEF SaveFails, LetGo
  <2> QED BY <1>10, <2>1, <2>2 DEF SaveFails
<1>11. ASSUME NEW c \in Copies, Exit(c), UNCHANGED lockable PROVE TypeOK'
  BY <1>11, DefaultIsFile DEF Exit, LetGo
<1>12. CASE PowerLoss /\ UNCHANGED lockable
  BY <1>12, DefaultIsFile DEF PowerLoss
<1>13. CASE UNCHANGED vars
  BY <1>13 DEF vars
<1> QED
  BY <1>1, <1>2, <1>3, <1>4, <1>5, <1>6, <1>7, <1>8, <1>9, <1>10, <1>11,
     <1>12, <1>13 DEF Next, Step

\* Every step leaves the lock to the copy that works on the vault: it is let
\* go with the copy, and a power loss closes all of them.
LEMMA HolderStep == IInv /\ [Next]_vars => HolderInv'
<1> SUFFICES ASSUME IInv, [Next]_vars PROVE HolderInv'
  OBVIOUS
<1> USE VaultAssumption DEF IInv, TypeOK, HolderInv
<1>1. ASSUME NEW c \in Copies, Open(c), UNCHANGED lockable PROVE HolderInv'
  BY <1>1 DEF Open
<1>2. ASSUME NEW c \in Copies, ReadVault(c), UNCHANGED lockable
      PROVE  HolderInv'
  BY <1>2 DEF ReadVault, StartSave
<1>3. ASSUME NEW c \in Copies, CreateVault(c), UNCHANGED lockable
      PROVE  HolderInv'
  BY <1>3 DEF CreateVault, StartSave
<1>4. ASSUME NEW c \in Copies, Commit(c), UNCHANGED lockable PROVE HolderInv'
  BY <1>4 DEF Commit, StartSave
<1>5. ASSUME NEW c \in Copies, Apply(c), UNCHANGED lockable PROVE HolderInv'
  BY <1>5 DEF Apply, StartSave
<1>6. ASSUME NEW c \in Copies, Write(c), UNCHANGED lockable PROVE HolderInv'
  BY <1>6 DEF Write
<1>7. ASSUME NEW c \in Copies, Sync(c), UNCHANGED lockable PROVE HolderInv'
  BY <1>7 DEF Sync
<1>8. ASSUME NEW c \in Copies, Rename(c), UNCHANGED lockable PROVE HolderInv'
  BY <1>8 DEF Rename
<1>9. ASSUME NEW c \in Copies, Flush(c), UNCHANGED lockable PROVE HolderInv'
  BY <1>9 DEF Flush
<1>10. ASSUME NEW c \in Copies, SaveFails(c), UNCHANGED lockable
       PROVE  HolderInv'
  BY <1>10 DEF SaveFails, LetGo
<1>11. ASSUME NEW c \in Copies, Exit(c), UNCHANGED lockable PROVE HolderInv'
  BY <1>11 DEF Exit, LetGo
<1>12. CASE PowerLoss /\ UNCHANGED lockable
  BY <1>12 DEF PowerLoss
<1>13. CASE UNCHANGED vars
  BY <1>13 DEF vars
<1> QED
  BY <1>1, <1>2, <1>3, <1>4, <1>5, <1>6, <1>7, <1>8, <1>9, <1>10, <1>11,
     <1>12, <1>13 DEF Next, Step

\* Only what was flushed is renamed over the vault, and the temporaries an
\* open removes are nobody's: under the lock no save is under way.
LEMMA FileStep == IInv /\ [Next]_vars => WholeInv'
<1> SUFFICES ASSUME IInv, [Next]_vars PROVE WholeInv'
  OBVIOUS
<1> USE VaultAssumption DEF IInv, TypeOK, WholeInv, HolderInv, FileInv,
        NeverTorn, NotUnderfoot, Default, Absent, Torn, File
<1>1. ASSUME NEW c \in Copies, Open(c), UNCHANGED lockable PROVE WholeInv'
  BY <1>1 DEF Open
<1>2. ASSUME NEW c \in Copies, ReadVault(c), UNCHANGED lockable PROVE WholeInv'
  BY <1>2 DEF ReadVault, StartSave
<1>3. ASSUME NEW c \in Copies, CreateVault(c), UNCHANGED lockable
      PROVE  WholeInv'
  BY <1>3 DEF CreateVault, StartSave
<1>4. ASSUME NEW c \in Copies, Commit(c), UNCHANGED lockable PROVE WholeInv'
  BY <1>4 DEF Commit, StartSave
<1>5. ASSUME NEW c \in Copies, Apply(c), UNCHANGED lockable PROVE WholeInv'
  BY <1>5 DEF Apply, StartSave
<1>6. ASSUME NEW c \in Copies, Write(c), UNCHANGED lockable PROVE WholeInv'
  BY <1>6 DEF Write
<1>7. ASSUME NEW c \in Copies, Sync(c), UNCHANGED lockable PROVE WholeInv'
  BY <1>7 DEF Sync
<1>8. ASSUME NEW c \in Copies, Rename(c), UNCHANGED lockable PROVE WholeInv'
  BY <1>8 DEF Rename
<1>9. ASSUME NEW c \in Copies, Flush(c), UNCHANGED lockable PROVE WholeInv'
  BY <1>9 DEF Flush
<1>10. ASSUME NEW c \in Copies, SaveFails(c), UNCHANGED lockable
       PROVE  WholeInv'
  BY <1>10 DEF SaveFails, LetGo
<1>11. ASSUME NEW c \in Copies, Exit(c), UNCHANGED lockable PROVE WholeInv'
  BY <1>11 DEF Exit, LetGo
<1>12. CASE PowerLoss /\ UNCHANGED lockable
  BY <1>12 DEF PowerLoss
<1>13. CASE UNCHANGED vars
  BY <1>13 DEF vars
<1> QED
  BY <1>1, <1>2, <1>3, <1>4, <1>5, <1>6, <1>7, <1>8, <1>9, <1>10, <1>11,
     <1>12, <1>13 DEF Next, Step

\* No step writes a decision before it is made.
LEMMA MadeStep == IInv /\ [Next]_vars => MadeInv'
<1> SUFFICES ASSUME IInv, [Next]_vars PROVE MadeInv'
  OBVIOUS
<1> USE VaultAssumption DEF IInv, TypeOK, MadeInv, Default
<1>1. ASSUME NEW c \in Copies, Open(c), UNCHANGED lockable PROVE MadeInv'
  BY <1>1 DEF Open
<1>2. ASSUME NEW c \in Copies, ReadVault(c), UNCHANGED lockable PROVE MadeInv'
  <2>1. PICK p \in File :
          /\ p.decided = vault.decided /\ mem' = [mem EXCEPT ![c] = p]
          /\ Retires(c, p) \/ Reads(c)
    BY <1>2, ReadTakes
  <2>2. /\ UNCHANGED <<lockable, vault, onDisk, lock, tmp, strays, made,
                        refused>>
        /\ pc[c] = "look"
    BY <1>2 DEF ReadVault
  <2>3. CASE Retires(c, p)
    BY <2>1, <2>2, <2>3 DEF Retires
  <2>4. CASE Reads(c)
    BY <2>1, <2>2, <2>4 DEF Reads
  <2> QED BY <2>1, <2>3, <2>4
<1>3. ASSUME NEW c \in Copies, CreateVault(c), UNCHANGED lockable
      PROVE  MadeInv'
  BY <1>3 DEF CreateVault, StartSave
<1>4. ASSUME NEW c \in Copies, Commit(c), UNCHANGED lockable PROVE MadeInv'
  BY <1>4 DEF Commit, StartSave
<1>5. ASSUME NEW c \in Copies, Apply(c), UNCHANGED lockable PROVE MadeInv'
  BY <1>5 DEF Apply, StartSave
<1>6. ASSUME NEW c \in Copies, Write(c), UNCHANGED lockable PROVE MadeInv'
  BY <1>6 DEF Write
<1>7. ASSUME NEW c \in Copies, Sync(c), UNCHANGED lockable PROVE MadeInv'
  BY <1>7 DEF Sync
<1>8. ASSUME NEW c \in Copies, Rename(c), UNCHANGED lockable PROVE MadeInv'
  <2>1. onDisk' = onDisk \cup {next[c]}
    BY <1>8, RenameWhole
  <2> QED BY <1>8, <2>1 DEF Rename
<1>9. ASSUME NEW c \in Copies, Flush(c), UNCHANGED lockable PROVE MadeInv'
  BY <1>9 DEF Flush
<1>10. ASSUME NEW c \in Copies, SaveFails(c), UNCHANGED lockable PROVE MadeInv'
  BY <1>10 DEF SaveFails, LetGo, FreshInv, Uncommitted, Before
<1>11. ASSUME NEW c \in Copies, Exit(c), UNCHANGED lockable PROVE MadeInv'
  BY <1>11 DEF Exit, LetGo
<1>12. CASE PowerLoss /\ UNCHANGED lockable
  BY <1>12 DEF PowerLoss
<1>13. CASE UNCHANGED vars
  BY <1>13 DEF vars
<1> QED
  BY <1>1, <1>2, <1>3, <1>4, <1>5, <1>6, <1>7, <1>8, <1>9, <1>10, <1>11,
     <1>12, <1>13 DEF Next, Step

\* A commit's decision stays in its own save until the rename, whatever the
\* other copies read, commit and save in the meantime.
LEMMA FreshStep == IInv /\ [Next]_vars => FreshInv'
<1> SUFFICES ASSUME IInv, [Next]_vars PROVE FreshInv'
  OBVIOUS
<1> USE VaultAssumption DEF IInv, TypeOK, MadeInv, FreshInv, Default, File,
        Before, Saving, Uncommitted
<1>1. ASSUME NEW c \in Copies, Open(c), UNCHANGED lockable PROVE FreshInv'
  BY <1>1 DEF Open
<1>2. ASSUME NEW c \in Copies, ReadVault(c), UNCHANGED lockable PROVE FreshInv'
  <2>1. PICK p \in File :
          /\ p.decided = vault.decided /\ mem' = [mem EXCEPT ![c] = p]
          /\ Retires(c, p) \/ Reads(c)
    BY <1>2, ReadTakes
  <2>2. /\ UNCHANGED <<lockable, vault, onDisk, lock, tmp, strays, made,
                        refused>>
        /\ pc[c] = "look"
    BY <1>2 DEF ReadVault
  <2>3. CASE Retires(c, p)
    BY <2>1, <2>2, <2>3 DEF Retires
  <2>4. CASE Reads(c)
    BY <2>1, <2>2, <2>4 DEF Reads
  <2> QED BY <2>1, <2>3, <2>4
<1>3. ASSUME NEW c \in Copies, CreateVault(c), UNCHANGED lockable
      PROVE  FreshInv'
  BY <1>3 DEF CreateVault, StartSave
<1>4. ASSUME NEW c \in Copies, Commit(c), UNCHANGED lockable PROVE FreshInv'
  BY <1>4 DEF Commit, StartSave
<1>5. ASSUME NEW c \in Copies, Apply(c), UNCHANGED lockable PROVE FreshInv'
  BY <1>5 DEF Apply, StartSave
<1>6. ASSUME NEW c \in Copies, Write(c), UNCHANGED lockable PROVE FreshInv'
  BY <1>6 DEF Write
<1>7. ASSUME NEW c \in Copies, Sync(c), UNCHANGED lockable PROVE FreshInv'
  BY <1>7 DEF Sync
<1>8. ASSUME NEW c \in Copies, Rename(c), UNCHANGED lockable PROVE FreshInv'
  <2>1. onDisk' = onDisk \cup {next[c]}
    BY <1>8, RenameWhole
  <2> QED BY <1>8, <2>1 DEF Rename
<1>9. ASSUME NEW c \in Copies, Flush(c), UNCHANGED lockable PROVE FreshInv'
  BY <1>9 DEF Flush
<1>10. ASSUME NEW c \in Copies, SaveFails(c), UNCHANGED lockable
       PROVE  FreshInv'
  BY <1>10 DEF SaveFails, LetGo
<1>11. ASSUME NEW c \in Copies, Exit(c), UNCHANGED lockable PROVE FreshInv'
  BY <1>11 DEF Exit, LetGo
<1>12. CASE PowerLoss /\ UNCHANGED lockable
  BY <1>12 DEF PowerLoss
<1>13. CASE UNCHANGED vars
  BY <1>13 DEF vars
<1> QED
  BY <1>1, <1>2, <1>3, <1>4, <1>5, <1>6, <1>7, <1>8, <1>9, <1>10, <1>11,
     <1>12, <1>13 DEF Next, Step

\* A save that fails takes its decision with it, and no later one brings it
\* back.
LEMMA OutStep == IInv /\ [Next]_vars => OutInv'
<1> SUFFICES ASSUME IInv, [Next]_vars PROVE OutInv'
  OBVIOUS
<1> USE VaultAssumption DEF IInv, TypeOK, MadeInv, FreshInv, OutInv,
        RefusedStaysOut, Default, File, Before, Saving, Uncommitted
<1>1. ASSUME NEW c \in Copies, Open(c), UNCHANGED lockable PROVE OutInv'
  BY <1>1 DEF Open
<1>2. ASSUME NEW c \in Copies, ReadVault(c), UNCHANGED lockable PROVE OutInv'
  <2>1. PICK p \in File :
          /\ p.decided = vault.decided /\ mem' = [mem EXCEPT ![c] = p]
          /\ Retires(c, p) \/ Reads(c)
    BY <1>2, ReadTakes
  <2>2. /\ UNCHANGED <<lockable, vault, onDisk, lock, tmp, strays, made,
                        refused>>
        /\ pc[c] = "look"
    BY <1>2 DEF ReadVault
  <2>3. CASE Retires(c, p)
    BY <2>1, <2>2, <2>3 DEF Retires
  <2>4. CASE Reads(c)
    BY <2>1, <2>2, <2>4 DEF Reads
  <2> QED BY <2>1, <2>3, <2>4
<1>3. ASSUME NEW c \in Copies, CreateVault(c), UNCHANGED lockable PROVE OutInv'
  BY <1>3 DEF CreateVault, StartSave
<1>4. ASSUME NEW c \in Copies, Commit(c), UNCHANGED lockable PROVE OutInv'
  BY <1>4 DEF Commit, StartSave
<1>5. ASSUME NEW c \in Copies, Apply(c), UNCHANGED lockable PROVE OutInv'
  BY <1>5 DEF Apply, StartSave
<1>6. ASSUME NEW c \in Copies, Write(c), UNCHANGED lockable PROVE OutInv'
  BY <1>6 DEF Write
<1>7. ASSUME NEW c \in Copies, Sync(c), UNCHANGED lockable PROVE OutInv'
  BY <1>7 DEF Sync
<1>8. ASSUME NEW c \in Copies, Rename(c), UNCHANGED lockable PROVE OutInv'
  <2>1. onDisk' = onDisk \cup {next[c]}
    BY <1>8, RenameWhole
  <2> QED BY <1>8, <2>1 DEF Rename
<1>9. ASSUME NEW c \in Copies, Flush(c), UNCHANGED lockable PROVE OutInv'
  BY <1>9 DEF Flush
<1>10. ASSUME NEW c \in Copies, SaveFails(c), UNCHANGED lockable PROVE OutInv'
  BY <1>10, SMTT(30) DEF SaveFails, LetGo
<1>11. ASSUME NEW c \in Copies, Exit(c), UNCHANGED lockable PROVE OutInv'
  BY <1>11 DEF Exit, LetGo
<1>12. CASE PowerLoss /\ UNCHANGED lockable
  BY <1>12 DEF PowerLoss
<1>13. CASE UNCHANGED vars
  BY <1>13 DEF vars
<1> QED
  BY <1>1, <1>2, <1>3, <1>4, <1>5, <1>6, <1>7, <1>8, <1>9, <1>10, <1>11,
     <1>12, <1>13 DEF Next, Step

\* Under the lock a save starts from the vault's decisions and ends with
\* them, or with one more.
LEMMA HeldStep == IInv /\ [Next]_vars => HeldInv'
<1> SUFFICES ASSUME IInv, [Next]_vars PROVE HeldInv'
  OBVIOUS
<1> USE VaultAssumption DEF IInv, TypeOK, HolderInv, HeldInv, FileInv,
        Default, Absent, File, Before, Saving
<1>1. ASSUME NEW c \in Copies, Open(c), UNCHANGED lockable PROVE HeldInv'
  BY <1>1 DEF Open
<1>2. ASSUME NEW c \in Copies, ReadVault(c), UNCHANGED lockable PROVE HeldInv'
  <2> DEFINE payload == [vault EXCEPT !.file = "current"]
  <2> USE <1>2
  <2>1. /\ mem' = [mem EXCEPT ![c] = payload]
        /\ UNCHANGED <<lock, vault>>
    BY DEF ReadVault
  <2>2. /\ mem'[c] = payload
        /\ payload.decided = vault.decided
        /\ payload.chain = vault.chain
        /\ payload.chain >= vault.chain
    BY <2>1
  <2>3. CASE vault.file = "old" /\ lock = c
    <3>1. StartSave(c, "retire", 0, payload)
      BY <2>3 DEF ReadVault
    <3>2. /\ pc'[c] = "write" /\ next'[c] = payload
          /\ why'[c].cause = "retire"
      BY <3>1 DEF StartSave
    <3> QED BY <2>1, <2>2, <2>3, <3>2
  <2>4. CASE ~(vault.file = "old" /\ lock = c)
    <3>1. pc' = [pc EXCEPT ![c] = "open"] /\ UNCHANGED <<why, next>>
      BY <2>4 DEF ReadVault
    <3> QED BY <2>1, <2>2, <3>1
  <2> QED BY <2>3, <2>4
<1>3. ASSUME NEW c \in Copies, CreateVault(c), UNCHANGED lockable
      PROVE  HeldInv'
  BY <1>3 DEF CreateVault, StartSave
<1>4. ASSUME NEW c \in Copies, Commit(c), UNCHANGED lockable PROVE HeldInv'
  BY <1>4 DEF Commit, StartSave
<1>5. ASSUME NEW c \in Copies, Apply(c), UNCHANGED lockable PROVE HeldInv'
  BY <1>5 DEF Apply, StartSave
<1>6. ASSUME NEW c \in Copies, Write(c), UNCHANGED lockable PROVE HeldInv'
  BY <1>6 DEF Write
<1>7. ASSUME NEW c \in Copies, Sync(c), UNCHANGED lockable PROVE HeldInv'
  BY <1>7 DEF Sync
<1>8. ASSUME NEW c \in Copies, Rename(c), UNCHANGED lockable PROVE HeldInv'
  BY <1>8 DEF Rename
<1>9. ASSUME NEW c \in Copies, Flush(c), UNCHANGED lockable PROVE HeldInv'
  BY <1>9 DEF Flush
<1>10. ASSUME NEW c \in Copies, SaveFails(c), UNCHANGED lockable PROVE HeldInv'
  BY <1>10 DEF SaveFails, LetGo
<1>11. ASSUME NEW c \in Copies, Exit(c), UNCHANGED lockable PROVE HeldInv'
  BY <1>11 DEF Exit, LetGo
<1>12. CASE PowerLoss /\ UNCHANGED lockable
  BY <1>12 DEF PowerLoss
<1>13. CASE UNCHANGED vars
  BY <1>13 DEF vars
<1> QED
  BY <1>1, <1>2, <1>3, <1>4, <1>5, <1>6, <1>7, <1>8, <1>9, <1>10, <1>11,
     <1>12, <1>13 DEF Next, Step

\* Under the lock a rename only adds decisions, so that what it replaced
\* holds no other.
LEMMA DiskStep == IInv /\ [Next]_vars => DiskInv'
<1> SUFFICES ASSUME IInv, [Next]_vars PROVE DiskInv'
  OBVIOUS
<1> USE VaultAssumption DEF IInv, TypeOK, HolderInv, HeldInv, DiskInv,
        Default, Absent, File, Before, Saving
<1>1. ASSUME NEW c \in Copies, Open(c), UNCHANGED lockable PROVE DiskInv'
  BY <1>1 DEF Open
<1>2. ASSUME NEW c \in Copies, ReadVault(c), UNCHANGED lockable PROVE DiskInv'
  BY <1>2 DEF ReadVault, StartSave
<1>3. ASSUME NEW c \in Copies, CreateVault(c), UNCHANGED lockable
      PROVE  DiskInv'
  BY <1>3 DEF CreateVault, StartSave
<1>4. ASSUME NEW c \in Copies, Commit(c), UNCHANGED lockable PROVE DiskInv'
  BY <1>4 DEF Commit, StartSave
<1>5. ASSUME NEW c \in Copies, Apply(c), UNCHANGED lockable PROVE DiskInv'
  BY <1>5 DEF Apply, StartSave
<1>6. ASSUME NEW c \in Copies, Write(c), UNCHANGED lockable PROVE DiskInv'
  BY <1>6 DEF Write
<1>7. ASSUME NEW c \in Copies, Sync(c), UNCHANGED lockable PROVE DiskInv'
  BY <1>7 DEF Sync
<1>8. ASSUME NEW c \in Copies, Rename(c), UNCHANGED lockable PROVE DiskInv'
  <2>1. onDisk' = onDisk \cup {next[c]}
    BY <1>8, RenameWhole
  <2> QED BY <1>8, <2>1 DEF Rename
<1>9. ASSUME NEW c \in Copies, Flush(c), UNCHANGED lockable PROVE DiskInv'
  BY <1>9 DEF Flush
<1>10. ASSUME NEW c \in Copies, SaveFails(c), UNCHANGED lockable PROVE DiskInv'
  BY <1>10 DEF SaveFails, LetGo
<1>11. ASSUME NEW c \in Copies, Exit(c), UNCHANGED lockable PROVE DiskInv'
  BY <1>11 DEF Exit, LetGo
<1>12. CASE PowerLoss /\ UNCHANGED lockable
  BY <1>12 DEF PowerLoss
<1>13. CASE UNCHANGED vars
  BY <1>13 DEF vars
<1> QED
  BY <1>1, <1>2, <1>3, <1>4, <1>5, <1>6, <1>7, <1>8, <1>9, <1>10, <1>11,
     <1>12, <1>13 DEF Next, Step

-----------------------------------------------------------------------------
\* The first opening of a vault starts in the invariant, from a vault that
\* is absent or that an older build wrote.
LEMMA InitIInv == Init => IInv
<1> SUFFICES ASSUME Init PROVE IInv
  OBVIOUS
<1>1. vault \in File /\ vault.decided = {} /\ vault.file \in {"absent", "old"}
  BY DEF Init, Default, Absent, File
<1>2. TypeOK
  BY <1>1, VaultAssumption, DefaultIsFile DEF Init, TypeOK, PCs, Saving, Cause
<1>3. HolderInv /\ FileInv /\ NeverTorn /\ NotUnderfoot
  BY <1>1 DEF Init, HolderInv, FileInv, NeverTorn, NotUnderfoot, Default,
     Absent
<1>4. MadeInv /\ FreshInv /\ OutInv
  BY <1>1 DEF Init, MadeInv, FreshInv, Uncommitted, Before, OutInv,
              RefusedStaysOut, Default
<1>5. HeldInv /\ DiskInv
  BY <1>1, VaultAssumption DEF Init, HeldInv, DiskInv
<1> QED BY <1>2, <1>3, <1>4, <1>5 DEF IInv

\* The invariant holds at every step of every save, crash and power loss.
THEOREM Inductive == Spec => []IInv
<1>1. IInv /\ [Next]_vars => IInv'
  BY TypeStep, HolderStep, FileStep, MadeStep, FreshStep, OutStep, HeldStep,
     DiskStep DEF IInv, WholeInv
<1> QED BY InitIInv, <1>1, PTL DEF Spec

\* With any number of copies of the app on one data directory, on a file
\* system that locks or not: the vault is never torn, a decision whose
\* commit failed is nowhere, no temporary is removed under its save, and the
\* holder of the lock works on what the vault holds (Vault::save,
\* open_or_create, ManagerState::commit).
THEOREM VaultHolds == Spec => []VaultInv
<1>1. IInv => VaultInv
  <2> SUFFICES ASSUME IInv PROVE InStep
    BY DEF IInv, OutInv, VaultInv
  <2> QED BY DEF IInv, HeldInv, InStep, Before
<1> QED BY Inductive, <1>1, PTL

-----------------------------------------------------------------------------
(***************************************************************************)
(* A vault on a file system that locks implements Decisions: a rename for  *)
(* a commit accepts its decision, a flush settles what was accepted, and   *)
(* every other step of a copy shows nothing.                               *)
(***************************************************************************)

\* Nothing changes for a reader while the vault and the files under its
\* name hold what they held.
LEMMA SameFiles ==
  ASSUME UNCHANGED <<lockable, vault, onDisk>>
  PROVE  UNCHANGED Kept!vars
BY DEF Kept!vars, promised, firmly

\* A rename adds the decision of its commit, which no file a power loss may
\* bring back holds, or no decision at all (Rename).
LEMMA RenameAccepts ==
  ASSUME IInv, lockable, lockable' = lockable, NEW c \in Copies, Rename(c)
  PROVE  [Kept!Next]_(Kept!vars)
<1>1. lock = c /\ pc[c] = "rename" /\ vault' = next[c]
  BY DEF IInv, HolderInv, Rename
<1>2. onDisk' = onDisk \cup {next[c]}
  BY RenameWhole
<1>3. mem[c].decided = vault.decided /\ mem[c] \in File
  BY <1>1 DEF IInv, HeldInv, Before, TypeOK
<1>4. CASE why[c].cause = "commit"
  <2> DEFINE d == why[c].decision
  <2>1. next[c].decided = vault.decided \cup {d}
    BY <1>1, <1>3, <1>4, ZenonT(40) DEF IInv, HeldInv, Saving, File
  <2>2. /\ d \in Decision
        /\ \A f \in onDisk : d \notin f.decided
    <3>1. Uncommitted(c)
      BY <1>1, <1>4 DEF Uncommitted, Before
    <3>2. d \in 1..made /\ made \in 0..MaxDecisions
      BY <3>1 DEF IInv, FreshInv, TypeOK
    <3>3. d \in Decision
      BY <3>2, VaultAssumption DEF Decision
    <3> QED BY <3>1, <3>3 DEF IInv, FreshInv
  <2>3. onDisk # {}
    BY DEF IInv, TypeOK
  <2>4. promised' = promised \cup {d}
    BY <1>1, <2>1 DEF promised
  <2>5. firmly' = firmly
    <3>1. \A e : e \in firmly' <=>
            e \in promised' /\ \A f \in onDisk' : e \in f.decided
      BY DEF firmly
    <3>2. ASSUME NEW e PROVE e \in firmly' <=> e \in firmly
      <4>1. e \in firmly' <=>
              /\ e \in promised' /\ e \in next[c].decided
              /\ \A f \in onDisk : e \in f.decided
        BY <3>1, <1>2
      <4>2. e = d => e \notin firmly /\ e \notin firmly'
        BY <4>1, <2>2, <2>3 DEF firmly
      <4> QED BY <4>1, <4>2, <2>1, <2>4 DEF firmly, promised
    <3>3. firmly' \subseteq firmly /\ firmly \subseteq firmly'
      BY <3>2
    <3> QED BY <3>3
  <2>6. Kept!Accept(d)
    BY <2>4, <2>5 DEF Kept!Accept
  <2> QED BY <2>2, <2>6 DEF Kept!Next
<1>5. CASE why[c].cause # "commit"
  <2>1. next[c].decided = vault.decided
    BY <1>1, <1>3, <1>5 DEF IInv, HeldInv, Saving
  <2>2. promised' = promised
    BY <1>1, <2>1 DEF promised
  <2>3. firmly' = firmly
    BY <1>2, <2>1, <2>2 DEF firmly, promised
  <2> QED BY <2>2, <2>3 DEF Kept!vars
<1> QED BY <1>4, <1>5

\* The directory's flush leaves one file at the vault's name, the vault: all
\* it holds is firm (Flush).
LEMMA FlushSettles ==
  ASSUME lockable' = lockable, NEW c \in Copies, Flush(c)
  PROVE  [Kept!Next]_(Kept!vars)
<1>1. promised' = promised
  BY DEF Flush, promised
<1>2. CASE onDisk' = onDisk
  BY <1>2, SameFiles DEF Flush
<1>3. CASE onDisk' = {vault}
  <2>1. firmly' = promised
    <3>1. firmly' = {e \in promised' : \A f \in onDisk' : e \in f.decided}
      BY DEF firmly
    <3>2. \A e \in promised : e \in vault.decided
      BY DEF promised
    <3> QED BY <3>1, <3>2, <1>1, <1>3
  <2> QED BY <1>1, <2>1 DEF Kept!Settle, Kept!Next
<1> QED BY <1>2, <1>3 DEF Flush

\* A power loss leaves a file that holds no decision the vault did not, and
\* every one that all the files of that name held (PowerLoss).
LEMMA LossKeepsFirm ==
  ASSUME IInv, lockable, lockable' = lockable, PowerLoss
  PROVE  [Kept!Next]_(Kept!vars)
<1>1. vault' \in onDisk /\ onDisk' = {vault'}
  BY DEF PowerLoss
<1>2. promised' = vault'.decided /\ promised = vault.decided
  BY DEF promised
<1>3. promised' \subseteq promised
  BY <1>1, <1>2 DEF IInv, DiskInv
<1>4. firmly \subseteq promised'
  BY <1>1, <1>2 DEF firmly
<1>5. firmly' = promised'
  <2>1. firmly' = {e \in promised' : \A f \in onDisk' : e \in f.decided}
    BY DEF firmly
  <2> QED BY <2>1, <1>1, <1>2
<1>6. Kept!PowerLoss
  BY <1>3, <1>4, <1>5 DEF Kept!PowerLoss
<1> QED BY <1>6 DEF Kept!Next

\* Every step of the copies and of the machine is one of Decisions, or shows
\* nothing.
LEMMA StepKeeps == IInv /\ [Next]_vars => [Kept!Next]_(Kept!vars)
<1> SUFFICES ASSUME IInv, [Next]_vars PROVE [Kept!Next]_(Kept!vars)
  OBVIOUS
<1>1. CASE UNCHANGED <<lockable, vault, onDisk>>
  BY <1>1, SameFiles
<1>2. lockable' = lockable /\ lockable \in BOOLEAN
  BY DEF Next, vars, IInv, TypeOK
<1>3. CASE ~ lockable
  BY <1>2, <1>3 DEF Kept!vars, promised, firmly
<1>4. ASSUME lockable, NEW c \in Copies, Step(c) PROVE [Kept!Next]_(Kept!vars)
  <2>1. CASE Rename(c)
    BY <1>2, <1>4, <2>1, RenameAccepts
  <2>2. CASE Flush(c)
    BY <1>2, <2>2, FlushSettles
  <2>3. CASE ~ Rename(c) /\ ~ Flush(c)
    <3>1. UNCHANGED <<vault, onDisk>>
      BY <1>4, <2>3 DEF Step, Open, ReadVault, CreateVault, Commit, Apply,
           Write, Sync, SaveFails, Exit
    <3> QED BY <3>1, <1>2, <1>1
  <2> QED BY <2>1, <2>2, <2>3
<1>5. CASE lockable /\ PowerLoss
  BY <1>2, <1>5, LossKeepsFirm
<1>6. CASE UNCHANGED vars
  BY <1>6, <1>1 DEF vars
<1> QED BY <1>2, <1>3, <1>4, <1>5, <1>6 DEF Next

\* Where the file system locks, whatever the copies do and wherever they
\* crash, the vault keeps each decision it accepted, and a power loss takes
\* back none that a flush of the directory followed (Vault::save, commit).
THEOREM Refines == Spec => KeepsDecisions
<1>1. Init => Kept!Init
  BY DEF Init, Kept!Init, promised, firmly, Absent, Default
<1> QED BY <1>1, StepKeeps, Inductive, PTL DEF Spec, KeepsDecisions, Kept!Spec

-----------------------------------------------------------------------------
(* The lock of the app.                                                    *)

Record == [failures : 0..MaxFailures, until : Nat]

\* The wait for the next guess is in memory.
WaitInv ==
  /\ failed.at <= now
  /\ LeastWait > 0 => attempts.until >= failed.at + LeastWait

\* The record of a guess that cost a delay still holds it: the wall clock
\* only goes forward together with the monotonic one, unless somebody moves
\* it forward.
RecordInv ==
  (failed.written /\ failed.times >= FREE_ATTEMPTS) =>
    \E s \in Record :
      /\ stored = {s}
      /\ s.failures = failed.times /\ s.until > 0
      /\ ~ ClockForward =>
           s.until - unix >= failed.at + DelayAfter(failed.times) - now

Inv == LockTypeOK /\ BoundedBlock /\ WaitInv /\ RecordInv

-----------------------------------------------------------------------------
(***************************************************************************)
(* The delays.                                                             *)
(***************************************************************************)

\* The least of two numbers is one of them and no more than either.
LEMMA MinOfTwo ==
  ASSUME NEW a \in Int, NEW b \in Int
  PROVE  Min({a, b}) = IF a <= b THEN a ELSE b
BY DEF Min

\* The greatest of two numbers is one of them and no less than either.
LEMMA MaxOfTwo ==
  ASSUME NEW a \in Int, NEW b \in Int
  PROVE  Max({a, b}) = IF a <= b THEN b ELSE a
BY DEF Max

\* As far as the doublings go, they give a number, and not zero.
LEMMA Doublings ==
  ASSUME NEW n \in 0..16
  PROVE  2^n \in Nat /\ 2^n >= 1
<1> DEFINE P(k) == 2^k \in Nat /\ 2^k >= 1
<1>1. n \in {0, 1, 2, 3, 4, 5, 6, 7, 8, 9, 10, 11, 12, 13, 14, 15, 16}
  OBVIOUS
<1>2. P(0) /\ P(1) /\ P(2) /\ P(3) /\ P(4) /\ P(5) /\ P(6) /\ P(7) /\ P(8)
  OBVIOUS
<1>3. P(9) /\ P(10) /\ P(11) /\ P(12) /\ P(13) /\ P(14) /\ P(15) /\ P(16)
  OBVIOUS
<1>4. P(n)
  <2> HIDE DEF P
  <2> QED BY <1>1, <1>2, <1>3
<1> QED BY <1>4

\* A delay once the free attempts are spent is at least the first one, and
\* never more than the longest (delay_after).
LEMMA DelayBounds ==
  ASSUME NEW failures \in Nat
  PROVE  /\ DelayAfter(failures) \in Nat /\ DelayAfter(failures) <= MAX_DELAY
         /\ failures < FREE_ATTEMPTS => DelayAfter(failures) = 0
         /\ failures >= FREE_ATTEMPTS => DelayAfter(failures) >= FIRST_DELAY
<1> USE LockAssumption
<1>1. CASE failures < FREE_ATTEMPTS
  BY <1>1 DEF DelayAfter
<1>2. CASE failures >= FREE_ATTEMPTS
  <2> DEFINE n == Min({failures - FREE_ATTEMPTS, 16})
             p == 2^n
  <2>1. n \in 0..16
    BY <1>2, MinOfTwo
  <2>2. p \in Nat /\ p >= 1
    BY <2>1, Doublings
  <2>3. FIRST_DELAY * p \in Nat /\ FIRST_DELAY * p >= FIRST_DELAY
    <3> HIDE DEF p
    <3>1. PICK k \in Nat : p = k + 1
      BY <2>2
    <3>2. FIRST_DELAY * p = FIRST_DELAY * k + FIRST_DELAY /\ FIRST_DELAY * k \in Nat
      BY <3>1
    <3> QED BY <3>2
  <2>4. DelayAfter(failures) = Min({FIRST_DELAY * p, MAX_DELAY})
    BY <1>2 DEF DelayAfter
  <2> HIDE DEF p
  <2> QED BY <1>2, <2>3, <2>4, MinOfTwo
<1> QED BY <1>1, <1>2

\* A delay read back keeps its count, ends within the longest delay, and is
\* at least the first one once the free attempts are spent; a wall clock
\* that was not moved forward leaves all of it (restore).
LEMMA RestoreBounds ==
  ASSUME NEW s \in Record, now \in Nat, unix \in Nat
  PROVE  /\ Restore(s) \in Record
         /\ Restore(s).until <= now + MAX_DELAY
         /\ (s.until > 0 /\ s.failures >= FREE_ATTEMPTS) =>
              /\ Restore(s).until >= now + FIRST_DELAY
              /\ s.until - unix <= MAX_DELAY =>
                   Restore(s).until >= now + (s.until - unix)
              /\ s.until - unix > MAX_DELAY => Restore(s).until = now + MAX_DELAY
<1> USE LockAssumption
<1> DEFINE r == Max({s.until - unix, 0})
           left == Min({r, MAX_DELAY})
           least == IF s.failures >= FREE_ATTEMPTS
                    THEN Max({left, FIRST_DELAY}) ELSE left
<1>1. s.until \in Nat /\ s.failures \in 0..MaxFailures
  BY DEF Record
<1>2. r \in Nat /\ r >= s.until - unix /\ (r = 0 \/ r = s.until - unix)
  BY <1>1, MaxOfTwo
<1>3. left \in Nat /\ left = IF r <= MAX_DELAY THEN r ELSE MAX_DELAY
  BY <1>2, MinOfTwo
<1>4. /\ least \in Nat /\ least <= MAX_DELAY /\ least >= left
      /\ s.failures >= FREE_ATTEMPTS => least >= FIRST_DELAY
  <2> HIDE DEF r, left
  <2>1. left \in Nat /\ left <= MAX_DELAY
    BY <1>2, <1>3
  <2>2. Max({left, FIRST_DELAY}) = IF left <= FIRST_DELAY THEN FIRST_DELAY ELSE left
    BY <2>1, MaxOfTwo
  <2> QED BY <2>1, <2>2
<1>5. Restore(s) = [failures |-> s.failures,
                    until |-> IF s.until = 0 \/ least = 0 THEN 0
                              ELSE now + least]
  BY DEF Restore
<1> HIDE DEF r, left, least
<1>6. /\ Restore(s).failures = s.failures
      /\ Restore(s).until = IF s.until = 0 \/ least = 0 THEN 0 ELSE now + least
      /\ Restore(s).until \in Nat
  BY <1>1, <1>4, <1>5
<1>7. Restore(s) \in Record
  BY <1>1, <1>5, <1>6, <1>4 DEF Record
<1> QED BY <1>1, <1>2, <1>3, <1>4, <1>6, <1>7

-----------------------------------------------------------------------------
(***************************************************************************)
(* Each step.                                                              *)
(***************************************************************************)

\* The call that stands in for none is one.
LEMMA NoCallType == NoCall \in Call
BY DEF NoCall, Call, Ops

\* There is one record of the attempts at most.
LEMMA NoneOrOne ==
  Cardinality({}) <= 1 /\ \A s : Cardinality({s}) <= 1
BY FS_EmptySet, FS_Singleton

\* The types hold at the start.
LEMMA InitTypes == LockInit => LockTypeOK
<1> SUFFICES ASSUME LockInit PROVE LockTypeOK
  OBVIOUS
<1> USE LockAssumption DEF LockInit
<1>1. stored = {} /\ Cardinality(stored) <= 1
  BY NoneOrOne
<1>2. appLock \in Lock
  <2>1. NoLock \in Lock
    BY DEF Lock, NoLock
  <2>2. \A s \in Secrets : [secret |-> s, biometric |-> FALSE] \in Lock
    BY DEF Lock
  <2> QED BY <2>1, <2>2
<1>3. failed \in Failed
  BY DEF Failed
<1>4. call \in [Callers -> Call]
  BY NoCallType
<1> QED BY <1>1, <1>2, <1>3, <1>4 DEF LockTypeOK

\* A call that only moves leaves the attempts, their record and the clocks.
LEMMA Aside ==
  ASSUME Inv, UNCHANGED <<attempts, stored, now, unix, failed>>
  PROVE  BoundedBlock' /\ WaitInv' /\ RecordInv'
BY DEF Inv, BoundedBlock, WaitInv, RecordInv, LeastWait

\* A guess that was right starts the count over, its record removed or not.
LEMMA RightStep ==
  ASSUME Inv, NEW c \in Callers, Right(c)
  PROVE  Inv'
<1> USE LockAssumption DEF Inv, Right
<1>1. LockTypeOK'
  <2>1. attempts' \in Record /\ failed' \in Failed
    BY DEF Record, LockTypeOK, Failed
  <2>2. stored' \subseteq Record /\ Cardinality(stored') <= 1
    <3>1. stored' = {} \/ stored' = stored
      OBVIOUS
    <3> QED BY <3>1, NoneOrOne DEF Record, LockTypeOK
  <2>3. stepOf' \in [Callers -> {"idle", "read", "check", "commit"}]
        /\ call' \in [Callers -> Call]
    BY NoCallType DEF LockTypeOK, End
  <2> QED BY <2>1, <2>2, <2>3 DEF LockTypeOK, Record
<1>2. failed'.times = 0 /\ failed'.at = failed.at
  BY DEF LockTypeOK, Failed
<1>3. LeastWait' = 0
  BY <1>2 DEF LeastWait
<1>4. BoundedBlock'
  BY DEF BoundedBlock, LockTypeOK
<1>5. WaitInv' /\ RecordInv'
  BY <1>2, <1>3 DEF WaitInv, RecordInv
<1> QED BY <1>1, <1>4, <1>5

\* A wrong guess is counted and its wait begins, in memory and in the record
\* where that could be written.
LEMMA WrongStep ==
  ASSUME Inv, NEW c \in Callers, Wrong(c)
  PROVE  Inv'
<1> USE LockAssumption
<1> DEFINE f == attempts.failures + 1
           d == DelayAfter(f)
           s == Stored(attempts')
<1>1. /\ attempts.failures \in Nat /\ f \in 0..MaxFailures /\ f \in Nat
      /\ now \in Nat /\ unix \in Nat
  BY DEF Inv, LockTypeOK, Wrong
<1>2. /\ d \in Nat /\ d <= MAX_DELAY
      /\ f < FREE_ATTEMPTS => d = 0
      /\ f >= FREE_ATTEMPTS => d >= FIRST_DELAY
  BY <1>1, DelayBounds
<1> HIDE DEF d
<1>3. /\ attempts' = [failures |-> f, until |-> IF d > 0 THEN now + d ELSE 0]
      /\ UNCHANGED <<appLock, now, unix>>
  BY DEF Wrong, d
<1>4. attempts' \in Record
  BY <1>1, <1>2, <1>3 DEF Record
<1>5. /\ s \in Record /\ s.failures = f
      /\ d > 0 => s.until = unix + d
  BY <1>1, <1>2, <1>3 DEF Stored, Record
<1> HIDE DEF s
<1>6. /\ stored' = {s} \/ stored' = stored
      /\ failed' = [at |-> now, times |-> f, restarted |-> FALSE,
                    written |-> stored' = {s}]
  BY <1>3 DEF Wrong, Mirror, s
<1>7. LockTypeOK'
  <2>1. stored' \subseteq Record /\ Cardinality(stored') <= 1
    <3>1. CASE stored' = {s}
      BY <1>5, <3>1, NoneOrOne
    <3>2. CASE stored' = stored
      BY <3>2 DEF Inv, LockTypeOK, Record
    <3> QED BY <1>6, <3>1, <3>2
  <2>2. failed' \in Failed
    BY <1>1, <1>6 DEF Failed
  <2>3. stepOf' \in [Callers -> {"idle", "read", "check", "commit"}]
        /\ call' \in [Callers -> Call]
    BY NoCallType DEF Inv, LockTypeOK, Wrong, End
  <2> QED BY <1>3, <1>4, <2>1, <2>2, <2>3 DEF Inv, LockTypeOK, Record
<1>8. BoundedBlock'
  BY <1>1, <1>2, <1>3 DEF BoundedBlock
<1>9. WaitInv'
  <2>1. LeastWait' = IF f < FREE_ATTEMPTS THEN 0 ELSE d
    BY <1>6 DEF LeastWait, d
  <2> QED BY <1>1, <1>2, <1>3, <1>6, <2>1 DEF WaitInv
<1>10. RecordInv'
  <2> SUFFICES ASSUME failed'.written, failed'.times >= FREE_ATTEMPTS
               PROVE  /\ stored' = {s} /\ s.failures = f /\ s.until > 0
                      /\ s.until - unix' >= failed'.at + d - now'
    BY <1>3, <1>5, <1>6 DEF RecordInv, d
  <2>1. stored' = {s} /\ f >= FREE_ATTEMPTS /\ failed'.at = now
    BY <1>6
  <2> QED BY <1>1, <1>2, <1>3, <1>5, <2>1
<1> QED BY <1>7, <1>8, <1>9, <1>10 DEF Inv

\* A second passes, on the wall clock too unless it stands still.
LEMMA TickStep ==
  ASSUME Inv, Tick
  PROVE  Inv'
<1> USE LockAssumption DEF Inv, Tick
<1>1. /\ now \in Nat /\ now' = now + 1
      /\ unix \in Nat /\ unix' \in Nat /\ unix' <= unix + 1
      /\ UNCHANGED <<appLock, attempts, stored, stepOf, call, failed>>
  BY DEF LockTypeOK
<1>2. LockTypeOK'
  BY DEF LockTypeOK
<1>3. BoundedBlock' /\ WaitInv'
  BY <1>1 DEF BoundedBlock, WaitInv, LeastWait, LockTypeOK, Failed
<1>4. RecordInv'
  <2> SUFFICES ASSUME failed.written, failed.times >= FREE_ATTEMPTS
               PROVE  RecordInv'
    BY <1>1 DEF RecordInv
  <2>1. PICK r \in Record :
          /\ stored = {r}
          /\ r.failures = failed.times /\ r.until > 0
          /\ ~ ClockForward =>
               r.until - unix >= failed.at + DelayAfter(failed.times) - now
    BY DEF RecordInv
  <2>2. r.until \in Nat /\ failed.at \in Nat /\ DelayAfter(failed.times) \in Nat
    BY DelayBounds DEF Record, LockTypeOK, Failed
  <2>3. ~ ClockForward =>
          r.until - unix' >= failed.at + DelayAfter(failed.times) - now'
    BY <1>1, <2>1, <2>2
  <2> QED BY <1>1, <2>1, <2>3 DEF RecordInv
<1> QED BY <1>2, <1>3, <1>4

\* The wall clock is set: back, or forward where that may happen.
LEMMA ClockStep ==
  ASSUME Inv, SetClock
  PROVE  Inv'
<1> USE LockAssumption DEF Inv, SetClock
<1>1. /\ unix \in Nat /\ unix' \in Nat /\ now \in Nat
      /\ unix' < unix \/ ClockForward
      /\ UNCHANGED <<appLock, attempts, stored, now, stepOf, call, failed>>
  BY DEF LockTypeOK
<1>2. LockTypeOK'
  BY DEF LockTypeOK
<1>3. BoundedBlock' /\ WaitInv'
  BY <1>1 DEF BoundedBlock, WaitInv, LeastWait
<1>4. RecordInv'
  <2> SUFFICES ASSUME failed.written, failed.times >= FREE_ATTEMPTS
               PROVE  RecordInv'
    BY <1>1 DEF RecordInv
  <2>1. PICK r \in Record :
          /\ stored = {r}
          /\ r.failures = failed.times /\ r.until > 0
          /\ ~ ClockForward =>
               r.until - unix >= failed.at + DelayAfter(failed.times) - now
    BY DEF RecordInv
  <2>2. r.until \in Nat /\ failed.at \in Nat /\ DelayAfter(failed.times) \in Nat
    BY DelayBounds DEF Record, LockTypeOK, Failed
  <2>3. ~ ClockForward =>
          r.until - unix' >= failed.at + DelayAfter(failed.times) - now
    BY <1>1, <2>1, <2>2
  <2> QED BY <1>1, <2>1, <2>3 DEF RecordInv
<1> QED BY <1>2, <1>3, <1>4

\* The process starts again, and what is left of the wait is read back.
LEMMA RestartStep ==
  ASSUME Inv, Restart
  PROVE  Inv'
<1> USE LockAssumption DEF Inv, Restart
<1>1. /\ now \in Nat /\ unix \in Nat /\ failed \in Failed
      /\ UNCHANGED <<appLock, stored, now, unix>>
      /\ failed' = [failed EXCEPT !.restarted = TRUE]
  BY DEF LockTypeOK
<1>2. /\ failed'.at = failed.at /\ failed'.times = failed.times
      /\ failed'.written = failed.written /\ failed'.restarted
      /\ failed' \in Failed
      /\ failed.at \in Nat /\ failed.times \in Nat
  BY <1>1 DEF Failed
<1>3. \/ attempts' = [failures |-> 0, until |-> 0]
      \/ \E r \in stored : attempts' = Restore(r)
  OBVIOUS
<1>4. attempts' \in Record /\ attempts'.until <= now + MAX_DELAY
  <2>1. [failures |-> 0, until |-> 0] \in Record
    BY DEF Record
  <2>2. \A r \in stored : Restore(r) \in Record /\ Restore(r).until <= now + MAX_DELAY
    BY <1>1, RestoreBounds DEF LockTypeOK, Record
  <2> QED BY <1>1, <1>3, <2>1, <2>2
<1>5. LockTypeOK' /\ BoundedBlock'
  BY <1>1, <1>2, <1>4, NoCallType DEF LockTypeOK, Record, BoundedBlock
<1>6. RecordInv'
  BY <1>1, <1>2 DEF RecordInv
<1>7. WaitInv'
  <2>1. failed.at <= now
    BY DEF WaitInv
  <2> SUFFICES ASSUME LeastWait' > 0
               PROVE  attempts'.until >= failed.at + LeastWait'
    BY <1>1, <1>2, <2>1 DEF WaitInv
  <2> DEFINE d == DelayAfter(failed.times)
  <2>2. /\ failed.times >= FREE_ATTEMPTS /\ failed.written
        /\ LeastWait' = IF ClockForward THEN FIRST_DELAY ELSE d
    BY <1>2 DEF LeastWait
  <2>3. PICK r \in Record :
          /\ stored = {r}
          /\ r.failures = failed.times /\ r.until > 0
          /\ ~ ClockForward => r.until - unix >= failed.at + d - now
    BY <2>2 DEF RecordInv
  <2>4. attempts' = Restore(r)
    BY <1>3, <2>3
  <2>5. d \in Nat /\ d <= MAX_DELAY
    BY <1>2, DelayBounds
  <2> HIDE DEF d
  <2>6. r.until \in Nat
    BY DEF Record
  <2>7. /\ attempts'.until \in Nat /\ attempts'.until >= now + FIRST_DELAY
        /\ \/ attempts'.until >= now + (r.until - unix)
           \/ attempts'.until = now + MAX_DELAY
    BY <1>1, <1>4, <2>2, <2>3, <2>4, <2>6, RestoreBounds DEF Record
  <2> QED BY <1>1, <1>2, <2>1, <2>2, <2>3, <2>5, <2>6, <2>7
<1> QED BY <1>5, <1>6, <1>7

\* The other steps of a call leave the attempts as they are.
LEMMA CallStep ==
  ASSUME Inv, NEW c \in Callers,
         Begin(c) \/ ReadLock(c) \/ RefusedEarly(c) \/ CommitLock(c)
  PROVE  Inv'
<1>1. UNCHANGED <<attempts, stored, now, unix, failed>>
  BY DEF Begin, ReadLock, RefusedEarly, CommitLock
<1>2. /\ stepOf' \in [Callers -> {"idle", "read", "check", "commit"}]
      /\ call' \in [Callers -> Call] /\ appLock' \in Lock
  <2> USE LockAssumption, NoCallType DEF Inv, LockTypeOK, Lock, NoLock, End
  <2>1. CASE Begin(c)
    BY <2>1 DEF Begin, Call
  <2>2. CASE ReadLock(c)
    <3>1. [call[c] EXCEPT !.existing = appLock.secret] \in Call
      BY DEF Call
    <3> QED BY <2>2, <3>1 DEF ReadLock
  <2>3. CASE RefusedEarly(c)
    BY <2>3 DEF RefusedEarly
  <2>4. CASE CommitLock(c)
    <3>1. /\ [secret |-> call[c].secret, biometric |-> appLock.biometric] \in Lock
          /\ NoLock \in Lock
          /\ \A b \in BOOLEAN : [appLock EXCEPT !.biometric = b] \in Lock
      BY DEF Call
    <3>2. appLock' \in Lock
      <4> HIDE DEF Lock, NoLock
      <4> QED BY <2>4, <3>1 DEF CommitLock
    <3> QED BY <2>4, <3>2 DEF CommitLock
  <2> QED BY <2>1, <2>2, <2>3, <2>4
<1>3. LockTypeOK'
  BY <1>1, <1>2 DEF Inv, LockTypeOK
<1> QED BY <1>1, <1>3, Aside DEF Inv

\* Every step of every call, of the clocks and of a restart.
LEMMA NextStep == Inv /\ [LockNext]_lockVars => Inv'
<1> SUFFICES ASSUME Inv, [LockNext]_lockVars PROVE Inv'
  OBVIOUS
<1>1. CASE UNCHANGED lockVars
  BY <1>1, Aside DEF Inv, LockTypeOK, lockVars
<1> QED BY <1>1, CallStep, RightStep, WrongStep, TickStep, ClockStep,
           RestartStep DEF LockNext

\* The first launch.
LEMMA InitInv == LockInit => Inv
<1> SUFFICES ASSUME LockInit PROVE Inv
  OBVIOUS
<1>1. LeastWait = 0
  BY LockAssumption DEF LockInit, LeastWait
<1>2. BoundedBlock /\ WaitInv /\ RecordInv
  BY <1>1, LockAssumption DEF LockInit, BoundedBlock, WaitInv, RecordInv
<1> QED BY <1>2, InitTypes DEF Inv

-----------------------------------------------------------------------------
\* The invariant holds in every state the app can be in.
THEOREM Invariance == LockSpec => []Inv
BY InitInv, NextStep, PTL DEF LockSpec

\* Whatever calls run together, however often the app is started again and
\* whatever the wall clock is set to, nobody is kept out longer than the
\* longest delay (restore, delay_after).
THEOREM LockHolds == LockSpec => []LockInv
<1>1. Inv => LockInv
  BY DEF Inv, LockInv
<1> QED BY <1>1, Invariance, PTL

\* No guess is looked at before the wait after the last wrong one is over:
\* not by a call that runs beside it, not by starting the app again, and
\* with the clock set forward never before the first delay (check_secret).
THEOREM NoGuessEarly == LockSpec => NeverEarly
<1>1. Inv => (\A c \in Callers :
                Right(c) \/ Wrong(c) => now >= failed.at + LeastWait)
  <2> SUFFICES ASSUME Inv, attempts.until <= now
               PROVE  now >= failed.at + LeastWait
    BY DEF Right, Wrong, Looked
  <2>1. /\ failed.at \in Nat /\ failed.times \in Nat /\ now \in Nat
        /\ attempts.until \in Nat
    BY DEF Inv, LockTypeOK, Failed
  <2>2. LeastWait \in Nat
    BY <2>1, DelayBounds, LockAssumption DEF LeastWait
  <2> QED BY <2>1, <2>2 DEF Inv, WaitInv
<1> QED BY <1>1, Invariance, PTL DEF LockSpec, NeverEarly
=============================================================================
