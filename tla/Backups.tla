------------------------------ MODULE Backups -------------------------------
(***************************************************************************)
(* Backups (src/src/backup.rs, src/src/manager/backup.rs): wallets and     *)
(* settings sealed under a password, shown, and restored into a vault that *)
(* may have changed since, or into another one.                            *)
(*                                                                         *)
(* A backup is a record: form (backup, large, other, vault, damaged);      *)
(* version; password, by its length; wallets, each named, network, kind;   *)
(* settings, none or one: backends (each network, reads, hosts: the        *)
(* Electrum servers it names), certs (each host, spelled, print, shaped)   *)
(* and gap.                                                                *)
(***************************************************************************)
EXTENDS Imports

CONSTANTS
    Files,            \* the backups around: other devices', older, by hand
    Passwords, MIN_PASSWORD_CHARS, BACKUP_VERSION, MAX_GAP,
    SelfSigned,       \* public servers that sign their own certificate
    Configs,          \* what the settings screen puts in place
    MaxChanges

VARIABLES
    backends, pins, gapLimit,   \* of payload.settings
    kept,             \* the backup of this vault, exported last
    shown,            \* the preview on screen, with the vault it was read on
    restored,         \* the last restore, with the preview it was asked from
    changes           \* bound: the changes of the vault

settings == <<backends, pins, gapLimit>>
vaultState == <<wallets, settings>>
backupVars == <<importVars, settings, kept, shown, restored, changes>>

-----------------------------------------------------------------------------
(* Sealing and opening *)

\* decode_source and open: the text, the seal, then the payload.
OpenBackup(file, password) ==
    CASE file.form \in {"large", "other"} -> "unreadable"
      [] file.form = "vault" -> "unreadable"
      [] file.password # password -> "wrong_password"
      [] file.form = "damaged" -> "unreadable"
      [] file.version > BACKUP_VERSION -> "newer"
      [] OTHER -> "open"

\* export_backup: the wallets chosen, with their network and material.
ExportBackup(chosen, carries, password) ==
    /\ password >= MIN_PASSWORD_CHARS
    /\ kept' = {[form |-> "backup", version |-> BACKUP_VERSION, password |-> password,
                 wallets |-> LET ids == SetToSortSeq(chosen, <)
                             IN [i \in DOMAIN ids |-> [named |-> TRUE, network |-> wallets[ids[i]].network,
                                                       kind |-> wallets[ids[i]].kind]],
                 settings |-> IF carries THEN {[backends |-> backends, gap |-> gapLimit,
                                                certs |-> {[host |-> p.host, spelled |-> "stored",
                                                            print |-> p.print, shaped |-> TRUE] : p \in pins}]}
                              ELSE {}]}
    /\ UNCHANGED <<importVars, settings, shown, restored, changes>>

-----------------------------------------------------------------------------
(* plan_restore *)

Restorable(w) == w.named /\ CheckMaterial(w.kind, w.network) /\ EngineTakes(w.kind, w.network)
SameWallet(v, w) == v.network = w.network /\ v.kind = w.kind

\* Copies are looked for in the vault alone.
MutFate(file, restorable, i) ==
    CASE \E v \in DOMAIN wallets : SameWallet(wallets[v], file.wallets[i]) -> "watched"
      [] i \in restorable -> "restored"
      [] OTHER -> "refused"

\* A wallet the vault has, or one of the backup restored before it.
Fate(file, restorable, i) ==
    CASE \/ \E v \in DOMAIN wallets : SameWallet(wallets[v], file.wallets[i])
         \/ \E j \in restorable : j < i /\ SameWallet(file.wallets[j], file.wallets[i]) -> "watched"
      [] i \in restorable -> "restored"
      [] OTHER -> "refused"

\* The backends put in place: those that read, in their stored form.
Carried(file) == UNION {s.backends : s \in file.settings}
PlannedBackends(file) == {b \in Carried(file) : b.reads}
InService(planned) == planned \cup {b \in backends : \A p \in planned : p.network # b.network}

\* restorable_certs: of a server in service or of the catalogue, whose
\* entries agree, and that the vault does not pin.
Named(planned) == SelfSigned \cup UNION {b.hosts : b \in InService(planned)}
Shaped(file) == {c \in UNION {s.certs : s \in file.settings} : c.shaped}
Agreed(file, host) == {c.print : c \in {c \in Shaped(file) : c.host = host}}

RestorableCerts(file) ==
    {[host |-> c.host, print |-> c.print] : c \in {c \in Shaped(file) :
        /\ c.host \in Named(PlannedBackends(file))
        /\ Cardinality(Agreed(file, c.host)) = 1
        /\ \A p \in pins : p.host # c.host}}

Plan(file, chosen, restorable) ==
    [fates |-> [i \in chosen |-> Fate(file, restorable, i)],
     backends |-> PlannedBackends(file), certs |-> RestorableCerts(file)]
PlanRestore(file, chosen) == Plan(file, chosen, {i \in chosen \cap DOMAIN file.wallets : Restorable(file.wallets[i])})

PreviewBackup(file, password) ==
    /\ shown' = IF OpenBackup(file, password) = "open"
                THEN {[file |-> file, password |-> password, plan |-> PlanRestore(file, DOMAIN file.wallets), on |-> vaultState]}
                ELSE {}
    /\ UNCHANGED <<importVars, settings, kept, restored, changes>>

-----------------------------------------------------------------------------
(* import_backup *)

\* A wallet refused fails the restore that asks for it by index; a restore
\* of every wallet leaves it out.
Fails(plan, byIndex) == byIndex /\ \E i \in DOMAIN plan.fates : plan.fates[i] = "refused"

Added(file, plan) ==
    LET ids == SetToSortSeq({i \in DOMAIN plan.fates : plan.fates[i] = "restored"}, <)
    IN [i \in DOMAIN ids |-> Record(file.wallets[ids[i]].network, file.wallets[ids[i]].kind, {})]

Applied(file, plan, apply) ==
    IF apply /\ file.settings # {}
    THEN /\ backends' = InService(plan.backends)
         /\ pins' = {p \in pins : \A c \in plan.certs : c.host # p.host} \cup plan.certs
         /\ gapLimit' = Max({1, Min({MAX_GAP, (CHOOSE s \in file.settings : TRUE).gap})})
    ELSE UNCHANGED settings

\* The vault changes as a whole or, when the save fails, not at all.
CarryOut(file, plan, byIndex, apply, saves, asShown) ==
    LET done == ~Fails(plan, byIndex) /\ saves
    IN /\ IF done
          THEN wallets' = wallets \o Added(file, plan) /\ Applied(file, plan, apply)
          ELSE UNCHANGED vaultState
       /\ restored' = {[file |-> file, done |-> done, on |-> vaultState, asShown |-> IF saves THEN asShown ELSE {}]}

\* indexes: none, for every wallet, or those asked for.
ImportBackup(file, password, indexes, apply, saves) ==
    LET chosen == IF indexes = {} THEN DOMAIN file.wallets ELSE UNION indexes
        asShown == {s.plan : s \in {s \in shown : /\ s.file = file /\ s.password = password /\ s.on = vaultState
                                                  /\ indexes = {} /\ apply}}
    IN /\ changes < MaxChanges /\ changes' = changes + 1
       /\ IF OpenBackup(file, password) = "open" /\ chosen \subseteq DOMAIN file.wallets
          THEN CarryOut(file, PlanRestore(file, chosen), indexes # {}, apply, saves, asShown)
          ELSE restored' = {} /\ UNCHANGED vaultState
       /\ UNCHANGED <<screen, given, readings, kept, shown>>

-----------------------------------------------------------------------------
(* What else changes the vault between a preview and its restore *)

Changed == changes < MaxChanges /\ changes' = changes + 1 /\ restored' = {} /\ UNCHANGED <<kept, shown>>

SetBackend(config) ==
    /\ config.reads
    /\ backends' = {b \in backends : b.network # config.network} \cup {config}
    /\ Changed /\ UNCHANGED <<importVars, pins, gapLimit>>

AcceptCertificate(host, print) ==
    /\ pins' = {p \in pins : p.host # host} \cup {[host |-> host, print |-> print]}
    /\ Changed /\ UNCHANGED <<importVars, backends, gapLimit>>

ForgetCertificate(p) ==
    /\ pins' = pins \ {p}
    /\ Changed /\ UNCHANGED <<importVars, backends, gapLimit>>

AddsOrRemoves ==
    /\ \/ \E i \in DOMAIN Networks : AddWallet(Networks[i])
       \/ \E i \in DOMAIN wallets : RemoveWallet(i)
    /\ Changed /\ UNCHANGED settings

\* An empty vault, and the reading its import screen holds.
BackupsInit(reading) ==
    /\ screen = {} /\ given = reading /\ wallets = <<>> /\ readings = 0
    /\ backends = {} /\ pins = {} /\ gapLimit = 20
    /\ kept = {} /\ shown = {} /\ restored = {} /\ changes = 0

BackupsNext ==
    \/ \E chosen \in SUBSET (DOMAIN wallets), carries \in BOOLEAN, p \in Passwords : ExportBackup(chosen, carries, p)
    \/ \E file \in Files \cup kept, p \in Passwords : PreviewBackup(file, p)
    \/ \E file \in Files \cup kept, p \in Passwords, apply \in BOOLEAN, saves \in BOOLEAN :
         \E indexes \in {{}} \cup {{s} : s \in SUBSET (1..(Len(file.wallets) + 1))} :
             ImportBackup(file, p, indexes, apply, saves)
    \/ \E c \in Configs : SetBackend(c)
    \/ \E h \in SelfSigned \cup UNION {c.hosts : c \in Configs}, c \in {"mine", "theirs"} : AcceptCertificate(h, c)
    \/ \E p \in pins : ForgetCertificate(p)
    \/ AddsOrRemoves

-----------------------------------------------------------------------------
(* A restore of everything does what its preview showed, when the vault    *)
(* has not changed between: each wallet shown as one to restore is in the  *)
(* vault, and no other came; each host shown is pinned, and no pin the     *)
(* vault had is another's; one that fails, on its password, on a wallet    *)
(* asked for by index or on the disk, leaves the vault as it was.          *)
RestoreAsShown ==
    \A r \in restored :
        /\ ~r.done => vaultState = r.on
        /\ \A p \in r.on[2][2] : p \in pins
        /\ \A plan \in r.asShown :
             /\ Len(wallets) - Len(r.on[1]) = Cardinality({i \in DOMAIN plan.fates : plan.fates[i] = "restored"})
             /\ \A i \in DOMAIN plan.fates : plan.fates[i] # "refused" =>
                  \E w \in DOMAIN wallets : SameWallet(wallets[w], r.file.wallets[i])
             /\ r.file.settings # {} => pins = r.on[2][2] \cup plan.certs

(* A backup is worth having: every wallet the vault watches, whichever     *)
(* reading it came through, is one a restore of its backup takes, since    *)
(* the checks of a restore refuse nothing an import lets through.          *)
ComesBack ==
    \A i \in DOMAIN wallets :
        Restorable([named |-> TRUE, network |-> wallets[i].network, kind |-> wallets[i].kind])

(* No two wallets of the vault watch the same material on the same         *)
(* network, whatever was added, removed and restored in which order, twice *)
(* in one backup or in two.                                                *)
NoTwins ==
    \A i, j \in DOMAIN wallets : i # j => ~SameWallet(wallets[i], wallets[j])

\* All of them: what a backup takes, it gives back, once.
RestoresInv == RestoreAsShown /\ ComesBack /\ NoTwins
=============================================================================
