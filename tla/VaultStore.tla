----------------------------- MODULE VaultStore -----------------------------
(***************************************************************************)
(* The encrypted vault file and the processes that work on it              *)
(* (internal/secret, cmd/helpers.go, cmd/vault.go, cmd/init.go): commands, *)
(* and the long-lived sessions of the interface and of the broker, which   *)
(* keep a derived key.  Every write happens under the vault's write lock;  *)
(* a command may be killed, which frees its locks.                         *)
(*                                                                         *)
(* A process is a record: op, the command it runs; at, where it stands;    *)
(* pw, the password it was given; key, the vault key in its hands; edit,   *)
(* the mutation; seen, the envelope it has decrypted; file, the recovery   *)
(* file it was pointed at (VaultKeyring).                                  *)
(***************************************************************************)
EXTENDS VaultEnvelope, FiniteSets

CONSTANTS
    Processes,
    RecoveryFiles,
    MaxFresh,       \* bound on the salts and random keys generated
    MaxBackups,     \* bound on the backups taken
    Commands,       \* the commands of the instance
    Installed,      \* the vault files it may start from, or None
    Faults,         \* the failures of the environment it allows
    None            \* no vault, no key, no record, nobody

AllCommands == {"mutate", "session", "init", "rekey", "preserve", "upgrade",
                "backup", "enable", "require", "recover"}
AllFaults == {"write", "sync", "reread", "config", "keyring"}

ASSUME CommandsAssumption == Commands \subseteq AllCommands
ASSUME FaultsAssumption == Faults \subseteq AllFaults
ASSUME BoundsAssumption == MaxFresh \in Nat /\ MaxBackups \in Nat
ASSUME NoneAssumption ==
    /\ None \notin Processes
    /\ None \notin RecoveryFiles
    /\ None \notin AllCommands
    /\ None \notin Envelopes
    /\ None \notin Keys

Edits == [op : {"add", "remove"}, rec : Records]

ASSUME NoEditAssumption == None \notin Edits /\ \A c \in SUBSET Records : None # c

VARIABLES
    vault,          \* vault.enc
    backups,        \* the vault.enc.bak.* files
    vaultLock,      \* flock on vault.enc.lock
    configLock,     \* flock on coordination.lock
    keyring,        \* the entry of the operating system's keyring
    keyringUp,      \* the keyring answers
    enabled,        \* config.KeyringEnabled
    recovery,       \* the recovery files
    fresh,          \* salts and random keys generated so far
    proc            \* per process: what it is doing

store == <<vault, backups>>
locks == <<vaultLock, configLock>>
unlocking == <<keyring, keyringUp, enabled, recovery>>
vars == <<store, locks, unlocking, fresh, proc>>

Idle == [op |-> None, at |-> "idle", pw |-> NoPassword, key |-> None,
         edit |-> None, seen |-> None, file |-> None]

Positions == {"idle", "open", "config lock", "choose", "lock", "locked", "write",
              "back up", "initialized", "store", "recovery file", "config",
              "undo keyring", "undo recovery", "undo config"}

At(p, ops, at) == proc[p].op \in ops /\ proc[p].at = at
Goto(p, at) == proc' = [proc EXCEPT ![p].at = at]
Starts(p, command) == command \in Commands /\ proc[p] = Idle

Editing == {"mutate", "session"}
Repairing == {"preserve", "upgrade"}

Freed(lock, p) == IF lock = p THEN None ELSE lock
FreeVaultLock(p) == vaultLock' = Freed(vaultLock, p)
FreeLocks(p) == FreeVaultLock(p) /\ configLock' = Freed(configLock, p)

BacksUp ==
    /\ backups' = backups \cup {vault}
    /\ Cardinality(backups') <= MaxBackups

(* A command ends; a session goes back to what it holds, its key. *)
Return(p) ==
    /\ proc' = [proc EXCEPT ![p] =
           IF proc[p].op = "session"
           THEN [Idle EXCEPT !.op = "session", !.at = "open", !.key = proc[p].key]
           ELSE Idle]
    /\ FreeLocks(p)

(* AtomicWriteFileMode fails before the rename, which changes nothing, or  *)
(* after it, on the sync of the directory, when the file is the new one.   *)
Writes(env, failed) ==
    \/ ~failed /\ vault' = env
    \/ failed /\ "write" \in Faults /\ UNCHANGED vault
    \/ failed /\ "sync" \in Faults /\ vault' = env

(* keychain.Load *)
KeyringKey == IF keyringUp THEN keyring ELSE None

(* loadVaultFromKeyring *)
KeyringOpens ==
    /\ enabled
    /\ KeyringKey # None
    /\ vault # None
    /\ LoadsByKey(KeyringKey, vault)

(* promptPassword: it asks only when the keyring does not open the vault. *)
Prompted == IF KeyringOpens THEN {NoPassword} ELSE {Master, Wrong}

(* The vault files an installation can start from: one whose metadata name *)
(* the derivation of its key, or one that an early version resealed under  *)
(* no parameters or under the defaults.                                    *)
OldVault(made, says, d) ==
    [SealWithKey(DeriveKeyWithParams(Master, 0, made), {}, 0, says) EXCEPT !.digest = d]

OldVaults ==
    UNION {{OldVault(made, says, d) :
                says \in {made, NoParams, "default"}, d \in {NoDigest, made}} :
               made \in Shapes}

ASSUME InstalledAssumption == Installed \subseteq {None} \cup OldVaults

Init ==
    /\ vault \in Installed
    /\ backups = {}
    /\ vaultLock = None
    /\ configLock = None
    /\ keyring = None
    /\ keyringUp = TRUE
    /\ enabled = FALSE
    /\ recovery = [f \in RecoveryFiles |-> None]
    /\ fresh = 1
    /\ proc = [p \in Processes |-> Idle]

(***************************************************************************)
(* Mutations: mutateVault and the sessions' MutateVaultWithKey.            *)
(***************************************************************************)
MutateBegin(p, pw, edit) ==
    /\ Starts(p, "mutate")
    /\ vault # None
    /\ pw \in Prompted
    /\ proc' = [proc EXCEPT ![p] =
           [Idle EXCEPT !.op = "mutate", !.at = "config lock", !.pw = pw, !.edit = edit]]
    /\ UNCHANGED <<store, locks, unlocking, fresh>>

TakeConfigLock(p) ==
    /\ At(p, {"mutate"}, "config lock")
    /\ configLock = None
    /\ configLock' = p
    /\ Goto(p, "choose")
    /\ UNCHANGED <<store, vaultLock, unlocking, fresh>>

(* The key of the keyring when there is one, whatever it opens; the        *)
(* password, authenticated before the lock is taken, otherwise.            *)
ChosenKey(pw) ==
    IF enabled /\ KeyringKey # None THEN KeyringKey
    ELSE IF vault # None /\ LoadsByPassword(pw, vault) THEN KeyOf(pw, vault) ELSE None

ChooseKey(p) ==
    /\ At(p, {"mutate"}, "choose")
    /\ ChosenKey(proc[p].pw) # None
    /\ proc' = [proc EXCEPT ![p].at = "lock", ![p].key = ChosenKey(proc[p].pw),
                                  ![p].pw = NoPassword]
    /\ UNCHANGED <<store, locks, unlocking, fresh>>

NoKeyChosen(p) ==
    /\ At(p, {"mutate"}, "choose")
    /\ ChosenKey(proc[p].pw) = None
    /\ Return(p)
    /\ UNCHANGED <<store, unlocking, fresh>>

(* The keyring's key, which the interface's unlock tries on the vault and  *)
(* the broker takes as it is, or the key of a password that opens it.      *)
SessionKeys ==
    {k \in {KeyringKey} : k # None}
    \cup {KeyOf(pw, vault) : pw \in {w \in {Master, Wrong} :
                                vault # None /\ LoadsByPassword(w, vault)}}

Unlock(p, key) ==
    /\ Starts(p, "session")
    /\ key \in SessionKeys
    /\ proc' = [proc EXCEPT ![p] =
           [Idle EXCEPT !.op = "session", !.at = "open", !.key = key]]
    /\ UNCHANGED <<store, locks, unlocking, fresh>>

SessionMutate(p, edit) ==
    /\ At(p, {"session"}, "open")
    /\ proc' = [proc EXCEPT ![p].at = "lock", ![p].edit = edit]
    /\ UNCHANGED <<store, locks, unlocking, fresh>>

SessionEnds(p) ==
    /\ At(p, {"session"}, "open")
    /\ proc' = [proc EXCEPT ![p] = Idle]
    /\ UNCHANGED <<store, locks, unlocking, fresh>>

(* withVaultWriteLock *)
TakeVaultLockFromAnyone(p) ==
    /\ proc[p].at = "lock"
    /\ vaultLock' = p
    /\ Goto(p, "locked")
    /\ UNCHANGED <<store, configLock, unlocking, fresh>>
TakeVaultLock(p) ==
    /\ proc[p].at = "lock"
    /\ vaultLock = None
    /\ vaultLock' = p
    /\ Goto(p, "locked")
    /\ UNCHANGED <<store, configLock, unlocking, fresh>>

Applies(edit, contents) == (edit.op = "remove") <=> (edit.rec \in contents)

Edited(edit, contents) ==
    IF edit.op = "add" THEN contents \cup {edit.rec} ELSE contents \ {edit.rec}

Editable(p) ==
    /\ vault # None
    /\ LoadsByKey(proc[p].key, vault)
    /\ Applies(proc[p].edit, vault.contents)

LoadLatest(p) ==
    /\ At(p, Editing, "locked")
    /\ Editable(p)
    /\ proc' = [proc EXCEPT ![p].at = "write", ![p].seen = vault]
    /\ UNCHANGED <<store, locks, unlocking, fresh>>

MutationFails(p) ==
    /\ At(p, Editing, "locked")
    /\ ~Editable(p)
    /\ Return(p)
    /\ UNCHANGED <<store, unlocking, fresh>>

(* The file is read again for its salt, parameters and mode; an error of   *)
(* that read is dropped, and the key sealed as that of a new vault.        *)
WriteMutation(p, failed) ==
    /\ At(p, Editing, "write")
    /\ \E read \in BOOLEAN :
         LET contents == Edited(proc[p].edit, proc[p].seen.contents)
         IN  /\ ~read => "reread" \in Faults /\ fresh < MaxFresh
             /\ Writes(IF read THEN Reseal(proc[p].key, contents, vault)
                       ELSE ResealUnread(proc[p].key, contents, fresh), failed)
             /\ fresh' = IF read THEN fresh ELSE fresh + 1
    /\ Return(p)
    /\ UNCHANGED <<backups, unlocking>>

(***************************************************************************)
(* Creation: init.                                                         *)
(***************************************************************************)
InitBegin(p) ==
    /\ Starts(p, "init")
    /\ vault = None
    /\ proc' = [proc EXCEPT ![p] =
           [Idle EXCEPT !.op = "init", !.at = "lock", !.pw = Master]]
    /\ UNCHANGED <<store, locks, unlocking, fresh>>

InitVault(p, failed) ==
    /\ At(p, {"init"}, "locked")
    /\ vault = None
    /\ fresh < MaxFresh
    /\ Writes(SealEnvelope(proc[p].pw, {}, fresh), failed)
    /\ fresh' = fresh + 1
    /\ IF failed
       THEN Return(p)
       ELSE Goto(p, "initialized") /\ FreeVaultLock(p) /\ UNCHANGED configLock
    /\ UNCHANGED <<backups, unlocking>>

AlreadyExists(p) ==
    /\ At(p, {"init"}, "locked")
    /\ vault # None
    /\ Return(p)
    /\ UNCHANGED <<store, unlocking, fresh>>

(* SaveConfig of the defaults, whatever the file says by now. *)
InitConfig(p) ==
    /\ At(p, {"init"}, "initialized")
    /\ enabled' = FALSE
    /\ Return(p)
    /\ UNCHANGED <<store, keyring, keyringUp, recovery, fresh>>

(***************************************************************************)
(* Backup, rekey and repair.                                               *)
(***************************************************************************)
BackupVault(p) ==
    /\ Starts(p, "backup")
    /\ vault # None
    /\ BacksUp
    /\ UNCHANGED <<vault, locks, unlocking, fresh, proc>>

(* The backup of a rekey is taken before the lock. *)
RekeyBegin(p, pw) ==
    /\ Starts(p, "rekey")
    /\ vault # None
    /\ pw \in Prompted
    /\ BacksUp
    /\ proc' = [proc EXCEPT ![p] = [Idle EXCEPT !.op = "rekey", !.at = "lock", !.pw = pw]]
    /\ UNCHANGED <<vault, locks, unlocking, fresh>>

(* rekeyVaultLocked derives the key without a look at the mode. *)
Rekeyable(p) == vault # None /\ LoadsByKey(KeyOf(proc[p].pw, vault), vault)

(* repair-unlock goes on only when the diagnosis, outside the lock, finds  *)
(* a mismatch.                                                             *)
RepairBegin(p, pw, mode) ==
    /\ Starts(p, mode)
    /\ vault # None
    /\ pw \in Prompted
    /\ DiagnoseUnlock(pw, vault) = "mismatch"
    /\ proc' = [proc EXCEPT ![p] = [Idle EXCEPT !.op = mode, !.at = "lock", !.pw = pw]]
    /\ UNCHANGED <<store, locks, unlocking, fresh>>

Repairable(p) == vault # None /\ DiagnoseUnlock(proc[p].pw, vault) = "mismatch"

OpenForReseal(p) ==
    /\ \/ At(p, {"rekey"}, "locked") /\ Rekeyable(p)
       \/ At(p, Repairing, "locked") /\ Repairable(p)
    /\ proc' = [proc EXCEPT ![p].seen = vault,
           ![p].at = IF proc[p].op = "rekey" THEN "write" ELSE "back up"]
    /\ UNCHANGED <<store, locks, unlocking, fresh>>

ResealRefused(p) ==
    /\ \/ At(p, {"rekey"}, "locked") /\ ~Rekeyable(p)
       \/ At(p, Repairing, "locked") /\ ~Repairable(p)
    /\ Return(p)
    /\ UNCHANGED <<store, unlocking, fresh>>

RepairWithoutBackup(p) ==
    /\ At(p, Repairing, "back up")
    /\ Goto(p, "write")
    /\ UNCHANGED <<store, locks, unlocking, fresh>>
RepairBackup(p) ==
    /\ At(p, Repairing, "back up")
    /\ BacksUp
    /\ Goto(p, "write")
    /\ UNCHANGED <<vault, locks, unlocking, fresh>>

BackupFails(p) ==
    /\ At(p, Repairing, "back up")
    /\ "write" \in Faults
    /\ Return(p)
    /\ UNCHANGED <<store, unlocking, fresh>>

WritePreserved(p, failed) ==
    /\ At(p, {"preserve"}, "write")
    /\ Writes(Preserved(proc[p].pw, proc[p].seen), failed)
    /\ Return(p)
    /\ UNCHANGED <<backups, unlocking, fresh>>

(* rekeyVaultLocked and the upgrade of a repair seal the same envelope. *)
WriteUpgraded(p, failed) ==
    /\ At(p, {"rekey", "upgrade"}, "write")
    /\ fresh < MaxFresh
    /\ Writes(Upgraded(proc[p].pw, proc[p].seen, fresh), failed)
    /\ fresh' = fresh + 1
    /\ Return(p)
    /\ UNCHANGED <<backups, unlocking>>

(***************************************************************************)
(* The environment: a process dies, the keyring comes and goes.            *)
(***************************************************************************)
Killed(p) ==
    /\ proc[p] # Idle
    /\ proc' = [proc EXCEPT ![p] = Idle]
    /\ FreeLocks(p)
    /\ UNCHANGED <<store, unlocking, fresh>>

KeyringToggles ==
    /\ "keyring" \in Faults
    /\ keyringUp' = ~keyringUp
    /\ UNCHANGED <<store, locks, keyring, enabled, recovery, fresh, proc>>

Mutation(p) ==
    \/ \E pw \in {Master, Wrong, NoPassword}, edit \in Edits : MutateBegin(p, pw, edit)
    \/ TakeConfigLock(p)
    \/ ChooseKey(p)
    \/ NoKeyChosen(p)
    \/ \E key \in SessionKeys : Unlock(p, key)
    \/ \E edit \in Edits : SessionMutate(p, edit)
    \/ SessionEnds(p)
    \/ LoadLatest(p)
    \/ MutationFails(p)
    \/ \E failed \in BOOLEAN : WriteMutation(p, failed)

Creation(p) ==
    \/ InitBegin(p)
    \/ \E failed \in BOOLEAN : InitVault(p, failed)
    \/ AlreadyExists(p)
    \/ InitConfig(p)

Maintenance(p) ==
    \/ BackupVault(p)
    \/ \E pw \in {Master, Wrong, NoPassword} :
          RekeyBegin(p, pw) \/ \E mode \in Repairing : RepairBegin(p, pw, mode)
    \/ OpenForReseal(p)
    \/ ResealRefused(p)
    \/ RepairBackup(p)
    \/ BackupFails(p)
    \/ \E failed \in BOOLEAN : WritePreserved(p, failed) \/ WriteUpgraded(p, failed)

StoreStep(p) ==
    \/ Mutation(p)
    \/ Creation(p)
    \/ Maintenance(p)
    \/ TakeVaultLock(p)
    \/ Killed(p)
=============================================================================
