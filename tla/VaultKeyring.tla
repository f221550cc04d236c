---------------------------- MODULE VaultKeyring ----------------------------
(***************************************************************************)
(* The operating system's keyring as a way to unlock the vault             *)
(* (cmd/keyring.go, internal/keychain): keyring-enable keeps a copy of the *)
(* password's key there, keyring-required seals the vault under a random   *)
(* key and gives the password up, keyring-recover puts a lost key back.    *)
(* The keyring, the recovery file, the configuration and the vault are     *)
(* four stores, written one after the other.                               *)
(***************************************************************************)
EXTENDS VaultStore

(* keychain.Store, keychain.Delete: the keyring must answer. *)
StoresKey(key) == keyringUp /\ keyring' = key
DeletesKey == keyring' = IF keyringUp THEN None ELSE keyring

EnableBegin(p, pw) ==
    /\ Starts(p, "enable")
    /\ vault # None
    /\ LoadsByPassword(pw, vault)
    /\ proc' = [proc EXCEPT ![p] =
           [Idle EXCEPT !.op = "enable", !.at = "store", !.key = KeyOf(pw, vault)]]
    /\ UNCHANGED <<store, locks, unlocking, fresh>>

(* The password is verified and a key drawn before anything is written. *)
RequireBegin(p, pw, f) ==
    /\ Starts(p, "require")
    /\ vault # None
    /\ LoadsByPassword(pw, vault)
    /\ fresh < MaxFresh
    /\ fresh' = fresh + 1
    /\ proc' = [proc EXCEPT ![p] =
           [Idle EXCEPT !.op = "require", !.at = "store", !.pw = pw,
                        !.key = RandomVaultKey(fresh), !.file = f]]
    /\ UNCHANGED <<store, locks, unlocking>>

RecoverBegin(p, f) ==
    /\ Starts(p, "recover")
    /\ vault # None
    /\ vault.mode = "keyring"
    /\ recovery[f] # None
    /\ LoadsByKey(recovery[f], vault)
    /\ proc' = [proc EXCEPT ![p] =
           [Idle EXCEPT !.op = "recover", !.at = "store", !.key = recovery[f]]]
    /\ UNCHANGED <<store, locks, unlocking, fresh>>

StoreKey(p) ==
    /\ proc[p].at = "store"
    /\ StoresKey(proc[p].key)
    /\ Goto(p, IF proc[p].op = "require" THEN "recovery file" ELSE "config")
    /\ UNCHANGED <<store, locks, keyringUp, enabled, recovery, fresh>>

StoreFails(p) ==
    /\ proc[p].at = "store"
    /\ ~keyringUp
    /\ Return(p)
    /\ UNCHANGED <<store, unlocking, fresh>>

(* O_EXCL: a recovery file that is there already is never overwritten. *)
MayOverwrite(f) == TRUE
MayCreate(f) == recovery[f] = None

WriteRecoveryKey(p) ==
    /\ proc[p].at = "recovery file"
    /\ MayCreate(proc[p].file)
    /\ recovery' = [recovery EXCEPT ![proc[p].file] = proc[p].key]
    /\ Goto(p, "config")
    /\ UNCHANGED <<store, locks, keyring, keyringUp, enabled, fresh>>

(* Whatever step fails before the migration, only the keyring is undone:   *)
(* a recovery file or a configuration that was written all the same stays. *)
GiveUp(p) ==
    /\ \/ /\ proc[p].at = "recovery file"
          /\ \/ ~MayCreate(proc[p].file) /\ UNCHANGED recovery
             \/ /\ MayCreate(proc[p].file)
                /\ "config" \in Faults
                /\ recovery' \in {recovery,
                       [recovery EXCEPT ![proc[p].file] = proc[p].key]}
          /\ UNCHANGED enabled
       \/ /\ proc[p].at = "config"
          /\ "config" \in Faults
          /\ enabled' \in {enabled, TRUE}
          /\ UNCHANGED recovery
    /\ DeletesKey
    /\ Return(p)
    /\ UNCHANGED <<store, keyringUp, fresh>>

EnableConfig(p) ==
    /\ proc[p].at = "config"
    /\ enabled' = TRUE
    /\ IF proc[p].op = "require"
       THEN Goto(p, "lock") /\ UNCHANGED locks
       ELSE Return(p)
    /\ UNCHANGED <<store, keyring, keyringUp, recovery, fresh>>

MigrateLoad(p) ==
    /\ At(p, {"require"}, "locked")
    /\ vault # None
    /\ LoadsByPassword(proc[p].pw, vault)
    /\ proc' = [proc EXCEPT ![p].at = "write", ![p].seen = vault]
    /\ UNCHANGED <<store, locks, unlocking, fresh>>

MigrateRefused(p) ==
    /\ At(p, {"require"}, "locked")
    /\ ~(vault # None /\ LoadsByPassword(proc[p].pw, vault))
    /\ Goto(p, "undo keyring")
    /\ FreeVaultLock(p)
    /\ UNCHANGED <<store, configLock, unlocking, fresh>>

MigrateToKeyringRequired(p, failed) ==
    /\ At(p, {"require"}, "write")
    /\ Writes(SealKeyringEnvelope(proc[p].key, proc[p].seen.contents, proc[p].key.n), failed)
    /\ IF failed
       THEN Goto(p, "undo keyring") /\ FreeVaultLock(p) /\ UNCHANGED configLock
       ELSE Return(p)
    /\ UNCHANGED <<backups, unlocking, fresh>>

UndoKeyring(p) ==
    /\ proc[p].at = "undo keyring"
    /\ DeletesKey
    /\ Goto(p, "undo recovery")
    /\ UNCHANGED <<store, locks, keyringUp, enabled, recovery, fresh>>

UndoRecovery(p) ==
    /\ proc[p].at = "undo recovery"
    /\ recovery' = [recovery EXCEPT ![proc[p].file] = None]
    /\ Goto(p, "undo config")
    /\ UNCHANGED <<store, locks, keyring, keyringUp, enabled, fresh>>

UndoConfig(p) ==
    /\ proc[p].at = "undo config"
    /\ enabled' \in IF "config" \in Faults THEN {FALSE, enabled} ELSE {FALSE}
    /\ Return(p)
    /\ UNCHANGED <<store, keyring, keyringUp, recovery, fresh>>

(* The desktop loses the entry: what keyring-recover is for. *)
KeyringLost ==
    /\ "keyring" \in Faults
    /\ keyring' = None
    /\ UNCHANGED <<store, locks, keyringUp, enabled, recovery, fresh, proc>>

KeyringStep(p) ==
    \/ \E pw \in {Master, Wrong} :
          EnableBegin(p, pw) \/ \E f \in RecoveryFiles : RequireBegin(p, pw, f)
    \/ \E f \in RecoveryFiles : RecoverBegin(p, f)
    \/ StoreKey(p)
    \/ StoreFails(p)
    \/ WriteRecoveryKey(p)
    \/ GiveUp(p)
    \/ EnableConfig(p)
    \/ MigrateLoad(p)
    \/ MigrateRefused(p)
    \/ \E failed \in BOOLEAN : MigrateToKeyringRequired(p, failed)
    \/ UndoKeyring(p)
    \/ UndoRecovery(p)
    \/ UndoConfig(p)

Next ==
    \/ \E p \in Processes : StoreStep(p) \/ KeyringStep(p)
    \/ KeyringToggles
    \/ KeyringLost

Spec == Init /\ [][Next]_vars

-----------------------------------------------------------------------------
(* Every store holds what its writers put there, and a process is in a     *)
(* position of the command it runs.                                        *)
TypeOK ==
    /\ vault \in {None} \cup Envelopes
    /\ backups \subseteq Envelopes
    /\ vaultLock \in {None} \cup Processes
    /\ configLock \in {None} \cup Processes
    /\ keyring \in {None} \cup Keys
    /\ keyringUp \in BOOLEAN
    /\ enabled \in BOOLEAN
    /\ recovery \in [RecoveryFiles -> {None} \cup Keys]
    /\ fresh \in Nat
    /\ proc \in [Processes ->
          [op : {None} \cup AllCommands, at : Positions,
           pw : {Master, Wrong, NoPassword}, key : {None} \cup Keys,
           edit : {None} \cup Edits, seen : {None} \cup Envelopes,
           file : {None} \cup RecoveryFiles]]

(* The vault's records change by one edit at a time, the edit of a process *)
(* that is at it, whatever runs at the same time and dies in the middle:   *)
(* no mutation undoes another one, and rekeying, repairing and migrating   *)
(* lose nothing (withVaultWriteLock and the load of the latest state under *)
(* it).                                                                    *)
Promise == INSTANCE VaultContents WITH
    Absent <- None,
    contents <- IF vault = None THEN None ELSE vault.contents,
    asked <- {proc[p].edit : p \in Processes} \ {None}

ImplementsVaultContents == Promise!Spec

(* What is written under the lock opens the ordinary way: by the password  *)
(* and the metadata in the file, or by the key of a keyring vault, which   *)
(* is then in a recovery file (writeVaultWithKeyLocked, SealWithKey,       *)
(* repairVaultLocked, MigrateToKeyringRequiredWithKey), unless the second  *)
(* read of writeVaultWithKeyLocked may fail ("reread").                    *)
OpensAgain(env) ==
    \/ LoadsByPassword(Master, env)
    \/ env.mode = "keyring" /\ \E f \in RecoveryFiles :
          recovery[f] # None /\ LoadsByKey(recovery[f], env)

WritesReopen == [][vault' # vault => OpensAgain(vault')]_vars

(* There is always a way into the vault: its password, if need be through  *)
(* repair-unlock, or the random key in a recovery file (cmd/keyring.go),   *)
(* unless a failure is told wrongly ("sync" with "require") or dropped     *)
(* ("reread").                                                             *)
Recoverable ==
    \/ vault = None
    \/ OpensWithRecovery(Master, vault)
    \/ OpensAgain(vault)

(* A repair rewrites a vault only once a backup of that very file exists   *)
(* (repairVaultLocked).                                                    *)
RepairsAreBackedUp ==
    [][\A p \in Processes :
          At(p, Repairing, "write") /\ proc'[p] = Idle /\ vault' # vault
              => vault \in backups]_vars
=============================================================================
