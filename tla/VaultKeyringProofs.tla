------------------------- MODULE VaultKeyringProofs -------------------------
(***************************************************************************)
(* The vault keeps its shape, implements VaultContents and stays openable, *)
(* for any processes, records, commands, failures and bounds.              *)
(*                                                                         *)
(* The argument: whoever is in the middle of a locked section holds the    *)
(* lock, so nobody else writes between its load and its write, and what it *)
(* has seen is still the vault when it replaces it.                        *)
(***************************************************************************)
EXTENDS VaultKeyring, TLAPS

Activity == [op : {None} \cup AllCommands, at : Positions,
             pw : {Master, Wrong, NoPassword}, key : {None} \cup Keys,
             edit : {None} \cup Edits, seen : {None} \cup Envelopes,
             file : {None} \cup RecoveryFiles]

Inside == {"locked", "back up", "write"}
Loaded == {"back up", "write"}
Queued == {"lock", "locked", "write"}

(* What a process p that is doing r may rely on, when the vault is v and   *)
(* its lock is held by l.                                                  *)
HoldsLock(r, l, p) == r.at \in Inside => l = p
SeesVault(r, v) == r.at \in Loaded => r.seen # None /\ r.seen = v
HasEdit(r) ==
    r.op = "mutate" \/ (r.op = "session" /\ r.at \in Queued) => r.edit # None
HasKey(r) ==
    r.op \in {"require", "session"} \/ (r.op = "mutate" /\ r.at \in Queued)
        => r.key # None
EditApplies(r) ==
    r.op \in Editing /\ r.at = "write" => Applies(r.edit, r.seen.contents)
CanRecover(r) ==
    r.op \in Repairing /\ r.at \in Loaded => Recovering(r.pw, r.seen) # {}

Sound(r, v, l, p) ==
    /\ HoldsLock(r, l, p)
    /\ SeesVault(r, v)
    /\ HasEdit(r)
    /\ HasKey(r)
    /\ EditApplies(r)
    /\ CanRecover(r)

SectionsSound == \A p \in Processes : Sound(proc[p], vault, vaultLock, p)

IInv == TypeOK /\ SectionsSound

-----------------------------------------------------------------------------
(* What the envelopes are made of. *)
LEMMA SealType ==
    ASSUME NEW key \in Keys, NEW contents \in SUBSET Records, NEW salt \in Nat,
           NEW params \in Shapes
    PROVE  /\ SealWithKey(key, contents, salt, params) \in Envelopes
           /\ SealWithKey(key, contents, salt, params).contents = contents
BY DEF SealWithKey, Envelopes, Shapes

LEMMA DeriveType ==
    ASSUME NEW pw \in {Master, Wrong, NoPassword}, NEW salt \in Nat, NEW shape \in Shapes
    PROVE  DeriveKeyWithParams(pw, salt, shape) \in Keys
BY DEF DeriveKeyWithParams, Keys

LEMMA KeyOfType ==
    ASSUME NEW pw \in {Master, Wrong, NoPassword}, NEW env \in Envelopes
    PROVE  KeyOf(pw, env) \in Keys
BY DeriveType DEF KeyOf, Envelopes

LEMMA SealEnvelopeType ==
    ASSUME NEW pw \in {Master, Wrong, NoPassword}, NEW contents \in SUBSET Records,
           NEW salt \in Nat
    PROVE  /\ SealEnvelope(pw, contents, salt) \in Envelopes
           /\ SealEnvelope(pw, contents, salt).contents = contents
<1>1. DeriveKeyWithParams(pw, salt, "default") \in Keys
  BY DeriveType DEF Shapes
<1> QED
  BY <1>1, SealType DEF SealEnvelope, Shapes

LEMMA SealKeyringType ==
    ASSUME NEW key \in Keys, NEW contents \in SUBSET Records, NEW salt \in Nat
    PROVE  /\ SealKeyringEnvelope(key, contents, salt) \in Envelopes
           /\ SealKeyringEnvelope(key, contents, salt).contents = contents
BY DEF SealKeyringEnvelope, SealWithKey, Envelopes, Shapes, NoParams

LEMMA ResealType ==
    ASSUME NEW key \in Keys, NEW contents \in SUBSET Records, NEW env \in Envelopes
    PROVE  /\ Reseal(key, contents, env) \in Envelopes
           /\ Reseal(key, contents, env).contents = contents
BY DEF Reseal, SealWithKey, Envelopes

LEMMA PreservedType ==
    ASSUME NEW pw, NEW env \in Envelopes, Recovering(pw, env) # {}
    PROVE  /\ Preserved(pw, env) \in Envelopes
           /\ Preserved(pw, env).contents = env.contents
<1> DEFINE c == CHOOSE c \in Recovering(pw, env) : TRUE
<1>1. c \in Recovering(pw, env)
  OBVIOUS
<1>2. c \in Shapes
  BY <1>1 DEF Recovering, RecoveryCandidates, Envelopes, Shapes, NoParams
<1>3. Preserved(pw, env) = SealWithKey(env.key, env.contents, env.salt, c)
  BY DEF Preserved
<1>4. env.key \in Keys /\ env.contents \in SUBSET Records /\ env.salt \in Nat
  BY DEF Envelopes
<1> HIDE DEF c
<1> QED
  BY <1>2, <1>3, <1>4, SealType

LEMMA IdleSound ==
    ASSUME NEW v, NEW l, NEW p
    PROVE  Idle \in Activity /\ Sound(Idle, v, l, p)
BY NoneAssumption DEF Idle, Activity, Positions, Sound, HoldsLock, SeesVault, HasEdit,
   HasKey, EditApplies, CanRecover, Inside, Loaded, Queued, Editing, Repairing, AllCommands

(* A step of one process, which touches the vault only while it holds the  *)
(* lock, disturbs no other.                                                *)
LEMMA OthersUndisturbed ==
    ASSUME SectionsSound, proc \in [Processes -> Activity],
           NEW p \in Processes, NEW r \in Activity,
           proc' = [proc EXCEPT ![p] = r],
           Sound(r, vault', vaultLock', p),
           vault' = vault \/ vaultLock = p,
           \/ vaultLock' = vaultLock
           \/ vaultLock = None
           \/ vaultLock = p
    PROVE  SectionsSound' /\ proc' \in [Processes -> Activity]
<1>1. proc' \in [Processes -> Activity]
  OBVIOUS
<1>2. ASSUME NEW q \in Processes
      PROVE  Sound(proc'[q], vault', vaultLock', q)
  <2>1. CASE q = p
    BY <2>1
  <2>2. CASE q # p
    <3>1. proc'[q] = proc[q] /\ Sound(proc[q], vault, vaultLock, q)
      BY <2>2 DEF SectionsSound
    <3>2. CASE proc[q].at \in Inside
      <4>1. vaultLock = q /\ q # None
        BY <3>1, <3>2, NoneAssumption DEF Sound, HoldsLock
      <4>2. vault' = vault /\ vaultLock' = vaultLock
        BY <4>1, <2>2
      <4> QED
        BY <3>1, <4>2
    <3>3. CASE proc[q].at \notin Inside
      <4>1. HoldsLock(proc[q], vaultLock', q) /\ SeesVault(proc[q], vault')
        BY <3>3 DEF HoldsLock, SeesVault, Inside, Loaded
      <4> QED
        BY <3>1, <4>1 DEF Sound
    <3> QED
      BY <3>2, <3>3
  <2> QED
    BY <2>1, <2>2
<1> QED
  BY <1>1, <1>2 DEF SectionsSound

(***************************************************************************)
(* The moves of a process.                                                 *)
(***************************************************************************)
Moved(r, a) == [r EXCEPT !.at = a]

LEMMA MovedSound ==
    ASSUME NEW r \in Activity, NEW v, NEW l, NEW v2, NEW l2, NEW p, Sound(r, v, l, p),
           NEW a \in Positions \ (Inside \cup Queued)
    PROVE  Moved(r, a) \in Activity /\ Sound(Moved(r, a), v2, l2, p)
<1>1. /\ Moved(r, a) \in Activity
      /\ Moved(r, a).at = a /\ Moved(r, a).op = r.op
      /\ Moved(r, a).edit = r.edit /\ Moved(r, a).key = r.key
  BY DEF Moved, Activity
<1>2. HasEdit(r) /\ HasKey(r)
  BY DEF Sound
<1> DEFINE m == Moved(r, a)
<1>3. HasEdit(m) /\ HasKey(m)
  BY <1>1, <1>2 DEF HasEdit, HasKey
<1>4. HoldsLock(m, l2, p) /\ SeesVault(m, v2) /\ EditApplies(m) /\ CanRecover(m)
  BY <1>1 DEF HoldsLock, SeesVault, EditApplies, CanRecover, Inside, Queued, Loaded
<1> QED
  BY <1>1, <1>3, <1>4 DEF Sound

(* Whatever a process begins is sound when it starts outside the lock with *)
(* the edit and the key its command needs.                                 *)
LEMMA OutsideSound ==
    ASSUME NEW r \in Activity, NEW v, NEW l, NEW p, r.at \notin Inside,
           HasEdit(r), HasKey(r)
    PROVE  Sound(r, v, l, p)
BY DEF Sound, HoldsLock, SeesVault, EditApplies, CanRecover, Inside, Loaded

LEMMA ProcType ==
    ASSUME IInv, NEW p \in Processes
    PROVE  /\ proc \in [Processes -> Activity]
           /\ proc[p] \in Activity
           /\ Sound(proc[p], vault, vaultLock, p)
BY DEF IInv, TypeOK, Activity, SectionsSound

(* A process goes on to a, holding what it held. *)
LEMMA GotoStep ==
    ASSUME IInv, NEW p \in Processes, NEW a \in Positions \ (Inside \cup Queued),
           Goto(p, a), vault' = vault \/ vaultLock = p,
           vaultLock' = vaultLock \/ FreeVaultLock(p)
    PROVE  /\ SectionsSound' /\ proc' \in [Processes -> Activity]
           /\ vaultLock' \in {None} \cup Processes
<1>1. proc' = [proc EXCEPT ![p] = Moved(proc[p], a)]
  BY ProcType DEF Goto, Moved
<1>2. Moved(proc[p], a) \in Activity /\ Sound(Moved(proc[p], a), vault', vaultLock', p)
  BY ProcType, MovedSound
<1>3. vaultLock' = vaultLock \/ vaultLock = p
  BY DEF FreeVaultLock, Freed
<1>4. vaultLock' \in {None} \cup Processes
  BY DEF FreeVaultLock, Freed, IInv, TypeOK
<1> QED
  BY <1>1, <1>2, <1>3, <1>4, ProcType, OthersUndisturbed DEF IInv

(* A process answers, or ends: it goes back to idle or to its session.     *)
LEMMA ReturnStep ==
    ASSUME IInv, NEW p \in Processes, Return(p), vault' = vault \/ vaultLock = p
    PROVE  /\ SectionsSound' /\ proc' \in [Processes -> Activity]
           /\ vaultLock' \in {None} \cup Processes
           /\ configLock' \in {None} \cup Processes
<1> DEFINE open == [Idle EXCEPT !.op = "session", !.at = "open", !.key = proc[p].key]
           r == IF proc[p].op = "session" THEN open ELSE Idle
<1>1. proc' = [proc EXCEPT ![p] = r]
  BY DEF Return
<1>2. ASSUME proc[p].op = "session"
      PROVE  r \in Activity /\ Sound(r, vault', vaultLock', p)
  <2>1. proc[p].key \in Keys
    BY <1>2, ProcType DEF Activity, Sound, HasKey
  <2>2. /\ open \in Activity
        /\ open.op = "session" /\ open.at = "open" /\ open.key = proc[p].key
    BY <2>1, IdleSound DEF Idle, Activity, Positions, AllCommands
  <2>3. HasEdit(open) /\ HasKey(open) /\ open.at \notin Inside
    BY <2>1, <2>2, NoneAssumption DEF HasEdit, HasKey, Queued, Inside
  <2>4. Sound(open, vault', vaultLock', p)
    BY <2>2, <2>3, OutsideSound
  <2> QED
    BY <1>2, <2>2, <2>4
<1>3. ASSUME proc[p].op # "session"
      PROVE  r \in Activity /\ Sound(r, vault', vaultLock', p)
  BY <1>3, IdleSound
<1>4. r \in Activity /\ Sound(r, vault', vaultLock', p)
  BY <1>2, <1>3
<1>5. vaultLock' = vaultLock \/ vaultLock = p
  BY DEF Return, FreeLocks, FreeVaultLock, Freed
<1>6. vaultLock' \in {None} \cup Processes /\ configLock' \in {None} \cup Processes
  BY DEF Return, FreeLocks, FreeVaultLock, Freed, IInv, TypeOK
<1> HIDE DEF r
<1> QED
  BY <1>1, <1>4, <1>5, <1>6, ProcType, OthersUndisturbed DEF IInv

(* A process begins a command. *)
LEMMA BeginStep ==
    ASSUME IInv, NEW p \in Processes, NEW r \in Activity, r.at \notin Inside,
           HasEdit(r), HasKey(r), proc' = [proc EXCEPT ![p] = r],
           vault' = vault, vaultLock' = vaultLock
    PROVE  SectionsSound' /\ proc' \in [Processes -> Activity]
<1>1. Sound(r, vault', vaultLock', p)
  BY OutsideSound
<1> QED
  BY <1>1, ProcType, OthersUndisturbed DEF IInv

(* What a write leaves in the file. *)
LEMMA WritesType ==
    ASSUME IInv, NEW env \in Envelopes, NEW failed \in BOOLEAN, Writes(env, failed)
    PROVE  vault' \in {None} \cup Envelopes /\ (vault' = vault \/ vault' = env)
BY DEF Writes, IInv, TypeOK

(* A mutation that writes holds the lock over the vault it has loaded.     *)
LEMMA EditedType ==
    ASSUME NEW edit \in Edits, NEW contents \in SUBSET Records
    PROVE  Edited(edit, contents) \in SUBSET Records
BY DEF Edited, Edits

LEMMA WriteMutationType ==
    ASSUME IInv, NEW p \in Processes, NEW failed \in BOOLEAN, WriteMutation(p, failed)
    PROVE  /\ vault' \in {None} \cup Envelopes /\ fresh' \in Nat /\ vaultLock = p
           /\ vault \in Envelopes /\ proc[p].edit \in Edits
           /\ Applies(proc[p].edit, vault.contents)
           /\ \/ vault' = vault
              \/ vault' # None /\ vault'.contents = Edited(proc[p].edit, vault.contents)
<1>1. /\ proc[p] \in Activity /\ Sound(proc[p], vault, vaultLock, p)
      /\ proc[p].op \in Editing /\ proc[p].at = "write"
  BY ProcType DEF WriteMutation, At
<1>2. /\ proc[p].edit \in Edits /\ proc[p].key \in Keys
      /\ proc[p].seen # None /\ proc[p].seen = vault /\ vaultLock = p
      /\ Applies(proc[p].edit, vault.contents)
  BY <1>1 DEF Sound, HasEdit, HasKey, EditApplies, SeesVault, HoldsLock, Editing,
     Inside, Loaded, Queued, Activity
<1>3. vault \in Envelopes /\ vault.contents \in SUBSET Records /\ fresh \in Nat
  BY <1>2 DEF IInv, TypeOK, Envelopes
<1> DEFINE contents == Edited(proc[p].edit, vault.contents)
<1>4. contents \in SUBSET Records
  BY <1>2, <1>3, EditedType
<1>6. PICK read \in BOOLEAN :
        /\ Writes(IF read THEN Reseal(proc[p].key, contents, vault)
                  ELSE ResealUnread(proc[p].key, contents, fresh), failed)
        /\ fresh' = IF read THEN fresh ELSE fresh + 1
  BY <1>2 DEF WriteMutation
<1> DEFINE resealed == IF read THEN Reseal(proc[p].key, contents, vault)
                       ELSE ResealUnread(proc[p].key, contents, fresh)
<1>5. resealed \in Envelopes /\ resealed.contents = contents
  <2> HIDE DEF contents
  <2>1. CASE read
    BY <1>2, <1>3, <1>4, <2>1, ResealType
  <2>2. CASE ~read
    BY <1>2, <1>3, <1>4, <2>2, SealType DEF ResealUnread, SealWithKey, Shapes
  <2> QED
    BY <2>1, <2>2
<1> HIDE DEF contents, resealed
<1>7. vault' = vault \/ vault' = resealed
  BY <1>5, <1>6, WritesType DEF resealed
<1> QED
  BY <1>2, <1>3, <1>5, <1>6, <1>7, NoneAssumption DEF contents

(***************************************************************************)
(* The inductive invariant, action by action.                              *)
(***************************************************************************)
LEMMA MutationKeeps ==
    ASSUME IInv, NEW p \in Processes, Mutation(p)
    PROVE  IInv'
<1> USE DEF store, locks, unlocking
<1>0. /\ TypeOK /\ proc \in [Processes -> Activity] /\ proc[p] \in Activity
      /\ Sound(proc[p], vault, vaultLock, p)
  BY ProcType DEF IInv
<1>a. Idle \in Activity
  BY IdleSound
<1>1. ASSUME NEW pw \in {Master, Wrong, NoPassword}, NEW edit \in Edits,
             MutateBegin(p, pw, edit)
      PROVE  IInv'
  <2> DEFINE r == [Idle EXCEPT !.op = "mutate", !.at = "config lock", !.pw = pw,
                               !.edit = edit]
  <2>1. r \in Activity /\ r.op = "mutate" /\ r.at = "config lock" /\ r.edit = edit
    BY <1>a DEF Idle, Activity, Positions, AllCommands
  <2>2. HasEdit(r) /\ HasKey(r) /\ r.at \notin Inside
    BY <2>1, NoEditAssumption DEF HasEdit, HasKey, Queued, Inside
  <2>3. proc' = [proc EXCEPT ![p] = r] /\ UNCHANGED <<store, locks, unlocking, fresh>>
    BY <1>1 DEF MutateBegin
  <2> HIDE DEF r
  <2>4. SectionsSound' /\ proc' \in [Processes -> Activity]
    BY <2>1, <2>2, <2>3, BeginStep
  <2> QED
    BY <1>0, <2>3, <2>4 DEF IInv, TypeOK, Activity
<1>2. ASSUME TakeConfigLock(p)
      PROVE  IInv'
  <2>1. SectionsSound' /\ proc' \in [Processes -> Activity]
    BY <1>2, GotoStep DEF TakeConfigLock, Positions, Inside, Queued
  <2> QED
    BY <1>0, <1>2, <2>1 DEF IInv, TypeOK, Activity, TakeConfigLock
<1>3. ASSUME ChooseKey(p)
      PROVE  IInv'
  <2> DEFINE k == ChosenKey(proc[p].pw)
             r == [proc[p] EXCEPT !.at = "lock", !.key = k, !.pw = NoPassword]
  <2>1. proc[p].op = "mutate" /\ proc[p].edit # None /\ k # None
    BY <1>0, <1>3 DEF ChooseKey, At, Sound, HasEdit
  <2>2. k \in Keys
    <3>1. KeyringKey # None => KeyringKey \in Keys
      BY <1>0 DEF KeyringKey, TypeOK
    <3>2. LoadsByPassword(proc[p].pw, vault) /\ vault # None => KeyOf(proc[p].pw, vault) \in Keys
      BY <1>0, KeyOfType DEF TypeOK, Activity
    <3>3. ~(enabled /\ KeyringKey # None) =>
            /\ vault # None /\ LoadsByPassword(proc[p].pw, vault)
            /\ k = KeyOf(proc[p].pw, vault)
      BY <2>1 DEF ChosenKey
    <3> QED
      BY <3>1, <3>2, <3>3, <2>1, <1>3 DEF ChosenKey, ChooseKey
  <2>3. /\ r \in Activity /\ r.op = "mutate" /\ r.at = "lock"
        /\ r.edit = proc[p].edit /\ r.key = k
    BY <1>0, <2>1, <2>2 DEF Activity, Positions
  <2>4. HasEdit(r) /\ HasKey(r) /\ r.at \notin Inside
    BY <2>1, <2>3 DEF HasEdit, HasKey, Inside
  <2>5. proc' = [proc EXCEPT ![p] = r] /\ UNCHANGED <<store, locks, unlocking, fresh>>
    BY <1>0, <1>3 DEF ChooseKey
  <2> HIDE DEF r, k
  <2>6. SectionsSound' /\ proc' \in [Processes -> Activity]
    BY <2>3, <2>4, <2>5, BeginStep
  <2> QED
    BY <1>0, <2>5, <2>6 DEF IInv, TypeOK, Activity
<1>4. ASSUME NoKeyChosen(p)
      PROVE  IInv'
  <2>1. /\ SectionsSound' /\ proc' \in [Processes -> Activity]
        /\ vaultLock' \in {None} \cup Processes /\ configLock' \in {None} \cup Processes
    BY <1>4, ReturnStep DEF NoKeyChosen
  <2> QED
    BY <1>0, <1>4, <2>1 DEF IInv, TypeOK, Activity, NoKeyChosen
<1>5. ASSUME NEW key \in SessionKeys, Unlock(p, key)
      PROVE  IInv'
  <2> DEFINE r == [Idle EXCEPT !.op = "session", !.at = "open", !.key = key]
  <2>1. key \in Keys
    BY <1>0, <1>5, KeyOfType DEF SessionKeys, KeyringKey, TypeOK
  <2>2. r \in Activity /\ r.op = "session" /\ r.at = "open" /\ r.key = key
    BY <1>a, <2>1 DEF Idle, Activity, Positions, AllCommands
  <2>3. HasEdit(r) /\ HasKey(r) /\ r.at \notin Inside
    BY <2>1, <2>2, NoneAssumption DEF HasEdit, HasKey, Queued, Inside
  <2>4. proc' = [proc EXCEPT ![p] = r] /\ UNCHANGED <<store, locks, unlocking, fresh>>
    BY <1>5 DEF Unlock
  <2> HIDE DEF r
  <2>5. SectionsSound' /\ proc' \in [Processes -> Activity]
    BY <2>2, <2>3, <2>4, BeginStep
  <2> QED
    BY <1>0, <2>4, <2>5 DEF IInv, TypeOK, Activity
<1>6. ASSUME NEW edit \in Edits, SessionMutate(p, edit)
      PROVE  IInv'
  <2> DEFINE r == [proc[p] EXCEPT !.at = "lock", !.edit = edit]
  <2>1. proc[p].op = "session" /\ proc[p].key # None
    BY <1>0, <1>6 DEF SessionMutate, At, Sound, HasKey
  <2>2. /\ r \in Activity /\ r.op = "session" /\ r.at = "lock"
        /\ r.edit = edit /\ r.key = proc[p].key
    BY <1>0, <2>1 DEF Activity, Positions
  <2>3. HasEdit(r) /\ HasKey(r) /\ r.at \notin Inside
    BY <2>1, <2>2, NoEditAssumption DEF HasEdit, HasKey, Inside
  <2>4. proc' = [proc EXCEPT ![p] = r] /\ UNCHANGED <<store, locks, unlocking, fresh>>
    BY <1>0, <1>6 DEF SessionMutate
  <2> HIDE DEF r
  <2>5. SectionsSound' /\ proc' \in [Processes -> Activity]
    BY <2>2, <2>3, <2>4, BeginStep
  <2> QED
    BY <1>0, <2>4, <2>5 DEF IInv, TypeOK, Activity
<1>7. ASSUME SessionEnds(p)
      PROVE  IInv'
  <2>1. Sound(Idle, vault', vaultLock', p) /\ proc' = [proc EXCEPT ![p] = Idle]
    BY <1>7, IdleSound DEF SessionEnds
  <2>2. SectionsSound' /\ proc' \in [Processes -> Activity]
    BY <1>0, <1>a, <1>7, <2>1, OthersUndisturbed DEF IInv, SessionEnds
  <2> QED
    BY <1>0, <1>7, <2>2 DEF IInv, TypeOK, Activity, SessionEnds
<1>8. ASSUME LoadLatest(p)
      PROVE  IInv'
  <2> DEFINE r == [proc[p] EXCEPT !.at = "write", !.seen = vault]
  <2>1. /\ proc[p].op \in Editing /\ proc[p].at = "locked" /\ vault # None
        /\ Applies(proc[p].edit, vault.contents)
        /\ proc[p].edit # None /\ proc[p].key # None /\ vaultLock = p
    BY <1>0, <1>8 DEF LoadLatest, At, Editable, Editing, Sound, HasEdit, HasKey,
       HoldsLock, Inside, Queued
  <2>2. /\ r \in Activity /\ r.op = proc[p].op /\ r.at = "write" /\ r.seen = vault
        /\ r.edit = proc[p].edit /\ r.key = proc[p].key
    BY <1>0, <2>1 DEF Activity, Positions, TypeOK
  <2>3. proc' = [proc EXCEPT ![p] = r] /\ UNCHANGED <<store, locks, unlocking, fresh>>
    BY <1>0, <1>8 DEF LoadLatest
  <2> HIDE DEF r
  <2>4. Sound(r, vault', vaultLock', p)
    BY <2>1, <2>2, <2>3 DEF Sound, HoldsLock, SeesVault, HasEdit, HasKey, EditApplies,
       CanRecover, Editing, Repairing
  <2>5. SectionsSound' /\ proc' \in [Processes -> Activity]
    BY <1>0, <2>2, <2>3, <2>4, OthersUndisturbed DEF IInv
  <2> QED
    BY <1>0, <2>3, <2>5 DEF IInv, TypeOK, Activity
<1>9. ASSUME MutationFails(p)
      PROVE  IInv'
  <2>1. /\ SectionsSound' /\ proc' \in [Processes -> Activity]
        /\ vaultLock' \in {None} \cup Processes /\ configLock' \in {None} \cup Processes
    BY <1>9, ReturnStep DEF MutationFails
  <2> QED
    BY <1>0, <1>9, <2>1 DEF IInv, TypeOK, Activity, MutationFails
<1>10. ASSUME NEW failed \in BOOLEAN, WriteMutation(p, failed)
       PROVE  IInv'
  <2>1. /\ vault' \in {None} \cup Envelopes
        /\ fresh' \in Nat /\ vaultLock = p
    BY <1>10, WriteMutationType
  <2>2. /\ SectionsSound' /\ proc' \in [Processes -> Activity]
        /\ vaultLock' \in {None} \cup Processes /\ configLock' \in {None} \cup Processes
    BY <1>10, <2>1, ReturnStep DEF WriteMutation
  <2> QED
    BY <1>0, <1>10, <2>1, <2>2 DEF IInv, TypeOK, Activity, WriteMutation
<1> QED
  BY <1>1, <1>2, <1>3, <1>4, <1>5, <1>6, <1>7, <1>8, <1>9, <1>10 DEF Mutation

LEMMA TakeVaultLockKeeps ==
    ASSUME IInv, NEW p \in Processes, TakeVaultLock(p)
    PROVE  IInv'
<1> USE DEF store, locks, unlocking
<1>0. /\ TypeOK /\ proc \in [Processes -> Activity] /\ proc[p] \in Activity
      /\ Sound(proc[p], vault, vaultLock, p)
  BY ProcType DEF IInv
<1> DEFINE r == [proc[p] EXCEPT !.at = "locked"]
<1>1. proc[p].at = "lock" /\ HasEdit(proc[p]) /\ HasKey(proc[p])
  BY <1>0 DEF TakeVaultLock, Sound
<1>2. /\ r \in Activity /\ r.op = proc[p].op /\ r.at = "locked"
      /\ r.edit = proc[p].edit /\ r.key = proc[p].key
  BY <1>0 DEF Activity, Positions
<1>3. proc' = [proc EXCEPT ![p] = r] /\ vaultLock = None /\ vaultLock' = p /\ vault' = vault
  BY <1>0 DEF TakeVaultLock, Goto
<1> HIDE DEF r
<1>4. Sound(r, vault', vaultLock', p)
  BY <1>1, <1>2, <1>3 DEF Sound, HoldsLock, SeesVault, HasEdit, HasKey, EditApplies,
     CanRecover, Loaded, Queued
<1>5. SectionsSound' /\ proc' \in [Processes -> Activity]
  BY <1>0, <1>2, <1>3, <1>4, OthersUndisturbed DEF IInv
<1> QED
  BY <1>0, <1>3, <1>5 DEF IInv, TypeOK, Activity, TakeVaultLock

LEMMA KilledKeeps ==
    ASSUME IInv, NEW p \in Processes, Killed(p)
    PROVE  IInv'
<1> USE DEF store, locks, unlocking
<1>0. TypeOK /\ proc \in [Processes -> Activity]
  BY ProcType DEF IInv
<1>1. Idle \in Activity /\ Sound(Idle, vault', vaultLock', p)
  BY IdleSound
<1>2. /\ proc' = [proc EXCEPT ![p] = Idle] /\ vault' = vault
      /\ vaultLock' = vaultLock \/ vaultLock = p
  BY DEF Killed, FreeLocks, FreeVaultLock, Freed
<1>3. SectionsSound' /\ proc' \in [Processes -> Activity]
  BY <1>0, <1>1, <1>2, OthersUndisturbed DEF IInv
<1> QED
  BY <1>0, <1>3 DEF IInv, TypeOK, Activity, Killed, FreeLocks, FreeVaultLock, Freed

(* What init and the maintenance commands write, and when.                 *)
LEMMA InitVaultType ==
    ASSUME IInv, NEW p \in Processes, NEW failed \in BOOLEAN, InitVault(p, failed)
    PROVE  /\ vault' \in {None} \cup Envelopes /\ fresh' \in Nat /\ vaultLock = p
           /\ vault = None
           /\ vault' = vault \/ (vault' # None /\ vault'.contents = {})
<1>1. vaultLock = p /\ proc[p].pw \in {Master, Wrong, NoPassword} /\ fresh \in Nat
  BY ProcType DEF InitVault, At, Sound, HoldsLock, Inside, Activity, IInv, TypeOK
<1> DEFINE env == SealEnvelope(proc[p].pw, {}, fresh)
<1>2. env \in Envelopes /\ env.contents = {}
  BY <1>1, SealEnvelopeType
<1>3. Writes(env, failed) /\ fresh' = fresh + 1 /\ vault = None
  BY DEF InitVault
<1> HIDE DEF env
<1> QED
  BY <1>1, <1>2, <1>3, WritesType, NoneAssumption

LEMMA WritePreservedType ==
    ASSUME IInv, NEW p \in Processes, NEW failed \in BOOLEAN, WritePreserved(p, failed)
    PROVE  /\ vault' \in {None} \cup Envelopes /\ vaultLock = p
           /\ vault \in Envelopes /\ vault' # None /\ vault'.contents = vault.contents
<1>1. /\ vaultLock = p /\ proc[p].seen = vault /\ vault # None
      /\ Recovering(proc[p].pw, vault) # {}
  BY ProcType DEF WritePreserved, At, Sound, HoldsLock, SeesVault, CanRecover, Repairing,
     Inside, Loaded
<1>2. vault \in Envelopes
  BY <1>1 DEF IInv, TypeOK
<1> DEFINE env == Preserved(proc[p].pw, vault)
<1>3. env \in Envelopes /\ env.contents = vault.contents
  BY <1>1, <1>2, PreservedType
<1>4. Writes(env, failed)
  BY <1>1 DEF WritePreserved
<1> HIDE DEF env
<1> QED
  BY <1>1, <1>2, <1>3, <1>4, WritesType, NoneAssumption

LEMMA WriteUpgradedType ==
    ASSUME IInv, NEW p \in Processes, NEW failed \in BOOLEAN, WriteUpgraded(p, failed)
    PROVE  /\ vault' \in {None} \cup Envelopes /\ fresh' \in Nat /\ vaultLock = p
           /\ vault \in Envelopes /\ vault' # None /\ vault'.contents = vault.contents
<1>1. /\ vaultLock = p /\ proc[p].seen = vault /\ vault # None /\ fresh \in Nat
      /\ proc[p].pw \in {Master, Wrong, NoPassword}
  BY ProcType DEF WriteUpgraded, At, Sound, HoldsLock, SeesVault, Inside, Loaded,
     Activity, IInv, TypeOK
<1>2. vault \in Envelopes /\ vault.contents \in SUBSET Records
  BY <1>1 DEF IInv, TypeOK, Envelopes
<1> DEFINE env == Upgraded(proc[p].pw, vault, fresh)
<1>3. env \in Envelopes /\ env.contents = vault.contents
  BY <1>1, <1>2, SealEnvelopeType DEF Upgraded
<1>4. Writes(env, failed) /\ fresh' = fresh + 1
  BY <1>1 DEF WriteUpgraded
<1> HIDE DEF env
<1> QED
  BY <1>1, <1>2, <1>3, <1>4, WritesType, NoneAssumption

LEMMA CreationKeeps ==
    ASSUME IInv, NEW p \in Processes, Creation(p)
    PROVE  IInv'
<1> USE DEF store, locks, unlocking
<1>0. /\ TypeOK /\ proc \in [Processes -> Activity] /\ proc[p] \in Activity
  BY ProcType DEF IInv
<1>1. ASSUME InitBegin(p)
      PROVE  IInv'
  <2> DEFINE r == [Idle EXCEPT !.op = "init", !.at = "lock", !.pw = Master]
  <2>1. r \in Activity /\ r.op = "init" /\ r.at = "lock"
    BY IdleSound DEF Idle, Activity, Positions, AllCommands
  <2>2. HasEdit(r) /\ HasKey(r) /\ r.at \notin Inside
    BY <2>1 DEF HasEdit, HasKey, Inside
  <2>3. proc' = [proc EXCEPT ![p] = r] /\ UNCHANGED <<store, locks, unlocking, fresh>>
    BY <1>1 DEF InitBegin
  <2> HIDE DEF r
  <2>4. SectionsSound' /\ proc' \in [Processes -> Activity]
    BY <2>1, <2>2, <2>3, BeginStep
  <2> QED
    BY <1>0, <2>3, <2>4 DEF IInv, TypeOK, Activity
<1>2. ASSUME NEW failed \in BOOLEAN, InitVault(p, failed)
      PROVE  IInv'
  <2>1. vault' \in {None} \cup Envelopes /\ fresh' \in Nat /\ vaultLock = p
    BY <1>2, InitVaultType
  <2>2. /\ SectionsSound' /\ proc' \in [Processes -> Activity]
        /\ vaultLock' \in {None} \cup Processes
        /\ configLock' \in {None} \cup Processes
    <3>1. CASE failed
      BY <1>2, <2>1, <3>1, ReturnStep DEF InitVault
    <3>2. CASE ~failed
      <4>1. Goto(p, "initialized") /\ FreeVaultLock(p) /\ configLock' = configLock
        BY <1>2, <3>2 DEF InitVault
      <4> QED
        BY <1>0, <2>1, <4>1, GotoStep DEF Positions, Inside, Queued, TypeOK
    <3> QED
      BY <3>1, <3>2
  <2> QED
    BY <1>0, <1>2, <2>1, <2>2 DEF IInv, TypeOK, Activity, InitVault
<1>3. ASSUME AlreadyExists(p)
      PROVE  IInv'
  <2>1. /\ SectionsSound' /\ proc' \in [Processes -> Activity]
        /\ vaultLock' \in {None} \cup Processes /\ configLock' \in {None} \cup Processes
    BY <1>3, ReturnStep DEF AlreadyExists
  <2> QED
    BY <1>0, <1>3, <2>1 DEF IInv, TypeOK, Activity, AlreadyExists
<1>4. ASSUME InitConfig(p)
      PROVE  IInv'
  <2>1. /\ SectionsSound' /\ proc' \in [Processes -> Activity]
        /\ vaultLock' \in {None} \cup Processes /\ configLock' \in {None} \cup Processes
    BY <1>4, ReturnStep DEF InitConfig
  <2> QED
    BY <1>0, <1>4, <2>1 DEF IInv, TypeOK, Activity, InitConfig
<1> QED
  BY <1>1, <1>2, <1>3, <1>4 DEF Creation

LEMMA MaintenanceKeeps ==
    ASSUME IInv, NEW p \in Processes, Maintenance(p)
    PROVE  IInv'
<1> USE DEF store, locks, unlocking
<1>0. /\ TypeOK /\ proc \in [Processes -> Activity] /\ proc[p] \in Activity
      /\ Sound(proc[p], vault, vaultLock, p)
  BY ProcType DEF IInv
<1>a. Idle \in Activity
  BY IdleSound
<1>b. BacksUp /\ vault # None => backups' \subseteq Envelopes
  BY <1>0 DEF BacksUp, TypeOK
<1>1. ASSUME BackupVault(p)
      PROVE  IInv'
  <2>1. SectionsSound'
    BY <1>1 DEF IInv, BackupVault, SectionsSound
  <2> QED
    BY <1>0, <1>1, <1>b, <2>1 DEF IInv, TypeOK, BackupVault
<1>2. ASSUME NEW pw \in {Master, Wrong, NoPassword}, RekeyBegin(p, pw)
      PROVE  IInv'
  <2> DEFINE r == [Idle EXCEPT !.op = "rekey", !.at = "lock", !.pw = pw]
  <2>1. r \in Activity /\ r.op = "rekey" /\ r.at = "lock"
    BY <1>a DEF Idle, Activity, Positions, AllCommands
  <2>2. HasEdit(r) /\ HasKey(r) /\ r.at \notin Inside
    BY <2>1 DEF HasEdit, HasKey, Inside
  <2>3. /\ proc' = [proc EXCEPT ![p] = r] /\ UNCHANGED <<vault, locks, unlocking, fresh>>
        /\ backups' \subseteq Envelopes
    BY <1>2, <1>b DEF RekeyBegin
  <2> HIDE DEF r
  <2>4. SectionsSound' /\ proc' \in [Processes -> Activity]
    BY <2>1, <2>2, <2>3, BeginStep
  <2> QED
    BY <1>0, <2>3, <2>4 DEF IInv, TypeOK, Activity
<1>3. ASSUME NEW pw \in {Master, Wrong, NoPassword}, NEW mode \in Repairing,
             RepairBegin(p, pw, mode)
      PROVE  IInv'
  <2> DEFINE r == [Idle EXCEPT !.op = mode, !.at = "lock", !.pw = pw]
  <2>1. r \in Activity /\ r.op \in Repairing /\ r.at = "lock"
    BY <1>a DEF Idle, Activity, Positions, AllCommands, Repairing
  <2>2. HasEdit(r) /\ HasKey(r) /\ r.at \notin Inside
    BY <2>1 DEF HasEdit, HasKey, Inside, Repairing
  <2>3. proc' = [proc EXCEPT ![p] = r] /\ UNCHANGED <<store, locks, unlocking, fresh>>
    BY <1>3 DEF RepairBegin
  <2> HIDE DEF r
  <2>4. SectionsSound' /\ proc' \in [Processes -> Activity]
    BY <2>1, <2>2, <2>3, BeginStep
  <2> QED
    BY <1>0, <2>3, <2>4 DEF IInv, TypeOK, Activity
<1>4. ASSUME OpenForReseal(p)
      PROVE  IInv'
  <2> DEFINE a == IF proc[p].op = "rekey" THEN "write" ELSE "back up"
             r == [proc[p] EXCEPT !.seen = vault, !.at = a]
  <2>1. /\ vaultLock = p /\ vault # None
        /\ proc[p].op = "rekey" \/ proc[p].op \in Repairing
        /\ proc[p].op \in Repairing => Recovering(proc[p].pw, vault) # {}
    BY <1>0, <1>4 DEF OpenForReseal, At, Rekeyable, Repairable, DiagnoseUnlock, Sound,
       HoldsLock, Inside, OpensWithRecovery, Repairing
  <2> HIDE DEF a
  <2>a. a \in Loaded /\ a \in Positions
    BY DEF a, Loaded, Positions
  <2>b. vault \in Envelopes
    BY <1>0, <2>1 DEF TypeOK
  <2>2. /\ r \in Activity /\ r.op = proc[p].op /\ r.at \in Loaded /\ r.seen = vault
        /\ r.pw = proc[p].pw
    BY <1>0, <2>a, <2>b DEF Activity
  <2> USE DEF a
  <2>3. proc' = [proc EXCEPT ![p] = r] /\ UNCHANGED <<store, locks, unlocking, fresh>>
    BY <1>0, <1>4 DEF OpenForReseal
  <2> HIDE DEF r
  <2>4. Sound(r, vault', vaultLock', p)
    BY <2>1, <2>2, <2>3 DEF Sound, HoldsLock, SeesVault, HasEdit, HasKey, EditApplies,
       CanRecover, Editing, Repairing
  <2>5. SectionsSound' /\ proc' \in [Processes -> Activity]
    BY <1>0, <2>2, <2>3, <2>4, OthersUndisturbed DEF IInv
  <2> QED
    BY <1>0, <2>3, <2>5 DEF IInv, TypeOK, Activity
<1>5. ASSUME ResealRefused(p)
      PROVE  IInv'
  <2>1. /\ SectionsSound' /\ proc' \in [Processes -> Activity]
        /\ vaultLock' \in {None} \cup Processes /\ configLock' \in {None} \cup Processes
    BY <1>5, ReturnStep DEF ResealRefused
  <2> QED
    BY <1>0, <1>5, <2>1 DEF IInv, TypeOK, Activity, ResealRefused
<1>6. ASSUME RepairBackup(p)
      PROVE  IInv'
  <2> DEFINE r == [proc[p] EXCEPT !.at = "write"]
  <2>1. /\ vaultLock = p /\ vault # None /\ proc[p].seen = vault
        /\ proc[p].op \in Repairing /\ Recovering(proc[p].pw, vault) # {}
    BY <1>0, <1>6 DEF RepairBackup, At, Sound, HoldsLock, SeesVault, CanRecover, Inside, Loaded
  <2>2. /\ r \in Activity /\ r.op = proc[p].op /\ r.at = "write" /\ r.seen = vault
        /\ r.pw = proc[p].pw
    BY <1>0, <2>1 DEF Activity, Positions
  <2>3. /\ proc' = [proc EXCEPT ![p] = r] /\ UNCHANGED <<vault, locks, unlocking, fresh>>
        /\ backups' \subseteq Envelopes
    BY <1>0, <1>6, <1>b, <2>1 DEF RepairBackup, Goto
  <2> HIDE DEF r
  <2>4. Sound(r, vault', vaultLock', p)
    BY <2>1, <2>2, <2>3 DEF Sound, HoldsLock, SeesVault, HasEdit, HasKey, EditApplies,
       CanRecover, Editing, Repairing
  <2>5. SectionsSound' /\ proc' \in [Processes -> Activity]
    BY <1>0, <2>2, <2>3, <2>4, OthersUndisturbed DEF IInv
  <2> QED
    BY <1>0, <2>3, <2>5 DEF IInv, TypeOK, Activity
<1>7. ASSUME BackupFails(p)
      PROVE  IInv'
  <2>1. /\ SectionsSound' /\ proc' \in [Processes -> Activity]
        /\ vaultLock' \in {None} \cup Processes /\ configLock' \in {None} \cup Processes
    BY <1>7, ReturnStep DEF BackupFails
  <2> QED
    BY <1>0, <1>7, <2>1 DEF IInv, TypeOK, Activity, BackupFails
<1>8. ASSUME NEW failed \in BOOLEAN, WritePreserved(p, failed)
      PROVE  IInv'
  <2>1. vault' \in {None} \cup Envelopes /\ vaultLock = p
    BY <1>8, WritePreservedType
  <2>2. /\ SectionsSound' /\ proc' \in [Processes -> Activity]
        /\ vaultLock' \in {None} \cup Processes /\ configLock' \in {None} \cup Processes
    BY <1>8, <2>1, ReturnStep DEF WritePreserved
  <2> QED
    BY <1>0, <1>8, <2>1, <2>2 DEF IInv, TypeOK, Activity, WritePreserved
<1>9. ASSUME NEW failed \in BOOLEAN, WriteUpgraded(p, failed)
      PROVE  IInv'
  <2>1. vault' \in {None} \cup Envelopes /\ fresh' \in Nat /\ vaultLock = p
    BY <1>9, WriteUpgradedType
  <2>2. /\ SectionsSound' /\ proc' \in [Processes -> Activity]
        /\ vaultLock' \in {None} \cup Processes /\ configLock' \in {None} \cup Processes
    BY <1>9, <2>1, ReturnStep DEF WriteUpgraded
  <2> QED
    BY <1>0, <1>9, <2>1, <2>2 DEF IInv, TypeOK, Activity, WriteUpgraded
<1> QED
  BY <1>1, <1>2, <1>3, <1>4, <1>5, <1>6, <1>7, <1>8, <1>9 DEF Maintenance

LEMMA MigrateType ==
    ASSUME IInv, NEW p \in Processes, NEW failed \in BOOLEAN,
           MigrateToKeyringRequired(p, failed)
    PROVE  /\ vault' \in {None} \cup Envelopes /\ vaultLock = p
           /\ vault \in Envelopes /\ vault' # None /\ vault'.contents = vault.contents
<1>1. /\ vaultLock = p /\ proc[p].seen = vault /\ vault # None
      /\ proc[p].key \in Keys
  BY ProcType DEF MigrateToKeyringRequired, At, Sound, HoldsLock, SeesVault, HasKey,
     Inside, Loaded, Activity
<1>2. vault \in Envelopes /\ vault.contents \in SUBSET Records /\ proc[p].key.n \in Nat
  BY <1>1 DEF IInv, TypeOK, Envelopes, Keys
<1> DEFINE env == SealKeyringEnvelope(proc[p].key, vault.contents, proc[p].key.n)
<1>3. env \in Envelopes /\ env.contents = vault.contents
  BY <1>1, <1>2, SealKeyringType
<1>4. Writes(env, failed)
  BY <1>1 DEF MigrateToKeyringRequired
<1> HIDE DEF env
<1> QED
  BY <1>1, <1>2, <1>3, <1>4, WritesType, NoneAssumption

LEMMA KeyringStepKeeps ==
    ASSUME IInv, NEW p \in Processes, KeyringStep(p)
    PROVE  IInv'
<1> USE DEF store, locks, unlocking
<1>0. /\ TypeOK /\ proc \in [Processes -> Activity] /\ proc[p] \in Activity
      /\ Sound(proc[p], vault, vaultLock, p)
  BY ProcType DEF IInv
<1>a. Idle \in Activity
  BY IdleSound
<1>1. ASSUME NEW pw \in {Master, Wrong}, EnableBegin(p, pw)
      PROVE  IInv'
  <2> DEFINE k == KeyOf(pw, vault)
             r == [Idle EXCEPT !.op = "enable", !.at = "store", !.key = k]
  <2>1. k \in Keys
    BY <1>0, <1>1, KeyOfType DEF EnableBegin, TypeOK
  <2>2. r \in Activity /\ r.op = "enable" /\ r.at = "store"
    BY <1>a, <2>1 DEF Idle, Activity, Positions, AllCommands
  <2>3. HasEdit(r) /\ HasKey(r) /\ r.at \notin Inside
    BY <2>2 DEF HasEdit, HasKey, Inside
  <2>4. proc' = [proc EXCEPT ![p] = r] /\ UNCHANGED <<store, locks, unlocking, fresh>>
    BY <1>1 DEF EnableBegin
  <2> HIDE DEF r, k
  <2>5. SectionsSound' /\ proc' \in [Processes -> Activity]
    BY <2>2, <2>3, <2>4, BeginStep
  <2> QED
    BY <1>0, <2>4, <2>5 DEF IInv, TypeOK, Activity
<1>2. ASSUME NEW pw \in {Master, Wrong}, NEW f \in RecoveryFiles, RequireBegin(p, pw, f)
      PROVE  IInv'
  <2> DEFINE k == RandomVaultKey(fresh)
             r == [Idle EXCEPT !.op = "require", !.at = "store", !.pw = pw, !.key = k,
                               !.file = f]
  <2>1. k \in Keys
    BY <1>0 DEF RandomVaultKey, Keys, TypeOK, Shapes, NoParams
  <2>2. r \in Activity /\ r.op = "require" /\ r.at = "store" /\ r.key = k
    BY <1>a, <2>1 DEF Idle, Activity, Positions, AllCommands
  <2>3. HasEdit(r) /\ HasKey(r) /\ r.at \notin Inside
    BY <2>1, <2>2, NoneAssumption DEF HasEdit, HasKey, Inside
  <2>4. /\ proc' = [proc EXCEPT ![p] = r] /\ UNCHANGED <<store, locks, unlocking>>
        /\ fresh' = fresh + 1
    BY <1>2 DEF RequireBegin
  <2> HIDE DEF r, k
  <2>5. SectionsSound' /\ proc' \in [Processes -> Activity]
    BY <2>2, <2>3, <2>4, BeginStep
  <2> QED
    BY <1>0, <2>4, <2>5 DEF IInv, TypeOK, Activity
<1>3. ASSUME NEW f \in RecoveryFiles, RecoverBegin(p, f)
      PROVE  IInv'
  <2> DEFINE r == [Idle EXCEPT !.op = "recover", !.at = "store", !.key = recovery[f]]
  <2>1. recovery[f] \in Keys
    BY <1>0, <1>3 DEF RecoverBegin, TypeOK
  <2>2. r \in Activity /\ r.op = "recover" /\ r.at = "store"
    BY <1>a, <2>1 DEF Idle, Activity, Positions, AllCommands
  <2>3. HasEdit(r) /\ HasKey(r) /\ r.at \notin Inside
    BY <2>2 DEF HasEdit, HasKey, Inside
  <2>4. proc' = [proc EXCEPT ![p] = r] /\ UNCHANGED <<store, locks, unlocking, fresh>>
    BY <1>3 DEF RecoverBegin
  <2> HIDE DEF r
  <2>5. SectionsSound' /\ proc' \in [Processes -> Activity]
    BY <2>2, <2>3, <2>4, BeginStep
  <2> QED
    BY <1>0, <2>4, <2>5 DEF IInv, TypeOK, Activity
<1>4. ASSUME StoreKey(p)
      PROVE  IInv'
  <2>1. /\ SectionsSound' /\ proc' \in [Processes -> Activity]
        /\ vaultLock' \in {None} \cup Processes
    BY <1>4, GotoStep DEF StoreKey, Positions, Inside, Queued
  <2> QED
    BY <1>0, <1>4, <2>1 DEF IInv, TypeOK, Activity, StoreKey, StoresKey
<1>5. ASSUME StoreFails(p)
      PROVE  IInv'
  <2>1. /\ SectionsSound' /\ proc' \in [Processes -> Activity]
        /\ vaultLock' \in {None} \cup Processes /\ configLock' \in {None} \cup Processes
    BY <1>5, ReturnStep DEF StoreFails
  <2> QED
    BY <1>0, <1>5, <2>1 DEF IInv, TypeOK, Activity, StoreFails
<1>6. ASSUME WriteRecoveryKey(p)
      PROVE  IInv'
  <2>1. /\ SectionsSound' /\ proc' \in [Processes -> Activity]
        /\ vaultLock' \in {None} \cup Processes
    BY <1>6, GotoStep DEF WriteRecoveryKey, Positions, Inside, Queued
  <2> QED
    BY <1>0, <1>6, <2>1 DEF IInv, TypeOK, Activity, WriteRecoveryKey
<1>7. ASSUME GiveUp(p)
      PROVE  IInv'
  <2>1. /\ SectionsSound' /\ proc' \in [Processes -> Activity]
        /\ vaultLock' \in {None} \cup Processes /\ configLock' \in {None} \cup Processes
    BY <1>7, ReturnStep DEF GiveUp
  <2> QED
    BY <1>0, <1>7, <2>1 DEF IInv, TypeOK, Activity, GiveUp, DeletesKey
<1>8. ASSUME EnableConfig(p)
      PROVE  IInv'
  <2> DEFINE r == [proc[p] EXCEPT !.at = "lock"]
  <2>1. CASE proc[p].op = "require"
    <3>1. /\ r \in Activity /\ r.op = "require" /\ r.at = "lock"
          /\ r.key = proc[p].key /\ proc[p].key # None
      BY <1>0, <2>1 DEF Activity, Positions, Sound, HasKey
    <3>2. HasEdit(r) /\ HasKey(r) /\ r.at \notin Inside
      BY <3>1 DEF HasEdit, HasKey, Inside
    <3>3. /\ proc' = [proc EXCEPT ![p] = r]
          /\ UNCHANGED <<store, locks, keyring, keyringUp, recovery, fresh>>
          /\ enabled' = TRUE
      BY <1>0, <1>8, <2>1 DEF EnableConfig, Goto
    <3> HIDE DEF r
    <3>4. SectionsSound' /\ proc' \in [Processes -> Activity]
      BY <3>1, <3>2, <3>3, BeginStep
    <3> QED
      BY <1>0, <3>3, <3>4 DEF IInv, TypeOK, Activity
  <2>2. CASE proc[p].op # "require"
    <3>1. /\ SectionsSound' /\ proc' \in [Processes -> Activity]
          /\ vaultLock' \in {None} \cup Processes
          /\ configLock' \in {None} \cup Processes
      BY <1>8, <2>2, ReturnStep DEF EnableConfig
    <3> QED
      BY <1>0, <1>8, <2>2, <3>1 DEF IInv, TypeOK, Activity, EnableConfig
  <2> QED
    BY <2>1, <2>2
<1>9. ASSUME MigrateLoad(p)
      PROVE  IInv'
  <2> DEFINE r == [proc[p] EXCEPT !.at = "write", !.seen = vault]
  <2>1. /\ vaultLock = p /\ vault # None /\ proc[p].op = "require" /\ proc[p].key # None
    BY <1>0, <1>9 DEF MigrateLoad, At, Sound, HoldsLock, HasKey, Inside
  <2>2. /\ r \in Activity /\ r.op = "require" /\ r.at = "write" /\ r.seen = vault
        /\ r.key = proc[p].key
    BY <1>0, <2>1 DEF Activity, Positions, TypeOK
  <2>3. proc' = [proc EXCEPT ![p] = r] /\ UNCHANGED <<store, locks, unlocking, fresh>>
    BY <1>0, <1>9 DEF MigrateLoad
  <2> HIDE DEF r
  <2>4. Sound(r, vault', vaultLock', p)
    BY <2>1, <2>2, <2>3 DEF Sound, HoldsLock, SeesVault, HasEdit, HasKey, EditApplies,
       CanRecover, Editing, Repairing
  <2>5. SectionsSound' /\ proc' \in [Processes -> Activity]
    BY <1>0, <2>2, <2>3, <2>4, OthersUndisturbed DEF IInv
  <2> QED
    BY <1>0, <2>3, <2>5 DEF IInv, TypeOK, Activity
<1>10. ASSUME MigrateRefused(p)
      PROVE  IInv'
  <2>1. /\ SectionsSound' /\ proc' \in [Processes -> Activity]
        /\ vaultLock' \in {None} \cup Processes
    BY <1>10, GotoStep DEF MigrateRefused, Positions, Inside, Queued
  <2> QED
    BY <1>0, <1>10, <2>1 DEF IInv, TypeOK, Activity, MigrateRefused
<1>11. ASSUME NEW failed \in BOOLEAN, MigrateToKeyringRequired(p, failed)
       PROVE  IInv'
  <2>1. vault' \in {None} \cup Envelopes /\ vaultLock = p
    BY <1>11, MigrateType
  <2>2. /\ SectionsSound' /\ proc' \in [Processes -> Activity]
        /\ vaultLock' \in {None} \cup Processes
        /\ configLock' \in {None} \cup Processes
    <3>1. CASE failed
      <4>1. Goto(p, "undo keyring") /\ FreeVaultLock(p) /\ configLock' = configLock
        BY <1>11, <3>1 DEF MigrateToKeyringRequired
      <4> QED
        BY <1>0, <2>1, <4>1, GotoStep DEF Positions, Inside, Queued, TypeOK
    <3>2. CASE ~failed
      BY <1>11, <2>1, <3>2, ReturnStep DEF MigrateToKeyringRequired
    <3> QED
      BY <3>1, <3>2
  <2> QED
    BY <1>0, <1>11, <2>1, <2>2 DEF IInv, TypeOK, Activity, MigrateToKeyringRequired
<1>12. ASSUME UndoKeyring(p)
      PROVE  IInv'
  <2>1. /\ SectionsSound' /\ proc' \in [Processes -> Activity]
        /\ vaultLock' \in {None} \cup Processes
    BY <1>12, GotoStep DEF UndoKeyring, Positions, Inside, Queued
  <2> QED
    BY <1>0, <1>12, <2>1 DEF IInv, TypeOK, Activity, UndoKeyring, DeletesKey
<1>13. ASSUME UndoRecovery(p)
      PROVE  IInv'
  <2>1. /\ SectionsSound' /\ proc' \in [Processes -> Activity]
        /\ vaultLock' \in {None} \cup Processes
    BY <1>13, GotoStep DEF UndoRecovery, Positions, Inside, Queued
  <2> QED
    BY <1>0, <1>13, <2>1 DEF IInv, TypeOK, Activity, UndoRecovery
<1>14. ASSUME UndoConfig(p)
      PROVE  IInv'
  <2>1. /\ SectionsSound' /\ proc' \in [Processes -> Activity]
        /\ vaultLock' \in {None} \cup Processes /\ configLock' \in {None} \cup Processes
    BY <1>14, ReturnStep DEF UndoConfig
  <2> QED
    BY <1>0, <1>14, <2>1 DEF IInv, TypeOK, Activity, UndoConfig
<1> QED
  BY <1>1, <1>2, <1>3, <1>4, <1>5, <1>6, <1>7, <1>8, <1>9, <1>10, <1>11, <1>12, <1>13,
     <1>14 DEF KeyringStep

LEMMA InitIInv == Init => IInv
<1> SUFFICES ASSUME Init
             PROVE  IInv
  OBVIOUS
<1>1. OldVaults \subseteq Envelopes
  <2>1. ASSUME NEW made \in Shapes, NEW says \in {made, NoParams, "default"},
               NEW d \in {NoDigest, made}
        PROVE  OldVault(made, says, d) \in Envelopes
    <3>1. DeriveKeyWithParams(Master, 0, made) \in Keys /\ says \in Shapes
      BY DeriveType DEF Shapes, NoParams
    <3>2. SealWithKey(DeriveKeyWithParams(Master, 0, made), {}, 0, says) \in Envelopes
      BY <3>1, SealType
    <3> QED
      BY <3>2 DEF OldVault, Envelopes
  <2>2. \A made \in Shapes :
           {OldVault(made, says, d) :
               says \in {made, NoParams, "default"}, d \in {NoDigest, made}} \subseteq Envelopes
    BY <2>1
  <2> QED
    BY <2>2 DEF OldVaults
<1>2. TypeOK
  BY <1>1, IdleSound, InstalledAssumption DEF Init, TypeOK, Activity
<1>3. SectionsSound
  BY IdleSound DEF Init, SectionsSound
<1> QED
  BY <1>2, <1>3 DEF IInv

LEMMA NextIInv == IInv /\ [Next]_vars => IInv'
<1> SUFFICES ASSUME IInv, [Next]_vars
             PROVE  IInv'
  OBVIOUS
<1>1. ASSUME NEW p \in Processes, StoreStep(p)
      PROVE  IInv'
  BY <1>1, MutationKeeps, CreationKeeps, MaintenanceKeeps, TakeVaultLockKeeps, KilledKeeps
  DEF StoreStep
<1>2. ASSUME NEW p \in Processes, KeyringStep(p)
      PROVE  IInv'
  BY <1>2, KeyringStepKeeps
<1>3. ASSUME KeyringToggles \/ KeyringLost \/ UNCHANGED vars
      PROVE  IInv'
  <2>1. SectionsSound'
    BY <1>3 DEF IInv, SectionsSound, KeyringToggles, KeyringLost, vars, store, locks
  <2> QED
    BY <1>3, <2>1 DEF IInv, TypeOK, KeyringToggles, KeyringLost, vars, store, locks, unlocking
<1> QED
  BY <1>1, <1>2, <1>3 DEF Next

(* The vault, its backups, the locks and the keyring keep their types, and *)
(* so does what every process holds (internal/secret, cmd/keyring.go).     *)
THEOREM VaultTypeCorrect == Spec => []TypeOK
<1>1. IInv => TypeOK
  BY DEF IInv
<1> QED
  BY <1>1, InitIInv, NextIInv, PTL DEF Spec

(***************************************************************************)
(* The refinement: the vault as the records in it, the edits as those in   *)
(* the hands of the processes.                                             *)
(***************************************************************************)
Contents == IF vault = None THEN None ELSE vault.contents
Asked == {proc[p].edit : p \in Processes} \ {None}

(* Only the five writers change the file. *)
LEMMA OnlyWritersWrite ==
    ASSUME [Next]_vars, vault' # vault
    PROVE  \E p \in Processes, failed \in BOOLEAN :
              \/ WriteMutation(p, failed)
              \/ InitVault(p, failed)
              \/ WritePreserved(p, failed)
              \/ WriteUpgraded(p, failed)
              \/ MigrateToKeyringRequired(p, failed)
<1> USE DEF store, locks, unlocking
<1>1. ~(KeyringToggles \/ KeyringLost \/ UNCHANGED vars)
  BY DEF KeyringToggles, KeyringLost, vars
<1>2. PICK p \in Processes : StoreStep(p) \/ KeyringStep(p)
  BY <1>1 DEF Next
<1>3. Mutation(p) => \E failed \in BOOLEAN : WriteMutation(p, failed)
  BY DEF Mutation, MutateBegin, TakeConfigLock, ChooseKey, NoKeyChosen, Unlock,
     SessionMutate, SessionEnds, LoadLatest, MutationFails
<1>4. Creation(p) => \E failed \in BOOLEAN : InitVault(p, failed)
  BY DEF Creation, InitBegin, AlreadyExists, InitConfig
<1>5. Maintenance(p) =>
         \E failed \in BOOLEAN : WritePreserved(p, failed) \/ WriteUpgraded(p, failed)
  BY DEF Maintenance, BackupVault, RekeyBegin, RepairBegin, OpenForReseal, ResealRefused,
     RepairBackup, BackupFails
<1>6. ~TakeVaultLock(p) /\ ~Killed(p)
  BY DEF TakeVaultLock, Killed
<1>7. KeyringStep(p) => \E failed \in BOOLEAN : MigrateToKeyringRequired(p, failed)
  BY DEF KeyringStep, EnableBegin, RequireBegin, RecoverBegin, StoreKey, StoreFails,
     WriteRecoveryKey, GiveUp, EnableConfig, MigrateLoad, MigrateRefused, UndoKeyring,
     UndoRecovery, UndoConfig
<1> QED
  BY <1>2, <1>3, <1>4, <1>5, <1>6, <1>7 DEF StoreStep

LEMMA ContentsStep ==
    ASSUME IInv, [Next]_vars
    PROVE  \/ Contents' = Contents
           \/ Contents = None /\ Contents' = {}
           \/ /\ Contents # None
              /\ \E e \in Asked :
                    \/ /\ e.op = "add" /\ e.rec \notin Contents
                       /\ Contents' = Contents \cup {e.rec}
                    \/ /\ e.op = "remove" /\ e.rec \in Contents
                       /\ Contents' = Contents \ {e.rec}
<1>1. CASE vault' = vault
  BY <1>1 DEF Contents
<1>2. CASE vault' # vault
  <2>0. PICK p \in Processes, failed \in BOOLEAN :
              \/ WriteMutation(p, failed)
              \/ InitVault(p, failed)
              \/ WritePreserved(p, failed)
              \/ WriteUpgraded(p, failed)
              \/ MigrateToKeyringRequired(p, failed)
    BY <1>2, OnlyWritersWrite
  <2>1. CASE WriteMutation(p, failed)
    <3> DEFINE e == proc[p].edit
    <3>1. /\ e \in Edits /\ vault \in Envelopes /\ Applies(e, vault.contents)
          /\ vault' # None /\ vault'.contents = Edited(e, vault.contents)
      BY <1>2, <2>1, WriteMutationType
    <3>2. vault # None /\ vault.contents \in SUBSET Records
      BY <3>1, NoneAssumption DEF Envelopes
    <3>3. Contents = vault.contents /\ Contents' = Edited(e, vault.contents) /\ Contents # None
      BY <3>1, <3>2, NoEditAssumption DEF Contents
    <3>4. e \in Asked
      BY <3>1, NoEditAssumption DEF Asked
    <3>5. CASE e.op = "add"
      <4>1. e.rec \notin Contents /\ Contents' = Contents \cup {e.rec}
        BY <3>1, <3>3, <3>5 DEF Applies, Edited
      <4> QED
        BY <3>3, <3>4, <3>5, <4>1
    <3>6. CASE e.op = "remove"
      <4>1. e.rec \in Contents /\ Contents' = Contents \ {e.rec}
        BY <3>1, <3>3, <3>6 DEF Applies, Edited
      <4> QED
        BY <3>3, <3>4, <3>6, <4>1
    <3> QED
      BY <3>1, <3>5, <3>6 DEF Edits
  <2>2. CASE InitVault(p, failed)
    BY <1>2, <2>2, InitVaultType DEF Contents
  <2>3. CASE WritePreserved(p, failed)
    BY <2>3, WritePreservedType, NoneAssumption DEF Contents
  <2>4. CASE WriteUpgraded(p, failed)
    BY <2>4, WriteUpgradedType, NoneAssumption DEF Contents
  <2>5. CASE MigrateToKeyringRequired(p, failed)
    BY <2>5, MigrateType, NoneAssumption DEF Contents
  <2> QED
    BY <2>0, <2>1, <2>2, <2>3, <2>4, <2>5
<1> QED
  BY <1>1, <1>2

LEMMA AskedType == IInv => Asked \subseteq Edits
BY DEF IInv, TypeOK, Asked

(* However the commands and sessions of any processes interleave, fail and *)
(* die, the records of the vault change one asked edit at a time: no       *)
(* mutation is lost to another, and creating, rekeying, repairing and      *)
(* migrating change no record (internal/secret/vault.go).                  *)
THEOREM VaultImplementsContents == Spec => ImplementsVaultContents
<1>1. Init => Promise!Init
  <2> SUFFICES ASSUME Init
               PROVE  Promise!Init
    OBVIOUS
  <2>1. Contents \in {None} \cup SUBSET Records
    BY InitIInv DEF IInv, TypeOK, Contents, Envelopes
  <2>2. Asked = {}
    BY DEF Init, Asked, Idle
  <2> QED
    BY <2>1, <2>2 DEF Promise!Init, Contents, Asked
<1>2. IInv /\ IInv' /\ [Next]_vars => [Promise!Next]_<<Contents, Asked>>
  <2> SUFFICES ASSUME IInv, IInv', [Next]_vars
               PROVE  Promise!Next
    OBVIOUS
  <2>1. Asked' \subseteq Promise!Edits
    BY AskedType DEF Edits, Promise!Edits, Asked, IInv, TypeOK
  <2> QED
    BY <2>1, ContentsStep DEF Promise!Next, Promise!Create, Promise!Edit, Promise!Add,
       Promise!Remove, Contents, Asked
<1> QED
  BY <1>1, <1>2, InitIInv, NextIInv, PTL DEF Spec, ImplementsVaultContents, Promise!Spec,
     Contents, Asked

(***************************************************************************)
(* Repairs: between the backup and the write nobody else replaces the      *)
(* vault, and nothing removes a backup.                                    *)
(***************************************************************************)
BackedUp ==
    \A p \in Processes : At(p, Repairing, "write") => proc[p].seen \in backups

(* A step of a process leaves the record of every other one alone.         *)
LEMMA OthersStay ==
    ASSUME IInv, NEW p \in Processes, NEW q \in Processes, p # q,
           StoreStep(q) \/ KeyringStep(q)
    PROVE  proc'[p] = proc[p]
<1> USE ProcType DEF Goto, Return
<1>1. Mutation(q) => proc'[p] = proc[p]
  BY DEF Mutation, MutateBegin, TakeConfigLock, ChooseKey, NoKeyChosen, Unlock,
     SessionMutate, SessionEnds, LoadLatest, MutationFails, WriteMutation
<1>2. Creation(q) => proc'[p] = proc[p]
  BY DEF Creation, InitBegin, InitVault, AlreadyExists, InitConfig
<1>3. Maintenance(q) => proc'[p] = proc[p]
  BY DEF Maintenance, BackupVault, RekeyBegin, RepairBegin, OpenForReseal, ResealRefused,
     RepairBackup, BackupFails, WritePreserved, WriteUpgraded
<1>4. TakeVaultLock(q) \/ Killed(q) => proc'[p] = proc[p]
  BY DEF TakeVaultLock, Killed
<1>5. KeyringStep(q) => proc'[p] = proc[p]
  BY DEF KeyringStep, EnableBegin, RequireBegin, RecoverBegin, StoreKey, StoreFails,
     WriteRecoveryKey, GiveUp, EnableConfig, MigrateLoad, MigrateRefused,
     MigrateToKeyringRequired, UndoKeyring, UndoRecovery, UndoConfig
<1> QED
  BY <1>1, <1>2, <1>3, <1>4, <1>5 DEF StoreStep

(* The only way a repair comes to its write is through its backup.         *)
LEMMA RepairsWriteAfterBackup ==
    ASSUME IInv, NEW p \in Processes, StoreStep(p) \/ KeyringStep(p),
           proc'[p].op \in Repairing, proc'[p].at = "write"
    PROVE  RepairBackup(p)
<1>1. proc \in [Processes -> Activity] /\ proc[p] \in Activity
  BY ProcType
<1>a. Idle \in Activity
  BY IdleSound
<1>2. ~Return(p)
  <2>1. ASSUME Return(p), proc[p].op = "session"
        PROVE  proc'[p].at = "open"
    BY <1>1, <2>1 DEF Return, Idle, Activity
  <2>2. ASSUME Return(p), proc[p].op # "session"
        PROVE  proc'[p].at = "idle"
    BY <1>1, <2>2 DEF Return, Idle, Activity
  <2> QED
    BY <2>1, <2>2
<1>3. proc' # [proc EXCEPT ![p] = Idle]
  BY <1>1 DEF Idle, Activity
<1>4. ~Mutation(p)
  <2>1. ASSUME NEW pw \in {Master, Wrong, NoPassword}, NEW edit \in Edits
        PROVE  ~MutateBegin(p, pw, edit)
    BY <1>1, <1>a DEF MutateBegin, Activity
  <2>2. ~TakeConfigLock(p)
    BY <1>1 DEF Goto, Activity, TakeConfigLock
  <2>3. ~ChooseKey(p)
    BY <1>1 DEF ChooseKey, Activity
  <2>4. ~NoKeyChosen(p) /\ ~SessionEnds(p) /\ ~MutationFails(p)
    BY <1>2, <1>3 DEF NoKeyChosen, SessionEnds, MutationFails
  <2>5. ASSUME NEW key \in SessionKeys
        PROVE  ~Unlock(p, key)
    BY <1>1, <1>a DEF Unlock, Activity
  <2>6. ASSUME NEW edit \in Edits
        PROVE  ~SessionMutate(p, edit)
    BY <1>1 DEF SessionMutate, Activity
  <2>7. ~LoadLatest(p)
    BY <1>1 DEF LoadLatest, At, Editing, Repairing, Activity
  <2>8. ASSUME NEW failed \in BOOLEAN
        PROVE  ~WriteMutation(p, failed)
    BY <1>2 DEF WriteMutation
  <2> QED
    BY <2>1, <2>2, <2>3, <2>4, <2>5, <2>6, <2>7, <2>8 DEF Mutation
<1>5. ~Creation(p)
  <2>1. ~InitBegin(p)
    BY <1>1, <1>a DEF InitBegin, Activity
  <2>2. ASSUME NEW failed \in BOOLEAN
        PROVE  ~InitVault(p, failed)
    BY <1>1, <1>2 DEF Goto, Activity, InitVault
  <2>3. ~AlreadyExists(p) /\ ~InitConfig(p)
    BY <1>2 DEF AlreadyExists, InitConfig
  <2> QED
    BY <2>1, <2>2, <2>3 DEF Creation
<1>6. Maintenance(p) => RepairBackup(p)
  <2>1. ~BackupVault(p)
    BY <1>1 DEF BackupVault, Starts, Idle
  <2>2. ASSUME NEW pw \in {Master, Wrong, NoPassword}
        PROVE  ~RekeyBegin(p, pw)
    BY <1>1, <1>a DEF RekeyBegin, Activity
  <2>3. ASSUME NEW pw \in {Master, Wrong, NoPassword}, NEW mode \in Repairing
        PROVE  ~RepairBegin(p, pw, mode)
    <3>1. RepairBegin(p, pw, mode) => proc'[p].at = "lock"
      BY <1>1, <1>a DEF RepairBegin, Activity
    <3> QED
      BY <3>1
  <2>4. ~OpenForReseal(p)
    <3>1. ASSUME OpenForReseal(p), proc[p].op = "rekey"
          PROVE  proc'[p].op = "rekey"
      BY <1>1, <3>1 DEF OpenForReseal, Activity
    <3>2. ASSUME OpenForReseal(p), proc[p].op # "rekey"
          PROVE  proc'[p].at = "back up"
      BY <1>1, <3>2 DEF OpenForReseal, Activity
    <3> QED
      BY <3>1, <3>2 DEF Repairing
  <2>5. ~ResealRefused(p) /\ ~BackupFails(p)
    BY <1>2 DEF ResealRefused, BackupFails
  <2>6. ASSUME NEW failed \in BOOLEAN
        PROVE  ~WritePreserved(p, failed) /\ ~WriteUpgraded(p, failed)
    BY <1>2 DEF WritePreserved, WriteUpgraded
  <2> QED
    BY <2>1, <2>2, <2>3, <2>4, <2>5, <2>6 DEF Maintenance
<1>7. ~TakeVaultLock(p) /\ ~Killed(p)
  BY <1>1, <1>3 DEF Goto, Activity, TakeVaultLock, Killed
<1>8. ~KeyringStep(p)
  <2>1. ASSUME NEW pw \in {Master, Wrong}
        PROVE  ~EnableBegin(p, pw)
    BY <1>1, <1>a DEF EnableBegin, Activity
  <2>2. ASSUME NEW pw \in {Master, Wrong}, NEW f \in RecoveryFiles
        PROVE  ~RequireBegin(p, pw, f)
    <3> DEFINE r == [Idle EXCEPT !.op = "require", !.at = "store", !.pw = pw,
                                 !.key = RandomVaultKey(fresh), !.file = f]
    <3>1. r.at = "store"
      BY <1>a DEF Activity
    <3>2. RequireBegin(p, pw, f) => proc' = [proc EXCEPT ![p] = r]
      BY DEF RequireBegin
    <3> HIDE DEF r
    <3> QED
      BY <1>1, <3>1, <3>2
  <2>3. ASSUME NEW f \in RecoveryFiles
        PROVE  ~RecoverBegin(p, f)
    BY <1>1, <1>a DEF RecoverBegin, Activity
  <2>4. ~StoreKey(p)
    BY <1>1 DEF Goto, Activity, StoreKey
  <2>5. ~StoreFails(p) /\ ~GiveUp(p) /\ ~UndoConfig(p)
    BY <1>2 DEF StoreFails, GiveUp, UndoConfig
  <2>6. ~WriteRecoveryKey(p) /\ ~MigrateRefused(p)
    BY <1>1 DEF Goto, Activity, WriteRecoveryKey, MigrateRefused
  <2>7. ~EnableConfig(p)
    BY <1>1, <1>2 DEF Goto, Activity, EnableConfig
  <2>8. ~MigrateLoad(p)
    BY <1>1 DEF MigrateLoad, At, Repairing, Activity
  <2>9. ASSUME NEW failed \in BOOLEAN
        PROVE  ~MigrateToKeyringRequired(p, failed)
    BY <1>1, <1>2 DEF Goto, Activity, MigrateToKeyringRequired
  <2>10. ~UndoKeyring(p) /\ ~UndoRecovery(p)
    BY <1>1 DEF Goto, Activity, UndoKeyring, UndoRecovery
  <2> QED
    BY <2>1, <2>2, <2>3, <2>4, <2>5, <2>6, <2>7, <2>8, <2>9, <2>10 DEF KeyringStep
<1> QED
  BY <1>4, <1>5, <1>6, <1>7, <1>8 DEF StoreStep

LEMMA BackupsStay == [Next]_vars => backups \subseteq backups'
<1> USE DEF store
<1>1. ASSUME NEW p \in Processes, StoreStep(p)
      PROVE  backups \subseteq backups'
  <2>1. Mutation(p) => backups' = backups
    BY DEF Mutation, MutateBegin, TakeConfigLock, ChooseKey, NoKeyChosen, Unlock,
       SessionMutate, SessionEnds, LoadLatest, MutationFails, WriteMutation
  <2>2. Creation(p) => backups' = backups
    BY DEF Creation, InitBegin, InitVault, AlreadyExists, InitConfig
  <2>3. Maintenance(p) => backups \subseteq backups'
    BY DEF Maintenance, BackupVault, RekeyBegin, RepairBegin, OpenForReseal, ResealRefused,
       RepairBackup, BackupFails, WritePreserved, WriteUpgraded, BacksUp
  <2>4. TakeVaultLock(p) \/ Killed(p) => backups' = backups
    BY DEF TakeVaultLock, Killed
  <2> QED
    BY <1>1, <2>1, <2>2, <2>3, <2>4 DEF StoreStep
<1>2. ASSUME NEW p \in Processes, KeyringStep(p)
      PROVE  backups' = backups
  BY <1>2 DEF KeyringStep, EnableBegin, RequireBegin, RecoverBegin, StoreKey, StoreFails,
     WriteRecoveryKey, GiveUp, EnableConfig, MigrateLoad, MigrateRefused,
     MigrateToKeyringRequired, UndoKeyring, UndoRecovery, UndoConfig
<1> QED
  BY <1>1, <1>2 DEF Next, KeyringToggles, KeyringLost, vars

LEMMA NextBackedUp == IInv /\ BackedUp /\ [Next]_vars => BackedUp'
<1> SUFFICES ASSUME IInv, BackedUp, [Next]_vars, NEW p \in Processes,
                    proc'[p].op \in Repairing, proc'[p].at = "write"
             PROVE  proc'[p].seen \in backups'
  BY DEF BackedUp, At
<1>1. CASE proc'[p] = proc[p]
  BY <1>1, BackupsStay DEF BackedUp, At
<1>2. CASE proc'[p] # proc[p]
  <2>1. PICK q \in Processes : StoreStep(q) \/ KeyringStep(q)
    BY <1>2 DEF Next, KeyringToggles, KeyringLost, vars
  <2>2. q = p
    BY <1>2, <2>1, OthersStay
  <2>3. RepairBackup(p)
    BY <2>1, <2>2, RepairsWriteAfterBackup
  <2>4. proc[p].seen = vault /\ proc'[p].seen = proc[p].seen
    BY <2>3, ProcType DEF RepairBackup, Goto, At, Sound, SeesVault, Loaded, Activity
  <2> QED
    BY <2>3, <2>4 DEF RepairBackup, BacksUp
<1> QED
  BY <1>1, <1>2

(* When a repair replaces the vault, a backup of the very file it replaces *)
(* exists, whatever else runs (repairVaultLocked, writeBackup).            *)
THEOREM RepairsAlwaysBackedUp == Spec => RepairsAreBackedUp
<1> DEFINE Covered ==
      \A p \in Processes : At(p, Repairing, "write") /\ proc'[p] = Idle /\ vault' # vault
                               => vault \in backups
<1>1. Init => BackedUp
  BY IdleSound, NoneAssumption DEF Init, BackedUp, At, Idle, Repairing
<1>2. IInv /\ BackedUp => Covered
  <2> SUFFICES ASSUME IInv, BackedUp, NEW p \in Processes, At(p, Repairing, "write")
               PROVE  vault \in backups
    OBVIOUS
  <2>1. proc[p].seen = vault
    BY ProcType DEF At, Sound, SeesVault, Loaded
  <2> QED
    BY <2>1 DEF BackedUp
<1> QED
  BY <1>1, <1>2, InitIInv, NextIInv, NextBackedUp, PTL DEF Spec, RepairsAreBackedUp

(***************************************************************************)
(* There is always a way into the vault, as long as a migration to the     *)
(* keyring is never told of a failure after it has replaced the file: the  *)
(* run finding_keyring_migration shows that the condition is needed.       *)
(*                                                                         *)
(* The argument: the random key that seals a keyring vault is in the       *)
(* recovery file its migration wrote, and no process that may still take   *)
(* a recovery file back holds that key; every other write seals under the  *)
(* master password, since the vault it read opened by no other.            *)
(***************************************************************************)
NoLostMigration == "sync" \notin Faults \/ "require" \notin Commands

(* A mutation finds the file's metadata again.                             *)
AlwaysReread == "reread" \notin Faults

(* Where a keyring-required has its recovery file, and where only a        *)
(* keyring-required can be.                                                *)
Kept == {"config", "lock", "locked", "write", "undo keyring", "undo recovery"}
Requiring == {"recovery file", "undo keyring", "undo recovery", "undo config"}

Plain(v) == LoadsByPassword(Master, v) \/ v.mode = "keyring"

InFile(v, rec, n) ==
    /\ v.mode = "keyring" /\ Readable(v)
    /\ v.key.from = "random" /\ v.key.n < n
    /\ \E f \in RecoveryFiles : rec[f] = v.key

WayIn(v, rec, n) == v = None \/ OpensWithRecovery(Master, v) \/ InFile(v, rec, n)

KnowsKey(r) ==
    /\ r.op = "init" => r.pw = Master
    /\ r.op \in Editing /\ r.at = "write" => LoadsByKey(r.key, r.seen)
    /\ r.op = "rekey" /\ r.at = "write" => LoadsByKey(KeyOf(r.pw, r.seen), r.seen)

Migrating(r, v, rec, n) ==
    /\ r.at \in Requiring => r.op = "require"
    /\ r.op = "require" =>
          /\ "require" \in Commands
          /\ r.file \in RecoveryFiles
          /\ r.key.from = "random" /\ r.key.n < n
          /\ r.at \in Kept => rec[r.file] = r.key
          /\ v # None => v.key # r.key

(* Whoever holds the vault's key got it from a vault that opens. *)
Opens(k, v) == k # None /\ v # None /\ v.key = k => Plain(v)

Guarded(r, v, rec, n) == KnowsKey(r) /\ Migrating(r, v, rec, n) /\ Opens(r.key, v)

Distinct ==
    \A p, q \in Processes :
        p # q /\ proc[p].op = "require" /\ proc[q].op = "require"
            => proc[p].key # proc[q].key

WayInv ==
    /\ IInv
    /\ NoLostMigration /\ AlwaysReread
    /\ WayIn(vault, recovery, fresh)
    /\ \A p \in Processes : Guarded(proc[p], vault, recovery, fresh)
    /\ Opens(keyring, vault)
    /\ Distinct

(* What a step of p may do to the stores. *)
Replaces(p) ==
    \/ vault' = vault
    \/ /\ vault' # None
       /\ Plain(vault')
       /\ \A q \in Processes \ {p} : proc[q].op = "require" => proc[q].key # vault'.key

Erases(p) ==
    \A f \in RecoveryFiles :
        \/ recovery'[f] = recovery[f]
        \/ recovery[f] = None
        \/ proc[p].op = "require" /\ proc[p].at \in Kept /\ f = proc[p].file

Around(p) ==
    /\ Replaces(p)
    /\ Erases(p)
    /\ fresh' \in Nat /\ fresh <= fresh'
    /\ keyring' \in {keyring, None, proc[p].key}
    /\ WayIn(vault', recovery', fresh')

-----------------------------------------------------------------------------
LEMMA WayFacts ==
    ASSUME WayInv, NEW p \in Processes
    PROVE  /\ IInv /\ TypeOK /\ fresh \in Nat
           /\ vault # None => vault \in Envelopes /\ vault.key \in Keys
           /\ proc \in [Processes -> Activity] /\ proc[p] \in Activity
           /\ Sound(proc[p], vault, vaultLock, p)
           /\ KnowsKey(proc[p]) /\ Migrating(proc[p], vault, recovery, fresh)
           /\ Opens(proc[p].key, vault)
           /\ proc[p].op = "require" => proc[p].key \in Keys
<1>1. IInv /\ TypeOK /\ Guarded(proc[p], vault, recovery, fresh)
  BY DEF WayInv, IInv
<1>2. vault # None => vault \in Envelopes /\ vault.key \in Keys
  BY <1>1 DEF TypeOK, Envelopes
<1>3. /\ proc \in [Processes -> Activity] /\ proc[p] \in Activity
      /\ Sound(proc[p], vault, vaultLock, p)
  BY <1>1, ProcType
<1>4. proc[p].op = "require" => proc[p].key \in Keys
  BY <1>3 DEF Sound, HasKey, Activity
<1> QED
  BY <1>1, <1>2, <1>3, <1>4 DEF Guarded, TypeOK

(* The way in outlives what does not touch the vault. *)
LEMMA WayKept ==
    ASSUME WayInv, NEW p \in Processes, vault' = vault, Erases(p),
           fresh' \in Nat, fresh <= fresh'
    PROVE  WayIn(vault', recovery', fresh')
<1>1. CASE vault = None \/ OpensWithRecovery(Master, vault)
  BY <1>1 DEF WayIn
<1>2. CASE vault # None /\ InFile(vault, recovery, fresh)
  <2>1. PICK f \in RecoveryFiles : recovery[f] = vault.key
    BY <1>2 DEF InFile
  <2>2. vault.key \in Keys /\ vault.key # None /\ vault.key.n \in Nat
    BY <1>2, WayFacts, NoneAssumption DEF Keys
  <2>3. ~(proc[p].op = "require" /\ proc[p].at \in Kept /\ f = proc[p].file)
    BY <1>2, <2>1, WayFacts DEF Migrating
  <2>4. recovery'[f] = vault.key
    BY <2>1, <2>2, <2>3 DEF Erases
  <2>5. vault.key.n < fresh'
    BY <1>2, <2>2, WayFacts DEF InFile
  <2> QED
    BY <1>2, <2>4, <2>5 DEF InFile, WayIn
<1> QED
  BY <1>1, <1>2 DEF WayInv, WayIn

LEMMA WayStep ==
    ASSUME WayInv, IInv', NEW p \in Processes, NEW r \in Activity,
           proc' = [proc EXCEPT ![p] = r],
           Guarded(r, vault', recovery', fresh'),
           r.op = "require" => \/ proc[p].op = "require" /\ r.key = proc[p].key
                               \/ r.key.n = fresh,
           Around(p)
    PROVE  WayInv'
<1>0. proc \in [Processes -> Activity] /\ fresh \in Nat
  BY WayFacts
<1>1. proc'[p] = r /\ \A q \in Processes \ {p} : proc'[q] = proc[q]
  BY <1>0
<1>2. ASSUME NEW q \in Processes, q # p
      PROVE  Guarded(proc[q], vault', recovery', fresh')
  <2>1. /\ KnowsKey(proc[q]) /\ Migrating(proc[q], vault, recovery, fresh)
        /\ Opens(proc[q].key, vault)
        /\ proc[q].op = "require" => proc[q].key \in Keys
    BY WayFacts
  <2>2. Opens(proc[q].key, vault')
    BY <2>1 DEF Opens, Around, Replaces
  <2>3. ASSUME proc[q].op = "require"
        PROVE  /\ proc[q].key.n < fresh'
               /\ vault' # None => vault'.key # proc[q].key
    <3>1. proc[q].key.n \in Nat /\ proc[q].key.n < fresh
      BY <2>1, <2>3 DEF Keys, Migrating
    <3>2. vault' # None => vault'.key # proc[q].key
      BY <1>2, <2>1, <2>3 DEF Around, Replaces, Migrating
    <3> QED
      BY <1>0, <3>1, <3>2 DEF Around
  <2>4. ASSUME proc[q].op = "require", proc[q].at \in Kept
        PROVE  recovery'[proc[q].file] = proc[q].key
    <3>1. /\ recovery[proc[q].file] = proc[q].key /\ proc[q].file \in RecoveryFiles
          /\ proc[q].key # None
      BY <2>1, <2>4, NoneAssumption DEF Migrating
    <3>2. ~(proc[p].op = "require" /\ proc[p].at \in Kept /\ proc[q].file = proc[p].file)
      <4>1. SUFFICES ASSUME proc[p].op = "require", proc[p].at \in Kept,
                            proc[q].file = proc[p].file
                     PROVE  FALSE
        OBVIOUS
      <4>2. recovery[proc[p].file] = proc[p].key
        BY <4>1, WayFacts DEF Migrating
      <4>3. proc[p].key = proc[q].key
        BY <3>1, <4>1, <4>2
      <4> QED
        BY <1>2, <2>4, <4>1, <4>3 DEF WayInv, Distinct
    <3> QED
      BY <3>1, <3>2 DEF Around, Erases
  <2>5. Migrating(proc[q], vault', recovery', fresh')
    BY <2>1, <2>3, <2>4 DEF Migrating
  <2> QED
    BY <2>1, <2>2, <2>5 DEF Guarded
<1>3. \A q \in Processes : Guarded(proc'[q], vault', recovery', fresh')
  BY <1>1, <1>2
<1>4. Opens(keyring', vault')
  <2>1. Opens(keyring, vault) /\ Opens(proc[p].key, vault)
    BY WayFacts DEF WayInv
  <2>2. Opens(keyring', vault)
    BY <2>1 DEF Around, Opens
  <2> QED
    BY <2>2 DEF Around, Replaces, Opens
<1>5. Distinct'
  <2>1. ASSUME NEW q \in Processes, q # p, r.op = "require", proc[q].op = "require"
        PROVE  r.key # proc[q].key
    <3>1. CASE proc[p].op = "require" /\ r.key = proc[p].key
      BY <2>1, <3>1 DEF WayInv, Distinct
    <3>2. CASE r.key.n = fresh
      <4>1. proc[q].key \in Keys /\ proc[q].key.n < fresh
        BY <2>1, WayFacts DEF Migrating
      <4>2. proc[q].key.n # fresh
        BY <1>0, <4>1 DEF Keys
      <4> QED
        BY <3>2, <4>2
    <3> QED
      BY <2>1, <3>1, <3>2
  <2>2. ASSUME NEW q \in Processes, NEW s \in Processes, q # s,
               proc'[q].op = "require", proc'[s].op = "require"
        PROVE  proc'[q].key # proc'[s].key
    <3>1. CASE q = p
      BY <1>1, <2>1, <2>2, <3>1
    <3>2. CASE s = p
      BY <1>1, <2>1, <2>2, <3>2
    <3>3. CASE q # p /\ s # p
      BY <1>1, <2>2, <3>3 DEF WayInv, Distinct
    <3> QED
      BY <3>1, <3>2, <3>3
  <2> QED
    BY <2>2 DEF Distinct
<1> QED
  BY <1>3, <1>4, <1>5 DEF WayInv, Around, NoLostMigration, AlwaysReread

(* The three kinds of step that leave the stores alone. *)
LEMMA Alone ==
    ASSUME WayInv, NEW p \in Processes, UNCHANGED <<vault, recovery, fresh>>,
           keyring' \in {keyring, None, proc[p].key}
    PROVE  Around(p)
<1>1. Replaces(p) /\ Erases(p) /\ fresh' \in Nat /\ fresh <= fresh'
  BY WayFacts DEF Replaces, Erases
<1> QED
  BY <1>1, WayKept DEF Around

LEMMA GoesOn ==
    ASSUME WayInv, IInv', NEW p \in Processes, NEW r \in Activity,
           proc' = [proc EXCEPT ![p] = r], Around(p),
           r.op = proc[p].op, r.key = proc[p].key, r.file = proc[p].file,
           vault' = vault, recovery' = recovery,
           KnowsKey(r), r.at \in Requiring => r.op = "require",
           r.op = "require" /\ r.at \in Kept => proc[p].at \in Kept
    PROVE  WayInv'
<1>1. Migrating(proc[p], vault, recovery, fresh) /\ Opens(proc[p].key, vault)
  BY WayFacts
<1>2. r.op = "require" => r.key.n < fresh'
  <2>1. r.op = "require" => r.key.n \in Nat /\ r.key.n < fresh
    BY <1>1, WayFacts DEF Migrating, Keys
  <2> QED
    BY <2>1, WayFacts DEF Around
<1>3. Guarded(r, vault', recovery', fresh')
  BY <1>1, <1>2 DEF Guarded, Migrating, Opens
<1> QED
  BY <1>3, WayStep

LEMMA Begins ==
    ASSUME WayInv, IInv', NEW p \in Processes, NEW r \in Activity,
           proc' = [proc EXCEPT ![p] = r],
           UNCHANGED <<vault, recovery, fresh, keyring>>,
           r.op # "require", r.at \notin Requiring, KnowsKey(r), Opens(r.key, vault)
    PROVE  WayInv'
<1>1. Guarded(r, vault', recovery', fresh')
  BY DEF Guarded, Migrating
<1> QED
  BY <1>1, Alone, WayStep

LEMMA Returns ==
    ASSUME WayInv, IInv', NEW p \in Processes, Return(p), Around(p)
    PROVE  WayInv'
<1> DEFINE open == [Idle EXCEPT !.op = "session", !.at = "open", !.key = proc[p].key]
           r == IF proc[p].op = "session" THEN open ELSE Idle
<1>1. proc' = [proc EXCEPT ![p] = r]
  BY DEF Return
<1>2. proc' \in [Processes -> Activity] /\ proc'[p] = r
  BY <1>1, WayFacts DEF IInv, TypeOK, Activity
<1>3. r \in Activity
  BY <1>2
<1>4. Opens(proc[p].key, vault')
  BY WayFacts DEF Around, Replaces, Opens
<1>5. Guarded(r, vault', recovery', fresh')
  BY <1>4, NoneAssumption DEF Guarded, KnowsKey, Migrating, Opens, Idle, Requiring, Editing, AllCommands
<1>6. r.op # "require"
  BY NoneAssumption DEF Idle, AllCommands
<1> HIDE DEF r
<1> QED
  BY <1>1, <1>3, <1>5, <1>6, WayStep

(* What a password opens, and what the vault's key says of its vault. *)
LEMMA KeyFrom ==
    ASSUME WayInv, vault # None
    PROVE  vault.key.from = IF vault.mode = "keyring" THEN "random" ELSE Master
<1>1. OpensWithRecovery(Master, vault) \/ InFile(vault, recovery, fresh)
  BY DEF WayInv, WayIn
<1>2. CASE OpensWithRecovery(Master, vault)
  <2>1. PICK c \in RecoveryCandidates(vault) :
           vault.key = DeriveKeyWithParams(Master, vault.salt, c)
    BY <1>2 DEF OpensWithRecovery, Recovering
  <2>2. vault.key.from = Master
    BY <2>1 DEF DeriveKeyWithParams
  <2> QED
    BY <1>2, <2>2 DEF OpensWithRecovery, RecoveryReadable
<1>3. CASE InFile(vault, recovery, fresh)
  BY <1>3 DEF InFile
<1> QED
  BY <1>1, <1>2, <1>3

LEMMA RecoveringFrom ==
    ASSUME NEW pw, NEW env, Recovering(pw, env) # {}
    PROVE  env.key.from = pw
<1>1. PICK c \in Recovering(pw, env) : TRUE
  OBVIOUS
<1>2. env.key = DeriveKeyWithParams(pw, env.salt, c)
  BY <1>1 DEF Recovering
<1> QED
  BY <1>2 DEF DeriveKeyWithParams

LEMMA DerivedFromMaster ==
    ASSUME WayInv, vault # None, NEW pw \in {Master, Wrong, NoPassword},
           vault.key.from = pw
    PROVE  pw = Master
<1>1. pw # "random"
  BY DEF Master, Wrong, NoPassword
<1> QED
  BY <1>1, KeyFrom

LEMMA PasswordOpens ==
    ASSUME WayInv, vault # None, NEW pw, LoadsByPassword(pw, vault)
    PROVE  pw = Master /\ Plain(vault)
BY KeyFrom DEF LoadsByPassword, LoadsByKey, KeyOf, DeriveKeyWithParams, Plain

LEMMA PlainOpens ==
    ASSUME NEW env \in Envelopes, LoadsByPassword(Master, env)
    PROVE  Plain(env) /\ OpensWithRecovery(Master, env)
BY DEF Plain, LoadsByPassword, LoadsByKey, Readable, KeyOf, OpensWithRecovery,
   RecoveryReadable, Recovering, RecoveryCandidates, Envelopes

(* What a write of env by p leaves. *)
LEMMA WriteAround ==
    ASSUME WayInv, NEW p \in Processes, NEW env \in Envelopes, NEW failed \in BOOLEAN,
           Writes(env, failed), Plain(env), WayIn(env, recovery, fresh'),
           \A q \in Processes \ {p} : proc[q].op = "require" => proc[q].key # env.key,
           fresh' \in Nat, fresh <= fresh', UNCHANGED <<recovery, keyring>>
    PROVE  Around(p)
<1>1. vault' = vault \/ vault' = env
  BY DEF Writes
<1>2. env # None
  BY NoneAssumption
<1>3. Replaces(p) /\ Erases(p)
  BY <1>1, <1>2 DEF Replaces, Erases
<1>4. WayIn(vault', recovery', fresh')
  BY <1>1, <1>3, WayKept
<1> QED
  BY <1>3, <1>4 DEF Around

(* A seal under the master password. *)
LEMMA SealsPlain ==
    ASSUME WayInv, NEW p \in Processes, NEW env \in Envelopes,
           LoadsByPassword(Master, env), env.key.from = Master
    PROVE  /\ Plain(env) /\ \A n : WayIn(env, recovery, n)
           /\ \A q \in Processes \ {p} : proc[q].op = "require" => proc[q].key # env.key
<1>1. \A q \in Processes : proc[q].op = "require" => proc[q].key.from = "random"
  BY WayFacts DEF Migrating
<1>2. Master # "random"
  BY DEF Master
<1> QED
  BY <1>1, <1>2, PlainOpens DEF WayIn

LEMMA SealEnvelopeOpens ==
    ASSUME NEW contents, NEW n
    PROVE  /\ LoadsByPassword(Master, SealEnvelope(Master, contents, n))
           /\ SealEnvelope(Master, contents, n).key.from = Master
BY DEF SealEnvelope, SealWithKey, LoadsByPassword, LoadsByKey, Readable, KeyOf,
   DeriveKeyWithParams, Master, NoPassword

(* What an edit writes opens as what it has read. *)
LEMMA WriteMutationWay ==
    ASSUME WayInv, NEW p \in Processes, NEW failed \in BOOLEAN, WriteMutation(p, failed)
    PROVE  Around(p) /\ (vault' # vault => Plain(vault'))
<1> USE DEF store, locks, unlocking
<1>1. /\ vault \in Envelopes /\ proc[p].edit \in Edits /\ proc[p].key \in Keys
      /\ proc[p].seen = vault /\ LoadsByKey(proc[p].key, vault) /\ vault # None
  BY WayFacts, NoneAssumption DEF WriteMutation, At, Sound, HasEdit, HasKey, SeesVault, KnowsKey,
     Editing, Loaded, Queued, Activity
<1>2. Plain(vault) /\ Readable(vault) /\ vault.key = proc[p].key
  BY <1>1, WayFacts, NoneAssumption DEF Opens, LoadsByKey
<1> DEFINE contents == Edited(proc[p].edit, vault.contents)
           env == Reseal(proc[p].key, contents, vault)
<1>3. contents \in SUBSET Records
  BY <1>1, EditedType DEF Envelopes
<1>4. env \in Envelopes
  BY <1>1, <1>3, ResealType
<1>5. /\ env.mode = vault.mode /\ env.key = vault.key /\ env.salt = vault.salt
      /\ env.params = vault.params /\ env.digest = vault.params
  BY <1>2 DEF Reseal, SealWithKey
<1>6. Writes(env, failed) /\ fresh' = fresh /\ UNCHANGED <<recovery, keyring>>
  BY <1>1 DEF WriteMutation, WayInv, AlwaysReread
<1> HIDE DEF contents, env
<1>7. Plain(env) /\ WayIn(env, recovery, fresh)
  <2>1. CASE vault.mode = "keyring"
    <3>1. InFile(vault, recovery, fresh)
      BY <1>1, <2>1 DEF WayInv, WayIn, OpensWithRecovery, RecoveryReadable
    <3> QED
      BY <1>5, <2>1, <3>1 DEF InFile, Plain, WayIn, Readable
  <2>2. CASE LoadsByPassword(Master, vault)
    <3>1. LoadsByPassword(Master, env)
      BY <1>5, <2>2 DEF LoadsByPassword, LoadsByKey, KeyOf, Readable
    <3> QED
      BY <1>4, <3>1, PlainOpens DEF WayIn
  <2> QED
    BY <1>2, <2>1, <2>2 DEF Plain
<1>8. \A q \in Processes \ {p} : proc[q].op = "require" => proc[q].key # env.key
  BY <1>1, <1>5, WayFacts DEF Migrating
<1>9. fresh \in Nat
  BY WayFacts
<1>10. Around(p)
  BY <1>4, <1>6, <1>7, <1>8, <1>9, WriteAround
<1> QED
  BY <1>6, <1>7, <1>10 DEF Writes

(***************************************************************************)
(* The invariant, action by action.                                        *)
(***************************************************************************)
LEMMA WayMutation ==
    ASSUME WayInv, IInv', NEW p \in Processes, Mutation(p)
    PROVE  WayInv'
<1> USE DEF store, locks, unlocking
<1>0. /\ TypeOK /\ proc \in [Processes -> Activity] /\ proc[p] \in Activity
      /\ KnowsKey(proc[p]) /\ Sound(proc[p], vault, vaultLock, p)
      /\ Opens(proc[p].key, vault) /\ proc'[p] \in Activity
  BY WayFacts DEF IInv, TypeOK, Activity
<1>1. ASSUME NEW pw \in {Master, Wrong, NoPassword}, NEW edit \in Edits,
             MutateBegin(p, pw, edit)
      PROVE  WayInv'
  <2> DEFINE r == [Idle EXCEPT !.op = "mutate", !.at = "config lock", !.pw = pw,
                               !.edit = edit]
  <2>1. r.op = "mutate" /\ r.at = "config lock" /\ r.key = None
    BY DEF Idle
  <2>2. /\ proc' = [proc EXCEPT ![p] = r] /\ UNCHANGED <<vault, recovery, fresh, keyring>>
        /\ r \in Activity
    BY <1>0, <1>1 DEF MutateBegin
  <2> HIDE DEF r
  <2> QED
    BY <2>1, <2>2, Begins DEF KnowsKey, Opens, Requiring, Editing
<1>2. ASSUME TakeConfigLock(p)
      PROVE  WayInv'
  <2> DEFINE r == [proc[p] EXCEPT !.at = "choose"]
  <2>1. /\ r.op = proc[p].op /\ r.key = proc[p].key /\ r.file = proc[p].file
        /\ r.op = "mutate" /\ r.at = "choose"
    BY <1>0, <1>2 DEF TakeConfigLock, At, Activity
  <2>2. /\ proc' = [proc EXCEPT ![p] = r] /\ UNCHANGED <<vault, recovery, fresh, keyring>>
        /\ r \in Activity
    BY <1>0, <1>2 DEF TakeConfigLock, Goto
  <2> HIDE DEF r
  <2> QED
    BY <2>1, <2>2, <1>0, Begins DEF KnowsKey, Requiring
<1>3. ASSUME ChooseKey(p)
      PROVE  WayInv'
  <2> DEFINE k == ChosenKey(proc[p].pw)
             r == [proc[p] EXCEPT !.at = "lock", !.key = k, !.pw = NoPassword]
  <2>1. Opens(k, vault)
    <3>1. Opens(KeyringKey, vault)
      BY DEF WayInv, Opens, KeyringKey
    <3>2. vault # None /\ LoadsByPassword(proc[p].pw, vault) => Plain(vault)
      BY PasswordOpens
    <3> QED
      BY <3>1, <3>2 DEF ChosenKey, Opens
  <2>2. r.op = "mutate" /\ r.at = "lock" /\ r.key = k
    BY <1>0, <1>3 DEF ChooseKey, At, Activity
  <2>3. /\ proc' = [proc EXCEPT ![p] = r] /\ UNCHANGED <<vault, recovery, fresh, keyring>>
        /\ r \in Activity
    BY <1>0, <1>3 DEF ChooseKey
  <2> HIDE DEF r, k
  <2> QED
    BY <2>1, <2>2, <2>3, Begins DEF KnowsKey, Requiring
<1>4. ASSUME NoKeyChosen(p) \/ MutationFails(p)
      PROVE  WayInv'
  BY <1>4, Alone, Returns DEF NoKeyChosen, MutationFails
<1>5. ASSUME NEW key \in SessionKeys, Unlock(p, key)
      PROVE  WayInv'
  <2> DEFINE r == [Idle EXCEPT !.op = "session", !.at = "open", !.key = key]
  <2>1. Opens(key, vault)
    <3>1. CASE key = KeyringKey
      BY <3>1 DEF WayInv, Opens, KeyringKey
    <3>2. CASE \E pw \in {Master, Wrong} : vault # None /\ LoadsByPassword(pw, vault)
      BY <3>2, PasswordOpens DEF Opens
    <3> QED
      BY <1>5, <3>1, <3>2 DEF SessionKeys
  <2>2. r.op = "session" /\ r.at = "open" /\ r.key = key
    BY DEF Idle
  <2>3. /\ proc' = [proc EXCEPT ![p] = r] /\ UNCHANGED <<vault, recovery, fresh, keyring>>
        /\ r \in Activity
    BY <1>0, <1>5 DEF Unlock
  <2> HIDE DEF r
  <2> QED
    BY <2>1, <2>2, <2>3, Begins DEF KnowsKey, Requiring
<1>6. ASSUME NEW edit \in Edits, SessionMutate(p, edit)
      PROVE  WayInv'
  <2> DEFINE r == [proc[p] EXCEPT !.at = "lock", !.edit = edit]
  <2>1. r.op = "session" /\ r.at = "lock" /\ r.key = proc[p].key
    BY <1>0, <1>6 DEF SessionMutate, At, Activity
  <2>2. /\ proc' = [proc EXCEPT ![p] = r] /\ UNCHANGED <<vault, recovery, fresh, keyring>>
        /\ r \in Activity
    BY <1>0, <1>6 DEF SessionMutate
  <2> HIDE DEF r
  <2> QED
    BY <1>0, <2>1, <2>2, Begins DEF KnowsKey, Requiring
<1>7. ASSUME SessionEnds(p)
      PROVE  WayInv'
  <2>1. KnowsKey(Idle) /\ Opens(Idle.key, vault) /\ Idle.op # "require" /\ Idle.at \notin Requiring
    BY NoneAssumption DEF Idle, KnowsKey, Opens, Editing, Requiring, AllCommands
  <2>2. /\ proc' = [proc EXCEPT ![p] = Idle] /\ UNCHANGED <<vault, recovery, fresh, keyring>>
    BY <1>7 DEF SessionEnds
  <2> QED
    BY <2>1, <2>2, IdleSound, Begins
<1>8. ASSUME LoadLatest(p)
      PROVE  WayInv'
  <2> DEFINE r == [proc[p] EXCEPT !.at = "write", !.seen = vault]
  <2>1. /\ r.op \in Editing /\ r.at = "write" /\ r.key = proc[p].key /\ r.seen = vault
        /\ LoadsByKey(proc[p].key, vault)
    BY <1>0, <1>8 DEF LoadLatest, At, Editable, Activity
  <2>2. /\ proc' = [proc EXCEPT ![p] = r] /\ UNCHANGED <<vault, recovery, fresh, keyring>>
        /\ r \in Activity
    BY <1>0, <1>8 DEF LoadLatest
  <2> HIDE DEF r
  <2> QED
    BY <1>0, <2>1, <2>2, Begins DEF KnowsKey, Requiring, Editing
<1>9. ASSUME NEW failed \in BOOLEAN, WriteMutation(p, failed)
      PROVE  WayInv'
  BY <1>9, WriteMutationWay, Returns DEF WriteMutation
<1> QED
  BY <1>1, <1>2, <1>3, <1>4, <1>5, <1>6, <1>7, <1>8, <1>9 DEF Mutation

(* What init, a rekey and a repair write opens by the master password. *)
LEMMA InitVaultWay ==
    ASSUME WayInv, NEW p \in Processes, NEW failed \in BOOLEAN, InitVault(p, failed)
    PROVE  Around(p) /\ (vault' # vault => Plain(vault'))
<1> USE DEF store, locks, unlocking
<1>1. proc[p].pw = Master /\ fresh \in Nat
  BY WayFacts DEF InitVault, At, KnowsKey
<1> DEFINE env == SealEnvelope(Master, {}, fresh)
<1>2. env \in Envelopes
  BY <1>1, SealEnvelopeType
<1>3. LoadsByPassword(Master, env) /\ env.key.from = Master
  BY SealEnvelopeOpens
<1>4. Writes(env, failed) /\ fresh' = fresh + 1 /\ UNCHANGED <<recovery, keyring>>
  BY <1>1 DEF InitVault
<1> HIDE DEF env
<1>5. Plain(env) /\ Around(p)
  BY <1>1, <1>2, <1>3, <1>4, SealsPlain, WriteAround
<1> QED
  BY <1>4, <1>5 DEF Writes

LEMMA WritePreservedWay ==
    ASSUME WayInv, NEW p \in Processes, NEW failed \in BOOLEAN, WritePreserved(p, failed)
    PROVE  Around(p) /\ (vault' # vault => Plain(vault'))
<1> USE DEF store, locks, unlocking
<1>1. /\ proc[p].seen = vault /\ vault # None /\ vault \in Envelopes
      /\ Recovering(proc[p].pw, vault) # {} /\ fresh \in Nat
      /\ proc[p].pw \in {Master, Wrong, NoPassword}
  BY WayFacts DEF WritePreserved, At, Sound, SeesVault, CanRecover, Repairing, Loaded, Activity
<1>2. PICK c \in Recovering(proc[p].pw, vault) :
         Preserved(proc[p].pw, vault)
             = SealWithKey(vault.key, vault.contents, vault.salt, c)
  <2>1. (CHOOSE c \in Recovering(proc[p].pw, vault) : TRUE) \in Recovering(proc[p].pw, vault)
    BY <1>1
  <2> QED
    BY <2>1 DEF Preserved
<1>3. vault.key = DeriveKeyWithParams(proc[p].pw, vault.salt, c)
  BY <1>2 DEF Recovering
<1>4. proc[p].pw = Master
  BY <1>1, RecoveringFrom, DerivedFromMaster
<1> DEFINE env == Preserved(proc[p].pw, vault)
<1>5. env \in Envelopes
  BY <1>1, PreservedType
<1>6. LoadsByPassword(Master, env) /\ env.key.from = Master
  BY <1>2, <1>3, <1>4 DEF SealWithKey, LoadsByPassword, LoadsByKey, Readable, KeyOf,
     DeriveKeyWithParams, Master, NoPassword
<1>7. Writes(env, failed) /\ fresh' = fresh /\ UNCHANGED <<recovery, keyring>>
  BY <1>1 DEF WritePreserved
<1> HIDE DEF env
<1>8. Plain(env) /\ Around(p)
  BY <1>1, <1>5, <1>6, <1>7, SealsPlain, WriteAround
<1> QED
  BY <1>7, <1>8 DEF Writes

LEMMA WriteUpgradedWay ==
    ASSUME WayInv, NEW p \in Processes, NEW failed \in BOOLEAN, WriteUpgraded(p, failed)
    PROVE  Around(p) /\ (vault' # vault => Plain(vault'))
<1> USE DEF store, locks, unlocking
<1>1. /\ proc[p].seen = vault /\ vault # None /\ vault \in Envelopes /\ fresh \in Nat
      /\ proc[p].pw \in {Master, Wrong, NoPassword}
      /\ \/ LoadsByKey(KeyOf(proc[p].pw, vault), vault)
         \/ Recovering(proc[p].pw, vault) # {}
  BY WayFacts DEF WriteUpgraded, At, Sound, SeesVault, CanRecover, KnowsKey, Repairing,
     Loaded, Activity
<1>2. vault.key.from = proc[p].pw
  <2>1. LoadsByKey(KeyOf(proc[p].pw, vault), vault) => vault.key.from = proc[p].pw
    BY DEF LoadsByKey, KeyOf, DeriveKeyWithParams
  <2> QED
    BY <1>1, <2>1, RecoveringFrom
<1>3. proc[p].pw = Master
  BY <1>1, <1>2, DerivedFromMaster
<1> DEFINE env == SealEnvelope(Master, vault.contents, fresh)
<1>4. env \in Envelopes
  BY <1>1, SealEnvelopeType DEF Envelopes
<1>5. LoadsByPassword(Master, env) /\ env.key.from = Master
  BY SealEnvelopeOpens
<1>6. Writes(env, failed) /\ fresh' = fresh + 1 /\ UNCHANGED <<recovery, keyring>>
  BY <1>1, <1>3 DEF WriteUpgraded, Upgraded
<1> HIDE DEF env
<1>7. Plain(env) /\ Around(p)
  BY <1>1, <1>4, <1>5, <1>6, SealsPlain, WriteAround
<1> QED
  BY <1>6, <1>7 DEF Writes

LEMMA WayCreation ==
    ASSUME WayInv, IInv', NEW p \in Processes, Creation(p)
    PROVE  WayInv'
<1> USE DEF store, locks, unlocking
<1>0. /\ proc \in [Processes -> Activity] /\ proc[p] \in Activity
      /\ KnowsKey(proc[p]) /\ Opens(proc[p].key, vault) /\ proc'[p] \in Activity
  BY WayFacts DEF IInv, TypeOK, Activity
<1>1. ASSUME InitBegin(p)
      PROVE  WayInv'
  <2> DEFINE r == [Idle EXCEPT !.op = "init", !.at = "lock", !.pw = Master]
  <2>1. r.op = "init" /\ r.at = "lock" /\ r.key = None /\ r.pw = Master
    BY DEF Idle
  <2>2. /\ proc' = [proc EXCEPT ![p] = r] /\ UNCHANGED <<vault, recovery, fresh, keyring>>
        /\ r \in Activity
    BY <1>0, <1>1 DEF InitBegin
  <2> HIDE DEF r
  <2> QED
    BY <2>1, <2>2, Begins DEF KnowsKey, Opens, Requiring, Editing
<1>2. ASSUME NEW failed \in BOOLEAN, InitVault(p, failed)
      PROVE  WayInv'
  <2>1. Around(p)
    BY <1>2, InitVaultWay
  <2>2. CASE failed
    BY <1>2, <2>1, <2>2, Returns DEF InitVault
  <2>3. CASE ~failed
    <3> DEFINE r == [proc[p] EXCEPT !.at = "initialized"]
    <3>1. /\ r.op = "init" /\ r.at = "initialized" /\ r.key = proc[p].key /\ r.pw = Master
      BY <1>0, <1>2 DEF InitVault, At, Activity, KnowsKey
    <3>2. proc' = [proc EXCEPT ![p] = r] /\ r \in Activity
      BY <1>0, <1>2, <2>3 DEF InitVault, Goto
    <3> HIDE DEF r
    <3>3. Opens(r.key, vault')
      BY <1>0, <2>1, <3>1 DEF Around, Replaces, Opens
    <3>4. Guarded(r, vault', recovery', fresh')
      BY <3>1, <3>3 DEF Guarded, KnowsKey, Migrating, Requiring, Editing
    <3> QED
      BY <2>1, <3>1, <3>2, <3>4, WayStep
  <2> QED
    BY <2>2, <2>3
<1>3. ASSUME AlreadyExists(p) \/ InitConfig(p)
      PROVE  WayInv'
  BY <1>3, Alone, Returns DEF AlreadyExists, InitConfig
<1> QED
  BY <1>1, <1>2, <1>3 DEF Creation

LEMMA WayMaintenance ==
    ASSUME WayInv, IInv', NEW p \in Processes, Maintenance(p)
    PROVE  WayInv'
<1> USE DEF store, locks, unlocking
<1>0. /\ TypeOK /\ proc \in [Processes -> Activity] /\ proc[p] \in Activity
      /\ KnowsKey(proc[p]) /\ Opens(proc[p].key, vault) /\ proc'[p] \in Activity
  BY WayFacts DEF IInv, TypeOK, Activity
<1>1. ASSUME BackupVault(p)
      PROVE  WayInv'
  BY <1>1 DEF BackupVault, WayInv, NoLostMigration, AlwaysReread, Distinct
<1>2. ASSUME NEW pw \in {Master, Wrong, NoPassword}, NEW mode \in Repairing \cup {"rekey"},
             (RekeyBegin(p, pw) /\ mode = "rekey") \/ RepairBegin(p, pw, mode)
      PROVE  WayInv'
  <2> DEFINE r == [Idle EXCEPT !.op = mode, !.at = "lock", !.pw = pw]
  <2>1. r.op = mode /\ r.at = "lock" /\ r.key = None
    BY DEF Idle
  <2>2. /\ proc' = [proc EXCEPT ![p] = r] /\ UNCHANGED <<vault, recovery, fresh, keyring>>
        /\ r \in Activity
    BY <1>0, <1>2 DEF RekeyBegin, RepairBegin
  <2> HIDE DEF r
  <2> QED
    BY <2>1, <2>2, Begins DEF KnowsKey, Opens, Requiring, Editing, Repairing
<1>3. ASSUME OpenForReseal(p)
      PROVE  WayInv'
  <2> DEFINE r == [proc[p] EXCEPT !.seen = vault,
                      !.at = IF proc[p].op = "rekey" THEN "write" ELSE "back up"]
  <2>1. /\ r.op = proc[p].op /\ r.key = proc[p].key /\ r.pw = proc[p].pw /\ r.seen = vault
        /\ r.op \in Repairing \cup {"rekey"} /\ r.at \in {"write", "back up"}
        /\ r.op = "rekey" => LoadsByKey(KeyOf(r.pw, vault), vault)
    BY <1>0, <1>3 DEF OpenForReseal, At, Rekeyable, Activity, Repairing
  <2>2. /\ proc' = [proc EXCEPT ![p] = r] /\ UNCHANGED <<vault, recovery, fresh, keyring>>
        /\ r \in Activity
    BY <1>0, <1>3 DEF OpenForReseal
  <2> HIDE DEF r
  <2> QED
    BY <1>0, <2>1, <2>2, Begins DEF KnowsKey, Requiring, Repairing, Editing
<1>4. ASSUME ResealRefused(p) \/ BackupFails(p)
      PROVE  WayInv'
  BY <1>4, Alone, Returns DEF ResealRefused, BackupFails
<1>5. ASSUME RepairBackup(p)
      PROVE  WayInv'
  <2> DEFINE r == [proc[p] EXCEPT !.at = "write"]
  <2>1. r.op \in Repairing /\ r.at = "write" /\ r.key = proc[p].key
    BY <1>0, <1>5 DEF RepairBackup, At, Activity
  <2>2. /\ proc' = [proc EXCEPT ![p] = r] /\ UNCHANGED <<vault, recovery, fresh, keyring>>
        /\ r \in Activity
    BY <1>0, <1>5 DEF RepairBackup, Goto
  <2> HIDE DEF r
  <2> QED
    BY <1>0, <2>1, <2>2, Begins DEF KnowsKey, Requiring, Repairing, Editing
<1>6. ASSUME NEW failed \in BOOLEAN, WritePreserved(p, failed)
      PROVE  WayInv'
  BY <1>6, WritePreservedWay, Returns DEF WritePreserved
<1>7. ASSUME NEW failed \in BOOLEAN, WriteUpgraded(p, failed)
      PROVE  WayInv'
  BY <1>7, WriteUpgradedWay, Returns DEF WriteUpgraded
<1> QED
  BY <1>1, <1>2, <1>3, <1>4, <1>5, <1>6, <1>7 DEF Maintenance

(* A migration seals under the key that is in its recovery file; when it   *)
(* is told of a failure, the vault is what it was.                         *)
LEMMA MigrateWay ==
    ASSUME WayInv, NEW p \in Processes, NEW failed \in BOOLEAN,
           MigrateToKeyringRequired(p, failed)
    PROVE  /\ Around(p) /\ (vault' # vault => Plain(vault'))
           /\ failed => vault' = vault
<1> USE DEF store, locks, unlocking
<1>1. /\ proc[p].op = "require" /\ proc[p].seen = vault /\ vault # None /\ fresh \in Nat
      /\ proc[p].key \in Keys /\ proc[p].file \in RecoveryFiles
      /\ proc[p].key.from = "random" /\ proc[p].key.n < fresh
      /\ recovery[proc[p].file] = proc[p].key /\ "require" \in Commands
  BY WayFacts DEF MigrateToKeyringRequired, At, Sound, SeesVault, Migrating, Loaded, Kept
<1>2. vault.contents \in SUBSET Records /\ proc[p].key.n \in Nat
  BY <1>1, WayFacts DEF Envelopes, Keys
<1> DEFINE env == SealKeyringEnvelope(proc[p].key, vault.contents, proc[p].key.n)
<1>3. env \in Envelopes
  BY <1>1, <1>2, SealKeyringType
<1>4. env.mode = "keyring" /\ env.key = proc[p].key /\ Readable(env)
  BY DEF SealKeyringEnvelope, SealWithKey, Readable
<1>5. Writes(env, failed) /\ fresh' = fresh /\ UNCHANGED <<recovery, keyring>>
  BY <1>1 DEF MigrateToKeyringRequired
<1> HIDE DEF env
<1>6. Plain(env) /\ WayIn(env, recovery, fresh)
  BY <1>1, <1>4 DEF Plain, WayIn, InFile
<1>7. \A q \in Processes \ {p} : proc[q].op = "require" => proc[q].key # env.key
  BY <1>1, <1>4 DEF WayInv, Distinct
<1>8. Around(p)
  BY <1>1, <1>3, <1>5, <1>6, <1>7, WriteAround
<1>9. failed => vault' = vault
  BY <1>1, <1>5 DEF Writes, WayInv, NoLostMigration
<1> QED
  BY <1>5, <1>6, <1>8, <1>9 DEF Writes

LEMMA WayKeyring ==
    ASSUME WayInv, IInv', NEW p \in Processes, KeyringStep(p)
    PROVE  WayInv'
<1> USE DEF store, locks, unlocking
<1>0. /\ TypeOK /\ fresh \in Nat /\ proc \in [Processes -> Activity] /\ proc[p] \in Activity
      /\ KnowsKey(proc[p]) /\ Migrating(proc[p], vault, recovery, fresh)
      /\ Opens(proc[p].key, vault) /\ proc'[p] \in Activity
      /\ proc[p].op = "require" => proc[p].key \in Keys
  BY WayFacts DEF IInv, TypeOK, Activity
<1>a. fresh \in Nat
  BY <1>0
<1>1. ASSUME NEW pw \in {Master, Wrong}, EnableBegin(p, pw)
      PROVE  WayInv'
  <2> DEFINE k == KeyOf(pw, vault)
             r == [Idle EXCEPT !.op = "enable", !.at = "store", !.key = k]
  <2>1. r.op = "enable" /\ r.at = "store" /\ r.key = k
    BY DEF Idle
  <2>2. /\ proc' = [proc EXCEPT ![p] = r] /\ UNCHANGED <<vault, recovery, fresh, keyring>>
        /\ r \in Activity
    BY <1>0, <1>1 DEF EnableBegin
  <2>3. Opens(k, vault)
    BY <1>1, PasswordOpens DEF EnableBegin, Opens
  <2> HIDE DEF r, k
  <2> QED
    BY <2>1, <2>2, <2>3, Begins DEF KnowsKey, Requiring, Editing
<1>2. ASSUME NEW pw \in {Master, Wrong}, NEW f \in RecoveryFiles, RequireBegin(p, pw, f)
      PROVE  WayInv'
  <2> DEFINE k == RandomVaultKey(fresh)
             r == [Idle EXCEPT !.op = "require", !.at = "store", !.pw = pw, !.key = k,
                               !.file = f]
  <2>1. /\ r.op = "require" /\ r.at = "store" /\ r.key = k /\ r.file = f
        /\ k.from = "random" /\ k.n = fresh
    BY DEF Idle, RandomVaultKey
  <2>2. /\ proc' = [proc EXCEPT ![p] = r] /\ UNCHANGED <<vault, recovery, keyring>>
        /\ fresh' = fresh + 1 /\ r \in Activity /\ "require" \in Commands
    BY <1>0, <1>2 DEF RequireBegin, Starts
  <2>3. vault # None => vault.key # k
    <3>1. CASE vault # None /\ vault.key.from = Master
      BY <2>1, <3>1 DEF Master
    <3>2. CASE vault # None /\ InFile(vault, recovery, fresh)
      <4>1. vault.key.n < fresh /\ vault.key.n \in Nat
        BY <3>2, WayFacts DEF InFile, Keys
      <4> QED
        BY <1>0, <2>1, <4>1
    <3>3. vault # None /\ vault.key.from # Master => InFile(vault, recovery, fresh)
      BY KeyFrom DEF WayInv, WayIn, OpensWithRecovery, RecoveryReadable
    <3> QED
      BY <3>1, <3>2, <3>3
  <2>4. Around(p)
    <3>1. Replaces(p) /\ Erases(p) /\ fresh' \in Nat /\ fresh <= fresh'
      BY <1>0, <2>2 DEF Replaces, Erases
    <3> QED
      BY <2>2, <3>1, WayKept DEF Around
  <2> HIDE DEF r, k
  <2>a. r.key.n < fresh' /\ vault' = vault
    BY <1>0, <2>1, <2>2
  <2>5. Migrating(r, vault', recovery', fresh')
    BY <2>a, <2>1, <2>2, <2>3 DEF Migrating, Requiring, Kept
  <2>6. KnowsKey(r) /\ Opens(r.key, vault')
    BY <2>1, <2>2, <2>3 DEF KnowsKey, Opens, Editing
  <2>7. Guarded(r, vault', recovery', fresh')
    BY <2>5, <2>6 DEF Guarded
  <2> QED
    BY <2>1, <2>2, <2>4, <2>7, WayStep
<1>3. ASSUME NEW f \in RecoveryFiles, RecoverBegin(p, f)
      PROVE  WayInv'
  <2> DEFINE r == [Idle EXCEPT !.op = "recover", !.at = "store", !.key = recovery[f]]
  <2>1. r.op = "recover" /\ r.at = "store" /\ r.key = recovery[f]
    BY DEF Idle
  <2>2. /\ proc' = [proc EXCEPT ![p] = r] /\ UNCHANGED <<vault, recovery, fresh, keyring>>
        /\ r \in Activity /\ vault.mode = "keyring"
    BY <1>0, <1>3 DEF RecoverBegin
  <2> HIDE DEF r
  <2> QED
    BY <2>1, <2>2, Begins DEF KnowsKey, Opens, Plain, Requiring, Editing
<1>4. ASSUME StoreKey(p) \/ (EnableConfig(p) /\ proc[p].op = "require") \/ MigrateRefused(p)
             \/ UndoKeyring(p)
      PROVE  WayInv'
  <2> DEFINE r == [proc[p] EXCEPT !.at = proc'[p].at]
  <2>1. /\ r.op = proc[p].op /\ r.key = proc[p].key /\ r.file = proc[p].file
        /\ r.pw = proc[p].pw /\ r.at = proc'[p].at
    BY <1>0 DEF Activity
  <2>2. /\ proc' = [proc EXCEPT ![p] = r] /\ r \in Activity
        /\ UNCHANGED <<vault, recovery, fresh>> /\ keyring' \in {keyring, None, proc[p].key}
    BY <1>0, <1>4 DEF StoreKey, EnableConfig, MigrateRefused, UndoKeyring, Goto, StoresKey,
       DeletesKey, Activity
  <2>3. /\ r.at \in {"config", "lock", "recovery file", "undo keyring", "undo recovery"}
        /\ r.at \in Requiring => proc[p].op = "require"
        /\ proc[p].op = "require" /\ r.at \in Kept => proc[p].at \in Kept
    <3>1. CASE StoreKey(p)
      <4>1. proc'[p].at = IF proc[p].op = "require" THEN "recovery file" ELSE "config"
        BY <1>0, <3>1 DEF StoreKey, Goto, Activity
      <4> QED
        BY <2>1, <4>1 DEF Requiring, Kept
    <3>2. CASE EnableConfig(p) /\ proc[p].op = "require"
      <4>1. proc'[p].at = "lock" /\ proc[p].at = "config"
        BY <1>0, <3>2 DEF EnableConfig, Goto, Activity
      <4> QED
        BY <2>1, <4>1 DEF Requiring, Kept
    <3>3. CASE MigrateRefused(p)
      <4>1. proc'[p].at = "undo keyring" /\ proc[p].at = "locked" /\ proc[p].op = "require"
        BY <1>0, <3>3 DEF MigrateRefused, At, Goto, Activity
      <4> QED
        BY <2>1, <4>1 DEF Requiring, Kept
    <3>4. CASE UndoKeyring(p)
      <4>1. proc'[p].at = "undo recovery" /\ proc[p].at = "undo keyring"
        BY <1>0, <3>4 DEF UndoKeyring, Goto, Activity
      <4> QED
        BY <1>0, <2>1, <4>1 DEF Migrating, Requiring, Kept
    <3> QED
      BY <1>4, <3>1, <3>2, <3>3, <3>4
  <2>4. Around(p)
    BY <2>2, Alone
  <2> HIDE DEF r
  <2>5. KnowsKey(r)
    BY <1>0, <2>1, <2>3 DEF KnowsKey
  <2> QED
    BY <2>1, <2>2, <2>3, <2>4, <2>5, GoesOn
<1>5. ASSUME StoreFails(p) \/ (EnableConfig(p) /\ proc[p].op # "require") \/ UndoConfig(p)
      PROVE  WayInv'
  BY <1>5, Alone, Returns DEF StoreFails, EnableConfig, UndoConfig
<1>6. ASSUME WriteRecoveryKey(p)
      PROVE  WayInv'
  <2> DEFINE r == [proc[p] EXCEPT !.at = "config"]
  <2>1. /\ proc[p].op = "require" /\ proc[p].file \in RecoveryFiles
        /\ recovery[proc[p].file] = None
    BY <1>0, <1>6 DEF WriteRecoveryKey, Migrating, Requiring, MayCreate
  <2>2. /\ r.op = "require" /\ r.key = proc[p].key /\ r.file = proc[p].file
        /\ r.pw = proc[p].pw /\ r.at = "config"
    BY <1>0, <2>1 DEF Activity
  <2>3. /\ proc' = [proc EXCEPT ![p] = r] /\ r \in Activity
        /\ UNCHANGED <<vault, fresh, keyring>>
        /\ recovery' = [recovery EXCEPT ![proc[p].file] = proc[p].key]
    BY <1>0, <1>6 DEF WriteRecoveryKey, Goto
  <2>4. Around(p)
    <3>1. Replaces(p) /\ Erases(p)
      BY <1>0, <2>1, <2>3 DEF Replaces, Erases, TypeOK
    <3>2. vault' = vault /\ fresh' = fresh /\ keyring' = keyring /\ fresh <= fresh
      BY <1>a, <2>3
    <3> QED
      BY <1>a, <3>1, <3>2, WayKept DEF Around
  <2>5. recovery'[r.file] = r.key
    BY <1>0, <2>1, <2>2, <2>3 DEF TypeOK
  <2> HIDE DEF r
  <2>6. Guarded(r, vault', recovery', fresh')
    <3>1. Migrating(r, vault', recovery', fresh')
      <4>1. vault' = vault /\ fresh' = fresh
        BY <2>3
      <4>2. /\ proc[p].file \in RecoveryFiles /\ "require" \in Commands
            /\ proc[p].key.from = "random" /\ proc[p].key.n < fresh
            /\ vault # None => vault.key # proc[p].key
        BY <1>0, <2>1 DEF Migrating
      <4> QED
        BY <2>2, <2>5, <4>1, <4>2 DEF Migrating
    <3>2. KnowsKey(r) /\ Opens(r.key, vault')
      BY <1>0, <2>2, <2>3 DEF KnowsKey, Opens, Editing
    <3> QED
      BY <3>1, <3>2 DEF Guarded
  <2> QED
    BY <2>1, <2>2, <2>3, <2>4, <2>6, WayStep
<1>7. ASSUME GiveUp(p)
      PROVE  WayInv'
  <2>1. Erases(p)
    <3>1. CASE recovery' = recovery
      BY <3>1 DEF Erases
    <3>2. CASE recovery' # recovery
      <4>1. /\ recovery[proc[p].file] = None
            /\ recovery' = [recovery EXCEPT ![proc[p].file] = proc[p].key]
        BY <1>7, <3>2 DEF GiveUp, MayCreate
      <4> QED
        BY <1>0, <4>1 DEF Erases, TypeOK
    <3> QED
      BY <3>1, <3>2
  <2>2. UNCHANGED <<vault, fresh>> /\ keyring' \in {keyring, None}
    BY <1>7 DEF GiveUp, DeletesKey
  <2>3. Around(p)
    BY <1>0, <2>1, <2>2, WayKept DEF Around, Replaces
  <2> QED
    BY <1>7, <2>3, Returns DEF GiveUp
<1>8. ASSUME MigrateLoad(p)
      PROVE  WayInv'
  <2> DEFINE r == [proc[p] EXCEPT !.at = "write", !.seen = vault]
  <2>1. /\ r.op = "require" /\ r.key = proc[p].key /\ r.file = proc[p].file
        /\ proc[p].op = "require" /\ proc[p].at \in Kept /\ r.at = "write"
    BY <1>0, <1>8 DEF MigrateLoad, At, Activity, Kept
  <2>2. /\ proc' = [proc EXCEPT ![p] = r] /\ r \in Activity
        /\ UNCHANGED <<vault, recovery, fresh, keyring>>
    BY <1>0, <1>8 DEF MigrateLoad
  <2>3. Around(p)
    BY <2>2, Alone
  <2> HIDE DEF r
  <2>4. KnowsKey(r)
    BY <2>1 DEF KnowsKey, Editing
  <2> QED
    BY <2>1, <2>2, <2>3, <2>4, GoesOn
<1>9. ASSUME NEW failed \in BOOLEAN, MigrateToKeyringRequired(p, failed)
      PROVE  WayInv'
  <2>1. Around(p) /\ (failed => vault' = vault)
    BY <1>9, MigrateWay
  <2>2. CASE ~failed
    BY <1>9, <2>1, <2>2, Returns DEF MigrateToKeyringRequired
  <2>3. CASE failed
    <3> DEFINE r == [proc[p] EXCEPT !.at = "undo keyring"]
    <3>1. /\ r.op = "require" /\ r.key = proc[p].key /\ r.file = proc[p].file
          /\ proc[p].op = "require" /\ proc[p].at \in Kept /\ r.at = "undo keyring"
      BY <1>0, <1>9 DEF MigrateToKeyringRequired, At, Activity, Kept
    <3>2. /\ proc' = [proc EXCEPT ![p] = r] /\ r \in Activity
          /\ vault' = vault /\ recovery' = recovery
      BY <1>0, <1>9, <2>1, <2>3 DEF MigrateToKeyringRequired, Goto
    <3> HIDE DEF r
    <3>3. KnowsKey(r)
      BY <3>1 DEF KnowsKey, Editing
    <3> QED
      BY <2>1, <3>1, <3>2, <3>3, GoesOn
  <2> QED
    BY <2>2, <2>3
<1>10. ASSUME UndoRecovery(p)
       PROVE  WayInv'
  <2> DEFINE r == [proc[p] EXCEPT !.at = "undo config"]
  <2>1. /\ proc[p].op = "require" /\ proc[p].file \in RecoveryFiles
        /\ proc[p].at \in Kept
    BY <1>0, <1>10 DEF UndoRecovery, Migrating, Requiring, Kept
  <2>2. /\ r.op = "require" /\ r.key = proc[p].key /\ r.file = proc[p].file
        /\ r.pw = proc[p].pw /\ r.at = "undo config"
    BY <1>0, <2>1 DEF Activity
  <2>3. /\ proc' = [proc EXCEPT ![p] = r] /\ r \in Activity
        /\ UNCHANGED <<vault, fresh, keyring>>
        /\ recovery' = [recovery EXCEPT ![proc[p].file] = None]
    BY <1>0, <1>10 DEF UndoRecovery, Goto
  <2>4. Around(p)
    <3>1. Replaces(p) /\ Erases(p)
      BY <1>0, <2>1, <2>3 DEF Replaces, Erases, TypeOK
    <3>2. vault' = vault /\ fresh' = fresh /\ keyring' = keyring
      BY <2>3
    <3>3. fresh <= fresh
      BY <1>a
    <3> QED
      BY <1>a, <3>1, <3>2, <3>3, WayKept DEF Around
  <2> HIDE DEF r
  <2>5. Guarded(r, vault', recovery', fresh')
    BY <1>0, <2>1, <2>2, <2>3 DEF Guarded, KnowsKey, Migrating, Opens, Requiring, Kept, Editing
  <2> QED
    BY <2>1, <2>2, <2>3, <2>4, <2>5, WayStep
<1>11. EnableConfig(p) => WayInv'
  BY <1>4, <1>5
<1>12. /\ StoreKey(p) => WayInv'
       /\ MigrateRefused(p) => WayInv'
       /\ UndoKeyring(p) => WayInv'
  BY <1>4
<1>16. /\ StoreFails(p) => WayInv'
       /\ UndoConfig(p) => WayInv'
  BY <1>5
<1>13. (\E failed \in BOOLEAN : MigrateToKeyringRequired(p, failed)) => WayInv'
  BY <1>9
<1>14. (\E pw \in {Master, Wrong} :
           EnableBegin(p, pw) \/ \E f \in RecoveryFiles : RequireBegin(p, pw, f)) => WayInv'
  BY <1>1, <1>2
<1>15. (\E f \in RecoveryFiles : RecoverBegin(p, f)) => WayInv'
  BY <1>3
<1> QED
  BY <1>6, <1>7, <1>8, <1>10, <1>11, <1>12, <1>13, <1>14, <1>15, <1>16 DEF KeyringStep

LEMMA OldVaultOpens ==
    ASSUME NEW env \in OldVaults
    PROVE  OpensWithRecovery(Master, env)
<1>1. PICK made \in Shapes, says \in Shapes, d \in {NoDigest} \cup Shapes :
         env = OldVault(made, says, d) /\ d \in {NoDigest, made}
  BY DEF OldVaults, Shapes, NoParams
<1>2. /\ env.mode = "password" /\ env.digest = d /\ env.params = says /\ env.salt = 0
      /\ env.key = DeriveKeyWithParams(Master, 0, made)
  BY <1>1 DEF OldVault, SealWithKey
<1>3. made \in RecoveryCandidates(env)
  BY DEF RecoveryCandidates, Shapes, NoParams
<1>4. RecoveryReadable(env)
  BY <1>1, <1>2, <1>3 DEF RecoveryReadable
<1>5. made \in Recovering(Master, env)
  BY <1>2, <1>3 DEF Recovering
<1> QED
  BY <1>4, <1>5 DEF OpensWithRecovery

LEMMA InitWay == Init /\ NoLostMigration /\ AlwaysReread => WayInv
<1> SUFFICES ASSUME Init, NoLostMigration, AlwaysReread
             PROVE  WayInv
  OBVIOUS
<1>1. WayIn(vault, recovery, fresh)
  BY OldVaultOpens, InstalledAssumption DEF Init, WayIn
<1>2. ASSUME NEW p \in Processes
      PROVE  Guarded(proc[p], vault, recovery, fresh)
  <2>1. proc[p] = Idle
    BY DEF Init
  <2>2. Guarded(Idle, vault, recovery, fresh)
    BY NoneAssumption DEF Guarded, KnowsKey, Migrating, Opens, Idle, Requiring, Editing,
       AllCommands
  <2> QED
    BY <2>1, <2>2
<1>3. Opens(keyring, vault)
  BY DEF Init, Opens
<1>4. Distinct
  BY NoneAssumption DEF Init, Distinct, Idle, AllCommands
<1> QED
  BY <1>1, <1>2, <1>3, <1>4, InitIInv DEF WayInv

LEMMA NextWay == WayInv /\ [Next]_vars => WayInv'
<1> SUFFICES ASSUME WayInv, [Next]_vars
             PROVE  WayInv'
  OBVIOUS
<1> USE DEF store, locks, unlocking
<1>1. IInv'
  BY NextIInv DEF WayInv
<1>2. ASSUME NEW p \in Processes, StoreStep(p)
      PROVE  WayInv'
  <2>0. proc \in [Processes -> Activity] /\ proc[p] \in Activity /\ proc'[p] \in Activity
    BY <1>1, WayFacts DEF IInv, TypeOK, Activity
  <2>1. CASE Mutation(p) \/ Creation(p) \/ Maintenance(p)
    BY <1>1, <2>1, WayMutation, WayCreation, WayMaintenance
  <2>2. CASE TakeVaultLock(p)
    <3> DEFINE r == [proc[p] EXCEPT !.at = "locked"]
    <3>1. /\ r.op = proc[p].op /\ r.key = proc[p].key /\ r.file = proc[p].file
          /\ r.pw = proc[p].pw /\ r.at = "locked" /\ proc[p].at \in Kept
      BY <2>0, <2>2 DEF TakeVaultLock, Activity, Kept
    <3>2. /\ proc' = [proc EXCEPT ![p] = r] /\ r \in Activity
          /\ UNCHANGED <<vault, recovery, fresh, keyring>>
      BY <2>0, <2>2 DEF TakeVaultLock, Goto
    <3>3. Around(p)
      BY <3>2, Alone
    <3> HIDE DEF r
    <3>4. KnowsKey(r) /\ r.at \notin Requiring
      BY <3>1, WayFacts DEF KnowsKey, Requiring
    <3> QED
      BY <1>1, <3>1, <3>2, <3>3, <3>4, GoesOn
  <2>3. CASE Killed(p)
    <3>1. KnowsKey(Idle) /\ Opens(Idle.key, vault) /\ Idle.op # "require" /\ Idle.at \notin Requiring
      BY NoneAssumption DEF Idle, KnowsKey, Opens, Editing, Requiring, AllCommands
    <3>2. /\ proc' = [proc EXCEPT ![p] = Idle] /\ UNCHANGED <<vault, recovery, fresh, keyring>>
      BY <2>3 DEF Killed
    <3> QED
      BY <1>1, <3>1, <3>2, IdleSound, Begins
  <2> QED
    BY <1>2, <2>1, <2>2, <2>3 DEF StoreStep
<1>3. ASSUME NEW p \in Processes, KeyringStep(p)
      PROVE  WayInv'
  BY <1>1, <1>3, WayKeyring
<1>4. ASSUME KeyringToggles \/ KeyringLost \/ UNCHANGED vars
      PROVE  WayInv'
  <2>1. UNCHANGED <<vault, recovery, fresh, proc>> /\ keyring' \in {keyring, None}
    BY <1>4 DEF KeyringToggles, KeyringLost, vars
  <2>2. Opens(keyring', vault')
    BY <2>1 DEF WayInv, Opens
  <2> QED
    BY <1>1, <2>1, <2>2 DEF WayInv, NoLostMigration, AlwaysReread, Distinct
<1> QED
  BY <1>2, <1>3, <1>4 DEF Next

(* Whatever commands and sessions interleave, fail and die: the master     *)
(* password or a recovery file opens the vault, unless a migration can be  *)
(* told of a failure after its write (cmd/keyring.go) or a mutation fails  *)
(* to read the metadata again that it keeps (vault.go).                    *)
THEOREM AlwaysRecoverable == NoLostMigration /\ AlwaysReread /\ Spec => []Recoverable
<1>1. WayInv => Recoverable
  <2> SUFFICES ASSUME WayInv, vault # None, InFile(vault, recovery, fresh)
               PROVE  OpensAgain(vault)
    BY DEF WayInv, WayIn, Recoverable
  <2>1. vault.key # None
    BY NoneAssumption DEF WayInv, IInv, TypeOK, Envelopes
  <2> QED
    BY <2>1 DEF InFile, OpensAgain, LoadsByKey
<1> QED
  BY <1>1, InitWay, NextWay, PTL DEF Spec

(* What a command or a session writes opens again the ordinary way, by the *)
(* password and the metadata beside it or by the key in a recovery file    *)
(* (writeVaultWithKeyLocked, repairVaultLocked), under the same two        *)
(* conditions.                                                             *)
THEOREM WritesAlwaysReopen == NoLostMigration /\ AlwaysReread /\ Spec => WritesReopen
<1> DEFINE Reopens == vault' # vault => OpensAgain(vault')
<1>1. WayInv /\ WayInv' /\ [Next]_vars => Reopens
  <2> SUFFICES ASSUME WayInv, WayInv', [Next]_vars, vault' # vault
               PROVE  OpensAgain(vault')
    OBVIOUS
  <2>1. PICK p \in Processes, failed \in BOOLEAN :
              \/ WriteMutation(p, failed)
              \/ InitVault(p, failed)
              \/ WritePreserved(p, failed)
              \/ WriteUpgraded(p, failed)
              \/ MigrateToKeyringRequired(p, failed)
    BY OnlyWritersWrite
  <2>2. Around(p) /\ Plain(vault')
    BY <2>1, WriteMutationWay, InitVaultWay, WritePreservedWay, WriteUpgradedWay, MigrateWay
  <2>3. vault' # None /\ WayIn(vault', recovery', fresh')
    BY <2>2 DEF Around, Replaces
  <2>4. recovery' = recovery
    BY <2>1 DEF WriteMutation, InitVault, WritePreserved, WriteUpgraded,
       MigrateToKeyringRequired, unlocking
  <2>5. CASE LoadsByPassword(Master, vault')
    BY <2>5 DEF OpensAgain
  <2>6. CASE vault'.mode = "keyring"
    <3>1. InFile(vault', recovery, fresh')
      BY <2>3, <2>4, <2>6 DEF WayIn, OpensWithRecovery, RecoveryReadable
    <3>2. vault'.key # None
      BY <2>3, NoneAssumption DEF WayInv, IInv, TypeOK, Envelopes
    <3> QED
      BY <2>6, <3>1, <3>2 DEF InFile, OpensAgain, LoadsByKey
  <2> QED
    BY <2>2, <2>5, <2>6 DEF Plain
<1> QED
  BY <1>1, InitWay, NextWay, PTL DEF Spec, WritesReopen
=============================================================================
