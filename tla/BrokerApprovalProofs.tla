------------------------ MODULE BrokerApprovalProofs ------------------------
(***************************************************************************)
(* Theorems about BrokerApproval, for every number of processes, records,  *)
(* capabilities, bindings and grants.                                      *)
(***************************************************************************)
EXTENDS BrokerApprovalHistory, TLAPS

(* What the functions that rewrite a record's broker policy preserve. *)
(* Every rewriting function returns a policy.  None of them invents a      *)
(* capability or a provenance outside those the code knows.                *)
LEMMA NormalizeClosed ==
    ASSUME NEW p \in Policies
    PROVE  NormalizeBrokerPolicyProvenance(p) \in Policies
BY DEF NormalizeBrokerPolicyProvenance, Policies, Sources

LEMMA ApplyClosed ==
    ASSUME NEW p \in Policies, NEW caps \in SUBSET Caps
    PROVE  ApplyGrantPolicy(p, caps) \in Policies
BY DEF ApplyGrantPolicy, WithGrant, Policies, Sources

LEMMA MarkClosed ==
    ASSUME NEW p \in Policies, NEW caps \in SUBSET Caps
    PROVE  MarkBrokerAdministrative(p, caps) \in Policies
BY DEF MarkBrokerAdministrative, Policies, Sources

LEMMA RebuiltClosed ==
    ASSUME NEW p \in Policies, NEW kept \in SUBSET Caps,
           NEW need \in SUBSET Caps, NEW admin \in SUBSET Caps
    PROVE  Rebuilt(p, kept, need, admin) \in Policies
BY DEF Rebuilt, Policies, Sources

LEMMA AdminPartType ==
    ASSUME NEW p \in Policies
    PROVE  AdminSourced(p) \in SUBSET Caps /\ p.admin \in SUBSET Caps
BY DEF AdminSourced, Policies

LEMMA ReconcileClosed ==
    ASSUME NEW p \in Policies, NEW base, base.allow \in SUBSET Caps,
           NEW need \in SUBSET Caps
    PROVE  ReconcilePolicyForSecret(p, base, need) \in Policies
<1> DEFINE prior == IF p.revision # base.revision THEN p.admin ELSE base.allow
<1>1. prior \cup AdminSourced(p) \in SUBSET Caps
  BY AdminPartType
<1> QED BY <1>1, AdminPartType, RebuiltClosed DEF ReconcilePolicyForSecret

LEMMA CurrentClosed ==
    ASSUME NEW p \in Policies, NEW need \in SUBSET Caps
    PROVE  ReconcileCurrentPolicy(p, need) \in Policies
<1>1. p.admin \cup AdminSourced(p) \in SUBSET Caps
  BY AdminPartType
<1> QED BY <1>1, RebuiltClosed DEF ReconcileCurrentPolicy

(* Administrative policy survives: the explicit flags and the capabilities *)
(* held by administrative decision.                                        *)
Survives(old, new) ==
    /\ old.admin \subseteq new.admin
    /\ AdminSourced(old) \subseteq AdminSourced(new)

LEMMA NormalizeSurvives ==
    ASSUME NEW p \in Policies
    PROVE  Survives(p, NormalizeBrokerPolicyProvenance(p))
BY DEF Survives, AdminSourced, NormalizeBrokerPolicyProvenance, Policies

LEMMA ApplySurvives ==
    ASSUME NEW p \in Policies, NEW caps \in SUBSET Caps
    PROVE  Survives(p, ApplyGrantPolicy(p, caps))
BY DEF Survives, AdminSourced, ApplyGrantPolicy, WithGrant, Policies

LEMMA RebuiltKeeps ==
    ASSUME NEW p \in Policies, NEW kept \in SUBSET Caps, NEW need, NEW admin
    PROVE  /\ Rebuilt(p, kept, need, admin).admin = admin
           /\ kept \subseteq AdminSourced(Rebuilt(p, kept, need, admin))
BY DEF AdminSourced, Rebuilt

LEMMA ReconcileSurvives ==
    ASSUME NEW p \in Policies, NEW base, base.allow \in SUBSET Caps,
           NEW need \in SUBSET Caps
    PROVE  Survives(p, ReconcilePolicyForSecret(p, base, need))
<1> DEFINE prior == IF p.revision # base.revision THEN p.admin ELSE base.allow
<1>1. prior \cup AdminSourced(p) \in SUBSET Caps
  BY AdminPartType
<1> QED BY <1>1, RebuiltKeeps DEF ReconcilePolicyForSecret, Survives

LEMMA CurrentSurvives ==
    ASSUME NEW p \in Policies, NEW need \in SUBSET Caps
    PROVE  Survives(p, ReconcileCurrentPolicy(p, need))
<1>1. p.admin \cup AdminSourced(p) \in SUBSET Caps
  BY AdminPartType
<1> QED BY <1>1, RebuiltKeeps DEF ReconcileCurrentPolicy, Survives

LEMMA SurvivesTransitive ==
    ASSUME NEW p, NEW q, NEW r, Survives(p, q), Survives(q, r)
    PROVE  Survives(p, r)
BY DEF Survives

(* Writing a record that was written before changes nothing: the form      *)
(* every vault write leaves is a fixed point.                              *)
THEOREM NormalizationIsIdempotent ==
    ASSUME NEW p \in Policies
    PROVE  LET n == NormalizeBrokerPolicyProvenance(p)
           IN  NormalizeBrokerPolicyProvenance(n) = n
BY DEF NormalizeBrokerPolicyProvenance, Policies, Sources

(* Both reconciliations leave the record open to every capability that     *)
(* grants need, and normalisation closes nothing.                          *)
LEMMA NeededIsAllowed ==
    ASSUME NEW p, NEW caps
    PROVE  /\ \A base : caps \subseteq ReconcilePolicyForSecret(p, base, caps).allow
           /\ caps \subseteq ReconcileCurrentPolicy(p, caps).allow
           /\ p.allow \subseteq ApplyGrantPolicy(p, caps).allow
BY DEF ReconcilePolicyForSecret, ReconcileCurrentPolicy, Rebuilt,
       ApplyGrantPolicy, WithGrant

LEMMA NormalizationClosesNothing ==
    ASSUME NEW p
    PROVE  p.allow \subseteq NormalizeBrokerPolicyProvenance(p).allow
BY DEF NormalizeBrokerPolicyProvenance
-----------------------------------------------------------------------------
(* The functions on broker.json return a broker.json. *)
LEMMA FilesClosed ==
    ASSUME NEW f \in File, NEW G
    PROVE  /\ RemoveGrants(f, G) \in File
           /\ RemoveIntents(f, G) \in File
           /\ WithoutApprovals(f, G) \in File
           /\ Suspend(f, G) \in File
<1>1. RemoveGrants(f, G) \in File
  <2>1. [g \in GrantIds |-> IF g \in G THEN None ELSE f.grants[g]]
           \in [GrantIds -> Grant \cup {None}]
    BY DEF File
  <2> QED BY <2>1 DEF RemoveGrants, File
<1>2. ASSUME NEW h \in File PROVE RemoveIntents(h, G) \in File
  <2>1. [g \in GrantIds |-> IF g \in G THEN None ELSE h.intents[g]]
           \in [GrantIds -> Intent \cup {None}]
    BY DEF File
  <2> QED BY <2>1 DEF RemoveIntents, File
<1>3. Suspend(f, G) \in File
  <2> DEFINE on == [g \in GrantIds |-> IF g \in G /\ g \in Grants(f)
                       THEN [f.grants[g] EXCEPT !.enabled = FALSE] ELSE f.grants[g]]
  <2>1. on \in [GrantIds -> Grant \cup {None}]
    BY DEF File, Grants, Grant
  <2> QED BY <2>1 DEF Suspend, File
<1> QED BY <1>1, <1>2, <1>3 DEF WithoutApprovals

LEMMA BindingsClosed ==
    ASSUME NEW f \in File, NEW b \in BindingIds
    PROVE  /\ \A s \in Secrets \cup {None} : [f EXCEPT !.bindings[b] = s] \in File
           /\ WithoutBinding(f, b) \in File
<1>1. ASSUME NEW h \in File, NEW s \in Secrets \cup {None}
      PROVE  [h EXCEPT !.bindings[b] = s] \in File
  BY <1>1 DEF File
<1> DEFINE h == RemoveIntents(RemoveGrants(f, GrantsOf(f, b)), IntentsOf(f, b))
<1>2. h \in File
  BY FilesClosed
<1>3. WithoutBinding(f, b) \in File
  BY <1>1, <1>2 DEF WithoutBinding
<1> QED BY <1>1, <1>3

(* What a vault write does to a record. *)
LEMMA VaultWrite ==
    ASSUME vault \in [Secrets -> Record \cup {None}],
           NEW P, \A s \in (DOMAIN P) \cap Present : P[s] \in Policies,
           MutateVault(P)
    PROVE  /\ vault' \in [Secrets -> Record \cup {None}]
           /\ \A s \in Secrets : (vault'[s] = None) <=> (vault[s] = None)
           /\ \A s \in Present :
                 vault'[s].policy = NormalizeBrokerPolicyProvenance(
                     IF s \in DOMAIN P THEN P[s] ELSE vault[s].policy)
<1>1. \A s \in Present : vault[s] \in Record
  BY DEF Present
<1>2. ASSUME NEW s \in Present
      PROVE  /\ vault'[s] \in Record
             /\ vault'[s].policy = NormalizeBrokerPolicyProvenance(
                     IF s \in DOMAIN P THEN P[s] ELSE vault[s].policy)
  <2> DEFINE q == IF s \in DOMAIN P THEN P[s] ELSE vault[s].policy
  <2>1. q \in Policies
    BY <1>1, <1>2 DEF Record
  <2>2. NormalizeBrokerPolicyProvenance(q) \in Policies
    BY <2>1, NormalizeClosed
  <2>3. vault'[s] = [vault[s] EXCEPT !.policy = NormalizeBrokerPolicyProvenance(q)]
    BY <1>2 DEF MutateVault, Present
  <2> QED BY <1>1, <2>2, <2>3 DEF Record
<1>3. \A s \in Secrets \ Present : vault'[s] = None
  BY DEF MutateVault, Present
<1> QED BY <1>2, <1>3, NoneAssumption DEF MutateVault, Present
-----------------------------------------------------------------------------
(* Type correctness.  Which of the fields that different operations share  *)
(* is in use depends on where a process stands, and only the holder of the *)
(* lock has metadata to save.                                              *)
ControlOK ==
    \A p \in Procs :
        /\ pc[p] = "prepared" => req[p] \in Request
        /\ pc[p] = "adding" => req[p] \in Secrets
        /\ pc[p] \in {"staged", "activating", "undoing"} => own[p] \in GrantIds
        /\ pc[p] \in {"activating", "saving"} => lock = p

TypeInv == TypeOK /\ ControlOK

LEMMA RecordType ==
    ASSUME TypeOK, NEW s \in Present
    PROVE  /\ s \in Secrets
           /\ vault[s] \in Record
           /\ vault[s].policy \in Policies
BY DEF TypeOK, Present, Record

LEMMA EmptyFileType == EmptyFile \in File
BY DEF EmptyFile, File

LEMMA BaselineType ==
    ASSUME NEW f \in File, NEW s
    PROVE  ApprovalBaseline(f, s).allow \in SUBSET Caps
<1>1. \A g \in IntentsFor(f, s) : f.intents[g] \in Intent
  BY DEF IntentsFor, Pending, File
<1>2. \A g \in IntentsFor(f, s) : f.intents[g].base.allow \in SUBSET Caps
  BY <1>1 DEF Intent, Baselines
<1> QED BY <1>2 DEF ApprovalBaseline

LEMMA InitTypeInv == Init => TypeInv
<1> SUFFICES ASSUME Init PROVE TypeInv
  OBVIOUS
<1>1. vault \in [Secrets -> Record \cup {None}]
  <2>1. ASSUME NEW caps \in SUBSET Caps PROVE Unlabelled(caps) \in Policies
    BY <2>1 DEF Unlabelled, DenyAll, Policies, Sources
  <2> QED BY <2>1 DEF Init, Record
<1>2. TypeOK
  BY <1>1, EmptyFileType, BoundsAssumption DEF Init, TypeOK, States
<1>3. ControlOK
  BY DEF Init, ControlOK
<1> QED BY <1>2, <1>3 DEF TypeInv

(* The two helpers with which an operation takes the lock and writes the   *)
(* vault, and with which it lets go.                                       *)
LEMMA HoldTypeInv ==
    ASSUME TypeInv, NEW p \in Procs, NEW f \in File, NEW state \in {"activating", "saving"},
           lock = None \/ lock = p,
           vault' \in [Secrets -> Record \cup {None}],
           HoldWith(p, f, state), own' \in [Procs -> GrantIds \cup {None}],
           state = "activating" => own'[p] \in GrantIds,
           \A q \in Procs \ {p} : own'[q] = own[q],
           UNCHANGED <<meta, expired, req, nextBinding, nextGrant>>
    PROVE  TypeInv'
<1>1. TypeOK'
  BY DEF TypeInv, TypeOK, HoldWith, States
<1>2. ASSUME NEW q \in Procs PROVE pc[q] \in {"activating", "saving"} => q = p
  BY <1>2, NoneAssumption DEF TypeInv, ControlOK
<1>3. ControlOK'
  BY <1>2 DEF TypeInv, TypeOK, ControlOK, HoldWith
<1> QED BY <1>1, <1>3 DEF TypeInv

LEMMA ApproveTypeInv ==
    ASSUME TypeInv, NEW p \in Procs, Approve(p)
    PROVE  TypeInv'
<1> USE DEF TypeInv
<1>1. ASSUME NEW b \in BindingIds \cup {None}, NEW s \in Secrets,
             NEW caps \in SUBSET Caps, PrepareApproval(p, b, s, caps)
      PROVE  TypeInv'
  <2> DEFINE base == [allow    |-> vault[s].policy.allow
                                      \cup AdminSourced(vault[s].policy),
                      revision |-> vault[s].policy.revision]
             r == [binding |-> b, secret |-> s, caps |-> caps, base |-> base]
  <2>1. base \in Baselines
    BY <1>1, RecordType, AdminPartType DEF PrepareApproval, Policies, Baselines
  <2>2. r \in Request
    BY <2>1 DEF Request
  <2>3. req' = [req EXCEPT ![p] = r] /\ pc' = [pc EXCEPT ![p] = "prepared"]
    BY <1>1 DEF PrepareApproval
  <2>4. UNCHANGED <<meta, vault, expired, lock, work, own, nextBinding, nextGrant>>
    BY <1>1 DEF PrepareApproval
  <2>5. TypeOK'
    BY <2>2, <2>3, <2>4 DEF TypeOK, States
  <2>6. ControlOK'
    BY <2>2, <2>3, <2>4 DEF TypeOK, ControlOK
  <2> QED BY <2>5, <2>6
<1>2. CASE StageApproval(p)
  <2> DEFINE r == req[p]
             b == IF r.binding = None THEN nextBinding ELSE r.binding
  <2>1. r \in Request
    BY <1>2 DEF StageApproval, ControlOK
  <2>2. b \in BindingIds /\ nextBinding' \in 1..MaxBindings + 1
    BY <1>2, <2>1, BoundsAssumption
    DEF StageApproval, Request, TypeOK, BindingIds
  <2>3. StagedIntent(r, b) \in Intent
    BY <2>1, <2>2 DEF StagedIntent, Request, Intent
  <2>4. [binding |-> b, caps |-> r.caps, enabled |-> FALSE] \in Grant
    BY <2>1, <2>2 DEF Grant, Request
  <2>5. meta' \in File
    BY <1>2, <2>1, <2>2, <2>3, <2>4 DEF StageApproval, TypeOK, File, Request
  <2>6. nextGrant \in GrantIds /\ nextGrant' \in 1..MaxGrants + 1
    BY <1>2, BoundsAssumption DEF StageApproval, GrantIds
  <2>7. TypeOK'
    BY <1>2, <2>2, <2>5, <2>6 DEF StageApproval, TypeOK, States
  <2>8. ControlOK'
    BY <1>2, <2>6 DEF StageApproval, TypeOK, ControlOK
  <2> QED BY <2>7, <2>8
<1>3. CASE CancelStagedApproval(p)
  <2>1. meta' \in File
    BY <1>3, FilesClosed DEF CancelStagedApproval, TypeOK, WithoutApprovals,
       RemoveGrants, RemoveIntents, File
  <2> QED BY <1>3, <2>1 DEF CancelStagedApproval, TypeOK, ControlOK, States
<1>4. CASE CommitApproval(p)
  <2> DEFINE g == own[p]
             s == meta.intents[g].secret
             P == [t \in {s} |-> ApplyGrantPolicy(vault[t].policy, meta.grants[g].caps)]
             f == [RemoveIntents(meta, {g}) EXCEPT !.grants[g].enabled = TRUE]
  <2>1. g \in GrantIds /\ meta.grants[g] \in Grant
    BY <1>4 DEF CommitApproval, ControlOK, Grants, TypeOK, File
  <2>2. s \in Present /\ MutateVault(P) /\ HoldWith(p, f, "activating")
    BY <1>4 DEF CommitApproval
  <2>3. P[s] \in Policies
    BY <2>1, <2>2, RecordType, ApplyClosed DEF Grant
  <2>4. vault' \in [Secrets -> Record \cup {None}]
    BY <2>2, <2>3, VaultWrite DEF TypeOK
  <2>5. f \in File
    BY <2>1 DEF TypeOK, RemoveIntents, File, Grant
  <2> QED BY <1>4, <2>1, <2>2, <2>4, <2>5, HoldTypeInv DEF CommitApproval, Free, TypeOK
<1>5. CASE CommitFails(p)
  <2>1. \A q \in Procs : lock = q => lock' = q \/ q = p
    BY <1>5, NoneAssumption DEF CommitFails, Release, ControlOK, TypeOK, Free
  <2>2. TypeOK'
    BY <1>5, EmptyFileType DEF CommitFails, Release, TypeOK, States
  <2>3. ControlOK'
    BY <1>5, <2>1 DEF CommitFails, TypeOK, ControlOK
  <2> QED BY <2>2, <2>3
<1>6. CASE RecoverApprovalGrant(p)
  <2> DEFINE g == own[p]
             f == WithoutApprovals(meta, {g})
             S == {meta.intents[g].secret} \cap Present
             P == [t \in S |-> ReconcilePolicyForSecret(vault[t].policy,
                                   meta.intents[g].base, Required(f, t))]
  <2>1. MutateVault(P) /\ HoldWith(p, f, "saving")
    BY <1>6 DEF RecoverApprovalGrant
  <2>2. meta.intents[g].base.allow \in SUBSET Caps
    BY <1>6 DEF RecoverApprovalGrant, Pending, TypeOK, File, Intent, Baselines
  <2>3. \A t \in S : P[t] \in Policies
    BY <2>2, RecordType, ReconcileClosed DEF Required
  <2>4. vault' \in [Secrets -> Record \cup {None}]
    BY <2>1, <2>3, VaultWrite DEF TypeOK
  <2>5. f \in File
    BY DEF TypeOK, WithoutApprovals, RemoveGrants, RemoveIntents, File
  <2>6. own' = [own EXCEPT ![p] = None]
    BY <1>6 DEF RecoverApprovalGrant
  <2> QED BY <1>6, <2>1, <2>4, <2>5, <2>6, HoldTypeInv
        DEF RecoverApprovalGrant, Free, TypeOK
<1> QED BY <1>1, <1>2, <1>3, <1>4, <1>5, <1>6 DEF Approve

(* mutateBrokerPolicy, whatever the mutation and the records it affects. *)
LEMMA MutateTypeInv ==
    ASSUME TypeInv, NEW p \in Procs, NEW f \in File, NEW S,
           MutateBrokerPolicy(p, f, S)
    PROVE  TypeInv'
<1> DEFINE P == [t \in S \cap Present |->
                    ReconcileCurrentPolicy(vault[t].policy, Required(f, t))]
<1>1. MutateVault(P) /\ HoldWith(p, f, "saving") /\ lock = None
  BY DEF MutateBrokerPolicy, Free
<1>2. \A t \in S \cap Present : P[t] \in Policies
  BY RecordType, CurrentClosed DEF TypeInv, Required
<1>3. vault' \in [Secrets -> Record \cup {None}]
  BY <1>1, <1>2, VaultWrite DEF TypeInv, TypeOK
<1> QED BY <1>1, <1>3, HoldTypeInv DEF MutateBrokerPolicy, TypeInv, TypeOK

LEMMA AdministerTypeInv ==
    ASSUME TypeInv, NEW p \in Procs, Administer(p)
    PROVE  TypeInv'
<1>0. meta \in File
  BY DEF TypeInv, TypeOK
<1>1. ASSUME NEW g \in GrantIds, RevokeGrant(p, g) PROVE TypeInv'
  BY <1>0, <1>1, FilesClosed, MutateTypeInv DEF RevokeGrant
<1>2. CASE ReconcileExpiredGrants(p)
  BY <1>0, <1>2, FilesClosed, MutateTypeInv DEF ReconcileExpiredGrants
<1>3. ASSUME NEW b \in BindingIds, NEW s \in Secrets, RebindBinding(p, b, s)
      PROVE  TypeInv'
  <2>1. Suspend(meta, GrantsOf(meta, b)) \in File
    BY <1>0, FilesClosed
  <2>2. [Suspend(meta, GrantsOf(meta, b)) EXCEPT !.bindings[b] = s] \in File
    BY <2>1, BindingsClosed
  <2> QED BY <1>3, <2>2, MutateTypeInv DEF RebindBinding
<1>4. ASSUME NEW b \in BindingIds, DeleteBinding(p, b) PROVE TypeInv'
  BY <1>0, <1>4, BindingsClosed, MutateTypeInv DEF DeleteBinding
<1>5. ASSUME NEW s \in Secrets, NEW caps \in SUBSET Caps, AddBindingPolicy(p, s, caps)
      PROVE  TypeInv'
  <2> DEFINE P == [t \in {s} |-> MarkBrokerAdministrative(
                      vault[t].policy, vault[t].policy.admin \cup caps)]
  <2>1. s \in Present
    BY <1>5 DEF AddBindingPolicy
  <2>2. P[s] \in Policies
    BY <2>1, RecordType, MarkClosed, AdminPartType DEF TypeInv
  <2>3. vault' \in [Secrets -> Record \cup {None}]
    BY <1>5, <2>2, VaultWrite DEF AddBindingPolicy, TypeInv, TypeOK
  <2> QED BY <1>5, <2>3 DEF AddBindingPolicy, TypeInv, TypeOK, ControlOK, States
<1>6. CASE AddBinding(p)
  <2>1. req[p] \in Secrets
    BY <1>6 DEF AddBinding, TypeInv, ControlOK
  <2>2. meta' \in File
    BY <1>0, <1>6, <2>1 DEF AddBinding, File
  <2>3. nextBinding' \in 1..MaxBindings + 1
    BY <1>6, BoundsAssumption DEF AddBinding, BindingIds
  <2> QED BY <1>6, <2>2, <2>3 DEF AddBinding, TypeInv, TypeOK, ControlOK, States
<1> QED BY <1>1, <1>2, <1>3, <1>4, <1>5, <1>6 DEF Administer

LEMMA RecoverPendingTypeInv ==
    ASSUME TypeInv, NEW p \in Procs, RecoverPendingApprovals(p)
    PROVE  TypeInv'
<1> DEFINE f == RemoveGrants(meta, Pending(meta) \ Enabled(meta))
           h == RemoveIntents(f, Pending(meta))
           S == {s \in Present : IntentsFor(meta, s) # {}}
           P == [t \in S |-> ReconcilePolicyForSecret(vault[t].policy,
                                 ApprovalBaseline(meta, t), Required(f, t))]
<1>1. MutateVault(P) /\ HoldWith(p, h, "saving") /\ lock = None
  BY DEF RecoverPendingApprovals, Free
<1>2. meta \in File /\ h \in File
  BY FilesClosed DEF TypeInv, TypeOK
<1>3. \A t \in S : P[t] \in Policies
  BY <1>2, BaselineType, RecordType, ReconcileClosed DEF TypeInv, Required
<1>4. vault' \in [Secrets -> Record \cup {None}]
  BY <1>1, <1>3, VaultWrite DEF TypeInv, TypeOK
<1> QED BY <1>1, <1>2, <1>4, HoldTypeInv DEF RecoverPendingApprovals, TypeInv, TypeOK

LEMMA ReleaseTypeInv ==
    ASSUME TypeInv, NEW p \in Procs, SaveBrokerFile(p) \/ Interrupt(p)
    PROVE  TypeInv'
<1> USE DEF TypeInv
<1>1. \A q \in Procs : lock = q => lock' = q \/ q = p
  BY NoneAssumption DEF SaveBrokerFile, Interrupt, Release, ControlOK, TypeOK
<1>2. TypeOK'
  BY EmptyFileType DEF SaveBrokerFile, Interrupt, Release, TypeOK, States
<1>3. ControlOK'
  BY <1>1 DEF SaveBrokerFile, Interrupt, TypeOK, ControlOK
<1> QED BY <1>2, <1>3

(* Steps of no process: clean-up, the vault's own commands, time. *)
LEMMA EnvironmentTypeInv ==
    ASSUME TypeInv,
           \/ \E cutoff \in GrantIds : CleanupStaleStaged(cutoff)
           \/ \E s \in Secrets : ArchiveSecret(s) \/ RemoveSecret(s)
           \/ \E g \in GrantIds : Expire(g)
    PROVE  TypeInv'
<1> USE DEF TypeInv
<1>1. ASSUME NEW cutoff \in GrantIds, CleanupStaleStaged(cutoff) PROVE TypeInv'
  BY <1>1, FilesClosed DEF CleanupStaleStaged, TypeOK, ControlOK
<1>2. \A t \in Present :
         /\ vault[t] \in Record
         /\ NormalizeBrokerPolicyProvenance(vault[t].policy) \in Policies
  BY RecordType, NormalizeClosed
<1>3. ASSUME NEW s \in Secrets, ArchiveSecret(s) PROVE TypeInv'
  <2>1. \A t \in Present : vault'[t] \in Record
    BY <1>2, <1>3 DEF ArchiveSecret, Present, Record
  <2>2. vault' \in [Secrets -> Record \cup {None}]
    BY <1>3, <2>1 DEF ArchiveSecret, Present
  <2> QED BY <1>3, <2>2 DEF ArchiveSecret, TypeOK, ControlOK
<1>4. ASSUME NEW s \in Secrets, RemoveSecret(s) PROVE TypeInv'
  <2>1. \A t \in Present : vault'[t] \in Record \cup {None}
    BY <1>2, <1>4 DEF RemoveSecret, Present, Record
  <2>2. vault' \in [Secrets -> Record \cup {None}]
    BY <1>4, <2>1 DEF RemoveSecret, Present
  <2> QED BY <1>4, <2>2 DEF RemoveSecret, TypeOK, ControlOK
<1>5. ASSUME NEW g \in GrantIds, Expire(g) PROVE TypeInv'
  BY <1>5 DEF Expire, TypeOK, ControlOK
<1> QED BY <1>1, <1>3, <1>4, <1>5

LEMMA StepTypeInv == TypeInv /\ [Next]_vars => TypeInv'
<1> SUFFICES ASSUME TypeInv, [Next]_vars PROVE TypeInv'
  OBVIOUS
<1>1. CASE UNCHANGED vars
  BY <1>1 DEF vars, TypeInv, TypeOK, ControlOK
<1>2. CASE Next
  BY <1>2, ApproveTypeInv, AdministerTypeInv, RecoverPendingTypeInv,
     ReleaseTypeInv, EnvironmentTypeInv DEF Next
<1> QED BY <1>1, <1>2

(* Every state of every behaviour has the shape the code expects: no       *)
(* operation, interrupted anywhere, leaves a dangling field behind.        *)
THEOREM TypeCorrect == Spec => []TypeOK
<1>1. Spec => []TypeInv
  BY InitTypeInv, StepTypeInv, PTL DEF Spec
<1>2. TypeInv => TypeOK
  BY DEF TypeInv
<1> QED BY <1>1, <1>2, PTL
-----------------------------------------------------------------------------
(* Consistency of broker.json.  It is inductive once the types are known:  *)
(* each function that computes the next broker.json preserves it.          *)
LEMMA EmptyConsistent == Consistent(EmptyFile)
BY DEF Consistent, EmptyFile, Grants, Pending, Enabled

LEMMA WithoutApprovalsConsistent ==
    ASSUME NEW f \in File, Consistent(f), NEW G
    PROVE  Consistent(WithoutApprovals(f, G))
<1> DEFINE h == WithoutApprovals(f, G)
<1>1. /\ h.bindings = f.bindings
      /\ \A g \in GrantIds : /\ h.grants[g] = IF g \in G THEN None ELSE f.grants[g]
                             /\ h.intents[g] = IF g \in G THEN None ELSE f.intents[g]
  BY DEF WithoutApprovals, RemoveIntents, RemoveGrants, File
<1> HIDE DEF h
<1>2. Grants(h) = Grants(f) \ G /\ Pending(h) = Pending(f) \ G /\ Bindings(h) = Bindings(f)
  BY <1>1 DEF Grants, Pending, Bindings
<1>3. Enabled(h) = Enabled(f) \ G
  BY <1>1, <1>2 DEF Enabled, Grants
<1>4. Consistent(h)
  BY <1>1, <1>2, <1>3 DEF Consistent, Grants, Pending
<1> QED BY <1>4 DEF h

LEMMA SuspendConsistent ==
    ASSUME NEW f \in File, Consistent(f), NEW G
    PROVE  Consistent(Suspend(f, G))
<1> DEFINE h == Suspend(f, G)
<1>1. /\ h.bindings = f.bindings /\ h.intents = f.intents
      /\ \A g \in GrantIds :
            /\ h.grants[g] = None <=> f.grants[g] = None
            /\ f.grants[g] # None =>
                  /\ h.grants[g].binding = f.grants[g].binding
                  /\ h.grants[g].enabled => f.grants[g].enabled
  BY NoneAssumption DEF Suspend, File, Grants, Grant
<1> HIDE DEF h
<1>2. Grants(h) = Grants(f) /\ Pending(h) = Pending(f) /\ Bindings(h) = Bindings(f)
  BY <1>1 DEF Grants, Pending, Bindings
<1>3. Enabled(h) \subseteq Enabled(f)
  BY <1>1, <1>2 DEF Enabled, Grants
<1>4. Consistent(h)
  BY <1>1, <1>2, <1>3 DEF Consistent, Grants, Pending
<1> QED BY <1>4 DEF h

LEMMA SetBindingConsistent ==
    ASSUME NEW f \in File, Consistent(f), NEW b \in BindingIds, NEW s \in Secrets
    PROVE  Consistent([f EXCEPT !.bindings[b] = s])
<1> DEFINE h == [f EXCEPT !.bindings[b] = s]
<1>1. /\ h.grants = f.grants /\ h.intents = f.intents
      /\ \A c \in BindingIds : h.bindings[c] = IF c = b THEN s ELSE f.bindings[c]
  BY DEF File
<1> HIDE DEF h
<1>2. Grants(h) = Grants(f) /\ Pending(h) = Pending(f) /\ Enabled(h) = Enabled(f)
  BY <1>1 DEF Grants, Pending, Enabled
<1>3. Bindings(f) \subseteq Bindings(h)
  BY <1>1, NoneAssumption DEF Bindings
<1>4. Consistent(h)
  BY <1>1, <1>2, <1>3 DEF Consistent
<1> QED BY <1>4 DEF h

LEMMA WithoutBindingConsistent ==
    ASSUME NEW f \in File, Consistent(f), NEW b \in BindingIds
    PROVE  Consistent(WithoutBinding(f, b))
<1> DEFINE h == WithoutBinding(f, b)
           G == GrantsOf(f, b)
<1>1. /\ \A c \in BindingIds : h.bindings[c] = IF c = b THEN None ELSE f.bindings[c]
      /\ \A g \in GrantIds :
            /\ h.grants[g] = IF g \in G THEN None ELSE f.grants[g]
            /\ h.intents[g] = IF g \in IntentsOf(f, b) THEN None ELSE f.intents[g]
  BY DEF WithoutBinding, RemoveIntents, RemoveGrants, File
<1> HIDE DEF h
<1>2. IntentsOf(f, b) = G \cap Pending(f)
  BY DEF IntentsOf, GrantsOf, Consistent
<1>3. Grants(h) = Grants(f) \ G /\ Pending(h) = Pending(f) \ G
  BY <1>1, <1>2 DEF Grants, Pending
<1>4. Bindings(h) = Bindings(f) \ {b}
  BY <1>1 DEF Bindings
<1>5. Enabled(h) = Enabled(f) \ G
  BY <1>1, <1>3 DEF Enabled, Grants
<1>6. \A g \in Grants(f) \ G : f.grants[g].binding # b
  BY DEF GrantsOf
<1>7. Consistent(h)
  BY <1>1, <1>2, <1>3, <1>4, <1>5, <1>6 DEF Consistent, Grants, Pending
<1> QED BY <1>7 DEF h

LEMMA ActivatedConsistent ==
    ASSUME NEW f \in File, Consistent(f), NEW g \in Grants(f)
    PROVE  Consistent([RemoveIntents(f, {g}) EXCEPT !.grants[g].enabled = TRUE])
<1> DEFINE h == [RemoveIntents(f, {g}) EXCEPT !.grants[g].enabled = TRUE]
<1>0. g \in GrantIds /\ f.grants[g] \in Grant
  BY DEF Grants, File
<1>1. /\ h.bindings = f.bindings
      /\ \A i \in GrantIds :
            /\ h.grants[i] = IF i = g THEN [f.grants[i] EXCEPT !.enabled = TRUE]
                                      ELSE f.grants[i]
            /\ h.intents[i] = IF i = g THEN None ELSE f.intents[i]
  BY <1>0 DEF RemoveIntents, File
<1> HIDE DEF h
<1>2. h.grants[g] \in Grant /\ h.grants[g].binding = f.grants[g].binding
  BY <1>0, <1>1 DEF Grant
<1>3. Grants(h) = Grants(f) /\ Pending(h) = Pending(f) \ {g} /\ Bindings(h) = Bindings(f)
  BY <1>0, <1>1, <1>2, NoneAssumption DEF Grants, Pending, Bindings
<1>4. Enabled(h) \ {g} = Enabled(f) \ {g}
  BY <1>1, <1>3 DEF Enabled, Grants
<1>5. Consistent(h)
  BY <1>1, <1>2, <1>3, <1>4 DEF Consistent, Grants, Pending
<1> QED BY <1>5 DEF h

LEMMA RecoveredConsistent ==
    ASSUME NEW f \in File, Consistent(f)
    PROVE  Consistent(RemoveIntents(RemoveGrants(f, Pending(f) \ Enabled(f)), Pending(f)))
<1>1. Pending(f) \ Enabled(f) = Pending(f)
  BY DEF Consistent
<1>2. RemoveIntents(RemoveGrants(f, Pending(f) \ Enabled(f)), Pending(f))
         = WithoutApprovals(f, Pending(f))
  BY <1>1 DEF WithoutApprovals
<1> QED BY <1>2, WithoutApprovalsConsistent

MetadataInv == TypeInv /\ MetadataConsistent

LEMMA ApproveConsistent ==
    ASSUME MetadataInv, NEW p \in Procs, Approve(p)
    PROVE  MetadataConsistent'
<1> USE DEF MetadataInv, MetadataConsistent
<1>0. meta \in File /\ Consistent(meta) /\ Consistent(work)
  BY DEF TypeInv, TypeOK
<1>1. ASSUME NEW b \in BindingIds \cup {None}, NEW s \in Secrets,
             NEW caps \in SUBSET Caps, PrepareApproval(p, b, s, caps)
      PROVE  MetadataConsistent'
  BY <1>0, <1>1 DEF PrepareApproval
<1>2. CASE StageApproval(p)
  <2> DEFINE r == req[p]
             b == IF r.binding = None THEN nextBinding ELSE r.binding
             n == nextGrant
             grant == [binding |-> b, caps |-> r.caps, enabled |-> FALSE]
             f == [meta EXCEPT !.bindings[b] = r.secret]
             h == meta'
  <2>1. r \in Request /\ n \in GrantIds
    BY <1>2 DEF StageApproval, ControlOK, TypeInv
  <2>2. b \in BindingIds /\ r.secret \in Secrets
    BY <1>2, <2>1 DEF StageApproval, Request
  <2>3. Consistent(f) /\ f \in File
    BY <1>0, <2>2, SetBindingConsistent, BindingsClosed
  <2>4. h = [f EXCEPT !.grants[n] = grant, !.intents[n] = StagedIntent(r, b)]
    BY <1>0, <1>2 DEF StageApproval, File
  <2>5. /\ h.bindings = f.bindings
        /\ \A g \in GrantIds :
              /\ h.grants[g] = IF g = n THEN grant ELSE f.grants[g]
              /\ h.intents[g] = IF g = n THEN StagedIntent(r, b) ELSE f.intents[g]
    BY <2>1, <2>3, <2>4 DEF File
  <2>6. /\ grant \in Grant /\ grant.binding = b /\ ~grant.enabled
        /\ StagedIntent(r, b) \in Intent /\ StagedIntent(r, b).binding = b
    BY <2>1, <2>2 DEF Grant, Intent, StagedIntent, Request
  <2>7. b \in Bindings(f)
    BY <1>0, <2>2, NoneAssumption DEF Bindings, File
  <2> HIDE DEF f, h, grant, b, n
  <2>8. /\ Grants(h) = Grants(f) \cup {n} /\ Pending(h) = Pending(f) \cup {n}
        /\ Bindings(h) = Bindings(f)
    BY <2>1, <2>5, <2>6, NoneAssumption DEF Grants, Pending, Bindings
  <2>9. Enabled(h) = Enabled(f) \ {n}
    BY <2>1, <2>5, <2>6, <2>8 DEF Enabled, Grants
  <2>10. Consistent(h)
    BY <2>1, <2>3, <2>5, <2>6, <2>7, <2>8, <2>9 DEF Consistent, Grants, Pending
  <2> QED BY <1>0, <1>2, <2>10 DEF StageApproval, h
<1>3. CASE CancelStagedApproval(p)
  BY <1>0, <1>3, WithoutApprovalsConsistent DEF CancelStagedApproval
<1>4. CASE CommitApproval(p)
  BY <1>0, <1>4, ActivatedConsistent DEF CommitApproval, HoldWith
<1>5. CASE CommitFails(p)
  BY <1>0, <1>5, EmptyConsistent DEF CommitFails, Release
<1>6. CASE RecoverApprovalGrant(p)
  BY <1>0, <1>6, WithoutApprovalsConsistent DEF RecoverApprovalGrant, HoldWith
<1> QED BY <1>1, <1>2, <1>3, <1>4, <1>5, <1>6 DEF Approve

LEMMA AdministerConsistent ==
    ASSUME MetadataInv, NEW p \in Procs, Administer(p)
    PROVE  MetadataConsistent'
<1> USE DEF MetadataInv, MetadataConsistent
<1>0. meta \in File /\ Consistent(meta) /\ Consistent(work)
  BY DEF TypeInv, TypeOK
<1>1. ASSUME NEW f, NEW S, Consistent(f), MutateBrokerPolicy(p, f, S)
      PROVE  MetadataConsistent'
  BY <1>0, <1>1 DEF MutateBrokerPolicy, HoldWith
<1>2. ASSUME NEW g \in GrantIds, RevokeGrant(p, g) PROVE MetadataConsistent'
  BY <1>0, <1>1, <1>2, SuspendConsistent DEF RevokeGrant
<1>3. CASE ReconcileExpiredGrants(p)
  BY <1>0, <1>1, <1>3, SuspendConsistent DEF ReconcileExpiredGrants
<1>4. ASSUME NEW b \in BindingIds, NEW s \in Secrets, RebindBinding(p, b, s)
      PROVE  MetadataConsistent'
  <2> DEFINE f == Suspend(meta, GrantsOf(meta, b))
  <2>1. f \in File /\ Consistent(f)
    BY <1>0, FilesClosed, SuspendConsistent
  <2>2. Consistent([f EXCEPT !.bindings[b] = s])
    BY <2>1, SetBindingConsistent
  <2> QED BY <1>1, <1>4, <2>2 DEF RebindBinding
<1>5. ASSUME NEW b \in BindingIds, DeleteBinding(p, b) PROVE MetadataConsistent'
  BY <1>0, <1>1, <1>5, WithoutBindingConsistent DEF DeleteBinding
<1>6. ASSUME NEW s \in Secrets, NEW caps \in SUBSET Caps, AddBindingPolicy(p, s, caps)
      PROVE  MetadataConsistent'
  BY <1>0, <1>6 DEF AddBindingPolicy
<1>7. CASE AddBinding(p)
  <2>1. req[p] \in Secrets
    BY <1>7 DEF AddBinding, TypeInv, ControlOK
  <2> QED BY <1>0, <1>7, <2>1, SetBindingConsistent DEF AddBinding
<1> QED BY <1>2, <1>3, <1>4, <1>5, <1>6, <1>7 DEF Administer

LEMMA StepConsistent == MetadataInv /\ [Next]_vars => MetadataConsistent'
<1> SUFFICES ASSUME MetadataInv, [Next]_vars PROVE MetadataConsistent'
  OBVIOUS
<1>0. meta \in File /\ Consistent(meta) /\ Consistent(work)
  BY DEF MetadataInv, MetadataConsistent, TypeInv, TypeOK
<1>1. CASE UNCHANGED vars
  BY <1>0, <1>1 DEF vars, MetadataConsistent
<1>2. ASSUME NEW p \in Procs, RecoverPendingApprovals(p) PROVE MetadataConsistent'
  BY <1>0, <1>2, RecoveredConsistent
  DEF RecoverPendingApprovals, HoldWith, MetadataConsistent
<1>3. ASSUME NEW p \in Procs, SaveBrokerFile(p) \/ Interrupt(p)
      PROVE  MetadataConsistent'
  BY <1>0, <1>3, EmptyConsistent
  DEF SaveBrokerFile, Interrupt, Release, MetadataConsistent
<1>4. ASSUME NEW cutoff \in GrantIds, CleanupStaleStaged(cutoff)
      PROVE  MetadataConsistent'
  BY <1>0, <1>4, WithoutApprovalsConsistent
  DEF CleanupStaleStaged, MetadataConsistent
<1>5. ASSUME NEW s \in Secrets, ArchiveSecret(s) \/ RemoveSecret(s)
      PROVE  MetadataConsistent'
  BY <1>0, <1>5 DEF ArchiveSecret, RemoveSecret, MetadataConsistent
<1>6. ASSUME NEW g \in GrantIds, Expire(g) PROVE MetadataConsistent'
  BY <1>0, <1>6 DEF Expire, MetadataConsistent
<1> QED BY <1>1, <1>2, <1>3, <1>4, <1>5, <1>6, ApproveConsistent,
           AdministerConsistent DEF Next

LEMMA AlwaysMetadataInv == Spec => []MetadataInv
<1>1. Init => MetadataInv
  BY InitTypeInv, EmptyConsistent DEF Init, MetadataInv, MetadataConsistent
<1>2. MetadataInv /\ [Next]_vars => MetadataInv'
  BY StepTypeInv, StepConsistent DEF MetadataInv
<1> QED BY <1>1, <1>2, PTL DEF Spec

(* broker.json stays a file that LoadBrokerFile accepts, whatever the      *)
(* interleaving of approvals, recoveries, revocations, rebindings,         *)
(* deletions, clean-ups and crashes.                                       *)
THEOREM MetadataAlwaysConsistent == Spec => []MetadataConsistent
<1>1. MetadataInv => MetadataConsistent
  BY DEF MetadataInv
<1> QED BY <1>1, AlwaysMetadataInv, PTL
-----------------------------------------------------------------------------
(* Administrative policy.  Every function that rewrites a policy preserves *)
(* it, so every vault write does.                                          *)
LEMMA VaultWriteSurvives ==
    ASSUME TypeInv, NEW P,
           \A s \in (DOMAIN P) \cap Present :
               P[s] \in Policies /\ Survives(vault[s].policy, P[s]),
           MutateVault(P)
    PROVE  \A s \in Present : Survives(vault[s].policy, vault'[s].policy)
<1> SUFFICES ASSUME NEW s \in Present
             PROVE  Survives(vault[s].policy, vault'[s].policy)
  OBVIOUS
<1> DEFINE q == IF s \in DOMAIN P THEN P[s] ELSE vault[s].policy
<1>1. vault[s].policy \in Policies
  BY RecordType DEF TypeInv
<1>2. q \in Policies /\ Survives(vault[s].policy, q)
  BY <1>1 DEF Survives
<1>3. vault'[s].policy = NormalizeBrokerPolicyProvenance(q)
  BY VaultWrite DEF TypeInv, TypeOK
<1> HIDE DEF q
<1>4. Survives(q, NormalizeBrokerPolicyProvenance(q))
  BY <1>2, NormalizeSurvives
<1> QED BY <1>2, <1>3, <1>4, SurvivesTransitive

LEMMA SurvivalKeeps ==
    ASSUME \A s \in Present : Survives(vault[s].policy, vault'[s].policy)
    PROVE  KeepsAdministrativePolicy
BY DEF Survives, KeepsAdministrativePolicy

LEMMA SameVaultKeeps == UNCHANGED vault => KeepsAdministrativePolicy
BY DEF KeepsAdministrativePolicy

LEMMA MutateKeepsAdministrative ==
    ASSUME TypeInv, NEW p, NEW f, NEW S, MutateBrokerPolicy(p, f, S)
    PROVE  KeepsAdministrativePolicy
<1> DEFINE P == [t \in S \cap Present |->
                    ReconcileCurrentPolicy(vault[t].policy, Required(f, t))]
<1>1. MutateVault(P)
  BY DEF MutateBrokerPolicy
<1>2. \A t \in S \cap Present :
         P[t] \in Policies /\ Survives(vault[t].policy, P[t])
  BY RecordType, CurrentClosed, CurrentSurvives DEF TypeInv, Required
<1> QED BY <1>1, <1>2, VaultWriteSurvives, SurvivalKeeps

LEMMA CommitKeepsAdministrative ==
    ASSUME TypeInv, NEW p \in Procs, CommitApproval(p)
    PROVE  KeepsAdministrativePolicy
<1> DEFINE g == own[p]
           s == meta.intents[g].secret
           P == [t \in {s} |-> ApplyGrantPolicy(vault[t].policy, meta.grants[g].caps)]
<1>1. g \in GrantIds /\ meta.grants[g] \in Grant
  BY DEF CommitApproval, ControlOK, Grants, TypeInv, TypeOK, File
<1>2. s \in Present /\ MutateVault(P)
  BY DEF CommitApproval
<1>3. P[s] \in Policies /\ Survives(vault[s].policy, P[s])
  BY <1>1, <1>2, RecordType, ApplyClosed, ApplySurvives DEF Grant, TypeInv
<1> QED BY <1>2, <1>3, VaultWriteSurvives, SurvivalKeeps

LEMMA RecoverKeepsAdministrative ==
    ASSUME TypeInv, NEW p \in Procs, RecoverApprovalGrant(p)
    PROVE  KeepsAdministrativePolicy
<1> DEFINE g == own[p]
           S == {meta.intents[g].secret} \cap Present
           P == [t \in S |-> ReconcilePolicyForSecret(vault[t].policy,
                    meta.intents[g].base, Required(WithoutApprovals(meta, {g}), t))]
<1>1. MutateVault(P)
  BY DEF RecoverApprovalGrant
<1>2. meta.intents[g].base.allow \in SUBSET Caps
  BY DEF RecoverApprovalGrant, Pending, TypeInv, TypeOK, File, Intent, Baselines
<1>3. \A t \in S : P[t] \in Policies /\ Survives(vault[t].policy, P[t])
  BY <1>2, RecordType, ReconcileClosed, ReconcileSurvives DEF TypeInv, Required
<1> QED BY <1>1, <1>3, VaultWriteSurvives, SurvivalKeeps

LEMMA RecoverPendingKeepsAdministrative ==
    ASSUME TypeInv, NEW p \in Procs, RecoverPendingApprovals(p)
    PROVE  KeepsAdministrativePolicy
<1> DEFINE f == RemoveGrants(meta, Pending(meta) \ Enabled(meta))
           S == {s \in Present : IntentsFor(meta, s) # {}}
           P == [t \in S |-> ReconcilePolicyForSecret(vault[t].policy,
                                 ApprovalBaseline(meta, t), Required(f, t))]
<1>1. MutateVault(P)
  BY DEF RecoverPendingApprovals
<1>2. \A t \in S : ApprovalBaseline(meta, t).allow \in SUBSET Caps
  BY BaselineType DEF TypeInv, TypeOK
<1>3. \A t \in S : P[t] \in Policies /\ Survives(vault[t].policy, P[t])
  BY <1>2, RecordType, ReconcileClosed, ReconcileSurvives DEF TypeInv, Required
<1> QED BY <1>1, <1>3, VaultWriteSurvives, SurvivalKeeps

(* An administrator's own step rewrites one record and only adds flags.    *)
LEMMA MarkKeepsFlags ==
    ASSUME TypeInv, NEW p \in Procs, NEW s \in Secrets, NEW caps \in SUBSET Caps,
           AddBindingPolicy(p, s, caps)
    PROVE  KeepsAdministrativePolicy
<1> DEFINE new == MarkBrokerAdministrative(vault[s].policy, vault[s].policy.admin \cup caps)
           P == [t \in {s} |-> MarkBrokerAdministrative(
                    vault[t].policy, vault[t].policy.admin \cup caps)]
<1>1. MarkStep
  BY DEF MarkStep
<1>2. CASE caps = {}
  BY <1>2, SameVaultKeeps DEF AddBindingPolicy
<1>3. CASE caps # {}
  <2>1. s \in Present /\ MutateVault(P)
    BY <1>3 DEF AddBindingPolicy
  <2>2. DOMAIN P = {s} /\ P[s] = new
    OBVIOUS
  <2>3. new \in Policies /\ new.admin = vault[s].policy.admin \cup caps
    BY <2>1, RecordType, MarkClosed, AdminPartType
    DEF TypeInv, MarkBrokerAdministrative
  <2> HIDE DEF P, new
  <2>4. \A t \in Present : vault'[t].policy = NormalizeBrokerPolicyProvenance(
            IF t \in DOMAIN P THEN P[t] ELSE vault[t].policy)
    BY <2>1, <2>2, <2>3, VaultWrite DEF TypeInv, TypeOK
  <2>5. \A q : NormalizeBrokerPolicyProvenance(q).admin = q.admin
    BY DEF NormalizeBrokerPolicyProvenance
  <2>6. \A t \in Present : vault[t].policy.admin \subseteq vault'[t].policy.admin
    BY <2>2, <2>3, <2>4, <2>5
  <2> QED BY <1>1, <2>6 DEF KeepsAdministrativePolicy
<1> QED BY <1>2, <1>3

LEMMA StepKeepsAdministrative == TypeInv /\ [Next]_vars => [KeepsAdministrativePolicy]_vars
<1> SUFFICES ASSUME TypeInv, Next PROVE KeepsAdministrativePolicy
  OBVIOUS
<1>1. ASSUME NEW p \in Procs, Approve(p) PROVE KeepsAdministrativePolicy
  <2>1. CASE \E b \in BindingIds \cup {None}, s \in Secrets, caps \in (SUBSET Caps) \ {{}} :
                PrepareApproval(p, b, s, caps)
    BY <2>1, SameVaultKeeps DEF PrepareApproval
  <2>2. CASE StageApproval(p) \/ CancelStagedApproval(p) \/ CommitFails(p)
    BY <2>2, SameVaultKeeps DEF StageApproval, CancelStagedApproval, CommitFails
  <2> QED BY <1>1, <2>1, <2>2, CommitKeepsAdministrative, RecoverKeepsAdministrative
          DEF Approve
<1>2. ASSUME NEW p \in Procs, Administer(p) PROVE KeepsAdministrativePolicy
  <2>1. CASE AddBinding(p)
    BY <2>1, SameVaultKeeps DEF AddBinding
  <2> QED BY <1>2, <2>1, MarkKeepsFlags, MutateKeepsAdministrative
          DEF Administer, RevokeGrant, ReconcileExpiredGrants, RebindBinding,
              DeleteBinding
<1>3. ASSUME NEW p \in Procs, SaveBrokerFile(p) \/ Interrupt(p)
      PROVE  KeepsAdministrativePolicy
  BY <1>3, SameVaultKeeps DEF SaveBrokerFile, Interrupt
<1>4. ASSUME NEW s \in Secrets, ArchiveSecret(s) \/ RemoveSecret(s)
      PROVE  KeepsAdministrativePolicy
  <2>1. \A t \in Present : vault'[t] # None =>
            vault'[t].policy = NormalizeBrokerPolicyProvenance(vault[t].policy)
    BY <1>4, RecordType DEF ArchiveSecret, RemoveSecret, Present, Record, TypeInv
  <2> QED BY <2>1, RecordType, NormalizeSurvives
          DEF Survives, KeepsAdministrativePolicy, TypeInv
<1>5. ASSUME NEW g \in GrantIds, CleanupStaleStaged(g) \/ Expire(g)
      PROVE  KeepsAdministrativePolicy
  BY <1>5, SameVaultKeeps DEF CleanupStaleStaged, Expire
<1> QED BY <1>1, <1>2, <1>3, <1>4, <1>5, RecoverPendingKeepsAdministrative DEF Next

(* Administrative policy outlives every approval and every grant: only an  *)
(* administrator takes a capability held by administrative decision away.  *)
THEOREM AdministrativePolicyAlwaysKept == Spec => AdministrativePolicyKept
BY AlwaysMetadataInv, StepKeepsAdministrative, PTL
   DEF Spec, MetadataInv, AdministrativePolicyKept
-----------------------------------------------------------------------------
(* The policy that live grants need. *)
LEMMA EnabledIsRequired ==
    ASSUME NEW f \in File, NEW g \in Enabled(f) \ expired
    PROVE  f.grants[g].caps \subseteq Required(f, f.bindings[f.grants[g].binding])
<1>1. f.grants[g].caps \subseteq Caps
  BY DEF Enabled, Grants, File, Grant
<1> QED BY <1>1 DEF Required, Needing

(* g is as it was: on, and with the same target. *)
Undisturbed(f, g) ==
    /\ g \in Enabled(f)
    /\ f.grants[g] = meta.grants[g]
    /\ f.bindings[f.grants[g].binding] = meta.bindings[meta.grants[g].binding]

(* A vault write that reconciles records against metadata in which every   *)
(* live grant is undisturbed, or about to be off, keeps what they need.    *)
LEMMA WriteKeepsNeeded ==
    ASSUME TypeInv, NEW f \in File, NEW P, MutateVault(P),
           \A t \in (DOMAIN P) \cap Present :
               P[t] \in Policies /\ Required(f, t) \subseteq P[t].allow,
           \A g \in Enabled(meta) \ expired :
               Undisturbed(f, g) \/ (lock' # None /\ g \notin Enabled(work'))
    PROVE  KeepsNeededPolicy
<1> SUFFICES ASSUME NEW g \in Enabled(meta) \ expired, Undisturbed(f, g),
                    meta.bindings[meta.grants[g].binding] \in Present
             PROVE  LET s == meta.bindings[meta.grants[g].binding]
                    IN  meta.grants[g].caps \cap vault[s].policy.allow
                            \subseteq vault'[s].policy.allow
  BY DEF KeepsNeededPolicy
<1> DEFINE s == meta.bindings[meta.grants[g].binding]
           q == IF s \in DOMAIN P THEN P[s] ELSE vault[s].policy
<1>1. meta.grants[g].caps \subseteq Required(f, s)
  BY EnabledIsRequired DEF Undisturbed
<1>2. meta.grants[g].caps \cap vault[s].policy.allow \subseteq q.allow
  BY <1>1
<1>3. vault'[s].policy = NormalizeBrokerPolicyProvenance(q)
  BY VaultWrite DEF TypeInv, TypeOK
<1> HIDE DEF q
<1>4. q.allow \subseteq vault'[s].policy.allow
  BY <1>3, NormalizationClosesNothing
<1> QED BY <1>2, <1>4

LEMMA MutateKeepsNeeded ==
    ASSUME TypeInv, NEW p \in Procs, NEW f \in File, NEW S,
           MutateBrokerPolicy(p, f, S),
           \A g \in Enabled(meta) : Undisturbed(f, g) \/ g \notin Enabled(f)
    PROVE  KeepsNeededPolicy
<1> DEFINE P == [t \in S \cap Present |->
                    ReconcileCurrentPolicy(vault[t].policy, Required(f, t))]
<1>1. MutateVault(P) /\ lock' = p /\ work' = f
  BY DEF MutateBrokerPolicy, HoldWith
<1>2. \A t \in S \cap Present :
         P[t] \in Policies /\ Required(f, t) \subseteq P[t].allow
  BY RecordType, CurrentClosed, NeededIsAllowed DEF TypeInv, Required
<1> QED BY <1>1, <1>2, WriteKeepsNeeded, NoneAssumption

LEMMA AdministerKeepsNeeded ==
    ASSUME TypeInv, NEW p \in Procs, Administer(p)
    PROVE  KeepsNeededPolicy
<1>0. meta \in File
  BY DEF TypeInv, TypeOK
<1>1. ASSUME NEW G
      PROVE  /\ Suspend(meta, G) \in File
             /\ Suspend(meta, G).bindings = meta.bindings
             /\ \A g \in Enabled(meta) :
                   IF g \in G THEN g \notin Enabled(Suspend(meta, G))
                   ELSE /\ g \in Enabled(Suspend(meta, G))
                        /\ Suspend(meta, G).grants[g] = meta.grants[g]
  <2>1. \A g \in Enabled(meta) : g \in GrantIds /\ meta.grants[g] \in Grant
    BY <1>0 DEF Enabled, Grants, File
  <2>2. \A g \in GrantIds : Suspend(meta, G).grants[g] =
            IF g \in G /\ g \in Grants(meta)
            THEN [meta.grants[g] EXCEPT !.enabled = FALSE] ELSE meta.grants[g]
    BY <1>0 DEF Suspend, File
  <2>3. Suspend(meta, G).bindings = meta.bindings
    BY <1>0 DEF Suspend, File
  <2>4. ASSUME NEW g \in Enabled(meta) \cap G
        PROVE  ~Suspend(meta, G).grants[g].enabled
    BY <2>1, <2>2, <2>4 DEF Enabled, Grant
  <2>5. ASSUME NEW g \in Enabled(meta) \ G
        PROVE  /\ g \in Enabled(Suspend(meta, G))
               /\ Suspend(meta, G).grants[g] = meta.grants[g]
    BY <2>1, <2>2, <2>5 DEF Enabled, Grants
  <2>6. \A g \in Enabled(meta) \cap G : g \notin Enabled(Suspend(meta, G))
    BY <2>4 DEF Enabled
  <2> QED BY <1>0, <2>3, <2>5, <2>6, FilesClosed
<1>2. ASSUME NEW G, NEW S, MutateBrokerPolicy(p, Suspend(meta, G), S)
      PROVE  KeepsNeededPolicy
  BY <1>1, <1>2, MutateKeepsNeeded DEF Undisturbed
<1>3. ASSUME NEW b \in BindingIds, NEW s \in Secrets, RebindBinding(p, b, s)
      PROVE  KeepsNeededPolicy
  <2> DEFINE G == GrantsOf(meta, b)
             h == Suspend(meta, G)
             f == [h EXCEPT !.bindings[b] = s]
  <2>1. h \in File /\ f \in File
    BY <1>1, BindingsClosed
  <2>2. f.grants = h.grants /\ \A c \in BindingIds \ {b} : f.bindings[c] = h.bindings[c]
    BY <2>1 DEF File
  <2>3. Enabled(f) = Enabled(h)
    BY <2>2 DEF Enabled, Grants
  <2>4. \A g \in Enabled(meta) \ G : meta.grants[g].binding \in BindingIds \ {b}
    BY <1>0 DEF Enabled, Grants, GrantsOf, File, Grant
  <2>5. MutateBrokerPolicy(p, f, {meta.bindings[b], s})
    BY <1>3 DEF RebindBinding
  <2> HIDE DEF f, G
  <2>6. \A g \in Enabled(meta) : Undisturbed(f, g) \/ g \notin Enabled(f)
    BY <1>1, <2>2, <2>3, <2>4 DEF Undisturbed
  <2> QED BY <2>1, <2>5, <2>6, MutateKeepsNeeded
<1>4. ASSUME NEW b \in BindingIds, DeleteBinding(p, b) PROVE KeepsNeededPolicy
  <2> DEFINE G == GrantsOf(meta, b)
             f == WithoutBinding(meta, b)
  <2>1. f \in File
    BY <1>0, BindingsClosed
  <2>2. /\ \A g \in GrantIds : f.grants[g] = IF g \in G THEN None ELSE meta.grants[g]
        /\ \A c \in BindingIds \ {b} : f.bindings[c] = meta.bindings[c]
    BY <1>0 DEF WithoutBinding, RemoveIntents, RemoveGrants, File
  <2>3. \A g \in Enabled(meta) \ G : meta.grants[g].binding \in BindingIds \ {b}
    BY <1>0 DEF Enabled, Grants, GrantsOf, File, Grant
  <2>4. MutateBrokerPolicy(p, f, {meta.bindings[b]})
    BY <1>4 DEF DeleteBinding
  <2> HIDE DEF f, G
  <2>5. \A g \in Enabled(meta) : Undisturbed(f, g) \/ g \notin Enabled(f)
    BY <2>2, <2>3 DEF Undisturbed, Enabled, Grants
  <2> QED BY <2>1, <2>4, <2>5, MutateKeepsNeeded
<1>5. ASSUME NEW s \in Secrets, NEW caps \in SUBSET Caps, AddBindingPolicy(p, s, caps)
      PROVE  KeepsNeededPolicy
  BY <1>5 DEF MarkStep, KeepsNeededPolicy
<1>6. CASE AddBinding(p)
  BY <1>6 DEF AddBinding, KeepsNeededPolicy
<1> QED BY <1>2, <1>3, <1>4, <1>5, <1>6
        DEF Administer, RevokeGrant, ReconcileExpiredGrants

LEMMA CommitKeepsNeeded ==
    ASSUME TypeInv, NEW p \in Procs, CommitApproval(p)
    PROVE  KeepsNeededPolicy
<1> DEFINE g == own[p]
           s == meta.intents[g].secret
           P == [t \in {s} |-> ApplyGrantPolicy(vault[t].policy, meta.grants[g].caps)]
<1>1. g \in GrantIds /\ meta.grants[g] \in Grant
  BY DEF CommitApproval, ControlOK, Grants, TypeInv, TypeOK, File
<1>2. s \in Present /\ MutateVault(P)
  BY DEF CommitApproval
<1>3. P[s] \in Policies /\ vault[s].policy.allow \subseteq P[s].allow
  BY <1>1, <1>2, RecordType, ApplyClosed, NeededIsAllowed DEF Grant, TypeInv
<1>4. DOMAIN P = {s} /\ vault \in [Secrets -> Record \cup {None}]
  BY DEF TypeInv, TypeOK
<1> HIDE DEF P, s
<1>5. \A t \in Present : vault'[t].policy = NormalizeBrokerPolicyProvenance(
            IF t \in {s} THEN P[t] ELSE vault[t].policy)
  <2>1. \A t \in (DOMAIN P) \cap Present : P[t] \in Policies
    BY <1>3, <1>4
  <2> QED
    BY ONLY <1>2, <1>4, <2>1, VaultWrite
<1>6. \A t \in Present : vault[t].policy.allow \subseteq vault'[t].policy.allow
  BY <1>3, <1>5, NormalizationClosesNothing
<1> QED BY <1>6 DEF KeepsNeededPolicy

(* Recovery removes grants, but none that is on: an approval that is still *)
(* pending has its grant switched off.                                     *)
LEMMA RecoveryUndisturbed ==
    ASSUME NEW f \in File, meta \in File, f.bindings = meta.bindings, NEW G,
           \A g \in GrantIds : f.grants[g] = IF g \in G THEN None ELSE meta.grants[g],
           G \cap Enabled(meta) = {}
    PROVE  \A g \in Enabled(meta) : Undisturbed(f, g)
BY DEF Undisturbed, Enabled, Grants

LEMMA RecoverKeepsNeeded ==
    ASSUME MetadataInv, NEW p \in Procs, RecoverApprovalGrant(p)
    PROVE  KeepsNeededPolicy
<1> DEFINE g == own[p]
           f == WithoutApprovals(meta, {g})
           S == {meta.intents[g].secret} \cap Present
           P == [t \in S |-> ReconcilePolicyForSecret(vault[t].policy,
                                 meta.intents[g].base, Required(f, t))]
<1>0. meta \in File /\ f \in File
  BY FilesClosed DEF MetadataInv, TypeInv, TypeOK
<1>1. MutateVault(P)
  BY DEF RecoverApprovalGrant
<1>2. meta.intents[g].base.allow \in SUBSET Caps
  BY <1>0 DEF RecoverApprovalGrant, Pending, File, Intent, Baselines
<1>3. \A t \in S : P[t] \in Policies /\ Required(f, t) \subseteq P[t].allow
  BY <1>2, RecordType, ReconcileClosed, NeededIsAllowed DEF MetadataInv, TypeInv, Required
<1>4. {g} \cap Enabled(meta) = {}
  BY DEF RecoverApprovalGrant, MetadataInv, MetadataConsistent, Consistent
<1>5. /\ f.bindings = meta.bindings
      /\ \A h \in GrantIds : f.grants[h] = IF h \in {g} THEN None ELSE meta.grants[h]
  BY <1>0 DEF WithoutApprovals, RemoveIntents, RemoveGrants, File
<1>6. \A h \in Enabled(meta) : Undisturbed(f, h)
  BY <1>0, <1>4, <1>5, RecoveryUndisturbed
<1> QED BY <1>0, <1>1, <1>3, <1>6, WriteKeepsNeeded DEF MetadataInv

LEMMA RecoverPendingKeepsNeeded ==
    ASSUME MetadataInv, NEW p \in Procs, RecoverPendingApprovals(p)
    PROVE  KeepsNeededPolicy
<1> DEFINE G == Pending(meta) \ Enabled(meta)
           f == RemoveGrants(meta, G)
           S == {s \in Present : IntentsFor(meta, s) # {}}
           P == [t \in S |-> ReconcilePolicyForSecret(vault[t].policy,
                                 ApprovalBaseline(meta, t), Required(f, t))]
<1>0. meta \in File /\ f \in File
  BY FilesClosed DEF MetadataInv, TypeInv, TypeOK
<1>1. MutateVault(P)
  BY DEF RecoverPendingApprovals
<1>2. \A t \in S : ApprovalBaseline(meta, t).allow \in SUBSET Caps
  BY <1>0, BaselineType
<1>3. \A t \in S : P[t] \in Policies /\ Required(f, t) \subseteq P[t].allow
  BY <1>2, RecordType, ReconcileClosed, NeededIsAllowed DEF MetadataInv, TypeInv, Required
<1>4. /\ f.bindings = meta.bindings
      /\ \A h \in GrantIds : f.grants[h] = IF h \in G THEN None ELSE meta.grants[h]
  BY <1>0 DEF RemoveGrants, File
<1>5. \A h \in Enabled(meta) : Undisturbed(f, h)
  BY <1>0, <1>4, RecoveryUndisturbed
<1> QED BY <1>0, <1>1, <1>3, <1>5, WriteKeepsNeeded DEF MetadataInv

LEMMA StepKeepsNeeded == MetadataInv /\ [Next]_vars => [KeepsNeededPolicy]_vars
<1> SUFFICES ASSUME MetadataInv, Next PROVE KeepsNeededPolicy
  OBVIOUS
<1>0. TypeInv
  BY DEF MetadataInv
<1>1. UNCHANGED vault => KeepsNeededPolicy
  BY DEF KeepsNeededPolicy
<1>2. ASSUME NEW p \in Procs, Approve(p) PROVE KeepsNeededPolicy
  <2>1. CASE \E b \in BindingIds \cup {None}, s \in Secrets, caps \in (SUBSET Caps) \ {{}} :
                PrepareApproval(p, b, s, caps)
    BY <1>1, <2>1 DEF PrepareApproval
  <2>2. CASE StageApproval(p) \/ CancelStagedApproval(p) \/ CommitFails(p)
    BY <1>1, <2>2 DEF StageApproval, CancelStagedApproval, CommitFails
  <2> QED BY <1>0, <1>2, <2>1, <2>2, CommitKeepsNeeded, RecoverKeepsNeeded DEF Approve
<1>3. ASSUME NEW p \in Procs, SaveBrokerFile(p) \/ Interrupt(p) PROVE KeepsNeededPolicy
  BY <1>1, <1>3 DEF SaveBrokerFile, Interrupt
<1>4. ASSUME NEW s \in Secrets, ArchiveSecret(s) \/ RemoveSecret(s)
      PROVE  KeepsNeededPolicy
  <2>1. \A t \in Present : vault'[t] # None =>
            vault'[t].policy = NormalizeBrokerPolicyProvenance(vault[t].policy)
    BY <1>0, <1>4, RecordType DEF ArchiveSecret, RemoveSecret, Present, Record, TypeInv
  <2> QED BY <2>1, NormalizationClosesNothing DEF KeepsNeededPolicy
<1>5. ASSUME NEW g \in GrantIds, CleanupStaleStaged(g) \/ Expire(g)
      PROVE  KeepsNeededPolicy
  BY <1>1, <1>5 DEF CleanupStaleStaged, Expire
<1> QED BY <1>0, <1>2, <1>3, <1>4, <1>5, AdministerKeepsNeeded,
           RecoverPendingKeepsNeeded DEF Next

(* No recovery, cancellation or lifecycle operation of one grant takes the *)
(* policy from under another grant that is on.                             *)
THEOREM NeededPolicyAlwaysKept == Spec => NeededPolicyKept
BY AlwaysMetadataInv, StepKeepsNeeded, PTL DEF Spec, NeededPolicyKept
-----------------------------------------------------------------------------
(* Refinement of GrantLifecycle.  What makes it go through is that the     *)
(* metadata a lock holder is about to save is one step of the life cycle   *)
(* away from the metadata on disk, and that nobody else can write          *)
(* broker.json in between.                                                 *)
Moved(a, G, to) == [g \in GrantIds |-> IF g \in G THEN to ELSE a[g]]

LifecycleStep(a, b) ==
    \/ b = a
    \/ \E g \in GrantIds : a[g] = "unborn" /\ b = Moved(a, {g}, "staged")
    \/ \E g \in GrantIds : a[g] = "staged" /\ b = Moved(a, {g}, "active")
    \/ \E G \in SUBSET {g \in GrantIds : a[g] = "active"} : b = Moved(a, G, "suspended")
    \/ \E G \in SUBSET {g \in GrantIds : a[g] # "unborn"} : b = Moved(a, G, "gone")

WorkInv == lock # None => LifecycleStep(StageOf(meta), StageOf(work))

LEMMA StepIsAllowed ==
    ASSUME LifecycleStep(stage, stage')
    PROVE  [Lifecycle!Next]_stage
BY DEF LifecycleStep, Moved, Lifecycle!Next, Lifecycle!Stage, Lifecycle!Activate, Lifecycle!Suspend,
       Lifecycle!Drop, Lifecycle!Move, Lifecycle!In

LEMMA DropStep ==
    ASSUME NEW f \in File, NEW h, NEW G,
           \A g \in GrantIds :
               /\ h.grants[g] = IF g \in G THEN None ELSE f.grants[g]
               /\ g \notin G => h.intents[g] = f.intents[g]
    PROVE  LifecycleStep(StageOf(f), StageOf(h))
<1> DEFINE D == {g \in G \cap GrantIds : ~(g >= nextGrant)}
<1>1. D \in SUBSET {g \in GrantIds : StageOf(f)[g] # "unborn"}
  BY DEF StageOf
<1>2. StageOf(h) = Moved(StageOf(f), D, "gone")
  BY DEF StageOf, Moved
<1> QED BY <1>1, <1>2 DEF LifecycleStep

LEMMA WithoutApprovalsStep ==
    ASSUME NEW f \in File, NEW G
    PROVE  LifecycleStep(StageOf(f), StageOf(WithoutApprovals(f, G)))
<1> DEFINE h == WithoutApprovals(f, G)
<1>1. \A g \in GrantIds : /\ h.grants[g] = IF g \in G THEN None ELSE f.grants[g]
                          /\ g \notin G => h.intents[g] = f.intents[g]
  BY DEF WithoutApprovals, RemoveIntents, RemoveGrants, File
<1> HIDE DEF h
<1>2. LifecycleStep(StageOf(f), StageOf(h))
  BY <1>1, DropStep
<1> QED BY <1>2 DEF h

LEMMA WithoutBindingStep ==
    ASSUME NEW f \in File, Consistent(f), NEW b \in BindingIds
    PROVE  LifecycleStep(StageOf(f), StageOf(WithoutBinding(f, b)))
<1> DEFINE h == WithoutBinding(f, b)
           G == GrantsOf(f, b)
<1>1. \A g \in GrantIds :
         /\ h.grants[g] = IF g \in G THEN None ELSE f.grants[g]
         /\ h.intents[g] = IF g \in IntentsOf(f, b) THEN None ELSE f.intents[g]
  BY DEF WithoutBinding, RemoveIntents, RemoveGrants, File
<1>2. IntentsOf(f, b) \subseteq G
  BY DEF IntentsOf, GrantsOf, Consistent
<1> HIDE DEF h, G
<1>3. LifecycleStep(StageOf(f), StageOf(h))
  BY <1>1, <1>2, DropStep
<1> QED BY <1>3 DEF h

LEMMA SuspendStep ==
    ASSUME NEW f \in File, Consistent(f), NEW G, NEW h,
           h.grants = Suspend(f, G).grants, h.intents = f.intents
    PROVE  LifecycleStep(StageOf(f), StageOf(h))
<1> DEFINE a == StageOf(f)
           D == {g \in G \cap GrantIds : a[g] = "active"}
<1>1. \A g \in GrantIds : h.grants[g] =
         IF g \in G /\ g \in Grants(f) THEN [f.grants[g] EXCEPT !.enabled = FALSE]
                                       ELSE f.grants[g]
  BY DEF Suspend, File
<1>2. \A g \in Grants(f) : f.grants[g] \in Grant
  BY DEF Grants, File
<1>3. \A g \in Grants(f) : /\ [f.grants[g] EXCEPT !.enabled = FALSE] # None
                           /\ ~[f.grants[g] EXCEPT !.enabled = FALSE].enabled
  BY <1>2, NoneAssumption DEF Grant
<1>4. \A g \in Enabled(f) : f.intents[g] = None
  BY DEF Consistent, Enabled, Grants, Pending
<1>5. \A g \in GrantIds : StageOf(h)[g] = IF g \in D THEN "suspended" ELSE a[g]
  BY <1>1, <1>3, <1>4 DEF StageOf, Enabled, Grants
<1>6. StageOf(h) = Moved(a, D, "suspended")
  BY <1>5 DEF StageOf, Moved
<1> QED BY <1>6 DEF LifecycleStep

LEMMA ActivateStep ==
    ASSUME NEW f \in File, Consistent(f), NEW g \in Grants(f) \cap Pending(f)
    PROVE  LifecycleStep(StageOf(f), StageOf(
               [RemoveIntents(f, {g}) EXCEPT !.grants[g].enabled = TRUE]))
<1> DEFINE h == [RemoveIntents(f, {g}) EXCEPT !.grants[g].enabled = TRUE]
           a == StageOf(f)
<1>1. g \in GrantIds /\ f.grants[g] \in Grant /\ ~f.grants[g].enabled
  BY DEF Grants, File, Pending, Consistent, Enabled
<1>2. \A i \in GrantIds :
         /\ h.grants[i] = IF i = g THEN [f.grants[i] EXCEPT !.enabled = TRUE]
                                   ELSE f.grants[i]
         /\ i # g => h.intents[i] = f.intents[i]
  BY <1>1 DEF RemoveIntents, File
<1>3. [f.grants[g] EXCEPT !.enabled = TRUE] # None
      /\ [f.grants[g] EXCEPT !.enabled = TRUE].enabled
  BY <1>1, NoneAssumption DEF Grant
<1> HIDE DEF h
<1>4. CASE g >= nextGrant
  <2>1. StageOf(h) = a
    BY <1>2, <1>4 DEF StageOf
  <2> QED BY <2>1 DEF LifecycleStep, h
<1>5. CASE ~(g >= nextGrant)
  <2>1. a[g] = "staged"
    BY <1>1, <1>5 DEF StageOf, Grants, Pending
  <2>2. StageOf(h) = Moved(a, {g}, "active")
    BY <1>1, <1>2, <1>3, <1>5 DEF StageOf, Moved
  <2> QED BY <1>1, <2>1, <2>2 DEF LifecycleStep, h
<1> QED BY <1>4, <1>5

LEMMA SameStages ==
    ASSUME UNCHANGED <<meta, nextGrant>>
    PROVE  LifecycleStep(stage, stage')
BY DEF stage, StageOf, LifecycleStep

(* An operation that takes the lock does not touch broker.json yet. *)
LEMMA HoldStep ==
    ASSUME NEW p, NEW f, NEW state, HoldWith(p, f, state),
           UNCHANGED <<meta, nextGrant>>,
           LifecycleStep(StageOf(meta), StageOf(f))
    PROVE  WorkInv' /\ LifecycleStep(stage, stage')
<1>1. work' = f
  BY DEF HoldWith
<1>2. StageOf(work)' = StageOf(f) /\ StageOf(meta)' = StageOf(meta)
  BY <1>1 DEF StageOf
<1> QED BY <1>2, SameStages DEF WorkInv, LifecycleStep, Moved

(* An operation that saves with a single write, without a vault change. *)
LEMMA DirectStep ==
    ASSUME lock = None, UNCHANGED <<lock, nextGrant>>,
           LifecycleStep(StageOf(meta), StageOf(meta'))
    PROVE  WorkInv' /\ LifecycleStep(stage, stage')
<1>1. StageOf(meta)' = StageOf(meta')
  BY DEF StageOf
<1> QED BY <1>1 DEF WorkInv, stage

LEMMA StandStill ==
    ASSUME WorkInv, UNCHANGED <<meta, nextGrant>>,
           lock' = None \/ UNCHANGED <<lock, work>>
    PROVE  WorkInv' /\ LifecycleStep(stage, stage')
<1>1. StageOf(meta)' = StageOf(meta)
  BY DEF StageOf
<1>2. UNCHANGED work => StageOf(work)' = StageOf(work)
  BY DEF StageOf
<1> QED BY <1>1, <1>2, SameStages DEF WorkInv

LifecycleInv == MetadataInv /\ WorkInv

LEMMA ApproveStep ==
    ASSUME LifecycleInv, NEW p \in Procs, Approve(p)
    PROVE  WorkInv' /\ LifecycleStep(stage, stage')
<1> USE DEF LifecycleInv
<1>0. meta \in File /\ Consistent(meta)
  BY DEF MetadataInv, MetadataConsistent, TypeInv, TypeOK
<1>1. ASSUME NEW b \in BindingIds \cup {None}, NEW s \in Secrets,
             NEW caps \in SUBSET Caps, PrepareApproval(p, b, s, caps)
      PROVE  WorkInv' /\ LifecycleStep(stage, stage')
  BY <1>1, StandStill DEF PrepareApproval
<1>2. CASE StageApproval(p)
  <2> DEFINE r == req[p]
             b == IF r.binding = None THEN nextBinding ELSE r.binding
             n == nextGrant
  <2>1. n \in GrantIds /\ n' = n + 1 /\ n \in Nat
    BY <1>2 DEF StageApproval, GrantIds
  <2>2. r \in Request /\ b \in BindingIds
    BY <1>2 DEF StageApproval, MetadataInv, TypeInv, ControlOK, Request
  <2>3. StagedIntent(r, b) \in Intent
    BY <2>2 DEF StagedIntent, Request, Intent
  <2>4. [binding |-> b, caps |-> r.caps, enabled |-> FALSE] \in Grant
    BY <2>2 DEF Grant, Request
  <2>5. \A g \in GrantIds :
           /\ meta'.grants[g] = IF g = n
                  THEN [binding |-> b, caps |-> r.caps, enabled |-> FALSE]
                  ELSE meta.grants[g]
           /\ meta'.intents[g] = IF g = n THEN StagedIntent(r, b) ELSE meta.intents[g]
    BY <1>0, <1>2, <2>1 DEF StageApproval, File
  <2> HIDE DEF r, b
  <2>6. stage[n] = "unborn"
    BY <2>1 DEF stage, StageOf
  <2>7. stage'[n] = "staged"
    <3>1. meta'.grants[n] # None /\ meta'.intents[n] # None
      BY <2>1, <2>3, <2>4, <2>5, NoneAssumption
    <3>2. ~meta'.grants[n].enabled
      BY <2>1, <2>5
    <3>3. n \in GrantIds /\ ~(n >= n')
      BY <2>1
    <3> QED BY <3>1, <3>2, <3>3 DEF stage, StageOf
  <2>8. \A g \in GrantIds \ {n} : stage'[g] = stage[g]
    BY <2>1, <2>5 DEF stage, StageOf, GrantIds
  <2>9. lock' = None
    BY <1>2 DEF StageApproval, Free
  <2>10. stage' = Moved(stage, {n}, "staged")
    BY <2>7, <2>8 DEF stage, StageOf, Moved
  <2> QED BY <2>1, <2>6, <2>9, <2>10 DEF LifecycleStep, WorkInv
<1>3. CASE CancelStagedApproval(p)
  BY <1>0, <1>3, WithoutApprovalsStep, DirectStep DEF CancelStagedApproval, Free
<1>4. CASE CommitApproval(p)
  BY <1>0, <1>4, ActivateStep, HoldStep DEF CommitApproval
<1>5. CASE CommitFails(p)
  BY <1>5, StandStill DEF CommitFails, Release
<1>6. CASE RecoverApprovalGrant(p)
  BY <1>0, <1>6, WithoutApprovalsStep, HoldStep DEF RecoverApprovalGrant
<1> QED BY <1>1, <1>2, <1>3, <1>4, <1>5, <1>6 DEF Approve

LEMMA AdministerStep ==
    ASSUME LifecycleInv, NEW p \in Procs, Administer(p)
    PROVE  WorkInv' /\ LifecycleStep(stage, stage')
<1> USE DEF LifecycleInv
<1>0. meta \in File /\ Consistent(meta)
  BY DEF MetadataInv, MetadataConsistent, TypeInv, TypeOK
<1>1. ASSUME NEW f, NEW S, MutateBrokerPolicy(p, f, S),
             LifecycleStep(StageOf(meta), StageOf(f))
      PROVE  WorkInv' /\ LifecycleStep(stage, stage')
  BY <1>1, HoldStep DEF MutateBrokerPolicy
<1>2. \A G : Suspend(meta, G).intents = meta.intents /\ Suspend(meta, G) \in File
  BY <1>0, FilesClosed DEF Suspend, File
<1>3. \A G : LifecycleStep(StageOf(meta), StageOf(Suspend(meta, G)))
  BY <1>0, <1>2, SuspendStep
<1>4. ASSUME NEW b \in BindingIds, NEW s \in Secrets, RebindBinding(p, b, s)
      PROVE  WorkInv' /\ LifecycleStep(stage, stage')
  <2> DEFINE G == GrantsOf(meta, b)
             h == [Suspend(meta, G) EXCEPT !.bindings[b] = s]
  <2>1. h.grants = Suspend(meta, G).grants /\ h.intents = meta.intents
    BY <1>2 DEF File
  <2>2. MutateBrokerPolicy(p, h, {meta.bindings[b], s})
    BY <1>4 DEF RebindBinding
  <2> HIDE DEF h, G
  <2>3. LifecycleStep(StageOf(meta), StageOf(h))
    BY <1>0, <2>1, SuspendStep
  <2> QED BY <1>1, <2>2, <2>3
<1>5. ASSUME NEW b \in BindingIds, DeleteBinding(p, b)
      PROVE  WorkInv' /\ LifecycleStep(stage, stage')
  BY <1>0, <1>1, <1>5, WithoutBindingStep DEF DeleteBinding
<1>6. ASSUME NEW s \in Secrets, NEW caps \in SUBSET Caps, AddBindingPolicy(p, s, caps)
      PROVE  WorkInv' /\ LifecycleStep(stage, stage')
  BY <1>6, StandStill DEF AddBindingPolicy
<1>7. CASE AddBinding(p)
  <2>1. meta'.grants = meta.grants /\ meta'.intents = meta.intents
    BY <1>0, <1>7 DEF AddBinding, File
  <2>2. StageOf(meta') = StageOf(meta)
    BY <2>1 DEF StageOf
  <2> QED BY <1>7, <2>2, DirectStep DEF AddBinding, Free, LifecycleStep
<1> QED BY <1>1, <1>3, <1>4, <1>5, <1>6, <1>7
        DEF Administer, RevokeGrant, ReconcileExpiredGrants

LEMMA StepLifecycle ==
    LifecycleInv /\ [Next]_vars => WorkInv' /\ LifecycleStep(stage, stage')
<1> SUFFICES ASSUME LifecycleInv, [Next]_vars
             PROVE  WorkInv' /\ LifecycleStep(stage, stage')
  OBVIOUS
<1> USE DEF LifecycleInv
<1>0. meta \in File /\ Consistent(meta)
  BY DEF MetadataInv, MetadataConsistent, TypeInv, TypeOK
<1>1. CASE UNCHANGED vars
  BY <1>1, StandStill DEF vars
<1>2. ASSUME NEW p \in Procs, RecoverPendingApprovals(p)
      PROVE  WorkInv' /\ LifecycleStep(stage, stage')
  <2> DEFINE G == Pending(meta) \ Enabled(meta)
             f == RemoveIntents(RemoveGrants(meta, G), Pending(meta))
  <2>1. f = WithoutApprovals(meta, Pending(meta))
    BY <1>0 DEF Consistent, WithoutApprovals
  <2>2. LifecycleStep(StageOf(meta), StageOf(f))
    BY <1>0, <2>1, WithoutApprovalsStep
  <2> QED BY <1>2, <2>2, HoldStep DEF RecoverPendingApprovals
<1>3. ASSUME NEW p \in Procs, SaveBrokerFile(p)
      PROVE  WorkInv' /\ LifecycleStep(stage, stage')
  <2>1. lock = p /\ lock # None
    BY <1>3, NoneAssumption DEF SaveBrokerFile, MetadataInv, TypeInv, ControlOK
  <2>2. LifecycleStep(StageOf(meta), StageOf(work))
    BY <2>1 DEF WorkInv
  <2>3. stage' = StageOf(work) /\ stage = StageOf(meta)
    BY <1>3 DEF SaveBrokerFile, stage, StageOf
  <2>4. lock' = None
    BY <1>3 DEF SaveBrokerFile, Release
  <2> QED BY <2>2, <2>3, <2>4 DEF WorkInv
<1>4. ASSUME NEW p \in Procs, Interrupt(p)
      PROVE  WorkInv' /\ LifecycleStep(stage, stage')
  BY <1>4, StandStill DEF Interrupt, Release
<1>5. ASSUME NEW cutoff \in GrantIds, CleanupStaleStaged(cutoff)
      PROVE  WorkInv' /\ LifecycleStep(stage, stage')
  BY <1>0, <1>5, WithoutApprovalsStep, DirectStep DEF CleanupStaleStaged, Free
<1>6. ASSUME NEW s \in Secrets, ArchiveSecret(s) \/ RemoveSecret(s)
      PROVE  WorkInv' /\ LifecycleStep(stage, stage')
  BY <1>6, StandStill DEF ArchiveSecret, RemoveSecret
<1>7. ASSUME NEW g \in GrantIds, Expire(g)
      PROVE  WorkInv' /\ LifecycleStep(stage, stage')
  BY <1>7, StandStill DEF Expire
<1> QED BY <1>1, <1>2, <1>3, <1>4, <1>5, <1>6, <1>7, ApproveStep, AdministerStep
        DEF Next

(* The broker's two stores and their crash recovery implement the life of  *)
(* a grant: whatever interleaves and wherever a process dies, a grant is   *)
(* switched on at most once, only while its approval is pending, and never *)
(* again once it was suspended or dropped.                                 *)
THEOREM ApprovalImplementsGrantLifecycle == Spec => ImplementsGrantLifecycle
<1>1. Init => Lifecycle!Init /\ WorkInv
  BY DEF Init, Lifecycle!Init, WorkInv, stage, StageOf, GrantIds
<1>2. LifecycleInv /\ [Next]_vars => WorkInv'
  BY StepLifecycle
<1>3. LifecycleInv /\ [Next]_vars => [Lifecycle!Next]_stage
  BY StepLifecycle, StepIsAllowed
<1>4. LifecycleInv <=> MetadataInv /\ WorkInv
  BY DEF LifecycleInv
<1> QED BY <1>1, <1>2, <1>3, <1>4, AlwaysMetadataInv, PTL
        DEF Spec, ImplementsGrantLifecycle, Lifecycle!Spec
-----------------------------------------------------------------------------
(* Why a grant's bit is there.  First what each rewriting of a policy does *)
(* to the capabilities that a grant switched on.                           *)
LEMMA GrantBits ==
    ASSUME NEW p \in Policies, NEW caps \in SUBSET Caps, NEW kept \in SUBSET Caps, NEW admin
    PROVE  /\ GrantSourced(NormalizeBrokerPolicyProvenance(p)) \subseteq GrantSourced(p)
           /\ GrantSourced(MarkBrokerAdministrative(p, caps)) = {}
           /\ GrantSourced(ApplyGrantPolicy(p, caps)) \subseteq GrantSourced(p) \cup caps
           /\ GrantSourced(Rebuilt(p, kept, caps, admin)) \subseteq caps
<1>1. GrantSourced(NormalizeBrokerPolicyProvenance(p)) \subseteq GrantSourced(p)
  BY DEF GrantSourced, NormalizeBrokerPolicyProvenance, Policies
<1>2. GrantSourced(MarkBrokerAdministrative(p, caps)) = {}
  BY DEF GrantSourced, MarkBrokerAdministrative
<1>3. GrantSourced(ApplyGrantPolicy(p, caps)) \subseteq GrantSourced(p) \cup caps
  BY DEF GrantSourced, ApplyGrantPolicy, WithGrant, Policies
<1>4. GrantSourced(Rebuilt(p, kept, caps, admin)) \subseteq caps
  BY DEF GrantSourced, Rebuilt
<1> QED BY <1>1, <1>2, <1>3, <1>4

LEMMA RecoveredBits ==
    ASSUME NEW p \in Policies, NEW base, base.allow \in SUBSET Caps, NEW need \in SUBSET Caps
    PROVE  GrantSourced(ReconcilePolicyForSecret(p, base, need)) \subseteq need
<1> DEFINE prior == IF p.revision # base.revision THEN p.admin ELSE base.allow
<1>1. prior \cup AdminSourced(p) \in SUBSET Caps
  BY AdminPartType
<1>2. \A kept \in SUBSET Caps : \A admin : GrantSourced(Rebuilt(p, kept, need, admin)) \subseteq need
  BY GrantBits
<1> QED BY <1>1, <1>2 DEF ReconcilePolicyForSecret

LEMMA ReconciledBits ==
    ASSUME NEW p \in Policies, NEW need \in SUBSET Caps
    PROVE  GrantSourced(ReconcileCurrentPolicy(p, need)) \subseteq need
<1>1. p.admin \cup AdminSourced(p) \in SUBSET Caps
  BY AdminPartType
<1>2. \A kept \in SUBSET Caps : \A admin : GrantSourced(Rebuilt(p, kept, need, admin)) \subseteq need
  BY GrantBits
<1> QED BY <1>1, <1>2 DEF ReconcileCurrentPolicy

LEMMA WrittenBits ==
    ASSUME TypeInv, NEW P, \A s \in (DOMAIN P) \cap Present : P[s] \in Policies,
           MutateVault(P)
    PROVE  /\ \A s \in Secrets : (vault'[s] = None) <=> (vault[s] = None)
           /\ \A s \in Present : GrantSourced(vault'[s].policy)
                 \subseteq GrantSourced(IF s \in DOMAIN P THEN P[s] ELSE vault[s].policy)
<1>1. /\ \A s \in Secrets : (vault'[s] = None) <=> (vault[s] = None)
      /\ \A s \in Present : vault'[s].policy = NormalizeBrokerPolicyProvenance(
              IF s \in DOMAIN P THEN P[s] ELSE vault[s].policy)
  BY VaultWrite DEF TypeInv, TypeOK
<1>2. ASSUME NEW s \in Present
      PROVE  GrantSourced(vault'[s].policy)
                 \subseteq GrantSourced(IF s \in DOMAIN P THEN P[s] ELSE vault[s].policy)
  <2> DEFINE q == IF s \in DOMAIN P THEN P[s] ELSE vault[s].policy
  <2>1. q \in Policies
    BY RecordType DEF TypeInv
  <2>2. vault'[s].policy = NormalizeBrokerPolicyProvenance(q)
    BY <1>1
  <2> HIDE DEF q
  <2>3. GrantSourced(vault'[s].policy) \subseteq GrantSourced(q)
    BY <2>1, <2>2, GrantBits
  <2> QED BY <2>3 DEF q
<1> QED BY <1>1, <1>2

(* The grants of the approvals that have been staged and not yet           *)
(* committed: their intent is on record and their vault write is to come.  *)
Waiting == {own[p] : p \in {q \in Procs : pc[q] = "staged"}}

(* No identifier is used twice, an intent carries its grant's              *)
(* capabilities, and a grant whose approval still waits is switched off.   *)
Orderly(f, nb, ng, W) ==
    /\ \A b \in BindingIds : b >= nb => f.bindings[b] = None
    /\ \A g \in GrantIds : g >= ng => f.grants[g] = None
    /\ \A g \in Pending(f) : f.intents[g].caps = f.grants[g].caps
    /\ W \cap Enabled(f) = {}

OwnersDiffer ==
    /\ \A p \in Procs : own[p] # None => own[p] < nextGrant
    /\ \A p, q \in Procs : (own[p] # None /\ own[p] = own[q]) => p = q

OrderInv ==
    /\ MetadataInv
    /\ Orderly(meta, nextBinding, nextGrant, Waiting)
    /\ Orderly(work, nextBinding, nextGrant, Waiting)
    /\ OwnersDiffer

(* h is f with bindings moved, grants switched off and things removed.     *)
Reduced(f, h) ==
    /\ \A b \in BindingIds : f.bindings[b] = None => h.bindings[b] = None
    /\ \A g \in GrantIds : f.grants[g] = None => h.grants[g] = None
    /\ \A g \in Pending(h) : /\ g \in Pending(f) /\ h.intents[g] = f.intents[g]
                             /\ h.grants[g].caps = f.grants[g].caps
    /\ Enabled(h) \subseteq Enabled(f)

LEMMA ReducedOrderly ==
    ASSUME NEW f, NEW h, Reduced(f, h), NEW nb, NEW ng, NEW W, NEW X,
           Orderly(f, nb, ng, W), X \subseteq W
    PROVE  Orderly(h, nb, ng, X)
BY DEF Reduced, Orderly

LEMMA EmptyOrderly ==
    ASSUME NEW nb, NEW ng, NEW W
    PROVE  Orderly(EmptyFile, nb, ng, W)
BY DEF Orderly, EmptyFile, Pending, Enabled, Grants

(* What each function on broker.json does to grants, intents and bindings. *)
LEMMA SuspendedFile ==
    ASSUME NEW f \in File, NEW G
    PROVE  LET h == Suspend(f, G) IN
           /\ h \in File /\ h.bindings = f.bindings /\ h.intents = f.intents
           /\ Grants(h) = Grants(f) /\ Pending(h) = Pending(f)
           /\ Enabled(h) = Enabled(f) \ G
           /\ \A g \in Grants(f) : /\ h.grants[g].binding = f.grants[g].binding
                                   /\ h.grants[g].caps = f.grants[g].caps
<1> DEFINE h == Suspend(f, G)
<1>1. h \in File
  BY FilesClosed
<1>2. \A g \in GrantIds : h.grants[g] =
         IF g \in G /\ g \in Grants(f) THEN [f.grants[g] EXCEPT !.enabled = FALSE]
                                       ELSE f.grants[g]
  BY DEF Suspend, File
<1>3. h.bindings = f.bindings /\ h.intents = f.intents
  BY DEF Suspend, File
<1>4. \A g \in Grants(f) : g \in GrantIds /\ f.grants[g] \in Grant /\ f.grants[g] # None
  BY DEF Grants, File
<1> HIDE DEF h
<1>5. \A g \in Grants(f) : /\ h.grants[g] # None
                           /\ h.grants[g].binding = f.grants[g].binding
                           /\ h.grants[g].caps = f.grants[g].caps
                           /\ h.grants[g].enabled <=> (f.grants[g].enabled /\ g \notin G)
  <2> SUFFICES ASSUME NEW g \in Grants(f)
               PROVE  /\ h.grants[g] # None
                      /\ h.grants[g].binding = f.grants[g].binding
                      /\ h.grants[g].caps = f.grants[g].caps
                      /\ h.grants[g].enabled <=> (f.grants[g].enabled /\ g \notin G)
    OBVIOUS
  <2>1. CASE g \notin G
    BY <1>2, <1>4, <2>1
  <2>2. CASE g \in G
    <3> DEFINE r == f.grants[g]
               q == [r EXCEPT !.enabled = FALSE]
    <3>1. r \in Grant /\ h.grants[g] = q
      BY <1>2, <1>4, <2>2
    <3> HIDE DEF r
    <3>2. q \in Grant /\ q.binding = r.binding /\ q.caps = r.caps /\ q.enabled = FALSE
      BY <3>1 DEF Grant
    <3> QED BY <2>2, <3>1, <3>2, NoneAssumption DEF r
  <2> QED BY <2>1, <2>2
<1>6. \A g \in GrantIds \ Grants(f) : h.grants[g] = None
  BY <1>2 DEF Grants
<1>7. Grants(h) = Grants(f)
  BY <1>4, <1>5, <1>6 DEF Grants
<1>8. Pending(h) = Pending(f)
  BY <1>3 DEF Pending
<1>9. Enabled(h) = Enabled(f) \ G
  BY <1>5, <1>7 DEF Enabled
<1> QED BY <1>1, <1>3, <1>5, <1>7, <1>8, <1>9 DEF h

LEMMA WithoutApprovalsFile ==
    ASSUME NEW f \in File, NEW G
    PROVE  LET h == WithoutApprovals(f, G) IN
           /\ h \in File /\ h.bindings = f.bindings
           /\ Grants(h) = Grants(f) \ G /\ Pending(h) = Pending(f) \ G
           /\ Enabled(h) = Enabled(f) \ G
           /\ \A g \in GrantIds \ G : h.grants[g] = f.grants[g] /\ h.intents[g] = f.intents[g]
<1> DEFINE h == WithoutApprovals(f, G)
<1>1. h \in File
  BY FilesClosed
<1>2. /\ h.bindings = f.bindings
      /\ \A g \in GrantIds : /\ h.grants[g] = IF g \in G THEN None ELSE f.grants[g]
                             /\ h.intents[g] = IF g \in G THEN None ELSE f.intents[g]
  BY DEF WithoutApprovals, RemoveIntents, RemoveGrants, File
<1> HIDE DEF h
<1>3. Grants(h) = Grants(f) \ G /\ Pending(h) = Pending(f) \ G
  BY <1>2 DEF Grants, Pending
<1>4. Enabled(h) = Enabled(f) \ G
  BY <1>2, <1>3 DEF Enabled, Grants
<1> QED BY <1>1, <1>2, <1>3, <1>4 DEF h

LEMMA WithoutBindingFile ==
    ASSUME NEW f \in File, NEW b \in BindingIds
    PROVE  LET h == WithoutBinding(f, b)
               G == GrantsOf(f, b)
               I == IntentsOf(f, b)
           IN  /\ h \in File
               /\ \A c \in BindingIds : h.bindings[c] = IF c = b THEN None ELSE f.bindings[c]
               /\ Grants(h) = Grants(f) \ G /\ Pending(h) = Pending(f) \ I
               /\ Enabled(h) = Enabled(f) \ G
               /\ \A g \in GrantIds \ G : h.grants[g] = f.grants[g]
               /\ \A g \in GrantIds \ I : h.intents[g] = f.intents[g]
<1> DEFINE h == WithoutBinding(f, b)
           G == GrantsOf(f, b)
           I == IntentsOf(f, b)
<1>1. h \in File
  BY BindingsClosed
<1>2. /\ \A c \in BindingIds : h.bindings[c] = IF c = b THEN None ELSE f.bindings[c]
      /\ \A g \in GrantIds : /\ h.grants[g] = IF g \in G THEN None ELSE f.grants[g]
                             /\ h.intents[g] = IF g \in I THEN None ELSE f.intents[g]
  BY DEF WithoutBinding, RemoveIntents, RemoveGrants, File
<1> HIDE DEF h, G, I
<1>3. Grants(h) = Grants(f) \ G /\ Pending(h) = Pending(f) \ I
  BY <1>2 DEF Grants, Pending
<1>4. Enabled(h) = Enabled(f) \ G
  BY <1>2, <1>3 DEF Enabled, Grants
<1> QED BY <1>1, <1>2, <1>3, <1>4 DEF h, G, I

LEMMA SuspendReduced ==
    ASSUME NEW f \in File, Consistent(f), NEW G
    PROVE  Reduced(f, Suspend(f, G))
<1>1. Pending(f) \subseteq Grants(f) /\ \A g \in Pending(f) : g \in GrantIds
  BY DEF Consistent, Pending
<1>2. \A h : \A g \in GrantIds : g \notin Grants(h) <=> h.grants[g] = None
  BY DEF Grants
<1> DEFINE h == Suspend(f, G)
<1>3. /\ h.bindings = f.bindings /\ h.intents = f.intents
      /\ Grants(h) = Grants(f) /\ Pending(h) = Pending(f) /\ Enabled(h) = Enabled(f) \ G
      /\ \A g \in Grants(f) : h.grants[g].caps = f.grants[g].caps
  BY SuspendedFile
<1> HIDE DEF h
<1>4. Reduced(f, h)
  BY <1>1, <1>2, <1>3 DEF Reduced
<1> QED BY <1>4 DEF h

LEMMA WithoutApprovalsReduced ==
    ASSUME NEW f \in File, Consistent(f), NEW G
    PROVE  Reduced(f, WithoutApprovals(f, G))
<1>1. Pending(f) \subseteq Grants(f) /\ \A g \in Pending(f) : g \in GrantIds
  BY DEF Consistent, Pending
<1>2. \A h : \A g \in GrantIds : g \notin Grants(h) <=> h.grants[g] = None
  BY DEF Grants
<1> DEFINE h == WithoutApprovals(f, G)
<1>3. /\ h.bindings = f.bindings
      /\ Grants(h) = Grants(f) \ G /\ Pending(h) = Pending(f) \ G /\ Enabled(h) = Enabled(f) \ G
      /\ \A g \in GrantIds \ G : h.grants[g] = f.grants[g] /\ h.intents[g] = f.intents[g]
  BY WithoutApprovalsFile
<1> HIDE DEF h
<1>4. Reduced(f, h)
  BY <1>1, <1>2, <1>3 DEF Reduced
<1> QED BY <1>4 DEF h

LEMMA WithoutBindingReduced ==
    ASSUME NEW f \in File, Consistent(f), NEW b \in BindingIds
    PROVE  Reduced(f, WithoutBinding(f, b))
<1>1. Pending(f) \subseteq Grants(f) /\ \A g \in Pending(f) : g \in GrantIds
  BY DEF Consistent, Pending
<1>2. \A h : \A g \in GrantIds : g \notin Grants(h) <=> h.grants[g] = None
  BY DEF Grants
<1> DEFINE h == WithoutBinding(f, b)
           K == GrantsOf(f, b)
           I == IntentsOf(f, b)
<1>3. /\ \A c \in BindingIds : h.bindings[c] = IF c = b THEN None ELSE f.bindings[c]
      /\ Grants(h) = Grants(f) \ K /\ Pending(h) = Pending(f) \ I /\ Enabled(h) = Enabled(f) \ K
      /\ \A g \in GrantIds \ K : h.grants[g] = f.grants[g]
      /\ \A g \in GrantIds \ I : h.intents[g] = f.intents[g]
  BY WithoutBindingFile
<1>4. Pending(f) \cap K = I
  BY <1>1 DEF GrantsOf, IntentsOf, Consistent
<1> HIDE DEF h, K, I
<1>5. Reduced(f, h)
  BY <1>1, <1>2, <1>3, <1>4 DEF Reduced
<1> QED BY <1>5 DEF h

LEMMA ReboundReduced ==
    ASSUME NEW f \in File, Consistent(f), NEW G, NEW b \in Bindings(f), NEW s
    PROVE  Reduced(f, [Suspend(f, G) EXCEPT !.bindings[b] = s])
<1> DEFINE k == Suspend(f, G)
           h == [k EXCEPT !.bindings[b] = s]
<1>1. k \in File /\ k.bindings = f.bindings
  BY SuspendedFile
<1>2. /\ h.grants = k.grants /\ h.intents = k.intents
      /\ \A c \in BindingIds : h.bindings[c] = IF c = b THEN s ELSE f.bindings[c]
  BY <1>1 DEF File
<1> HIDE DEF h, k
<1>3. Enabled(h) = Enabled(k) /\ Pending(h) = Pending(k)
  BY <1>2 DEF Enabled, Grants, Pending
<1>4. f.bindings[b] # None
  BY DEF Bindings
<1>5. Reduced(f, k)
  BY SuspendReduced DEF k
<1>6. Reduced(f, h)
  BY <1>2, <1>3, <1>4, <1>5 DEF Reduced
<1> QED BY <1>6 DEF h, k

LEMMA WaitingShrinks ==
    ASSUME TypeInv, NEW p \in Procs, NEW state, state # "staged",
           pc' = [pc EXCEPT ![p] = state], \A q \in Procs \ {p} : own'[q] = own[q]
    PROVE  /\ Waiting' \subseteq Waiting
           /\ (OwnersDiffer /\ own[p] # None) => own[p] \notin Waiting'
BY DEF TypeInv, TypeOK, Waiting, OwnersDiffer

LEMMA OwnersKept ==
    ASSUME TypeInv, OwnersDiffer, NEW p \in Procs,
           own' = own \/ own' = [own EXCEPT ![p] = None], UNCHANGED nextGrant
    PROVE  OwnersDiffer'
BY DEF TypeInv, TypeOK, OwnersDiffer

LEMMA OrderKept ==
    ASSUME OrderInv, MetadataInv', UNCHANGED <<nextBinding, nextGrant>>,
           Waiting' \subseteq Waiting, OwnersDiffer',
           meta' = meta \/ meta' = work \/ Reduced(meta, meta'),
           work' = work \/ work' = EmptyFile \/ Reduced(meta, work')
    PROVE  OrderInv'
<1>1. \A f : Reduced(f, f)
  BY DEF Reduced
<1>2. Orderly(meta', nextBinding, nextGrant, Waiting')
  BY <1>1, ReducedOrderly DEF OrderInv
<1>3. Orderly(work', nextBinding, nextGrant, Waiting')
  BY <1>1, ReducedOrderly, EmptyOrderly DEF OrderInv
<1> QED BY <1>2, <1>3 DEF OrderInv

LEMMA OrderUntouched ==
    ASSUME OrderInv, MetadataInv',
           UNCHANGED <<meta, work, pc, own, nextBinding, nextGrant>>
    PROVE  OrderInv'
BY DEF OrderInv, Waiting, OwnersDiffer

LEMMA StagedOrderly ==
    ASSUME OrderInv, NEW p \in Procs, StageApproval(p)
    PROVE  /\ Orderly(meta', nextBinding', nextGrant', Waiting')
           /\ OwnersDiffer' /\ Waiting' \subseteq Waiting \cup {nextGrant}
           /\ nextGrant \notin Waiting
           /\ meta.grants[nextGrant] = None /\ meta.intents[nextGrant] = None
           /\ \A b \in BindingIds : meta.bindings[b] # None => meta'.bindings[b] = meta.bindings[b]
           /\ \A g \in GrantIds \ {nextGrant} : /\ meta'.grants[g] = meta.grants[g]
                                                /\ meta'.intents[g] = meta.intents[g]
<1> DEFINE r == req[p]
           b == IF r.binding = None THEN nextBinding ELSE r.binding
           n == nextGrant
           grant == [binding |-> b, caps |-> r.caps, enabled |-> FALSE]
           intent == StagedIntent(r, b)
<1>0. TypeInv /\ meta \in File /\ Consistent(meta) /\ OwnersDiffer
  BY DEF OrderInv, MetadataInv, MetadataConsistent, TypeInv, TypeOK
<1>1. n \in GrantIds /\ n \in Nat /\ n' = n + 1
  BY DEF StageApproval, GrantIds
<1>2. r \in Request /\ b \in BindingIds
  BY <1>0 DEF StageApproval, TypeInv, ControlOK, Request
<1>3. /\ meta.grants[n] = None
      /\ \A i \in BindingIds : i >= nextBinding => meta.bindings[i] = None
      /\ \A g \in GrantIds : g >= n => meta.grants[g] = None
      /\ \A g \in Pending(meta) : meta.intents[g].caps = meta.grants[g].caps
      /\ Waiting \cap Enabled(meta) = {}
  BY <1>1 DEF OrderInv, Orderly
<1>4. meta.intents[n] = None
  BY <1>0, <1>1, <1>3 DEF Consistent, Pending, Grants
<1>5. /\ \A i \in BindingIds : meta'.bindings[i] = IF i = b THEN r.secret ELSE meta.bindings[i]
      /\ \A g \in GrantIds : meta'.grants[g] = IF g = n THEN grant ELSE meta.grants[g]
      /\ \A g \in GrantIds : meta'.intents[g] = IF g = n THEN intent ELSE meta.intents[g]
  BY <1>0, <1>1, <1>2 DEF StageApproval, File
<1>6. \/ b = nextBinding /\ nextBinding' = nextBinding + 1
      \/ meta.bindings[b] = r.secret /\ nextBinding' = nextBinding
  BY DEF StageApproval
<1>7. nextBinding \in Nat /\ \A i \in BindingIds : i \in Nat
  BY <1>0, BoundsAssumption DEF BindingIds, TypeInv, TypeOK
<1>8. grant.caps = r.caps /\ ~grant.enabled /\ intent.caps = r.caps /\ grant # None
      /\ r.secret # None
  <2>1. grant \in Grant /\ r.secret \in Secrets
    BY <1>2 DEF Request, Grant
  <2> QED BY <2>1, NoneAssumption DEF StagedIntent
<1>9. \A g \in GrantIds : g \in Nat
  BY DEF GrantIds
<1>10. Waiting' \subseteq Waiting \cup {n}
  BY <1>0 DEF StageApproval, Waiting, TypeInv, TypeOK
<1>11. \A q \in Procs : own'[q] = IF q = p THEN n ELSE own[q]
  BY <1>0 DEF StageApproval, TypeInv, TypeOK
<1>12. \A q \in Procs : own[q] # None => own[q] \in Nat /\ own[q] < n
  BY <1>0, <1>9 DEF TypeInv, TypeOK, OwnersDiffer
<1>13. n \notin Waiting
  <2>1. \A q \in Procs : pc[q] = "staged" => own[q] # None
    BY <1>0, NoneAssumption DEF TypeInv, ControlOK
  <2> QED BY <1>1, <1>12, <2>1 DEF Waiting
<1>14. OwnersDiffer'
  BY <1>0, <1>1, <1>11, <1>12 DEF OwnersDiffer
<1> HIDE DEF r, b, grant, intent, n
<1>15. \A i \in BindingIds : meta.bindings[i] # None => meta'.bindings[i] = meta.bindings[i]
  BY <1>2, <1>3, <1>5, <1>6, <1>7
<1>16. \A i \in BindingIds : i >= nextBinding' => meta'.bindings[i] = None
  BY <1>2, <1>3, <1>5, <1>6, <1>7, <1>8
<1>17. \A g \in GrantIds : g >= n + 1 => meta'.grants[g] = None
  BY <1>1, <1>3, <1>5, <1>9
<1>18. \A g \in Pending(meta') : meta'.intents[g].caps = meta'.grants[g].caps
  BY <1>1, <1>3, <1>5, <1>8 DEF Pending
<1>19. Waiting' \cap Enabled(meta') = {}
  BY <1>1, <1>3, <1>5, <1>8, <1>10 DEF Enabled, Grants
<1>20. Orderly(meta', nextBinding', nextGrant', Waiting')
  BY <1>1, <1>16, <1>17, <1>18, <1>19 DEF Orderly, n
<1> QED BY <1>1, <1>3, <1>4, <1>5, <1>10, <1>13, <1>14, <1>15, <1>20 DEF n

LEMMA CommittedOrderly ==
    ASSUME OrderInv, NEW p \in Procs, CommitApproval(p)
    PROVE  LET g == own[p] IN
           /\ g \in Grants(meta) \cap Pending(meta)
           /\ Orderly(work', nextBinding, nextGrant, Waiting')
           /\ Waiting' \subseteq Waiting \ {g}
           /\ work'.bindings = meta.bindings
           /\ Enabled(work') = Enabled(meta) \cup {g}
           /\ Pending(work') = Pending(meta) \ {g}
           /\ \A i \in GrantIds \ {g} : work'.intents[i] = meta.intents[i]
           /\ \A i \in Grants(meta) : /\ work'.grants[i].caps = meta.grants[i].caps
                                      /\ work'.grants[i].binding = meta.grants[i].binding
<1> DEFINE g == own[p]
           h == work'
           r == meta.grants[g]
           q == [r EXCEPT !.enabled = TRUE]
<1>0. TypeInv /\ meta \in File /\ Consistent(meta) /\ OwnersDiffer
  BY DEF OrderInv, MetadataInv, MetadataConsistent, TypeInv, TypeOK
<1>1. g \in GrantIds /\ r \in Grant /\ g # None /\ g \in Grants(meta) /\ g \in Pending(meta)
  BY <1>0, NoneAssumption DEF CommitApproval, TypeInv, ControlOK, Grants, File
<1>2. h = [RemoveIntents(meta, {g}) EXCEPT !.grants[g].enabled = TRUE]
  BY DEF CommitApproval, HoldWith
<1>3. /\ h.bindings = meta.bindings
      /\ \A i \in GrantIds :
            /\ h.grants[i] = IF i = g THEN q ELSE meta.grants[i]
            /\ h.intents[i] = IF i = g THEN None ELSE meta.intents[i]
  BY <1>0, <1>1, <1>2 DEF RemoveIntents, File
<1>4. Waiting' \subseteq Waiting /\ g \notin Waiting'
  BY <1>0, <1>1, WaitingShrinks DEF CommitApproval, HoldWith
<1> HIDE DEF r, h, g
<1>5. q \in Grant /\ q.enabled = TRUE /\ q.caps = r.caps /\ q.binding = r.binding /\ q # None
  BY <1>1, NoneAssumption DEF Grant
<1> HIDE DEF q
<1>6. Grants(h) = Grants(meta) /\ Pending(h) = Pending(meta) \ {g}
  BY <1>1, <1>3, <1>5 DEF Grants, Pending
<1>7. Enabled(h) = Enabled(meta) \cup {g}
  BY <1>1, <1>3, <1>5, <1>6 DEF Enabled, Grants
<1>8. \A i \in Grants(meta) : /\ h.grants[i].caps = meta.grants[i].caps
                              /\ h.grants[i].binding = meta.grants[i].binding
  BY <1>3, <1>5 DEF Grants, r
<1>9. Orderly(meta, nextBinding, nextGrant, Waiting)
  BY DEF OrderInv
<1>10. \A i \in GrantIds : i >= nextGrant => h.grants[i] = None
  BY <1>1, <1>3, <1>9 DEF Orderly, Grants
<1>11. \A i \in Pending(h) : h.intents[i].caps = h.grants[i].caps
  BY <1>0, <1>3, <1>6, <1>8, <1>9 DEF Orderly, Pending, Consistent
<1>12. Orderly(h, nextBinding, nextGrant, Waiting')
  BY <1>3, <1>4, <1>7, <1>9, <1>10, <1>11 DEF Orderly
<1> QED BY <1>1, <1>3, <1>4, <1>6, <1>7, <1>8, <1>12 DEF h, g

(* An operation that takes the lock with a reduced broker.json in hand. *)
LEMMA HoldOrder ==
    ASSUME OrderInv, MetadataInv', NEW p \in Procs, NEW f, Reduced(meta, f),
           HoldWith(p, f, "saving"), own' = own \/ own' = [own EXCEPT ![p] = None],
           UNCHANGED <<meta, nextBinding, nextGrant>>
    PROVE  OrderInv'
<1>0. TypeInv /\ OwnersDiffer
  BY DEF OrderInv, MetadataInv
<1>1. pc' = [pc EXCEPT ![p] = "saving"] /\ work' = f
  BY DEF HoldWith
<1>2. \A q \in Procs \ {p} : own'[q] = own[q]
  BY <1>0 DEF TypeInv, TypeOK
<1>3. Waiting' \subseteq Waiting
  BY <1>0, <1>1, <1>2, WaitingShrinks
<1>4. OwnersDiffer'
  BY <1>0, OwnersKept
<1> QED BY <1>1, <1>3, <1>4, OrderKept

LEMMA RecoveredReduced ==
    ASSUME meta \in File, Consistent(meta)
    PROVE  /\ Pending(meta) \ Enabled(meta) = Pending(meta)
           /\ RemoveIntents(RemoveGrants(meta, Pending(meta) \ Enabled(meta)), Pending(meta))
                 = WithoutApprovals(meta, Pending(meta))
BY DEF Consistent, WithoutApprovals

LEMMA ApproveOrder ==
    ASSUME OrderInv, MetadataInv', NEW p \in Procs, Approve(p)
    PROVE  OrderInv'
<1>0. TypeInv /\ meta \in File /\ Consistent(meta) /\ OwnersDiffer
  BY DEF OrderInv, MetadataInv, MetadataConsistent, TypeInv, TypeOK
<1>1. \A G : Reduced(meta, WithoutApprovals(meta, G))
  BY <1>0, WithoutApprovalsReduced
<1>2. ASSUME NEW b \in BindingIds \cup {None}, NEW s \in Secrets,
             NEW caps \in SUBSET Caps, PrepareApproval(p, b, s, caps)
      PROVE  OrderInv'
  <2>1. pc' = [pc EXCEPT ![p] = "prepared"] /\ own' = own
        /\ UNCHANGED <<meta, work, nextBinding, nextGrant>>
    BY <1>2 DEF PrepareApproval
  <2>2. Waiting' \subseteq Waiting /\ OwnersDiffer'
    BY <1>0, <2>1, WaitingShrinks, OwnersKept
  <2> QED BY <2>1, <2>2, OrderKept
<1>3. CASE StageApproval(p)
  <2>1. Orderly(meta', nextBinding', nextGrant', Waiting') /\ OwnersDiffer'
        /\ Waiting' \subseteq Waiting \cup {nextGrant}
    BY <1>3, StagedOrderly
  <2>2. work' = work /\ nextGrant \in GrantIds /\ nextGrant' = nextGrant + 1
        /\ (nextBinding' = nextBinding \/ nextBinding' = nextBinding + 1)
    BY <1>3 DEF StageApproval
  <2>3. Orderly(work, nextBinding, nextGrant, Waiting)
    BY DEF OrderInv
  <2>4. /\ nextBinding \in Nat /\ \A b \in BindingIds : b \in Nat
        /\ nextGrant \in Nat /\ \A g \in GrantIds : g \in Nat
    BY <1>0, BoundsAssumption DEF TypeInv, TypeOK, BindingIds, GrantIds
  <2>5. work.grants[nextGrant] = None
    BY <2>2, <2>3, <2>4 DEF Orderly
  <2>6. Waiting' \cap Enabled(work) = {}
    BY <2>1, <2>3, <2>5 DEF Orderly, Enabled, Grants
  <2>7. /\ \A b \in BindingIds : b >= nextBinding' => b >= nextBinding
        /\ \A g \in GrantIds : g >= nextGrant' => g >= nextGrant
    BY <2>2, <2>4
  <2>8. Orderly(work', nextBinding', nextGrant', Waiting')
    BY <2>2, <2>3, <2>6, <2>7 DEF Orderly
  <2> QED BY <2>1, <2>8 DEF OrderInv
<1>4. CASE CancelStagedApproval(p)
  <2>1. pc' = [pc EXCEPT ![p] = "idle"] /\ own' = [own EXCEPT ![p] = None]
        /\ UNCHANGED <<work, nextBinding, nextGrant>>
        /\ meta' = WithoutApprovals(meta, {own[p]})
    BY <1>4 DEF CancelStagedApproval
  <2>2. \A q \in Procs \ {p} : own'[q] = own[q]
    BY <1>0, <2>1 DEF TypeInv, TypeOK
  <2>3. Waiting' \subseteq Waiting /\ OwnersDiffer'
    BY <1>0, <2>1, <2>2, WaitingShrinks, OwnersKept
  <2> QED BY <1>1, <2>1, <2>3, OrderKept
<1>5. CASE CommitApproval(p)
  <2>1. UNCHANGED <<meta, own, nextBinding, nextGrant>> /\ pc' = [pc EXCEPT ![p] = "activating"]
    BY <1>5 DEF CommitApproval, HoldWith
  <2>2. Orderly(work', nextBinding, nextGrant, Waiting') /\ Waiting' \subseteq Waiting
    BY <1>5, CommittedOrderly
  <2>3. OwnersDiffer' /\ Reduced(meta, meta)
    BY <1>0, <2>1, OwnersKept DEF Reduced
  <2>4. Orderly(meta', nextBinding, nextGrant, Waiting')
    BY <2>1, <2>2, <2>3, ReducedOrderly DEF OrderInv
  <2> QED BY <2>1, <2>2, <2>3, <2>4 DEF OrderInv
<1>6. CASE CommitFails(p)
  <2>1. pc' = [pc EXCEPT ![p] = "undoing"] /\ own' = own
        /\ UNCHANGED <<meta, nextBinding, nextGrant>> /\ (work' = work \/ work' = EmptyFile)
    BY <1>6 DEF CommitFails, Release
  <2>2. Waiting' \subseteq Waiting /\ OwnersDiffer'
    BY <1>0, <2>1, WaitingShrinks, OwnersKept
  <2> QED BY <2>1, <2>2, OrderKept
<1>7. CASE RecoverApprovalGrant(p)
  BY <1>1, <1>7, HoldOrder DEF RecoverApprovalGrant
<1> QED BY <1>2, <1>3, <1>4, <1>5, <1>6, <1>7 DEF Approve

LEMMA AdministerOrder ==
    ASSUME OrderInv, MetadataInv', NEW p \in Procs, Administer(p)
    PROVE  OrderInv'
<1>0. TypeInv /\ meta \in File /\ Consistent(meta) /\ OwnersDiffer
  BY DEF OrderInv, MetadataInv, MetadataConsistent, TypeInv, TypeOK
<1>1. ASSUME NEW f, NEW S, MutateBrokerPolicy(p, f, S), Reduced(meta, f)
      PROVE  OrderInv'
  BY <1>1, HoldOrder DEF MutateBrokerPolicy
<1>2. ASSUME NEW g \in GrantIds, RevokeGrant(p, g) PROVE OrderInv'
  BY <1>0, <1>1, <1>2, SuspendReduced DEF RevokeGrant
<1>3. CASE ReconcileExpiredGrants(p)
  BY <1>0, <1>1, <1>3, SuspendReduced DEF ReconcileExpiredGrants
<1>4. ASSUME NEW b \in BindingIds, NEW s \in Secrets, RebindBinding(p, b, s)
      PROVE  OrderInv'
  <2> DEFINE f == [Suspend(meta, GrantsOf(meta, b)) EXCEPT !.bindings[b] = s]
  <2>1. b \in Bindings(meta) /\ MutateBrokerPolicy(p, f, {meta.bindings[b], s})
    BY <1>4 DEF RebindBinding
  <2>2. Reduced(meta, f)
    BY <1>0, <2>1, ReboundReduced
  <2> HIDE DEF f
  <2> QED BY <1>1, <2>1, <2>2
<1>5. ASSUME NEW b \in BindingIds, DeleteBinding(p, b) PROVE OrderInv'
  BY <1>0, <1>1, <1>5, WithoutBindingReduced DEF DeleteBinding
<1>6. ASSUME NEW s \in Secrets, NEW caps \in SUBSET Caps, AddBindingPolicy(p, s, caps)
      PROVE  OrderInv'
  <2>1. pc' = [pc EXCEPT ![p] = "adding"] /\ own' = own
        /\ UNCHANGED <<meta, work, nextBinding, nextGrant>>
    BY <1>6 DEF AddBindingPolicy
  <2>2. Waiting' \subseteq Waiting /\ OwnersDiffer'
    BY <1>0, <2>1, WaitingShrinks, OwnersKept
  <2> QED BY <2>1, <2>2, OrderKept
<1>7. CASE AddBinding(p)
  <2>1. pc' = [pc EXCEPT ![p] = "idle"] /\ own' = own /\ UNCHANGED <<work, nextGrant>>
        /\ nextBinding' = nextBinding + 1 /\ nextBinding \in BindingIds
    BY <1>7 DEF AddBinding
  <2>2. Waiting' \subseteq Waiting /\ OwnersDiffer'
    BY <1>0, <2>1, WaitingShrinks, OwnersKept
  <2>3. /\ meta'.grants = meta.grants /\ meta'.intents = meta.intents
        /\ \A b \in BindingIds \ {nextBinding} : meta'.bindings[b] = meta.bindings[b]
    BY <1>0, <1>7 DEF AddBinding, File
  <2>4. Enabled(meta') = Enabled(meta) /\ Pending(meta') = Pending(meta)
    BY <2>3 DEF Enabled, Grants, Pending
  <2>5. \A b \in BindingIds : b \in Nat
    BY DEF BindingIds
  <2>6. Orderly(meta, nextBinding, nextGrant, Waiting) /\ Orderly(work, nextBinding, nextGrant, Waiting)
    BY DEF OrderInv
  <2>7. \A b \in BindingIds : b >= nextBinding + 1 => b >= nextBinding /\ b # nextBinding
    BY <2>1, <2>5
  <2>8. Orderly(meta', nextBinding', nextGrant', Waiting')
    BY <2>1, <2>2, <2>3, <2>4, <2>6, <2>7 DEF Orderly
  <2>9. Orderly(work', nextBinding', nextGrant', Waiting')
    BY <2>1, <2>2, <2>6, <2>7 DEF Orderly
  <2> QED BY <2>2, <2>8, <2>9 DEF OrderInv
<1> QED BY <1>2, <1>3, <1>4, <1>5, <1>6, <1>7 DEF Administer

LEMMA StepOrder == OrderInv /\ [Next]_vars => OrderInv'
<1> SUFFICES ASSUME OrderInv, [Next]_vars PROVE OrderInv'
  OBVIOUS
<1>0. TypeInv /\ meta \in File /\ Consistent(meta) /\ OwnersDiffer
  BY DEF OrderInv, MetadataInv, MetadataConsistent, TypeInv, TypeOK
<1>1. MetadataInv'
  BY StepTypeInv, StepConsistent DEF OrderInv, MetadataInv
<1>2. \A G : Reduced(meta, WithoutApprovals(meta, G))
  BY <1>0, WithoutApprovalsReduced
<1>3. CASE UNCHANGED vars
  BY <1>1, <1>3, OrderUntouched DEF vars
<1>4. ASSUME NEW p \in Procs, RecoverPendingApprovals(p) PROVE OrderInv'
  <2>1. HoldWith(p, WithoutApprovals(meta, Pending(meta)), "saving")
        /\ own' = own /\ UNCHANGED <<meta, nextBinding, nextGrant>>
    BY <1>0, <1>4, RecoveredReduced DEF RecoverPendingApprovals
  <2> QED BY <1>1, <1>2, <2>1, HoldOrder
<1>5. ASSUME NEW p \in Procs, SaveBrokerFile(p) \/ Interrupt(p) PROVE OrderInv'
  <2>1. pc' = [pc EXCEPT ![p] = "idle"] /\ own' = [own EXCEPT ![p] = None]
        /\ UNCHANGED <<nextBinding, nextGrant>> /\ (meta' = meta \/ meta' = work)
        /\ (work' = work \/ work' = EmptyFile)
    BY <1>5 DEF SaveBrokerFile, Interrupt, Release
  <2>2. \A q \in Procs \ {p} : own'[q] = own[q]
    BY <1>0, <2>1 DEF TypeInv, TypeOK
  <2>3. Waiting' \subseteq Waiting /\ OwnersDiffer'
    BY <1>0, <2>1, <2>2, WaitingShrinks, OwnersKept
  <2> QED BY <1>1, <2>1, <2>3, OrderKept
<1>6. ASSUME NEW cutoff \in GrantIds, CleanupStaleStaged(cutoff) PROVE OrderInv'
  <2>1. Reduced(meta, meta') /\ UNCHANGED <<work, pc, own, nextBinding, nextGrant>>
    BY <1>2, <1>6 DEF CleanupStaleStaged
  <2>2. Waiting' = Waiting /\ OwnersDiffer'
    BY <1>0, <2>1 DEF Waiting, OwnersDiffer
  <2> QED BY <1>1, <2>1, <2>2, OrderKept
<1>7. ASSUME NEW s \in Secrets, ArchiveSecret(s) \/ RemoveSecret(s) PROVE OrderInv'
  BY <1>1, <1>7, OrderUntouched DEF ArchiveSecret, RemoveSecret
<1>8. ASSUME NEW g \in GrantIds, Expire(g) PROVE OrderInv'
  BY <1>1, <1>8, OrderUntouched DEF Expire
<1> QED BY <1>1, <1>3, <1>4, <1>5, <1>6, <1>7, <1>8, ApproveOrder, AdministerOrder
        DEF Next

(* The approvals of a record that recovery, or the process that runs them, *)
(* will still settle.  One that waits does not count: it may be cancelled  *)
(* without a look at the vault, having written nothing there.              *)
Resumable(f, W, s, c) ==
    {g \in IntentsFor(f, s) \ W : /\ c \in f.intents[g].caps
                                  /\ f.bindings[f.intents[g].binding] = s}
Explained(f, W, s, c) == Needing(f, s, c) # {} \/ Resumable(f, W, s, c) # {}

AllExplained(f, v, sw, W) ==
    \A s \in Secrets \ sw : v[s] # None =>
        \A c \in GrantSourced(v[s].policy) : Explained(f, W, s, c)

(* Both by what is saved and by what the holder of the lock will save.     *)
ExplainedInv ==
    /\ AllExplained(meta, vault, swept, Waiting)
    /\ lock # None => AllExplained(work, vault, swept, Waiting)

JustInv == OrderInv /\ ExplainedInv

(* h explains of record s whatever f does. *)
Keeps(f, h, W, s) ==
    /\ \A g \in Enabled(f) : f.bindings[f.grants[g].binding] = s =>
          /\ g \in Enabled(h)
          /\ h.grants[g].caps = f.grants[g].caps
          /\ h.bindings[h.grants[g].binding] = s
    /\ \A g \in IntentsFor(f, s) \ W : f.bindings[f.intents[g].binding] = s =>
          /\ g \in Pending(h) /\ h.intents[g] = f.intents[g]
          /\ h.bindings[f.intents[g].binding] = s

LEMMA KeepsExplained ==
    ASSUME NEW f, NEW h, NEW W, NEW X, X \subseteq W, NEW s, NEW c,
           Keeps(f, h, W, s), Explained(f, W, s, c)
    PROVE  Explained(h, X, s, c)
<1>1. CASE Needing(f, s, c) # {}
  BY <1>1 DEF Keeps, Explained, Needing
<1>2. CASE Resumable(f, W, s, c) # {}
  BY <1>2 DEF Keeps, Explained, Resumable, IntentsFor
<1> QED BY <1>1, <1>2 DEF Explained

LEMMA KeepsSame ==
    ASSUME NEW f, NEW W, NEW s
    PROVE  Keeps(f, f, W, s)
BY DEF Keeps, IntentsFor

(* A step that gives no record a new grant's bit. *)
LEMMA NothingNew ==
    ASSUME NEW f, NEW h, NEW v, NEW w, NEW sw, NEW tw, NEW W, NEW X,
           AllExplained(f, v, sw, W), sw \subseteq tw, X \subseteq W,
           \A s \in Secrets \ tw : w[s] # None =>
               /\ v[s] # None
               /\ GrantSourced(w[s].policy) \subseteq GrantSourced(v[s].policy)
               /\ Keeps(f, h, W, s)
    PROVE  AllExplained(h, w, tw, X)
BY KeepsExplained DEF AllExplained

(* An operation that reconciles the records it affects against f, and      *)
(* keeps h to save.                                                        *)
LEMMA WriteExplained ==
    ASSUME JustInv, NEW p, NEW f, NEW h, NEW P, MutateVault(P),
           HoldWith(p, h, "saving"), UNCHANGED meta,
           Waiting' \subseteq Waiting, swept \subseteq swept',
           \A s \in (DOMAIN P) \cap Present :
               P[s] \in Policies /\ GrantSourced(P[s]) \subseteq Required(f, s),
           \A s, c : Needing(f, s, c) \subseteq Needing(meta, s, c) \cap Needing(h, s, c),
           \A s \in Present \ DOMAIN P : Keeps(meta, h, Waiting, s)
    PROVE  ExplainedInv'
<1>0. TypeInv /\ work' = h /\ meta' = meta
  BY DEF JustInv, OrderInv, MetadataInv, HoldWith
<1>1. /\ \A s \in Secrets : (vault'[s] = None) <=> (vault[s] = None)
      /\ \A s \in Present : GrantSourced(vault'[s].policy)
             \subseteq GrantSourced(IF s \in DOMAIN P THEN P[s] ELSE vault[s].policy)
  BY <1>0, WrittenBits
<1> SUFFICES ASSUME NEW s \in Secrets \ swept', vault'[s] # None,
                    NEW c \in GrantSourced(vault'[s].policy)
             PROVE  Explained(meta, Waiting', s, c) /\ Explained(h, Waiting', s, c)
  BY <1>0 DEF ExplainedInv, AllExplained
<1>2. s \in Present
  BY <1>1 DEF Present
<1>3. CASE s \in DOMAIN P
  <2>1. c \in Required(f, s)
    BY <1>1, <1>2, <1>3
  <2>2. Needing(f, s, c) # {}
    BY <2>1 DEF Required
  <2> QED BY <2>2 DEF Explained
<1>4. CASE s \notin DOMAIN P
  <2>1. c \in GrantSourced(vault[s].policy)
    BY <1>1, <1>2, <1>4
  <2>2. Explained(meta, Waiting, s, c)
    BY <1>2, <2>1 DEF JustInv, ExplainedInv, AllExplained, Present
  <2> QED BY <1>2, <1>4, <2>2, KeepsSame, KeepsExplained
<1> QED BY <1>3, <1>4

LEMMA MutateExplained ==
    ASSUME JustInv, NEW p \in Procs, NEW f \in File, NEW S, MutateBrokerPolicy(p, f, S),
           swept \subseteq swept',
           \A g \in Enabled(f) : g \in Enabled(meta) /\ Undisturbed(f, g),
           \A t \in Secrets \ S : Keeps(meta, f, Waiting, t)
    PROVE  ExplainedInv'
<1> DEFINE P == [t \in S \cap Present |->
                    ReconcileCurrentPolicy(vault[t].policy, Required(f, t))]
<1>0. TypeInv
  BY DEF JustInv, OrderInv, MetadataInv
<1>1. MutateVault(P) /\ HoldWith(p, f, "saving") /\ own' = own /\ UNCHANGED meta
      /\ pc' = [pc EXCEPT ![p] = "saving"]
  BY DEF MutateBrokerPolicy, HoldWith
<1>2. \A t \in S \cap Present :
         P[t] \in Policies /\ GrantSourced(P[t]) \subseteq Required(f, t)
  <2> SUFFICES ASSUME NEW t \in S \cap Present
               PROVE  P[t] \in Policies /\ GrantSourced(P[t]) \subseteq Required(f, t)
    OBVIOUS
  <2>1. vault[t].policy \in Policies /\ Required(f, t) \in SUBSET Caps
    BY <1>0, RecordType DEF TypeInv, Required
  <2> QED BY <2>1, CurrentClosed, ReconciledBits
<1>3. Waiting' \subseteq Waiting
  BY <1>0, <1>1, WaitingShrinks
<1>4. \A s, c : Needing(f, s, c) \subseteq Needing(meta, s, c) \cap Needing(f, s, c)
  BY DEF Needing, Undisturbed
<1>5. \A s \in Present \ DOMAIN P : Keeps(meta, f, Waiting, s)
  BY DEF Present
<1> QED BY <1>1, <1>2, <1>3, <1>4, <1>5, WriteExplained

LEMMA AdministerExplained ==
    ASSUME JustInv, NEW p \in Procs, Administer(p), swept \subseteq swept'
    PROVE  ExplainedInv'
<1>0. TypeInv /\ meta \in File /\ Consistent(meta)
  BY DEF JustInv, OrderInv, MetadataInv, MetadataConsistent, TypeInv, TypeOK
<1>1. \A g \in Enabled(meta) : g \in Grants(meta) /\ meta.grants[g].binding \in BindingIds
  BY <1>0 DEF Enabled, Grants, File, Grant
<1>2. \A g \in Pending(meta) : meta.intents[g].binding \in BindingIds
  BY <1>0 DEF Pending, File, Intent
<1>3. ASSUME NEW G, NEW S, MutateBrokerPolicy(p, Suspend(meta, G), S),
             \A g \in G \cap Enabled(meta) : meta.bindings[meta.grants[g].binding] \in S
      PROVE  ExplainedInv'
  <2> DEFINE f == Suspend(meta, G)
  <2>1. /\ f \in File /\ f.bindings = meta.bindings /\ f.intents = meta.intents
        /\ Pending(f) = Pending(meta) /\ Enabled(f) = Enabled(meta) \ G
        /\ \A g \in Grants(meta) : /\ f.grants[g].binding = meta.grants[g].binding
                                   /\ f.grants[g].caps = meta.grants[g].caps
    BY <1>0, SuspendedFile
  <2>2. \A g \in Enabled(f) : f.grants[g] = meta.grants[g]
    BY <1>0, <2>1 DEF Suspend, File, Enabled, Grants
  <2>3. MutateBrokerPolicy(p, f, S)
    BY <1>3
  <2> HIDE DEF f
  <2>4. \A g \in Enabled(f) : g \in Enabled(meta) /\ Undisturbed(f, g)
    BY <2>1, <2>2 DEF Undisturbed
  <2>5. \A t \in Secrets \ S : Keeps(meta, f, Waiting, t)
    BY <1>1, <1>3, <2>1 DEF Keeps, IntentsFor
  <2> QED BY <2>1, <2>3, <2>4, <2>5, MutateExplained
<1>4. ASSUME NEW g \in GrantIds, RevokeGrant(p, g) PROVE ExplainedInv'
  BY <1>3, <1>4 DEF RevokeGrant
<1>5. CASE ReconcileExpiredGrants(p)
  BY <1>3, <1>5 DEF ReconcileExpiredGrants
<1>6. ASSUME NEW b \in BindingIds, NEW s \in Secrets, RebindBinding(p, b, s)
      PROVE  ExplainedInv'
  <2> DEFINE G == GrantsOf(meta, b)
             h == Suspend(meta, G)
             f == [h EXCEPT !.bindings[b] = s]
             S == {meta.bindings[b], s}
  <2>1. /\ h \in File /\ h.bindings = meta.bindings /\ h.intents = meta.intents
        /\ Pending(h) = Pending(meta) /\ Enabled(h) = Enabled(meta) \ G
        /\ \A g \in Grants(meta) : /\ h.grants[g].binding = meta.grants[g].binding
                                   /\ h.grants[g].caps = meta.grants[g].caps
    BY <1>0, SuspendedFile
  <2>2. \A g \in Enabled(h) : h.grants[g] = meta.grants[g]
    BY <1>0, <2>1 DEF Suspend, File, Enabled, Grants
  <2>3. f \in File
    BY <2>1, BindingsClosed
  <2>4. /\ f.grants = h.grants /\ f.intents = h.intents
        /\ \A c \in BindingIds : f.bindings[c] = IF c = b THEN s ELSE meta.bindings[c]
    BY <2>1 DEF File
  <2>5. MutateBrokerPolicy(p, f, S)
    BY <1>6 DEF RebindBinding
  <2>6. \A g \in Enabled(meta) \ G : meta.grants[g].binding # b
    BY <1>1 DEF GrantsOf
  <2>7. \A g \in Enabled(meta) \cap G : meta.grants[g].binding = b
    BY DEF GrantsOf
  <2> HIDE DEF f, h, G
  <2>8. Enabled(f) = Enabled(h) /\ Pending(f) = Pending(h)
    BY <2>4 DEF Enabled, Grants, Pending
  <2>9. \A g \in Enabled(f) : g \in Enabled(meta) /\ Undisturbed(f, g)
    BY <1>1, <2>1, <2>2, <2>4, <2>6, <2>8 DEF Undisturbed
  <2>10. \A t \in Secrets \ S : Keeps(meta, f, Waiting, t)
    BY <1>1, <1>2, <2>1, <2>4, <2>7, <2>8 DEF Keeps, IntentsFor
  <2> QED BY <2>3, <2>5, <2>9, <2>10, MutateExplained
<1>7. ASSUME NEW b \in BindingIds, DeleteBinding(p, b) PROVE ExplainedInv'
  <2> DEFINE f == WithoutBinding(meta, b)
             G == GrantsOf(meta, b)
             I == IntentsOf(meta, b)
             S == {meta.bindings[b]}
  <2>1. /\ f \in File
        /\ \A c \in BindingIds : f.bindings[c] = IF c = b THEN None ELSE meta.bindings[c]
        /\ Pending(f) = Pending(meta) \ I /\ Enabled(f) = Enabled(meta) \ G
        /\ \A g \in GrantIds \ G : f.grants[g] = meta.grants[g]
        /\ \A g \in GrantIds \ I : f.intents[g] = meta.intents[g]
    BY <1>0, WithoutBindingFile
  <2>2. MutateBrokerPolicy(p, f, S)
    BY <1>7 DEF DeleteBinding
  <2>3. /\ \A g \in Enabled(meta) : g \in G <=> meta.grants[g].binding = b
        /\ \A g \in Pending(meta) : g \in I <=> meta.intents[g].binding = b
    BY <1>1 DEF GrantsOf, IntentsOf
  <2>4. Enabled(meta) \subseteq GrantIds /\ Pending(meta) \subseteq GrantIds
    BY DEF Enabled, Grants, Pending
  <2> HIDE DEF f, G, I
  <2>5. \A g \in Enabled(f) : g \in Enabled(meta) /\ Undisturbed(f, g)
    BY <1>1, <2>1, <2>3, <2>4 DEF Undisturbed
  <2>6. \A t \in Secrets \ S : Keeps(meta, f, Waiting, t)
    BY <1>1, <1>2, <2>1, <2>3, <2>4 DEF Keeps, IntentsFor
  <2> QED BY <2>1, <2>2, <2>5, <2>6, MutateExplained
<1>8. ASSUME NEW s \in Secrets, NEW caps \in SUBSET Caps, AddBindingPolicy(p, s, caps)
      PROVE  ExplainedInv'
  <2>1. pc' = [pc EXCEPT ![p] = "adding"] /\ own' = own /\ UNCHANGED <<meta, lock, work>>
    BY <1>8 DEF AddBindingPolicy
  <2>2. Waiting' \subseteq Waiting
    BY <1>0, <2>1, WaitingShrinks
  <2>3. \A t \in Secrets : vault'[t] # None =>
           /\ vault[t] # None
           /\ GrantSourced(vault'[t].policy) \subseteq GrantSourced(vault[t].policy)
    <3>1. CASE caps = {}
      BY <1>8, <3>1 DEF AddBindingPolicy
    <3>2. CASE caps # {}
      <4> DEFINE P == [t \in {s} |-> MarkBrokerAdministrative(
                          vault[t].policy, vault[t].policy.admin \cup caps)]
      <4>1. s \in Present /\ MutateVault(P)
        BY <1>8, <3>2 DEF AddBindingPolicy
      <4>2. vault[s].policy \in Policies /\ vault[s].policy.admin \cup caps \in SUBSET Caps
        BY <1>0, <4>1, RecordType, AdminPartType DEF TypeInv
      <4>3. P[s] \in Policies /\ GrantSourced(P[s]) = {} /\ DOMAIN P = {s}
        BY <4>2, MarkClosed, GrantBits
      <4> HIDE DEF P
      <4>4. /\ \A t \in Secrets : (vault'[t] = None) <=> (vault[t] = None)
            /\ \A t \in Present : GrantSourced(vault'[t].policy)
                  \subseteq GrantSourced(IF t \in DOMAIN P THEN P[t] ELSE vault[t].policy)
        BY <1>0, <4>1, <4>3, WrittenBits
      <4> QED BY <4>3, <4>4 DEF Present
    <3> QED BY <3>1, <3>2
  <2>4. AllExplained(meta', vault', swept', Waiting')
    BY <2>1, <2>2, <2>3, KeepsSame, NothingNew DEF JustInv, ExplainedInv
  <2>5. lock' # None => AllExplained(work', vault', swept', Waiting')
    BY <2>1, <2>2, <2>3, KeepsSame, NothingNew DEF JustInv, ExplainedInv
  <2> QED BY <2>4, <2>5 DEF ExplainedInv
<1>9. CASE AddBinding(p)
  <2>1. pc' = [pc EXCEPT ![p] = "idle"] /\ own' = own /\ vault' = vault
        /\ lock' = None /\ nextBinding \in BindingIds
    BY <1>9 DEF AddBinding, Free
  <2>2. Waiting' \subseteq Waiting
    BY <1>0, <2>1, WaitingShrinks
  <2>3. /\ meta'.grants = meta.grants /\ meta'.intents = meta.intents
        /\ \A b \in BindingIds \ {nextBinding} : meta'.bindings[b] = meta.bindings[b]
    BY <1>0, <1>9 DEF AddBinding, File
  <2>4. meta.bindings[nextBinding] = None
    BY <2>1 DEF JustInv, OrderInv, Orderly, BindingIds
  <2>5. Enabled(meta') = Enabled(meta) /\ Pending(meta') = Pending(meta)
    BY <2>3 DEF Enabled, Grants, Pending
  <2>6. \A s \in Secrets : Keeps(meta, meta', Waiting, s)
    BY <1>1, <1>2, <2>3, <2>4, <2>5, NoneAssumption DEF Keeps, IntentsFor
  <2>7. AllExplained(meta', vault', swept', Waiting')
    BY <2>1, <2>2, <2>6, NothingNew DEF JustInv, ExplainedInv
  <2> QED BY <2>1, <2>7 DEF ExplainedInv
<1> QED BY <1>4, <1>5, <1>6, <1>7, <1>8, <1>9 DEF Administer

LEMMA ApproveExplained ==
    ASSUME JustInv, NEW p \in Procs, Approve(p), swept \subseteq swept'
    PROVE  ExplainedInv'
<1>0. TypeInv /\ meta \in File /\ Consistent(meta) /\ OwnersDiffer
  BY DEF JustInv, OrderInv, MetadataInv, MetadataConsistent, TypeInv, TypeOK
<1>1. \A g \in Enabled(meta) : /\ g \in Grants(meta) /\ g \in GrantIds
                                /\ meta.grants[g].binding \in BindingIds
                                /\ meta.bindings[meta.grants[g].binding] # None
  BY <1>0 DEF Enabled, Grants, File, Grant, Consistent, Bindings
<1>2. \A g \in Pending(meta) : g \in GrantIds /\ meta.intents[g].binding \in BindingIds
  BY <1>0 DEF Pending, File, Intent
<1>3. ASSUME NEW b \in BindingIds \cup {None}, NEW s \in Secrets,
             NEW caps \in SUBSET Caps, PrepareApproval(p, b, s, caps)
      PROVE  ExplainedInv'
  <2>1. pc' = [pc EXCEPT ![p] = "prepared"] /\ own' = own
        /\ UNCHANGED <<meta, vault, lock, work>>
    BY <1>3 DEF PrepareApproval
  <2>2. Waiting' \subseteq Waiting
    BY <1>0, <2>1, WaitingShrinks
  <2>3. AllExplained(meta', vault', swept', Waiting')
    BY <2>1, <2>2, KeepsSame, NothingNew DEF JustInv, ExplainedInv
  <2>4. lock' # None => AllExplained(work', vault', swept', Waiting')
    BY <2>1, <2>2, KeepsSame, NothingNew DEF JustInv, ExplainedInv
  <2> QED BY <2>3, <2>4 DEF ExplainedInv
<1>4. CASE StageApproval(p)
  <2> DEFINE n == nextGrant
  <2>1. lock' = None /\ vault' = vault /\ n \in GrantIds
    BY <1>4 DEF StageApproval, Free
  <2>2. /\ Waiting' \subseteq Waiting \cup {n}
        /\ meta.grants[n] = None /\ meta.intents[n] = None
        /\ \A b \in BindingIds : meta.bindings[b] # None => meta'.bindings[b] = meta.bindings[b]
        /\ \A g \in GrantIds \ {n} : /\ meta'.grants[g] = meta.grants[g]
                                     /\ meta'.intents[g] = meta.intents[g]
    BY <1>4, JustInv, StagedOrderly DEF JustInv
  <2> HIDE DEF n
  <2>3. \A g \in Enabled(meta) : g # n /\ g \in Enabled(meta')
    BY <1>1, <2>2 DEF Enabled, Grants
  <2>4. \A g \in Pending(meta) : g # n /\ g \in Pending(meta')
    BY <1>2, <2>2 DEF Pending
  <2>5. ASSUME NEW s \in Secrets, vault[s] # None, s \notin swept',
               NEW c \in GrantSourced(vault[s].policy)
        PROVE  Explained(meta', Waiting', s, c)
    <3>1. Explained(meta, Waiting, s, c)
      BY <2>5 DEF JustInv, ExplainedInv, AllExplained
    <3>2. s # None
      BY NoneAssumption
    <3>3. CASE Needing(meta, s, c) # {}
      BY <1>1, <2>2, <2>3, <3>3 DEF Explained, Needing
    <3>4. CASE Resumable(meta, Waiting, s, c) # {}
      BY <1>2, <2>2, <2>4, <3>2, <3>4 DEF Explained, Resumable, IntentsFor
    <3> QED BY <3>1, <3>3, <3>4 DEF Explained
  <2>6. AllExplained(meta', vault', swept', Waiting')
    BY <2>1, <2>5 DEF AllExplained
  <2> QED BY <2>1, <2>6 DEF ExplainedInv
<1>5. CASE CancelStagedApproval(p)
  <2> DEFINE g == own[p]
             h == WithoutApprovals(meta, {g})
  <2>1. /\ lock' = None /\ vault' = vault /\ meta' = h /\ pc[p] = "staged"
        /\ pc' = [pc EXCEPT ![p] = "idle"] /\ own' = [own EXCEPT ![p] = None]
    BY <1>5 DEF CancelStagedApproval, Free
  <2>2. \A q \in Procs \ {p} : own'[q] = own[q]
    BY <1>0, <2>1 DEF TypeInv, TypeOK
  <2>3. Waiting' \subseteq Waiting
    BY <1>0, <2>1, <2>2, WaitingShrinks
  <2>4. g \in Waiting /\ g \notin Enabled(meta)
    BY <2>1 DEF Waiting, JustInv, OrderInv, Orderly
  <2>5. /\ h.bindings = meta.bindings
        /\ Pending(h) = Pending(meta) \ {g} /\ Enabled(h) = Enabled(meta) \ {g}
        /\ \A i \in GrantIds \ {g} : h.grants[i] = meta.grants[i] /\ h.intents[i] = meta.intents[i]
    BY <1>0, WithoutApprovalsFile
  <2> HIDE DEF g, h
  <2>6. \A s \in Secrets : Keeps(meta, h, Waiting, s)
    BY <1>1, <1>2, <2>4, <2>5 DEF Keeps, IntentsFor
  <2>7. AllExplained(meta', vault', swept', Waiting')
    BY <2>1, <2>3, <2>6, NothingNew DEF JustInv, ExplainedInv
  <2> QED BY <2>1, <2>7 DEF ExplainedInv
<1>6. CASE CommitApproval(p)
  <2> DEFINE g == own[p]
             s == meta.intents[g].secret
             caps == meta.grants[g].caps
             P == [t \in {s} |-> ApplyGrantPolicy(vault[t].policy, caps)]
             h == work'
  <2>1. /\ meta.bindings[meta.grants[g].binding] = s /\ s \in Present
        /\ MutateVault(P) /\ meta' = meta
    BY <1>6 DEF CommitApproval
  <2>2. /\ g \in Grants(meta) /\ g \in Pending(meta)
        /\ Waiting' \subseteq Waiting \ {g}
        /\ h.bindings = meta.bindings
        /\ Enabled(h) = Enabled(meta) \cup {g}
        /\ Pending(h) = Pending(meta) \ {g}
        /\ \A i \in GrantIds \ {g} : h.intents[i] = meta.intents[i]
        /\ \A i \in Grants(meta) : /\ h.grants[i].caps = meta.grants[i].caps
                                   /\ h.grants[i].binding = meta.grants[i].binding
    BY <1>6, CommittedOrderly DEF JustInv
  <2>3. caps \in SUBSET Caps /\ vault[s].policy \in Policies
    BY <1>0, <2>1, <2>2, RecordType DEF Grants, File, Grant, TypeInv
  <2>4. /\ meta.intents[g].binding = meta.grants[g].binding
        /\ meta.intents[g].caps = caps
    BY <1>0, <2>2 DEF JustInv, OrderInv, Orderly, Consistent
  <2>5. /\ P[s] \in Policies /\ DOMAIN P = {s}
        /\ GrantSourced(P[s]) \subseteq GrantSourced(vault[s].policy) \cup caps
    BY <2>3, ApplyClosed, GrantBits
  <2> HIDE DEF P, h
  <2>6. /\ \A t \in Secrets : (vault'[t] = None) <=> (vault[t] = None)
        /\ \A t \in Present : GrantSourced(vault'[t].policy)
              \subseteq GrantSourced(IF t \in DOMAIN P THEN P[t] ELSE vault[t].policy)
    BY <1>0, <2>1, <2>5, WrittenBits
  <2> SUFFICES ASSUME NEW t \in Secrets \ swept', vault'[t] # None,
                      NEW c \in GrantSourced(vault'[t].policy)
               PROVE  Explained(meta, Waiting', t, c) /\ Explained(h, Waiting', t, c)
    BY <2>1 DEF ExplainedInv, AllExplained, h
  <2>7. t \in Present
    BY <2>6 DEF Present
  <2>8. g \in IntentsFor(meta, s) \ Waiting'
    BY <2>2 DEF IntentsFor
  <2>9. CASE t = s /\ c \in caps
    <3>1. g \in Resumable(meta, Waiting', t, c)
      BY <2>1, <2>4, <2>8, <2>9 DEF Resumable
    <3>2. g \in Needing(h, t, c)
      BY <2>1, <2>2, <2>9 DEF Needing
    <3> QED BY <3>1, <3>2 DEF Explained
  <2>10. CASE ~(t = s /\ c \in caps)
    <3>1. c \in GrantSourced(vault[t].policy)
      BY <2>5, <2>6, <2>7, <2>10
    <3>2. Explained(meta, Waiting, t, c)
      BY <2>7, <3>1 DEF JustInv, ExplainedInv, AllExplained, Present
    <3>3. Explained(meta, Waiting', t, c)
      BY <2>2, <3>2, KeepsSame, KeepsExplained
    <3>4. CASE Needing(meta, t, c) # {}
      BY <1>1, <2>2, <3>4 DEF Explained, Needing
    <3>5. CASE Resumable(meta, Waiting', t, c) # {}
      <4>1. PICK i \in Resumable(meta, Waiting', t, c) : TRUE
        BY <3>5
      <4>2. i # g
        BY <2>4, <2>10, <4>1 DEF Resumable, IntentsFor
      <4>3. i \in Resumable(h, Waiting', t, c)
        BY <1>2, <2>2, <4>1, <4>2 DEF Resumable, IntentsFor
      <4> QED BY <4>3 DEF Explained
    <3> QED BY <3>3, <3>4, <3>5 DEF Explained
  <2> QED BY <2>9, <2>10
<1>7. CASE CommitFails(p)
  <2>1. pc' = [pc EXCEPT ![p] = "undoing"] /\ own' = own
        /\ UNCHANGED <<meta, vault>> /\ (lock' = None \/ UNCHANGED <<lock, work>>)
    BY <1>7 DEF CommitFails, Release
  <2>2. Waiting' \subseteq Waiting
    BY <1>0, <2>1, WaitingShrinks
  <2>3. AllExplained(meta', vault', swept', Waiting')
    BY <2>1, <2>2, KeepsSame, NothingNew DEF JustInv, ExplainedInv
  <2>4. lock' # None => AllExplained(work', vault', swept', Waiting')
    BY <2>1, <2>2, KeepsSame, NothingNew DEF JustInv, ExplainedInv
  <2> QED BY <2>3, <2>4 DEF ExplainedInv
<1>8. CASE RecoverApprovalGrant(p)
  <2> DEFINE g == own[p]
             s == meta.intents[g].secret
             f == WithoutApprovals(meta, {g})
             S == {s} \cap Present
             P == [t \in S |-> ReconcilePolicyForSecret(vault[t].policy,
                                   meta.intents[g].base, Required(f, t))]
  <2>1. /\ MutateVault(P) /\ HoldWith(p, f, "saving") /\ meta' = meta
        /\ pc' = [pc EXCEPT ![p] = "saving"] /\ own' = [own EXCEPT ![p] = None]
        /\ g \in Pending(meta)
    BY <1>8 DEF RecoverApprovalGrant, HoldWith
  <2>2. \A q \in Procs \ {p} : own'[q] = own[q]
    BY <1>0, <2>1 DEF TypeInv, TypeOK
  <2>3. Waiting' \subseteq Waiting
    BY <1>0, <2>1, <2>2, WaitingShrinks
  <2>4. meta.intents[g].base.allow \in SUBSET Caps
    BY <1>0, <2>1 DEF Pending, File, Intent, Baselines
  <2>5. \A t \in S : P[t] \in Policies /\ GrantSourced(P[t]) \subseteq Required(f, t)
    <3> SUFFICES ASSUME NEW t \in S
                 PROVE  P[t] \in Policies /\ GrantSourced(P[t]) \subseteq Required(f, t)
      OBVIOUS
    <3> DEFINE q == ReconcilePolicyForSecret(vault[t].policy,
                        meta.intents[g].base, Required(f, t))
    <3>1. vault[t].policy \in Policies /\ Required(f, t) \in SUBSET Caps
      BY <1>0, RecordType DEF TypeInv, Required
    <3>2. q \in Policies /\ GrantSourced(q) \subseteq Required(f, t)
      <4>1. q \in Policies
        BY <2>4, <3>1, ReconcileClosed
      <4>2. GrantSourced(q) \subseteq Required(f, t)
        BY <2>4, <3>1, RecoveredBits
      <4> QED BY <4>1, <4>2
    <3>3. P[t] = q
      OBVIOUS
    <3> QED BY <3>2, <3>3
  <2>6. /\ f.bindings = meta.bindings
        /\ Pending(f) = Pending(meta) \ {g} /\ Enabled(f) = Enabled(meta) \ {g}
        /\ \A i \in GrantIds \ {g} : f.grants[i] = meta.grants[i] /\ f.intents[i] = meta.intents[i]
    BY <1>0, WithoutApprovalsFile
  <2>7. g \notin Enabled(meta)
    BY <1>0, <2>1 DEF Consistent
  <2>8. DOMAIN P = S
    OBVIOUS
  <2> HIDE DEF P, f
  <2>9. \A t, c : Needing(f, t, c) \subseteq Needing(meta, t, c) \cap Needing(f, t, c)
    BY <1>1, <2>6 DEF Needing
  <2>10. \A t \in Present \ DOMAIN P : Keeps(meta, f, Waiting, t)
    BY <1>1, <1>2, <2>6, <2>7, <2>8 DEF Keeps, IntentsFor
  <2> QED BY <2>1, <2>3, <2>5, <2>8, <2>9, <2>10, WriteExplained
<1> QED BY <1>3, <1>4, <1>5, <1>6, <1>7, <1>8 DEF Approve

LEMMA RecoverPendingExplained ==
    ASSUME JustInv, NEW p \in Procs, RecoverPendingApprovals(p), swept \subseteq swept'
    PROVE  ExplainedInv'
<1> DEFINE G == Pending(meta) \ Enabled(meta)
           f == RemoveGrants(meta, G)
           h == WithoutApprovals(meta, Pending(meta))
           S == {s \in Present : IntentsFor(meta, s) # {}}
           P == [t \in S |-> ReconcilePolicyForSecret(vault[t].policy,
                                 ApprovalBaseline(meta, t), Required(f, t))]
<1>0. TypeInv /\ meta \in File /\ Consistent(meta)
  BY DEF JustInv, OrderInv, MetadataInv, MetadataConsistent, TypeInv, TypeOK
<1>1. /\ MutateVault(P) /\ HoldWith(p, h, "saving") /\ meta' = meta /\ own' = own
      /\ pc' = [pc EXCEPT ![p] = "saving"]
  BY <1>0, RecoveredReduced DEF RecoverPendingApprovals, HoldWith
<1>2. Waiting' \subseteq Waiting
  BY <1>0, <1>1, WaitingShrinks
<1>3. \A t \in S : P[t] \in Policies /\ GrantSourced(P[t]) \subseteq Required(f, t)
  <2> SUFFICES ASSUME NEW t \in S
               PROVE  P[t] \in Policies /\ GrantSourced(P[t]) \subseteq Required(f, t)
    OBVIOUS
  <2>1. vault[t].policy \in Policies /\ Required(f, t) \in SUBSET Caps
    BY <1>0, RecordType DEF TypeInv, Required
  <2>2. ApprovalBaseline(meta, t).allow \in SUBSET Caps
    BY <1>0, BaselineType
  <2> DEFINE old == vault[t].policy
             base == ApprovalBaseline(meta, t)
             need == Required(f, t)
             q == ReconcilePolicyForSecret(old, base, need)
  <2>3. P[t] = q
    OBVIOUS
  <2> HIDE DEF old, base, need
  <2>4. q \in Policies
    BY <2>1, <2>2, ReconcileClosed DEF old, base, need
  <2>5. old \in Policies /\ base.allow \in SUBSET Caps /\ need \in SUBSET Caps
    BY <2>1, <2>2 DEF old, base, need
  <2>6. GrantSourced(q) \subseteq need
    BY <2>5, RecoveredBits
  <2> QED BY <2>3, <2>4, <2>6 DEF need
<1>4. /\ h.bindings = meta.bindings
      /\ Enabled(h) = Enabled(meta) \ Pending(meta)
      /\ \A i \in GrantIds \ Pending(meta) : h.grants[i] = meta.grants[i]
  BY <1>0, WithoutApprovalsFile
<1>5. Enabled(meta) \cap Pending(meta) = {} /\ G = Pending(meta)
      /\ Enabled(meta) \subseteq GrantIds
  BY <1>0 DEF Consistent, Enabled, Grants
<1>6. f.bindings = meta.bindings /\ f.grants = h.grants
  BY <1>0, <1>5 DEF WithoutApprovals, RemoveIntents, RemoveGrants, File
<1>7. DOMAIN P = S
  OBVIOUS
<1> HIDE DEF P, f, h, G
<1>8. Enabled(f) = Enabled(h)
  BY <1>6 DEF Enabled, Grants
<1>9. \A s, c : Needing(f, s, c) \subseteq Needing(meta, s, c) \cap Needing(h, s, c)
  BY <1>4, <1>5, <1>6, <1>8 DEF Needing
<1>10. \A s \in Present \ S : Keeps(meta, h, Waiting, s)
  BY <1>4, <1>5 DEF Keeps
<1> QED BY <1>1, <1>2, <1>3, <1>7, <1>9, <1>10, WriteExplained

LEMMA StepExplained ==
    ASSUME JustInv, Next, swept \subseteq swept',
           \A cutoff \in GrantIds : CleanupStaleStaged(cutoff) =>
               \A s \in Secrets \ swept' : IntentsFor(meta, s) = IntentsFor(meta', s)
    PROVE  ExplainedInv'
<1>0. TypeInv /\ meta \in File /\ Consistent(meta)
  BY DEF JustInv, OrderInv, MetadataInv, MetadataConsistent, TypeInv, TypeOK
<1>1. ASSUME UNCHANGED <<pc, own, lock, work, meta>>,
             \A t \in Secrets : vault'[t] # None =>
                /\ vault[t] # None
                /\ GrantSourced(vault'[t].policy) \subseteq GrantSourced(vault[t].policy)
      PROVE  ExplainedInv'
  <2>1. Waiting' \subseteq Waiting
    BY <1>1 DEF Waiting
  <2>2. AllExplained(meta', vault', swept', Waiting')
    BY <1>1, <2>1, KeepsSame, NothingNew DEF JustInv, ExplainedInv
  <2>3. lock' # None => AllExplained(work', vault', swept', Waiting')
    BY <1>1, <2>1, KeepsSame, NothingNew DEF JustInv, ExplainedInv
  <2> QED BY <2>2, <2>3 DEF ExplainedInv
<1>2. ASSUME NEW p \in Procs, SaveBrokerFile(p) \/ Interrupt(p) PROVE ExplainedInv'
  <2>1. /\ pc' = [pc EXCEPT ![p] = "idle"] /\ own' = [own EXCEPT ![p] = None]
        /\ vault' = vault /\ (lock' = None \/ UNCHANGED <<lock, work>>)
        /\ (meta' = meta \/ (meta' = work /\ lock # None))
    BY <1>0, <1>2, NoneAssumption
    DEF SaveBrokerFile, Interrupt, Release, TypeInv, ControlOK
  <2>2. \A q \in Procs \ {p} : own'[q] = own[q]
    BY <1>0, <2>1 DEF TypeInv, TypeOK
  <2>3. Waiting' \subseteq Waiting
    BY <1>0, <2>1, <2>2, WaitingShrinks
  <2>4. AllExplained(meta', vault', swept', Waiting')
    BY <2>1, <2>3, KeepsSame, NothingNew DEF JustInv, ExplainedInv
  <2>5. lock' # None => AllExplained(work', vault', swept', Waiting')
    BY <2>1, <2>3, KeepsSame, NothingNew DEF JustInv, ExplainedInv
  <2> QED BY <2>4, <2>5 DEF ExplainedInv
<1>3. ASSUME NEW cutoff \in GrantIds, CleanupStaleStaged(cutoff) PROVE ExplainedInv'
  <2> DEFINE G == {g \in Grants(meta) \ Enabled(meta) : g <= cutoff}
             h == meta'
  <2>1. h = WithoutApprovals(meta, G) /\ UNCHANGED <<vault, pc, own>> /\ lock' = None
    BY <1>3 DEF CleanupStaleStaged, Free
  <2>2. /\ h.bindings = meta.bindings
        /\ Pending(h) = Pending(meta) \ G /\ Enabled(h) = Enabled(meta) \ G
        /\ \A i \in GrantIds \ G : h.grants[i] = meta.grants[i] /\ h.intents[i] = meta.intents[i]
    BY <1>0, <2>1, WithoutApprovalsFile
  <2>3. Waiting' \subseteq Waiting
    BY <2>1 DEF Waiting
  <2>4. \A s \in Secrets \ swept' : IntentsFor(meta, s) = IntentsFor(h, s)
    BY <1>3
  <2>5. G \cap Enabled(meta) = {} /\ Enabled(meta) \subseteq GrantIds
        /\ Pending(meta) \subseteq GrantIds
    BY DEF Enabled, Grants, Pending
  <2> HIDE DEF h, G
  <2>6. \A s \in Secrets \ swept' : Keeps(meta, h, Waiting, s)
    <3> SUFFICES ASSUME NEW s \in Secrets \ swept' PROVE Keeps(meta, h, Waiting, s)
      OBVIOUS
    <3>1. \A g \in IntentsFor(meta, s) : g \in Pending(h) /\ g \notin G /\ g \in GrantIds
      BY <2>2, <2>4, <2>5 DEF IntentsFor
    <3> QED BY <2>2, <2>5, <3>1 DEF Keeps
  <2>7. AllExplained(meta', vault', swept', Waiting')
    BY <2>1, <2>3, <2>6, NothingNew DEF JustInv, ExplainedInv, h
  <2> QED BY <2>1, <2>7 DEF ExplainedInv
<1>4. ASSUME NEW s \in Secrets, ArchiveSecret(s) \/ RemoveSecret(s) PROVE ExplainedInv'
  <2>1. \A t \in Secrets : vault'[t] # None =>
           /\ vault[t] # None
           /\ vault'[t].policy = NormalizeBrokerPolicyProvenance(vault[t].policy)
    <3>1. \A t \in Secrets : vault[t] # None => vault[t] \in Record
      BY <1>0 DEF TypeInv, TypeOK
    <3> QED BY <1>4, <3>1 DEF ArchiveSecret, RemoveSecret, Record
  <2>2. \A t \in Secrets : vault[t] # None => vault[t].policy \in Policies
    BY <1>0, RecordType DEF TypeInv, Present
  <2>3. \A t \in Secrets : vault'[t] # None =>
           GrantSourced(vault'[t].policy) \subseteq GrantSourced(vault[t].policy)
    BY <2>1, <2>2, GrantBits
  <2> QED BY <1>1, <1>4, <2>1, <2>3 DEF ArchiveSecret, RemoveSecret
<1>5. ASSUME NEW g \in GrantIds, Expire(g) PROVE ExplainedInv'
  BY <1>1, <1>5 DEF Expire
<1> QED BY <1>2, <1>3, <1>4, <1>5, ApproveExplained, AdministerExplained,
           RecoverPendingExplained DEF Next

LEMMA StepJust == JustInv /\ [HNext]_<<vars, history>> => JustInv'
<1> SUFFICES ASSUME JustInv, [HNext]_<<vars, history>> PROVE JustInv'
  OBVIOUS
<1>1. OrderInv'
  BY StepOrder DEF JustInv, HNext, vars
<1>2. CASE HNext
  <2>1. swept \subseteq swept'
    BY <1>2 DEF HNext
  <2>2. \A cutoff \in GrantIds : CleanupStaleStaged(cutoff) =>
           \A s \in Secrets \ swept' : IntentsFor(meta, s) = IntentsFor(meta', s)
    BY <1>2 DEF HNext, Cleanup
  <2>3. Next
    BY <1>2 DEF HNext
  <2> QED BY <1>1, <2>1, <2>2, <2>3, StepExplained DEF JustInv
<1>3. CASE UNCHANGED <<vars, history>>
  BY <1>1, <1>3 DEF JustInv, ExplainedInv, Waiting, vars, history
<1> QED BY <1>2, <1>3

LEMMA InitJust == HInit => JustInv
<1> SUFFICES ASSUME HInit PROVE JustInv
  OBVIOUS
<1>1. Init /\ MetadataInv
  BY InitTypeInv, EmptyConsistent DEF HInit, Init, MetadataInv, MetadataConsistent
<1>2. Orderly(meta, nextBinding, nextGrant, Waiting) /\ Orderly(work, nextBinding, nextGrant, Waiting)
  BY <1>1, EmptyOrderly DEF Init
<1>3. OwnersDiffer
  BY <1>1 DEF Init, OwnersDiffer
<1>4. ASSUME NEW s \in Secrets PROVE GrantSourced(vault[s].policy) = {}
  BY <1>1 DEF Init, Unlabelled, DenyAll, GrantSourced
<1>5. ExplainedInv
  BY <1>1, <1>4 DEF ExplainedInv, AllExplained, Init
<1> QED BY <1>1, <1>2, <1>3, <1>5 DEF JustInv, OrderInv

(* What a policy holds and no grant is answerable for; an administrator    *)
(* gave it, or a recovery adopted it.                                      *)
Held(p) ==
    {c \in Caps : \/ c \in p.admin
                  \/ p.source[c] = "administrative"
                  \/ c \in p.allow /\ p.source[c] = "none"}
Traced(v, gv, ad) ==
    \A s \in Secrets : v[s] # None =>
        \A c \in Held(v[s].policy) : c \in gv[s] \/ <<s, c>> \in ad
TracedInv == Traced(vault, given, adopted)
Named(s) == UNION {meta.intents[g].base.allow : g \in IntentsFor(meta, s)}

LEMMA HeldNormal ==
    ASSUME NEW p \in Policies
    PROVE  /\ Held(NormalizeBrokerPolicyProvenance(p)) \subseteq Held(p)
           /\ NormalizeBrokerPolicyProvenance(p).admin = p.admin
BY DEF Held, NormalizeBrokerPolicyProvenance, Policies

LEMMA HeldApplied ==
    ASSUME NEW p \in Policies, NEW caps \in SUBSET Caps
    PROVE  Held(ApplyGrantPolicy(p, caps)) \subseteq Held(p)
BY DEF Held, ApplyGrantPolicy, WithGrant, Policies, Sources

LEMMA HeldMarked ==
    ASSUME NEW p \in Policies, NEW caps \in SUBSET Caps
    PROVE  /\ Held(MarkBrokerAdministrative(p, caps)) \subseteq caps
           /\ MarkBrokerAdministrative(p, caps).admin = caps
BY DEF Held, MarkBrokerAdministrative

LEMMA HeldByCurrent ==
    ASSUME NEW p \in Policies, NEW need \in SUBSET Caps
    PROVE  Held(ReconcileCurrentPolicy(p, need)) \subseteq Held(p)
<1> DEFINE kept == p.admin \cup AdminSourced(p)
<1>1. kept \in SUBSET Caps
  BY AdminPartType
<1>2. kept \subseteq Held(p)
  BY AdminPartType DEF Held, AdminSourced
<1>3. ReconcileCurrentPolicy(p, need) = Rebuilt(p, kept, need, kept)
  BY DEF ReconcileCurrentPolicy
<1> HIDE DEF kept
<1>4. Held(Rebuilt(p, kept, need, kept)) \subseteq kept
  BY <1>1 DEF Held, Rebuilt
<1> QED BY <1>2, <1>3, <1>4

LEMMA HeldByRecovery ==
    ASSUME NEW p \in Policies, NEW base, base.allow \in SUBSET Caps, NEW need \in SUBSET Caps
    PROVE  LET q == ReconcilePolicyForSecret(p, base, need)
           IN  Held(q) \subseteq Held(p) \cup (AdminSourced(q) \cap base.allow)
<1> DEFINE prior == IF p.revision # base.revision THEN p.admin ELSE base.allow
           kept == prior \cup AdminSourced(p)
           q == ReconcilePolicyForSecret(p, base, need)
<1>1. kept \in SUBSET Caps /\ p.admin \in SUBSET Caps
  BY AdminPartType
<1>2. kept \subseteq Held(p) \cup base.allow /\ p.admin \subseteq Held(p)
  BY AdminPartType DEF Held, AdminSourced
<1>3. q = Rebuilt(p, kept, need, p.admin)
  BY DEF ReconcilePolicyForSecret
<1> HIDE DEF kept, q
<1>4. Held(q) \subseteq kept \cup p.admin /\ AdminSourced(q) = kept
  <2>1. Held(Rebuilt(p, kept, need, p.admin)) \subseteq kept \cup p.admin
    BY <1>1 DEF Held, Rebuilt
  <2>2. AdminSourced(Rebuilt(p, kept, need, p.admin)) = kept
    BY <1>1 DEF AdminSourced, Rebuilt
  <2> QED BY <1>3, <2>1, <2>2
<1>5. Held(q) \subseteq Held(p) \cup (AdminSourced(q) \cap base.allow)
  BY <1>2, <1>4
<1> QED BY <1>5 DEF q

(* What a write adds to what a record holds, in the records it is about.   *)
LEMMA WrittenHeld ==
    ASSUME TypeInv, NEW P, NEW more,
           \A s \in (DOMAIN P) \cap Present :
               P[s] \in Policies /\ Held(P[s]) \subseteq Held(vault[s].policy) \cup more[s],
           MutateVault(P), TracedInv, NEW gv, NEW ad,
           \A s \in Secrets : given[s] \subseteq gv[s], adopted \subseteq ad,
           \A s \in (DOMAIN P) \cap Present : \A c \in Caps :
               c \in more[s] => c \in gv[s] \/ <<s, c>> \in ad
    PROVE  Traced(vault', gv, ad)
<1>1. /\ \A s \in Secrets : (vault'[s] = None) <=> (vault[s] = None)
      /\ \A s \in Present : vault'[s].policy = NormalizeBrokerPolicyProvenance(
              IF s \in DOMAIN P THEN P[s] ELSE vault[s].policy)
  BY VaultWrite DEF TypeInv, TypeOK
<1> SUFFICES ASSUME NEW s \in Secrets, vault'[s] # None, NEW c \in Held(vault'[s].policy)
             PROVE  c \in gv[s] \/ <<s, c>> \in ad
  BY DEF Traced
<1>2. s \in Present
  BY <1>1 DEF Present
<1>3. c \in Caps
  BY DEF Held
<1>4. \A d \in Held(vault[s].policy) : d \in gv[s] \/ <<s, d>> \in ad
  BY <1>2 DEF TracedInv, Traced, Present
<1> DEFINE q == IF s \in DOMAIN P THEN P[s] ELSE vault[s].policy
<1>5. q \in Policies
  BY <1>2, RecordType DEF TypeInv
<1>6. vault'[s].policy = NormalizeBrokerPolicyProvenance(q)
  BY <1>1, <1>2
<1>7. Held(q) \subseteq Held(vault[s].policy) \/ (s \in DOMAIN P /\ q = P[s])
  OBVIOUS
<1> HIDE DEF q
<1>8. c \in Held(q)
  BY <1>5, <1>6, HeldNormal
<1> QED BY <1>2, <1>3, <1>4, <1>7, <1>8

LEMMA TracedStays ==
    ASSUME TracedInv, NEW w, NEW gv, NEW ad,
           \A s \in Secrets : given[s] \subseteq gv[s], adopted \subseteq ad,
           \A s \in Secrets : w[s] # None => /\ vault[s] # None
                                             /\ Held(w[s].policy) \subseteq Held(vault[s].policy)
    PROVE  Traced(w, gv, ad)
BY DEF TracedInv, Traced

(* The history of a step. *)
LEMMA HistoryGrows ==
    ASSUME HNext
    PROVE  /\ \A s \in Secrets : given'[s] = given[s] \cup Gives(s)
           /\ \A s \in Secrets : given[s] \subseteq given'[s]
           /\ adopted \subseteq adopted'
           /\ \A s \in Secrets, c \in Caps :
                 c \in Adopts(s) => c \in given'[s] \/ <<s, c>> \in adopted'
<1>1. \A s \in Secrets : given'[s] = given[s] \cup Gives(s)
  BY DEF HNext
<1>2. adopted' = adopted \cup
          {sc \in Secrets \X Caps : sc[2] \in Adopts(sc[1]) \ given[sc[1]]}
  BY DEF HNext
<1>3. ASSUME NEW s \in Secrets, NEW c \in Caps, c \in Adopts(s)
      PROVE  c \in given'[s] \/ <<s, c>> \in adopted'
  <2>1. CASE c \in given[s]
    BY <1>1, <2>1
  <2>2. CASE c \notin given[s]
    <3>1. <<s, c>> \in Secrets \X Caps /\ <<s, c>>[1] = s /\ <<s, c>>[2] = c
      OBVIOUS
    <3> QED BY <1>2, <1>3, <2>2, <3>1
  <2> QED BY <2>1, <2>2
<1> QED BY <1>1, <1>2, <1>3

LEMMA RecoveryTraced ==
    ASSUME TypeInv, TracedInv, HNext, Recovery, NEW S, S \subseteq Present, NEW P, DOMAIN P = S,
           \A s \in S : P[s] \in Policies /\
               Held(P[s]) \subseteq Held(vault[s].policy) \cup (AdminSourced(P[s]) \cap Named(s)),
           MutateVault(P)
    PROVE  TracedInv'
<1> DEFINE more == [s \in S |-> AdminSourced(P[s]) \cap Named(s)]
<1>1. \A s \in S : more[s] = AdminSourced(P[s]) \cap Named(s)
  OBVIOUS
<1> HIDE DEF more
<1>2. ASSUME NEW s \in S, NEW c \in Caps, c \in more[s]
      PROVE  c \in given'[s] \/ <<s, c>> \in adopted'
  <2>1. s \in Secrets /\ s \in Present /\ P[s] \in Policies
    BY DEF Present
  <2>2. vault'[s].policy = NormalizeBrokerPolicyProvenance(P[s])
    BY <2>1, VaultWrite DEF TypeInv, TypeOK
  <2>3. AdminSourced(P[s]) \subseteq AdminSourced(vault'[s].policy)
    BY <2>1, <2>2, NormalizeSurvives DEF Survives
  <2>4. c \in Adopts(s)
    BY <1>1, <1>2, <2>1, <2>3 DEF Adopts, Named
  <2> QED BY <2>1, <2>4, HistoryGrows
<1>3. \A s \in S : P[s] \in Policies /\ Held(P[s]) \subseteq Held(vault[s].policy) \cup more[s]
  BY <1>1
<1>4. /\ \A s \in Secrets : given[s] \subseteq given'[s]
      /\ adopted \subseteq adopted'
  BY HistoryGrows
<1>5. Traced(vault', given', adopted')
  BY <1>2, <1>3, <1>4, WrittenHeld
<1> QED BY <1>5 DEF TracedInv

LEMMA ApproveTraced ==
    ASSUME TypeInv, TracedInv, HNext, NEW p \in Procs, Approve(p)
    PROVE  TracedInv'
<1>0. /\ \A s \in Secrets : given[s] \subseteq given'[s]
      /\ adopted \subseteq adopted'
  BY HistoryGrows
<1>1. CASE UNCHANGED vault
  BY <1>0, <1>1, TracedStays DEF TracedInv
<1>2. CASE CommitApproval(p)
  <2> DEFINE g == own[p]
             s == meta.intents[g].secret
             P == [t \in {s} |-> ApplyGrantPolicy(vault[t].policy, meta.grants[g].caps)]
             more == [t \in {s} |-> {}]
  <2>1. g \in GrantIds /\ meta.grants[g] \in Grant
    BY <1>2 DEF CommitApproval, ControlOK, Grants, TypeInv, TypeOK, File
  <2>2. s \in Present /\ MutateVault(P)
    BY <1>2 DEF CommitApproval
  <2>3. P[s] \in Policies /\ Held(P[s]) \subseteq Held(vault[s].policy)
    <3>1. vault[s].policy \in Policies /\ meta.grants[g].caps \in SUBSET Caps
      BY <2>1, <2>2, RecordType DEF Grant, TypeInv
    <3>2. P[s] = ApplyGrantPolicy(vault[s].policy, meta.grants[g].caps)
      OBVIOUS
    <3> HIDE DEF P, s
    <3> QED BY <3>1, <3>2, ApplyClosed, HeldApplied
  <2>4. DOMAIN P = {s} /\ more[s] = {}
    OBVIOUS
  <2> HIDE DEF P, s, more
  <2>5. Traced(vault', given', adopted')
    BY <1>0, <2>2, <2>3, <2>4, WrittenHeld
  <2> QED BY <2>5 DEF TracedInv
<1>3. CASE RecoverApprovalGrant(p)
  <2> DEFINE g == own[p]
             S == {meta.intents[g].secret} \cap Present
             P == [t \in S |-> ReconcilePolicyForSecret(vault[t].policy,
                      meta.intents[g].base, Required(WithoutApprovals(meta, {g}), t))]
  <2>1. MutateVault(P) /\ g \in Pending(meta)
    BY <1>3 DEF RecoverApprovalGrant
  <2>2. meta.intents[g].base.allow \in SUBSET Caps
    BY <2>1 DEF Pending, TypeInv, TypeOK, File, Intent, Baselines
  <2>3. \A t \in S : meta.intents[g].base.allow \subseteq Named(t)
    BY <2>1 DEF Named, IntentsFor
  <2>4. ASSUME NEW t \in S
        PROVE  /\ P[t] \in Policies
               /\ Held(P[t]) \subseteq Held(vault[t].policy) \cup (AdminSourced(P[t]) \cap Named(t))
    <3> DEFINE need == Required(WithoutApprovals(meta, {g}), t)
               base == meta.intents[g].base
    <3>1. P[t] = ReconcilePolicyForSecret(vault[t].policy, base, need)
      OBVIOUS
    <3>2. vault[t].policy \in Policies /\ need \in SUBSET Caps
      BY RecordType DEF TypeInv, Required
    <3>3. base.allow \in SUBSET Caps /\ base.allow \subseteq Named(t)
      BY <2>2, <2>3
    <3> HIDE DEF need, base, P, S
    <3> QED BY <3>1, <3>2, <3>3, ReconcileClosed, HeldByRecovery
  <2>5. Recovery /\ S \subseteq Present /\ DOMAIN P = S
    BY <1>3 DEF Recovery
  <2> HIDE DEF P, S
  <2> QED BY <2>1, <2>4, <2>5, RecoveryTraced
<1>4. CASE \E b \in BindingIds \cup {None}, s \in Secrets, caps \in (SUBSET Caps) \ {{}} :
               PrepareApproval(p, b, s, caps)
  BY <1>1, <1>4 DEF PrepareApproval
<1>5. CASE StageApproval(p) \/ CancelStagedApproval(p) \/ CommitFails(p)
  BY <1>1, <1>5 DEF StageApproval, CancelStagedApproval, CommitFails
<1> QED BY <1>2, <1>3, <1>4, <1>5 DEF Approve

LEMMA RecoverPendingTraced ==
    ASSUME TypeInv, TracedInv, HNext, NEW p \in Procs, RecoverPendingApprovals(p)
    PROVE  TracedInv'
<1> DEFINE f == RemoveGrants(meta, Pending(meta) \ Enabled(meta))
           S == {s \in Present : IntentsFor(meta, s) # {}}
           P == [t \in S |-> ReconcilePolicyForSecret(vault[t].policy,
                                 ApprovalBaseline(meta, t), Required(f, t))]
<1>1. MutateVault(P)
  BY DEF RecoverPendingApprovals
<1>2. ASSUME NEW t \in S
      PROVE  /\ P[t] \in Policies
             /\ Held(P[t]) \subseteq Held(vault[t].policy) \cup (AdminSourced(P[t]) \cap Named(t))
  <2> DEFINE need == Required(f, t)
             base == ApprovalBaseline(meta, t)
  <2>1. P[t] = ReconcilePolicyForSecret(vault[t].policy, base, need)
    OBVIOUS
  <2>2. vault[t].policy \in Policies /\ need \in SUBSET Caps
    BY RecordType DEF TypeInv, Required
  <2>3. base.allow \in SUBSET Caps /\ base.allow = Named(t)
    BY BaselineType DEF TypeInv, TypeOK, ApprovalBaseline, Named
  <2> HIDE DEF need, base, P, S, f
  <2> QED BY <2>1, <2>2, <2>3, ReconcileClosed, HeldByRecovery
<1>3. Recovery /\ S \subseteq Present /\ DOMAIN P = S
  BY DEF Recovery
<1> HIDE DEF P, S
<1> QED BY <1>1, <1>2, <1>3, RecoveryTraced

LEMMA AdministerTraced ==
    ASSUME TypeInv, TracedInv, HNext, NEW p \in Procs, Administer(p)
    PROVE  TracedInv'
<1>0. /\ \A s \in Secrets : given'[s] = given[s] \cup Gives(s)
      /\ \A s \in Secrets : given[s] \subseteq given'[s]
      /\ adopted \subseteq adopted'
  BY HistoryGrows
<1>1. CASE UNCHANGED vault
  BY <1>0, <1>1, TracedStays DEF TracedInv
<1>2. ASSUME NEW f, NEW S, MutateBrokerPolicy(p, f, S) PROVE TracedInv'
  <2> DEFINE P == [t \in S \cap Present |->
                      ReconcileCurrentPolicy(vault[t].policy, Required(f, t))]
             more == [t \in S \cap Present |-> {}]
  <2>1. MutateVault(P)
    BY <1>2 DEF MutateBrokerPolicy
  <2>2. \A t \in S \cap Present :
           P[t] \in Policies /\ Held(P[t]) \subseteq Held(vault[t].policy)
    BY RecordType, CurrentClosed, HeldByCurrent DEF TypeInv, Required
  <2>3. DOMAIN P = S \cap Present /\ \A t \in S \cap Present : more[t] = {}
    OBVIOUS
  <2> HIDE DEF P, more
  <2>4. Traced(vault', given', adopted')
    BY <1>0, <2>1, <2>2, <2>3, WrittenHeld
  <2> QED BY <2>4 DEF TracedInv
<1>3. ASSUME NEW s \in Secrets, NEW caps \in SUBSET Caps, AddBindingPolicy(p, s, caps)
      PROVE  TracedInv'
  <2> DEFINE flags == vault[s].policy.admin \cup caps
             new == MarkBrokerAdministrative(vault[s].policy, flags)
             P == [t \in {s} |-> MarkBrokerAdministrative(
                      vault[t].policy, vault[t].policy.admin \cup caps)]
             more == [t \in {s} |-> flags]
  <2>1. CASE caps = {}
    BY <1>1, <1>3, <2>1 DEF AddBindingPolicy
  <2>2. CASE caps # {}
    <3>1. s \in Present /\ MutateVault(P)
      BY <1>3, <2>2 DEF AddBindingPolicy
    <3>2. DOMAIN P = {s} /\ P[s] = new /\ more[s] = flags
      OBVIOUS
    <3>3. vault[s].policy \in Policies /\ flags \in SUBSET Caps
      BY <3>1, RecordType, AdminPartType DEF TypeInv
    <3>4. new \in Policies /\ new.admin = flags /\ Held(new) \subseteq flags
      <4> HIDE DEF flags
      <4> QED BY <3>3, MarkClosed, HeldMarked
    <3>5. vault'[s].policy = NormalizeBrokerPolicyProvenance(new)
      <4> HIDE DEF P, new
      <4> QED BY <3>1, <3>2, <3>4, VaultWrite DEF TypeInv, TypeOK
    <3>6. vault'[s].policy.admin = flags
      BY <3>4, <3>5, HeldNormal
    <3>7. MarkStep
      BY <1>3 DEF MarkStep
    <3>8. \A c \in flags : c \in given'[s] \/ <<s, c>> \in adopted'
      <4> SUFFICES ASSUME NEW c \in flags PROVE c \in given'[s] \/ <<s, c>> \in adopted'
        OBVIOUS
      <4>1. CASE c \in vault[s].policy.admin
        BY <1>0, <3>1, <3>3, <4>1 DEF TracedInv, Traced, Present, Held
      <4>2. CASE c \notin vault[s].policy.admin
        BY <1>0, <3>1, <3>6, <3>7, <4>2 DEF Gives
      <4> QED BY <4>1, <4>2
    <3> HIDE DEF P, new, flags, more
    <3>9. Traced(vault', given', adopted')
      BY <1>0, <3>1, <3>2, <3>4, <3>8, WrittenHeld
    <3> QED BY <3>9 DEF TracedInv
  <2> QED BY <2>1, <2>2
<1>4. CASE AddBinding(p)
  BY <1>1, <1>4 DEF AddBinding
<1> QED BY <1>2, <1>3, <1>4
        DEF Administer, RevokeGrant, ReconcileExpiredGrants, RebindBinding, DeleteBinding

LEMMA StepTraced == TypeInv /\ TracedInv /\ [HNext]_<<vars, history>> => TracedInv'
<1> SUFFICES ASSUME TypeInv, TracedInv, HNext PROVE TracedInv'
  BY DEF TracedInv, Traced, vars, history
<1>0. /\ \A s \in Secrets : given[s] \subseteq given'[s]
      /\ adopted \subseteq adopted'
      /\ Next
  BY HistoryGrows DEF HNext
<1>1. CASE UNCHANGED vault
  BY <1>0, <1>1, TracedStays DEF TracedInv
<1>2. ASSUME NEW p \in Procs, SaveBrokerFile(p) \/ Interrupt(p) PROVE TracedInv'
  BY <1>1, <1>2 DEF SaveBrokerFile, Interrupt
<1>3. ASSUME NEW s \in Secrets, ArchiveSecret(s) \/ RemoveSecret(s) PROVE TracedInv'
  <2>1. \A t \in Secrets : vault'[t] # None =>
            /\ vault[t] # None
            /\ vault[t].policy \in Policies
            /\ vault'[t].policy = NormalizeBrokerPolicyProvenance(vault[t].policy)
    BY <1>3, RecordType DEF ArchiveSecret, RemoveSecret, Present, Record, TypeInv
  <2>2. \A t \in Secrets : vault'[t] # None =>
            vault[t] # None /\ Held(vault'[t].policy) \subseteq Held(vault[t].policy)
    BY <2>1, HeldNormal
  <2>3. Traced(vault', given', adopted')
    BY <1>0, <2>2, TracedStays
  <2> QED BY <2>3 DEF TracedInv
<1>4. ASSUME NEW g \in GrantIds, CleanupStaleStaged(g) \/ Expire(g) PROVE TracedInv'
  BY <1>1, <1>4 DEF CleanupStaleStaged, Expire
<1> QED BY <1>0, <1>2, <1>3, <1>4, ApproveTraced, AdministerTraced, RecoverPendingTraced
        DEF Next

LEMMA InitTraced == HInit => TracedInv
<1> SUFFICES ASSUME HInit, NEW s \in Secrets, NEW c \in Held(vault[s].policy)
             PROVE  c \in given[s]
  BY DEF TracedInv, Traced
<1>1. PICK old \in [Secrets -> SUBSET Caps] :
          vault = [t \in Secrets |-> [archived |-> FALSE, policy |-> Unlabelled(old[t])]]
  BY DEF HInit, Init
<1>2. vault[s].policy = Unlabelled(old[s])
  BY <1>1
<1>3. given[s] = vault[s].policy.allow
  BY DEF HInit
<1> QED BY <1>2, <1>3 DEF Held, Unlabelled, DenyAll

(* No bit of a record is on without a reason, for any crashes, rebindings  *)
(* and interleavings: an administrator gave it, a grant that is on needs   *)
(* it, recovery will settle it, or it is of one of the two kinds that      *)
(* approval.go:258, 430 and tui/update.go:827 leave behind.                *)
THEOREM GrantPolicyAlwaysJustified == HSpec => []GrantPolicyJustified
<1>1. JustInv /\ TracedInv => GrantPolicyJustified
  <2> SUFFICES ASSUME JustInv, TracedInv, NEW s \in Present \ swept,
                      NEW c \in vault[s].policy.allow
               PROVE  \/ c \in given[s]
                      \/ Needing(meta, s, c) # {}
                      \/ \E g \in IntentsFor(meta, s) : c \in meta.intents[g].caps
                      \/ <<s, c>> \in adopted
    BY DEF GrantPolicyJustified, Justified
  <2>1. vault[s].policy \in Policies /\ s \in Secrets /\ vault[s] # None
    BY RecordType DEF JustInv, OrderInv, MetadataInv, TypeInv, Present
  <2>2. CASE vault[s].policy.source[c] = "grant"
    BY <2>1, <2>2
    DEF JustInv, ExplainedInv, AllExplained, Explained, Resumable, IntentsFor, GrantSourced
  <2>3. CASE vault[s].policy.source[c] # "grant"
    BY <2>1, <2>3 DEF TracedInv, Traced, Held, Policies, Sources
  <2> QED BY <2>2, <2>3
<1>2. JustInv => TypeInv
  BY DEF JustInv, OrderInv, MetadataInv
<1> QED BY <1>1, <1>2, InitJust, StepJust, InitTraced, StepTraced, PTL DEF HSpec
=============================================================================
