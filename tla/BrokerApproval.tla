--------------------------- MODULE BrokerApproval ---------------------------
(***************************************************************************)
(* The credential broker's two stores and every operation that changes     *)
(* them: broker.json (bindings, grants and pending approval intents,       *)
(* internal/broker/store.go) and the broker policy of the vault's records. *)
(*                                                                         *)
(* broker.json is only written under an flock (lock); the vault has an     *)
(* flock of its own, taken inside the first one or alone, for one          *)
(* read-modify-write at a time, so a vault write is one step.  An          *)
(* operation that changes both stores writes the vault first and           *)
(* broker.json second: the step in between, where the lock holder keeps    *)
(* the new metadata in memory (work), is where a crash, a cancelled        *)
(* context or a failed save bites.                                         *)
(***************************************************************************)
EXTENDS BrokerPolicy

CONSTANTS
    Procs,          \* processes and goroutines that run broker operations
    Secrets,        \* vault record IDs
    MaxBindings,    \* bound on the bindings ever created
    MaxGrants,      \* bound on the grants ever staged
    None            \* no process, no record, no binding

BindingIds == 1..MaxBindings
GrantIds   == 1..MaxGrants    \* in the order they are appended to broker.json

VARIABLES
    meta,           \* broker.json
    vault,          \* the vault's records
    expired,        \* grants whose ExpiresAt has passed
    lock,           \* holder of broker.json.lock
    work,           \* the metadata the lock holder is about to save
    pc,             \* where each process stands in its operation
    req,            \* what a process has read before taking the lock
    own,            \* the grant a process has staged
    nextBinding,    \* number of binding IDs generated so far, plus one
    nextGrant       \* number of grant IDs generated so far, plus one

vars == <<meta, vault, expired, lock, work, pc, req, own,
          nextBinding, nextGrant>>
-----------------------------------------------------------------------------
(* Broker metadata.  An intent keeps the policy the record had when the    *)
(* approval was staged.                                                    *)
Grant  == [binding : BindingIds, caps : SUBSET Caps, enabled : BOOLEAN]
Intent == [binding : BindingIds, secret : Secrets, caps : SUBSET Caps,
           base : Baselines]
File == [bindings : [BindingIds -> Secrets \cup {None}],
         grants   : [GrantIds -> Grant \cup {None}],
         intents  : [GrantIds -> Intent \cup {None}]]

EmptyFile == [bindings |-> [b \in BindingIds |-> None],
              grants   |-> [g \in GrantIds |-> None],
              intents  |-> [g \in GrantIds |-> None]]

Record == [archived : BOOLEAN, policy : Policies]

(* A prepared approval; binding None stands for a binding still to create. *)
Request == [binding : BindingIds \cup {None}, secret : Secrets,
            caps : SUBSET Caps, base : Baselines]

ASSUME BoundsAssumption == MaxBindings \in Nat /\ MaxGrants \in Nat
ASSUME NoneAssumption == None \notin Procs \cup Secrets \cup BindingIds
    \cup GrantIds \cup Grant \cup Intent \cup Record \cup Request

States == {"idle", "prepared", "staged", "activating", "undoing", "saving",
           "adding"}

Bindings(f) == {b \in BindingIds : f.bindings[b] # None}
Grants(f)   == {g \in GrantIds : f.grants[g] # None}
Pending(f)  == {g \in GrantIds : f.intents[g] # None}
Enabled(f)  == {g \in Grants(f) : f.grants[g].enabled}
Present     == {s \in Secrets : vault[s] # None}

RemoveGrants(f, G)  == [f EXCEPT !.grants =
                           [g \in GrantIds |-> IF g \in G THEN None ELSE @[g]]]
RemoveIntents(f, G) == [f EXCEPT !.intents =
                           [g \in GrantIds |-> IF g \in G THEN None ELSE @[g]]]

(* Remove grants together with their intents. *)
WithoutApprovalsKeepingGrants(f, G) == RemoveIntents(f, G)
WithoutApprovals(f, G) == RemoveIntents(RemoveGrants(f, G), G)

Suspend(f, G) == [f EXCEPT !.grants =
                     [g \in GrantIds |-> IF g \in G /\ g \in Grants(f)
                                         THEN [@[g] EXCEPT !.enabled = FALSE]
                                         ELSE @[g]]]

(* requiredBrokerPolicies: what enabled, unexpired grants need of a record. *)
Needing(f, s, c) == {g \in Enabled(f) : /\ f.bindings[f.grants[g].binding] = s
                                        /\ c \in f.grants[g].caps}
Required(f, s) == {c \in Caps : Needing(f, s, c) \ expired # {}}

(* approvalBaselines: the merged baselines of the intents that name s.     *)
(* Prior bits accumulate; the revision is the last intent's.               *)
IntentsFor(f, s) == {g \in Pending(f) : f.intents[g].secret = s}
Last(G) == CHOOSE g \in G : \A h \in G : h <= g
ApprovalBaseline(f, s) ==
    [allow    |-> UNION {f.intents[g].base.allow : g \in IntentsFor(f, s)},
     revision |-> f.intents[Last(IntentsFor(f, s))].base.revision]

(* MutateVaultWithKey: give the records in the domain of `policies` the    *)
(* policies it maps them to, and write the vault, which normalises every   *)
(* record.                                                                 *)
MutateVault(policies) ==
    vault' = [s \in Secrets |->
        IF vault[s] = None THEN None
        ELSE [vault[s] EXCEPT !.policy = NormalizeBrokerPolicyProvenance(
                  IF s \in DOMAIN policies THEN policies[s] ELSE @)]]

Free == lock = None

(* The holder has written the vault and keeps the file f to save. *)
HoldWith(p, f, state) ==
    /\ lock' = p
    /\ work' = f
    /\ pc' = [pc EXCEPT ![p] = state]

Release == lock' = None /\ work' = EmptyFile
-----------------------------------------------------------------------------
Init ==
    /\ meta = EmptyFile
    /\ \E old \in [Secrets -> SUBSET Caps] :
          vault = [s \in Secrets |->
                      [archived |-> FALSE, policy |-> Unlabelled(old[s])]]
    /\ expired = {}
    /\ lock = None
    /\ work = EmptyFile
    /\ pc = [p \in Procs |-> "idle"]
    /\ req = [p \in Procs |-> None]
    /\ own = [p \in Procs |-> None]
    /\ nextBinding = 1
    /\ nextGrant = 1
-----------------------------------------------------------------------------
(* stageApproval, before its transaction: broker.json and the vault are    *)
(* read without a lock, and the record's policy is captured.               *)
PrepareApproval(p, b, s, caps) ==
    /\ pc[p] = "idle"
    /\ b # None => meta.bindings[b] = s
    /\ s \in Present /\ ~vault[s].archived
    /\ req' = [req EXCEPT ![p] =
                  [binding |-> b, secret |-> s, caps |-> caps,
                   base |-> [allow    |-> vault[s].policy.allow
                                             \cup AdminSourced(vault[s].policy),
                             revision |-> vault[s].policy.revision]]]
    /\ pc' = [pc EXCEPT ![p] = "prepared"]
    /\ UNCHANGED <<meta, vault, expired, lock, work, own, nextBinding, nextGrant>>

(* The intent of a prepared approval for binding b. *)
StagedIntent(r, b) ==
    [binding |-> b, secret |-> r.secret, caps |-> r.caps, base |-> r.base]

(* stageApproval's transaction: recheck the binding, append the disabled   *)
(* grant and its intent.                                                   *)
StageApproval(p) ==
    /\ pc[p] = "prepared" /\ Free
    /\ nextGrant \in GrantIds
    /\ LET r == req[p]
           b == IF r.binding = None THEN nextBinding ELSE r.binding
       IN  /\ IF r.binding = None
              THEN nextBinding \in BindingIds /\ nextBinding' = nextBinding + 1
              ELSE meta.bindings[b] = r.secret /\ UNCHANGED nextBinding
           /\ meta' = [meta EXCEPT
                  !.bindings[b] = r.secret,
                  !.grants[nextGrant] =
                      [binding |-> b, caps |-> r.caps, enabled |-> FALSE],
                  !.intents[nextGrant] = StagedIntent(r, b)]
    /\ own' = [own EXCEPT ![p] = nextGrant]
    /\ nextGrant' = nextGrant + 1
    /\ req' = [req EXCEPT ![p] = None]
    /\ pc' = [pc EXCEPT ![p] = "staged"]
    /\ UNCHANGED <<vault, expired, lock, work>>

(* CancelStagedApproval, or CommitApproval on an already cancelled context. *)
CancelStagedApproval(p) ==
    /\ pc[p] = "staged" /\ Free
    /\ meta' = WithoutApprovals(meta, {own[p]})
    /\ pc' = [pc EXCEPT ![p] = "idle"]
    /\ own' = [own EXCEPT ![p] = None]
    /\ UNCHANGED <<vault, expired, lock, work, req, nextBinding, nextGrant>>

(* CommitApproval up to the vault write that enables the policy. *)
CommitApproval(p) ==
    /\ pc[p] = "staged" /\ Free
    /\ LET g == own[p]
           s == meta.intents[g].secret
       IN  /\ g \in Grants(meta) /\ g \in Pending(meta)
           /\ meta.bindings[meta.grants[g].binding] = s
           /\ s \in Present /\ ~vault[s].archived
           /\ MutateVault([t \in {s} |->
                  ApplyGrantPolicy(vault[t].policy, meta.grants[g].caps)])
           /\ HoldWith(p, [RemoveIntents(meta, {g}) EXCEPT
                              !.grants[g].enabled = TRUE], "activating")
    /\ UNCHANGED <<meta, expired, req, own, nextBinding, nextGrant>>

(* CommitApproval's transaction ends in an error: before the vault write   *)
(* (a guard above fails or the context is cancelled) or after it (the      *)
(* context is cancelled, or the save fails).  Nothing is saved.            *)
CommitFails(p) ==
    /\ \/ pc[p] = "staged" /\ Free /\ UNCHANGED <<lock, work>>
       \/ pc[p] = "activating" /\ Release
    /\ pc' = [pc EXCEPT ![p] = "undoing"]
    /\ UNCHANGED <<meta, vault, expired, req, own, nextBinding, nextGrant>>

(* recoverApprovalGrant up to its vault write. *)
RecoverApprovalGrant(p) ==
    /\ pc[p] = "undoing" /\ Free
    /\ own[p] \in Pending(meta)
    /\ LET g == own[p]
           f == WithoutApprovals(meta, {g})
       IN  /\ MutateVault([t \in {meta.intents[g].secret} \cap Present |->
                  ReconcilePolicyForSecret(vault[t].policy,
                      meta.intents[g].base, Required(f, t))])
           /\ HoldWith(p, f, "saving")
    /\ own' = [own EXCEPT ![p] = None]
    /\ UNCHANGED <<meta, expired, req, nextBinding, nextGrant>>

(* RecoverPendingApprovals up to its vault write.  It runs when the TUI    *)
(* unlocks and takes every intent, also those of a running approval.       *)
RecoverPendingApprovals(p) ==
    /\ pc[p] = "idle" /\ Free
    /\ Pending(meta) # {}
    /\ LET f == RemoveGrants(meta, Pending(meta) \ Enabled(meta))
       IN  /\ MutateVault([t \in {s \in Present : IntentsFor(meta, s) # {}} |->
                  ReconcilePolicyForSecret(vault[t].policy,
                      ApprovalBaseline(meta, t), Required(f, t))])
           /\ HoldWith(p, RemoveIntents(f, Pending(meta)), "saving")
    /\ UNCHANGED <<meta, expired, req, own, nextBinding, nextGrant>>
-----------------------------------------------------------------------------
(* mutateBrokerPolicy up to its vault write: f is the mutated metadata and *)
(* S the records it affects.                                               *)
MutateBrokerPolicy(p, f, S) ==
    /\ pc[p] = "idle" /\ Free
    /\ MutateVault([t \in S \cap Present |->
          ReconcileCurrentPolicy(vault[t].policy, Required(f, t))])
    /\ HoldWith(p, f, "saving")
    /\ UNCHANGED <<meta, expired, req, own, nextBinding, nextGrant>>

RevokeGrant(p, g) ==
    /\ g \in Grants(meta)
    /\ MutateBrokerPolicy(p, Suspend(meta, {g}),
                          {meta.bindings[meta.grants[g].binding]})

ReconcileExpiredGrants(p) ==
    LET old == Enabled(meta) \cap expired
    IN  /\ old # {}
        /\ MutateBrokerPolicy(p, Suspend(meta, old),
              {meta.bindings[meta.grants[g].binding] : g \in old})

GrantsOf(f, b) == {g \in Grants(f) : f.grants[g].binding = b}

RebindBindingForgettingOldTarget(p, b, s) ==
    /\ b \in Bindings(meta)
    /\ MutateBrokerPolicy(p,
          [Suspend(meta, GrantsOf(meta, b)) EXCEPT !.bindings[b] = s], {s})
RebindBinding(p, b, s) ==
    /\ b \in Bindings(meta)
    /\ MutateBrokerPolicy(p,
          [Suspend(meta, GrantsOf(meta, b)) EXCEPT !.bindings[b] = s],
          {meta.bindings[b], s})

IntentsOf(f, b) == {g \in Pending(f) : f.intents[g].binding = b}

WithoutBindingKeepingIntents(f, b) ==
    [RemoveGrants(f, GrantsOf(f, b)) EXCEPT !.bindings[b] = None]
WithoutBinding(f, b) ==
    [RemoveIntents(RemoveGrants(f, GrantsOf(f, b)), IntentsOf(f, b))
        EXCEPT !.bindings[b] = None]

DeleteBinding(p, b) ==
    /\ b \in Bindings(meta)
    /\ MutateBrokerPolicy(p, WithoutBinding(meta, b), {meta.bindings[b]})

(* The lock holder saves its metadata and releases the lock. *)
SaveBrokerFile(p) ==
    /\ pc[p] \in {"activating", "saving"}
    /\ meta' = work
    /\ Release
    /\ pc' = [pc EXCEPT ![p] = "idle"]
    /\ own' = [own EXCEPT ![p] = None]
    /\ UNCHANGED <<vault, expired, req, nextBinding, nextGrant>>

(* The process dies, its session is locked, or its operation returns an    *)
(* error before anything more is written.  The kernel releases its flock.  *)
Interrupt(p) ==
    /\ pc[p] # "idle"
    /\ IF lock = p THEN Release ELSE UNCHANGED <<lock, work>>
    /\ pc' = [pc EXCEPT ![p] = "idle"]
    /\ req' = [req EXCEPT ![p] = None]
    /\ own' = [own EXCEPT ![p] = None]
    /\ UNCHANGED <<meta, vault, expired, nextBinding, nextGrant>>
-----------------------------------------------------------------------------
(* `access binding add`: the policy first (if a flag asks for it), in a    *)
(* vault transaction of its own, then the binding.                         *)
AddBindingPolicy(p, s, caps) ==
    /\ pc[p] = "idle"
    /\ s \in Present
    /\ IF caps = {}
       THEN UNCHANGED vault
       ELSE MutateVault([t \in {s} |-> MarkBrokerAdministrative(
                vault[t].policy, vault[t].policy.admin \cup caps)])
    /\ req' = [req EXCEPT ![p] = s]
    /\ pc' = [pc EXCEPT ![p] = "adding"]
    /\ UNCHANGED <<meta, expired, lock, work, own, nextBinding, nextGrant>>

AddBinding(p) ==
    /\ pc[p] = "adding" /\ Free
    /\ nextBinding \in BindingIds
    /\ meta' = [meta EXCEPT !.bindings[nextBinding] = req[p]]
    /\ nextBinding' = nextBinding + 1
    /\ req' = [req EXCEPT ![p] = None]
    /\ pc' = [pc EXCEPT ![p] = "idle"]
    /\ UNCHANGED <<vault, expired, lock, work, own, nextGrant>>

(* cleanupStaleStagedAccessCmd: opening the Access screen drops the        *)
(* disabled grants created before a cutoff, with their intents.            *)
CleanupStaleStaged(cutoff) ==
    /\ Free
    /\ LET stale == {g \in Grants(meta) \ Enabled(meta) : g <= cutoff}
       IN  meta' = WithoutApprovals(meta, stale)
    /\ UNCHANGED <<vault, expired, lock, work, pc, req, own, nextBinding,
                   nextGrant>>

(* `vault archive` and `vault delete`: vault transactions that know        *)
(* nothing of broker.json.                                                 *)
ArchiveSecret(s) ==
    /\ s \in Present
    /\ vault' = [t \in Secrets |->
          IF vault[t] = None THEN None
          ELSE [archived |-> vault[t].archived \/ t = s,
                policy   |-> NormalizeBrokerPolicyProvenance(vault[t].policy)]]
    /\ UNCHANGED <<meta, expired, lock, work, pc, req, own, nextBinding,
                   nextGrant>>

RemoveSecret(s) ==
    /\ s \in Present
    /\ vault' = [t \in Secrets |->
          IF t = s \/ vault[t] = None THEN None
          ELSE [vault[t] EXCEPT !.policy = NormalizeBrokerPolicyProvenance(@)]]
    /\ UNCHANGED <<meta, expired, lock, work, pc, req, own, nextBinding,
                   nextGrant>>

Expire(g) ==
    /\ g \in Grants(meta) \ expired
    /\ expired' = expired \cup {g}
    /\ UNCHANGED <<meta, vault, lock, work, pc, req, own, nextBinding,
                   nextGrant>>
-----------------------------------------------------------------------------
Approve(p) ==
    \/ \E b \in BindingIds \cup {None}, s \in Secrets,
          caps \in (SUBSET Caps) \ {{}} : PrepareApproval(p, b, s, caps)
    \/ StageApproval(p)
    \/ CancelStagedApproval(p)
    \/ CommitApproval(p)
    \/ CommitFails(p)
    \/ RecoverApprovalGrant(p)

Administer(p) ==
    \/ \E g \in GrantIds : RevokeGrant(p, g)
    \/ ReconcileExpiredGrants(p)
    \/ \E b \in BindingIds, s \in Secrets : RebindBinding(p, b, s)
    \/ \E b \in BindingIds : DeleteBinding(p, b)
    \/ \E s \in Secrets, caps \in SUBSET Caps : AddBindingPolicy(p, s, caps)
    \/ AddBinding(p)

Next ==
    \/ \E p \in Procs : \/ Approve(p)
                        \/ Administer(p)
                        \/ RecoverPendingApprovals(p)
                        \/ SaveBrokerFile(p)
                        \/ Interrupt(p)
    \/ \E cutoff \in GrantIds : CleanupStaleStaged(cutoff)
    \/ \E s \in Secrets : ArchiveSecret(s) \/ RemoveSecret(s)
    \/ \E g \in GrantIds : Expire(g)

Spec == Init /\ [][Next]_vars
-----------------------------------------------------------------------------
(* The shape of the state, in every step of every operation. *)
TypeOK ==
    /\ meta \in File /\ work \in File
    /\ vault \in [Secrets -> Record \cup {None}]
    /\ expired \subseteq GrantIds
    /\ lock \in Procs \cup {None}
    /\ pc \in [Procs -> States]
    /\ req \in [Procs -> Request \cup Secrets \cup {None}]
    /\ own \in [Procs -> GrantIds \cup {None}]
    /\ nextBinding \in 1..MaxBindings + 1
    /\ nextGrant \in 1..MaxGrants + 1

(* What File.Validate checks of broker.json and what the approval code     *)
(* relies on: a grant names an existing binding, and a pending intent      *)
(* belongs to a grant that is there, is switched off and has the intent's  *)
(* binding.                                                                *)
Consistent(f) ==
    /\ \A g \in Grants(f) : f.grants[g].binding \in Bindings(f)
    /\ Pending(f) \subseteq Grants(f) \ Enabled(f)
    /\ \A g \in Pending(f) : f.intents[g].binding = f.grants[g].binding

(* broker.json is consistent after every save, and so is what a lock       *)
(* holder is about to save: no interleaving of approvals, revocations,     *)
(* deletions and clean-ups leaves a file that LoadBrokerFile would refuse, *)
(* which would lock every broker operation out.                            *)
MetadataConsistent == Consistent(meta) /\ Consistent(work)

(* Policy held by administrative decision: the code promises that          *)
(* reconciliation preserves it.                                            *)
MarkStep == \E p \in Procs, s \in Secrets, caps \in SUBSET Caps :
                AddBindingPolicy(p, s, caps)

KeepsAdministrativePolicy ==
    \A s \in Present : vault'[s] # None =>
        LET old == vault[s].policy
            new == vault'[s].policy
        IN  /\ old.admin \subseteq new.admin
            /\ MarkStep \/ AdminSourced(old) \subseteq AdminSourced(new)

(* "while preserving administrative policy": no approval, recovery,        *)
(* revocation, expiry, rebinding or deletion takes away a capability the   *)
(* record holds by administrative decision, and nothing at all clears an   *)
(* explicit administrative flag.                                           *)
AdministrativePolicyKept == [][KeepsAdministrativePolicy]_vars

KeepsNeededPolicy ==
    \A g \in Enabled(meta) \ expired :
        LET s == meta.bindings[meta.grants[g].binding]
        IN  s \in Present /\ vault'[s] # None =>
                \/ meta.grants[g].caps \cap vault[s].policy.allow
                       \subseteq vault'[s].policy.allow
                \/ MarkStep
                \/ lock' # None /\ g \notin Enabled(work')

(* A capability that an enabled, unexpired grant needs is taken from its   *)
(* record only by an administrator or by the operation that is suspending, *)
(* moving or removing that very grant, so that recovering or cancelling    *)
(* one approval never breaks another one's grant.                          *)
NeededPolicyKept == [][KeepsNeededPolicy]_vars

(* Where each grant stands, in the metadata f.  An approval that was not   *)
(* committed differs from a revoked grant by its intent.                   *)
StageOf(f) == [g \in GrantIds |->
    IF g >= nextGrant THEN "unborn"
    ELSE IF f.grants[g] = None THEN "gone"
    ELSE IF f.grants[g].enabled THEN "active"
    ELSE IF f.intents[g] # None THEN "staged"
    ELSE "suspended"]

stage == StageOf(meta)

Lifecycle == INSTANCE GrantLifecycle WITH state <- stage

(* Concurrent approvals, recoveries and lifecycle operations, crashing     *)
(* anywhere between the two stores, implement the life of a grant.         *)
ImplementsGrantLifecycle == Lifecycle!Spec
=============================================================================
