---------------------------- MODULE BrokerPolicy ----------------------------
(***************************************************************************)
(* The broker part of a vault record's policy, and the functions of        *)
(* internal/secret/secret.go, internal/broker/approval.go and              *)
(* internal/broker/lifecycle.go that rewrite it.                           *)
(*                                                                         *)
(* The Go code repeats every line for "resolve" and for "rotate"; here a   *)
(* capability is a member of Caps, a pair of booleans is a set of          *)
(* capabilities, and the pair of provenance strings is a function.         *)
(* SecretPolicy.Version is left out: every loaded record has version 1     *)
(* (migrateSecretV1ToV2), so EffectiveBrokerResolve is AllowBrokerResolve. *)
(***************************************************************************)
EXTENDS Naturals

CONSTANT Caps   \* Capability: {"resolve", "rotate"} in the code

(* BrokerPolicySource: "none" is the empty string of a legacy record. *)
Sources == {"none", "administrative", "grant"}

Policies == [allow    : SUBSET Caps,         \* AllowBroker*
             source   : [Caps -> Sources],   \* Broker*Source
             admin    : SUBSET Caps,         \* BrokerAdmin*
             revision : Nat]                 \* BrokerAdminRevision

(* The policy of a record created since broker policies exist, and of one *)
(* whose bits an older release set without recording where they came from. *)
DenyAll == [allow |-> {}, source |-> [c \in Caps |-> "none"],
            admin |-> {}, revision |-> 0]
Unlabelled(caps) == [DenyAll EXCEPT !.allow = caps]

(* What an approval intent remembers of a policy: the bits it had and its  *)
(* administrative revision.                                                *)
Baselines == [allow : SUBSET Caps, revision : Nat]

(* The capabilities a policy holds by administrative decision. *)
AdminSourced(p) == {c \in p.allow : p.source[c] = "administrative"}
GrantSourced(p) == {c \in p.allow : p.source[c] = "grant"}

(* Runs over every record of the vault whenever the vault is written. *)
NormalizeBrokerPolicyProvenance(p) ==
    [allow    |-> p.allow \cup p.admin,
     source   |-> [c \in Caps |->
         IF c \in p.admin \/ (c \in p.allow /\ p.source[c] = "none")
         THEN "administrative"
         ELSE IF c \notin p.allow /\ p.source[c] = "grant"
              THEN "none"
              ELSE p.source[c]],
     admin    |-> p.admin,
     revision |-> p.revision]

(* An administrator sets the explicit flags to exactly `caps`. *)
MarkBrokerAdministrative(p, caps) ==
    [allow    |-> caps,
     source   |-> [c \in Caps |->
                      IF c \in caps THEN "administrative" ELSE "none"],
     admin    |-> caps,
     revision |-> IF caps = p.admin THEN p.revision ELSE p.revision + 1]

(* Committing an approval turns the grant's capabilities on. *)
WithGrant(p, caps, relabel) ==
    [allow    |-> p.allow \cup caps,
     source   |-> [c \in Caps |->
                      IF c \in relabel THEN "grant" ELSE p.source[c]],
     admin    |-> p.admin,
     revision |-> p.revision]
ApplyGrantPolicyRelabelling(p, caps) == WithGrant(p, caps, caps)
ApplyGrantPolicy(p, caps) ==
    WithGrant(p, caps, {c \in caps : p.source[c] # "administrative"})

(* The policy with exactly the capabilities of `kept` held by              *)
(* administrative decision and those of `need` required by grants.         *)
Rebuilt(p, kept, need, admin) ==
    [allow    |-> kept \cup need,
     source   |-> [c \in Caps |->
                      IF c \in kept THEN "administrative"
                      ELSE IF c \in need THEN "grant" ELSE "none"],
     admin    |-> admin,
     revision |-> p.revision]

(* Recovery: `base` is what the record allowed when the approval was       *)
(* staged.  A newer administrative revision replaces it by the flags.      *)
ReconcilePolicyForSecret(p, base, need) ==
    LET prior == IF p.revision # base.revision THEN p.admin ELSE base.allow
    IN  Rebuilt(p, prior \cup AdminSourced(p), need, p.admin)

(* Revocation, expiry, rebinding and deletion: the administrative part is  *)
(* recomputed from the record and written back to the flags.               *)
ReconcileCurrentPolicyIgnoringGrants(p, need) ==
    LET kept == p.admin \cup AdminSourced(p)
    IN  Rebuilt(p, kept, {}, kept)
ReconcileCurrentPolicy(p, need) ==
    LET kept == p.admin \cup AdminSourced(p)
    IN  Rebuilt(p, kept, need, kept)
=============================================================================
