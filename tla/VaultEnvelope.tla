--------------------------- MODULE VaultEnvelope ---------------------------
(***************************************************************************)
(* The sealed vault file (internal/secret/crypto.go, vault.go, repair.go): *)
(* what an envelope says of itself, the key that really opens it, and the  *)
(* ways the code opens, reseals and diagnoses one.                         *)
(*                                                                         *)
(* A key is known by what it was derived from; sealing is perfect, so an   *)
(* envelope opens with the key it was sealed with and with no other.  The  *)
(* salts, and the random keys of keyring vaults, are numbered.             *)
(***************************************************************************)
EXTENDS Naturals

CONSTANTS Records       \* the versions of records a vault can hold

Master == "master"      \* the vault's master password
Wrong == "wrong"
NoPassword == ""

(* The parameter shapes the derivation tells apart: Time = 0 (Argon2i), the *)
(* early Time = 1, and DefaultArgon2Params.                                *)
Shapes == {"legacy", "time1", "default"}
NoParams == "legacy"    \* KDFParams{}
NoDigest == "none"

Keys == [from : {Master, Wrong, NoPassword, "random"}, n : Nat, shape : Shapes]

(* digest: the parameters the metadata digest was taken over.              *)
Envelopes == [mode : {"password", "keyring"}, params : Shapes, salt : Nat,
              digest : Shapes \cup {NoDigest}, key : Keys,
              contents : SUBSET Records]

DeriveKeyWithParams(pw, salt, shape) == [from |-> pw, n |-> salt, shape |-> shape]
RandomVaultKey(n) == [from |-> "random", n |-> n, shape |-> NoParams]

(* The key a password yields by the envelope's own metadata. *)
KeyOf(pw, env) == DeriveKeyWithParams(pw, env.salt, env.params)

(* readEnvelopeFile: the digest must match the metadata. *)
Readable(env) == env.digest \in {NoDigest, env.params}

LoadsByKey(key, env) == Readable(env) /\ env.key = key

LoadsByPassword(pw, env) ==
    /\ pw # NoPassword
    /\ env.mode # "keyring"
    /\ LoadsByKey(KeyOf(pw, env), env)

RecoveryCandidates(env) == {env.params, NoParams, "time1", "default"}

(* validateLegacyEnvelopeOnly and validateEnvelopeDigestForRecovery *)
RecoveryReadable(env) ==
    /\ env.mode # "keyring"
    /\ env.digest \in {NoDigest} \cup RecoveryCandidates(env)

Recovering(pw, env) ==
    {c \in RecoveryCandidates(env) : env.key = DeriveKeyWithParams(pw, env.salt, c)}

OpensWithRecovery(pw, env) == RecoveryReadable(env) /\ Recovering(pw, env) # {}

(* DiagnoseUnlock: the stored parameters are tried first, digest or not.   *)
DiagnoseUnlock(pw, env) ==
    CASE env.mode = "keyring" -> "refused"
      [] env.mode # "keyring" /\ env.key = KeyOf(pw, env) -> "unlocks"
      [] OTHER -> IF OpensWithRecovery(pw, env) THEN "mismatch" ELSE "wrong password"

(* SealWithKey, with the salt and the parameters the key was derived from. *)
SealWithKeyUpgrading(key, contents, salt, params) ==
    [mode |-> "password", params |-> "default", salt |-> salt, digest |-> "default",
     key |-> key, contents |-> contents]
SealWithKey(key, contents, salt, params) ==
    [mode |-> "password", params |-> params, salt |-> salt, digest |-> params,
     key |-> key, contents |-> contents]

(* SealEnvelope: a password vault with a new salt. *)
SealEnvelope(pw, contents, salt) ==
    SealWithKey(DeriveKeyWithParams(pw, salt, "default"), contents, salt, "default")

SealKeyringEnvelope(key, contents, salt) ==
    [SealWithKey(key, contents, salt, NoParams) EXCEPT !.mode = "keyring"]

(* writeVaultWithKeyLocked: the metadata on disk outlive the write. *)
Reseal(key, contents, env) ==
    [SealWithKey(key, contents, env.salt, env.params) EXCEPT !.mode = env.mode]

(* The same when they could not be read: no salt makes it a new vault's.   *)
ResealUnread(key, contents, salt) == SealWithKey(key, contents, salt, "default")

(* repairVaultLocked: keep the derivation that worked, or take a new one. *)
Preserved(pw, env) ==
    SealWithKey(env.key, env.contents, env.salt, CHOOSE c \in Recovering(pw, env) : TRUE)
Upgraded(pw, env, salt) == SealEnvelope(pw, env.contents, salt)
=============================================================================
