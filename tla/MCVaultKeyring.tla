--------------------------- MODULE MCVaultKeyring ---------------------------
EXTENDS VaultKeyring, TLC

Symmetric == Permutations(Processes) \cup Permutations(Records) \cup Permutations(RecoveryFiles)

(* No vault yet, or one of the early version whose metadata claim the      *)
(* defaults for an older derivation; init, a repair and a rekey make the   *)
(* others out of these.                                                    *)
MCInstalled == {None, OldVault("time1", "default", NoDigest)}

(* One whose metadata are right.                                           *)
MCSound == {OldVault("time1", "time1", "time1")}
=============================================================================
