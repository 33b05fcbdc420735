-------------------------- MODULE MCWalletRegistry --------------------------
(* Instances of WalletRegistry for TLC.                                    *)
EXTENDS WalletRegistry, TLC

VariedPermissions == {AllPermissions, {"Vote"}}

MCSymmetry == Permutations(Ed25519Keys) \cup Permutations(Secp256r1Keys)
=============================================================================
