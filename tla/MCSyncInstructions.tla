------------------------- MODULE MCSyncInstructions -------------------------
(* Instances of SyncInstructions for TLC.                                  *)
EXTENDS SyncInstructions, TLC

CONSTANTS e1, p1, p2, w1, w2, m1

Wallet(members, threshold) ==
  [members |-> [k \in Keys |-> IF k \in DOMAIN members THEN members[k] ELSE NoMember],
   threshold |-> threshold]

Right(flag) == NewMember("Member", AllPermissions, flag)

\* Two wallets of one passkey, which delegates to the first of them and may be
\* listed twice, with two assertions.
TwoWallets == w1 :> Wallet(p1 :> Right(TRUE), 1) @@ w2 :> Wallet(p1 :> Right(FALSE), 1)

\* One wallet that needs two votes, of two passkeys and an Ed25519 key.
Shared == w1 :> Wallet(e1 :> Right(FALSE) @@ p1 :> Right(TRUE) @@ p2 :> Right(FALSE), 2)

=============================================================================
