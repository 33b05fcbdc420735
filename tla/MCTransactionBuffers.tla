------------------------ MODULE MCTransactionBuffers ------------------------
(* Instances of TransactionBuffers for TLC.                                *)
EXTENDS TransactionBuffers, TLC

CONSTANTS e1, e2, p1, c1, c2

ByPasskey == {<<p1, 0>>}

Wallet(rights, threshold) ==
  [members |-> [k \in Keys |->
                  IF k \in DOMAIN rights
                  THEN NewMember("Member", rights[k], FALSE) ELSE NoMember],
   threshold |-> threshold]

TwoOfTwo     == Wallet(e1 :> AllPermissions @@ e2 :> {"Vote", "Execute"}, 2)
WithPasskey  == Wallet(e1 :> {"Initiate"} @@ e2 :> {"Vote", "Execute"} @@ p1 :> AllPermissions, 2)
OneVoter     == Wallet(e2 :> {"Initiate", "Execute"} @@ p1 :> {"Initiate", "Vote"}, 1)

ThreeConfigs == {TwoOfTwo, WithPasskey, OneVoter}

Announce(hashes, final, size) ==
  [extend_hashes |-> hashes, final_hash |-> final, final_size |-> size]

\* A two-chunk message; one hash too many; a size the hash contradicts; a hash
\* no upload reaches.
ManyPlans ==
  {Announce(<<c1, c2>>, <<c1, c2>>, 2), Announce(<<c1, c2>>, <<c1>>, 1),
   Announce(<<c1>>, <<c1>>, 2), Announce(<<c2>>, <<c1>>, 1)}

Nobody == [k \in Keys |-> "Unexpected"]

Declarations ==
  {Nobody,
   [Nobody EXCEPT ![e1] = "AnyAction", ![e2] = "AnyAction"],
   [Nobody EXCEPT ![e2] = "AnyAction", ![p1] = "Execute"],
   [Nobody EXCEPT ![e2] = "AnyAction", ![p1] = "Vote"]}
=============================================================================
