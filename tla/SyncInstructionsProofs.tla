----------------------- MODULE SyncInstructionsProofs -----------------------
(***************************************************************************)
(* Proofs about SyncInstructions, for any number of wallets, members,      *)
(* slots and instructions: no wallet accepts an assertion twice but to     *)
(* create a buffer or to vote for one, a transfer intent is accepted by    *)
(* another wallet only behind a delegation to it that is older than the    *)
(* intent, the search of the slot hashes finds exactly what they hold, and *)
(* the next block always unlocks a wallet.                                 *)
(***************************************************************************)
EXTENDS SyncInstructions, FiniteSetTheorems, TLAPS

-----------------------------------------------------------------------------
(* The operators of MultisigSettings.                                      *)

\* A new member is one.
LEMMA NewMemberType ==
  ASSUME NEW role \in UserRole, NEW permissions \in SUBSET Permission,
         NEW flag \in BOOLEAN
  PROVE  NewMember(role, permissions, flag) \in Member
BY DEF NewMember, Member

\* What each kind of configuration action carries.
LEMMA ActionFields ==
  ASSUME NEW a \in ConfigAction
  PROVE  /\ a.type \in {"AddMember", "EditPermissions"} =>
              a.key \in Keys /\ a.permissions \in SUBSET Permission
         /\ a.type = "RemoveMember" => a.key \in Keys
         /\ a.type = "SetThreshold" => a.threshold \in Nat
         /\ a.type \in {"AddMember", "EditPermissions", "RemoveMember",
                        "SetThreshold", "Nothing"}
<1>1. CASE a \in [type : {"AddMember", "EditPermissions"}, key : Keys,
                  permissions : PermissionSets]
  BY <1>1, ConfigInputAssumption
<1>2. CASE a \in [type : {"RemoveMember"}, key : Keys]
  BY <1>2
<1>3. CASE a \in [type : {"SetThreshold"}, threshold : Thresholds]
  BY <1>3, ConfigInputAssumption
<1>4. CASE a = Nothing
  BY <1>4 DEF Nothing
<1> QED BY <1>1, <1>2, <1>3, <1>4 DEF ConfigAction

\* The working copy of a change_config batch.
Working == [members : [Keys -> Member \cup {NoMember}], threshold : Nat,
            repeated : SUBSET Keys]

\* A configuration action that is allowed keeps the working copy well formed.
LEMMA AppliedToType ==
  ASSUME NEW w \in Working, NEW a \in ConfigAction, NEW roleOf,
         ActionAllowed(w, a),
         a.type = "AddMember" => roleOf[a.key] \in UserRole
  PROVE  AppliedTo(w, a, roleOf) \in Working
<1>1. CASE a.type = "AddMember"
  <2>1. a.key \in Keys /\ a.permissions \in SUBSET Permission
    BY <1>1, ActionFields
  <2>2. NewMember(roleOf[a.key], a.permissions, FALSE) \in Member
    BY <1>1, <2>1, NewMemberType
  <2> QED BY <1>1, <2>1, <2>2 DEF AppliedTo, Working
<1>2. CASE a.type = "RemoveMember"
  <2>1. a.key \in Keys BY <1>2, ActionFields
  <2> QED BY <1>2, <2>1 DEF AppliedTo, Working
<1>3. CASE a.type = "EditPermissions"
  <2>1. a.key \in Keys /\ a.permissions \in SUBSET Permission
    BY <1>3, ActionFields
  <2>2. w.members[a.key] \in Member
    BY <1>3, <2>1 DEF ActionAllowed, Working
  <2>3. [w.members[a.key] EXCEPT !.permissions = a.permissions] \in Member
    BY <2>1, <2>2 DEF Member
  <2> QED BY <1>3, <2>1, <2>3 DEF AppliedTo, Working
<1>4. CASE a.type = "SetThreshold"
  BY <1>4, ActionFields DEF AppliedTo, Working
<1>5. CASE a.type = "Nothing"
  BY <1>5 DEF AppliedTo
<1> QED BY <1>1, <1>2, <1>3, <1>4, <1>5, ActionFields

-----------------------------------------------------------------------------
(* Slots.                                                                  *)

\* What a wallet remembers after it accepted some slots.
LEMMA SlotsConsumed ==
  ASSUME NEW table, NEW latest \in Nat, NEW slots \in SUBSET (1..MaxSlot),
         SlotsAllowed(table, latest, slots)
  PROVE  /\ LatestAfter(latest, slots) \in Nat
         /\ latest <= LatestAfter(latest, slots)
         /\ LatestAfter(latest, slots) \in slots \cup {latest}
         /\ \A n \in slots : latest < n /\ n <= LatestAfter(latest, slots)
<1>1. CASE slots = {}
  BY <1>1 DEF LatestAfter
<1>2. CASE slots # {}
  <2>1. PICK g \in slots : \A n \in slots : n <= g
    BY <1>2 DEF SlotsAllowed
  <2>2. \A n \in slots : n \in Nat
    BY SyncAssumption
  <2>3. Greatest(slots) \in slots /\ \A n \in slots : n <= Greatest(slots)
    BY <2>1, <2>2 DEF Greatest
  <2>4. \A n \in slots : latest < n
    BY <1>2 DEF SlotsAllowed
  <2>5. LatestAfter(latest, slots) = Greatest(slots)
    BY <1>2 DEF LatestAfter
  <2>6. latest < Greatest(slots) /\ Greatest(slots) \in Nat
    BY <2>2, <2>3, <2>4
  <2> QED BY <2>3, <2>4, <2>5, <2>6
<1> QED BY <1>1, <1>2

\* Slots that are allowed are in the past.
LEMMA SlotsArePast ==
  ASSUME TypeOK, NEW latest, NEW slots \in SUBSET (1..MaxSlot),
         SlotsAllowed(hashes, latest, slots)
  PROVE  \A n \in slots : n < slot
<1> SUFFICES ASSUME NEW n \in slots PROVE n < slot
  OBVIOUS
<1>1. hashes # << >> /\ n <= hashes[1]
  BY DEF SlotsAllowed
<1>2. hashes \in Seq(Nat)
  BY DEF TypeOK, Table
<1>3. 1 \in DOMAIN hashes /\ hashes[1] \in Nat
  BY <1>1, <1>2
<1>4. hashes[1] \in 1..(slot - 1)
  BY <1>3 DEF TypeOK, SlotsIn
<1> QED BY <1>1, <1>4, n \in 1..MaxSlot, slot \in 1..MaxSlot, SyncAssumption DEF TypeOK

\* The slots of a signer list.
LEMMA SignerListType ==
  ASSUME NEW signers \in SignerLists
  PROVE  /\ \A j \in DOMAIN signers : signers[j] \in Signer /\ signers[j].key \in Keys
         /\ \A j \in Passkeys(signers) : signers[j].slot \in 1..MaxSlot
         /\ SlotNumbers(signers) \in SUBSET (1..MaxSlot)
<1>1. \A j \in DOMAIN signers : signers[j] \in Signer
  BY DEF SignerLists
<1>2. \A s \in Signer : s.key \in Keys /\ (s.key \in Secp256r1Keys => s.slot \in 1..MaxSlot)
  BY KeysAssumption DEF Signer, Keys
<1> QED BY <1>1, <1>2 DEF Passkeys, SlotNumbers

\* The table stays a table when a block is pushed.
LEMMA PushedType ==
  ASSUME TypeOK
  PROVE  /\ Pushed(hashes, slot) \in Table
         /\ SlotsIn(Pushed(hashes, slot)) \subseteq 1..slot
         /\ Len(Pushed(hashes, slot)) <= TableSize
<1> DEFINE kept == IF Len(hashes) < TableSize THEN hashes
                   ELSE SubSeq(hashes, 1, TableSize - 1)
           pushed == Pushed(hashes, slot)
<1>1. hashes \in Seq(Nat) /\ slot \in Nat \ {0} /\ Len(hashes) <= TableSize
  BY SyncAssumption DEF TypeOK, Table
<1>2. \A i, j \in 1..Len(hashes) : i < j => hashes[i] > hashes[j]
  BY <1>1 DEF TypeOK, Table
<1>3. \A i \in 1..Len(hashes) : hashes[i] \in 1..(slot - 1)
  BY <1>1 DEF TypeOK, SlotsIn
<1>4. /\ kept \in Seq(Nat)
      /\ Len(kept) <= TableSize - 1
      /\ Len(kept) <= Len(hashes)
      /\ Len(kept) \in Nat /\ Len(hashes) \in Nat
      /\ \A i \in 1..Len(kept) : kept[i] = hashes[i]
  BY <1>1, TableSizeAssumption
<1>5. pushed = <<slot>> \o kept
  BY DEF Pushed
<1> HIDE DEF kept, pushed
<1>6. /\ pushed \in Seq(Nat)
      /\ Len(pushed) = Len(kept) + 1
      /\ pushed[1] = slot
      /\ \A i \in 2..Len(pushed) : i - 1 \in 1..Len(kept) /\ pushed[i] = kept[i - 1]
  BY <1>1, <1>4, <1>5
<1>7. \A i \in 1..Len(pushed) :
        i # 1 => i - 1 \in 1..Len(hashes) /\ pushed[i] = hashes[i - 1]
  <2> SUFFICES ASSUME NEW i \in 1..Len(pushed), i # 1
               PROVE  i - 1 \in 1..Len(hashes) /\ pushed[i] = hashes[i - 1]
    OBVIOUS
  <2>1. i \in 2..Len(pushed)
    BY <1>4, <1>6
  <2>2. i - 1 \in 1..Len(kept) /\ pushed[i] = kept[i - 1]
    BY <1>6, <2>1
  <2>3. i - 1 \in 1..Len(hashes)
    BY <1>4, <2>2
  <2> QED BY <1>4, <2>2, <2>3
<1>8. \A i, j \in 1..Len(pushed) : i < j => pushed[i] > pushed[j]
  <2> SUFFICES ASSUME NEW i \in 1..Len(pushed), NEW j \in 1..Len(pushed), i < j
               PROVE  pushed[i] > pushed[j]
    OBVIOUS
  <2>1. j - 1 \in 1..Len(hashes) /\ pushed[j] = hashes[j - 1]
    BY <1>4, <1>6, <1>7
  <2>2. CASE i = 1
    <3>1. hashes[j - 1] \in 1..(slot - 1) BY <1>3, <2>1
    <3> QED BY <1>1, <1>6, <2>1, <2>2, <3>1, SMTT(30)
  <2>3. CASE i # 1
    <3>1. i - 1 \in 1..Len(hashes) /\ pushed[i] = hashes[i - 1]
      BY <1>7, <2>3
    <3>2. i - 1 < j - 1
      BY <1>4, <1>6
    <3>3. hashes[i - 1] > hashes[j - 1]
      BY <1>2, <2>1, <3>1, <3>2
    <3> QED BY <2>1, <3>1, <3>3
  <2> QED BY <2>2, <2>3
<1>9. \A i \in 1..Len(pushed) : pushed[i] \in 1..slot
  <2> SUFFICES ASSUME NEW i \in 1..Len(pushed) PROVE pushed[i] \in 1..slot
    OBVIOUS
  <2>1. CASE i = 1 BY <1>1, <1>6, <2>1
  <2>2. CASE i # 1
    <3>1. hashes[i - 1] \in 1..(slot - 1) /\ pushed[i] = hashes[i - 1]
      BY <1>3, <1>7, <2>2
    <3> QED BY <1>1, <3>1
  <2> QED BY <2>1, <2>2
<1>10. DOMAIN pushed = 1..Len(pushed)
  BY <1>6
<1>11. pushed \in Table /\ SlotsIn(pushed) \subseteq 1..slot /\ Len(pushed) <= TableSize
  BY <1>4, <1>6, <1>8, <1>9, <1>10, TableSizeAssumption DEF Table, SlotsIn
<1> QED BY <1>11 DEF pushed

-----------------------------------------------------------------------------
(* The binary search of fetch_slot_hash.                                   *)

\* Induction, for a set: provers can cite it where they could not instantiate
\* a predicate.
LEMMA SetInduction ==
  ASSUME NEW T, 0 \in T, \A n \in Nat : n \in T => n + 1 \in T
  PROVE  Nat \subseteq T
<1> DEFINE B == Nat \ T
           R == OpToRel(<, Nat)
<1>1. SUFFICES ASSUME B # {} PROVE FALSE
  OBVIOUS
<1>2. IsWellFoundedOn(R, Nat)
  BY NatLessThanWellFounded
<1>3. PICK x \in B : \A y \in B : <<y, x>> \notin R
  BY <1>1, <1>2, WFMin
<1>4. x # 0 /\ x - 1 \in Nat /\ x - 1 \notin B
  <2>1. x # 0 OBVIOUS
  <2>2. x - 1 \in Nat BY <2>1
  <2>3. <<x - 1, x>> \in R BY <2>2 DEF OpToRel
  <2> QED BY <2>1, <2>2, <2>3, <1>3
<1> QED BY <1>4

\* One step of the search.
SearchStep(table, n, f, l, r) ==
  LET mid == l + (r - l) \div 2
  IN  IF l >= r THEN NotFound
      ELSE IF table[mid + 1] = n THEN mid
      ELSE IF table[mid + 1] > n THEN f[<<mid + 1, r>>]
      ELSE f[<<l, mid>>]

Searches(table, n, f) ==
  f = [b \in Bounds(table) |-> SearchStep(table, n, f, b[1], b[2])]

\* The middle of a range that is not empty.
LEMMA Middle ==
  ASSUME NEW l \in Nat, NEW r \in Nat, l < r
  PROVE  LET mid == l + (r - l) \div 2 IN mid \in l..(r - 1)
OBVIOUS

Within(table, n, l, r) == {i \in l..(r - 1) : table[i + 1] = n}

\* What the search returns for a range, told without searching.
FoundIn(table, n, l, r) ==
  IF Within(table, n, l, r) = {} THEN NotFound ELSE CHOOSE i \in Within(table, n, l, r) : TRUE

Halved(table, n, l, r, mid) ==
  /\ table[mid + 1] = n => Within(table, n, l, r) = {mid}
  /\ n < table[mid + 1] => Within(table, n, l, r) = Within(table, n, mid + 1, r)
  /\ table[mid + 1] < n => Within(table, n, l, r) = Within(table, n, l, mid)

\* The answer for a range from the answers for its halves.
LEMMA Halves ==
  ASSUME NEW table \in Table, NEW n \in Nat,
         NEW l \in 0..Len(table), NEW r \in 0..Len(table), l < r,
         NEW mid \in l..(r - 1)
  PROVE  Halved(table, n, l, r, mid)
<1>1. Len(table) \in Nat /\ table \in Seq(Nat) /\ DOMAIN table = 1..Len(table)
  BY DEF Table
<1>2. \A i, j \in 0..(Len(table) - 1) : i < j => table[i + 1] > table[j + 1]
  <2> SUFFICES ASSUME NEW i \in 0..(Len(table) - 1), NEW j \in 0..(Len(table) - 1), i < j
               PROVE  table[i + 1] > table[j + 1]
    OBVIOUS
  <2>1. i + 1 \in 1..Len(table) /\ j + 1 \in 1..Len(table) /\ i + 1 < j + 1
    BY <1>1
  <2> QED BY <1>1, <2>1 DEF Table
<1>3. \A i \in 0..(Len(table) - 1) : table[i + 1] \in Nat
  BY <1>1
<1>4. /\ mid \in 0..(Len(table) - 1) /\ mid \in Nat /\ l \in Nat /\ r \in Nat
      /\ \A i \in l..(r - 1) : i \in 0..(Len(table) - 1) /\ i \in Nat
  BY <1>1
<1>5. \A i \in l..(r - 1) : i < mid => table[i + 1] > table[mid + 1]
  BY <1>2, <1>4
<1>6. \A i \in l..(r - 1) : mid < i => table[i + 1] < table[mid + 1]
  BY <1>2, <1>4, <1>3
<1>7. ASSUME table[mid + 1] = n PROVE Within(table, n, l, r) = {mid}
  BY <1>3, <1>4, <1>5, <1>6, <1>7 DEF Within
<1>8. ASSUME n < table[mid + 1] PROVE Within(table, n, l, r) = Within(table, n, mid + 1, r)
  BY <1>3, <1>4, <1>5, <1>6, <1>8 DEF Within
<1>9. ASSUME table[mid + 1] < n PROVE Within(table, n, l, r) = Within(table, n, l, mid)
  BY <1>3, <1>4, <1>5, <1>6, <1>9 DEF Within
<1> QED BY <1>7, <1>8, <1>9 DEF Halved

\* The function that looks at all of a range satisfies the equation of the search.
Search(table, n) == [b \in Bounds(table) |-> FoundIn(table, n, b[1], b[2])]

LEMMA SearchExists ==
  ASSUME NEW table \in Table, NEW n \in Nat
  PROVE  Searches(table, n, Search(table, n))
<1> DEFINE g == Search(table, n)
<1> HIDE DEF g
<1>1. Len(table) \in Nat /\ table \in Seq(Nat)
  BY DEF Table
<1>2. \A l, r \in 0..Len(table) : g[<<l, r>>] = FoundIn(table, n, l, r)
  BY DEF g, Search, Bounds
<1>3. ASSUME NEW l \in 0..Len(table), NEW r \in 0..Len(table)
      PROVE  FoundIn(table, n, l, r) = SearchStep(table, n, g, l, r)
  <2>1. CASE l >= r
    <3>1. Within(table, n, l, r) = {}
      BY <1>1, <2>1 DEF Within
    <3> QED BY <2>1, <3>1 DEF FoundIn, SearchStep
  <2>2. CASE l < r
    <3> DEFINE mid == l + (r - l) \div 2
    <3>1. mid \in l..(r - 1)
      BY <1>1, <2>2, Middle
    <3>2. mid \in 0..Len(table) /\ mid + 1 \in 0..Len(table) /\ table[mid + 1] \in Nat
      BY <1>1, <3>1
    <3>3. SearchStep(table, n, g, l, r) = IF table[mid + 1] = n THEN mid
                                          ELSE IF table[mid + 1] > n THEN g[<<mid + 1, r>>]
                                          ELSE g[<<l, mid>>]
      BY <1>1, <2>2 DEF SearchStep
    <3> HIDE DEF mid
    <3>7. Halved(table, n, l, r, mid)
      BY <2>2, <3>1, Halves
    <3>4. CASE table[mid + 1] = n
      BY <3>3, <3>4, <3>7 DEF FoundIn, Halved
    <3>5. CASE table[mid + 1] > n
      <4>1. SearchStep(table, n, g, l, r) = FoundIn(table, n, mid + 1, r)
        BY <1>2, <3>2, <3>3, <3>5
      <4>2. Within(table, n, l, r) = Within(table, n, mid + 1, r)
        BY <3>5, <3>7 DEF Halved
      <4> QED BY <4>1, <4>2 DEF FoundIn
    <3>6. CASE table[mid + 1] < n
      <4>1. SearchStep(table, n, g, l, r) = FoundIn(table, n, l, mid)
        BY <1>2, <3>2, <3>3, <3>6
      <4>2. Within(table, n, l, r) = Within(table, n, l, mid)
        BY <3>6, <3>7 DEF Halved
      <4> QED BY <4>1, <4>2 DEF FoundIn
    <3> QED BY <3>2, <3>4, <3>5, <3>6
  <2> QED BY <1>1, <2>1, <2>2
<1>4. \A b \in Bounds(table) : FoundIn(table, n, b[1], b[2]) = SearchStep(table, n, g, b[1], b[2])
  BY <1>3 DEF Bounds
<1>5. g = [b \in Bounds(table) |-> FoundIn(table, n, b[1], b[2])]
  BY DEF g, Search
<1> QED BY <1>4, <1>5 DEF Searches, g

\* It is the only one: by induction on the length of the range, of which each
\* half is shorter.
LEMMA SearchUnique ==
  ASSUME NEW table \in Table, NEW n \in Nat, NEW f, Searches(table, n, f),
         NEW l \in 0..Len(table), NEW r \in 0..Len(table)
  PROVE  f[<<l, r>>] = FoundIn(table, n, l, r)
<1> DEFINE g == Search(table, n)
           Same(k) == \A a, b \in 0..Len(table) : b - a <= k => f[<<a, b>>] = g[<<a, b>>]
           T == {k \in Nat : Same(k)}
<1>1. Len(table) \in Nat /\ table \in Seq(Nat)
  BY DEF Table
<1>2. Searches(table, n, g)
  BY SearchExists
<1>3. \A a, b \in 0..Len(table) : /\ f[<<a, b>>] = SearchStep(table, n, f, a, b)
                                  /\ g[<<a, b>>] = SearchStep(table, n, g, a, b)
  BY <1>2 DEF Searches, Bounds
<1> HIDE DEF g
<1>4. Same(0)
  <2> SUFFICES ASSUME NEW a \in 0..Len(table), NEW b \in 0..Len(table), b - a <= 0
               PROVE  f[<<a, b>>] = g[<<a, b>>]
    OBVIOUS
  <2>1. a >= b
    BY <1>1
  <2> QED BY <1>3, <2>1 DEF SearchStep
<1>5. ASSUME NEW k \in Nat, Same(k) PROVE Same(k + 1)
  <2> SUFFICES ASSUME NEW a \in 0..Len(table), NEW b \in 0..Len(table), b - a <= k + 1
               PROVE  f[<<a, b>>] = g[<<a, b>>]
    OBVIOUS
  <2>1. CASE a >= b
    BY <1>1, <1>3, <2>1 DEF SearchStep
  <2>2. CASE a < b
    <3> DEFINE mid == a + (b - a) \div 2
    <3>1. mid \in a..(b - 1)
      BY <1>1, <2>2, Middle
    <3> HIDE DEF mid
    <3>2. /\ mid \in 0..Len(table) /\ mid + 1 \in 0..Len(table)
          /\ b - (mid + 1) <= k /\ mid - a <= k
      BY <1>1, <3>1
    <3>3. f[<<mid + 1, b>>] = g[<<mid + 1, b>>] /\ f[<<a, mid>>] = g[<<a, mid>>]
      BY <1>5, <3>2
    <3> QED BY <1>3, <3>3 DEF SearchStep, mid
  <2> QED BY <1>1, <2>1, <2>2
<1>6. Nat \subseteq T
  <2>1. 0 \in T BY <1>4
  <2>2. \A k \in Nat : k \in T => k + 1 \in T
    <3> HIDE DEF Same
    <3> QED BY <1>5
  <2> HIDE DEF T
  <2> QED BY <2>1, <2>2, SetInduction
<1>7. Same(Len(table))
  BY <1>1, <1>6
<1>8. r - l <= Len(table)
  BY <1>1
<1>9. f[<<l, r>>] = g[<<l, r>>]
  BY <1>7, <1>8
<1> QED BY <1>9 DEF g, Search, Bounds

\* The search of fetch_slot_hash finds exactly the slots that the table holds, and
\* where they are, in a table of any length and with any gaps.
THEOREM SearchIsExact ==
  ASSUME NEW table \in Table, NEW n \in Nat
  PROVE  /\ Hashed(table, n) <=> n \in SlotsIn(table)
         /\ Hashed(table, n) => table[SlotIndex(table, n) + 1] = n
<1> DEFINE f == CHOOSE f : Searches(table, n, f)
           found == Within(table, n, 0, Len(table))
<1>1. Len(table) \in Nat /\ DOMAIN table = 1..Len(table)
  BY DEF Table
<1>2. Searches(table, n, f)
  BY SearchExists
<1>3. SlotIndex(table, n) = f[<<0, Len(table)>>]
  BY DEF SlotIndex, Searches, SearchStep
<1> HIDE DEF f
<1>4. SlotIndex(table, n) = FoundIn(table, n, 0, Len(table))
  BY <1>1, <1>2, <1>3, SearchUnique
<1>5. found # {} <=> n \in SlotsIn(table)
  <2>1. ASSUME n \in SlotsIn(table) PROVE found # {}
    <3>1. PICK i \in 1..Len(table) : table[i] = n
      BY <1>1, <2>1 DEF SlotsIn
    <3>2. i - 1 \in found
      BY <1>1, <3>1 DEF Within
    <3> QED BY <3>2
  <2>2. ASSUME found # {} PROVE n \in SlotsIn(table)
    BY <1>1, <2>2 DEF Within, SlotsIn
  <2> QED BY <2>1, <2>2
<1>6. \A i \in found : i # NotFound /\ table[i + 1] = n
  BY <1>1 DEF Within, NotFound
<1> QED BY <1>4, <1>5, <1>6 DEF Hashed, FoundIn

-----------------------------------------------------------------------------
(* The history.                                                            *)

IsSequence(s) == \E S : s \in Seq(S)

LEMMA Appended ==
  ASSUME NEW s, IsSequence(s), NEW e
  PROVE  /\ IsSequence(Append(s, e))
         /\ Len(s) \in Nat /\ DOMAIN s = 1..Len(s)
         /\ Len(Append(s, e)) = Len(s) + 1
         /\ DOMAIN Append(s, e) = 1..(Len(s) + 1)
         /\ \A i \in 1..Len(s) : Append(s, e)[i] = s[i]
         /\ Append(s, e)[Len(s) + 1] = e
<1>1. PICK S : s \in Seq(S)
  BY DEF IsSequence
<1>2. s \in Seq(S \cup {e}) /\ e \in S \cup {e}
  BY <1>1
<1>3. Append(s, e) \in Seq(S \cup {e})
  BY <1>2
<1>4. IsSequence(Append(s, e))
  BY <1>3 DEF IsSequence
<1> QED BY <1>2, <1>3, <1>4

\* An instruction accepted the assertions A at the wallets W: but for creations
\* and votes they are newer than what these wallets remembered, and not newer
\* than what they remember now.
Accepts(W, A) ==
  /\ W \subseteq Wallets
  /\ \A a \in A : a.slot \in Nat
  /\ \A a \in TakenOnce(A), w \in W :
       wallets[w].latest < a.slot /\ a.slot <= wallets'[w].latest
  /\ \A w \in Wallets : wallets[w].latest <= wallets'[w].latest
  /\ Recorded(W, A)

\* Nobody delegates to two wallets.
OneDelegate == \A k \in Keys : AtMostOne(DelegateOf(k))

\* A delegation of k to w is among the assertions A.
Delegated(A, k, w) ==
  \E b \in A : b.action = "change_delegate" /\ b.key = k /\ b.message[2] = w
              /\ b.slot <= wallets'[w].latest

\* What an accepted instruction has to do with delegation: an intent is for the
\* wallet its passkey delegates to, and who delegates to a wallet did so before
\* or does so now, by an assertion if it is a passkey, and to no other wallet.
Traces(W, A) ==
  /\ \A a \in A : a.action = "transfer_intent" =>
       /\ a.key \in Secp256r1Keys
       /\ \E w \in Wallets : W = {w} /\ w \in DelegateOf(a.key)
  /\ \A k \in Keys, w \in Wallets :
       wallets'[w].members[k].is_delegate /\ ~wallets[w].members[k].is_delegate =>
         /\ k \in Secp256r1Keys => Delegated(A, k, w)
         /\ \A v \in Wallets \ {w} : ~wallets'[v].members[k].is_delegate

\* Every assertion that counts once is no newer than what its wallets remember.
SlotsRemembered ==
  \A i \in DOMAIN log :
    /\ log[i].wallets \subseteq Wallets
    /\ \A a \in log[i].assertions : a.slot \in Nat
    /\ \A a \in TakenOnce(log[i].assertions), w \in log[i].wallets :
         a.slot <= wallets[w].latest

LatestTyped == \A w \in Wallets : wallets[w].latest \in Nat

\* The step that proves AssertionsUsedOnce: what is accepted is new.
LEMMA AcceptsOnce ==
  ASSUME NEW W, NEW A, Accepts(W, A), IsSequence(log), LatestTyped, LatestTyped',
         SlotsRemembered, AssertionsUsedOnce
  PROVE  IsSequence(log)' /\ SlotsRemembered' /\ AssertionsUsedOnce'
<1>1. CASE A = {}
  <2>1. log' = log BY <1>1 DEF Accepts, Recorded
  <2>2. SlotsRemembered'
    <3> SUFFICES ASSUME NEW i \in DOMAIN log
                 PROVE  /\ log[i].wallets \subseteq Wallets
                        /\ \A a \in log[i].assertions : a.slot \in Nat
                        /\ \A a \in TakenOnce(log[i].assertions), w \in log[i].wallets :
                             a.slot <= wallets'[w].latest
      BY <2>1 DEF SlotsRemembered
    <3>1. \A a \in TakenOnce(log[i].assertions) : a.slot \in Nat
      BY DEF SlotsRemembered, TakenOnce
    <3> QED BY <3>1 DEF SlotsRemembered, Accepts, LatestTyped
  <2>3. AssertionsUsedOnce' BY <2>1 DEF AssertionsUsedOnce
  <2> QED BY <2>1, <2>2, <2>3 DEF IsSequence
<1>2. CASE A # {}
  <2> DEFINE e == [wallets |-> W, assertions |-> A]
             n == Len(log)
  <2>1. log' = Append(log, e)
    BY <1>2 DEF Accepts, Recorded
  <2>2. /\ IsSequence(log')
        /\ n \in Nat /\ DOMAIN log = 1..n
        /\ DOMAIN log' = 1..(n + 1)
        /\ \A i \in 1..n : log'[i] = log[i]
        /\ log'[n + 1] = e
    BY <2>1, Appended
  <2>3. e.wallets = W /\ e.assertions = A
    OBVIOUS
  <2> HIDE DEF e, n
  <2>4. ASSUME NEW i \in DOMAIN log' 
        PROVE  /\ log'[i].wallets \subseteq Wallets
               /\ \A a \in log'[i].assertions : a.slot \in Nat
               /\ \A a \in TakenOnce(log'[i].assertions), w \in log'[i].wallets :
                    a.slot <= wallets'[w].latest
    <3>1. CASE i = n + 1
      BY <2>2, <2>3, <3>1 DEF Accepts
    <3>2. CASE i # n + 1
      <4>1. i \in DOMAIN log /\ log'[i] = log[i]
        BY <2>2, <3>2
      <4>2. \A a \in TakenOnce(log[i].assertions) : a.slot \in Nat
        BY <4>1 DEF SlotsRemembered, TakenOnce
      <4> QED BY <4>1, <4>2 DEF SlotsRemembered, Accepts, LatestTyped
    <3> QED BY <3>1, <3>2
  <2>5. SlotsRemembered'
    BY <2>4 DEF SlotsRemembered
  <2>6. ASSUME NEW i \in DOMAIN log', NEW j \in DOMAIN log', i < j,
               log'[i].wallets \cap log'[j].wallets # {}
        PROVE  TakenOnce(log'[i].assertions) \cap log'[j].assertions = {}
    <3>1. i \in DOMAIN log /\ log'[i] = log[i]
      BY <2>2, <2>6
    <3>2. CASE j = n + 1
      <4>1. PICK w \in W : w \in log[i].wallets
        BY <2>2, <2>3, <2>6, <3>1, <3>2
      <4>2. w \in Wallets BY DEF Accepts
      <4>3. \A a \in TakenOnce(log[i].assertions) :
              a.slot \in Nat /\ a.slot <= wallets[w].latest
        BY <3>1, <4>1 DEF SlotsRemembered, TakenOnce
      <4>4. \A a \in TakenOnce(A) : a.slot \in Nat /\ wallets[w].latest < a.slot
        BY <4>1 DEF Accepts, TakenOnce
      <4>5. \A a \in A : a \notin TakenOnce(log[i].assertions)
        <5> SUFFICES ASSUME NEW a \in A, a \in TakenOnce(log[i].assertions) PROVE FALSE
          OBVIOUS
        <5>1. a \in TakenOnce(A)
          BY DEF TakenOnce
        <5> QED BY <4>2, <4>3, <4>4, <5>1 DEF LatestTyped
      <4> QED BY <2>2, <2>3, <3>1, <3>2, <4>5
    <3>3. CASE j # n + 1
      <4>1. j \in DOMAIN log /\ log'[j] = log[j]
        BY <2>2, <3>3
      <4> QED BY <2>6, <3>1, <4>1 DEF AssertionsUsedOnce
    <3> QED BY <3>2, <3>3
  <2>7. AssertionsUsedOnce'
    BY <2>6 DEF AssertionsUsedOnce
  <2> QED BY <2>2, <2>5, <2>7
<1> QED BY <1>1, <1>2

-----------------------------------------------------------------------------
(* Intents and delegations.                                                *)

\* Whoever delegates to a wallet that did not accept an intent of theirs has
\* delegated to it since, by an assertion that it remembers.
IntentsTraced ==
  \A i \in DOMAIN log : \A a \in log[i].assertions :
    a.action = "transfer_intent" =>
      /\ a.key \in Secp256r1Keys
      /\ \A w \in DelegateOf(a.key) \ log[i].wallets :
           \E d \in i..Len(log) : \E b \in log[d].assertions :
             /\ b.action = "change_delegate" /\ b.key = a.key /\ b.message[2] = w
             /\ b.slot <= wallets[w].latest

LEMMA DelegationStaysUnique ==
  ASSUME OneDelegate, NEW W, NEW A, Traces(W, A)
  PROVE  OneDelegate'
<1> SUFFICES ASSUME NEW k \in Keys, NEW v \in Wallets, NEW w \in Wallets,
                    wallets'[v].members[k].is_delegate, wallets'[w].members[k].is_delegate
             PROVE  v = w
  BY DEF OneDelegate, AtMostOne, DelegateOf
<1>1. CASE wallets[v].members[k].is_delegate /\ wallets[w].members[k].is_delegate
  BY <1>1 DEF OneDelegate, AtMostOne, DelegateOf
<1>2. CASE ~wallets[v].members[k].is_delegate \/ ~wallets[w].members[k].is_delegate
  BY <1>2 DEF Traces
<1> QED BY <1>1, <1>2

\* What is remembered of a delegation stays true of the longer history.
LEMMA TraceKept ==
  ASSUME NEW W, NEW A, Accepts(W, A), Traces(W, A), IsSequence(log), OneDelegate,
         LatestTyped, LatestTyped', SlotsRemembered, IntentsTraced,
         NEW i \in DOMAIN log, NEW a \in log[i].assertions, a.action = "transfer_intent",
         NEW w \in DelegateOf(a.key)' \ log[i].wallets
  PROVE  \E d \in i..Len(log') : \E b \in log'[d].assertions :
           /\ b.action = "change_delegate" /\ b.key = a.key /\ b.message[2] = w
           /\ b.slot <= wallets'[w].latest
<1> DEFINE n == Len(log)
           e == [wallets |-> W, assertions |-> A]
<1>1. w \in Wallets /\ wallets'[w].members[a.key].is_delegate /\ a.key \in Secp256r1Keys
  BY DEF DelegateOf, IntentsTraced
<1>2. /\ n \in Nat /\ DOMAIN log = 1..n
      /\ A # {} => /\ Len(log') = n + 1 /\ log'[n + 1] = e
                   /\ \A j \in 1..n : log'[j] = log[j]
      /\ A = {} => log' = log
  BY Appended DEF Accepts, Recorded
<1>3. CASE w \in DelegateOf(a.key)
  <2>1. PICK d \in i..n : \E b \in log[d].assertions :
          /\ b.action = "change_delegate" /\ b.key = a.key /\ b.message[2] = w
          /\ b.slot <= wallets[w].latest
    BY <1>3 DEF IntentsTraced
  <2>2. PICK b \in log[d].assertions :
          /\ b.action = "change_delegate" /\ b.key = a.key /\ b.message[2] = w
          /\ b.slot <= wallets[w].latest
    BY <2>1
  <2>3. d \in DOMAIN log /\ d \in i..Len(log') /\ log'[d] = log[d]
    BY <1>2, <2>1
  <2>4. b.slot \in Nat
    BY <2>2, <2>3 DEF SlotsRemembered
  <2>5. b.slot <= wallets'[w].latest
    BY <1>1, <2>2, <2>4 DEF Accepts, LatestTyped
  <2> QED BY <2>2, <2>3, <2>5
<1>4. CASE w \notin DelegateOf(a.key)
  <2>1. ~wallets[w].members[a.key].is_delegate
    BY <1>1, <1>4 DEF DelegateOf
  <2>2. Delegated(A, a.key, w)
    BY <1>1, <2>1 DEF Traces, Keys
  <2>3. A # {} /\ n + 1 \in i..Len(log') /\ log'[n + 1].assertions = A
    BY <1>2, <2>2 DEF Delegated
  <2> QED BY <2>2, <2>3 DEF Delegated
<1> QED BY <1>3, <1>4

LEMMA IntentsStayTraced ==
  ASSUME NEW W, NEW A, Accepts(W, A), Traces(W, A), IsSequence(log), OneDelegate,
         OneDelegate', LatestTyped, LatestTyped', SlotsRemembered, IntentsTraced
  PROVE  IntentsTraced'
<1> DEFINE n == Len(log)
           e == [wallets |-> W, assertions |-> A]
<1>1. /\ n \in Nat /\ DOMAIN log = 1..n
      /\ A # {} => /\ Len(log') = n + 1 /\ log'[n + 1] = e /\ DOMAIN log' = 1..(n + 1)
                   /\ \A j \in 1..n : log'[j] = log[j]
      /\ A = {} => log' = log
  BY Appended DEF Accepts, Recorded
<1> SUFFICES ASSUME NEW i \in DOMAIN log', NEW a \in log'[i].assertions,
                    a.action = "transfer_intent"
             PROVE  /\ a.key \in Secp256r1Keys
                    /\ \A w \in DelegateOf(a.key)' \ log'[i].wallets :
                         \E d \in i..Len(log') : \E b \in log'[d].assertions :
                           /\ b.action = "change_delegate" /\ b.key = a.key
                           /\ b.message[2] = w /\ b.slot <= wallets'[w].latest
  BY DEF IntentsTraced, DelegateOf
<1>2. CASE i \in DOMAIN log
  <2>1. log'[i] = log[i]
    BY <1>1, <1>2
  <2> QED BY <1>2, <2>1, TraceKept DEF IntentsTraced
<1>3. CASE i \notin DOMAIN log
  <2>1. A # {} /\ i = n + 1 /\ log'[i] = e
    BY <1>1, <1>3
  <2>2. a \in A /\ log'[i].wallets = W /\ log'[i].assertions = A /\ i \in i..Len(log')
    BY <1>1, <2>1
  <2>3. PICK v \in Wallets : W = {v} /\ v \in DelegateOf(a.key)
    BY <2>2 DEF Traces
  <2>4. a.key \in Secp256r1Keys
    BY <2>2 DEF Traces
  <2>5. ASSUME NEW w \in DelegateOf(a.key)' \ W
        PROVE  Delegated(A, a.key, w)
    <3>1. w \in Wallets /\ wallets'[w].members[a.key].is_delegate
      BY DEF DelegateOf
    <3>2. ~wallets[w].members[a.key].is_delegate
      BY <2>3, <2>4, <2>5, <3>1 DEF OneDelegate, AtMostOne, DelegateOf, Keys
    <3> QED BY <2>4, <3>1, <3>2 DEF Traces, Keys
  <2> QED BY <2>2, <2>4, <2>5 DEF Delegated
<1> QED BY <1>2, <1>3

LEMMA IntentsStayFollowed ==
  ASSUME NEW W, NEW A, Accepts(W, A), Traces(W, A), IsSequence(log), LatestTyped,
         SlotsRemembered, IntentsTraced, IntentsFollowDelegations, AssertionsUsedOnce'
  PROVE  IntentsFollowDelegations'
<1> DEFINE n == Len(log)
           e == [wallets |-> W, assertions |-> A]
<1>1. CASE A = {}
  <2>1. log' = log
    BY <1>1 DEF Accepts, Recorded
  <2> QED BY <2>1 DEF IntentsFollowDelegations
<1>2. CASE A # {}
  <2>1. /\ n \in Nat /\ DOMAIN log = 1..n
        /\ log'[n + 1] = e /\ DOMAIN log' = 1..(n + 1)
        /\ \A j \in 1..n : log'[j] = log[j]
    BY <1>2, Appended DEF Accepts, Recorded
  <2>2. e.wallets = W /\ e.assertions = A
    OBVIOUS
  <2> HIDE DEF n, e
  <2> SUFFICES ASSUME NEW i \in DOMAIN log', NEW j \in DOMAIN log', i < j,
                      NEW a \in log'[i].assertions \cap log'[j].assertions,
                      a.action = "transfer_intent"
               PROVE  \E d \in i..j : \E b \in log'[d].assertions :
                        /\ b.action = "change_delegate" /\ b.key = a.key
                        /\ b.message[2] \in log'[j].wallets /\ b.slot < a.slot
    BY DEF IntentsFollowDelegations
  <2>3. i \in DOMAIN log /\ log'[i] = log[i]
    BY <2>1
  <2>4. CASE j \in DOMAIN log
    <3>1. log'[j] = log[j] /\ \A d \in i..j : log'[d] = log[d]
      BY <2>1, <2>3, <2>4
    <3>2. \E d \in i..j : \E b \in log[d].assertions :
            /\ b.action = "change_delegate" /\ b.key = a.key
            /\ b.message[2] \in log[j].wallets /\ b.slot < a.slot
      BY <2>3, <2>4, <3>1 DEF IntentsFollowDelegations
    <3> QED BY <3>1, <3>2
  <2>5. CASE j = n + 1
    <3>1. log'[j].wallets = W /\ a \in A /\ a \in log[i].assertions
      BY <2>1, <2>2, <2>3, <2>5
    <3>2. PICK w \in Wallets : W = {w} /\ w \in DelegateOf(a.key)
      BY <3>1 DEF Traces
    <3>9. a \in TakenOnce(A) /\ a \in TakenOnce(log[i].assertions)
      BY <3>1 DEF TakenOnce, EndorsingActions
    <3>3. w \notin log[i].wallets
      BY <2>3, <3>1, <3>2, <3>9 DEF AssertionsUsedOnce
    <3>4. PICK d \in i..Len(log) : \E b \in log[d].assertions :
            /\ b.action = "change_delegate" /\ b.key = a.key /\ b.message[2] = w
            /\ b.slot <= wallets[w].latest
      BY <2>3, <3>1, <3>2, <3>3 DEF IntentsTraced
    <3>5. PICK b \in log[d].assertions :
            /\ b.action = "change_delegate" /\ b.key = a.key /\ b.message[2] = w
            /\ b.slot <= wallets[w].latest
      BY <3>4
    <3>6. d \in DOMAIN log /\ log'[d] = log[d] /\ d \in i..j
      BY <2>1, <2>3, <2>5 DEF n
    <3>7. b.slot \in Nat /\ a.slot \in Nat /\ wallets[w].latest < a.slot
      BY <3>1, <3>2, <3>5, <3>6, <3>9 DEF SlotsRemembered, Accepts
    <3>8. b.slot < a.slot
      BY <3>5, <3>7 DEF LatestTyped
    <3> QED BY <3>1, <3>2, <3>5, <3>6, <3>8
  <2> QED BY <2>1, <2>4, <2>5
<1> QED BY <1>1, <1>2

-----------------------------------------------------------------------------
(* What every instruction does.                                            *)

LEMMA RecordedType ==
  ASSUME TypeOK, IsSequence(log), NEW W, NEW A, Recorded(W, A),
         UNCHANGED <<slot, hashes>>,
         wallets' \in [Wallets -> WalletAccount],
         \A w \in Wallets : wallets'[w].latest < slot
  PROVE  TypeOK'
<1>1. Len(log') <= MaxEvents
  BY Appended, SyncAssumption DEF TypeOK, Recorded
<1> QED BY <1>1 DEF TypeOK

LEMMA ConsumedAccount ==
  ASSUME TypeOK, NEW account \in WalletAccount, NEW slots \in SUBSET (1..MaxSlot),
         SlotsAllowed(hashes, account.latest, slots), account.latest < slot
  PROVE  /\ Consumed(account, slots) \in WalletAccount
         /\ Consumed(account, slots).latest < slot
         /\ account.latest <= Consumed(account, slots).latest
         /\ Consumed(account, slots).members = account.members
         /\ \A n \in slots : account.latest < n /\ n <= Consumed(account, slots).latest
<1>1. account.latest \in Nat
  BY DEF WalletAccount
<1>2. \A n \in slots : n < slot
  BY SlotsArePast
<1>3. /\ LatestAfter(account.latest, slots) \in Nat
      /\ LatestAfter(account.latest, slots) < slot
      /\ account.latest <= LatestAfter(account.latest, slots)
      /\ \A n \in slots : account.latest < n /\ n <= LatestAfter(account.latest, slots)
  BY <1>1, <1>2, SlotsConsumed
<1>4. /\ Consumed(account, slots).latest = LatestAfter(account.latest, slots)
      /\ Consumed(account, slots).members = account.members
      /\ Consumed(account, slots) \in WalletAccount
  BY <1>3 DEF Consumed, WalletAccount
<1> QED BY <1>3, <1>4

LEMMA AuthorisedAccepts ==
  ASSUME TypeOK, IsSequence(log), NEW w \in Wallets, NEW signers \in SignerLists,
         NEW action, NEW account, NEW message, NEW installed \in WalletAccount,
         installed.latest = wallets[w].latest,
         Authorised(w, signers, action, account, message, installed)
  PROVE  /\ TypeOK'
         /\ wallets' = [wallets EXCEPT ![w] = Consumed(installed, SlotNumbers(signers))]
         /\ wallets'[w].members = installed.members
         /\ Accepts({w}, AssertionsOf(signers, action, account, message))
<1> DEFINE slots == SlotNumbers(signers)
           A == AssertionsOf(signers, action, account, message)
<1>1. /\ wallets' = [wallets EXCEPT ![w] = Consumed(installed, slots)]
      /\ Recorded({w}, A)
      /\ UNCHANGED <<slot, hashes>>
      /\ SlotsAllowed(hashes, installed.latest, slots)
  BY DEF Authorised, Accepted
<1>2. slots \in SUBSET (1..MaxSlot)
  BY SignerListType
<1>3. wallets \in [Wallets -> WalletAccount] /\ \A v \in Wallets : wallets[v].latest < slot
  BY DEF TypeOK
<1>4. /\ Consumed(installed, slots) \in WalletAccount
      /\ Consumed(installed, slots).latest < slot
      /\ wallets[w].latest <= Consumed(installed, slots).latest
      /\ Consumed(installed, slots).members = installed.members
      /\ \A n \in slots : wallets[w].latest < n /\ n <= Consumed(installed, slots).latest
  BY <1>1, <1>2, <1>3, ConsumedAccount
<1>5. \A a \in A : a.slot \in slots
  BY DEF AssertionsOf, Assertion, SlotNumbers
<1>6. \A a \in A : a.slot \in Nat
  BY <1>2, <1>5, SyncAssumption
<1> HIDE DEF slots, A
<1>7. wallets' \in [Wallets -> WalletAccount] /\ \A v \in Wallets : wallets'[v].latest < slot
  BY <1>1, <1>3, <1>4
<1>8. TypeOK'
  BY <1>1, <1>7, RecordedType
<1>9. \A v \in Wallets : wallets[v].latest <= wallets'[v].latest
  BY <1>1, <1>3, <1>4 DEF WalletAccount
<1>10. wallets'[w] = Consumed(installed, slots)
  BY <1>1, <1>3
<1>11. Accepts({w}, A)
  BY <1>1, <1>4, <1>5, <1>6, <1>9, <1>10 DEF Accepts, TakenOnce
<1> QED BY <1>1, <1>4, <1>8, <1>10, <1>11 DEF slots, A

-----------------------------------------------------------------------------
(* Every step of the system.                                               *)

\* A configuration action makes nobody a delegator.
LEMMA AppliedFlags ==
  ASSUME NEW x \in Working, NEW a \in ConfigAction, NEW roleOf, NEW k \in Keys,
         ActionAllowed(x, a), AppliedTo(x, a, roleOf).members[k].is_delegate
  PROVE  x.members[k].is_delegate
<1>1. CASE a.type = "AddMember"
  BY <1>1, ActionFields DEF AppliedTo, Working, NewMember
<1>2. CASE a.type = "RemoveMember"
  BY <1>2, ActionFields DEF AppliedTo, Working, NoMember
<1>3. CASE a.type = "EditPermissions"
  <2>1. a.key \in Keys /\ x.members[a.key] \in Member
    BY <1>3, ActionFields DEF ActionAllowed, Working
  <2>2. [x.members[a.key] EXCEPT !.permissions = a.permissions].is_delegate
          = x.members[a.key].is_delegate
    BY <2>1 DEF Member
  <2> QED BY <1>3, <2>1, <2>2 DEF AppliedTo, Working
<1>4. CASE a.type \in {"SetThreshold", "Nothing"}
  BY <1>4 DEF AppliedTo, Working
<1> QED BY <1>1, <1>2, <1>3, <1>4, ActionFields

\* Instructions that keep or drop flags only.
LEMMA FlagsStay ==
  ASSUME NEW W, NEW A,
         \A a \in A : a.action # "transfer_intent",
         \A k \in Keys, w \in Wallets :
           wallets'[w].members[k].is_delegate => wallets[w].members[k].is_delegate
  PROVE  Traces(W, A)
BY DEF Traces

LEMMA ChangeConfigAccepts ==
  ASSUME TypeOK, IsSequence(log), NEW w \in Wallets, NEW signers \in SignerLists,
         NEW action \in ConfigAction, ChangeConfig(w, signers, action)
  PROVE  TypeOK' /\ \E W, A : Accepts(W, A) /\ Traces(W, A)
<1> DEFINE roleOf == [k \in Keys |-> "Member"]
           applied == AppliedTo(WorkingCopy(wallets[w]), action, roleOf)
           installed == [wallets[w] EXCEPT !.members = applied.members,
                                           !.threshold = applied.threshold]
<1>1. wallets[w] \in WalletAccount
  BY DEF TypeOK
<1>2. WorkingCopy(wallets[w]) \in Working
  BY <1>1 DEF WorkingCopy, Working, WalletAccount
<1>3. applied \in Working
  <2>1. ActionAllowed(WorkingCopy(wallets[w]), action)
    BY DEF ChangeConfig
  <2>2. action.type = "AddMember" => roleOf[action.key] \in UserRole
    BY ActionFields DEF UserRole
  <2> HIDE DEF roleOf
  <2> QED BY <1>2, <2>1, <2>2, AppliedToType
<1>4. Authorised(w, signers, "change_config", w, action, installed)
  BY DEF ChangeConfig
<1> HIDE DEF applied
<1>5. installed \in WalletAccount /\ installed.latest = wallets[w].latest
  BY <1>1, <1>3 DEF WalletAccount, Working
<1>6. \A k \in Keys : installed.members[k].is_delegate => wallets[w].members[k].is_delegate
  <2>1. installed.members = applied.members /\ WorkingCopy(wallets[w]).members = wallets[w].members
    BY <1>1 DEF WalletAccount, WorkingCopy
  <2>2. ActionAllowed(WorkingCopy(wallets[w]), action)
    BY DEF ChangeConfig
  <2> QED BY <1>2, <2>1, <2>2, AppliedFlags DEF applied
<1> HIDE DEF installed
<1> DEFINE A == AssertionsOf(signers, "change_config", w, action)
<1>7. /\ TypeOK' /\ Accepts({w}, A)
      /\ wallets' = [wallets EXCEPT ![w] = Consumed(installed, SlotNumbers(signers))]
      /\ wallets'[w].members = installed.members
  BY <1>4, <1>5, AuthorisedAccepts
<1>8. \A a \in A : a.action # "transfer_intent"
  BY DEF AssertionsOf, Assertion
<1>9. \A k \in Keys, v \in Wallets :
        wallets'[v].members[k].is_delegate => wallets[v].members[k].is_delegate
  BY <1>6, <1>7 DEF TypeOK
<1> HIDE DEF A
<1>10. Traces({w}, A)
  BY <1>8, <1>9, FlagsStay
<1> QED BY <1>7, <1>10

LEMMA TransactionAccepts ==
  ASSUME TypeOK, IsSequence(log), NEW w \in Wallets, NEW signers \in SignerLists,
         NEW message,
         \/ TransactionExecuteSync(w, signers, message)
         \/ NativeTransferIntent(w, signers, message)
         \/ TokenTransferIntent(w, signers, message)
  PROVE  TypeOK' /\ \E W, A : Accepts(W, A) /\ Traces(W, A)
<1>1. wallets[w] \in WalletAccount
  BY DEF TypeOK
<1>2. PICK action, account :
        /\ Authorised(w, signers, action, account, message, wallets[w])
        /\ action = "transfer_intent" =>
             \A j \in Passkeys(signers) : wallets[w].members[signers[j].key].is_delegate
  BY SMTT(40) DEF TransactionExecuteSync, NativeTransferIntent, TokenTransferIntent, TransferIntent
<1> DEFINE A == AssertionsOf(signers, action, account, message)
<1>3. /\ TypeOK' /\ Accepts({w}, A)
      /\ wallets' = [wallets EXCEPT ![w] = Consumed(wallets[w], SlotNumbers(signers))]
      /\ wallets'[w].members = wallets[w].members
  <2>1. Authorised(w, signers, action, account, message, wallets[w])
    BY <1>2
  <2> QED BY ONLY <1>1, <2>1, AuthorisedAccepts, TypeOK, IsSequence(log), w \in Wallets,
                  signers \in SignerLists, SMTT(30)
<1>4. \A k \in Keys, v \in Wallets :
        wallets'[v].members[k].is_delegate => wallets[v].members[k].is_delegate
  BY <1>3 DEF TypeOK
<1>5. \A a \in A : a.action = "transfer_intent" =>
        a.key \in Secp256r1Keys /\ w \in DelegateOf(a.key)
  BY <1>2 DEF AssertionsOf, Assertion, Passkeys, DelegateOf
<1>6. Traces({w}, A)
  BY <1>4, <1>5 DEF Traces
<1> QED BY <1>3, <1>6

LEMMA BufferAccepts ==
  ASSUME TypeOK, IsSequence(log), NEW w \in Wallets, NEW s \in Signer,
         NEW action \in {"execute", "close"}, NEW message,
         BufferInstruction(w, s.key, s.slot, action, message)
  PROVE  TypeOK' /\ \E W, A : Accepts(W, A) /\ Traces(W, A)
<1> DEFINE A == {Assertion(s.key, s.slot, action, w, message)}
<1>1. {s.slot} \in SUBSET (1..MaxSlot)
  BY KeysAssumption DEF BufferInstruction, Signer
<1>2. wallets \in [Wallets -> WalletAccount] /\ \A v \in Wallets : wallets[v].latest < slot
  BY DEF TypeOK
<1>3. /\ wallets' = [wallets EXCEPT ![w] = Consumed(wallets[w], {s.slot})]
      /\ Recorded({w}, A)
      /\ UNCHANGED <<slot, hashes>>
      /\ SlotsAllowed(hashes, wallets[w].latest, {s.slot})
  BY DEF BufferInstruction
<1>4. /\ Consumed(wallets[w], {s.slot}) \in WalletAccount
      /\ Consumed(wallets[w], {s.slot}).latest < slot
      /\ wallets[w].latest <= Consumed(wallets[w], {s.slot}).latest
      /\ wallets[w].latest < s.slot
      /\ s.slot <= Consumed(wallets[w], {s.slot}).latest
  BY <1>1, <1>2, <1>3, ConsumedAccount
<1>5. \A a \in A : a.slot = s.slot /\ a.slot \in Nat
  BY <1>1, SyncAssumption DEF Assertion
<1> HIDE DEF A
<1>6. wallets' \in [Wallets -> WalletAccount] /\ \A v \in Wallets : wallets'[v].latest < slot
  BY <1>2, <1>3, <1>4
<1>7. TypeOK'
  BY <1>3, <1>6, RecordedType
<1>8. \A v \in Wallets : wallets[v].latest <= wallets'[v].latest
  BY <1>2, <1>3, <1>4 DEF WalletAccount
<1>9. Accepts({w}, A)
  BY <1>2, <1>3, <1>4, <1>5, <1>8 DEF Accepts, TakenOnce
<1>10. Consumed(wallets[w], {s.slot}).members = wallets[w].members
  BY <1>2 DEF Consumed, WalletAccount
<1>11. \A k \in Keys, v \in Wallets :
         wallets'[v].members[k].is_delegate => wallets[v].members[k].is_delegate
  BY <1>2, <1>3, <1>10
<1>12. \A a \in A : a.action # "transfer_intent"
  BY DEF Assertion, A
<1>13. Traces({w}, A)
  BY <1>11, <1>12, FlagsStay
<1> QED BY <1>7, <1>9, <1>13

\* A creation or a vote leaves every wallet as it was, and no trace of its slot.
LEMMA EndorsementAccepts ==
  ASSUME TypeOK, IsSequence(log), NEW w \in Wallets, NEW s \in Signer,
         NEW action \in EndorsingActions, NEW message,
         BufferEndorsement(w, s.key, s.slot, action, message)
  PROVE  TypeOK' /\ \E W, A : Accepts(W, A) /\ Traces(W, A)
<1> DEFINE A == {Assertion(s.key, s.slot, action, w, message)}
<1>1. s.slot \in Nat
  BY KeysAssumption, SyncAssumption DEF BufferEndorsement, Signer
<1>2. Recorded({w}, A) /\ UNCHANGED <<slot, hashes, wallets>>
  BY DEF BufferEndorsement
<1>3. \A a \in A : a.slot = s.slot /\ a.action \in EndorsingActions
  BY DEF Assertion
<1> HIDE DEF A
<1>4. TypeOK'
  BY <1>2, RecordedType DEF TypeOK
<1>5. TakenOnce(A) = {}
  BY <1>3 DEF TakenOnce
<1>6. \A v \in Wallets : wallets[v].latest <= wallets'[v].latest
  BY <1>2 DEF TypeOK, WalletAccount
<1>7. Accepts({w}, A)
  BY <1>1, <1>2, <1>3, <1>5, <1>6 DEF Accepts
<1>8. Traces({w}, A)
  BY <1>2, <1>3, FlagsStay DEF EndorsingActions
<1> QED BY <1>4, <1>7, <1>8

LEMMA FlaggedAccount ==
  ASSUME NEW x \in WalletAccount, NEW k \in Keys, NEW flag \in BOOLEAN,
         x.members[k] # NoMember
  PROVE  /\ Flagged(x, k, flag) \in WalletAccount
         /\ Flagged(x, k, flag).latest = x.latest
         /\ Flagged(x, k, flag).members = [x.members EXCEPT ![k].is_delegate = flag]
<1>1. x.members[k] \in Member /\ x.members \in [Keys -> Member \cup {NoMember}]
  BY DEF WalletAccount
<1>2. [x.members[k] EXCEPT !.is_delegate = flag] \in Member
  BY <1>1 DEF Member
<1>3. [x.members EXCEPT ![k].is_delegate = flag] \in [Keys -> Member \cup {NoMember}]
  BY <1>1, <1>2
<1> QED BY <1>3 DEF Flagged, WalletAccount

\* What edit_user_delegate does to the wallets it touches, and to the others.
LEMMA DelegatedAccounts ==
  ASSUME TypeOK, NEW s \in Signer, NEW old \in Wallets \cup {NoWallet},
         NEW to \in Wallets \cup {NoWallet}, EditUserDelegate(s.key, s.slot, old, to),
         NEW w \in Wallets
  PROVE  /\ wallets'[w] \in WalletAccount
         /\ wallets'[w].latest < slot
         /\ wallets[w].latest <= wallets'[w].latest
         /\ w \in {old, to} =>
              /\ wallets'[w].members = [wallets[w].members EXCEPT ![s.key].is_delegate = (w = to)]
              /\ s.key \in Secp256r1Keys =>
                   wallets[w].latest < s.slot /\ s.slot <= wallets'[w].latest
         /\ w \notin {old, to} => wallets'[w] = wallets[w]
<1> DEFINE k == s.key
           slots == IF k \in Secp256r1Keys THEN {s.slot} ELSE {}
           x == Flagged(wallets[w], k, w = to)
<1>1. k \in Keys /\ slots \in SUBSET (1..MaxSlot)
  BY KeysAssumption DEF Signer, Keys
<1>2. wallets[w] \in WalletAccount /\ wallets[w].latest < slot /\ w # NoWallet
  BY SyncAssumption DEF TypeOK
<1>3. CASE w \in {old, to}
  <2>1. /\ wallets[w].members[k] # NoMember
        /\ SlotsAllowed(hashes, wallets[w].latest, slots)
        /\ wallets'[w] = Consumed(x, slots)
    BY <1>2, <1>3 DEF EditUserDelegate, DelegationSlots
  <2>2. /\ x \in WalletAccount
        /\ x.latest = wallets[w].latest
        /\ x.members = [wallets[w].members EXCEPT ![k].is_delegate = (w = to)]
    BY <1>1, <1>2, <2>1, FlaggedAccount
  <2> HIDE DEF x
  <2>3. /\ Consumed(x, slots) \in WalletAccount
        /\ Consumed(x, slots).latest < slot
        /\ wallets[w].latest <= Consumed(x, slots).latest
        /\ Consumed(x, slots).members = x.members
        /\ \A n \in slots : wallets[w].latest < n /\ n <= Consumed(x, slots).latest
    BY <1>1, <1>2, <2>1, <2>2, ConsumedAccount
  <2> QED BY <1>3, <2>1, <2>2, <2>3
<1>4. CASE w \notin {old, to}
  <2>1. wallets'[w] = wallets[w]
    BY <1>4 DEF EditUserDelegate
  <2> QED BY <1>2, <1>4, <2>1 DEF WalletAccount
<1> QED BY <1>3, <1>4

LEMMA DelegateAccepts ==
  ASSUME TypeOK, IsSequence(log), OneDelegate, NEW s \in Signer,
         NEW old \in Wallets \cup {NoWallet}, NEW to \in Wallets \cup {NoWallet},
         EditUserDelegate(s.key, s.slot, old, to)
  PROVE  TypeOK' /\ \E W, A : Accepts(W, A) /\ Traces(W, A)
<1> DEFINE W == {old, to} \ {NoWallet}
           account == IF old # NoWallet THEN old ELSE to
           slots == IF s.key \in Secp256r1Keys THEN {s.slot} ELSE {}
           A == {Assertion(s.key, m, "change_delegate", account, <<old, to>>) : m \in slots}
<1>1. /\ DOMAIN wallets' = Wallets
      /\ wallets' = [w \in Wallets |-> wallets'[w]]
      /\ Recorded(W, A)
      /\ UNCHANGED <<slot, hashes>>
  BY DEF EditUserDelegate
<1>2. wallets' \in [Wallets -> WalletAccount] /\ \A w \in Wallets : wallets'[w].latest < slot
  <2>1. \A w \in Wallets : wallets'[w] \in WalletAccount /\ wallets'[w].latest < slot
    BY DelegatedAccounts
  <2> QED BY ONLY <1>1, <2>1
<1>3. TypeOK'
  BY <1>1, <1>2, RecordedType
<1>4. \A a \in A : a.slot = s.slot /\ s.key \in Secp256r1Keys
  BY DEF Assertion
<1>5. s.key \in Secp256r1Keys => s.slot \in Nat
  BY KeysAssumption, SyncAssumption DEF Signer
<1>6. W \subseteq Wallets
  OBVIOUS
<1>7. \A a \in A, w \in W : wallets[w].latest < a.slot /\ a.slot <= wallets'[w].latest
  BY <1>4, <1>6, DelegatedAccounts, ZenonT(30)
<1>8. \A w \in Wallets : wallets[w].latest <= wallets'[w].latest
  BY DelegatedAccounts
<1>9. ASSUME NEW k \in Keys, NEW w \in Wallets,
             wallets'[w].members[k].is_delegate, ~wallets[w].members[k].is_delegate
      PROVE  /\ k \in Secp256r1Keys => Delegated(A, k, w)
             /\ \A v \in Wallets \ {w} : ~wallets'[v].members[k].is_delegate
  <2>1. s.key \in Keys
    BY DEF Signer, Keys
  <2>2. \A v \in Wallets :
          /\ wallets[v].members \in [Keys -> Member \cup {NoMember}]
          /\ v \in {old, to} =>
               wallets'[v].members = [wallets[v].members EXCEPT ![s.key].is_delegate = (v = to)]
          /\ v \notin {old, to} => wallets'[v].members = wallets[v].members
    <3> SUFFICES ASSUME NEW v \in Wallets
                 PROVE  /\ wallets[v].members \in [Keys -> Member \cup {NoMember}]
                        /\ v \in {old, to} => wallets'[v].members
                             = [wallets[v].members EXCEPT ![s.key].is_delegate = (v = to)]
                        /\ v \notin {old, to} => wallets'[v].members = wallets[v].members
      OBVIOUS
    <3>1. wallets[v].members \in [Keys -> Member \cup {NoMember}]
      BY DEF TypeOK, WalletAccount
    <3>2. /\ v \in {old, to} => wallets'[v].members
               = [wallets[v].members EXCEPT ![s.key].is_delegate = (v = to)]
          /\ v \notin {old, to} => wallets'[v] = wallets[v]
      BY DelegatedAccounts
    <3> QED BY <3>1, <3>2
  <2>3. \A v \in {old, to} \ {NoWallet} : wallets[v].members[s.key] # NoMember
    BY DEF EditUserDelegate
  <2>4. \A v \in Wallets : v \in {old, to} =>
          wallets'[v].members[s.key].is_delegate = (v = to)
    <3> SUFFICES ASSUME NEW v \in Wallets, v \in {old, to}
                 PROVE  wallets'[v].members[s.key].is_delegate = (v = to)
      OBVIOUS
    <3>0. v # NoWallet
      BY SyncAssumption
    <3>1. wallets[v].members[s.key] \in Member
      <4>1. wallets[v].members[s.key] # NoMember
        BY <2>3, <3>0
      <4>2. wallets[v].members \in [Keys -> Member \cup {NoMember}]
        BY <2>2
      <4> QED BY ONLY <2>1, <4>1, <4>2
    <3>2. wallets'[v].members[s.key] = [wallets[v].members[s.key] EXCEPT !.is_delegate = (v = to)]
      BY <2>1, <2>2
    <3> QED BY <3>1, <3>2 DEF Member
  <2>5. k = s.key /\ w = to
    <3>1. \A v \in Wallets, x \in Keys \ {s.key} : wallets'[v].members[x] = wallets[v].members[x]
      BY <2>1, <2>2
    <3>2. k = s.key
      <4>1. k # s.key => wallets'[w].members[k] = wallets[w].members[k]
        BY ONLY <3>1, k \in Keys, w \in Wallets
      <4> QED BY ONLY <1>9, <4>1
    <3>3. w \in {old, to}
      <4>1. w \notin {old, to} => wallets'[w].members = wallets[w].members
        BY <2>2
      <4> QED BY ONLY <1>9, <4>1
    <3>4. wallets'[w].members[k].is_delegate = (w = to)
      BY <2>4, <3>2, <3>3
    <3> QED BY ONLY <1>9, <3>2, <3>4
  <2>6. ASSUME NEW v \in Wallets \ {w}, wallets'[v].members[k].is_delegate
        PROVE  FALSE
    <3>1. v \notin {old, to}
      BY <2>4, <2>5, <2>6
    <3>2. v \in DelegateOf(k)
      BY <2>2, <2>6, <3>1 DEF DelegateOf
    <3>3. old \in DelegateOf(k)
      BY <2>5, <3>2 DEF EditUserDelegate
    <3> QED BY <3>1, <3>2, <3>3 DEF OneDelegate, AtMostOne
  <2>7. ASSUME k \in Secp256r1Keys
        PROVE  Delegated(A, k, w)
    <3> DEFINE b == Assertion(s.key, s.slot, "change_delegate", account, <<old, to>>)
    <3>1. b \in A
      BY <2>5, <2>7
    <3>2. b.action = "change_delegate" /\ b.key = k /\ b.message[2] = w /\ b.slot = s.slot
      BY <2>5 DEF Assertion
    <3>3. s.slot <= wallets'[w].latest
      BY <2>5, <2>7, DelegatedAccounts
    <3> HIDE DEF A, b
    <3> QED BY <3>1, <3>2, <3>3 DEF Delegated
  <2> QED BY <2>6, <2>7
<1>10. \A a \in A : a.action # "transfer_intent"
  BY DEF Assertion
<1> HIDE DEF A, W
<1>11. Traces(W, A)
  BY <1>9, <1>10 DEF Traces
<1>12. Accepts(W, A)
  BY <1>1, <1>4, <1>5, <1>6, <1>7, <1>8 DEF Accepts, TakenOnce
<1> QED BY <1>3, <1>11, <1>12

LEMMA NextSlotType ==
  ASSUME TypeOK, NextSlot
  PROVE  TypeOK'
<1>1. slot' = slot + 1 /\ slot' \in 1..MaxSlot /\ slot \in Nat
  BY SyncAssumption DEF NextSlot, TypeOK
<1>2. hashes' \in Table /\ Len(hashes') <= TableSize /\ SlotsIn(hashes') \subseteq 1..(slot' - 1)
  <2>1. CASE hashes' = hashes
    BY <1>1, <2>1 DEF TypeOK
  <2>2. CASE hashes' = Pushed(hashes, slot)
    BY <1>1, <2>2, PushedType
  <2> QED BY <2>1, <2>2 DEF NextSlot
<1>3. \A w \in Wallets : wallets[w].latest < slot'
  BY <1>1 DEF TypeOK, WalletAccount
<1> QED BY <1>1, <1>2, <1>3 DEF TypeOK, NextSlot

-----------------------------------------------------------------------------
(* The invariants.                                                         *)

ReplayInv ==
  /\ TypeOK
  /\ IsSequence(log)
  /\ SlotsRemembered
  /\ AssertionsUsedOnce
  /\ OneDelegate
  /\ IntentsTraced
  /\ IntentsFollowDelegations

LEMMA InitReplay == Init => ReplayInv
<1> SUFFICES ASSUME Init PROVE ReplayInv
  OBVIOUS
<1>1. log = << >> /\ << >> \in Seq({}) /\ DOMAIN log = {} /\ Len(log) = 0
  BY DEF Init
<1>2. hashes = << >> /\ << >> \in Seq(Nat) /\ DOMAIN hashes = {} /\ Len(hashes) = 0
  BY DEF Init
<1>3. hashes \in Table /\ SlotsIn(hashes) = {}
  BY <1>2 DEF Table, SlotsIn
<1>4. \A w \in Wallets : InitialSettings[w] \in Settings
  BY SyncAssumption
<1>5. wallets \in [Wallets -> WalletAccount] /\ \A w \in Wallets : wallets[w].latest = 0
  BY <1>4 DEF Init, WalletAccount, Settings
<1>6. TypeOK
  BY <1>1, <1>2, <1>3, <1>5, SyncAssumption, TableSizeAssumption DEF Init, TypeOK
<1>7. IsSequence(log)
  BY <1>1 DEF IsSequence
<1>8. OneDelegate
  <2>1. \A w \in Wallets : wallets[w].members = InitialSettings[w].members
    BY DEF Init
  <2> QED BY <2>1, SyncAssumption DEF OneDelegate, AtMostOne, DelegateOf
<1>9. IntentsTraced /\ IntentsFollowDelegations
  BY <1>1 DEF IntentsTraced, IntentsFollowDelegations
<1> QED BY <1>1, <1>6, <1>7, <1>8, <1>9 DEF ReplayInv, SlotsRemembered, AssertionsUsedOnce

LEMMA StepAccepts ==
  ASSUME TypeOK, IsSequence(log), OneDelegate, Next
  PROVE  TypeOK' /\ ((UNCHANGED <<wallets, log>>) \/ \E W, A : Accepts(W, A) /\ Traces(W, A))
<1>1. ASSUME NEW w \in Wallets, NEW signers \in SignerLists, NEW message \in Messages,
             \/ TransactionExecuteSync(w, signers, message)
             \/ NativeTransferIntent(w, signers, message)
             \/ TokenTransferIntent(w, signers, message)
      PROVE  TypeOK' /\ \E W, A : Accepts(W, A) /\ Traces(W, A)
  BY <1>1, TransactionAccepts
<1>2. ASSUME NEW w \in Wallets, NEW signers \in SignerLists,
             NEW action \in ConfigAction \ {Nothing}, ChangeConfig(w, signers, action)
      PROVE  TypeOK' /\ \E W, A : Accepts(W, A) /\ Traces(W, A)
  BY <1>2, ChangeConfigAccepts
<1>3. ASSUME NEW s \in Signer, NEW old \in Wallets \cup {NoWallet},
             NEW to \in Wallets \cup {NoWallet}, EditUserDelegate(s.key, s.slot, old, to)
      PROVE  TypeOK' /\ \E W, A : Accepts(W, A) /\ Traces(W, A)
  BY <1>3, DelegateAccepts
<1>4. ASSUME NEW w \in Wallets, NEW s \in Signer, NEW action \in {"execute", "close"},
             NEW message \in Messages, BufferInstruction(w, s.key, s.slot, action, message)
      PROVE  TypeOK' /\ \E W, A : Accepts(W, A) /\ Traces(W, A)
  BY <1>4, BufferAccepts
<1>5. ASSUME NEW w \in Wallets, NEW s \in Signer, NEW action \in EndorsingActions,
             NEW message \in Messages, BufferEndorsement(w, s.key, s.slot, action, message)
      PROVE  TypeOK' /\ \E W, A : Accepts(W, A) /\ Traces(W, A)
  BY <1>5, EndorsementAccepts
<1>6. ASSUME NextSlot PROVE TypeOK' /\ UNCHANGED <<wallets, log>>
  BY <1>6, NextSlotType DEF NextSlot
<1> QED BY <1>1, <1>2, <1>3, <1>4, <1>5, <1>6 DEF Next

LEMMA NextReplay ==
  ASSUME ReplayInv, [Next]_vars
  PROVE  ReplayInv'
<1>1. CASE UNCHANGED vars \/ (TypeOK' /\ UNCHANGED <<wallets, log>>)
  <2>1. UNCHANGED <<wallets, log>>
    BY <1>1 DEF vars
  <2>2. TypeOK'
    BY <1>1 DEF ReplayInv, vars, TypeOK
  <2>3. IsSequence(log)' /\ SlotsRemembered' /\ AssertionsUsedOnce'
    BY <2>1 DEF ReplayInv, IsSequence, SlotsRemembered, AssertionsUsedOnce
  <2>4. OneDelegate' /\ IntentsTraced' /\ IntentsFollowDelegations'
    BY <2>1 DEF ReplayInv, OneDelegate, AtMostOne, DelegateOf, IntentsTraced,
       IntentsFollowDelegations
  <2> QED BY <2>2, <2>3, <2>4 DEF ReplayInv
<1>2. CASE Next
  <2>1. TypeOK' /\ ((UNCHANGED <<wallets, log>>) \/ \E W, A : Accepts(W, A) /\ Traces(W, A))
    BY <1>2, StepAccepts DEF ReplayInv
  <2>2. LatestTyped /\ LatestTyped'
    BY <2>1 DEF ReplayInv, TypeOK, WalletAccount, LatestTyped
  <2>3. ASSUME NEW W, NEW A, Accepts(W, A), Traces(W, A)
        PROVE  ReplayInv'
    <3>1. IsSequence(log)' /\ SlotsRemembered' /\ AssertionsUsedOnce'
      BY <2>2, <2>3, AcceptsOnce DEF ReplayInv
    <3>2. OneDelegate'
      BY <2>3, DelegationStaysUnique DEF ReplayInv
    <3>3. IntentsTraced' /\ IntentsFollowDelegations'
      BY <2>2, <2>3, <3>1, <3>2, IntentsStayTraced, IntentsStayFollowed DEF ReplayInv
    <3> QED BY <2>1, <3>1, <3>2, <3>3 DEF ReplayInv
  <2> QED BY <1>1, <2>1, <2>3
<1> QED BY <1>1, <1>2

\* The types are right, no slot in the table or remembered by a wallet is the
\* current one or a later one, and the table stays in order and within its size.
THEOREM SyncTypeOK == Spec => []TypeOK
<1>1. ReplayInv => TypeOK BY DEF ReplayInv
<1> QED BY <1>1, InitReplay, NextReplay, PTL DEF Spec

\* No wallet accepts a passkey's assertion twice for an instruction that calls
\* latest_slot_number_check, whatever other instructions, creations and votes it
\* accepts in between, repeated ones among them.  Creations and votes call no such
\* check and are not claimed to.
THEOREM ReplayProtection == Spec => []AssertionsUsedOnce
<1>1. ReplayInv => AssertionsUsedOnce BY DEF ReplayInv
<1> QED BY <1>1, InitReplay, NextReplay, PTL DEF Spec

\* An intent moves to another wallet only behind a delegation to it that is older
\* than the intent, for any number of wallets: edit_user_delegate keeps one
\* delegated wallet per passkey, and makes it remember the slot.
THEOREM IntentsAreFollowed == Spec => []IntentsFollowDelegations
<1>1. ReplayInv => IntentsFollowDelegations BY DEF ReplayInv
<1> QED BY <1>1, InitReplay, NextReplay, PTL DEF Spec

\* Whatever passkeys signed and presented, fetch_slot_hash finds the slots that the
\* table of the current slot holds and no others.
THEOREM SearchAlwaysFinds == Spec => []SearchFindsSlots
<1>1. TypeOK => SearchFindsSlots
  <2> SUFFICES ASSUME TypeOK, NEW n \in 0..MaxSlot
               PROVE  Hashed(hashes, n) <=> n \in SlotsIn(hashes)
    BY DEF SearchFindsSlots
  <2>1. hashes \in Table
    BY DEF TypeOK
  <2>2. n \in Nat
    BY SyncAssumption
  <2> QED BY <2>1, <2>2, SearchIsExact
<1> QED BY <1>1, SyncTypeOK, PTL

-----------------------------------------------------------------------------
(* The next block unlocks every wallet.                                    *)

\* Every account passed MultisigSettings::invariant when it was last written.
Usable == \A w \in Wallets : SettingsInvariant(wallets[w])

\* The check reads the members and the threshold.
LEMMA SameRules ==
  ASSUME NEW x, NEW y, x.members = y.members, x.threshold = y.threshold,
         SettingsInvariant(x)
  PROVE  SettingsInvariant(y)
<1>1. /\ MembersOf(x) = MembersOf(y)
      /\ \A permission : Holders(x, permission) = Holders(y, permission)
      /\ \A role : WithRole(x, role) = WithRole(y, role)
  BY DEF MembersOf, Holders, WithRole
<1>2. RoleRulesHold(x) => RoleRulesHold(y)
  BY <1>1 DEF RoleRulesHold
<1> QED BY <1>1, <1>2 DEF SettingsInvariant

LEMMA ConsumedRules ==
  ASSUME NEW x \in WalletAccount, NEW slots, SettingsInvariant(x)
  PROVE  SettingsInvariant(Consumed(x, slots))
<1>1. /\ Consumed(x, slots).members = x.members
      /\ Consumed(x, slots).threshold = x.threshold
  BY DEF Consumed, WalletAccount
<1> QED BY <1>1, SameRules

LEMMA AuthorisedUsable ==
  ASSUME TypeOK, Usable, NEW w \in Wallets, NEW signers, NEW action, NEW account,
         NEW message, NEW installed \in WalletAccount,
         Authorised(w, signers, action, account, message, installed)
  PROVE  Usable'
<1>1. /\ SettingsInvariant(installed)
      /\ wallets' = [wallets EXCEPT ![w] = Consumed(installed, SlotNumbers(signers))]
  BY DEF Authorised
<1>2. SettingsInvariant(Consumed(installed, SlotNumbers(signers)))
  BY <1>1, ConsumedRules
<1>3. \A v \in Wallets : wallets'[v] = IF v = w THEN Consumed(installed, SlotNumbers(signers))
                                       ELSE wallets[v]
  BY <1>1 DEF TypeOK
<1> QED BY <1>2, <1>3 DEF Usable

LEMMA DelegateUsable ==
  ASSUME TypeOK, Usable, NEW s \in Signer, NEW old \in Wallets \cup {NoWallet},
         NEW to \in Wallets \cup {NoWallet}, EditUserDelegate(s.key, s.slot, old, to)
  PROVE  Usable'
<1> DEFINE slots == IF s.key \in Secp256r1Keys THEN {s.slot} ELSE {}
<1> SUFFICES ASSUME NEW w \in Wallets PROVE SettingsInvariant(wallets'[w])
  BY DEF Usable
<1>1. CASE w \in {old, to}
  <2> DEFINE x == Flagged(wallets[w], s.key, w = to)
  <2>1. /\ wallets[w].members[s.key] # NoMember
        /\ SettingsInvariant(x)
        /\ wallets'[w] = Consumed(x, slots)
    BY <1>1, SyncAssumption DEF EditUserDelegate, DelegationSlots
  <2>2. x \in WalletAccount
    BY <2>1, FlaggedAccount DEF TypeOK, Signer, Keys
  <2> HIDE DEF x, slots
  <2> QED BY <2>1, <2>2, ConsumedRules
<1>2. CASE w \notin {old, to}
  <2>1. wallets'[w] = wallets[w]
    BY <1>2 DEF EditUserDelegate
  <2> QED BY <2>1 DEF Usable
<1> QED BY <1>1, <1>2

LEMMA ChangeConfigUsable ==
  ASSUME TypeOK, Usable, NEW w \in Wallets, NEW signers,
         NEW action \in ConfigAction, ChangeConfig(w, signers, action)
  PROVE  Usable'
<1> DEFINE roleOf == [k \in Keys |-> "Member"]
           applied == AppliedTo(WorkingCopy(wallets[w]), action, roleOf)
           installed == [wallets[w] EXCEPT !.members = applied.members,
                                           !.threshold = applied.threshold]
<1>1. wallets[w] \in WalletAccount
  BY DEF TypeOK
<1>2. WorkingCopy(wallets[w]) \in Working
  BY <1>1 DEF WorkingCopy, Working, WalletAccount
<1>3. applied \in Working
  <2>1. ActionAllowed(WorkingCopy(wallets[w]), action)
    BY DEF ChangeConfig
  <2>2. action.type = "AddMember" => roleOf[action.key] \in UserRole
    BY ActionFields DEF UserRole
  <2> HIDE DEF roleOf
  <2> QED BY <1>2, <2>1, <2>2, AppliedToType
<1>4. Authorised(w, signers, "change_config", w, action, installed)
  BY DEF ChangeConfig
<1> HIDE DEF applied
<1>5. installed \in WalletAccount
  BY <1>1, <1>3 DEF WalletAccount, Working
<1> HIDE DEF installed
<1> QED BY <1>4, <1>5, AuthorisedUsable

LEMMA NextUsable ==
  ASSUME TypeOK, Usable, [Next]_vars
  PROVE  Usable'
<1>1. ASSUME NEW w \in Wallets, NEW signers \in SignerLists, NEW message \in Messages,
             \/ TransactionExecuteSync(w, signers, message)
             \/ NativeTransferIntent(w, signers, message)
             \/ TokenTransferIntent(w, signers, message)
      PROVE  Usable'
  <2>1. PICK action, account : Authorised(w, signers, action, account, message, wallets[w])
    BY <1>1, SMTT(40) DEF TransactionExecuteSync, NativeTransferIntent, TokenTransferIntent,
       TransferIntent
  <2>2. wallets[w] \in WalletAccount
    BY DEF TypeOK
  <2> QED BY <2>1, <2>2, AuthorisedUsable
<1>2. ASSUME NEW w \in Wallets, NEW signers \in SignerLists,
             NEW action \in ConfigAction \ {Nothing}, ChangeConfig(w, signers, action)
      PROVE  Usable'
  BY <1>2, ChangeConfigUsable
<1>3. ASSUME NEW s \in Signer, NEW old \in Wallets \cup {NoWallet},
             NEW to \in Wallets \cup {NoWallet}, EditUserDelegate(s.key, s.slot, old, to)
      PROVE  Usable'
  BY <1>3, DelegateUsable
<1>4. ASSUME NEW w \in Wallets, NEW s \in Signer, NEW action \in {"execute", "close"},
             NEW message \in Messages, BufferInstruction(w, s.key, s.slot, action, message)
      PROVE  Usable'
  <2>1. /\ wallets' = [wallets EXCEPT ![w] = Consumed(@, {s.slot})]
        /\ SettingsInvariant(wallets[w])
    BY <1>4 DEF BufferInstruction
  <2>2. SettingsInvariant(Consumed(wallets[w], {s.slot}))
    BY <2>1, ConsumedRules DEF TypeOK
  <2>3. \A v \in Wallets : wallets'[v] = IF v = w THEN Consumed(wallets[w], {s.slot})
                                         ELSE wallets[v]
    BY <2>1 DEF TypeOK
  <2> QED BY <2>2, <2>3 DEF Usable
<1>5. CASE UNCHANGED wallets
  BY <1>5 DEF Usable
<1> QED BY <1>1, <1>2, <1>3, <1>4, <1>5 DEF Next, NextSlot, BufferEndorsement, vars

\* The newest entry of the table after a block.
LEMMA PushedNewest ==
  ASSUME TypeOK
  PROVE  /\ Pushed(hashes, slot) # << >>
         /\ Pushed(hashes, slot)[1] = slot
         /\ 1 <= Len(Pushed(hashes, slot))
         /\ slot \in SlotsIn(Pushed(hashes, slot))
<1> DEFINE kept == IF Len(hashes) < TableSize THEN hashes
                   ELSE SubSeq(hashes, 1, TableSize - 1)
<1>1. hashes \in Seq(Nat) /\ slot \in Nat
  BY SyncAssumption DEF TypeOK, Table
<1>2. kept \in Seq(Nat)
  BY <1>1, TableSizeAssumption
<1>3. Pushed(hashes, slot) = <<slot>> \o kept
  BY DEF Pushed
<1> HIDE DEF kept
<1>4. /\ <<slot>> \o kept \in Seq(Nat)
      /\ Len(<<slot>> \o kept) = 1 + Len(kept)
      /\ (<<slot>> \o kept)[1] = slot
  BY <1>1, <1>2
<1> DEFINE pushed == <<slot>> \o kept
<1> HIDE DEF pushed
<1>5. pushed \in Seq(Nat) /\ 1 <= Len(pushed) /\ Len(pushed) \in Nat /\ pushed[1] = slot
  BY <1>2, <1>4 DEF pushed
<1>6. 1 \in DOMAIN pushed /\ pushed # << >>
  BY <1>5
<1>7. slot \in SlotsIn(pushed)
  BY <1>5, <1>6 DEF SlotsIn
<1> QED BY <1>3, <1>5, <1>6, <1>7 DEF pushed

\* All members of a wallet that may be used pass the verification together.
LEMMA AllMembersVerify ==
  ASSUME NEW x \in WalletAccount, SettingsInvariant(x),
         NEW order \in Bijection(1..Cardinality(MembersOf(x)), MembersOf(x))
  PROVE  VerifySync(x, order)
<1> DEFINE M == MembersOf(x)
           n == Cardinality(M)
           V == Holders(x, "Vote")
           J == {j \in 1..n : order[j] \in V}
<1>1. order \in [1..n -> M] /\ \A k \in M : \E j \in 1..n : order[j] = k
  BY DEF Bijection, Injection, Surjection, IsInjective
<1>2. \A i, j \in 1..n : order[i] = order[j] => i = j
  BY DEF Bijection, Injection, IsInjective
<1>3. \A permission : Holders(x, permission) \subseteq M
  BY DEF Holders, MembersOf, NoMember
<1>4. IsFiniteSet(V) /\ V \subseteq M
  BY <1>3, KeysAssumption, FS_Subset DEF Holders
<1>5. Cardinality(J) = Cardinality(V)
  <2> DEFINE votes == [j \in J |-> order[j]]
  <2>1. votes \in Bijection(J, V)
    <3>1. votes \in [J -> V]
      OBVIOUS
    <3>2. \A k \in V : \E j \in J : votes[j] = k
      BY <1>1, <1>4
    <3>3. \A i, j \in J : votes[i] = votes[j] => i = j
      BY <1>2
    <3> HIDE DEF votes, J, V
    <3> QED BY <3>1, <3>2, <3>3 DEF Bijection, Injection, Surjection, IsInjective
  <2>2. IsFiniteSet(J)
    <3>1. n \in Nat
      BY KeysAssumption, FS_Subset, FS_CardinalityType DEF MembersOf
    <3>2. IsFiniteSet(1..n) /\ J \subseteq 1..n
      BY <3>1, FS_Interval
    <3> QED BY <3>2, FS_Subset
  <2> HIDE DEF votes, J, V
  <2>3. ExistsBijection(J, V)
    BY <2>1 DEF ExistsBijection
  <2> QED BY <2>2, <2>3, FS_Bijection
<1>6. DOMAIN order = 1..n
  BY <1>1
<1>7. Cardinality({j \in DOMAIN order : order[j] \in Holders(x, "Vote")}) >= x.threshold
  <2>1. x.threshold <= Cardinality(V)
    BY DEF SettingsInvariant
  <2>2. x.threshold \in Nat /\ Cardinality(V) \in Nat
    BY <1>4, FS_CardinalityType DEF WalletAccount
  <2>3. {j \in DOMAIN order : order[j] \in Holders(x, "Vote")} = J
    BY <1>6
  <2> QED BY <1>5, <2>1, <2>2, <2>3
<1>8. ASSUME NEW permission, Holders(x, permission) # {}
      PROVE  \E j \in DOMAIN order : order[j] \in Holders(x, permission)
  BY <1>1, <1>3, <1>6, <1>8
<1> QED BY <1>1, <1>6, <1>7, <1>8 DEF VerifySync, SettingsInvariant

LEMMA UsableUnlocks ==
  ASSUME TypeOK, Usable
  PROVE  NextBlockUnlocks
<1> SUFFICES ASSUME NEW w \in Wallets,
                    NEW order \in Bijection(1..Cardinality(MembersOf(wallets[w])),
                                            MembersOf(wallets[w]))
             PROVE  Accepted(Pushed(hashes, slot), wallets[w],
                             [j \in DOMAIN order |->
                                [key  |-> order[j],
                                 slot |-> IF order[j] \in Secp256r1Keys THEN slot ELSE 0]])
  BY DEF NextBlockUnlocks, Usable
<1> DEFINE signers == [j \in DOMAIN order |->
                         [key  |-> order[j],
                          slot |-> IF order[j] \in Secp256r1Keys THEN slot ELSE 0]]
           pushed == Pushed(hashes, slot)
           x == wallets[w]
           N == SlotNumbers(signers)
<1>1. N \subseteq {slot}
  BY DEF SlotNumbers, Passkeys
<1>2. /\ slot \in Nat /\ x.latest \in Nat /\ x.latest < slot
      /\ x \in WalletAccount
  BY SyncAssumption DEF TypeOK, WalletAccount
<1>3. /\ pushed \in Table /\ pushed # << >> /\ pushed[1] = slot
      /\ 1 <= Len(pushed) /\ slot \in SlotsIn(pushed) /\ Len(pushed) \in Nat
  BY PushedType, PushedNewest DEF Table
<1>4. SignerKeys(signers) = order
  <2>1. order = [j \in DOMAIN order |-> order[j]]
    BY DEF Bijection, Injection
  <2> QED BY <2>1 DEF SignerKeys
<1>5. VerifySync(x, order)
  BY <1>2, AllMembersVerify DEF Usable
<1> HIDE DEF signers, pushed, x, N
<1>6. \A n \in N : Hashed(pushed, n)
  BY <1>1, <1>2, <1>3, SearchIsExact
<1>7. SlotsAllowed(pushed, x.latest, N)
  <2> SUFFICES ASSUME N # {}
               PROVE  /\ pushed # << >>
                      /\ \A n \in N : x.latest < n /\ n <= pushed[1]
                      /\ \E n \in N : (\A m \in N : m <= n) /\ pushed[1] - n < Len(pushed)
    BY DEF SlotsAllowed
  <2>1. N = {slot}
    BY <1>1
  <2>2. slot - slot < Len(pushed) /\ slot <= slot
    BY <1>2, <1>3
  <2> QED BY <1>2, <1>3, <2>1, <2>2
<1> QED BY <1>4, <1>5, <1>6, <1>7 DEF Accepted, signers, pushed, x, N

\* Nobody locks a wallet, whatever assertions it accepted before and in whichever
\* order: once the current slot has a block, all its members together pass
\* verify, fetch_slot_hash and latest_slot_number_check.
THEOREM NextBlockAlwaysUnlocks == Spec => []NextBlockUnlocks
<1>1. Init => Usable
  <2> SUFFICES ASSUME Init, NEW w \in Wallets PROVE SettingsInvariant(wallets[w])
    BY DEF Usable
  <2>1. /\ wallets[w].members = InitialSettings[w].members
        /\ wallets[w].threshold = InitialSettings[w].threshold
    BY DEF Init
  <2> QED BY <2>1, SyncAssumption, SameRules
<1>2. TypeOK /\ Usable /\ [Next]_vars => Usable'
  BY NextUsable
<1>3. TypeOK /\ Usable => NextBlockUnlocks
  BY UsableUnlocks
<1> QED BY <1>1, <1>2, <1>3, SyncTypeOK, PTL DEF Spec
=============================================================================
