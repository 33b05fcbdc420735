-------------------------- MODULE MultisigSettings --------------------------
(***************************************************************************)
(* The rules every multi-wallet obeys: who its members are, what a valid   *)
(* member list is, what one configuration action does to it, and when a    *)
(* set of members may act for it.  Pure operators, shared by the modules   *)
(* that keep wallets as state.  From utils/settings.rs, state/settings.rs  *)
(* and utils/transaction_signers.rs of programs/multi_wallet/src.          *)
(*                                                                         *)
(* A member list is a function from keys to member records, NoMember for   *)
(* the keys that are absent.  The code keeps it sorted by role; no step    *)
(* reads the order, so the order is left out.                              *)
(***************************************************************************)
EXTENDS Integers, FiniteSets

CONSTANTS
  Ed25519Keys,    \* member keys that sign as transaction signers
  Secp256r1Keys,  \* member keys that are passkeys
  PermissionSets, \* the permission masks a caller may ask for
  Thresholds,     \* the thresholds a caller may ask for
  MaxSigners      \* bound: how many signers one instruction lists

Keys == Ed25519Keys \cup Secp256r1Keys

Permission == {"Initiate", "Vote", "Execute"}

AllPermissions == Permission

UserRole == {"TransactionManager", "Administrator", "PermanentMember", "Member"}

ASSUME KeysAssumption ==
  /\ IsFiniteSet(Keys)
  /\ Ed25519Keys \cap Secp256r1Keys = {}

ASSUME ConfigInputAssumption ==
  /\ PermissionSets \subseteq SUBSET Permission
  /\ Thresholds \subseteq Nat
  /\ MaxSigners \in Nat

Member == [role : UserRole, permissions : SUBSET Permission, is_delegate : BOOLEAN]

\* A key that is not in the list: no role of UserRole, no permission.
NoMember == [role |-> "None", permissions |-> {}, is_delegate |-> FALSE]

Settings == [members : [Keys -> Member \cup {NoMember}], threshold : Nat]

NewMember(role, permissions, is_delegate) ==
  [role |-> role, permissions |-> permissions, is_delegate |-> is_delegate]

NoMembers == [k \in Keys |-> NoMember]

MembersOf(s) == {k \in Keys : s.members[k] # NoMember}

Holders(s, permission) == {k \in Keys : permission \in s.members[k].permissions}

WithRole(s, role) == {k \in Keys : s.members[k].role = role}

AtMostOne(S) == \A a, b \in S : a = b

-----------------------------------------------------------------------------
(***************************************************************************)
(* MultisigSettings::invariant, the check that ends every instruction that *)
(* writes a member list.  The duplicate-member test is the conjunct        *)
(* repeated = {} of ChangeConfig: a stored list never holds a key twice.   *)
(***************************************************************************)
RoleRulesHold(s) ==
  /\ \A k \in WithRole(s, "PermanentMember") : s.members[k].is_delegate
  /\ \A k \in WithRole(s, "TransactionManager") :
       /\ s.members[k].permissions = {"Initiate"}
       /\ ~s.members[k].is_delegate
       /\ k \in Ed25519Keys
  /\ \A k \in WithRole(s, "Administrator") :
       ~s.members[k].is_delegate /\ k \in Ed25519Keys
  /\ AtMostOne(WithRole(s, "PermanentMember"))
  /\ AtMostOne(WithRole(s, "TransactionManager"))
  /\ AtMostOne(WithRole(s, "Administrator"))

\* Mutant of SettingsInvariant: the threshold is not compared with the voters.
SettingsInvariantWithoutVoters(s) ==
  /\ MembersOf(s) # {}
  /\ s.threshold > 0
  /\ RoleRulesHold(s)
  /\ Holders(s, "Initiate") # {}
  /\ Holders(s, "Execute") # {}

SettingsInvariant(s) ==
  /\ MembersOf(s) # {}
  /\ s.threshold > 0
  /\ RoleRulesHold(s)
  /\ s.threshold <= Cardinality(Holders(s, "Vote"))
  /\ Holders(s, "Initiate") # {}
  /\ Holders(s, "Execute") # {}

-----------------------------------------------------------------------------
(***************************************************************************)
(* One ConfigAction of a change_config batch, on the working copy          *)
(* [members, threshold, repeated].  The code appends to a list, so inside  *)
(* a batch a key can be present more than once; repeated holds such keys.  *)
(* Removal drops every copy.  A batch that leaves a key repeated fails.    *)
(***************************************************************************)
Nothing == [type |-> "Nothing"]

ConfigAction ==
  [type : {"AddMember", "EditPermissions"}, key : Keys, permissions : PermissionSets]
    \cup [type : {"RemoveMember"}, key : Keys]
    \cup [type : {"SetThreshold"}, threshold : Thresholds]
    \cup {Nothing}

WorkingCopy(s) == [members |-> s.members, threshold |-> s.threshold, repeated |-> {}]

\* The error returns of edit_permissions and delete_members.
ActionAllowed(w, a) ==
  /\ a.type = "RemoveMember" => w.members[a.key] # NoMember
  /\ a.type = "EditPermissions" =>
       /\ w.members[a.key] # NoMember
       /\ w.members[a.key].role # "TransactionManager"

\* Mutant of AppliedTo: adding a member twice replaces it instead of failing.
AppliedToReplacing(w, a, roleOf) ==
  CASE a.type = "AddMember" ->
         [w EXCEPT !.members[a.key] = NewMember(roleOf[a.key], a.permissions, FALSE)]
    [] a.type = "RemoveMember" ->
         [w EXCEPT !.members[a.key] = NoMember, !.repeated = @ \ {a.key}]
    [] a.type = "EditPermissions" ->
         [w EXCEPT !.members[a.key].permissions = a.permissions]
    [] a.type = "SetThreshold" -> [w EXCEPT !.threshold = a.threshold]
    [] OTHER -> w

\* roleOf[k] is the role recorded in k's user account, which add_members reads.
AppliedTo(w, a, roleOf) ==
  CASE a.type = "AddMember" ->
         IF w.members[a.key] # NoMember
         THEN [w EXCEPT !.repeated = @ \cup {a.key}]
         ELSE [w EXCEPT !.members[a.key] = NewMember(roleOf[a.key], a.permissions, FALSE)]
    [] a.type = "RemoveMember" ->
         [w EXCEPT !.members[a.key] = NoMember, !.repeated = @ \ {a.key}]
    [] a.type = "EditPermissions" ->
         [w EXCEPT !.members[a.key].permissions = a.permissions]
    [] a.type = "SetThreshold" -> [w EXCEPT !.threshold = a.threshold]
    [] OTHER -> w

-----------------------------------------------------------------------------
(***************************************************************************)
(* TransactionSyncSigners::verify on the list of members that sign one     *)
(* instruction: one of them may initiate, one may execute, and the entries *)
(* that may vote reach the threshold.  The list is not checked for         *)
(* repetitions: an entry counts each time it is listed.                    *)
(***************************************************************************)
VerifySync(s, signers) ==
  /\ \A j \in DOMAIN signers : signers[j] \in MembersOf(s)
  /\ \E j \in DOMAIN signers : signers[j] \in Holders(s, "Initiate")
  /\ \E j \in DOMAIN signers : signers[j] \in Holders(s, "Execute")
  /\ Cardinality({j \in DOMAIN signers : signers[j] \in Holders(s, "Vote")}) >= s.threshold

\* Some list of keys from S passes the verification.
CanAuthorise(s, S) ==
  {signers \in UNION {[1..n -> S] : n \in 1..MaxSigners} : VerifySync(s, signers)} # {}

\* The members in S pass it when each of them is listed once.
SufficientOnce(s, S) ==
  /\ S \cap Holders(s, "Initiate") # {}
  /\ S \cap Holders(s, "Execute") # {}
  /\ Cardinality(S \cap Holders(s, "Vote")) >= s.threshold
=============================================================================
