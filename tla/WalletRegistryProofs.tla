------------------------ MODULE WalletRegistryProofs ------------------------
(***************************************************************************)
(* Proofs about WalletRegistry, for any number of keys, domains, urls and  *)
(* wallets.                                                                *)
(***************************************************************************)
EXTENDS WalletRegistry, FiniteSetTheorems, TLAPS

-----------------------------------------------------------------------------
(* The operators of MultisigSettings.                                      *)

\* A new member is one.
LEMMA NewMemberType ==
  ASSUME NEW role \in UserRole, NEW permissions \in SUBSET Permission,
         NEW flag \in BOOLEAN
  PROVE  NewMember(role, permissions, flag) \in Member
BY DEF NewMember, Member

\* What each kind of configuration action carries.
LEMMA ActionFields ==
  ASSUME NEW a \in ConfigAction
  PROVE  /\ a.type \in {"AddMember", "EditPermissions"} =>
              a.key \in Keys /\ a.permissions \in SUBSET Permission
         /\ a.type = "RemoveMember" => a.key \in Keys
         /\ a.type = "SetThreshold" => a.threshold \in Nat
         /\ a.type \in {"AddMember", "EditPermissions", "RemoveMember",
                        "SetThreshold", "Nothing"}
<1>1. CASE a \in [type : {"AddMember", "EditPermissions"}, key : Keys,
                  permissions : PermissionSets]
  BY <1>1, ConfigInputAssumption
<1>2. CASE a \in [type : {"RemoveMember"}, key : Keys]
  BY <1>2
<1>3. CASE a \in [type : {"SetThreshold"}, threshold : Thresholds]
  BY <1>3, ConfigInputAssumption
<1>4. CASE a = Nothing
  BY <1>4 DEF Nothing
<1> QED BY <1>1, <1>2, <1>3, <1>4 DEF ConfigAction

\* The working copy of a change_config batch.
Working == [members : [Keys -> Member \cup {NoMember}], threshold : Nat,
            repeated : SUBSET Keys]

\* A configuration action that is allowed keeps the working copy well formed.
LEMMA AppliedToType ==
  ASSUME NEW w \in Working, NEW a \in ConfigAction, NEW roleOf,
         ActionAllowed(w, a),
         a.type = "AddMember" => roleOf[a.key] \in UserRole
  PROVE  AppliedTo(w, a, roleOf) \in Working
<1>1. CASE a.type = "AddMember"
  <2>1. a.key \in Keys /\ a.permissions \in SUBSET Permission
    BY <1>1, ActionFields
  <2>2. NewMember(roleOf[a.key], a.permissions, FALSE) \in Member
    BY <1>1, <2>1, NewMemberType
  <2> QED BY <1>1, <2>1, <2>2 DEF AppliedTo, Working
<1>2. CASE a.type = "RemoveMember"
  <2>1. a.key \in Keys BY <1>2, ActionFields
  <2> QED BY <1>2, <2>1 DEF AppliedTo, Working
<1>3. CASE a.type = "EditPermissions"
  <2>1. a.key \in Keys /\ a.permissions \in SUBSET Permission
    BY <1>3, ActionFields
  <2>2. w.members[a.key] \in Member
    BY <1>3, <2>1 DEF ActionAllowed, Working
  <2>3. [w.members[a.key] EXCEPT !.permissions = a.permissions] \in Member
    BY <2>1, <2>2 DEF Member
  <2> QED BY <1>3, <2>1, <2>3 DEF AppliedTo, Working
<1>4. CASE a.type = "SetThreshold"
  BY <1>4, ActionFields DEF AppliedTo, Working
<1>5. CASE a.type = "Nothing"
  BY <1>5 DEF AppliedTo
<1> QED BY <1>1, <1>2, <1>3, <1>4, <1>5, ActionFields

-----------------------------------------------------------------------------
(* Types of the operators.                                                 *)

LEMMA NoMembersType == NoMembers \in [Keys -> Member \cup {NoMember}]
BY DEF NoMembers

LEMMA IndexesAreReal == \A i \in WalletIndex : i # NoWallet
BY RegistryAssumption DEF WalletIndex, NoWallet

LEMMA NoSettingsType == NoSettings \in Settings
BY NoMembersType DEF NoSettings, Settings

LEMMA NewEntryType ==
  ASSUME NEW i \in WalletIndex, NEW flag \in BOOLEAN
  PROVE  NewEntry(i, flag) \in WalletEntry
BY DEF NewEntry, WalletEntry

LEMMA NewUserType ==
  ASSUME NEW role \in UserRole, NEW domain \in Domains \cup {None},
         NEW url \in Urls \cup {None}, NEW entries \in SUBSET WalletEntry
  PROVE  NewUser(role, domain, url, entries) \in User
BY DEF NewUser, User

\* An account is told from a missing one by its role.
LEMMA UserRoles ==
  ASSUME TypeOK, NEW k \in Keys
  PROVE  /\ HasUser(k) => users[k] \in User
         /\ users[k].role \in UserRole => users[k] \in User /\ HasUser(k)
         /\ HasUser(k) <=> users[k].role \in UserRole
         /\ users[k].wallets \in SUBSET WalletEntry
BY DEF TypeOK, HasUser, NoUser, User, UserRole, None

\* The user account after an action is a user account.
LEMMA UserAfterType ==
  ASSUME NEW u \in User, NEW i \in WalletIndex, NEW a
  PROVE  UserAfter(u, i, a) \in User
<1>1. NewEntry(i, FALSE) \in WalletEntry
  BY NewEntryType
<1> QED BY <1>1 DEF UserAfter, User

LEMMA UsersAfterType ==
  ASSUME NEW us \in [Keys -> User \cup {NoUser}], NEW i \in WalletIndex,
         NEW a \in ConfigAction, UserOpAllowed(us, i, a)
  PROVE  UsersAfter(us, i, a) \in [Keys -> User \cup {NoUser}]
<1>1. CASE a.type \in {"AddMember", "RemoveMember"}
  <2>1. a.key \in Keys
    BY <1>1, ActionFields
  <2>2. us[a.key] \in User
    BY <1>1, <2>1 DEF UserOpAllowed
  <2> QED BY <1>1, <2>1, <2>2, UserAfterType DEF UsersAfter
<1>2. CASE a.type \notin {"AddMember", "RemoveMember"}
  BY <1>2 DEF UsersAfter
<1> QED BY <1>1, <1>2

-----------------------------------------------------------------------------
(* Type correctness, action by action.                                     *)

LEMMA InitType == Init => TypeOK
BY NoSettingsType, RegistryAssumption DEF Init, TypeOK

LEMMA AdministratorType ==
  ASSUME NEW d \in Domains PROVE Administrator(d) \in User
BY NewUserType DEF Administrator, UserRole

LEMMA DomainActionsType ==
  ASSUME TypeOK, NEW d \in Domains, NEW k \in Ed25519Keys,
         CreateDomainConfig(d, k) \/ EditDomainConfig(d, k)
  PROVE  TypeOK'
<1>1. k \in Keys BY DEF Keys
<1>2. CASE CreateDomainConfig(d, k)
  BY <1>1, <1>2, AdministratorType DEF CreateDomainConfig, TypeOK, Domain
<1>3. CASE EditDomainConfig(d, k)
  <2>1. domains[d] \in Domain
    BY <1>3 DEF EditDomainConfig, TypeOK
  <2> QED BY <1>1, <1>3, <2>1, AdministratorType DEF EditDomainConfig, TypeOK, Domain
<1> QED BY <1>2, <1>3

LEMMA DisableType ==
  ASSUME TypeOK, NEW d \in Domains, NEW disable \in BOOLEAN,
         DisableDomainConfig(d, disable)
  PROVE  TypeOK'
<1>1. domains[d] \in Domain
  BY DEF DisableDomainConfig, TypeOK
<1> QED BY <1>1 DEF DisableDomainConfig, TypeOK, Domain

LEMMA UserActionsType ==
  ASSUME TypeOK, NEW k \in Keys, NEW role \in UserRole, NEW url \in Urls \cup {None},
         CreateUserAccount(k, role, url) \/ EditTransactionManagerUrl(k, url)
  PROVE  TypeOK'
<1>1. CASE CreateUserAccount(k, role, url)
  BY <1>1, NewUserType DEF CreateUserAccount, TypeOK
<1>2. CASE EditTransactionManagerUrl(k, url)
  <2>1. users[k] \in User
    BY <1>2, UserRoles DEF EditTransactionManagerUrl, UserRole
  <2> QED BY <1>2, <2>1 DEF EditTransactionManagerUrl, TypeOK, User
<1> QED BY <1>1, <1>2

LEMMA DomainUserType ==
  ASSUME TypeOK, NEW d \in Domains, NEW k \in Keys, NEW role \in UserRole,
         CreateDomainUserAccount(d, k, role)
  PROVE  TypeOK'
BY NewUserType DEF CreateDomainUserAccount, TypeOK

LEMMA HandedOverType ==
  ASSUME NEW k \in Keys, NEW role \in UserRole, NEW manager \in Ed25519Keys \cup {None}
  PROVE  HandedOver(k, role, manager) \in [Keys -> Member \cup {NoMember}]
<1> DEFINE rights == IF manager = None THEN AllPermissions ELSE {"Vote", "Execute"}
<1>1. NewMember(role, rights, TRUE) \in Member
  BY NewMemberType DEF AllPermissions, Permission
<1>2. NewMember("TransactionManager", {"Initiate"}, FALSE) \in Member
  BY NewMemberType DEF UserRole, Permission
<1> QED BY <1>1, <1>2, NoMembersType DEF HandedOver, Keys

LEMMA HandOverType ==
  ASSUME TypeOK, NEW d \in Domains, NEW k \in Secp256r1Keys, NEW role \in UserRole,
         NEW i \in WalletIndex, NEW manager \in Ed25519Keys \cup {None},
         CreateDomainUserAccountWithWallet(d, k, role, i, manager)
  PROVE  TypeOK'
<1>1. k \in Keys BY DEF Keys
<1>2. NewUser(role, d, None, {NewEntry(i, TRUE)}) \in User
  BY NewEntryType, NewUserType
<1>3. [wallets[i] EXCEPT !.members = HandedOver(k, role, manager)] \in Settings
  BY <1>1, HandedOverType DEF TypeOK, Settings
<1> QED BY <1>1, <1>2, <1>3 DEF CreateDomainUserAccountWithWallet, TypeOK

LEMMA CreateWalletType ==
  ASSUME TypeOK, NEW k \in Keys, CreateWallet(k)
  PROVE  TypeOK'
<1> DEFINE first == NewMember(users[k].role, AllPermissions, FALSE)
           settings == [members |-> [NoMembers EXCEPT ![k] = first], threshold |-> 1]
           user == IF users[k].role = "Member"
                   THEN [users[k] EXCEPT !.wallets = @ \cup {NewEntry(counter, FALSE)}]
                   ELSE users[k]
<1>1. users[k] \in User /\ users[k].role \in UserRole
  BY UserRoles DEF CreateWallet
<1>2. settings \in Settings
  <2>1. first \in Member
    BY <1>1, NewMemberType DEF AllPermissions
  <2> QED BY <2>1, NoMembersType DEF Settings
<1>3. user \in User
  <2>1. NewEntry(counter, FALSE) \in WalletEntry
    BY NewEntryType DEF CreateWallet
  <2> QED BY <1>1, <2>1 DEF User
<1>4. counter' \in 0..(MaxWallets + 1)
  BY RegistryAssumption DEF CreateWallet, TypeOK, WalletIndex
<1>5. /\ wallets' = [wallets EXCEPT ![counter] = settings]
      /\ users' = [users EXCEPT ![k] = user]
      /\ domains' = domains
  BY DEF CreateWallet
<1> HIDE DEF settings, user
<1> QED BY <1>2, <1>3, <1>4, <1>5 DEF TypeOK

LEMMA ChangeConfigType ==
  ASSUME TypeOK, NEW i \in WalletIndex, NEW a1 \in ConfigAction, NEW a2 \in ConfigAction,
         ProcessActions(i, a1, a2)
  PROVE  TypeOK'
<1> DEFINE w0 == WorkingCopy(wallets[i])
           w1 == AppliedTo(w0, a1, RoleOf)
           w2 == AppliedTo(w1, a2, RoleOf)
           u1 == UsersAfter(users, i, a1)
           u2 == UsersAfter(u1, i, a2)
           settings == [members |-> w2.members, threshold |-> w2.threshold]
<1>1. \A a \in {a1, a2} : a.type = "AddMember" => RoleOf[a.key] \in UserRole
  <2>1. ASSUME NEW a \in {a1, a2}, a.type = "AddMember"
        PROVE  RoleOf[a.key] \in UserRole
    <3>1. a.key \in Keys /\ HasUser(a.key)
      BY <2>1, ActionFields DEF ProcessActions
    <3> QED BY <3>1, UserRoles DEF RoleOf
  <2> QED BY <2>1
<1>2. w0 \in Working
  BY DEF TypeOK, Settings, WorkingCopy, Working
<1>3. w1 \in Working
  BY <1>1, <1>2, AppliedToType DEF ProcessActions
<1>4. w2 \in Working
  BY <1>1, <1>3, AppliedToType DEF ProcessActions
<1>5. settings \in Settings
  BY <1>4 DEF Working, Settings
<1>6. u1 \in [Keys -> User \cup {NoUser}]
  BY UsersAfterType DEF ProcessActions, TypeOK
<1>7. u2 \in [Keys -> User \cup {NoUser}]
  BY <1>6, UsersAfterType DEF ProcessActions
<1>8. /\ wallets' = [wallets EXCEPT ![i] = settings]
      /\ users' = u2
      /\ UNCHANGED <<counter, domains>>
  BY DEF ProcessActions
<1> HIDE DEF settings, u2
<1> QED BY <1>5, <1>7, <1>8 DEF TypeOK

LEMMA WithDelegateType ==
  ASSUME NEW s \in Settings, NEW k \in Keys, s.members[k] # NoMember, NEW flag \in BOOLEAN
  PROVE  WithDelegate(s, k, flag) \in Settings
<1>1. s.members[k] \in Member
  BY DEF Settings
<1>2. [s.members[k] EXCEPT !.is_delegate = flag] \in Member
  BY <1>1 DEF Member
<1> QED BY <1>2 DEF WithDelegate, Settings

LEMMA EditUserDelegateType ==
  ASSUME TypeOK, NEW k \in Keys, NEW old \in WalletIndex \cup {NoWallet},
         NEW to \in WalletIndex \cup {NoWallet}, EditUserDelegate(k, old, to)
  PROVE  TypeOK'
<1>1. users[k] \in User /\ users[k].wallets \in SUBSET WalletEntry
  BY UserRoles DEF EditUserDelegate
<1>2. Redelegated(k, to) \in User
  <2>1. \A e \in users[k].wallets : NewEntry(e.index, e.index = to) \in WalletEntry
    BY <1>1, NewEntryType DEF WalletEntry
  <2> QED BY <1>1, <2>1 DEF Redelegated, User
<1>3. \A i \in WalletIndex : i \in {old, to} => wallets[i].members[k] # NoMember
  BY IndexesAreReal, Zenon DEF EditUserDelegate, DelegateFlagChanges
<1>4. \A i \in WalletIndex : i \in {old, to} => WithDelegate(wallets[i], k, i = to) \in Settings
  BY <1>3, WithDelegateType DEF TypeOK
<1> QED BY <1>2, <1>4 DEF EditUserDelegate, TypeOK

LEMMA NextType == TypeOK /\ [Next]_vars => TypeOK'
<1> SUFFICES ASSUME TypeOK, [Next]_vars PROVE TypeOK'
  OBVIOUS
<1>1. CASE CreateGlobalCounter
  BY <1>1, RegistryAssumption DEF CreateGlobalCounter, TypeOK
<1>2. CASE \E d \in Domains, k \in Ed25519Keys :
             CreateDomainConfig(d, k) \/ EditDomainConfig(d, k)
  BY <1>2, DomainActionsType
<1>3. CASE \E d \in Domains, disable \in BOOLEAN : DisableDomainConfig(d, disable)
  BY <1>3, DisableType
<1>4. CASE \E k \in Ed25519Keys, role \in UserRole, url \in Urls \cup {None} :
             CreateUserAccount(k, role, url)
  BY <1>4, UserActionsType DEF Keys
<1>5. CASE \E k \in Ed25519Keys, url \in Urls : EditTransactionManagerUrl(k, url)
  <2>1. PICK k \in Ed25519Keys, url \in Urls : EditTransactionManagerUrl(k, url)
    BY <1>5
  <2>2. "Member" \in UserRole /\ k \in Keys /\ url \in Urls \cup {None}
    BY DEF UserRole, Keys
  <2> QED BY <2>1, <2>2, UserActionsType
<1>6. CASE \E d \in Domains, k \in Secp256r1Keys, role \in UserRole :
             CreateDomainUserAccount(d, k, role)
  BY <1>6, DomainUserType DEF Keys
<1>7. CASE \E d \in Domains, k \in Secp256r1Keys, role \in UserRole,
              i \in WalletIndex, manager \in Ed25519Keys \cup {None} :
             CreateDomainUserAccountWithWallet(d, k, role, i, manager)
  BY <1>7, HandOverType
<1>8. CASE \E k \in Ed25519Keys : CreateWallet(k)
  BY <1>8, CreateWalletType DEF Keys
<1>9. CASE \E i \in WalletIndex : ChangeConfig(i)
  BY <1>9, ChangeConfigType DEF ChangeConfig
<1>10. CASE \E k \in Keys, old, to \in WalletIndex \cup {NoWallet} :
              EditUserDelegate(k, old, to)
  BY <1>10, EditUserDelegateType
<1>11. CASE UNCHANGED vars
  BY <1>11 DEF vars, TypeOK
<1> QED BY <1>1, <1>2, <1>3, <1>4, <1>5, <1>6, <1>7, <1>8, <1>9, <1>10, <1>11 DEF Next

\* Every account the program writes is well formed.
THEOREM RegistryTypeOK == Spec => []TypeOK
<1> QED BY InitType, NextType, PTL DEF Spec
-----------------------------------------------------------------------------
(***************************************************************************)
(* The inductive invariant.  The properties of the registry are not        *)
(* inductive one by one: the mirror relies on unused wallets being empty   *)
(* and on every user account having passed its own check, and those rely   *)
(* on nothing else.                                                        *)
(***************************************************************************)
UsersValid == \A k \in Keys : HasUser(k) => UserInvariant(k, users[k])

SettingsValid == \A i \in WalletIndex : Created(i) => SettingsInvariant(wallets[i])

UnusedWalletsEmpty ==
  \A i \in WalletIndex : counter = 0 \/ i >= counter => ~Created(i)

DomainsExist ==
  \A k \in Keys :
    HasUser(k) /\ users[k].domain # None => domains[users[k].domain] # NoDomain

IInv ==
  /\ TypeOK
  /\ WalletsMirrorMembers
  /\ UsersValid
  /\ SettingsValid
  /\ UnusedWalletsEmpty
  /\ DomainsExist

-----------------------------------------------------------------------------
(* The two sides of membership.                                            *)

LEMMA EmptyMirrors ==
  ASSUME NEW u, u.wallets = {}, NEW i
  PROVE  Mirrors(NoMember, u, i)
BY DEF Mirrors

\* A key without an account is in no wallet.
LEMMA StrangersAreNoMembers ==
  ASSUME TypeOK, WalletsMirrorMembers, NEW k \in Keys, ~HasUser(k), NEW i \in WalletIndex
  PROVE  wallets[i].members[k] = NoMember
<1>1. wallets[i].members[k] \in Member \cup {NoMember}
  BY DEF TypeOK, Settings
<1>2. users[k].role = "None"
  BY DEF HasUser, NoUser, None
<1>3. wallets[i].members[k] # NoMember => wallets[i].members[k].role = "None"
  BY <1>2 DEF WalletsMirrorMembers, Mirrors
<1> QED BY <1>1, <1>3 DEF Member, UserRole

\* A new account that lists no wallet keeps the mirror.
LEMMA NewAccountMirrors ==
  ASSUME TypeOK, WalletsMirrorMembers, NEW k \in Keys, ~HasUser(k),
         NEW u \in User, u.wallets = {}, users' = [users EXCEPT ![k] = u],
         wallets' = wallets
  PROVE  WalletsMirrorMembers'
<1> SUFFICES ASSUME NEW x \in Keys, NEW i \in WalletIndex
             PROVE  Mirrors(wallets[i].members[x], users'[x], i)
  BY DEF WalletsMirrorMembers
<1>1. CASE x = k
  BY <1>1, StrangersAreNoMembers, EmptyMirrors DEF TypeOK
<1>2. CASE x # k
  BY <1>2 DEF WalletsMirrorMembers, TypeOK
<1> QED BY <1>1, <1>2

-----------------------------------------------------------------------------
(***************************************************************************)
(* A change_config batch.  Between two actions of a batch a key may be     *)
(* listed twice; then the user account says nothing reliable about it, but *)
(* the key is present, and a removal drops every copy and every entry.     *)
(***************************************************************************)
BatchMirrors(w, us, i) ==
  \A k \in Keys :
    /\ w.members[k] # NoMember => w.members[k].role = us[k].role
    /\ k \in w.repeated => w.members[k] # NoMember
    /\ k \notin w.repeated => Mirrors(w.members[k], us[k], i)

Roles(us) == [k \in Keys |-> us[k].role]

\* A batch touches neither roles nor domains nor the entries of other wallets.
LEMMA UsersAfterFrame ==
  ASSUME NEW us \in [Keys -> User \cup {NoUser}], NEW i \in WalletIndex,
         NEW a \in ConfigAction, UserOpAllowed(us, i, a), NEW k \in Keys
  PROVE  LET u == UsersAfter(us, i, a)[k]
         IN  /\ u.role = us[k].role
             /\ u.domain = us[k].domain
             /\ \A j \in WalletIndex \ {i} :
                  {e \in u.wallets : e.index = j} = {e \in us[k].wallets : e.index = j}
             /\ u = NoUser <=> us[k] = NoUser
<1> DEFINE u == UsersAfter(us, i, a)[k]
<1>1. CASE a.type \in {"AddMember", "RemoveMember"} /\ a.key = k
  <2>1. us[k] \in User
    BY <1>1 DEF UserOpAllowed
  <2>2. u = UserAfter(us[k], i, a)
    BY <1>1 DEF UsersAfter
  <2>3. u \in User
    BY <2>1, <2>2, UserAfterType
  <2>4. u.role = us[k].role /\ u.domain = us[k].domain
    BY <2>1, <2>2 DEF UserAfter, User
  <2>5. \A j \in WalletIndex \ {i} :
          {e \in u.wallets : e.index = j} = {e \in us[k].wallets : e.index = j}
    BY <2>1, <2>2 DEF UserAfter, User, NewEntry
  <2>6. u # NoUser /\ us[k] # NoUser
    BY <2>1, <2>3 DEF User, NoUser, UserRole, None
  <2> QED BY <2>4, <2>5, <2>6
<1>2. CASE ~(a.type \in {"AddMember", "RemoveMember"} /\ a.key = k)
  <2>1. u = us[k]
    BY <1>2, ActionFields DEF UsersAfter
  <2> QED BY <2>1
<1> QED BY <1>1, <1>2

LEMMA BatchStep ==
  ASSUME NEW w \in Working, NEW us \in [Keys -> User \cup {NoUser}],
         NEW i \in WalletIndex, NEW a \in ConfigAction,
         BatchMirrors(w, us, i), ActionAllowed(w, a), UserOpAllowed(us, i, a)
  PROVE  BatchMirrors(AppliedTo(w, a, Roles(us)), UsersAfter(us, i, a), i)
<1> DEFINE v == AppliedTo(w, a, Roles(us))
           vs == UsersAfter(us, i, a)
<1> SUFFICES ASSUME NEW k \in Keys
             PROVE  /\ v.members[k] # NoMember => v.members[k].role = vs[k].role
                    /\ k \in v.repeated => v.members[k] # NoMember
                    /\ k \notin v.repeated => Mirrors(v.members[k], vs[k], i)
  BY DEF BatchMirrors
<1>0. vs[k].role = us[k].role
  BY UsersAfterFrame
<1>1. CASE a.type \in {"AddMember", "RemoveMember"} /\ a.key = k
  <2>0. us[k] \in User /\ us[k].role # "PermanentMember"
    BY <1>1 DEF UserOpAllowed
  <2>1. vs[k] = UserAfter(us[k], i, a)
    BY <1>1 DEF UsersAfter
  <2>2. CASE a.type = "AddMember" /\ w.members[k] # NoMember
    <3>1. v.members = w.members /\ v.repeated = w.repeated \cup {k}
      BY <1>1, <2>2 DEF AppliedTo, Working
    <3> QED BY <1>0, <2>2, <3>1 DEF BatchMirrors
  <2>3. CASE a.type = "AddMember" /\ w.members[k] = NoMember
    <3>1. k \notin w.repeated
      BY <2>3 DEF BatchMirrors
    <3>2. /\ v.members[k] = NewMember(us[k].role, a.permissions, FALSE)
          /\ v.repeated = w.repeated
      BY <1>1, <2>3 DEF AppliedTo, Working, Roles
    <3>3. {e \in us[k].wallets : e.index = i} = {}
      BY <2>3, <3>1 DEF BatchMirrors, Mirrors
    <3>4. v.members[k] # NoMember
      BY <2>0, <3>2 DEF NewMember, NoMember, User, UserRole
    <3>5. v.members[k].role = us[k].role /\ v.members[k].is_delegate = FALSE
      BY <3>2 DEF NewMember
    <3>6. CASE us[k].role = "Member"
      <4>1. vs[k].wallets = us[k].wallets \cup {NewEntry(i, FALSE)}
        BY <2>0, <2>1, <2>3, <3>6 DEF UserAfter, User
      <4>2. {e \in vs[k].wallets : e.index = i} = {NewEntry(i, FALSE)}
        BY <3>3, <4>1 DEF NewEntry
      <4> QED BY <1>0, <3>1, <3>2, <3>4, <3>5, <3>6, <4>2 DEF Mirrors
    <3>7. CASE us[k].role # "Member"
      <4>1. vs[k] = us[k]
        BY <2>1, <2>3, <3>7 DEF UserAfter
      <4> QED BY <2>0, <3>1, <3>2, <3>3, <3>4, <3>5, <3>7, <4>1 DEF Mirrors
    <3> QED BY <3>6, <3>7
  <2>4. CASE a.type = "RemoveMember"
    <3>1. v.members[k] = NoMember /\ k \notin v.repeated
      BY <1>1, <2>4 DEF AppliedTo, Working
    <3>2. vs[k].wallets = {e \in us[k].wallets : e.index # i}
      BY <2>0, <2>1, <2>4 DEF UserAfter, User
    <3>3. {e \in vs[k].wallets : e.index = i} = {}
      BY <3>2
    <3> QED BY <3>1, <3>3 DEF Mirrors
  <2> QED BY <1>1, <2>2, <2>3, <2>4
<1>2. CASE ~(a.type \in {"AddMember", "RemoveMember"} /\ a.key = k)
  <2>1. vs[k] = us[k]
    BY <1>2, ActionFields DEF UsersAfter
  <2>2. k \in v.repeated <=> k \in w.repeated
    BY <1>2, ActionFields DEF AppliedTo, Working
  <2>3. CASE a.type = "EditPermissions" /\ a.key = k
    <3>1. v.members[k] = [w.members[k] EXCEPT !.permissions = a.permissions]
      BY <2>3 DEF AppliedTo, Working
    <3>2. w.members[k] \in Member
      BY <2>3 DEF ActionAllowed, Working
    <3>3. /\ v.members[k] \in Member
          /\ v.members[k].role = w.members[k].role
          /\ v.members[k].is_delegate = w.members[k].is_delegate
      BY <2>3, <3>1, <3>2, ActionFields DEF Member
    <3>4. v.members[k] # NoMember /\ w.members[k] # NoMember
      BY <3>2, <3>3 DEF Member, NoMember, UserRole
    <3> QED BY <2>1, <2>2, <3>3, <3>4 DEF BatchMirrors, Mirrors
  <2>4. CASE ~(a.type = "EditPermissions" /\ a.key = k)
    <3>1. v.members[k] = w.members[k]
      BY <1>2, <2>4, ActionFields DEF AppliedTo, Working
    <3> QED BY <2>1, <2>2, <3>1 DEF BatchMirrors
  <2> QED BY <2>3, <2>4
<1> QED BY <1>1, <1>2

\* What a whole batch leaves behind.
LEMMA ChangeConfigEffect ==
  ASSUME TypeOK, WalletsMirrorMembers, NEW i \in WalletIndex,
         NEW a1 \in ConfigAction, NEW a2 \in ConfigAction, ProcessActions(i, a1, a2)
  PROVE  /\ \A k \in Keys : Mirrors(wallets'[i].members[k], users'[k], i)
         /\ \A k \in Keys, j \in WalletIndex \ {i} :
              {e \in users'[k].wallets : e.index = j} = {e \in users[k].wallets : e.index = j}
         /\ \A k \in Keys :
              /\ users'[k].role = users[k].role
              /\ users'[k].domain = users[k].domain
              /\ users'[k] # users[k] => UserInvariant(k, users'[k])
              /\ users'[k] = NoUser <=> users[k] = NoUser
<1> DEFINE w0 == WorkingCopy(wallets[i])
           w1 == AppliedTo(w0, a1, RoleOf)
           w2 == AppliedTo(w1, a2, RoleOf)
           u1 == UsersAfter(users, i, a1)
           u2 == UsersAfter(u1, i, a2)
<1>1. \A a \in {a1, a2} : a.type = "AddMember" => RoleOf[a.key] \in UserRole
  <2>1. ASSUME NEW a \in {a1, a2}, a.type = "AddMember"
        PROVE  RoleOf[a.key] \in UserRole
    <3>1. a.key \in Keys /\ HasUser(a.key)
      BY <2>1, ActionFields DEF ProcessActions
    <3> QED BY <3>1, UserRoles DEF RoleOf
  <2> QED BY <2>1
<1>2. w0 \in Working
  BY DEF TypeOK, Settings, WorkingCopy, Working
<1>3. w1 \in Working
  BY <1>1, <1>2, AppliedToType DEF ProcessActions
<1>4. w2 \in Working
  BY <1>1, <1>3, AppliedToType DEF ProcessActions
<1>5. users \in [Keys -> User \cup {NoUser}]
  BY DEF TypeOK
<1>6. u1 \in [Keys -> User \cup {NoUser}]
  BY <1>5, UsersAfterType DEF ProcessActions
<1>7. u2 \in [Keys -> User \cup {NoUser}]
  BY <1>6, UsersAfterType DEF ProcessActions
<1>8. BatchMirrors(w0, users, i)
  BY DEF WorkingCopy, BatchMirrors, WalletsMirrorMembers, Mirrors
<1>9. RoleOf = Roles(users) /\ RoleOf = Roles(u1)
  <2>1. UserOpAllowed(users, i, a1)
    BY DEF ProcessActions
  <2>2. \A k \in Keys : u1[k].role = users[k].role
    BY <1>5, <2>1, UsersAfterFrame
  <2> QED BY <2>2 DEF RoleOf, Roles
<1>10. BatchMirrors(w1, u1, i)
  <2>1. ActionAllowed(w0, a1) /\ UserOpAllowed(users, i, a1)
    BY DEF ProcessActions
  <2>2. BatchMirrors(AppliedTo(w0, a1, Roles(users)), UsersAfter(users, i, a1), i)
    BY <1>2, <1>5, <1>8, <2>1, BatchStep
  <2> QED BY <1>9, <2>2
<1>11. BatchMirrors(w2, u2, i)
  <2>1. ActionAllowed(w1, a2) /\ UserOpAllowed(u1, i, a2)
    BY DEF ProcessActions
  <2>2. BatchMirrors(AppliedTo(w1, a2, Roles(u1)), UsersAfter(u1, i, a2), i)
    BY <1>3, <1>6, <1>10, <2>1, BatchStep
  <2> QED BY <1>9, <2>2
<1>12. /\ wallets'[i].members = w2.members
       /\ w2.repeated = {}
       /\ users' = u2
  BY DEF ProcessActions, TypeOK
<1>13. \A k \in Keys : Mirrors(wallets'[i].members[k], users'[k], i)
  BY <1>11, <1>12 DEF BatchMirrors
<1>14. UserOpAllowed(users, i, a1) /\ UserOpAllowed(u1, i, a2)
  BY DEF ProcessActions
<1>15. \A k \in Keys :
         /\ u2[k].role = users[k].role
         /\ u2[k].domain = users[k].domain
         /\ \A j \in WalletIndex \ {i} :
              {e \in u2[k].wallets : e.index = j} = {e \in users[k].wallets : e.index = j}
         /\ u2[k] = NoUser <=> users[k] = NoUser
  <2> TAKE k \in Keys
  <2>1. /\ u1[k].role = users[k].role
        /\ u1[k].domain = users[k].domain
        /\ \A j \in WalletIndex \ {i} :
             {e \in u1[k].wallets : e.index = j} = {e \in users[k].wallets : e.index = j}
        /\ u1[k] = NoUser <=> users[k] = NoUser
    BY <1>5, <1>14, UsersAfterFrame
  <2>2. /\ u2[k].role = u1[k].role
        /\ u2[k].domain = u1[k].domain
        /\ \A j \in WalletIndex \ {i} :
             {e \in u2[k].wallets : e.index = j} = {e \in u1[k].wallets : e.index = j}
        /\ u2[k] = NoUser <=> u1[k] = NoUser
    BY <1>6, <1>14, UsersAfterFrame
  <2> HIDE DEF u1, u2
  <2> QED BY <2>1, <2>2
<1>16. \A k \in Keys : u1[k] # users[k] => UserInvariant(k, u1[k])
  BY <1>5, <1>14, ActionFields DEF UsersAfter, UserOpAllowed
<1>17. \A k \in Keys : u2[k] # u1[k] => UserInvariant(k, u2[k])
  BY <1>6, <1>14, ActionFields DEF UsersAfter, UserOpAllowed
<1>18. \A k \in Keys : u2[k] # users[k] => UserInvariant(k, u2[k])
  <2> HIDE DEF u1, u2
  <2> QED BY <1>16, <1>17
<1> HIDE DEF u2, w2
<1> QED BY <1>12, <1>13, <1>15, <1>18

-----------------------------------------------------------------------------
(* The mirror, action by action.                                           *)

LEMMA ChangeConfigMirrors ==
  ASSUME TypeOK, WalletsMirrorMembers, NEW i \in WalletIndex,
         NEW a1 \in ConfigAction, NEW a2 \in ConfigAction, ProcessActions(i, a1, a2)
  PROVE  WalletsMirrorMembers'
<1> SUFFICES ASSUME NEW k \in Keys, NEW j \in WalletIndex
             PROVE  Mirrors(wallets'[j].members[k], users'[k], j)
  BY DEF WalletsMirrorMembers
<1>1. CASE j = i
  BY <1>1, ChangeConfigEffect
<1>2. CASE j # i
  <2>1. wallets'[j] = wallets[j]
    BY <1>2 DEF ProcessActions, TypeOK
  <2>2. /\ {e \in users'[k].wallets : e.index = j} = {e \in users[k].wallets : e.index = j}
        /\ users'[k].role = users[k].role
    BY <1>2, ChangeConfigEffect
  <2>3. Mirrors(wallets[j].members[k], users[k], j)
    BY DEF WalletsMirrorMembers
  <2> QED BY <2>1, <2>2, <2>3 DEF Mirrors
<1> QED BY <1>1, <1>2

\* The authority that hands a wallet over keeps no trace of it, and neither
\* the new passkey nor the manager had one.
LEMMA HandOverMirrors ==
  ASSUME TypeOK, WalletsMirrorMembers, NEW d \in Domains, NEW k \in Secp256r1Keys,
         NEW role \in UserRole, NEW i \in WalletIndex,
         NEW manager \in Ed25519Keys \cup {None},
         CreateDomainUserAccountWithWallet(d, k, role, i, manager)
  PROVE  WalletsMirrorMembers'
<1> DEFINE user == NewUser(role, d, None, {NewEntry(i, TRUE)})
           authority == domains[d].authority
<1> SUFFICES ASSUME NEW x \in Keys, NEW j \in WalletIndex
             PROVE  Mirrors(wallets'[j].members[x], users'[x], j)
  BY DEF WalletsMirrorMembers
<1>0. k \in Keys
  BY DEF Keys
<1>1. /\ users' = [users EXCEPT ![k] = user]
      /\ wallets'[i].members = HandedOver(k, role, manager)
      /\ \A l \in WalletIndex \ {i} : wallets'[l] = wallets[l]
      /\ ~HasUser(k)
      /\ MembersOf(wallets[i]) = {authority}
      /\ wallets[i].members[authority].role = "Administrator"
      /\ manager # None => users[manager].role = "TransactionManager"
      /\ UserInvariant(k, user)
  BY DEF CreateDomainUserAccountWithWallet, TypeOK, Settings
<1>2. role \in {"Member", "PermanentMember"}
  BY <1>1 DEF UserInvariant, NewUser
<1>3. Mirrors(wallets[j].members[x], users[x], j)
  BY DEF WalletsMirrorMembers
<1>4. CASE x = k
  <2>1. users'[x] = user
    BY <1>0, <1>1, <1>4 DEF TypeOK
  <2>2. {e \in user.wallets : e.index = j} = IF j = i THEN {NewEntry(i, TRUE)} ELSE {}
    BY DEF NewUser, NewEntry
  <2>3. CASE j = i
    <3>1. wallets'[i].members[k] =
            NewMember(role, IF manager = None THEN AllPermissions ELSE {"Vote", "Execute"}, TRUE)
      BY <1>0, <1>1, KeysAssumption, RegistryAssumption DEF HandedOver, NoMembers, Keys
    <3>2. /\ wallets'[i].members[k] # NoMember
          /\ wallets'[i].members[k].role = role
          /\ wallets'[i].members[k].is_delegate = TRUE
      BY <1>2, <3>1 DEF NewMember, NoMember
    <3>3. user.role = role
      BY DEF NewUser
    <3> HIDE DEF user
    <3> QED BY <1>2, <1>4, <2>1, <2>2, <2>3, <3>2, <3>3 DEF Mirrors
  <2>4. CASE j # i
    <3>1. wallets'[j].members[x] = NoMember
      BY <1>1, <1>4, <2>4, StrangersAreNoMembers
    <3> HIDE DEF user
    <3> QED BY <2>1, <2>2, <2>4, <3>1 DEF Mirrors
  <2> QED BY <2>3, <2>4
<1>5. CASE x # k
  <2>1. users'[x] = users[x]
    BY <1>1, <1>5 DEF TypeOK
  <2>2. CASE j = i
    <3>1. wallets[i].members[x] = NoMember \/ wallets[i].members[x].role = "Administrator"
      BY <1>1 DEF MembersOf
    <3>2. {e \in users[x].wallets : e.index = i} = {}
      BY <1>3, <2>2, <3>1 DEF Mirrors
    <3>3. CASE x = manager
      <4>1. wallets'[i].members[x] = NewMember("TransactionManager", {"Initiate"}, FALSE)
        BY <1>1, <1>5, <3>3, RegistryAssumption DEF HandedOver, NoMembers
      <4>2. users[x].role = "TransactionManager"
        BY <1>1, <3>3, RegistryAssumption
      <4> QED BY <2>1, <2>2, <3>2, <4>1, <4>2 DEF Mirrors, NewMember
    <3>4. CASE x # manager
      <4>1. wallets'[i].members[x] = NoMember
        BY <1>1, <1>5, <3>4 DEF HandedOver, NoMembers
      <4> QED BY <2>1, <2>2, <3>2, <4>1 DEF Mirrors
    <3> QED BY <3>3, <3>4
  <2>3. CASE j # i
    BY <1>1, <1>3, <2>1, <2>3
  <2> QED BY <2>2, <2>3
<1> QED BY <1>4, <1>5

LEMMA CreateWalletMirrors ==
  ASSUME TypeOK, WalletsMirrorMembers, UnusedWalletsEmpty, NEW k \in Keys, CreateWallet(k)
  PROVE  WalletsMirrorMembers'
<1> DEFINE i == counter
           first == NewMember(users[k].role, AllPermissions, FALSE)
<1> SUFFICES ASSUME NEW x \in Keys, NEW j \in WalletIndex
             PROVE  Mirrors(wallets'[j].members[x], users'[x], j)
  BY DEF WalletsMirrorMembers
<1>0. i \in WalletIndex /\ users[k] \in User
  BY UserRoles DEF CreateWallet
<1>1. /\ wallets'[i].members = [NoMembers EXCEPT ![k] = first]
      /\ \A l \in WalletIndex \ {i} : wallets'[l] = wallets[l]
      /\ \A y \in Keys \ {k} : users'[y] = users[y]
      /\ users'[k].role = users[k].role
      /\ users'[k].wallets = IF users[k].role = "Member"
                             THEN users[k].wallets \cup {NewEntry(i, FALSE)}
                             ELSE users[k].wallets
  BY <1>0 DEF CreateWallet, TypeOK, User
<1>2. users[k].role # "PermanentMember"
  <2>1. wallets'[i].members[k] = first
    BY <1>1 DEF NoMembers
  <2>2. RoleRulesHold([members |-> [NoMembers EXCEPT ![k] = first], threshold |-> 1])
    BY DEF CreateWallet, SettingsInvariant
  <2> QED BY <2>2 DEF RoleRulesHold, WithRole, NoMembers, NewMember
<1>3. Mirrors(wallets[j].members[x], users[x], j)
  BY DEF WalletsMirrorMembers
<1>4. CASE j = i
  <2>1. wallets[i] = NoSettings
    BY <1>0, RegistryAssumption DEF UnusedWalletsEmpty, Created, WalletIndex
  <2>2. {e \in users[x].wallets : e.index = i} = {}
    BY <1>3, <1>4, <2>1 DEF Mirrors, NoSettings, NoMembers
  <2>3. CASE x = k /\ users[k].role = "Member"
    <3>1. {e \in users'[x].wallets : e.index = i} = {NewEntry(i, FALSE)}
      BY <1>1, <2>2, <2>3 DEF NewEntry
    <3>2. wallets'[i].members[x] = first
      BY <1>1, <2>3 DEF NoMembers
    <3>3. first # NoMember /\ first.role = "Member" /\ first.is_delegate = FALSE
      BY <2>3 DEF NewMember, NoMember
    <3> HIDE DEF first
    <3> QED BY <1>1, <1>4, <2>3, <3>1, <3>2, <3>3 DEF Mirrors
  <2>4. CASE x = k /\ users[k].role # "Member"
    <3>1. wallets'[i].members[x] = first
      BY <1>1, <2>4 DEF NoMembers
    <3>2. first.role = users[k].role
      BY DEF NewMember
    <3> HIDE DEF first
    <3> QED BY <1>1, <1>2, <1>4, <2>2, <2>4, <3>1, <3>2 DEF Mirrors
  <2>5. CASE x # k
    <3>1. wallets'[i].members[x] = NoMember
      BY <1>1, <2>5 DEF NoMembers
    <3> QED BY <1>1, <1>4, <2>2, <2>5, <3>1 DEF Mirrors
  <2> QED BY <2>3, <2>4, <2>5
<1>5. CASE j # i
  <2>1. wallets'[j] = wallets[j]
    BY <1>1, <1>5
  <2>2. /\ users'[x].role = users[x].role
        /\ {e \in users'[x].wallets : e.index = j} = {e \in users[x].wallets : e.index = j}
    BY <1>1, <1>5 DEF NewEntry
  <2> QED BY <1>3, <2>1, <2>2 DEF Mirrors
<1> QED BY <1>4, <1>5

\* The wallet left is the only one whose entry carried the flag, so rewriting
\* every entry of the account matches rewriting two member lists.
LEMMA EditUserDelegateMirrors ==
  ASSUME TypeOK, WalletsMirrorMembers, UsersValid, NEW k \in Keys,
         NEW old \in WalletIndex \cup {NoWallet}, NEW to \in WalletIndex \cup {NoWallet},
         EditUserDelegate(k, old, to)
  PROVE  WalletsMirrorMembers'
<1> SUFFICES ASSUME NEW x \in Keys, NEW j \in WalletIndex
             PROVE  Mirrors(wallets'[j].members[x], users'[x], j)
  BY DEF WalletsMirrorMembers
<1>1. users[k] \in User /\ users[k].role = "Member"
  BY UserRoles DEF EditUserDelegate
<1>2. /\ users' = [users EXCEPT ![k] = Redelegated(k, to)]
      /\ wallets'[j] = IF j \in {old, to} THEN WithDelegate(wallets[j], k, j = to) ELSE wallets[j]
  BY DEF EditUserDelegate
<1>3. Mirrors(wallets[j].members[x], users[x], j)
  BY DEF WalletsMirrorMembers
<1>4. wallets[j].members \in [Keys -> Member \cup {NoMember}]
  BY DEF TypeOK, Settings
<1>5. CASE x # k
  <2>1. users'[x] = users[x]
    BY <1>2, <1>5 DEF TypeOK
  <2>2. wallets'[j].members[x] = wallets[j].members[x]
    BY <1>2, <1>4, <1>5 DEF WithDelegate
  <2> QED BY <1>3, <2>1, <2>2
<1>6. CASE x = k
  <2> DEFINE m == wallets[j].members[k]
  <2>1. users'[x] = Redelegated(k, to)
    BY <1>2, <1>6 DEF TypeOK
  <2>2. Redelegated(k, to).role = "Member"
    BY <1>1 DEF Redelegated, User
  <2>3. {e \in Redelegated(k, to).wallets : e.index = j} =
          {NewEntry(j, j = to) : e \in {f \in users[k].wallets : f.index = j}}
    <3>1. Redelegated(k, to).wallets = {NewEntry(e.index, e.index = to) : e \in users[k].wallets}
      BY <1>1 DEF Redelegated, User
    <3>2. \A e : NewEntry(e.index, e.index = to).index = e.index
      BY DEF NewEntry
    <3> QED BY <3>1, <3>2
  <2>4. CASE m = NoMember
    <3>1. j \notin {old, to}
      BY <2>4, IndexesAreReal DEF EditUserDelegate, DelegateFlagChanges
    <3>2. wallets'[j].members[k] = NoMember
      BY <1>2, <2>4, <3>1
    <3>3. {f \in users[k].wallets : f.index = j} = {}
      BY <1>3, <1>6, <2>4 DEF Mirrors
    <3>4. {e \in Redelegated(k, to).wallets : e.index = j} = {}
      BY <2>3, <3>3
    <3> QED BY <1>6, <2>1, <3>2, <3>4 DEF Mirrors
  <2>5. CASE m # NoMember
    <3>1. m \in Member /\ m.role = "Member"
      BY <1>1, <1>3, <1>4, <1>6, <2>5 DEF Mirrors
    <3>2. {f \in users[k].wallets : f.index = j} = {NewEntry(j, m.is_delegate)}
      BY <1>3, <1>6, <2>5, <3>1 DEF Mirrors
    <3>3. {e \in Redelegated(k, to).wallets : e.index = j} = {NewEntry(j, j = to)}
      BY <2>3, <3>2
    <3>4. j \notin {old, to} => m.is_delegate = FALSE
      <4> SUFFICES ASSUME j \notin {old, to}, m.is_delegate = TRUE
                   PROVE  FALSE
        BY <3>1 DEF Member
      <4>1. NewEntry(j, TRUE) \in users[k].wallets
        BY <3>2
      <4>2. j \in DelegateOf(k)
        BY <4>1 DEF DelegateOf, NewEntry
      <4>3. old \in DelegateOf(k)
        BY <4>2 DEF EditUserDelegate
      <4>4. AtMostOne({e \in users[k].wallets : e.is_delegate})
        BY DEF EditUserDelegate, UsersValid, UserInvariant
      <4>5. j = old
        BY <4>2, <4>3, <4>4 DEF DelegateOf, AtMostOne
      <4> QED BY <4>5
    <3>5. wallets'[j].members[k] = [m EXCEPT !.is_delegate = (j = to)]
      <4>1. CASE j \in {old, to}
        BY <1>2, <1>4, <4>1 DEF WithDelegate
      <4>2. CASE j \notin {old, to}
        <5>1. wallets'[j].members[k] = m /\ m.is_delegate = FALSE /\ j # to
          BY <1>2, <3>4, <4>2
        <5>2. m = [m EXCEPT !.is_delegate = FALSE]
          BY <3>1, <5>1 DEF Member
        <5> QED BY <5>1, <5>2
      <4> QED BY <4>1, <4>2
    <3>6. /\ wallets'[j].members[k].role = "Member"
          /\ wallets'[j].members[k].is_delegate = (j = to)
      BY <3>1, <3>5 DEF Member
    <3>7. wallets'[j].members[k] # NoMember
      BY <3>6 DEF NoMember
    <3> QED BY <1>6, <2>1, <2>2, <3>3, <3>6, <3>7 DEF Mirrors
  <2> QED BY <2>4, <2>5
<1> QED BY <1>5, <1>6

LEMMA NewDomainUserMirrors ==
  ASSUME TypeOK, WalletsMirrorMembers, NEW d \in Domains, NEW k \in Keys,
         CreateDomainConfig(d, k) \/ EditDomainConfig(d, k)
  PROVE  WalletsMirrorMembers'
<1>1. Administrator(d) \in User /\ Administrator(d).wallets = {}
  BY AdministratorType DEF Administrator, NewUser
<1> QED BY <1>1, NewAccountMirrors DEF CreateDomainConfig, EditDomainConfig

LEMMA NewUserMirrors ==
  ASSUME TypeOK, WalletsMirrorMembers, NEW k \in Keys, NEW role \in UserRole,
         NEW url \in Urls \cup {None}, CreateUserAccount(k, role, url)
  PROVE  WalletsMirrorMembers'
<1> DEFINE user == NewUser(role, None, url, {})
<1>1. user \in User /\ user.wallets = {}
  BY NewUserType DEF NewUser
<1>2. ~HasUser(k) /\ users' = [users EXCEPT ![k] = user] /\ wallets' = wallets
  BY DEF CreateUserAccount
<1> HIDE DEF user
<1> QED BY <1>1, <1>2, NewAccountMirrors

LEMMA NewPasskeyMirrors ==
  ASSUME TypeOK, WalletsMirrorMembers, NEW d \in Domains, NEW k \in Keys,
         NEW role \in UserRole, CreateDomainUserAccount(d, k, role)
  PROVE  WalletsMirrorMembers'
<1> DEFINE user == NewUser(role, d, None, {})
<1>1. user \in User /\ user.wallets = {}
  BY NewUserType DEF NewUser
<1>2. ~HasUser(k) /\ users' = [users EXCEPT ![k] = user] /\ wallets' = wallets
  BY DEF CreateDomainUserAccount
<1> HIDE DEF user
<1> QED BY <1>1, <1>2, NewAccountMirrors

LEMMA EditUrlMirrors ==
  ASSUME TypeOK, WalletsMirrorMembers, NEW k \in Keys, NEW url \in Urls,
         EditTransactionManagerUrl(k, url)
  PROVE  WalletsMirrorMembers'
<1>1. users[k] \in User
  BY UserRoles DEF EditTransactionManagerUrl, UserRole
<1>2. \A x \in Keys : users'[x].role = users[x].role /\ users'[x].wallets = users[x].wallets
  BY <1>1 DEF EditTransactionManagerUrl, TypeOK, User
<1> QED BY <1>2 DEF EditTransactionManagerUrl, WalletsMirrorMembers, Mirrors

LEMMA NextMirrors ==
  ASSUME TypeOK, WalletsMirrorMembers, UsersValid, UnusedWalletsEmpty, [Next]_vars
  PROVE  WalletsMirrorMembers'
<1>1. CASE CreateGlobalCounter
  BY <1>1 DEF CreateGlobalCounter, WalletsMirrorMembers
<1>2. CASE \E d \in Domains, k \in Ed25519Keys :
             CreateDomainConfig(d, k) \/ EditDomainConfig(d, k)
  BY <1>2, NewDomainUserMirrors DEF Keys
<1>3. CASE \E d \in Domains, disable \in BOOLEAN : DisableDomainConfig(d, disable)
  BY <1>3 DEF DisableDomainConfig, WalletsMirrorMembers
<1>4. CASE \E k \in Ed25519Keys, role \in UserRole, url \in Urls \cup {None} :
             CreateUserAccount(k, role, url)
  BY <1>4, NewUserMirrors DEF Keys
<1>5. CASE \E k \in Ed25519Keys, url \in Urls : EditTransactionManagerUrl(k, url)
  BY <1>5, EditUrlMirrors DEF Keys
<1>6. CASE \E d \in Domains, k \in Secp256r1Keys, role \in UserRole :
             CreateDomainUserAccount(d, k, role)
  BY <1>6, NewPasskeyMirrors DEF Keys
<1>7. CASE \E d \in Domains, k \in Secp256r1Keys, role \in UserRole,
              i \in WalletIndex, manager \in Ed25519Keys \cup {None} :
             CreateDomainUserAccountWithWallet(d, k, role, i, manager)
  BY <1>7, HandOverMirrors
<1>8. CASE \E k \in Ed25519Keys : CreateWallet(k)
  BY <1>8, CreateWalletMirrors DEF Keys
<1>9. CASE \E i \in WalletIndex : ChangeConfig(i)
  BY <1>9, ChangeConfigMirrors DEF ChangeConfig
<1>10. CASE \E k \in Keys, old, to \in WalletIndex \cup {NoWallet} :
              EditUserDelegate(k, old, to)
  BY <1>10, EditUserDelegateMirrors
<1>11. CASE UNCHANGED vars
  BY <1>11 DEF vars, WalletsMirrorMembers
<1> QED BY <1>1, <1>2, <1>3, <1>4, <1>5, <1>6, <1>7, <1>8, <1>9, <1>10, <1>11 DEF Next

-----------------------------------------------------------------------------
(* The other parts of the invariant.                                       *)

\* How a step changes one user account.
LEMMA UserSteps ==
  ASSUME TypeOK, WalletsMirrorMembers, UsersValid, [Next]_vars, NEW k \in Keys
  PROVE  users'[k] = users[k] \/ UserInvariant(k, users'[k])
<1>1. CASE \E d \in Domains, x \in Ed25519Keys :
             CreateDomainConfig(d, x) \/ EditDomainConfig(d, x)
  BY <1>1 DEF CreateDomainConfig, EditDomainConfig, TypeOK
<1>2. CASE \E x \in Ed25519Keys, role \in UserRole, url \in Urls \cup {None} :
             CreateUserAccount(x, role, url)
  BY <1>2 DEF CreateUserAccount, TypeOK
<1>3. CASE \E x \in Ed25519Keys, url \in Urls : EditTransactionManagerUrl(x, url)
  <2>1. PICK x \in Ed25519Keys, url \in Urls : EditTransactionManagerUrl(x, url)
    BY <1>3
  <2>2. CASE x = k
    <3>1. users[k] \in User /\ HasUser(k)
      BY <2>1, <2>2, UserRoles DEF EditTransactionManagerUrl, UserRole
    <3>2. users'[k] = [users[k] EXCEPT !.url = url]
      BY <2>1, <2>2 DEF EditTransactionManagerUrl, TypeOK
    <3>3. url # None /\ users[k].role = "TransactionManager"
      BY <2>1, <2>2, RegistryAssumption DEF EditTransactionManagerUrl
    <3>4. /\ users'[k].role = users[k].role
          /\ users'[k].url = url
          /\ users'[k].domain = users[k].domain
          /\ users'[k].wallets = users[k].wallets
      BY <3>1, <3>2 DEF User
    <3>5. UserInvariant(k, users[k])
      BY <3>1 DEF UsersValid
    <3> QED BY <3>3, <3>4, <3>5 DEF UserInvariant
  <2>3. CASE x # k
    BY <2>1, <2>3 DEF EditTransactionManagerUrl, TypeOK
  <2> QED BY <2>2, <2>3
<1>4. CASE \E d \in Domains, x \in Secp256r1Keys, role \in UserRole :
             CreateDomainUserAccount(d, x, role)
  BY <1>4 DEF CreateDomainUserAccount, TypeOK
<1>5. CASE \E d \in Domains, x \in Secp256r1Keys, role \in UserRole,
              i \in WalletIndex, manager \in Ed25519Keys \cup {None} :
             CreateDomainUserAccountWithWallet(d, x, role, i, manager)
  <2>1. PICK d \in Domains, x \in Secp256r1Keys, role \in UserRole,
             i \in WalletIndex, manager \in Ed25519Keys \cup {None} :
               CreateDomainUserAccountWithWallet(d, x, role, i, manager)
    BY <1>5
  <2>2. /\ users' = [users EXCEPT ![x] = NewUser(role, d, None, {NewEntry(i, TRUE)})]
        /\ UserInvariant(x, NewUser(role, d, None, {NewEntry(i, TRUE)}))
    BY <2>1 DEF CreateDomainUserAccountWithWallet
  <2> QED BY <2>2 DEF TypeOK
<1>6. CASE \E x \in Ed25519Keys : CreateWallet(x)
  <2>1. PICK x \in Ed25519Keys : CreateWallet(x)
    BY <1>6
  <2>2. PICK u : users' = [users EXCEPT ![x] = u] /\ UserInvariant(x, u)
    BY <2>1 DEF CreateWallet
  <2> QED BY <2>2 DEF TypeOK
<1>7. CASE \E i \in WalletIndex : ChangeConfig(i)
  BY <1>7, ChangeConfigEffect DEF ChangeConfig
<1>8. CASE \E x \in Keys, old, to \in WalletIndex \cup {NoWallet} :
             EditUserDelegate(x, old, to)
  BY <1>8 DEF EditUserDelegate, TypeOK
<1>9. CASE \/ CreateGlobalCounter
           \/ \E d \in Domains, disable \in BOOLEAN : DisableDomainConfig(d, disable)
           \/ UNCHANGED vars
  BY <1>9 DEF CreateGlobalCounter, DisableDomainConfig, vars
<1> QED BY <1>1, <1>2, <1>3, <1>4, <1>5, <1>6, <1>7, <1>8, <1>9 DEF Next

LEMMA NextUsersValid ==
  ASSUME TypeOK, WalletsMirrorMembers, UsersValid, [Next]_vars
  PROVE  UsersValid'
BY UserSteps DEF UsersValid, HasUser

\* How a step changes one wallet.
LEMMA WalletSteps ==
  ASSUME TypeOK, [Next]_vars, NEW i \in WalletIndex
  PROVE  \/ wallets'[i] = wallets[i]
         \/ /\ SettingsInvariant(wallets'[i])
            /\ Created(i) \/ (counter \in WalletIndex /\ i = counter /\ counter' = counter + 1)
            /\ counter' = counter \/ (counter \in WalletIndex /\ counter' = counter + 1)
<1>1. CASE \E d \in Domains, k \in Secp256r1Keys, role \in UserRole,
              j \in WalletIndex, manager \in Ed25519Keys \cup {None} :
             CreateDomainUserAccountWithWallet(d, k, role, j, manager)
  <2>1. PICK d \in Domains, k \in Secp256r1Keys, role \in UserRole,
             j \in WalletIndex, manager \in Ed25519Keys \cup {None} :
               CreateDomainUserAccountWithWallet(d, k, role, j, manager)
    BY <1>1
  <2>2. PICK s : /\ wallets' = [wallets EXCEPT ![j] = s]
                 /\ SettingsInvariant(s) /\ Created(j) /\ counter' = counter
    BY <2>1 DEF CreateDomainUserAccountWithWallet
  <2> QED BY <2>2 DEF TypeOK
<1>2. CASE \E k \in Ed25519Keys : CreateWallet(k)
  <2>1. PICK k \in Ed25519Keys : CreateWallet(k)
    BY <1>2
  <2>2. PICK s : /\ wallets' = [wallets EXCEPT ![counter] = s]
                 /\ SettingsInvariant(s)
                 /\ counter \in WalletIndex /\ counter' = counter + 1
    BY <2>1 DEF CreateWallet
  <2> QED BY <2>2 DEF TypeOK
<1>3. CASE \E j \in WalletIndex : ChangeConfig(j)
  <2>1. PICK j \in WalletIndex : ChangeConfig(j)
    BY <1>3
  <2>2. PICK a1 \in ConfigAction, a2 \in ConfigAction : ProcessActions(j, a1, a2)
    BY <2>1 DEF ChangeConfig
  <2>3. PICK s : /\ wallets' = [wallets EXCEPT ![j] = s]
                 /\ SettingsInvariant(s) /\ counter' = counter
    BY <2>2 DEF ProcessActions
  <2>4. Created(j)
    BY <2>1 DEF ChangeConfig
  <2> QED BY <2>3, <2>4 DEF TypeOK
<1>4. CASE \E k \in Keys, old, to \in WalletIndex \cup {NoWallet} :
             EditUserDelegate(k, old, to)
  <2>1. PICK k \in Keys, old \in WalletIndex \cup {NoWallet}, to \in WalletIndex \cup {NoWallet} :
               EditUserDelegate(k, old, to)
    BY <1>4
  <2>2. wallets'[i] = IF i \in {old, to} THEN WithDelegate(wallets[i], k, i = to) ELSE wallets[i]
    BY <2>1 DEF EditUserDelegate
  <2>3. counter' = counter
    BY <2>1 DEF EditUserDelegate
  <2>4. CASE i \in {old, to}
    <3>1. i # NoWallet
      BY IndexesAreReal
    <3>2. CASE i = to
      BY <2>1, <2>2, <2>3, <3>1, <3>2 DEF EditUserDelegate, DelegateFlagChanges
    <3>3. CASE i = old /\ i # to
      <4>1. /\ wallets[i].members[k] # NoMember
            /\ SettingsInvariant(WithDelegate(wallets[i], k, FALSE))
        BY <2>1, <3>1, <3>3, Zenon DEF EditUserDelegate, DelegateFlagChanges
      <4>2. Created(i)
        BY <4>1 DEF Created, NoSettings, NoMembers
      <4> QED BY <2>2, <2>3, <3>3, <4>1, <4>2
    <3> QED BY <2>4, <3>2, <3>3
  <2>5. CASE i \notin {old, to}
    BY <2>2, <2>5
  <2> QED BY <2>4, <2>5
<1>5. CASE wallets' = wallets
  BY <1>5
<1>6. wallets' = wallets
        \/ (\E d \in Domains, k \in Secp256r1Keys, role \in UserRole,
               j \in WalletIndex, manager \in Ed25519Keys \cup {None} :
              CreateDomainUserAccountWithWallet(d, k, role, j, manager))
        \/ (\E k \in Ed25519Keys : CreateWallet(k))
        \/ (\E j \in WalletIndex : ChangeConfig(j))
        \/ (\E k \in Keys, old, to \in WalletIndex \cup {NoWallet} :
              EditUserDelegate(k, old, to))
  BY DEF Next, vars, CreateGlobalCounter, CreateDomainConfig, EditDomainConfig,
         DisableDomainConfig, CreateUserAccount, EditTransactionManagerUrl,
         CreateDomainUserAccount
<1> QED BY <1>1, <1>2, <1>3, <1>4, <1>5, <1>6

LEMMA NextSettingsValid ==
  ASSUME TypeOK, SettingsValid, [Next]_vars
  PROVE  SettingsValid'
BY WalletSteps DEF SettingsValid, Created

LEMMA CounterGrows ==
  ASSUME TypeOK, [Next]_vars
  PROVE  counter' = counter \/ counter' = counter + 1
<1>1. CASE CreateGlobalCounter
  BY <1>1 DEF CreateGlobalCounter
<1>2. CASE \E k \in Ed25519Keys : CreateWallet(k)
  BY <1>2 DEF CreateWallet
<1>3. CASE \E i \in WalletIndex : ChangeConfig(i)
  BY <1>3 DEF ChangeConfig, ProcessActions
<1>4. CASE \E k \in Keys, old, to \in WalletIndex \cup {NoWallet} :
             EditUserDelegate(k, old, to)
  BY <1>4 DEF EditUserDelegate
<1>5. CASE \E d \in Domains, k \in Secp256r1Keys, role \in UserRole,
              i \in WalletIndex, manager \in Ed25519Keys \cup {None} :
             CreateDomainUserAccountWithWallet(d, k, role, i, manager)
  BY <1>5 DEF CreateDomainUserAccountWithWallet
<1> QED
  BY <1>1, <1>2, <1>3, <1>4, <1>5
  DEF Next, vars, CreateDomainConfig, EditDomainConfig, DisableDomainConfig,
      CreateUserAccount, EditTransactionManagerUrl, CreateDomainUserAccount

LEMMA NextUnusedWalletsEmpty ==
  ASSUME TypeOK, UnusedWalletsEmpty, [Next]_vars
  PROVE  UnusedWalletsEmpty'
<1> SUFFICES ASSUME NEW i \in WalletIndex, counter' = 0 \/ i >= counter'
             PROVE  wallets'[i] = NoSettings
  BY DEF UnusedWalletsEmpty, Created
<1>1. counter \in Nat /\ i \in Nat /\ i # 0
  BY RegistryAssumption DEF TypeOK, WalletIndex
<1>2. counter = 0 \/ i >= counter
  BY <1>1, CounterGrows
<1>3. wallets[i] = NoSettings
  BY <1>2 DEF UnusedWalletsEmpty, Created
<1>4. ~(i = counter /\ counter' = counter + 1)
  BY <1>1
<1> QED BY <1>3, <1>4, WalletSteps DEF Created

\* How a step changes the domain of one user account, and that domains stay.
LEMMA DomainSteps ==
  ASSUME TypeOK, WalletsMirrorMembers, [Next]_vars, NEW k \in Keys
  PROVE  /\ \A d \in Domains : domains[d] # NoDomain => domains'[d] # NoDomain
         /\ \/ HasUser(k) /\ users'[k].domain = users[k].domain
            \/ users'[k] = NoUser
            \/ users'[k].domain = None
            \/ users'[k].domain \in Domains /\ domains'[users'[k].domain] # NoDomain
<1>0. \A a \in Ed25519Keys, flag \in BOOLEAN : [authority |-> a, is_disabled |-> flag] # NoDomain
  BY RegistryAssumption DEF NoDomain, Keys
<1>1. CASE \E d \in Domains, x \in Ed25519Keys :
             CreateDomainConfig(d, x) \/ EditDomainConfig(d, x)
  <2>1. PICK d \in Domains, x \in Ed25519Keys :
               CreateDomainConfig(d, x) \/ EditDomainConfig(d, x)
    BY <1>1
  <2>2. users' = [users EXCEPT ![x] = Administrator(d)]
    BY <2>1 DEF CreateDomainConfig, EditDomainConfig
  <2>3. domains'[d] # NoDomain /\ \A e \in Domains \ {d} : domains'[e] = domains[e]
    <3>1. CASE CreateDomainConfig(d, x)
      BY <1>0, <3>1 DEF CreateDomainConfig, TypeOK
    <3>2. CASE EditDomainConfig(d, x)
      <4>1. domains'[d].authority = x
        BY <3>2 DEF EditDomainConfig, TypeOK, Domain
      <4> QED BY <3>2, <4>1, RegistryAssumption DEF EditDomainConfig, TypeOK, NoDomain, Keys
    <3> QED BY <2>1, <3>1, <3>2
  <2>4. CASE x = k
    <3>1. users'[k].domain = d
      BY <2>2, <2>4 DEF TypeOK, Administrator, NewUser
    <3> QED BY <2>3, <3>1
  <2>5. CASE x # k
    <3>1. users'[k] = users[k]
      BY <2>2, <2>5 DEF TypeOK
    <3> QED BY <2>3, <3>1 DEF HasUser
  <2> QED BY <2>4, <2>5
<1>2. CASE \E x \in Ed25519Keys, role \in UserRole, url \in Urls \cup {None} :
             CreateUserAccount(x, role, url)
  <2>1. PICK x \in Ed25519Keys, role \in UserRole, url \in Urls \cup {None} :
               CreateUserAccount(x, role, url)
    BY <1>2
  <2>2. users' = [users EXCEPT ![x] = NewUser(role, None, url, {})] /\ domains' = domains
    BY <2>1 DEF CreateUserAccount
  <2> QED BY <2>2 DEF TypeOK, NewUser, HasUser
<1>3. CASE \E x \in Ed25519Keys, url \in Urls : EditTransactionManagerUrl(x, url)
  <2>1. PICK x \in Ed25519Keys, url \in Urls : EditTransactionManagerUrl(x, url)
    BY <1>3
  <2>2. users[x] \in User
    BY <2>1, UserRoles DEF EditTransactionManagerUrl, UserRole, Keys
  <2>3. users'[k] = users[k] \/ users'[k].domain = users[k].domain
    BY <2>1, <2>2 DEF EditTransactionManagerUrl, TypeOK, User
  <2>4. HasUser(x)
    BY <2>1, UserRoles DEF EditTransactionManagerUrl, UserRole, Keys
  <2> QED BY <2>1, <2>3, <2>4 DEF EditTransactionManagerUrl, TypeOK, HasUser
<1>4. CASE \E d \in Domains, x \in Secp256r1Keys, role \in UserRole :
             CreateDomainUserAccount(d, x, role)
  <2>1. PICK d \in Domains, x \in Secp256r1Keys, role \in UserRole :
               CreateDomainUserAccount(d, x, role)
    BY <1>4
  <2>2. /\ users' = [users EXCEPT ![x] = NewUser(role, d, None, {})]
        /\ domains' = domains /\ domains[d] # NoDomain
    BY <2>1 DEF CreateDomainUserAccount
  <2> QED BY <2>2 DEF TypeOK, NewUser, HasUser
<1>5. CASE \E d \in Domains, x \in Secp256r1Keys, role \in UserRole,
              i \in WalletIndex, manager \in Ed25519Keys \cup {None} :
             CreateDomainUserAccountWithWallet(d, x, role, i, manager)
  <2>1. PICK d \in Domains, x \in Secp256r1Keys, role \in UserRole,
             i \in WalletIndex, manager \in Ed25519Keys \cup {None} :
               CreateDomainUserAccountWithWallet(d, x, role, i, manager)
    BY <1>5
  <2>2. /\ users' = [users EXCEPT ![x] = NewUser(role, d, None, {NewEntry(i, TRUE)})]
        /\ domains' = domains /\ domains[d] # NoDomain
    BY <2>1 DEF CreateDomainUserAccountWithWallet
  <2> QED BY <2>2 DEF TypeOK, NewUser, HasUser
<1>6. CASE \E x \in Ed25519Keys : CreateWallet(x)
  <2>1. PICK x \in Ed25519Keys : CreateWallet(x)
    BY <1>6
  <2>2. users[x] \in User /\ HasUser(x)
    BY <2>1, UserRoles DEF CreateWallet, Keys
  <2>3. users'[k] = users[k] \/ (x = k /\ users'[k].domain = users[k].domain)
    BY <2>1, <2>2 DEF CreateWallet, TypeOK, User
  <2> QED BY <2>1, <2>2, <2>3 DEF CreateWallet, HasUser
<1>7. CASE \E i \in WalletIndex : ChangeConfig(i)
  <2>1. PICK i \in WalletIndex, a1 \in ConfigAction, a2 \in ConfigAction :
               ProcessActions(i, a1, a2)
    BY <1>7 DEF ChangeConfig
  <2>2. users'[k].domain = users[k].domain /\ (users'[k] = NoUser <=> users[k] = NoUser)
    BY <2>1, ChangeConfigEffect
  <2>3. domains' = domains
    BY <2>1 DEF ProcessActions
  <2> QED BY <2>2, <2>3 DEF HasUser
<1>8. CASE \E x \in Keys, old, to \in WalletIndex \cup {NoWallet} :
             EditUserDelegate(x, old, to)
  <2>1. PICK x \in Keys, old \in WalletIndex \cup {NoWallet}, to \in WalletIndex \cup {NoWallet} :
               EditUserDelegate(x, old, to)
    BY <1>8
  <2>2. users[x] \in User /\ HasUser(x)
    BY <2>1, UserRoles DEF EditUserDelegate
  <2>3. Redelegated(x, to).domain = users[x].domain
    BY <2>2 DEF Redelegated, User
  <2>4. users'[k] = users[k] \/ (x = k /\ users'[k].domain = users[k].domain)
    BY <2>1, <2>3 DEF EditUserDelegate, TypeOK
  <2> QED BY <2>1, <2>2, <2>4 DEF EditUserDelegate, HasUser
<1>9. CASE \E d \in Domains, disable \in BOOLEAN : DisableDomainConfig(d, disable)
  <2>1. PICK d \in Domains, disable \in BOOLEAN : DisableDomainConfig(d, disable)
    BY <1>9
  <2>2. domains[d] \in Domain /\ users' = users
    BY <2>1 DEF DisableDomainConfig, TypeOK
  <2>3. domains'[d] = [authority |-> domains[d].authority, is_disabled |-> disable]
    BY <2>1, <2>2 DEF DisableDomainConfig, TypeOK, Domain
  <2>4. domains'[d] # NoDomain
    BY <1>0, <2>2, <2>3 DEF Domain
  <2> QED BY <2>1, <2>2, <2>4 DEF DisableDomainConfig, TypeOK, HasUser
<1>10. CASE CreateGlobalCounter \/ UNCHANGED vars
  BY <1>10 DEF CreateGlobalCounter, vars, HasUser
<1> QED BY <1>1, <1>2, <1>3, <1>4, <1>5, <1>6, <1>7, <1>8, <1>9, <1>10 DEF Next

LEMMA NextDomainsExist ==
  ASSUME TypeOK, WalletsMirrorMembers, DomainsExist, [Next]_vars
  PROVE  DomainsExist'
<1> SUFFICES ASSUME NEW k \in Keys, users'[k] # NoUser, users'[k].domain # None
             PROVE  domains'[users'[k].domain] # NoDomain
  BY DEF DomainsExist, HasUser
<1>1. CASE HasUser(k) /\ users'[k].domain = users[k].domain
  <2>1. users[k].domain \in Domains /\ domains[users[k].domain] # NoDomain
    BY <1>1, UserRoles DEF DomainsExist, User
  <2> QED BY <1>1, <2>1, DomainSteps
<1> QED BY <1>1, DomainSteps

-----------------------------------------------------------------------------
(* The invariant and the theorems.                                         *)

LEMMA InitIInv == Init => IInv
<1> SUFFICES ASSUME Init PROVE IInv
  OBVIOUS
<1>1. TypeOK
  BY InitType
<1>2. WalletsMirrorMembers
  BY DEF Init, WalletsMirrorMembers, Mirrors, NoSettings, NoMembers, NoUser
<1>3. UsersValid /\ DomainsExist
  BY DEF Init, UsersValid, DomainsExist, HasUser
<1>4. SettingsValid /\ UnusedWalletsEmpty
  BY DEF Init, SettingsValid, UnusedWalletsEmpty, Created
<1> QED BY <1>1, <1>2, <1>3, <1>4 DEF IInv

LEMMA NextIInv == IInv /\ [Next]_vars => IInv'
BY NextType, NextMirrors, NextUsersValid, NextSettingsValid,
   NextUnusedWalletsEmpty, NextDomainsExist DEF IInv

\* The inductive invariant: after any instructions, in any order, the accounts
\* have their types, member lists and user accounts agree, every wallet and user
\* passes the checks of the program, addresses without a wallet are empty, and
\* every user's domain exists.
THEOREM RegistryInvariant == Spec => []IInv
<1> QED BY InitIInv, NextIInv, PTL DEF Spec

\* A member's account and the member lists agree in every reachable state, for
\* every number of keys, domains and wallets and every pair of actions.
THEOREM MembershipMirrored == Spec => []WalletsMirrorMembers
<1>1. IInv => WalletsMirrorMembers
  BY DEF IInv
<1> QED BY <1>1, RegistryInvariant, PTL

LEMMA DelegateEntry ==
  ASSUME IInv, NEW k \in Keys, NEW i \in WalletIndex, wallets[i].members[k].is_delegate
  PROVE  HasUser(k) /\ NewEntry(i, TRUE) \in users[k].wallets
<1> DEFINE m == wallets[i].members[k]
<1>1. m \in Member /\ Created(i)
  BY DEF IInv, TypeOK, Settings, NoMember, Created, NoSettings, NoMembers
<1>2. m.role \in {"Member", "PermanentMember"}
  <2>1. RoleRulesHold(wallets[i])
    BY <1>1 DEF IInv, SettingsValid, SettingsInvariant
  <2> QED BY <1>1, <2>1 DEF RoleRulesHold, WithRole, Member, UserRole
<1>3. m # NoMember /\ m.is_delegate = TRUE
  BY <1>1, <1>2 DEF Member, NoMember
<1>4. NewEntry(i, TRUE) \in users[k].wallets
  BY <1>2, <1>3 DEF IInv, WalletsMirrorMembers, Mirrors
<1>5. users[k].wallets # {}
  BY <1>4
<1>6. users[k] # NoUser
  BY <1>5 DEF NoUser
<1> QED BY <1>4, <1>6 DEF HasUser

\* No key ever holds the delegation of two wallets.
THEOREM DelegationIsUnique == Spec => []OneDelegatedWallet
<1>1. IInv => OneDelegatedWallet
  <2> SUFFICES ASSUME IInv, NEW k \in Keys, NEW i \in WalletIndex, NEW j \in WalletIndex,
                      wallets[i].members[k].is_delegate, wallets[j].members[k].is_delegate
               PROVE  i = j
    BY DEF OneDelegatedWallet, AtMostOne
  <2>1. NewEntry(i, TRUE) \in users[k].wallets /\ NewEntry(j, TRUE) \in users[k].wallets
    BY DelegateEntry
  <2>2. AtMostOne({e \in users[k].wallets : e.is_delegate})
    BY DelegateEntry DEF IInv, UsersValid, UserInvariant
  <2> QED BY <2>1, <2>2 DEF AtMostOne, NewEntry
<1> QED BY <1>1, RegistryInvariant, PTL

\* While no domain is disabled, every member of every wallet can sign.
LEMMA MembersCanSign ==
  ASSUME IInv, \A d \in Domains : ~domains[d].is_disabled,
         NEW i \in WalletIndex, NEW k \in MembersOf(wallets[i])
  PROVE  CanSign(k)
<1>1. k \in Keys /\ wallets[i].members[k] # NoMember
  BY DEF MembersOf
<1>2. HasUser(k)
  BY <1>1, StrangersAreNoMembers DEF IInv
<1>3. CASE k \in Ed25519Keys
  BY <1>3 DEF CanSign
<1>4. CASE k \in Secp256r1Keys
  <2>1. users[k].domain # None
    BY <1>1, <1>2, <1>4 DEF IInv, UsersValid, UserInvariant
  <2>2. users[k].domain \in Domains
    BY <1>1, <1>2, <2>1, UserRoles DEF IInv, User
  <2>3. domains[users[k].domain] # NoDomain
    BY <1>1, <1>2, <2>1 DEF IInv, DomainsExist
  <2> QED BY <2>2, <2>3 DEF CanSign
<1> QED BY <1>1, <1>3, <1>4 DEF Keys

\* No sequence of instructions leaves a wallet that its members cannot
\* reconfigure, unless a domain is disabled.
THEOREM WalletsStayUsable == Spec => []NeverLockedOut
<1>1. IInv => NeverLockedOut
  <2> SUFFICES ASSUME IInv, \A d \in Domains : ~domains[d].is_disabled,
                      NEW i \in WalletIndex, Created(i)
               PROVE  SufficientOnce(wallets[i], {k \in MembersOf(wallets[i]) : CanSign(k)})
    BY DEF NeverLockedOut
  <2> DEFINE s == wallets[i]
             signers == {k \in MembersOf(s) : CanSign(k)}
  <2>1. signers = MembersOf(s)
    BY MembersCanSign
  <2>2. \A p : Holders(s, p) \subseteq MembersOf(s)
    BY DEF Holders, MembersOf, NoMember
  <2>3. \A p : signers \cap Holders(s, p) = Holders(s, p)
    BY <2>1, <2>2
  <2>4. SettingsInvariant(s)
    BY DEF IInv, SettingsValid
  <2>5. s.threshold \in Nat
    BY DEF IInv, TypeOK, Settings
  <2>6. Cardinality(Holders(s, "Vote")) \in Nat
    <3>1. IsFiniteSet(Holders(s, "Vote"))
      BY KeysAssumption, FS_Subset DEF Holders
    <3> QED BY <3>1, FS_CardinalityType
  <2>7. s.threshold <= Cardinality(signers \cap Holders(s, "Vote"))
    BY <2>3, <2>4 DEF SettingsInvariant
  <2>8. Cardinality(signers \cap Holders(s, "Vote")) >= s.threshold
    BY <2>3, <2>5, <2>6, <2>7
  <2>9. /\ signers \cap Holders(s, "Initiate") # {}
        /\ signers \cap Holders(s, "Execute") # {}
    BY <2>3, <2>4 DEF SettingsInvariant
  <2>10. SufficientOnce(s, signers)
    BY <2>8, <2>9 DEF SufficientOnce
  <2> QED BY <2>10
<1> QED BY <1>1, RegistryInvariant, PTL

\* Clearing the delegate flag of an ordinary member keeps a wallet valid.
LEMMA RevocationIsValid ==
  ASSUME NEW s \in Settings, SettingsInvariant(s), NEW k \in Keys, s.members[k].role = "Member"
  PROVE  SettingsInvariant(WithDelegate(s, k, FALSE))
<1> DEFINE t == WithDelegate(s, k, FALSE)
<1>1. /\ t.threshold = s.threshold
      /\ \A x \in Keys : /\ t.members[x].role = s.members[x].role
                         /\ t.members[x].permissions = s.members[x].permissions
                         /\ x # k => t.members[x] = s.members[x]
  BY DEF WithDelegate, Settings, Member, NoMember
<1>2. \A x \in Keys : t.members[x] = NoMember <=> s.members[x] = NoMember
  <2>1. s.members[k].role = "Member" /\ t.members[k].role = "Member"
    BY <1>1
  <2>2. NoMember.role = "None"
    BY DEF NoMember
  <2> HIDE DEF t
  <2> QED BY <1>1, <2>1, <2>2
<1>3. /\ \A p : Holders(t, p) = Holders(s, p)
      /\ \A r : WithRole(t, r) = WithRole(s, r)
      /\ MembersOf(t) = MembersOf(s)
  BY <1>1, <1>2 DEF Holders, WithRole, MembersOf
<1>4. RoleRulesHold(t)
  <2>1. \A x \in Keys : s.members[x].role # "Member" => t.members[x] = s.members[x]
    BY <1>1
  <2>2. \A x \in WithRole(s, "PermanentMember") \cup WithRole(s, "TransactionManager")
                  \cup WithRole(s, "Administrator") : t.members[x] = s.members[x]
    BY <2>1 DEF WithRole
  <2> HIDE DEF t
  <2> QED BY <1>3, <2>2 DEF RoleRulesHold, SettingsInvariant
<1>5. /\ Holders(t, "Vote") = Holders(s, "Vote")
      /\ Holders(t, "Initiate") = Holders(s, "Initiate")
      /\ Holders(t, "Execute") = Holders(s, "Execute")
  BY <1>3
<1> HIDE DEF t
<1>6. SettingsInvariant(t)
  BY <1>1, <1>3, <1>4, <1>5 DEF SettingsInvariant
<1> QED BY <1>6 DEF t

\* An ordinary member can always take its delegation back.
THEOREM DelegationIsRevocable == Spec => []DelegateNeverStranded
<1>1. IInv => DelegateNeverStranded
  <2> SUFFICES ASSUME IInv, NEW k \in Keys, users[k].role = "Member", NEW i \in DelegateOf(k)
               PROVE  Created(i) /\ DelegateFlagChanges(i, k, FALSE)
    BY DEF DelegateNeverStranded
  <2>1. i \in WalletIndex /\ NewEntry(i, TRUE) \in users[k].wallets
    <3>1. PICK e \in users[k].wallets : e.is_delegate /\ e.index = i
      BY DEF DelegateOf
    <3>2. e \in WalletEntry
      BY <3>1, UserRoles DEF IInv
    <3> QED BY <3>1, <3>2 DEF WalletEntry, NewEntry
  <2>2. {e \in users[k].wallets : e.index = i} # {}
    BY <2>1 DEF NewEntry
  <2>3. wallets[i].members[k] # NoMember /\ wallets[i].members[k].role = "Member"
    BY <2>1, <2>2 DEF IInv, WalletsMirrorMembers, Mirrors
  <2>4. Created(i)
    BY <2>3 DEF Created, NoSettings, NoMembers
  <2>5. wallets[i] \in Settings /\ SettingsInvariant(wallets[i])
    BY <2>1, <2>4 DEF IInv, TypeOK, SettingsValid
  <2> QED BY <2>3, <2>4, <2>5, RevocationIsValid DEF DelegateFlagChanges
<1> QED BY <1>1, RegistryInvariant, PTL

\* No action of a batch takes the role of a permanent member away.
LEMMA BatchKeepsPermanent ==
  ASSUME NEW w \in Working, NEW us, NEW i \in WalletIndex, NEW a \in ConfigAction,
         NEW roleOf, ActionAllowed(w, a), UserOpAllowed(us, i, a), NEW k \in Keys,
         us[k].role = "PermanentMember", w.members[k].role = "PermanentMember"
  PROVE  AppliedTo(w, a, roleOf).members[k].role = "PermanentMember"
<1>1. CASE a.type \in {"AddMember", "RemoveMember"}
  <2>1. a.key \in Keys /\ a.key # k
    BY <1>1, ActionFields DEF UserOpAllowed
  <2> QED BY <1>1, <2>1 DEF AppliedTo, Working
<1>2. CASE a.type = "EditPermissions"
  <2>1. w.members[k] \in Member
    BY DEF Working, NoMember
  <2> QED BY <1>2, <2>1 DEF AppliedTo, Working, Member
<1>3. CASE a.type \in {"SetThreshold", "Nothing"}
  BY <1>3 DEF AppliedTo, Working
<1> QED BY <1>1, <1>2, <1>3, ActionFields

LEMMA ChangeConfigKeepsPermanent ==
  ASSUME IInv, NEW i \in WalletIndex, NEW a1 \in ConfigAction, NEW a2 \in ConfigAction,
         ProcessActions(i, a1, a2), NEW k \in Keys,
         wallets[i].members[k].role = "PermanentMember"
  PROVE  wallets'[i].members[k].role = "PermanentMember"
<1> DEFINE w0 == WorkingCopy(wallets[i])
           w1 == AppliedTo(w0, a1, RoleOf)
           w2 == AppliedTo(w1, a2, RoleOf)
           u1 == UsersAfter(users, i, a1)
<1>0. TypeOK /\ WalletsMirrorMembers
  BY DEF IInv
<1>1. \A a \in {a1, a2} : a.type = "AddMember" => RoleOf[a.key] \in UserRole
  <2>1. ASSUME NEW a \in {a1, a2}, a.type = "AddMember"
        PROVE  RoleOf[a.key] \in UserRole
    <3>1. a.key \in Keys /\ HasUser(a.key)
      BY <2>1, ActionFields DEF ProcessActions
    <3> QED BY <1>0, <3>1, UserRoles DEF RoleOf
  <2> QED BY <2>1
<1>2. w0 \in Working
  BY <1>0 DEF TypeOK, Settings, WorkingCopy, Working
<1>3. w1 \in Working
  BY <1>1, <1>2, AppliedToType DEF ProcessActions
<1>4. ActionAllowed(w0, a1) /\ ActionAllowed(w1, a2)
  BY DEF ProcessActions
<1>5. UserOpAllowed(users, i, a1) /\ UserOpAllowed(u1, i, a2)
  BY DEF ProcessActions
<1>6. users[k].role = "PermanentMember"
  <2>1. wallets[i].members[k] # NoMember
    BY DEF NoMember
  <2> QED BY <1>0, <2>1 DEF WalletsMirrorMembers, Mirrors
<1>7. u1[k].role = "PermanentMember"
  BY <1>0, <1>5, <1>6, UsersAfterFrame DEF TypeOK
<1>8. w0.members[k].role = "PermanentMember"
  BY DEF WorkingCopy
<1>9. w1.members[k].role = "PermanentMember"
  BY <1>2, <1>4, <1>5, <1>6, <1>8, BatchKeepsPermanent
<1>10. w2.members[k].role = "PermanentMember"
  BY <1>3, <1>4, <1>5, <1>7, <1>9, BatchKeepsPermanent
<1>11. wallets'[i].members = w2.members
  BY <1>0 DEF ProcessActions, TypeOK
<1> HIDE DEF w2
<1> QED BY <1>10, <1>11

LEMMA NextKeepsPermanent ==
  ASSUME IInv, [Next]_vars, NEW i \in WalletIndex, NEW k \in Keys,
         wallets[i].members[k].role = "PermanentMember"
  PROVE  wallets'[i].members[k].role = "PermanentMember"
<1>0. TypeOK
  BY DEF IInv
<1>1. CASE \E d \in Domains, x \in Secp256r1Keys, role \in UserRole,
              j \in WalletIndex, manager \in Ed25519Keys \cup {None} :
             CreateDomainUserAccountWithWallet(d, x, role, j, manager)
  <2>1. PICK d \in Domains, x \in Secp256r1Keys, role \in UserRole,
             j \in WalletIndex, manager \in Ed25519Keys \cup {None} :
               CreateDomainUserAccountWithWallet(d, x, role, j, manager)
    BY <1>1
  <2>2. CASE j = i
    <3>1. k \in MembersOf(wallets[i])
      BY DEF MembersOf, NoMember
    <3>2. /\ MembersOf(wallets[i]) = {domains[d].authority}
          /\ wallets[i].members[domains[d].authority].role = "Administrator"
      BY <2>1, <2>2 DEF CreateDomainUserAccountWithWallet
    <3> QED BY <3>1, <3>2
  <2>3. CASE j # i
    BY <1>0, <2>1, <2>3 DEF CreateDomainUserAccountWithWallet, TypeOK
  <2> QED BY <2>2, <2>3
<1>2. CASE \E x \in Ed25519Keys : CreateWallet(x)
  <2>1. PICK x \in Ed25519Keys : CreateWallet(x)
    BY <1>2
  <2>2. Created(i)
    BY DEF Created, NoSettings, NoMembers, NoMember
  <2>3. i # counter
    BY <2>2, <1>0, RegistryAssumption DEF IInv, UnusedWalletsEmpty, TypeOK, WalletIndex
  <2> QED BY <1>0, <2>1, <2>3 DEF CreateWallet, TypeOK
<1>3. CASE \E j \in WalletIndex : ChangeConfig(j)
  <2>1. PICK j \in WalletIndex, a1 \in ConfigAction, a2 \in ConfigAction :
               ProcessActions(j, a1, a2)
    BY <1>3 DEF ChangeConfig
  <2>2. CASE j = i
    BY <2>1, <2>2, ChangeConfigKeepsPermanent
  <2>3. CASE j # i
    BY <1>0, <2>1, <2>3 DEF ProcessActions, TypeOK
  <2> QED BY <2>2, <2>3
<1>4. CASE \E x \in Keys, old, to \in WalletIndex \cup {NoWallet} :
             EditUserDelegate(x, old, to)
  <2>1. PICK x \in Keys, old \in WalletIndex \cup {NoWallet}, to \in WalletIndex \cup {NoWallet} :
               EditUserDelegate(x, old, to)
    BY <1>4
  <2>2. wallets'[i] = wallets[i] \/ wallets'[i] = WithDelegate(wallets[i], x, i = to)
    BY <2>1 DEF EditUserDelegate
  <2>3. wallets[i].members[k] \in Member
    BY <1>0 DEF TypeOK, Settings, NoMember
  <2>4. WithDelegate(wallets[i], x, i = to).members[k].role = wallets[i].members[k].role
    BY <1>0, <2>3 DEF WithDelegate, TypeOK, Settings, Member
  <2> QED BY <2>2, <2>4
<1>5. CASE wallets' = wallets
  BY <1>5
<1> QED
  BY <1>1, <1>2, <1>3, <1>4, <1>5
  DEF Next, vars, CreateGlobalCounter, CreateDomainConfig, EditDomainConfig,
      DisableDomainConfig, CreateUserAccount, EditTransactionManagerUrl,
      CreateDomainUserAccount

\* Whatever is authorised, a permanent member is never removed from a wallet.
THEOREM PermanentMembersStay == Spec => PermanentMemberStays
<1>1. IInv /\ IInv' /\ [Next]_vars =>
        \A i \in WalletIndex, k \in Keys :
          wallets[i].members[k].role = "PermanentMember" =>
            /\ wallets'[i].members[k].role = "PermanentMember"
            /\ wallets'[i].members[k].is_delegate
  <2> SUFFICES ASSUME IInv, IInv', [Next]_vars, NEW i \in WalletIndex, NEW k \in Keys,
                      wallets[i].members[k].role = "PermanentMember"
               PROVE  /\ wallets'[i].members[k].role = "PermanentMember"
                      /\ wallets'[i].members[k].is_delegate
    OBVIOUS
  <2>1. wallets'[i].members[k].role = "PermanentMember"
    BY NextKeepsPermanent
  <2>2. wallets'[i] # NoSettings
    BY <2>1 DEF NoSettings, NoMembers, NoMember
  <2>3. SettingsInvariant(wallets'[i])
    BY <2>2 DEF IInv, SettingsValid, Created
  <2>4. wallets'[i].members[k].is_delegate
    BY <2>1, <2>3 DEF SettingsInvariant, RoleRulesHold, WithRole
  <2> QED BY <2>1, <2>4
<1> QED BY <1>1, RegistryInvariant, PTL DEF Spec, PermanentMemberStays
=============================================================================
