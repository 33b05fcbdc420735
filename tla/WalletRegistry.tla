--------------------------- MODULE WalletRegistry ---------------------------
(***************************************************************************)
(* The accounts of the multi-wallet program that say who controls what:    *)
(* the global counter, the domain configurations, one user account per     *)
(* member key and one settings account per wallet.  Membership is recorded *)
(* twice, in the wallet's member list and in the member's user account,    *)
(* and every instruction below must keep the two in step.                  *)
(*                                                                         *)
(* One action is one instruction.  Solana runs an instruction atomically:  *)
(* any failed requirement undoes all of it, so an action's guard is the    *)
(* conjunction of the requirements and its update the writes.              *)
(*                                                                         *)
(* Abstracted: rent and account sizes, origins and credential data, the    *)
(* address derivation (taken as injective), WebAuthn (a passkey can sign   *)
(* while its domain is enabled) and slot numbers.                          *)
(***************************************************************************)
EXTENDS MultisigSettings

CONSTANTS
  Domains,     \* relying-party domains
  Urls,        \* transaction manager urls
  MaxWallets   \* bound: how many wallets are created

None == "None"   \* an Option field that is not set

ASSUME RegistryAssumption ==
  /\ MaxWallets \in Nat
  /\ None \notin Keys \cup Domains \cup Urls

VARIABLES
  counter,   \* GlobalCounter.index, 0 before the account exists
  domains,   \* domains[d] is the DomainConfig account of d
  users,     \* users[k] is the User account of key k
  wallets    \* wallets[i] is the Settings account with index i

vars == <<counter, domains, users, wallets>>

WalletIndex == 1..MaxWallets
NoWallet    == 0         \* indexes start at 1, 0 stands for no wallet
NoDomain    == [authority |-> None, is_disabled |-> FALSE]
NoUser      == [role |-> None, domain |-> None, url |-> None, wallets |-> {}]
NoSettings  == [members |-> NoMembers, threshold |-> 0]

Domain == [authority : Ed25519Keys, is_disabled : BOOLEAN]

WalletEntry == [index : WalletIndex, is_delegate : BOOLEAN]

User == [role    : UserRole,
         domain  : Domains \cup {None},
         url     : Urls \cup {None},
         wallets : SUBSET WalletEntry]

TypeOK ==
  /\ counter \in 0..(MaxWallets + 1)
  /\ domains \in [Domains -> Domain \cup {NoDomain}]
  /\ users   \in [Keys -> User \cup {NoUser}]
  /\ wallets \in [WalletIndex -> Settings]

HasUser(k)   == users[k] # NoUser
Created(i)   == wallets[i] # NoSettings
RoleOf       == [k \in Keys |-> users[k].role]

NewEntry(i, flag) == [index |-> i, is_delegate |-> flag]

Init ==
  /\ counter = 0
  /\ domains = [d \in Domains |-> NoDomain]
  /\ users   = [k \in Keys |-> NoUser]
  /\ wallets = [i \in WalletIndex |-> NoSettings]

-----------------------------------------------------------------------------
(***************************************************************************)
(* User::invariant, which every instruction that writes a user account     *)
(* checks last.  The credential fields are set exactly for passkeys by the *)
(* two constructors and are left out.                                      *)
(***************************************************************************)
UserInvariant(k, u) ==
  /\ u.role = "TransactionManager" =>
       u.url # None /\ k \in Ed25519Keys /\ u.wallets = {}
  /\ u.role # "TransactionManager" => u.url = None
  /\ u.role = "Administrator" =>
       u.wallets = {} /\ k \in Ed25519Keys /\ u.domain # None
  /\ k \in Secp256r1Keys =>
       u.domain # None /\ u.role \in {"Member", "PermanentMember"}
  /\ u.role = "PermanentMember" =>
       /\ k \in Secp256r1Keys
       /\ \E e \in u.wallets : u.wallets = {e} /\ e.is_delegate
  /\ AtMostOne({e \in u.wallets : e.is_delegate})

NewUser(role, domain, url, entries) ==
  [role |-> role, domain |-> domain, url |-> url, wallets |-> entries]

Administrator(d) == NewUser("Administrator", d, None, {})

-----------------------------------------------------------------------------
(* Administration of the counter and of the domains.                       *)

CreateGlobalCounter ==
  /\ counter = 0
  /\ counter' = 1
  /\ UNCHANGED <<domains, users, wallets>>

CreateDomainConfig(d, authority) ==
  /\ domains[d] = NoDomain
  /\ ~HasUser(authority)
  /\ UserInvariant(authority, Administrator(d))
  /\ users' = [users EXCEPT ![authority] = Administrator(d)]
  /\ domains' = [domains EXCEPT ![d] = [authority |-> authority, is_disabled |-> FALSE]]
  /\ UNCHANGED <<counter, wallets>>

\* Signed by the authority.  Without a new authority only origins change.
EditDomainConfig(d, new_authority) ==
  /\ domains[d] # NoDomain
  /\ ~HasUser(new_authority)
  /\ UserInvariant(new_authority, Administrator(d))
  /\ users' = [users EXCEPT ![new_authority] = Administrator(d)]
  /\ domains' = [domains EXCEPT ![d].authority = new_authority]
  /\ UNCHANGED <<counter, wallets>>

\* Mutant of DisableDomainConfig: the account need not exist.
DisableAnyDomainConfig(d, disable) ==
  /\ domains' = [domains EXCEPT ![d].is_disabled = disable]
  /\ UNCHANGED <<counter, users, wallets>>

DisableDomainConfig(d, disable) ==
  /\ domains[d] # NoDomain
  /\ domains' = [domains EXCEPT ![d].is_disabled = disable]
  /\ UNCHANGED <<counter, users, wallets>>

-----------------------------------------------------------------------------
(* User accounts.                                                          *)

\* The member signs; init refuses an account that already exists.
CreateUserAccount(k, role, url) ==
  LET user == NewUser(role, None, url, {})
  IN  /\ ~HasUser(k)
      /\ UserInvariant(k, user)
      /\ users' = [users EXCEPT ![k] = user]
      /\ UNCHANGED <<counter, domains, wallets>>

EditTransactionManagerUrl(k, url) ==
  /\ users[k].role = "TransactionManager"
  /\ users' = [users EXCEPT ![k].url = url]
  /\ UNCHANGED <<counter, domains, wallets>>

\* The passkey's account alone, with no wallet to hand over.
CreateDomainUserAccount(d, k, role) ==
  LET user == NewUser(role, d, None, {})
  IN  /\ domains[d] # NoDomain
      /\ ~HasUser(k)
      /\ UserInvariant(k, user)
      /\ users' = [users EXCEPT ![k] = user]
      /\ UNCHANGED <<counter, domains, wallets>>

\* The member list a handed-over wallet gets: an optional transaction manager
\* that initiates, and the passkey with what is left of the permissions.
HandedOver(k, role, manager) ==
  LET rights == IF manager = None THEN AllPermissions ELSE {"Vote", "Execute"}
      alone  == [NoMembers EXCEPT ![k] = NewMember(role, rights, TRUE)]
  IN  IF manager = None THEN alone
      ELSE [alone EXCEPT ![manager] = NewMember("TransactionManager", {"Initiate"}, FALSE)]

\* The passkey's account together with a wallet whose only member is the
\* domain authority: the authority signs and leaves the wallet.
CreateDomainUserAccountWithWallet(d, k, role, i, manager) ==
  LET user     == NewUser(role, d, None, {NewEntry(i, TRUE)})
      settings == [wallets[i] EXCEPT !.members = HandedOver(k, role, manager)]
  IN  /\ domains[d] # NoDomain
      /\ ~HasUser(k)
      /\ Created(i)
      /\ wallets[i].threshold = 1
      /\ MembersOf(wallets[i]) = {domains[d].authority}
      /\ wallets[i].members[domains[d].authority].role = "Administrator"
      /\ manager # None => users[manager].role = "TransactionManager"
      /\ SettingsInvariant(settings)
      /\ UserInvariant(k, user)
      /\ users' = [users EXCEPT ![k] = user]
      /\ wallets' = [wallets EXCEPT ![i] = settings]
      /\ UNCHANGED <<counter, domains>>

-----------------------------------------------------------------------------
(* Wallets.                                                                *)

\* The initial member signs and becomes the only member, with every right.
CreateWallet(k) ==
  LET i        == counter
      settings == [members   |-> [NoMembers EXCEPT ![k] =
                                    NewMember(users[k].role, AllPermissions, FALSE)],
                   threshold |-> 1]
      user     == IF users[k].role = "Member"
                  THEN [users[k] EXCEPT !.wallets = @ \cup {NewEntry(i, FALSE)}]
                  ELSE users[k]
  IN  /\ counter \in WalletIndex
      /\ HasUser(k)
      /\ SettingsInvariant(settings)
      /\ UserInvariant(k, user)
      /\ wallets' = [wallets EXCEPT ![i] = settings]
      /\ users' = [users EXCEPT ![k] = user]
      /\ counter' = counter + 1
      /\ UNCHANGED domains

\* The members whose signature an instruction accepts now: verify_webauthn
\* refuses the passkeys of a disabled domain.
CanSign(k) ==
  \/ k \in Ed25519Keys
  \/ /\ users[k].domain \in Domains
     /\ domains[users[k].domain] # NoDomain
     /\ ~domains[users[k].domain].is_disabled

\* Mutant of UserAfter: removing a member keeps a delegated entry.
UserAfterKeepingDelegate(u, i, a) ==
  CASE a.type = "AddMember" /\ u.role = "Member" ->
         [u EXCEPT !.wallets = @ \cup {NewEntry(i, FALSE)}]
    [] a.type = "RemoveMember" ->
         [u EXCEPT !.wallets = {e \in @ : e.index # i \/ e.is_delegate}]
    [] OTHER -> u

\* The user account after change_config processed action a of wallet i.
UserAfter(u, i, a) ==
  CASE a.type = "AddMember" /\ u.role = "Member" ->
         [u EXCEPT !.wallets = @ \cup {NewEntry(i, FALSE)}]
    [] a.type = "RemoveMember" ->
         [u EXCEPT !.wallets = {e \in @ : e.index # i}]
    [] OTHER -> u

\* Mutant of UserOpAllowed: a removal is not checked against the user account.
UserOpAllowedForAdditions(us, i, a) ==
  a.type = "AddMember" =>
    /\ us[a.key] # NoUser
    /\ us[a.key].role # "PermanentMember"
    /\ UserInvariant(a.key, UserAfter(us[a.key], i, a))

\* add_wallet_to_user and remove_wallet_from_user: only additions and
\* removals reach a user account, and a permanent member's is refused.
UserOpAllowed(us, i, a) ==
  a.type \in {"AddMember", "RemoveMember"} =>
    /\ us[a.key] # NoUser
    /\ us[a.key].role # "PermanentMember"
    /\ UserInvariant(a.key, UserAfter(us[a.key], i, a))

UsersAfter(us, i, a) ==
  IF a.type \in {"AddMember", "RemoveMember"}
  THEN [us EXCEPT ![a.key] = UserAfter(@, i, a)]
  ELSE us

\* A batch of two actions, the second of which may be Nothing: enough for
\* every way two actions of a longer batch can interfere.  All the
\* member-list changes come first, then settings.invariant, then the user
\* accounts in the order of the actions.
ProcessActions(i, a1, a2) ==
  LET w0 == WorkingCopy(wallets[i])
      w1 == AppliedTo(w0, a1, RoleOf)
      w2 == AppliedTo(w1, a2, RoleOf)
      u1 == UsersAfter(users, i, a1)
      settings == [members |-> w2.members, threshold |-> w2.threshold]
  IN  /\ \A a \in {a1, a2} : a.type = "AddMember" => HasUser(a.key)
      /\ ActionAllowed(w0, a1)
      /\ ActionAllowed(w1, a2)
      /\ w2.repeated = {}
      /\ SettingsInvariant(settings)
      /\ UserOpAllowed(users, i, a1)
      /\ UserOpAllowed(u1, i, a2)
      /\ wallets' = [wallets EXCEPT ![i] = settings]
      /\ users' = UsersAfter(u1, i, a2)
      /\ UNCHANGED <<counter, domains>>

\* The first action is tested before a second one is chosen, for the sake of TLC.
ChangeConfig(i) ==
  /\ Created(i)
  /\ CanAuthorise(wallets[i], {k \in MembersOf(wallets[i]) : CanSign(k)})
  /\ \E a1 \in {a \in ConfigAction \ {Nothing} : ActionAllowed(WorkingCopy(wallets[i]), a)} :
       \E a2 \in ConfigAction : ProcessActions(i, a1, a2)

-----------------------------------------------------------------------------
(* Moving a member's delegation from one wallet to another.                *)

\* Mutant of WithDelegate: the flag is set and never cleared.
WithDelegateKept(s, k, flag) == [s EXCEPT !.members[k].is_delegate = @ \/ flag]

WithDelegate(s, k, flag) == [s EXCEPT !.members[k].is_delegate = flag]

DelegateOf(k) == {e.index : e \in {x \in users[k].wallets : x.is_delegate}}

\* Mutant of Redelegated: the entry of the old wallet keeps its flag.
RedelegatedKeepingOld(k, to) ==
  [users[k] EXCEPT !.wallets =
     {NewEntry(e.index, e.is_delegate \/ e.index = to) : e \in @}]

Redelegated(k, to) ==
  [users[k] EXCEPT !.wallets = {NewEntry(e.index, e.index = to) : e \in @}]

\* One settings account of the instruction: k must be listed, and the list
\* with its flag changed must be valid.
DelegateFlagChanges(i, k, flag) ==
  /\ wallets[i].members[k] # NoMember
  /\ SettingsInvariant(WithDelegate(wallets[i], k, flag))

\* Signed by k.  old is the wallet k delegates to now, NoWallet if none;
\* to is the new one, NoWallet to revoke.  The two settings accounts are both
\* writable, so they may not be the same account.
EditUserDelegate(k, old, to) ==
  /\ HasUser(k)
  /\ users[k].role = "Member"
  /\ CanSign(k)
  /\ IF DelegateOf(k) = {} THEN old = NoWallet ELSE old \in DelegateOf(k)
  /\ k \in Secp256r1Keys => old # NoWallet \/ to # NoWallet
  /\ old # to \/ old = NoWallet
  /\ \A i \in {old} \ {NoWallet} : DelegateFlagChanges(i, k, FALSE)
  /\ \A i \in {to} \ {NoWallet} : Created(i) /\ DelegateFlagChanges(i, k, TRUE)
  /\ UserInvariant(k, Redelegated(k, to))
  /\ wallets' = [i \in WalletIndex |->
                   IF i \in {old, to} THEN WithDelegate(wallets[i], k, i = to)
                   ELSE wallets[i]]
  /\ users' = [users EXCEPT ![k] = Redelegated(k, to)]
  /\ UNCHANGED <<counter, domains>>

-----------------------------------------------------------------------------
Next ==
  \/ CreateGlobalCounter
  \/ \E d \in Domains, k \in Ed25519Keys :
       CreateDomainConfig(d, k) \/ EditDomainConfig(d, k)
  \/ \E d \in Domains, disable \in BOOLEAN : DisableDomainConfig(d, disable)
  \/ \E k \in Ed25519Keys, role \in UserRole, url \in Urls \cup {None} :
       CreateUserAccount(k, role, url)
  \/ \E k \in Ed25519Keys, url \in Urls : EditTransactionManagerUrl(k, url)
  \/ \E d \in Domains, k \in Secp256r1Keys, role \in UserRole :
       CreateDomainUserAccount(d, k, role)
  \/ \E d \in Domains, k \in Secp256r1Keys, role \in UserRole,
        i \in WalletIndex, manager \in Ed25519Keys \cup {None} :
       CreateDomainUserAccountWithWallet(d, k, role, i, manager)
  \/ \E k \in Ed25519Keys : CreateWallet(k)
  \/ \E i \in WalletIndex : ChangeConfig(i)
  \/ \E k \in Keys, old, to \in WalletIndex \cup {NoWallet} : EditUserDelegate(k, old, to)

Spec == Init /\ [][Next]_vars

-----------------------------------------------------------------------------
(* Properties.                                                             *)

\* Member record m of wallet i and user account u say the same.
Mirrors(m, u, i) ==
  /\ m # NoMember => m.role = u.role
  /\ {e \in u.wallets : e.index = i} =
       IF m # NoMember /\ m.role \in {"Member", "PermanentMember"}
       THEN {NewEntry(i, m.is_delegate)} ELSE {}

\* The two records of membership agree: a member's user account lists the
\* wallet, once and with the same delegate flag, exactly when the wallet lists
\* the member; managers and administrators list no wallet; and the role in the
\* list is the role of the account.  change_config writes the two sides in two
\* passes, the delegation and the hand-over instructions by hand.
WalletsMirrorMembers ==
  \A k \in Keys, i \in WalletIndex : Mirrors(wallets[i].members[k], users[k], i)

\* A key is a delegate of at most one wallet of the whole registry: transfer
\* intents accept a delegate passkey's assertion that names no wallet, and rely
\* on this across wallets that no single instruction reads together.
OneDelegatedWallet ==
  \A k \in Keys :
    AtMostOne({i \in WalletIndex : wallets[i].members[k].is_delegate})

\* No sequence of instructions locks a wallet: while no domain is disabled, the
\* members of every wallet can still authorise a change_config.  The invariant
\* of the code counts permissions; this asks for members who can sign, so that
\* every listed passkey must still belong to a domain that exists, and lets
\* nobody count twice.
NeverLockedOut ==
  (\A d \in Domains : ~domains[d].is_disabled) =>
     \A i \in WalletIndex :
       Created(i) => SufficientOnce(wallets[i], {k \in MembersOf(wallets[i]) : CanSign(k)})

\* A delegation can always be revoked: the wallet a user account points to as
\* its delegate exists and still lists the user, so edit_user_delegate, which
\* refuses a wallet that does not list the signer, never strands a delegate.
DelegateNeverStranded ==
  \A k \in Keys :
    users[k].role = "Member" =>
      \A i \in DelegateOf(k) : Created(i) /\ DelegateFlagChanges(i, k, FALSE)

\* A permanent member stays in its wallet, as its delegate, whatever batch of
\* changes the other members authorise (PermanentMember, "Permanent members
\* cannot be removed from a wallet").
PermanentMemberStays ==
  [][\A i \in WalletIndex, k \in Keys :
       wallets[i].members[k].role = "PermanentMember" =>
         /\ wallets'[i].members[k].role = "PermanentMember"
         /\ wallets'[i].members[k].is_delegate]_vars

=============================================================================
