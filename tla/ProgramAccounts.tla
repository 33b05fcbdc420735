--------------------------- MODULE ProgramAccounts ---------------------------
(***************************************************************************)
(* How the program takes an instruction apart (programs/multi_wallet):     *)
(* lib.rs finds the handler by the first byte of the data, an Accounts     *)
(* struct gives the accounts their names by position and checks them, and  *)
(* the signers are found among them or in the assertions of the            *)
(* instruction before.  What handlers do with the result is the subject of *)
(* the modules WalletRegistry, TransactionBuffers and SyncInstructions.    *)
(*                                                                         *)
(* The client's layouts (InstructionLayouts) are another text, generated   *)
(* from the program's IDL and used by hand-written builders; nothing but   *)
(* agreement of the two makes an instruction mean what its author meant.   *)
(***************************************************************************)
EXTENDS VaultMessages, TLC

CONSTANTS
    MultiWallet, SystemProgram, TokenPrograms, AssociatedTokenProgram,
    Secp256r1Program, SlotHashesSysvar, InstructionsSysvar,
    Authority,      \* the authority that the domain configurations hold
    BufferPayer     \* the payer that the staged transactions hold

-----------------------------------------------------------------------------
(* Accounts structs. *)

Acc(name)    == [name |-> name, mut |-> FALSE, signer |-> FALSE, optional |-> FALSE]
Signer(name) == [Acc(name) EXCEPT !.signer = TRUE]
Mut(account) == [account EXCEPT !.mut = TRUE]
Opt(account) == [account EXCEPT !.optional = TRUE]

\* Programs and sysvars, wherever a struct names them.
Known ==
    [system_program           |-> {SystemProgram},
     token_program            |-> TokenPrograms,
     associated_token_program |-> {AssociatedTokenProgram},
     slot_hash_sysvar         |-> {SlotHashesSysvar},
     instructions_sysvar      |-> {InstructionsSysvar}]

\* An account in its role, for one that may be absent.
Of(accounts, name) == IF name \in DOMAIN accounts THEN accounts[name] ELSE Refused

\* The places of a struct that are filled: an absent account is the program itself.
Present(struct, infos) ==
    {k \in DOMAIN struct : struct[k].optional => infos[k].address # MultiWallet}

\* The accounts by name.
Named(struct, infos) ==
    [n \in {struct[k].name : k \in Present(struct, infos)} |->
        infos[CHOOSE k \in DOMAIN struct : struct[k].name = n].address]

\* The accounts have the rights that their places demand.
Admitted(struct, infos) ==
    \A k \in Present(struct, infos) : /\ struct[k].mut => infos[k].writable
                                      /\ struct[k].signer => infos[k].signer

\* The accounts are programs and sysvars where those are due, and have the
\* addresses that are demanded of some of them.
InPlace(accounts, demanded) ==
    /\ \A n \in DOMAIN accounts \cap DOMAIN Known : accounts[n] \in Known[n]
    /\ \A n \in DOMAIN accounts \cap DOMAIN demanded : accounts[n] = demanded[n]

\* Instruction i of a transaction, read with a layout and a struct: accounts and
\* arguments by name and the remaining accounts.  Seeds gives the addresses that
\* some of the accounts must have.
Context(tx, i, layout, struct, Seeds(_, _)) ==
    LET mentions == UNION {ToSet(tx[j].accounts) : j \in DOMAIN tx}
        context(infos, accounts, args) ==
            IF /\ Len(infos) >= Len(struct)
               /\ args # Refused
               /\ Admitted(struct, infos)
               /\ InPlace(accounts, Seeds(accounts, args))
            THEN [accounts  |-> accounts,
                  args      |-> args,
                  remaining |-> SubSeq(infos, Len(struct) + 1, Len(infos))]
            ELSE Refused
        among(infos) == context(infos, Named(struct, infos), Decoded(layout, tx[i].data))
    IN  among(RightsAmong(mentions, tx[i].accounts))

NoSeeds(a, args) == <<>>

\* A context together with the members that authorise the instruction.
Signed(context, Signers(_)) ==
    LET by(signers) == IF Refused \in ToSet(signers) THEN Refused
                       ELSE context @@ [signers |-> signers]
    IN  IF context = Refused THEN Refused ELSE by(Signers(context))

-----------------------------------------------------------------------------
(* Types of arguments. *)

Secp256r1Pubkey   == StructOf(<<FixedBytes(33)>>)
MemberKey         == StructOf(<<U8, FixedBytes(33)>>)
Permissions       == StructOf(<<U8>>)
UserRole          == EnumOf(4)
Transports        == EnumOf(7)
MemberPermissions == StructOf(<<MemberKey, Permissions>>)
ConfigAction ==
    UnionOf(<<ArrayOf(MemberPermissions), ArrayOf(MemberPermissions),
              ArrayOf(StructOf(<<MemberKey>>)), U8>>)
ExpectedSigner       == StructOf(<<MemberKey, OptionOf(FixedBytes(32))>>)
Secp256r1VerifyArgs  == StructOf(<<U8, U64, U8, Bool, Bytes, FixedBytes(32)>>)
TransactionSyncSigners ==
    UnionOf(<<U8, StructOf(<<Secp256r1VerifyArgs, U8>>)>>)
CompiledInstruction  == StructOf(<<U8, Bytes, Bytes>>)
TransactionMessageAddressTableLookup == StructOf(<<U8, Bytes, Bytes>>)

VerifyArgs  == Field("secp256r1_verify_args", OptionOf(Secp256r1VerifyArgs))
SyncSigners == Field("signers", ArrayOf(TransactionSyncSigners))

-----------------------------------------------------------------------------
(* Members: their keys are pairs of a type (0 Ed25519, 1 Secp256r1) and a key. *)

\* The data of the instruction before, if that verifies assertions.
VerifiedBefore(tx, i) ==
    IF i > 1 /\ tx[i - 1].program = Secp256r1Program THEN tx[i - 1].data ELSE Refused

\* The offsets of signature number index in it: the data begins with a count and
\* a table of offsets (read_signature_offsets; the position is an 8-bit number
\* that stops at its largest value).
SignatureOffsets(data, index) ==
    LET least(n) == IF n > 255 THEN 255 ELSE n
    IN  IF data = Refused \/ index >= BytesAt(data, 0, 1) THEN Refused
        ELSE BytesAt(data, least(least(index * 14) + 2), 14)

\* What the offsets o point to.
PublicKeyAt(data, o) ==
    IF o = Refused THEN Refused ELSE BytesAt(data, o.publicKeyOffset, 33)

MessageAt(data, o) ==
    IF o = Refused \/ o.messageDataSize < 64 THEN Refused
    ELSE BytesAt(data, o.messageDataOffset, o.messageDataSize)

\* extract_public_key_from_instruction, of the instruction before.
ExtractPublicKey(tx, i, index) ==
    PublicKeyAt(VerifiedBefore(tx, i), SignatureOffsets(VerifiedBefore(tx, i), index))

ExtractMessage(tx, i, index) ==
    MessageAt(VerifiedBefore(tx, i), SignatureOffsets(VerifiedBefore(tx, i), index))

\* The verified passkey, or Refused: the message names the relying party of the
\* domain configuration.  What else a challenge binds is in SyncInstructions.
PasskeyOf(key, message, domain) ==
    IF Refused \notin {key, message} /\ domain = <<"domain_config", message.rpId>>
    THEN <<1, key>> ELSE Refused

PasskeyMember(tx, i, index, domain) ==
    PasskeyOf(ExtractPublicKey(tx, i, index), ExtractMessage(tx, i, index), domain)

\* MemberKey::get_signer: the account in the role, or else the passkey.
GetSigner(tx, i, a, role, args) ==
    LET passkey(key) == IF key = Refused THEN Refused ELSE <<1, key>>
    IN  IF role \in DOMAIN a THEN <<0, a[role]>>
        ELSE IF args # None /\ "instructions_sysvar" \in DOMAIN a
        THEN passkey(ExtractPublicKey(tx, i, args[1][1]))
        ELSE Refused

\* The member that acts in the role; an assertion that is given has to hold,
\* and a table of slots with it.
MemberInRole(tx, i, context, role) ==
    LET a    == context.accounts
        args == context.args.secp256r1_verify_args
    IN  IF /\ args # None
           /\ \/ "slot_hash_sysvar" \notin DOMAIN a
              \/ PasskeyMember(tx, i, args[1][1], Of(a, "domain_config")) = Refused
        THEN Refused ELSE GetSigner(tx, i, a, role, args)

\* TransactionSyncSigners::resolve, with the domain configuration of a passkey
\* where the signer list says.
Resolve(tx, i, context) ==
    LET at(n) == IF n + 1 \in DOMAIN context.remaining THEN Nth(context.remaining, n)
                 ELSE Meta(Refused, FALSE, FALSE)
    IN  Mapped(context.args.signers, LAMBDA s :
            IF s[1] = 0
            THEN IF at(s[2]).signer THEN <<0, at(s[2]).address>> ELSE Refused
            ELSE IF "slot_hash_sysvar" \notin DOMAIN context.accounts THEN Refused
            ELSE PasskeyMember(tx, i, s[2][1][1], at(s[2][2]).address))

-----------------------------------------------------------------------------
(* Instructions that the registry handles. *)

create_domain_config(tx, i) ==
    Context(tx, i, Data(0, <<Field("rp_id", Utf8), Field("origins", ArrayOf(Utf8))>>),
            <<Mut(Acc("domain_config")), Mut(Signer("payer")), Signer("authority"),
              Acc("system_program"), Mut(Acc("user_account"))>>,
            LAMBDA a, args : [domain_config |-> <<"domain_config", args.rp_id>>,
                              user_account  |-> <<"user", a.authority>>])

edit_domain_config(tx, i) ==
    Context(tx, i, Data(1, <<Field("new_origins", OptionOf(ArrayOf(Utf8)))>>),
            <<Mut(Acc("domain_config")), Mut(Signer("authority")), Opt(Signer("new_authority")),
              Opt(Mut(Acc("user_account"))), Acc("system_program")>>,
            LAMBDA a, args : [authority    |-> Authority,
                              user_account |-> <<"user", Of(a, "new_authority")>>])

disable_domain_config(tx, i) ==
    Context(tx, i, Data(2, <<Field("disable", Bool)>>),
            <<Mut(Acc("domain_config")), Signer("admin")>>, NoSeeds)

create_global_counter(tx, i) ==
    Context(tx, i, Data(3, <<>>),
            <<Mut(Acc("global_counter")), Mut(Signer("payer")), Acc("system_program")>>,
            LAMBDA a, args : [global_counter |-> <<"global_counter">>])

create_domain_user_account(tx, i) ==
    Context(tx, i, Data(4, <<Field("member", Secp256r1Pubkey), Field("role", UserRole),
                             Field("credential_id", Bytes),
                             Field("transports", ArrayOf(Transports))>>),
            <<Mut(Signer("payer")), Acc("domain_config"), Signer("authority"),
              Mut(Acc("user_account")), Opt(Acc("transaction_manager_account")),
              Opt(Mut(Acc("settings"))), Acc("system_program")>>,
            LAMBDA a, args : [authority    |-> Authority,
                              user_account |-> <<"user", args.member>>])

create_user_account(tx, i) ==
    Context(tx, i, Data(5, <<Field("role", UserRole),
                             Field("transaction_manager_url", OptionOf(Utf8))>>),
            <<Mut(Signer("payer")), Signer("member"), Acc("system_program"),
              Mut(Acc("user_account"))>>,
            LAMBDA a, args : [user_account |-> <<"user", a.member>>])

edit_transaction_manager_url(tx, i) ==
    Context(tx, i, Data(6, <<Field("transaction_manager_url", Utf8)>>),
            <<Signer("signer"), Mut(Acc("transaction_manager_account"))>>,
            LAMBDA a, args : [transaction_manager_account |-> <<"user", a.signer>>])

\* The user's account belongs to the member that signs.
edit_user_delegate(tx, i) ==
    Signed(Context(tx, i, Data(7, <<VerifyArgs, Field("delegate_to", OptionOf(U128))>>),
                   <<Mut(Signer("fee_payer")), Opt(Signer("signer")), Mut(Acc("user_account")),
                     Opt(Mut(Acc("old_settings"))), Opt(Mut(Acc("new_settings"))),
                     Opt(Acc("slot_hash_sysvar")), Opt(Acc("instructions_sysvar")),
                     Opt(Acc("domain_config"))>>,
                   LAMBDA a, args :
                       LET account(key) == IF key = Refused THEN Refused ELSE <<"user", key[2]>>
                       IN  [user_account |-> account(
                               GetSigner(tx, i, a, "signer", args.secp256r1_verify_args))]),
           LAMBDA c : <<MemberInRole(tx, i, c, "signer")>>)

create_wallet(tx, i) ==
    Context(tx, i, Data(16, <<Field("settings_index", U128)>>),
            <<Mut(Signer("payer")), Signer("initial_member"), Acc("system_program"),
              Mut(Acc("global_counter")), Mut(Acc("user_account")), Mut(Acc("settings"))>>,
            LAMBDA a, args : [global_counter |-> <<"global_counter">>,
                              user_account   |-> <<"user", a.initial_member>>,
                              settings       |-> <<"multi_wallet", args.settings_index>>])

\* An action's members are added and removed in accounts of their own, which
\* must be among the remaining ones, and writable.
ChangedMembers(actions) ==
    UNION {{member[1][2] : member \in ToSet(action[2])} :
              action \in {x \in ToSet(actions) : x[1] \in {1, 2}}}

change_config(tx, i) ==
    LET checked(context) ==
            IF context # Refused
               /\ \E k \in ChangedMembers(context.args.config_actions) :
                     \A m \in ToSet(context.remaining) : m.address # <<"user", k>> \/ ~m.writable
            THEN Refused ELSE context
    IN  Signed(checked(Context(tx, i,
                   Data(8, <<Field("config_actions", ArrayOf(ConfigAction)), SyncSigners>>),
                   <<Mut(Acc("settings")), Mut(Signer("payer")), Acc("system_program"),
                     Opt(Acc("slot_hash_sysvar")), Acc("instructions_sysvar")>>, NoSeeds)),
               LAMBDA c : Resolve(tx, i, c))

-----------------------------------------------------------------------------
(* Staged transactions. *)

\* The settings of a staged transaction are part of its address.
SettingsOf(a, args) == [settings |-> a.transaction_buffer[2]]
SettingsAndPayerOf(a, args) ==
    [settings |-> a.transaction_buffer[2], payer |-> BufferPayer]

transaction_buffer_create(tx, i) ==
    Signed(Context(tx, i,
                   Data(9, <<Field("buffer_index", U8), Field("preauthorize_execution", Bool),
                             Field("buffer_extend_hashes", ArrayOf(FixedBytes(32))),
                             Field("final_buffer_hash", FixedBytes(32)),
                             Field("final_buffer_size", U16),
                             Field("expected_signers", ArrayOf(ExpectedSigner)), VerifyArgs>>),
                   <<Acc("settings"), Mut(Signer("payer")), Opt(Acc("domain_config")),
                     Mut(Acc("transaction_buffer")), Opt(Signer("creator")),
                     Acc("system_program"), Acc("instructions_sysvar"),
                     Opt(Acc("slot_hash_sysvar"))>>,
                   LAMBDA a, args :
                       LET address(key) ==
                              IF key = Refused THEN Refused
                              ELSE <<"multi_wallet", a.settings, "transaction_buffer", key[2],
                                     args.buffer_index>>
                       IN  [transaction_buffer |-> address(
                               GetSigner(tx, i, a, "creator", args.secp256r1_verify_args))]),
           LAMBDA c : <<MemberInRole(tx, i, c, "creator")>>)

transaction_buffer_vote(tx, i) ==
    Signed(Context(tx, i, Data(10, <<VerifyArgs>>),
                   <<Acc("settings"), Opt(Acc("domain_config")), Mut(Acc("transaction_buffer")),
                     Opt(Signer("voter")), Acc("system_program"), Opt(Acc("slot_hash_sysvar")),
                     Opt(Acc("instructions_sysvar"))>>, SettingsOf),
           LAMBDA c : <<MemberInRole(tx, i, c, "voter")>>)

transaction_buffer_extend(tx, i) ==
    Context(tx, i, Data(11, <<Field("buffer", Bytes)>>),
            <<Acc("settings"), Mut(Acc("transaction_buffer"))>>, SettingsOf)

transaction_buffer_close(tx, i) ==
    Signed(Context(tx, i, Data(12, <<VerifyArgs>>),
                   <<Mut(Acc("settings")), Mut(Acc("payer")), Opt(Acc("domain_config")),
                     Mut(Acc("transaction_buffer")), Opt(Signer("closer")),
                     Opt(Acc("slot_hash_sysvar")), Opt(Acc("instructions_sysvar"))>>,
                   SettingsAndPayerOf),
           LAMBDA c : <<MemberInRole(tx, i, c, "closer")>>)

\* Only a preauthorised transaction is approved by nobody.
transaction_buffer_execute(tx, i) ==
    Signed(Context(tx, i, Data(13, <<VerifyArgs>>),
                   <<Mut(Acc("settings")), Opt(Acc("domain_config")), Opt(Signer("executor")),
                     Mut(Acc("transaction_buffer")), Opt(Acc("slot_hash_sysvar")),
                     Opt(Acc("instructions_sysvar"))>>, SettingsOf),
           LAMBDA c : IF "executor" \notin DOMAIN c.accounts
                         /\ c.args.secp256r1_verify_args = None
                      THEN <<>> ELSE <<MemberInRole(tx, i, c, "executor")>>)

transaction_execute(tx, i) ==
    Context(tx, i, Data(14, <<>>),
            <<Mut(Acc("settings")), Mut(Acc("payer")), Mut(Acc("transaction_buffer"))>>,
            SettingsAndPayerOf)

-----------------------------------------------------------------------------
(* Transactions in one instruction. *)

transaction_execute_sync(tx, i) ==
    Signed(Context(tx, i,
                   Data(15, <<Field("num_signers", U8), Field("num_writable_signers", U8),
                              Field("num_writable_non_signers", U8),
                              Field("num_account_keys", U8),
                              Field("instructions", ArrayOf(CompiledInstruction)),
                              Field("address_table_lookups",
                                    ArrayOf(TransactionMessageAddressTableLookup)), SyncSigners>>),
                   <<Mut(Acc("settings")), Opt(Acc("slot_hash_sysvar")),
                     Acc("instructions_sysvar")>>, NoSeeds),
           LAMBDA c : Resolve(tx, i, c))

native_transfer_intent(tx, i) ==
    Signed(Context(tx, i, Data(17, <<Field("amount", U64), SyncSigners>>),
                   <<Mut(Acc("settings")), Opt(Acc("slot_hash_sysvar")),
                     Acc("instructions_sysvar"), Mut(Acc("source")), Mut(Acc("destination")),
                     Acc("system_program")>>,
                   LAMBDA a, args : [source |-> <<"multi_wallet", a.settings, "vault">>]),
           LAMBDA c : Resolve(tx, i, c))

token_transfer_intent(tx, i) ==
    Signed(Context(tx, i, Data(18, <<Field("amount", U64), SyncSigners>>),
                   <<Mut(Acc("settings")), Mut(Signer("payer")), Opt(Acc("slot_hash_sysvar")),
                     Acc("instructions_sysvar"), Acc("source"),
                     Mut(Acc("source_spl_token_account")), Acc("destination"),
                     Mut(Acc("destination_spl_token_account")), Acc("token_program"),
                     Acc("associated_token_program"), Mut(Acc("mint")), Acc("system_program")>>,
                   LAMBDA a, args :
                       LET account(owner) == <<"token_account", owner, a.token_program, a.mint>>
                       IN  [source |-> <<"multi_wallet", a.settings, "vault">>,
                            source_spl_token_account      |-> account(a.source),
                            destination_spl_token_account |-> account(a.destination)]),
           LAMBDA c : Resolve(tx, i, c))

\* multi_wallet: the handler by the first byte of the data.
Understood(tx, i) ==
    CASE tx[i].data[1] = 0  -> create_domain_config(tx, i)
      [] tx[i].data[1] = 1  -> edit_domain_config(tx, i)
      [] tx[i].data[1] = 2  -> disable_domain_config(tx, i)
      [] tx[i].data[1] = 3  -> create_global_counter(tx, i)
      [] tx[i].data[1] = 4  -> create_domain_user_account(tx, i)
      [] tx[i].data[1] = 5  -> create_user_account(tx, i)
      [] tx[i].data[1] = 6  -> edit_transaction_manager_url(tx, i)
      [] tx[i].data[1] = 7  -> edit_user_delegate(tx, i)
      [] tx[i].data[1] = 8  -> change_config(tx, i)
      [] tx[i].data[1] = 9  -> transaction_buffer_create(tx, i)
      [] tx[i].data[1] = 10 -> transaction_buffer_vote(tx, i)
      [] tx[i].data[1] = 11 -> transaction_buffer_extend(tx, i)
      [] tx[i].data[1] = 12 -> transaction_buffer_close(tx, i)
      [] tx[i].data[1] = 13 -> transaction_buffer_execute(tx, i)
      [] tx[i].data[1] = 14 -> transaction_execute(tx, i)
      [] tx[i].data[1] = 15 -> transaction_execute_sync(tx, i)
      [] tx[i].data[1] = 16 -> create_wallet(tx, i)
      [] tx[i].data[1] = 17 -> native_transfer_intent(tx, i)
      [] tx[i].data[1] = 18 -> token_transfer_intent(tx, i)
=============================================================================
