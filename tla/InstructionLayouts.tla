------------------------- MODULE InstructionLayouts -------------------------
(***************************************************************************)
(* The client generated from the program's IDL (packages/core/src/         *)
(* generated).  For each instruction of the program it has the layout of   *)
(* the data, a function that builds the instruction from named accounts    *)
(* and arguments, for some of them an asynchronous variant that derives    *)
(* the addresses left out, and a function that reads an instruction back.  *)
(*                                                                         *)
(* An account is given by name, as an address or as a signer.  A layout    *)
(* lists the accounts in order; an account that is not given is replaced   *)
(* by the program's own address, which the program reads as "absent".      *)
(* Types and documentation of the generated code have no counterpart here. *)
(***************************************************************************)
EXTENDS VaultMessages, TLC

CONSTANTS
    MultiWallet, SystemProgram, TokenProgram, AssociatedTokenProgram,
    Secp256r1Program, SlotHashesSysvar, InstructionsSysvar

\* An account given to a builder.
Plain(a)   == [address |-> a, signer |-> FALSE]
Signing(a) == [address |-> a, signer |-> TRUE]

\* An optional account, as part of what is given.
Given(name, option) == IF option = None THEN <<>> ELSE name :> option[1]

\* A place in a layout that is read, and one that is written.
R(name) == [name |-> name, writable |-> FALSE]
W(name) == [name |-> name, writable |-> TRUE]

\* The accounts that every builder fills in when they are not given.
Defaults ==
    [systemProgram          |-> Plain(SystemProgram),
     slotHashSysvar         |-> Plain(SlotHashesSysvar),
     instructionsSysvar     |-> Plain(InstructionsSysvar),
     tokenProgram           |-> Plain(TokenProgram),
     associatedTokenProgram |-> Plain(AssociatedTokenProgram)]

\* getAccountMetaFactory
AccountMeta(place, accounts) ==
    IF place.name \in DOMAIN accounts
    THEN Meta(accounts[place.name].address, accounts[place.name].signer, place.writable)
    ELSE Meta(MultiWallet, FALSE, FALSE)

Built(layout, places, given, args, remaining) ==
    [program  |-> MultiWallet,
     accounts |-> Mapped(places, LAMBDA p : AccountMeta(p, given @@ Defaults)) \o remaining,
     data     |-> Encoded(layout, args)]

\* The accounts by name, the absent ones left out, and the arguments; reading
\* throws when accounts are missing.
Parsed(layout, names, optional, ix) ==
    LET at(n)   == ix.accounts[SelectInSeq(names, LAMBDA x : x = n)]
        absent  == {n \in optional : at(n).address = MultiWallet}
    IN  IF Len(ix.accounts) < Len(names) \/ Decoded(layout, ix.data) = Refused THEN Refused
        ELSE [accounts |-> [n \in ToSet(names) \ absent |-> at(n)],
              args     |-> Decoded(layout, ix.data)]

-----------------------------------------------------------------------------
(* Types of arguments. *)

MemberKey     == StructOf(<<U8, FixedBytes(33)>>)
Permissions   == StructOf(<<U8>>)
UserRole      == EnumOf(4)
Transports    == EnumOf(7)
Secp256r1Pubkey == StructOf(<<FixedBytes(33)>>)
AddMemberArgs    == StructOf(<<MemberKey, Permissions>>)
EditMemberArgs   == StructOf(<<MemberKey, Permissions>>)
RemoveMemberArgs == StructOf(<<MemberKey>>)
ConfigAction ==
    UnionOf(<<ArrayOf(EditMemberArgs), ArrayOf(AddMemberArgs), ArrayOf(RemoveMemberArgs), U8>>)
ExpectedSigner == StructOf(<<MemberKey, OptionOf(FixedBytes(32))>>)
Secp256r1VerifyArgs ==
    StructOf(<<U8, U64, U8, Bool, Bytes, FixedBytes(32)>>)
Secp256r1VerifyArgsWithDomainConfigIndex == StructOf(<<Secp256r1VerifyArgs, U8>>)
TransactionSyncSigners == UnionOf(<<U8, Secp256r1VerifyArgsWithDomainConfigIndex>>)
CompiledInstruction == StructOf(<<U8, Bytes, Bytes>>)
TransactionMessageAddressTableLookup == StructOf(<<U8, Bytes, Bytes>>)

-----------------------------------------------------------------------------
(* Administration of the program. *)

CreateGlobalCounterData == Data(3, <<>>)

\* The builders of this instruction do not pass their arguments on to the
\* function that adds the remaining accounts, which then adds none.
GetCreateGlobalCounterInstruction(given, args, remaining) ==
    Built(CreateGlobalCounterData, <<W("globalCounter"), W("payer"), R("systemProgram")>>,
          given, args, <<>>)

GetCreateGlobalCounterInstructionAsync(given, args, remaining) ==
    GetCreateGlobalCounterInstruction(
        given @@ [globalCounter |-> Plain(<<"global_counter">>)], args, remaining)

ParseCreateGlobalCounterInstruction(ix) ==
    Parsed(CreateGlobalCounterData, <<"globalCounter", "payer", "systemProgram">>, {}, ix)

CreateDomainConfigData ==
    Data(0, <<Field("rpId", Utf8), Field("origins", ArrayOf(Utf8))>>)

GetCreateDomainConfigInstruction(given, args, remaining) ==
    Built(CreateDomainConfigData,
          <<W("domainConfig"), W("payer"), R("authority"), R("systemProgram"), W("userAccount")>>,
          given, args, remaining)

GetCreateDomainConfigInstructionAsync(given, args, remaining) ==
    GetCreateDomainConfigInstruction(
        given @@ [userAccount |-> Plain(<<"user", given.authority.address>>)], args, remaining)

ParseCreateDomainConfigInstruction(ix) ==
    Parsed(CreateDomainConfigData,
           <<"domainConfig", "payer", "authority", "systemProgram", "userAccount">>, {}, ix)

EditDomainConfigData == Data(1, <<Field("newOrigins", OptionOf(ArrayOf(Utf8)))>>)

GetEditDomainConfigInstruction(given, args, remaining) ==
    Built(EditDomainConfigData,
          <<W("domainConfig"), W("authority"), R("newAuthority"), W("userAccount"),
            R("systemProgram")>>,
          given, args, remaining)

ParseEditDomainConfigInstruction(ix) ==
    Parsed(EditDomainConfigData,
           <<"domainConfig", "authority", "newAuthority", "userAccount", "systemProgram">>,
           {"newAuthority", "userAccount"}, ix)

DisableDomainConfigData == Data(2, <<Field("disable", Bool)>>)

GetDisableDomainConfigInstruction(given, args, remaining) ==
    Built(DisableDomainConfigData, <<W("domainConfig"), R("admin")>>, given, args, remaining)

ParseDisableDomainConfigInstruction(ix) ==
    Parsed(DisableDomainConfigData, <<"domainConfig", "admin">>, {}, ix)

-----------------------------------------------------------------------------
(* Users and wallets. *)

CreateDomainUserAccountData ==
    Data(4, <<Field("member", Secp256r1Pubkey), Field("role", UserRole),
              Field("credentialId", Bytes), Field("transports", ArrayOf(Transports))>>)

GetCreateDomainUserAccountInstruction(given, args, remaining) ==
    Built(CreateDomainUserAccountData,
          <<W("payer"), R("domainConfig"), R("authority"), W("userAccount"),
            R("transactionManagerAccount"), W("settings"), R("systemProgram")>>,
          given, args, remaining)

ParseCreateDomainUserAccountInstruction(ix) ==
    Parsed(CreateDomainUserAccountData,
           <<"payer", "domainConfig", "authority", "userAccount", "transactionManagerAccount",
             "settings", "systemProgram">>,
           {"transactionManagerAccount", "settings"}, ix)

CreateUserAccountData ==
    Data(5, <<Field("role", UserRole), Field("transactionManagerUrl", OptionOf(Utf8))>>)

GetCreateUserAccountInstruction(given, args, remaining) ==
    Built(CreateUserAccountData,
          <<W("payer"), R("member"), R("systemProgram"), W("userAccount")>>,
          given, args, remaining)

GetCreateUserAccountInstructionAsync(given, args, remaining) ==
    GetCreateUserAccountInstruction(
        given @@ [userAccount |-> Plain(<<"user", given.member.address>>)], args, remaining)

ParseCreateUserAccountInstruction(ix) ==
    Parsed(CreateUserAccountData, <<"payer", "member", "systemProgram", "userAccount">>, {}, ix)

EditTransactionManagerUrlData == Data(6, <<Field("transactionManagerUrl", Utf8)>>)

GetEditTransactionManagerUrlInstruction(given, args, remaining) ==
    Built(EditTransactionManagerUrlData, <<R("signer"), W("transactionManagerAccount")>>,
          given, args, remaining)

GetEditTransactionManagerUrlInstructionAsync(given, args, remaining) ==
    GetEditTransactionManagerUrlInstruction(
        given @@ [transactionManagerAccount |-> Plain(<<"user", given.signer.address>>)],
        args, remaining)

ParseEditTransactionManagerUrlInstruction(ix) ==
    Parsed(EditTransactionManagerUrlData, <<"signer", "transactionManagerAccount">>, {}, ix)

EditUserDelegateData ==
    Data(7, <<Field("secp256r1VerifyArgs", OptionOf(Secp256r1VerifyArgs)),
              Field("delegateTo", OptionOf(U128))>>)

GetEditUserDelegateInstruction(given, args, remaining) ==
    Built(EditUserDelegateData,
          <<W("feePayer"), R("signer"), W("userAccount"), W("oldSettings"), W("newSettings"),
            R("slotHashSysvar"), R("instructionsSysvar"), R("domainConfig")>>,
          given, args, remaining)

ParseEditUserDelegateInstruction(ix) ==
    Parsed(EditUserDelegateData,
           <<"feePayer", "signer", "userAccount", "oldSettings", "newSettings",
             "slotHashSysvar", "instructionsSysvar", "domainConfig">>,
           {"signer", "oldSettings", "newSettings", "slotHashSysvar", "instructionsSysvar",
            "domainConfig"}, ix)

CreateWalletData == Data(16, <<Field("settingsIndex", U128)>>)

GetCreateWalletInstruction(given, args, remaining) ==
    Built(CreateWalletData,
          <<W("payer"), R("initialMember"), R("systemProgram"), W("globalCounter"),
            W("userAccount"), W("settings")>>,
          given, args, remaining)

GetCreateWalletInstructionAsync(given, args, remaining) ==
    GetCreateWalletInstruction(
        given @@ [globalCounter |-> Plain(<<"global_counter">>),
                  userAccount   |-> Plain(<<"user", given.initialMember.address>>),
                  settings      |-> Plain(<<"multi_wallet", args.settingsIndex>>)],
        args, remaining)

ParseCreateWalletInstruction(ix) ==
    Parsed(CreateWalletData,
           <<"payer", "initialMember", "systemProgram", "globalCounter", "userAccount",
             "settings">>, {}, ix)

ChangeConfigData ==
    Data(8, <<Field("configActions", ArrayOf(ConfigAction)),
              Field("signers", ArrayOf(TransactionSyncSigners))>>)

GetChangeConfigInstruction(given, args, remaining) ==
    Built(ChangeConfigData,
          <<W("settings"), W("payer"), R("systemProgram"), R("slotHashSysvar"),
            R("instructionsSysvar")>>,
          given, args, remaining)

ParseChangeConfigInstruction(ix) ==
    Parsed(ChangeConfigData,
           <<"settings", "payer", "systemProgram", "slotHashSysvar", "instructionsSysvar">>,
           {"slotHashSysvar"}, ix)
-----------------------------------------------------------------------------
(* Staged transactions. *)

TransactionBufferCreateData ==
    Data(9, <<Field("bufferIndex", U8), Field("preauthorizeExecution", Bool),
              Field("bufferExtendHashes", ArrayOf(FixedBytes(32))),
              Field("finalBufferHash", FixedBytes(32)), Field("finalBufferSize", U16),
              Field("expectedSigners", ArrayOf(ExpectedSigner)),
              Field("secp256r1VerifyArgs", OptionOf(Secp256r1VerifyArgs))>>)

GetTransactionBufferCreateInstruction(given, args, remaining) ==
    Built(TransactionBufferCreateData,
          <<R("settings"), W("payer"), R("domainConfig"), W("transactionBuffer"), R("creator"),
            R("systemProgram"), R("instructionsSysvar"), R("slotHashSysvar")>>,
          given, args, remaining)

ParseTransactionBufferCreateInstruction(ix) ==
    Parsed(TransactionBufferCreateData,
           <<"settings", "payer", "domainConfig", "transactionBuffer", "creator",
             "systemProgram", "instructionsSysvar", "slotHashSysvar">>,
           {"domainConfig", "creator", "slotHashSysvar"}, ix)

TransactionBufferVoteData ==
    Data(10, <<Field("secp256r1VerifyArgs", OptionOf(Secp256r1VerifyArgs))>>)

GetTransactionBufferVoteInstruction(given, args, remaining) ==
    Built(TransactionBufferVoteData,
          <<R("settings"), R("domainConfig"), W("transactionBuffer"), R("voter"),
            R("systemProgram"), R("slotHashSysvar"), R("instructionsSysvar")>>,
          given, args, remaining)

ParseTransactionBufferVoteInstruction(ix) ==
    Parsed(TransactionBufferVoteData,
           <<"settings", "domainConfig", "transactionBuffer", "voter", "systemProgram",
             "slotHashSysvar", "instructionsSysvar">>,
           {"domainConfig", "voter", "slotHashSysvar", "instructionsSysvar"}, ix)

TransactionBufferExtendData == Data(11, <<Field("buffer", Bytes)>>)

GetTransactionBufferExtendInstruction(given, args, remaining) ==
    Built(TransactionBufferExtendData, <<R("settings"), W("transactionBuffer")>>,
          given, args, remaining)

ParseTransactionBufferExtendInstruction(ix) ==
    Parsed(TransactionBufferExtendData, <<"settings", "transactionBuffer">>, {}, ix)

TransactionBufferCloseData ==
    Data(12, <<Field("secp256r1VerifyArgs", OptionOf(Secp256r1VerifyArgs))>>)

GetTransactionBufferCloseInstruction(given, args, remaining) ==
    Built(TransactionBufferCloseData,
          <<W("settings"), W("payer"), R("domainConfig"), W("transactionBuffer"), R("closer"),
            R("slotHashSysvar"), R("instructionsSysvar")>>,
          given, args, remaining)

ParseTransactionBufferCloseInstruction(ix) ==
    Parsed(TransactionBufferCloseData,
           <<"settings", "payer", "domainConfig", "transactionBuffer", "closer",
             "slotHashSysvar", "instructionsSysvar">>,
           {"domainConfig", "closer", "slotHashSysvar", "instructionsSysvar"}, ix)

TransactionBufferExecuteData ==
    Data(13, <<Field("secp256r1VerifyArgs", OptionOf(Secp256r1VerifyArgs))>>)

GetTransactionBufferExecuteInstruction(given, args, remaining) ==
    Built(TransactionBufferExecuteData,
          <<W("settings"), R("domainConfig"), R("executor"), W("transactionBuffer"),
            R("slotHashSysvar"), R("instructionsSysvar")>>,
          given, args, remaining)

\* Mutant of ParseTransactionBufferExecuteInstruction: two accounts change places.
ParseTransactionBufferExecuteInstructionSwapped(ix) ==
    Parsed(TransactionBufferExecuteData,
           <<"settings", "executor", "domainConfig", "transactionBuffer", "slotHashSysvar",
             "instructionsSysvar">>,
           {"domainConfig", "executor", "slotHashSysvar", "instructionsSysvar"}, ix)

ParseTransactionBufferExecuteInstruction(ix) ==
    Parsed(TransactionBufferExecuteData,
           <<"settings", "domainConfig", "executor", "transactionBuffer", "slotHashSysvar",
             "instructionsSysvar">>,
           {"domainConfig", "executor", "slotHashSysvar", "instructionsSysvar"}, ix)

TransactionExecuteData == Data(14, <<>>)

\* The remaining accounts are lost here as well: see above.
GetTransactionExecuteInstruction(given, args, remaining) ==
    Built(TransactionExecuteData, <<W("settings"), W("payer"), W("transactionBuffer")>>,
          given, args, <<>>)

ParseTransactionExecuteInstruction(ix) ==
    Parsed(TransactionExecuteData, <<"settings", "payer", "transactionBuffer">>, {}, ix)

-----------------------------------------------------------------------------
(* Transactions in one instruction. *)

TransactionExecuteSyncData ==
    Data(15, <<Field("numSigners", U8), Field("numWritableSigners", U8),
               Field("numWritableNonSigners", U8), Field("numAccountKeys", U8),
               Field("instructions", ArrayOf(CompiledInstruction)),
               Field("addressTableLookups", ArrayOf(TransactionMessageAddressTableLookup)),
               Field("signers", ArrayOf(TransactionSyncSigners))>>)

GetTransactionExecuteSyncInstruction(given, args, remaining) ==
    Built(TransactionExecuteSyncData,
          <<W("settings"), R("slotHashSysvar"), R("instructionsSysvar")>>,
          given, args, remaining)

ParseTransactionExecuteSyncInstruction(ix) ==
    Parsed(TransactionExecuteSyncData, <<"settings", "slotHashSysvar", "instructionsSysvar">>,
           {"slotHashSysvar"}, ix)

NativeTransferIntentData ==
    Data(17, <<Field("amount", U64), Field("signers", ArrayOf(TransactionSyncSigners))>>)

GetNativeTransferIntentInstruction(given, args, remaining) ==
    Built(NativeTransferIntentData,
          <<W("settings"), R("slotHashSysvar"), R("instructionsSysvar"), W("source"),
            W("destination"), R("systemProgram")>>,
          given, args, remaining)

GetNativeTransferIntentInstructionAsync(given, args, remaining) ==
    GetNativeTransferIntentInstruction(
        given @@ [source |-> Plain(<<"multi_wallet", given.settings.address, "vault">>)],
        args, remaining)

ParseNativeTransferIntentInstruction(ix) ==
    Parsed(NativeTransferIntentData,
           <<"settings", "slotHashSysvar", "instructionsSysvar", "source", "destination",
             "systemProgram">>, {"slotHashSysvar"}, ix)

TokenTransferIntentData ==
    Data(18, <<Field("amount", U64), Field("signers", ArrayOf(TransactionSyncSigners))>>)

GetTokenTransferIntentInstruction(given, args, remaining) ==
    Built(TokenTransferIntentData,
          <<W("settings"), W("payer"), R("slotHashSysvar"), R("instructionsSysvar"),
            R("source"), W("sourceSplTokenAccount"), R("destination"),
            W("destinationSplTokenAccount"), R("tokenProgram"), R("associatedTokenProgram"),
            W("mint"), R("systemProgram")>>,
          given, args, remaining)

\* The associated token account of an owner.
TokenAccount(owner, tokenProgram, mint) == <<"token_account", owner, tokenProgram, mint>>

GetTokenTransferIntentInstructionAsync(given, args, remaining) ==
    LET all == given @@ Defaults
                     @@ [source |-> Plain(<<"multi_wallet", given.settings.address, "vault">>)]
        account(owner) ==
            Plain(TokenAccount(all[owner].address, all.tokenProgram.address, all.mint.address))
    IN  GetTokenTransferIntentInstruction(
            all @@ [sourceSplTokenAccount      |-> account("source"),
                    destinationSplTokenAccount |-> account("destination")],
            args, remaining)

ParseTokenTransferIntentInstruction(ix) ==
    Parsed(TokenTransferIntentData,
           <<"settings", "payer", "slotHashSysvar", "instructionsSysvar", "source",
             "sourceSplTokenAccount", "destination", "destinationSplTokenAccount",
             "tokenProgram", "associatedTokenProgram", "mint", "systemProgram">>,
           {"slotHashSysvar"}, ix)

-----------------------------------------------------------------------------
\* identifyMultiWalletInstruction and the parser that belongs to the result.
ParseMultiWalletInstruction(ix) ==
    CASE ix.data[1] = 0  -> ParseCreateDomainConfigInstruction(ix)
      [] ix.data[1] = 1  -> ParseEditDomainConfigInstruction(ix)
      [] ix.data[1] = 2  -> ParseDisableDomainConfigInstruction(ix)
      [] ix.data[1] = 3  -> ParseCreateGlobalCounterInstruction(ix)
      [] ix.data[1] = 4  -> ParseCreateDomainUserAccountInstruction(ix)
      [] ix.data[1] = 5  -> ParseCreateUserAccountInstruction(ix)
      [] ix.data[1] = 6  -> ParseEditTransactionManagerUrlInstruction(ix)
      [] ix.data[1] = 7  -> ParseEditUserDelegateInstruction(ix)
      [] ix.data[1] = 8  -> ParseChangeConfigInstruction(ix)
      [] ix.data[1] = 9  -> ParseTransactionBufferCreateInstruction(ix)
      [] ix.data[1] = 10 -> ParseTransactionBufferVoteInstruction(ix)
      [] ix.data[1] = 11 -> ParseTransactionBufferExtendInstruction(ix)
      [] ix.data[1] = 12 -> ParseTransactionBufferCloseInstruction(ix)
      [] ix.data[1] = 13 -> ParseTransactionBufferExecuteInstruction(ix)
      [] ix.data[1] = 14 -> ParseTransactionExecuteInstruction(ix)
      [] ix.data[1] = 15 -> ParseTransactionExecuteSyncInstruction(ix)
      [] ix.data[1] = 16 -> ParseCreateWalletInstruction(ix)
      [] ix.data[1] = 17 -> ParseNativeTransferIntentInstruction(ix)
      [] ix.data[1] = 18 -> ParseTokenTransferIntentInstruction(ix)
=============================================================================
