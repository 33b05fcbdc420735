-------------------------- MODULE ClientInstructions --------------------------
(***************************************************************************)
(* The hand-written builders of the SDK (packages/core/src/instructions,   *)
(* transaction and utils): from what a caller wants to the instructions of *)
(* a transaction.  They derive the addresses, sort signers into accounts   *)
(* and passkeys, number the assertions of passkeys and the accounts that   *)
(* signers refer to, and place the instruction that verifies the           *)
(* assertions directly before the one that uses them.                      *)
(*                                                                         *)
(* A signer is an Ed25519 account, [passkey |-> FALSE, account], or a      *)
(* passkey with its assertion, [passkey |-> TRUE, key, account (of its     *)
(* domain configuration), message, size, args].  An optional parameter is  *)
(* None or Some(x).                                                        *)
(***************************************************************************)
EXTENDS InstructionLayouts

CONSTANT TipAccount     \* where a tip for a bundle goes

-----------------------------------------------------------------------------
(* Addresses: the seeds of a derived address stand for it. *)

GetUserAddress(key)                == <<"user", key>>
GetDomainConfigAddress(rpId)       == <<"domain_config", rpId>>
GetGlobalCounterAddress            == <<"global_counter">>
GetSettingsFromIndex(index)        == <<"multi_wallet", index>>
GetWalletAddressFromSettings(settings) == <<"multi_wallet", settings, "vault">>
GetTransactionBufferAddress(settings, creator, index) ==
    <<"multi_wallet", settings, "transaction_buffer", creator, index>>

-----------------------------------------------------------------------------
(* Signers and their assertions. *)

KeyOf(s) == IF s.passkey THEN s.key ELSE s.account

\* convertPubkeyToMemberkey
ConvertPubkeyToMemberkey(s) == <<IF s.passkey THEN 1 ELSE 0, KeyOf(s)>>

\* An instruction carries the assertion of one passkey at most.
GetDeduplicatedSigners(signers) ==
    LET first == FoldLeft(LAMBDA acc, s :
                     IF \E t \in ToSet(acc) : KeyOf(t) = KeyOf(s) THEN acc ELSE Append(acc, s),
                     <<>>, signers)
    IN  IF Len(SelectSeq(first, LAMBDA s : s.passkey)) > 1 THEN Refused ELSE first

VerifyArgs(s, index) == <<index>> \o s.args

\* extractSecp256r1VerificationArgs, for a signer that may be absent: the account
\* in the role, the domain configuration, the arguments, what is to be verified.
Extracted(role, who) ==
    IF who = None THEN [accounts |-> <<>>, verifyArgs |-> None, assertions |-> <<>>]
    ELSE IF who[1].passkey
    THEN [accounts   |-> "domainConfig" :> Plain(who[1].account),
          verifyArgs |-> Some(VerifyArgs(who[1], 0)),
          assertions |-> who]
    ELSE [accounts   |-> role :> Signing(who[1].account),
          verifyArgs |-> None,
          assertions |-> <<>>]

\* The entry of the signer list for what BuildSignerAccounts found.
TransactionSyncSigner(found) ==
    IF found.passkey THEN <<1, <<VerifyArgs(found.by, found.assertion), found.index>>>>
    ELSE <<0, found.index>>

\* The data of an instruction that verifies assertions: a count, padding, a
\* table of offsets, and then the key, signature and message of each assertion.
Secp256r1VerifyData(offsets, payload) ==
    <<Piece(1, Len(offsets)), Piece(1, 0)>>
    \o Mapped(offsets, LAMBDA o : Piece(14, o))
    \o FlattenSeq(Mapped(payload, LAMBDA s :
           <<Piece(33, s.key), Piece(64, s.signature), Piece(s.size, s.message)>>))

\* Mutant of GetSecp256r1VerifyInstruction: the offsets all begin at the first
\* assertion's key.
GetSecp256r1VerifyInstructionUnmoved(input) ==
    LET start == 2 + 14
    IN  [program |-> Secp256r1Program, accounts |-> <<>>,
         data |-> Secp256r1VerifyData(
             Mapped(input, LAMBDA s : [publicKeyOffset   |-> start,
                                       signatureOffset   |-> start + 33,
                                       messageDataOffset |-> start + 33 + 64,
                                       messageDataSize   |-> s.size]), input)]

GetSecp256r1VerifyInstruction(input) ==
    LET start(k) == 2 + 14 * Len(input)
                    + SumOf(Mapped(SubSeq(input, 1, k - 1), LAMBDA s : 33 + 64 + s.size))
        offsets(k) == [publicKeyOffset   |-> start(k),
                       signatureOffset   |-> start(k) + 33,
                       messageDataOffset |-> start(k) + 33 + 64,
                       messageDataSize   |-> input[k].size]
    IN  [program |-> Secp256r1Program, accounts |-> <<>>,
         data |-> Secp256r1VerifyData([k \in DOMAIN input |-> offsets(k)], input)]

\* getSecp256r1VerifyInstructionDataDecoder: it reads keys, signatures and messages
\* one after another, whatever the offsets say, but takes the sizes from them.
Secp256r1VerifyPayload(data) ==
    LET n        == BytesAt(data, 0, 1)
        size(k)  == BytesAt(data, 2 + 14 * (k - 1), 14).messageDataSize
        start(k) == 2 + 14 * n + SumOf([j \in 1..(k - 1) |-> 33 + 64 + size(j)])
        at(byte, length) == [publicKey |-> BytesAt(data, byte, 33),
                             message   |-> BytesAt(data, byte + 33 + 64, length)]
    IN  [k \in 1..n |-> at(start(k), size(k))]

\* The instructions of a builder, after the assertions that they use.
After(assertions, ixs) ==
    IF assertions = <<>> THEN ixs ELSE <<GetSecp256r1VerifyInstruction(assertions)>> \o ixs

-----------------------------------------------------------------------------
(* Administration, users and wallets. *)

CreateGlobalCounter(payer) ==
    GetCreateGlobalCounterInstructionAsync(
        [payer |-> Signing(payer), globalCounter |-> Plain(GetGlobalCounterAddress)], <<>>, <<>>)

CreateDomainConfig(payer, authority, rpId, origins) ==
    GetCreateDomainConfigInstruction(
        [payer        |-> Signing(payer),
         authority    |-> Signing(authority),
         domainConfig |-> Plain(GetDomainConfigAddress(rpId)),
         userAccount  |-> Plain(GetUserAddress(authority))],
        [rpId |-> rpId, origins |-> origins], <<>>)

EditDomainConfig(authority, domainConfig, newAuthority, newOrigins) ==
    GetEditDomainConfigInstruction(
        [domainConfig |-> Plain(domainConfig), authority |-> Signing(authority)]
        @@ Given("newAuthority", Mapped(newAuthority, Signing))
        @@ Given("userAccount", Mapped(newAuthority, LAMBDA a : Plain(GetUserAddress(a)))),
        [newOrigins |-> newOrigins], <<>>)

DisableDomainConfig(admin, rpId, disable) ==
    GetDisableDomainConfigInstruction(
        [domainConfig |-> Plain(GetDomainConfigAddress(rpId)), admin |-> Signing(admin)],
        [disable |-> disable], <<>>)

\* user: [member (a passkey's key), role, credentialId, transports, settings,
\* transactionManagerAccount]
CreateDomainUserAccounts(domainConfig, authority, payer, user) ==
    GetCreateDomainUserAccountInstruction(
        [payer        |-> Signing(payer),
         authority    |-> Signing(authority),
         domainConfig |-> Plain(domainConfig),
         userAccount  |-> Plain(GetUserAddress(user.member))]
        @@ Given("settings", Mapped(user.settings, Plain))
        @@ Given("transactionManagerAccount", Mapped(user.transactionManagerAccount, Plain)),
        [member |-> user.member, role |-> user.role, credentialId |-> user.credentialId,
         transports |-> user.transports], <<>>)

TransactionManagerRole == 0

CreateUserAccounts(payer, user) ==
    GetCreateUserAccountInstruction(
        [payer       |-> Signing(payer),
         member      |-> Signing(user.member),
         userAccount |-> Plain(GetUserAddress(user.member))],
        [role |-> user.role,
         transactionManagerUrl |->
             IF user.role = TransactionManagerRole THEN Some(user.transactionManagerUrl) ELSE None],
        <<>>)

EditTransactionManagerUrl(signer, url) ==
    GetEditTransactionManagerUrlInstruction(
        [signer |-> Signing(signer), transactionManagerAccount |-> Plain(GetUserAddress(signer))],
        [transactionManagerUrl |-> url], <<>>)

EditUserDelegate(payer, user, oldDelegate, newDelegate) ==
    LET settings(index) == Plain(GetSettingsFromIndex(index))
        e == Extracted("signer", Some(user))
    IN  After(e.assertions, <<GetEditUserDelegateInstruction(
            e.accounts
            @@ [feePayer |-> Signing(payer), userAccount |-> Plain(GetUserAddress(KeyOf(user)))]
            @@ Given("oldSettings", Mapped(oldDelegate, settings))
            @@ Given("newSettings", Mapped(newDelegate, settings)),
            [secp256r1VerifyArgs |-> e.verifyArgs, delegateTo |-> newDelegate], <<>>)>>)

CreateWallet(index, payer, initialMember) ==
    GetCreateWalletInstruction(
        [payer         |-> Signing(payer),
         initialMember |-> Signing(initialMember),
         globalCounter |-> Plain(GetGlobalCounterAddress),
         userAccount   |-> Plain(GetUserAddress(initialMember)),
         settings      |-> Plain(GetSettingsFromIndex(index))],
        [settingsIndex |-> index], <<>>)

\* convertPermissions: the permissions given, as a mask.
ConvertPermissions(p) ==
    <<(IF p.initiate THEN 1 ELSE 0) + (IF p.vote THEN 2 ELSE 0) + (IF p.execute THEN 4 ELSE 0)>>

\* The actions as the program numbers them: a member edited or added comes with
\* permissions, one removed without.
BuildConfigAction(action) ==
    LET key(m)  == ConvertPubkeyToMemberkey(m.member)
        both(m) == <<key(m), ConvertPermissions(m.permissions)>>
    IN  CASE action.type = "EditPermissions" -> <<0, Mapped(action.members, both)>>
          [] action.type = "AddMembers"      -> <<1, Mapped(action.members, both)>>
          [] action.type = "RemoveMembers"   -> <<2, Mapped(action.members, LAMBDA m : <<key(m)>>)>>
          [] action.type = "SetThreshold"    -> <<3, action.threshold>>

\* prepareChangeConfigArgs: the user accounts of the members that come and go
\* are the first remaining accounts.
PrepareChangeConfigArgs(settings, actions) ==
    LET comeAndGo == SelectSeq(actions, LAMBDA x : x.type \in {"AddMembers", "RemoveMembers"})
        members   == FlattenSeq(Mapped(comeAndGo, LAMBDA x : x.members))
    IN  [settings       |-> settings,
         configActions  |-> Mapped(actions, BuildConfigAction),
         packedAccounts |-> Packed(Mapped(members, LAMBDA m :
                                Meta(GetUserAddress(KeyOf(m.member)), FALSE, TRUE)))]

ChangeConfig(signers, payer, change) ==
    LET dedup == GetDeduplicatedSigners(signers)
        built == BuildSignerAccounts(dedup, change.packedAccounts, <<>>)
    IN  IF dedup = Refused THEN Refused
        ELSE After(built.assertions, <<GetChangeConfigInstruction(
                 [settings |-> Plain(change.settings), payer |-> Signing(payer)],
                 [configActions |-> change.configActions,
                  signers |-> Mapped(built.signers, TransactionSyncSigner)], built.packed)>>)

-----------------------------------------------------------------------------
(* Staged transactions.  The bytes of a message are a sequence of parts. *)

BytesOf(wire, n)   == [k \in 1..n |-> <<wire, k>>]
MessageIn(bytes)   == Deserialized(bytes[1][1])
Hash(bytes)        == <<"hash", bytes>>

\* stage: [settings, transactionBufferAddress, payer]
CreateTransactionBuffer(stage, creator, args) ==
    LET e == Extracted("creator", Some(creator))
    IN  After(e.assertions, <<GetTransactionBufferCreateInstruction(
            e.accounts
            @@ [settings          |-> Plain(stage.settings),
                transactionBuffer |-> Plain(stage.transactionBufferAddress),
                payer             |-> Signing(stage.payer)],
            args @@ [secp256r1VerifyArgs |-> e.verifyArgs], <<>>)>>)

ExtendTransactionBuffer(stage, bytes) ==
    GetTransactionBufferExtendInstruction(
        [settings          |-> Plain(stage.settings),
         transactionBuffer |-> Plain(stage.transactionBufferAddress)],
        [buffer |-> bytes], <<>>)

VoteTransactionBuffer(stage, voter) ==
    LET e == Extracted("voter", Some(voter))
    IN  After(e.assertions, <<GetTransactionBufferVoteInstruction(
            e.accounts
            @@ [settings          |-> Plain(stage.settings),
                transactionBuffer |-> Plain(stage.transactionBufferAddress)],
            [secp256r1VerifyArgs |-> e.verifyArgs], <<>>)>>)

ExecuteTransactionBuffer(stage, executor) ==
    LET e == Extracted("executor", executor)
    IN  After(e.assertions, <<GetTransactionBufferExecuteInstruction(
            e.accounts
            @@ [settings          |-> Plain(stage.settings),
                transactionBuffer |-> Plain(stage.transactionBufferAddress)],
            [secp256r1VerifyArgs |-> e.verifyArgs], <<>>)>>)

\* The payer is the account that paid for the buffer; it need not sign.
CloseTransactionBuffer(stage, closer) ==
    LET e == Extracted("closer", Some(closer))
    IN  After(e.assertions, <<GetTransactionBufferCloseInstruction(
            e.accounts
            @@ [settings          |-> Plain(stage.settings),
                transactionBuffer |-> Plain(stage.transactionBufferAddress),
                payer             |-> Plain(stage.payer)],
            [secp256r1VerifyArgs |-> e.verifyArgs], <<>>)>>)

\* The number of a transfer among the instructions of the system program.
TransferSol == 2

AddJitoTip(payer) ==
    [program  |-> SystemProgram,
     accounts |-> <<Meta(payer, TRUE, TRUE), Meta(TipAccount, FALSE, TRUE)>>,
     data     |-> <<TransferSol>>]

ExecuteTransaction(stage, bytes, table, additional, assertions, tip) ==
    After(assertions, <<GetTransactionExecuteInstruction(
        [settings          |-> Plain(stage.settings),
         transactionBuffer |-> Plain(stage.transactionBufferAddress),
         payer             |-> Plain(stage.payer)], <<>>,
        AccountsForExecute(MessageIn(bytes), table, additional))>>)
    \o (IF tip THEN <<AddJitoTip(stage.payer)>> ELSE <<>>)

\* prepareTransactionBundle: one transaction that creates the buffer, one for each
\* chunk of the message, one with all votes, one that approves and one that
\* executes.  A bundle without an executor is preauthorised.
\* bundle: [payer, settings, bytes, creator, executor, additionalVoters,
\* additionalSigners, assertions, chunkSize (None or Some), bufferIndex, tip]; the code draws
\* the index at random.
ExpectedSignersOf(bundle) ==
    LET dedup == GetDeduplicatedSigners(
                     <<bundle.creator>> \o bundle.executor \o bundle.additionalVoters)
    IN  IF dedup = Refused THEN Refused
        ELSE Mapped(dedup, LAMBDA s : <<ConvertPubkeyToMemberkey(s),
                                        IF s.passkey THEN Some(Hash(s.message)) ELSE None>>)

\* Mutant of ChunksOf: what does not fill a chunk is left out.
ChunksOfWhole(bundle) ==
    LET size == IF bundle.chunkSize = None THEN (Len(bundle.bytes) + 1) \div 2
                ELSE bundle.chunkSize[1]
    IN  [k \in 1..(Len(bundle.bytes) \div size) |->
            SubSeq(bundle.bytes, (k - 1) * size + 1, k * size)]

ChunksOf(bundle) ==
    LET length == Len(bundle.bytes)
        size   == IF bundle.chunkSize = None THEN (length + 1) \div 2 ELSE bundle.chunkSize[1]
        end(k) == IF k * size < length THEN k * size ELSE length
    IN  [k \in 1..((length + size - 1) \div size) |->
            SubSeq(bundle.bytes, (k - 1) * size + 1, end(k))]

PrepareTransactionBundle(bundle, table) ==
    LET chunks == ChunksOf(bundle)
        stage  == [settings |-> bundle.settings, payer |-> bundle.payer,
                   transactionBufferAddress |-> GetTransactionBufferAddress(
                       bundle.settings, KeyOf(bundle.creator), bundle.bufferIndex)]
        votes  == FlattenSeq(Mapped(bundle.additionalVoters,
                                    LAMBDA s : VoteTransactionBuffer(stage, s)))
    IN  IF ExpectedSignersOf(bundle) = Refused THEN Refused
        ELSE <<CreateTransactionBuffer(stage, bundle.creator,
                 [bufferIndex           |-> bundle.bufferIndex,
                  preauthorizeExecution |-> bundle.executor = None,
                  bufferExtendHashes    |-> Mapped(chunks, Hash),
                  finalBufferHash       |-> Hash(bundle.bytes),
                  finalBufferSize       |-> Len(bundle.bytes),
                  expectedSigners       |-> ExpectedSignersOf(bundle)])>>
             \o Mapped(chunks, LAMBDA c : <<ExtendTransactionBuffer(stage, c)>>)
             \o (IF votes = <<>> THEN <<>> ELSE <<votes>>)
             \o <<ExecuteTransactionBuffer(stage, bundle.executor),
                  ExecuteTransaction(stage, bundle.bytes, table, bundle.additionalSigners,
                                     bundle.assertions, bundle.tip)>>

-----------------------------------------------------------------------------
(* Transactions in one instruction. *)

\* executeTransactionSync, with the message's accounts in ExecuteSync.
InOneInstruction(settings, sync) ==
    After(sync.assertions, <<GetTransactionExecuteSyncInstruction(
        [settings |-> Plain(settings)],
        [numSigners            |-> sync.wire.num_signers,
         numWritableSigners    |-> sync.wire.num_writable_signers,
         numWritableNonSigners |-> sync.wire.num_writable_non_signers,
         numAccountKeys        |-> Len(sync.wire.account_keys),
         instructions          |-> sync.wire.instructions,
         addressTableLookups   |-> Mapped(sync.lookups, LAMBDA l :
             <<l.lookup_table_address_index, l.writable, l.readonly>>),
         signers               |-> Mapped(sync.signers, TransactionSyncSigner)],
        sync.remaining)>>)

ExecuteTransactionSync(settings, signers, bytes, table, additional, assertions) ==
    LET with(dedup) ==
            IF dedup = Refused THEN Refused
            ELSE InOneInstruction(settings, ExecuteSync(MessageIn(bytes), table, dedup,
                                                        additional, assertions))
    IN  with(GetDeduplicatedSigners(signers))

\* prepareTransactionSync
PrepareTransactionSync(settings, signers, bytes, table, additional, assertions) ==
    ExecuteTransactionSync(settings, signers, bytes, table, additional, assertions)

NativeTransferIntent(settings, destination, amount, signers) ==
    LET dedup == GetDeduplicatedSigners(signers)
        built == BuildSignerAccounts(dedup, <<>>, <<>>)
    IN  IF dedup = Refused THEN Refused
        ELSE After(built.assertions, <<GetNativeTransferIntentInstruction(
                 [settings    |-> Plain(settings),
                  source      |-> Plain(GetWalletAddressFromSettings(settings)),
                  destination |-> Plain(destination)],
                 [amount |-> amount, signers |-> Mapped(built.signers, TransactionSyncSigner)],
                 built.packed)>>)

TokenTransferIntent(settings, destination, mint, amount, signers, tokenProgram, payer) ==
    LET dedup  == GetDeduplicatedSigners(signers)
        built  == BuildSignerAccounts(dedup, <<>>, <<>>)
        wallet == GetWalletAddressFromSettings(settings)
        token(owner) == Plain(TokenAccount(owner, tokenProgram, mint))
    IN  IF dedup = Refused THEN Refused
        ELSE After(built.assertions, <<GetTokenTransferIntentInstruction(
                 [settings     |-> Plain(settings),
                  payer        |-> Signing(payer),
                  source       |-> Plain(wallet),
                  sourceSplTokenAccount      |-> token(wallet),
                  destination  |-> Plain(destination),
                  destinationSplTokenAccount |-> token(destination),
                  tokenProgram |-> Plain(tokenProgram),
                  mint         |-> Plain(mint)],
                 [amount |-> amount, signers |-> Mapped(built.signers, TransactionSyncSigner)],
                 built.packed)>>)
=============================================================================
