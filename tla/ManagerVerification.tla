------------------------- MODULE ManagerVerification -------------------------
(***************************************************************************)
(* What a transaction manager does with a transaction before it adds its   *)
(* signature (packages/transaction-manager/src: verify-transaction.ts,     *)
(* processors, utils/transaction-parsing.ts).  It decompiles the           *)
(* transaction, rejects whatever it does not know, and reports for each    *)
(* instruction of the wallet program what will be executed and who signs.  *)
(*                                                                         *)
(* It reads the accounts of an instruction by numbers of its own, and the  *)
(* assertions of passkeys by their order and not by their offsets: the     *)
(* report is worth as much as these agree with the program's reading.      *)
(*                                                                         *)
(* An answer of a passkey's owner comes as [messageHash, genuine]; genuine *)
(* stands for the checks of its challenge, its deadline and the signatures *)
(* of client and device, which have no state.                              *)
(***************************************************************************)
EXTENDS ClientInstructions

CONSTANTS
    ManagerKey, ManagerUrl,         \* the manager's configuration
    ComputeBudgetProgram, MemoProgram

WhitelistedPrograms ==
    {ComputeBudgetProgram, SystemProgram, MultiWallet, Secp256r1Program, MemoProgram}

\* The number of this instruction of the system program.
AdvanceNonceAccount == 4

-----------------------------------------------------------------------------
(* Messages and signers. *)

\* decompileTransactionMessage, of the message of a buffer: static accounts, all
\* writable loaded ones, all readonly loaded ones.
Decompiled(message, table) ==
    LET loaded(l, indexes, writable) ==
            Mapped(indexes, LAMBDA i : Meta(Nth(table[l.table], i), FALSE, writable))
        metas == [i \in DOMAIN message.staticAccounts |->
                     Meta(message.staticAccounts[i], SignerIndex(message, i - 1),
                          StaticWritableIndex(message, i - 1))]
                 \o FlattenSeq(Mapped(message.lookups, LAMBDA l : loaded(l, l.writable, TRUE)))
                 \o FlattenSeq(Mapped(message.lookups, LAMBDA l : loaded(l, l.readonly, FALSE)))
    IN  Mapped(message.instructions, LAMBDA ix :
            [program  |-> Nth(metas, ix.program).address,
             accounts |-> Mapped(ix.accounts, LAMBDA i : Nth(metas, i))])

\* A signer with the hash of the message that a passkey signed.
SignerInfo(key, messageHash) == [signer |-> key, messageHash |-> messageHash]

IsPasskey(info) == info.signer[1] = 1

\* getSecp256r1Signers: from the instruction before, if that verifies assertions.
Secp256r1SignersIn(payload, signers) ==
    LET at(s) == s[2][1][1] + 1
    IN  Mapped(SelectSeq(signers, LAMBDA s : s[1] = 1), LAMBDA s :
            IF at(s) \in DOMAIN payload
            THEN SignerInfo(<<1, payload[at(s)].publicKey>>, Some(Hash(payload[at(s)].message)))
            ELSE Refused)

GetSecp256r1Signers(tx, i, signers) ==
    IF i = 1 \/ tx[i - 1].program # Secp256r1Program THEN <<>>
    ELSE Secp256r1SignersIn(Secp256r1VerifyPayload(tx[i - 1].data), signers)

\* Mutant of AddressSigners: the fixed accounts are counted in.
AddressSignersFromStart(ix, signers, numFixedAccounts) ==
    Mapped(SelectSeq(signers, LAMBDA s : s[1] = 0), LAMBDA s :
        IF s[2] + 1 \in DOMAIN ix.accounts
        THEN SignerInfo(<<0, Nth(ix.accounts, s[2]).address>>, None) ELSE Refused)

\* The other signers, among the accounts after the fixed ones.
AddressSigners(ix, signers, numFixedAccounts) ==
    Mapped(SelectSeq(signers, LAMBDA s : s[1] = 0), LAMBDA s :
        IF numFixedAccounts + s[2] + 1 \in DOMAIN ix.accounts
        THEN SignerInfo(<<0, Nth(ix.accounts, numFixedAccounts + s[2]).address>>, None)
        ELSE Refused)

SignersIn(tx, i, signers, numFixedAccounts) ==
    GetSecp256r1Signers(tx, i, signers) \o AddressSigners(tx[i], signers, numFixedAccounts)

MapExpectedSigners(expectedSigners) ==
    Mapped(expectedSigners, LAMBDA x :
        IF x[1][1] = 1 /\ x[2] = None THEN Refused
        ELSE SignerInfo(x[1], IF x[1][1] = 1 THEN x[2] ELSE None))

\* verifyAndParseSigners: every passkey has a genuine answer for what it signed, no
\* answer is left over, and the manager is one of the signers.
VerifyAndParseSigners(instructions, settings, signers, authResponses) ==
    LET passkeys == SelectSeq(signers, IsPasskey)
        matching(info) == SelectSeq(authResponses[1],
                              LAMBDA x : Some(x.messageHash) = info.messageHash)
    IN  IF \/ Refused \in ToSet(signers)
           \/ authResponses = None
           \/ Len(passkeys) # Len(authResponses[1])
           \/ ~Contains(Mapped(signers, LAMBDA s : s.signer), <<0, ManagerKey>>)
           \/ \E p \in ToSet(passkeys) : matching(p) = <<>> \/ ~matching(p)[1].genuine
        THEN Refused
        ELSE Some([instructions  |-> instructions,
                   signers       |-> signers,
                   walletAddress |-> GetWalletAddressFromSettings(settings)])

-----------------------------------------------------------------------------
(* Processors.  What they return is None when there is nothing to report. *)

ProcessChangeConfig(tx, i, authResponses) ==
    LET args == Decoded(ChangeConfigData, tx[i].data)
    IN  VerifyAndParseSigners(<<tx[i]>>, tx[i].accounts[1].address,
                              SignersIn(tx, i, args.signers, 5), authResponses)

ProcessTransferIntent(tx, i, authResponses) ==
    LET native == tx[i].data[1] = NativeTransferIntentData.discriminator
        args   == Decoded(IF native THEN NativeTransferIntentData ELSE TokenTransferIntentData,
                          tx[i].data)
    IN  VerifyAndParseSigners(<<tx[i]>>, tx[i].accounts[1].address,
                              SignersIn(tx, i, args.signers, IF native THEN 6 ELSE 18),
                              authResponses)

ProcessCreateUserAccount(ix) ==
    LET parsed == ParseCreateUserAccountInstruction(ix)
    IN  IF \/ parsed = Refused
           \/ parsed.accounts.member.address # ManagerKey
           \/ parsed.args.transactionManagerUrl # Some(ManagerUrl)
        THEN Refused ELSE None

ProcessEditTransactionManagerUrl(ix) ==
    LET parsed == ParseEditTransactionManagerUrlInstruction(ix)
    IN  IF \/ parsed = Refused
           \/ parsed.accounts.signer.address # ManagerKey
           \/ parsed.args.transactionManagerUrl # ManagerUrl
        THEN Refused ELSE None

\* validateTransactionManagerAccountRole, of its first mention.
ReadonlySigner(ix) ==
    LET mentions == SelectSeq(ix.accounts, LAMBDA m : m.address = ManagerKey)
    IN  mentions = <<>> \/ (mentions[1].signer /\ ~mentions[1].writable)

\* The bytes are those that the buffer will hold, by their hash.
ProcessBufferCreate(ix, bytes, authResponses, table) ==
    LET args == Decoded(TransactionBufferCreateData, ix.data)
    IN  IF ~ReadonlySigner(ix) \/ bytes = None \/ args.finalBufferHash # Hash(bytes[1])
        THEN Refused
        ELSE VerifyAndParseSigners(Decompiled(MessageIn(bytes[1]), table),
                                   ix.accounts[1].address,
                                   MapExpectedSigners(args.expectedSigners), authResponses)

ProcessExecuteSync(tx, i, authResponses) ==
    LET args  == Decoded(TransactionExecuteSyncData, tx[i].data)
        inner == ParsedInner(AddressesIn(tx[i].accounts), args.addressTableLookups,
                             args.instructions)
    IN  IF ~ReadonlySigner(tx[i]) \/ inner = Refused THEN Refused
        ELSE VerifyAndParseSigners(inner, tx[i].accounts[1].address,
                                   SignersIn(tx, i, args.signers, AccountsOffset), authResponses)

-----------------------------------------------------------------------------
\* routeInstruction, by the number of the instruction.
RouteInstruction(tx, i, bytes, authResponses, table) ==
    LET is(layout) == tx[i].data[1] = layout.discriminator
    IN  CASE is(TransactionBufferCloseData) -> None
          [] is(ChangeConfigData)           -> ProcessChangeConfig(tx, i, authResponses)
          [] is(CreateUserAccountData)      -> ProcessCreateUserAccount(tx[i])
          [] is(EditTransactionManagerUrlData) -> ProcessEditTransactionManagerUrl(tx[i])
          [] is(NativeTransferIntentData) \/ is(TokenTransferIntentData) ->
                 ProcessTransferIntent(tx, i, authResponses)
          [] is(TransactionBufferCreateData) ->
                 ProcessBufferCreate(tx[i], bytes, authResponses, table)
          [] is(TransactionExecuteSyncData) -> ProcessExecuteSync(tx, i, authResponses)
          [] OTHER                          -> Refused

ProcessInstruction(tx, i, bytes, authResponses, table) ==
    LET program == tx[i].program
    IN  CASE program \notin WhitelistedPrograms -> Refused
          [] program = SystemProgram ->
                 IF tx[i].data[1] = AdvanceNonceAccount THEN None ELSE Refused
          [] program \in WhitelistedPrograms \ {SystemProgram, MultiWallet} -> None
          [] program = MultiWallet -> RouteInstruction(tx, i, bytes, authResponses, table)

\* verifyTransaction: one instruction that is refused refuses all.  Decompiling
\* gives an account the same role wherever the transaction mentions it.
VerifyTransaction(tx, bytes, authResponses, table) ==
    LET mentions   == UNION {ToSet(tx[j].accounts) : j \in DOMAIN tx}
        decompiled == Mapped(tx, LAMBDA ix :
                          [ix EXCEPT !.accounts = RightsAmong(mentions, ix.accounts)])
        all(results) == IF Refused \in ToSet(results) THEN Refused ELSE FlattenSeq(results)
    IN  all([i \in DOMAIN tx |->
                ProcessInstruction(decompiled, i, bytes, authResponses, table)])
=============================================================================
