------------------------------ MODULE MCClient ------------------------------
(***************************************************************************)
(* The client, the program and the manager on the same bytes.  Messages    *)
(* for the vault are put together step by step, from instructions and      *)
(* lookup tables; each is compiled, packed or staged, executed and read.   *)
(* Transactions are put together from requests, each with what its caller  *)
(* means; the program and the manager take them apart again.               *)
(***************************************************************************)
EXTENDS ManagerVerification

CONSTANTS
    A, B, P, Q,     \* accounts and programs that the vault's instructions use
    T1, T2,         \* lookup tables
    S,              \* an Ed25519 member of the wallet, the transaction manager
    E,              \* another Ed25519 member
    K, L,           \* passkeys
    Payer,          \* who pays
    Authority, Admin, Destination, Mint, Token2022,
    MaxInstructions, MaxTables, MaxRequests

VARIABLES
    instructions,   \* what the vault is to execute
    tables,         \* the lookup tables given, in the order of the record
    contents,       \* what they hold
    signers,        \* who authorises it: members and passkeys
    requests        \* the requests in the transaction

vars == <<instructions, tables, contents, signers, requests>>

Settings    == <<"multi_wallet", 1>>
MCVault     == <<"multi_wallet", Settings, "vault">>
MCTokenPrograms == {TokenProgram, Token2022}
MCAddresses == {Vault, A, B, P, Q, S, T1, T2}

Program == INSTANCE ProgramAccounts WITH TokenPrograms <- MCTokenPrograms, BufferPayer <- Payer

ProgramOf(i) == IF i = 1 THEN P ELSE Q
Seconds  == {Meta(B, FALSE, TRUE), Meta(B, FALSE, FALSE), Meta(A, FALSE, FALSE),
             Meta(T1, FALSE, FALSE), Meta(Payer, FALSE, TRUE)}
Firsts   == {Meta(Vault, TRUE, TRUE), Meta(A, FALSE, TRUE), Meta(S, TRUE, FALSE),
             Meta(S, FALSE, TRUE)}
Contents == {<<A>>, <<B, A>>, <<P, B>>, <<Payer, T1>>}

\* Members; the passkeys' messages differ in length.
Member(a) == [passkey |-> FALSE, account |-> a]
Passkey(k, size) ==
    [passkey |-> TRUE, key |-> k, account |-> <<"domain_config", "rp">>, signature |-> k,
     message |-> [rpId |-> "rp", of |-> k], size |-> size, args |-> <<1, 0, FALSE, "json", k>>]
PasskeyK == Passkey(K, 100)
PasskeyL == Passkey(L, 120)

NoContents == [t \in {T1, T2} |-> <<>>]

-----------------------------------------------------------------------------
(* Requests: instructions, and what they mean to the program. *)

Asks(ixs, accounts, args, by) ==
    [ixs |-> ixs, accounts |-> accounts, args |-> args,
     signers |-> Mapped(by, ConvertPubkeyToMemberkey)]

User(k)     == <<"user", k>>
Wallet(i)   == <<"multi_wallet", i>>
If(name, option) == IF option = None THEN <<>> ELSE name :> option[1]
Role(name, s)    == IF s.passkey THEN "domain_config" :> s.account ELSE name :> s.account
Assertion(s)     == IF s.passkey THEN Some(VerifyArgs(s, 0)) ELSE None

\* The same request through a builder and through the variant that derives the
\* addresses left out.
AsksBoth(ixs, accounts, args, by) ==
    [k \in DOMAIN ixs |-> Asks(<<ixs[k]>>, accounts, args, by)]

RegistryRequests ==
    <<Asks(<<CreateGlobalCounter(Payer)>>,
           [global_counter |-> <<"global_counter">>, payer |-> Payer], <<>>, <<>>),
      Asks(<<DisableDomainConfig(Admin, "rp", TRUE)>>,
           [domain_config |-> <<"domain_config", "rp">>, admin |-> Admin],
           [disable |-> TRUE], <<>>),
      Asks(<<CreateUserAccounts(Payer, [member |-> S, role |-> TransactionManagerRole,
                                        transactionManagerUrl |-> ManagerUrl])>>,
           [payer |-> Payer, member |-> S, user_account |-> User(S)],
           [role |-> 0, transaction_manager_url |-> Some(ManagerUrl)], <<>>)>>
    \o AsksBoth(<<CreateDomainConfig(Payer, Authority, "rp", <<"origin">>),
                  GetCreateDomainConfigInstructionAsync(
                      [payer |-> Signing(Payer), authority |-> Signing(Authority),
                       domainConfig |-> Plain(<<"domain_config", "rp">>)],
                      [rpId |-> "rp", origins |-> <<"origin">>], <<>>)>>,
           [domain_config |-> <<"domain_config", "rp">>, payer |-> Payer,
            authority |-> Authority, user_account |-> User(Authority)],
           [rp_id |-> "rp", origins |-> <<"origin">>], <<>>)
    \o AsksBoth(<<EditTransactionManagerUrl(S, ManagerUrl),
                  GetEditTransactionManagerUrlInstructionAsync(
                      [signer |-> Signing(S)], [transactionManagerUrl |-> ManagerUrl], <<>>)>>,
           [signer |-> S, transaction_manager_account |-> User(S)],
           [transaction_manager_url |-> ManagerUrl], <<>>)
    \o AsksBoth(<<CreateUserAccounts(Payer, [member |-> E, role |-> 3]),
                  GetCreateUserAccountInstructionAsync(
                      [payer |-> Signing(Payer), member |-> Signing(E)],
                      [role |-> 3, transactionManagerUrl |-> None], <<>>)>>,
           [payer |-> Payer, member |-> E, user_account |-> User(E)],
           [role |-> 3, transaction_manager_url |-> None], <<>>)
    \o AsksBoth(<<CreateWallet(2, Payer, E),
                  GetCreateWalletInstructionAsync(
                      [payer |-> Signing(Payer), initialMember |-> Signing(E)],
                      [settingsIndex |-> 2], <<>>)>>,
           [payer |-> Payer, initial_member |-> E, global_counter |-> <<"global_counter">>,
            user_account |-> User(E), settings |-> Wallet(2)],
           [settings_index |-> 2], <<>>)
    \o Mapped(<<None, Some(E)>>, LAMBDA new :
        Asks(<<EditDomainConfig(Authority, <<"domain_config", "rp">>, new, Some(<<"origin">>))>>,
             [domain_config |-> <<"domain_config", "rp">>, authority |-> Authority]
             @@ If("new_authority", new) @@ If("user_account", Mapped(new, User)),
             [new_origins |-> Some(<<"origin">>)], <<>>))
    \o Mapped(<<<<None, None>>, <<Some(Settings), Some(User(S))>>, <<None, Some(User(S))>>>>,
        LAMBDA options :
        Asks(<<CreateDomainUserAccounts(<<"domain_config", "rp">>, Authority, Payer,
                  [member |-> K, role |-> 3, credentialId |-> "id", transports |-> <<0>>,
                   settings |-> options[1], transactionManagerAccount |-> options[2]])>>,
             [payer |-> Payer, domain_config |-> <<"domain_config", "rp">>, authority |-> Authority,
              user_account |-> User(K)]
             @@ If("settings", options[1]) @@ If("transaction_manager_account", options[2]),
             [member |-> K, role |-> 3, credential_id |-> "id", transports |-> <<0>>], <<>>))

WalletRequests ==
    FlattenSeq(Mapped(<<<<None, Some(1)>>, <<Some(1), Some(2)>>, <<Some(1), None>>>>, LAMBDA d :
        Mapped(<<Member(E), PasskeyK>>, LAMBDA user :
            Asks(EditUserDelegate(Payer, user, d[1], d[2]),
                 [fee_payer |-> Payer, user_account |-> User(KeyOf(user))] @@ Role("signer", user)
                 @@ If("old_settings", Mapped(d[1], Wallet))
                 @@ If("new_settings", Mapped(d[2], Wallet)),
                 [delegate_to |-> d[2], secp256r1_verify_args |-> Assertion(user)], <<user>>))))
    \o FlattenSeq(Mapped(
        <<<<[type |-> "SetThreshold", threshold |-> 2]>>,
          <<[type |-> "AddMembers", members |-> <<[member |-> PasskeyL,
                permissions |-> [initiate |-> TRUE, vote |-> FALSE, execute |-> TRUE]]>>],
            [type |-> "RemoveMembers", members |-> <<[member |-> Member(E)]>>]>>>>, LAMBDA actions :
        Mapped(<<<<Member(S)>>, <<PasskeyK, Member(S)>>, <<Member(E), Member(S)>>,
                 <<Member(E), Member(E)>>>>, LAMBDA by :
            Asks(ChangeConfig(by, Payer, PrepareChangeConfigArgs(Settings, actions)),
                 [settings |-> Settings, payer |-> Payer],
                 [config_actions |->
                    IF Len(actions) = 1 THEN <<<<3, 2>>>>
                    ELSE <<<<1, <<<<<<1, L>>, <<5>>>>>>>>, <<2, <<<<<<0, E>>>>>>>>>>],
                 FirstOnly(by)))))

\* A stage of the message without instructions.
NoBytes == BytesOf(Serialized(Compiled(<<>>, <<>>, NoContents)), 3)
Stage(s) == [settings |-> Settings, payer |-> Payer,
             transactionBufferAddress |-> GetTransactionBufferAddress(Settings, KeyOf(s), 7)]
BufferOf(s) == <<"multi_wallet", Settings, "transaction_buffer", KeyOf(s), 7>>
Staged(s)   == [settings |-> Settings, transaction_buffer |-> BufferOf(s)]

BufferRequests(bytes) ==
    LET args(expected) ==
            [bufferIndex |-> 7, preauthorizeExecution |-> FALSE,
             bufferExtendHashes |-> <<Hash(bytes)>>, finalBufferHash |-> Hash(bytes),
             finalBufferSize |-> 3, expectedSigners |-> expected]
        expectedSets(s) == <<<<<<<<0, S>>, None>>>>,
                             <<<<<<0, S>>, None>>, <<<<1, K>>, Some(Hash(PasskeyK.message))>>>>>>
    IN  FlattenSeq(Mapped(<<Member(S), PasskeyK>>, LAMBDA s :
            Mapped(expectedSets(s), LAMBDA expected :
                Asks(CreateTransactionBuffer(Stage(s), s, args(expected)),
                     Staged(s) @@ [payer |-> Payer] @@ Role("creator", s),
                     [buffer_index |-> 7, final_buffer_size |-> 3, expected_signers |-> expected,
                      final_buffer_hash |-> Hash(bytes), secp256r1_verify_args |-> Assertion(s)],
                     <<s>>))
            \o <<Asks(VoteTransactionBuffer(Stage(Member(E)), s),
                      Staged(Member(E)) @@ Role("voter", s),
                      [secp256r1_verify_args |-> Assertion(s)], <<s>>),
                 Asks(ExecuteTransactionBuffer(Stage(s), Some(s)), Staged(s) @@ Role("executor", s),
                      [secp256r1_verify_args |-> Assertion(s)], <<s>>),
                 Asks(CloseTransactionBuffer(Stage(s), s),
                      Staged(s) @@ [payer |-> Payer] @@ Role("closer", s),
                      [secp256r1_verify_args |-> Assertion(s)], <<s>>)>>))
        \o <<Asks(ExecuteTransactionBuffer(Stage(Member(S)), None), Staged(Member(S)),
                  [secp256r1_verify_args |-> None], <<>>),
             Asks(<<ExtendTransactionBuffer(Stage(Member(S)), bytes)>>, Staged(Member(S)),
                  [buffer |-> bytes], <<>>),
             Asks(ExecuteTransaction(Stage(Member(S)), bytes, NoContents, <<>>, <<>>, FALSE),
                  Staged(Member(S)) @@ [payer |-> Payer], <<>>, <<>>)>>

TransferRequests ==
    FlattenSeq(Mapped(<<<<Member(S)>>, <<PasskeyK, Member(S)>>, <<Member(S), Member(E)>>,
                        <<PasskeyL>>>>, LAMBDA by :
        <<Asks(NativeTransferIntent(Settings, Destination, 5, by),
               [settings |-> Settings, source |-> Vault, destination |-> Destination],
               [amount |-> 5], by)>>
        \o Mapped(<<TokenProgram, Token2022>>, LAMBDA token :
            Asks(TokenTransferIntent(Settings, Destination, Mint, 5, by, token, Payer),
                 [settings |-> Settings, payer |-> Payer, source |-> Vault,
                  source_spl_token_account |-> <<"token_account", Vault, token, Mint>>,
                  destination |-> Destination, mint |-> Mint,
                  destination_spl_token_account |-> <<"token_account", Destination, token, Mint>>],
                 [amount |-> 5], by))))

\* Transfers whose addresses the generated code derives; the member signs in the
\* first remaining account.
DerivedTransfers ==
    LET member == <<Meta(S, TRUE, FALSE)>>
        args   == [amount |-> 5, signers |-> <<<<0, 0>>>>]
    IN  <<Asks(<<GetNativeTransferIntentInstructionAsync(
                    [settings |-> Plain(Settings), destination |-> Plain(Destination)],
                    args, member)>>,
               [settings |-> Settings, source |-> Vault, destination |-> Destination],
               [amount |-> 5], <<Member(S)>>),
          Asks(<<GetTokenTransferIntentInstructionAsync(
                    [settings |-> Plain(Settings), destination |-> Plain(Destination),
                     mint |-> Plain(Mint), payer |-> Signing(Payer)], args, member)>>,
               [settings |-> Settings, payer |-> Payer, source |-> Vault,
                source_spl_token_account |-> <<"token_account", Vault, TokenProgram, Mint>>,
                destination |-> Destination, mint |-> Mint,
                destination_spl_token_account |->
                    <<"token_account", Destination, TokenProgram, Mint>>],
               [amount |-> 5], <<Member(S)>>)>>

Requests == ToSet(RegistryRequests \o WalletRequests \o BufferRequests(NoBytes)
                  \o TransferRequests \o DerivedTransfers)

-----------------------------------------------------------------------------
Init ==
    /\ instructions = <<>>
    /\ tables = <<>>
    /\ contents = NoContents
    /\ signers \in {<<Member(S)>>, <<PasskeyK, Member(S)>>}
    /\ requests = <<>>

AddInstruction ==
    /\ Len(instructions) < MaxInstructions /\ requests = <<>>
    /\ \E f \in Firsts, s \in Seconds :
          instructions' = Append(instructions,
              Instruction(ProgramOf(Len(instructions) + 1), <<f, s>>))
    /\ UNCHANGED <<tables, contents, signers, requests>>

AddTable ==
    /\ Len(tables) < MaxTables /\ requests = <<>>
    /\ \E t \in {T1, T2} \ ToSet(tables), c \in Contents :
          /\ tables' = Append(tables, t)
          /\ contents' = [contents EXCEPT ![t] = c]
    /\ UNCHANGED <<instructions, signers, requests>>

Additional == SetToSeq(SignersOf(instructions) \ {Vault})
Message    == Compiled(instructions, tables, contents)
Sync       == ExecuteSync(Message, contents, signers, Additional, <<>>)
MessageBytes == BytesOf(Serialized(Message), 3)

\* No lookup table is itself an account of the message and no Ed25519 member is
\* listed in it without its signature.
Packable ==
    LET named   == ToSet(KeysOf(instructions))
        members == {s.account : s \in {x \in ToSet(signers) : ~x.passkey}}
    IN  named \cap {T1, T2} = {} /\ members \cap named \subseteq SignersOf(instructions)

\* The message in one instruction, after the assertions that belong to the caller.
SyncRequest(assertions) ==
    Asks(ExecuteTransactionSync(Settings, signers, MessageBytes, contents, Additional, assertions),
         [settings |-> Settings], [num_signers |-> Cardinality(SignersOf(instructions))], signers)

AddRequest ==
    /\ Len(requests) < MaxRequests
    /\ instructions = <<>> /\ tables = <<>>
    /\ \E r \in Requests : requests' = Append(requests, r)
    /\ signers' = <<>>          \* requests bring their own
    /\ UNCHANGED <<instructions, tables, contents>>

AddSyncRequest ==
    /\ requests = <<>> /\ Len(instructions) <= 1 /\ Len(tables) <= 1 /\ Packable
    /\ \E assertions \in {<<>>, <<PasskeyL>>} : requests' = <<SyncRequest(assertions)>>
    /\ UNCHANGED <<instructions, tables, contents, signers>>

Next == AddInstruction \/ AddTable \/ AddRequest \/ AddSyncRequest
Spec == Init /\ [][Next]_vars

-----------------------------------------------------------------------------
\* What the author wrote, each account with the rights that some instruction
\* of the message asks for it.
Written ==
    Mapped(instructions, LAMBDA ix :
        [program  |-> ix.program,
         accounts |-> Mapped(AddressesIn(ix.accounts), LAMBDA a :
             Meta(a, a \in SignersOf(instructions), a \in WritablesOf(instructions)))])

WrittenAddresses ==
    Mapped(instructions, LAMBDA ix :
        [program |-> ix.program, accounts |-> AddressesIn(ix.accounts)])

\* What a staged message may not write to: the buffer and its payer.
Protected == {BufferOf(Member(S)), Payer}

\* The vault is an address that the program derives: no key signs for it, and
\* its seeds are no buffer's.
ASSUME VaultIsDerived == Vault \notin Protected

\* A member signs with a key of its own: not for an address that a program derives,
\* be it the vault, a lookup table or the configuration of a domain.
ASSUME MemberHasKey == S \notin {Vault, T1, T2, <<"domain_config", "rp">>}

\* The programs that the vault calls are accounts.
ASSUME ProgramsAreAddresses == {P, Q} \subseteq Addresses

\* A buffer that holds the client's bytes executes exactly the instructions the
\* client compiled, with no account moved, added or given other rights: the
\* client's and the program's counts of positions agree through any number of
\* lookup tables (CompiledKeys against ExecutableTransactionMessage).  Only a
\* message that writes to the payer of the buffer is refused, wherever its table
\* puts that account.
BufferRunsWhatWasWritten ==
    Executed(Serialized(Message), AccountsForExecute(Message, contents, Additional), contents,
             Protected)
        = IF Protected \cap WritablesOf(instructions) = {} THEN Written ELSE Refused

\* The packed form, which drops repeated addresses, runs what was written or
\* nothing: a shifted account is never executed, not even when only Ed25519
\* members, who do not sign the message's bytes, authorise it.  It does run
\* whenever no lookup table is itself an account of the message and no Ed25519
\* member is listed in it without its signature (PackedAccounts.insertOrGet keeps
\* the first rights that an address was given).
PackedRunsWhatWasWritten ==
    ExecutedSync(Sync, contents, Serialized(Message))
        \in {Written} \cup (IF Packable THEN {} ELSE {Refused})

\* What the manager reads in the packed message, and whether it runs.
ManagerReading(sync) ==
    ParsedInner(<<Settings, SlotHashesSysvar, InstructionsSysvar>> \o AddressesIn(sync.remaining),
                sync.lookups, sync.wire.instructions)

ReadAsItRuns(sync) ==
    ExecutedSync(sync, contents, Serialized(Message)) # Refused
        => ManagerReading(sync) = WrittenAddresses

\* The manager reads the instructions that will run: with their rights in the
\* bytes of a buffer (parseTransactionMessageBytes), and in a packed message with
\* one lookup table at most (parseInnerTransaction).
ManagerReadsMessages ==
    /\ Decompiled(MessageIn(MessageBytes), contents) = Written
    /\ Len(Message.lookups) <= 1 => ReadAsItRuns(Sync)

\* The manager reads the instructions that will run, in every packed message.
ManagerReadsWhatRuns == ReadAsItRuns(Sync)

-----------------------------------------------------------------------------
\* The transaction, after an instruction that every client puts first.
Tx == <<[program |-> ComputeBudgetProgram, accounts |-> <<>>, data |-> <<2>>]>>
      \o FlattenSeq(Mapped(requests, LAMBDA r : r.ixs))

\* Where the instruction of request j is: after its assertions.
Place(j) == 1 + SumOf(Mapped(SubSeq(requests, 1, j), LAMBDA r : Len(r.ixs)))

\* What the program finds in the transaction's instructions.
Reading(tx) == [i \in DOMAIN tx |-> IF tx[i].program = MultiWallet THEN Program!Understood(tx, i)
                                    ELSE Refused]

AsMeant(found, meant) ==
    /\ found # Refused
    /\ [n \in DOMAIN found.accounts \ DOMAIN Program!Known |-> found.accounts[n]] = meant.accounts
    /\ \A n \in DOMAIN meant.args : found.args[n] = meant.args[n]
    /\ "signers" \in DOMAIN found => found.signers = meant.signers

\* Whatever else is in the transaction, the program finds in an instruction the
\* accounts in the roles, the arguments and the members that the caller of the
\* builder meant, and nothing else: builder, generated layout and Accounts struct
\* agree, and each passkey is verified with its own assertion.
UnderstoodAsMeant ==
    LET allAsMeant(read) == \A j \in DOMAIN requests : AsMeant(read[Place(j)], requests[j])
    IN  allAsMeant(Reading(Tx))

-----------------------------------------------------------------------------
(* The generated code: names in the program and in the client. *)

ProgramName ==
    [systemProgram |-> "system_program", slotHashSysvar |-> "slot_hash_sysvar",
     instructionsSysvar |-> "instructions_sysvar", tokenProgram |-> "token_program",
     associatedTokenProgram |-> "associated_token_program", domainConfig |-> "domain_config",
     userAccount |-> "user_account", newAuthority |-> "new_authority",
     globalCounter |-> "global_counter", feePayer |-> "fee_payer",
     transactionManagerAccount |-> "transaction_manager_account",
     oldSettings |-> "old_settings", newSettings |-> "new_settings",
     initialMember |-> "initial_member", transactionBuffer |-> "transaction_buffer",
     sourceSplTokenAccount |-> "source_spl_token_account",
     destinationSplTokenAccount |-> "destination_spl_token_account",
     rpId |-> "rp_id", newOrigins |-> "new_origins", credentialId |-> "credential_id",
     transactionManagerUrl |-> "transaction_manager_url", delegateTo |-> "delegate_to",
     secp256r1VerifyArgs |-> "secp256r1_verify_args", settingsIndex |-> "settings_index",
     configActions |-> "config_actions", bufferIndex |-> "buffer_index",
     preauthorizeExecution |-> "preauthorize_execution", finalBufferHash |-> "final_buffer_hash",
     bufferExtendHashes |-> "buffer_extend_hashes", finalBufferSize |-> "final_buffer_size",
     expectedSigners |-> "expected_signers", numSigners |-> "num_signers",
     numWritableSigners |-> "num_writable_signers", numAccountKeys |-> "num_account_keys",
     numWritableNonSigners |-> "num_writable_non_signers",
     addressTableLookups |-> "address_table_lookups"]

Renamed(n) == IF n \in DOMAIN ProgramName THEN ProgramName[n] ELSE n

SameReading(parsed, found) ==
    /\ parsed # Refused
    /\ {Renamed(n) : n \in DOMAIN parsed.accounts} = DOMAIN found.accounts
    /\ {Renamed(n) : n \in DOMAIN parsed.args} = DOMAIN found.args
    /\ \A n \in DOMAIN parsed.accounts :
          parsed.accounts[n].address = found.accounts[Renamed(n)]
    /\ \A n \in DOMAIN parsed.args : parsed.args[n] = found.args[Renamed(n)]

\* What the generated parser reads in an instruction is what the program makes of
\* it, by name: an indexer or a manager that uses it is not misled about a role.
ParsersAgree ==
    LET agree(tx, read) == SameReading(ParseMultiWalletInstruction(tx[Len(tx)]), read[Len(tx)])
    IN  Len(requests) = 1 => agree(Tx, Reading(Tx))

-----------------------------------------------------------------------------
(* Bundles. *)

\* Bundles for the bytes of a message.
Bundles(bytes) ==
    LET bundle(creator, executor, voters, size) ==
            [payer |-> Payer, settings |-> Settings, bytes |-> bytes, creator |-> creator,
             executor |-> executor, additionalVoters |-> voters, additionalSigners |-> Additional,
             assertions |-> <<>>, chunkSize |-> size, bufferIndex |-> 7, tip |-> TRUE]
    IN  {bundle(Member(S), None, <<>>, None),
         bundle(Member(S), None, <<PasskeyL>>, Some(1)),
         bundle(PasskeyK, Some(Member(S)), <<>>, Some(2)),
         bundle(PasskeyK, Some(Member(S)), <<Member(E), Member(S)>>, Some(5)),
         bundle(Member(S), Some(Member(S)), <<Member(E)>>, None),
         bundle(Member(S), Some(PasskeyL), <<>>, Some(3))}

BundlesHere == requests = <<>> /\ Len(instructions) <= 1 /\ Len(tables) <= 1

\* The bytes that the program finds in a signed assertion, by the member.
Endorsed(tx, i, found) ==
    LET args == found.args.secp256r1_verify_args
    IN  {[key |-> k, messageHash |->
             IF k[1] = 0 THEN None ELSE Some(Hash(Program!ExtractMessage(tx, i, args[1][1])))] :
             k \in ToSet(found.signers)}

\* The chunks of the message are those that were hashed, in the same buffer.
ChunksFollow(created, chunks, bytes) ==
    /\ \A k \in DOMAIN chunks :
          /\ chunks[k] # Refused
          /\ chunks[k].accounts = [settings |-> Settings,
                                   transaction_buffer |-> created.accounts.transaction_buffer]
          /\ created.args.buffer_extend_hashes[k] = Hash(chunks[k].args.buffer)
    /\ FlattenSeq(Mapped(chunks, LAMBDA c : c.args.buffer)) = bytes
    /\ created.args.final_buffer_hash = Hash(bytes)
    /\ created.args.final_buffer_size = Len(bytes)

\* The instructions at the places given endorse the buffer for the signers expected.
EndorsedAsExpected(txs, read, created, places) ==
    /\ \A p \in places :
          /\ read[p[1]][p[2]] # Refused
          /\ read[p[1]][p[2]].accounts.transaction_buffer = created.accounts.transaction_buffer
    /\ UNION {Endorsed(txs[p[1]], p[2], read[p[1]][p[2]]) : p \in places}
         = {[key |-> x[1], messageHash |-> x[2]] : x \in ToSet(created.args.expected_signers)}

PromiseKept(b, txs, read) ==
    LET created == read[1][Len(txs[1])]
        n       == Len(created.args.buffer_extend_hashes)
    IN  /\ created # Refused
        /\ created.args.preauthorize_execution = (b.executor = None)
        /\ ChunksFollow(created, [k \in 1..n |-> read[1 + k][1]], b.bytes)
        /\ EndorsedAsExpected(txs, read, created,
               {p \in (DOMAIN txs \ ({Len(txs)} \cup 2..(n + 1))) \X (1..4) :
                    p[2] <= Len(txs[p[1]]) /\ txs[p[1]][p[2]].program = MultiWallet})

\* A bundle keeps what its first transaction declares: as the program reads them,
\* the transactions that follow go to the same buffer, bring the chunks that were
\* hashed and together the whole message, and the members that create, vote for
\* and execute it are exactly the expected signers, each passkey with the message
\* whose hash was declared.  Only a bundle without an executor is preauthorised.
BundleKeepsItsPromise ==
    LET kept(b, txs) == PromiseKept(b, txs, Mapped(txs, Reading))
    IN  BundlesHere =>
            \A b \in Bundles(MessageBytes) : kept(b, PrepareTransactionBundle(b, contents))

\* What an executed buffer runs: the message must leave the buffer and its payer
\* alone.
Ran(found) ==
    Executed(Serialized(Message), found.remaining, contents,
             {found.accounts.transaction_buffer, found.accounts.payer})

\* The last transaction of a bundle executes what the vault was to execute.
StagedRunsWhatWasWritten ==
    LET last(txs) == Program!Understood(txs[Len(txs)], 1)
    IN  BundlesHere /\ instructions # <<>> /\ Payer \notin WritablesOf(instructions) =>
            \A b \in Bundles(MessageBytes) :
                Ran(last(PrepareTransactionBundle(b, contents))) = Written

-----------------------------------------------------------------------------
(* The manager. *)

\* The answers of the passkeys' owners, as the callers of the builders have them.
PasskeysAmong(keys) == SelectSeq(<<PasskeyK, PasskeyL>>, LAMBDA s : <<1, s.key>> \in keys)

Answers(keys) ==
    Some(Mapped(PasskeysAmong(keys), LAMBDA s :
        [messageHash |-> Hash(s.message), genuine |-> TRUE]))

\* The instructions of the program whose signers the manager reports, and who
\* they are for the program; for a buffer, who is to endorse it.
Kind(r)     == r.ixs[Len(r.ixs)].data[1]
Reported(r) == Kind(r) \in {8, 9, 15, 17, 18}
Authorising(tx, i, found) ==
    LET args      == CHOOSE x \in ToSet(found.args.signers) : x[1] = 1
        signed(k) == IF k[1] = 0 THEN None
                     ELSE Some(Hash(Program!ExtractMessage(tx, i, args[2][1][1])))
    IN  IF tx[i].data[1] = 9
        THEN {[signer |-> x[1], messageHash |-> x[2]] : x \in ToSet(found.args.expected_signers)}
        ELSE {[signer |-> k, messageHash |-> signed(k)] : k \in ToSet(found.signers)}

\* What the manager's documentation promises to approve: the manager itself is a
\* member that signs, or its own account is set up.
Approved(r, keys) ==
    \/ Reported(r) /\ <<0, ManagerKey>> \in keys
    \/ Kind(r) = 12
    \/ Kind(r) = 6 /\ r.args = [transaction_manager_url |-> ManagerUrl]
    \/ Kind(r) = 5 /\ r.args.transaction_manager_url = Some(ManagerUrl)

ReportedHere == SelectSeq([j \in DOMAIN requests |-> j], LAMBDA j : Reported(requests[j]))

Report(answers) == VerifyTransaction(Tx, Some(MessageBytes), answers, contents)

\* The report is refused, or names for each instruction those who authorise it.
Truthful(report, authorising) ==
    report # Refused => /\ Len(report) = Len(authorising)
                        /\ \A k \in DOMAIN report : ToSet(report[k].signers) = authorising[k]

TransfersTokens == \E j \in DOMAIN requests : Kind(requests[j]) = 18

\* The manager knows who authorises what the client builds.  It approves a
\* transaction of one request when it should, and whenever it approves one of the
\* client's transactions that transfers no tokens, the signers it reports for each
\* instruction are the members that the program will find there, each passkey with
\* the message that the program will verify: its members stand where it looks for
\* them, and no assertion is taken for another.
ManagerAgrees ==
    LET agrees(authorising, keys) ==
            /\ \A answers \in {Answers(keys), Answers({}), Answers({<<1, L>>})} :
                  Truthful(Report(answers), authorising)
            /\ Len(requests) = 1 /\ Approved(requests[1], keys) => Report(Answers(keys)) # Refused
        with(authorising) ==
            agrees(authorising, {x.signer : x \in UNION ToSet(authorising)})
        found(tx, read) ==
            Mapped(ReportedHere, LAMBDA j : Authorising(tx, Place(j), read[Place(j)]))
    IN  ~TransfersTokens => with(found(Tx, Reading(Tx)))

\* The manager processes transfer intents ("Processes a standard transfer intent
\* instruction (native or token).", transfer-intent.ts): it approves a transfer that
\* it signs itself, and reports the members that the program will find.
ManagerHandlesTransfers ==
    LET found(tx)     == Authorising(tx, Len(tx), Program!Understood(tx, Len(tx)))
        handled(here) ==
            <<0, ManagerKey>> \in {x.signer : x \in here} =>
                \E report \in {Report(Answers({x.signer : x \in here}))} :
                    report # Refused /\ Truthful(report, <<here>>)
    IN  Len(requests) = 1 /\ Kind(requests[1]) \in {17, 18} => handled(found(Tx))
=============================================================================
