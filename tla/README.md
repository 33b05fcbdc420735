# TLA+ development of the Revibase multi-wallet

This directory models, checks and proves parts of the Revibase multi-wallet: a
Solana program (`src/programs/multi_wallet`) for shared wallets whose members
sign with Ed25519 keys or with passkeys, and the TypeScript packages around it
(`src/packages`). Paths below are relative to `src/`; `P/` stands for
`programs/multi_wallet/src/`.

```
tlc   -workers 2 -config Registry.cfg MCWalletRegistry   # one run
tlapm WalletRegistryProofs.tla                           # one proof module
```

`PROJECT.json` lists the components, the runs, a mutant for every checked
property, the source lines behind every definition, the hazards, the findings
and the theorems.

## 1. Inventory

### The program

Every instruction is atomic: a failed requirement undoes all of it. State lives
in accounts.

| Part | State | Operations | What makes it hard | What makes it correct |
|---|---|---|---|---|
| Wallet rules (`P/utils/settings.rs`, `P/state/settings.rs`) | `Settings`: members with role, permissions and delegate flag; threshold; newest accepted slot | add, remove, edit members, set the threshold; `invariant`; the signer rule of `TransactionSyncSigners::verify` | batches of actions, one member touched twice; four roles with rules of their own | after every instruction somebody may initiate, somebody may execute and the threshold can be met |
| Registry (`P/state/user.rs`, `P/instructions/shared`, `P/instructions/admin`) | `GlobalCounter`, `DomainConfig`, `User` with role, domain and list of wallets | create and edit domains, users and wallets; hand a wallet over to a passkey; delegate | membership is recorded twice, in the wallet and in the user account, and written in two passes; one instruction spans three accounts | both records agree; at most one delegated wallet per user; permanent members stay; nobody is locked out |
| Staged transactions (`P/state/transaction_buffer.rs`, `P/instructions/decompressed`) | `TransactionBuffer`: announced hashes, chunks, voters, executor, flags, expiry | create, extend, vote, approve (`transaction_buffer_execute`), run (`transaction_execute`), close | days of interleaving with configuration changes, expiry, re-creation at the same address, steps that need no signature | nothing runs without the votes of enough members for exactly that message, at most once and in time |
| Authorisation in one transaction (`P/utils/transaction_signers.rs`, `transaction_execute_sync.rs`, `intents/`, `change_config.rs`, `edit_user_delegate.rs`) | the wallet's `latest_slot_number`; the SlotHashes sysvar | execute a message, transfer by intent, change the configuration, delegate | a passkey's assertion is public and not bound to a transaction; slots are skipped; intents name no wallet; creations and votes do not check the slot | no assertion is accepted twice by an instruction that checks the slot, whatever else is repeated; members are never refused for good |
| WebAuthn checks (`P/utils/secp256r1_verify_args.rs`) | none | parse the secp256r1 instruction, rebuild the client data, find the slot's hash | byte layouts; a binary search over a table with gaps | accepts exactly the challenge of this action, account, message and slot |
| Inner messages (`P/utils/transaction_message.rs`, `vault_transaction.rs`, `executable_transaction_message.rs`) | none | validate and index accounts, lookup tables, run the instructions by CPI | index arithmetic, order of accounts of several tables | every account an instruction gets is the one that was signed for, with the same rights |
| Space and rent (`P/utils/system.rs`) | lamports | resize | over-funded accounts | the new list fits |

### The packages

| Part | State | Operations | What makes it hard | What makes it correct |
|---|---|---|---|---|
| Popup flow (`packages/lite/src/provider`) | `this.popUp`, and per flow: phase, `settled`, `toreDown`, port, four timers, an abort scope | connect, heartbeat, messages of the popup, the caller's signal, the client's callbacks | every callback may come late, twice, or in the next flow; settling the promise and closing the popup are separate | each caller gets one answer, the true one; the provider is always freed; no flow touches another's popup |
| Lite client (`packages/lite/src/utils`) | per call: the abort scope, the signatures so far, retries and polls | prepare, sign by several parties, send and confirm transactions and bundles, retry | lost answers, one signer of several failing, confirmation polling, aborts | what the user approved leaves whole and together or not at all, and its outcome is reported |
| Request composing (`packages/lite/src/client`), payer cache | a cached payer | build a request from what the caller wants | | |
| Lite server (`packages/lite/src/server`) | none | sign authorisation requests, verify messages | | |
| Transaction manager client (`packages/core/src/utils/transaction/helper.ts`) | the signer's queue; per call: socket, retry budget, approval deadline | open a websocket, wait for approvals, collect signatures, retry, abort | deadline against retry against closing of the socket; a queue of promises of which some reject | calls are served one by one, end, and are given up only for a cause |
| Transaction manager (`packages/transaction-manager`) | none | parse a transaction and decide whether to co-sign | accounts, signers and assertions are found by numbers of its own | what it reports and approves is what the program will do |
| Core SDK (`packages/core/src/instructions`, `transaction`, `utils`) | none | build instructions, compile messages, split them into bundles | indexes into accounts that another text puts in order | what the program understands is what the caller meant |
| Generated client and IDL (`packages/core/src/generated`, `hooked`) | none | layouts, builders, parsers | generated text next to hand-written hooks | agrees with the program's `Accounts` structs and argument types |
| Wallet-standard adapter (`packages/wallet-standard`) | none | forward calls to the lite client | | |

### How they interact

A lite client opens a popup (*popup flow*); the user approves with a passkey,
which yields an assertion over an action, an account, a message and a recent
slot. The *core SDK* makes it either one transaction (*authorisation in one
transaction*) or a bundle create, extend, vote, approve, run (*staged
transactions*). The *lite client* has every transaction signed by the payer's
service and, where the wallet has one, by the *transaction manager*, through the
*manager client*; then it sends and polls. Both paths on the chain read the
*wallet rules* and write the wallet's newest slot; configuration changes and
delegations write the *registry*. Buffers read the settings account but never
lock it: that is where their interleavings come from.

Client, program and manager each take the same bytes apart by a text of their
own. Nothing but the agreement of the three makes an instruction mean what its
author meant, which is what the second half of the modules is about.

## 2. Modules

| Module | Models | State |
|---|---|---|
| `MultisigSettings` | the wallet rules, as operators (`SettingsInvariant`, `AppliedTo`, `VerifySync`, ...) | none |
| `WalletRegistry` | every instruction on the counter, domains, users and wallets | `counter`, `domains`, `users`, `wallets` |
| `TransactionBuffers` | the staged path of one wallet that is reconfigured meanwhile | `settings`, `buffers`, `now`, `history` |
| `Proposals` | what the staged path promises, abstractly | `electorate`, `threshold`, `stage`, `backing` |
| `SlotHashes` | the slot table, the binary search, the slot check, as operators | none |
| `SyncInstructions` | every instruction that accepts passkey assertions, those of buffers included, over several wallets | `slot`, `hashes`, `wallets`, `log` |
| `PopupFlow` | the callbacks of successive flows of one `RevibaseProvider` | `popUp`, `flow` |
| `SigningPromise` | what a manager's signer promises its callers, abstractly | `issued`, `wired`, `cancelled`, `outcome` |
| `ManagerClient` | every callback of that signer: queue, sockets, retries, approvals, both signals | the promise's, and per call `stage`, `socket`, `validTill`, `failures`, `timer`, ... |
| `LiteClient` | a call from an approved request to its confirmation, with the signer as `SigningPromise` has it | `scope`, `phase`, remote call, per transaction `signing`, `payer`; network |
| `WireTypes` | Borsh: what is written with one list of types and read with another | none |
| `VaultMessages` | inner messages: compiled and packed by the client, checked and executed by the program, read by the manager | none |
| `InstructionLayouts` | the generated builders, layouts and parsers | none |
| `ClientInstructions` | the hand-written builders, and the bundles of `prepareTransactionBundle` | none |
| `ProgramAccounts` | `lib.rs`, the `Accounts` structs, the signers and assertions the program finds | none |
| `ManagerVerification` | `verifyTransaction`, its processors and its parsing | none |
| `MCClient` | puts messages and transactions together, step by step, and states what the operators above must agree on | `instructions`, `tables`, `contents`, `signers`, `requests` |
| other `MC*` | instances for TLC: constants only | |
| `ClientProofs` | theorems about `VaultMessages`, and about `MCClient`: what the program runs | |
| `ManagerProofs` | theorems about `VaultMessages`, `ClientInstructions` and `MCClient`: what the manager reads of a message, where assertions are found, what chunks make | |
| other `*Proofs` | theorems about the module of the same name | |

Three groups compose. `WalletRegistry`, `TransactionBuffers` and
`SyncInstructions` extend `MultisigSettings`, so the three speak of the same
members, permissions and invariant. `LiteClient` and `ManagerClient` meet in
`SigningPromise`: the first takes its steps from an instance of it
(`Signer!Answer`, `Signer!GiveUp`, ...), the second is shown to implement it, so
that neither has to be checked against all of the other. `WireTypes`,
`VaultMessages`, `InstructionLayouts`, `ClientInstructions` and
`ManagerVerification` extend one another in this order; `ProgramAccounts` extends
`VaultMessages` and knows nothing of the client's layouts, as in the source, and
`MCClient` brings the two sides together.

`ChangeConfig` appears in three modules: in `WalletRegistry` with both records
and batches of two actions, in `SyncInstructions` with its assertions and one
action, in `TransactionBuffers` as any authorised move between valid settings.
`history`, `log`, `asked` and `sends` are histories, read by no guard other than
`log`'s bound: who signed for what, which assertions were accepted, how often a
signature was asked for, how often the transactions were sent.

### How the code is read

*Accounts.* An account that does not exist is a record of its own (`NoUser`,
`NoSettings`, `NoBuffer`, `NoMember`). A member list is a function from keys,
because no step reads its order; the duplicate check inside a batch is the
`repeated` field of the working copy.

*Instructions.* The guard of an action is the conjunction of the requirements on
its path, in whatever order the code checks them, since a late failure undoes
everything; its update is all the accounts it writes.

*Passkeys.* `WalletRegistry` lets a passkey sign while its domain is enabled.
`TransactionBuffers` lets it present an assertion for the action at hand whose slot
is at most `AssertionLife` old, made for this buffer or for an earlier one with the
same message: an assertion names the wallet, the action and the message, not the
buffer. `SyncInstructions` has the assertions: a passkey may have signed any
challenge over any slot in the table, and whatever was presented once can be
presented again, to the instructions that check the wallet's newest slot and to
those that do not (`BufferEndorsement`).

*Buffers.* Chunks are model values and the hash of a message is the message. A
declared passkey is declared with the one action its assertion is for. The space
of a buffer is counted because a vote that does not fit makes its instruction
fail.

*Callbacks.* In `PopupFlow`, `ManagerClient` and `LiteClient` one action is one
callback of the event loop (a timer, a message, an answer, an abort), with the
promise continuations that run before the next one. A continuation that waits
for several callbacks is an action of its own (`Start`, `Prepared`, `Signed`,
`ManagerRejects`, ...). A cleared timer does not fire.

*The popup.* It sends any message while the port is open. The heartbeat may give
up at any beat, since a sleeping page is late, and must when two beats were not
answered.

*The manager, remote.* It may send any event to any socket at any time, close
it, or be silent for ever. A deadline it names may be any time.

*Remote services.* One that is asked answers, fails, loses its answer or is
silent for ever. Calls that are made side by side are one step.

*Bytes.* A value stands for its bytes and keeps the type it was written with, so
that reading it with another type gives `Refused`; an address stands for its
seeds, a hash for what is hashed. Accounts of an instruction, indexes into them
and offsets of assertions are numbers as in the code. `Refused` is an
instruction that fails; `Undefined` is what lies beyond the end of a JavaScript
array, which is compared, not refused.

## 3. Runs

The instance column names the constants that shape the run; its cfg and MC module
give the rest. Deadlock is checked for the registry and the buffers, which can
always go on. The others stop where the code does: at the last slot, when all
flows or calls are over, when the transaction is as large as it gets.

| Run | Instance | Shows |
|---|---|---|
| `registry` | two wallets, two Ed25519 keys and a passkey, two permission masks, a threshold of 1 that may be raised to 2, three members, one domain, symmetric keys | the records of membership agree (`WalletsMirrorMembers`), one delegated wallet (`OneDelegatedWallet`) that can be revoked (`DelegateNeverStranded`), no wallet is locked (`NeverLockedOut`) or loses a permanent member (`PermanentMemberStays`) |
| `buffers` | buffers of a passkey, three settings, plans with two chunks, a hash too many, a wrong size, an unreachable hash; time limit 1 in 3, assertions live for 2 | an executable buffer is backed (`ApprovalIsBacked`), by votes for its message that are not older than the buffer by more than an assertion lives (`VotesAreEndorsements`), by all declared signers (`ExpectedSignersEndorsed`), unchanged (`ContentFrozen`), and runs once, in time (`RunsOnceInTime`); `TransactionBuffers` implements `Proposals` (`ImplementsProposals`) |
| `sync` | one passkey in two wallets, up to two assertions of it in a list, a table of 3 in 4 slots, three accepted instructions | an assertion is taken once by whatever checks the newest slot, among repeated votes and creations (`AssertionsUsedOnce`); a transfer intent moves to another wallet only behind a delegation to it (`IntentsFollowDelegations`); the search finds exactly the slots of the table (`SearchFindsSlots`); the next block admits all members (`NextBlockUnlocks`) |
| `popup_flows` | two flows, `MaxMissed` 2 | `OwnPopup`, `AnsweredOnce`, `ResultIsTruth`, `OrphanedWorkIsAborted`, `SubmittedOnce`; every flow ends (`FlowEnds`, `ClosedWindowEndsFlow`) |
| `manager_client` | two calls, of one and of two transactions, two attempts, clock up to 2 | calls are served one by one (`ServedInOrder`), given up only with their budget or deadline used up (`GivenUpLate`), stopped by aborts (`AbortStops`), and end (`EndsUnlessSilent`); `ManagerClient` implements `SigningPromise` (`KeepsSigningPromise`) |
| `lite_client` | three transactions, two of them co-signed, three attempts, two polls, both routes | transactions leave whole (`SentWhole`), nobody signs twice (`AskedOnce`), a returned confirmation is one (`ReturnedIsConfirmed`), the call ends (`CallEnds`) |
| `client` | messages of up to two instructions over up to two lookup tables; transactions of up to two requests of every kind | see below |

`client` is about seven statements on what three texts make of the same bytes:

- `BufferRunsWhatWasWritten`: a message that is compiled, stored and executed
  gives every inner instruction the accounts and rights it was written with; only
  one that writes to the payer of the buffer is refused.
- `PackedRunsWhatWasWritten`: so does one that travels packed in one transaction,
  where repeated addresses are dropped.
- `ManagerReadsMessages`: the manager reads from the stored form what will run.
- `UnderstoodAsMeant`: the program finds in a built instruction the accounts,
  arguments and members that the caller meant, each passkey with its own
  assertion, whatever else is in the transaction.
- `ParsersAgree`: the generated parsers read what the program reads, by name.
- `BundleKeepsItsPromise`: the transactions of a bundle bring what the first of
  them declares: chunks, hashes, size, and exactly the expected signers.
- `ManagerAgrees`: the signers a manager reports are those the program finds, and
  it approves what its documentation promises to approve. Transactions with a
  transfer of tokens are left to the run `manager_transfers`.

Five more runs end with a violation of a statement of the repository:

| Run | Statement | What the code does |
|---|---|---|
| `sync_threshold` | `error.rs:108`: enough "members with vote permission" | entries of the signer list are counted, a member listed twice counts twice |
| `popup_abort` | `packages/lite/README.md:15`: "`signal` to abort early" | a signal that aborted before the listener is attached does not end the flow |
| `staged_execution` | `packages/core/README.md:320`: submit the bundle's transactions in order | the last one carries no account of the message: the generated builder drops them (`transactionExecute.ts:144`), and the program refuses it |
| `manager_reads` | `transaction-parsing.ts:206`: parses the inner instructions of a synchronous execution | with two lookup tables it counts accounts in another order than the program (`transaction-parsing.ts:216`) |
| `manager_transfers` | `transfer-intent.ts:19`: processes "a standard transfer intent instruction (native or token)" | a transfer of tokens that the manager signs is refused: its signers are looked for behind eighteen fixed accounts (`transfer-intent.ts:57`), and the instruction has twelve |

### Bounds, and why they are enough

- *Wallets* (`MaxWallets`, 2): a delegation involves two. *Keys* (3): roles other
  than Member are unique in a wallet; three keys put a permanent member, an
  administrator and a plain member next to each other and let one be replaced.
- *Batches of two actions*: actions touch one member or the threshold each, and
  what one leaves for a later one is one member's record; longer batches add no
  new pair.
- `MaxSigners` (2 and 3): as many as thresholds need.
- *Buffers*: one address, used again after it was closed; the proofs cover any
  number. `Configs`: three settings that share one voter, none, and differ in the
  threshold, so that votes become stale and valid again. `MaxTime` 3 against
  `TimeLimit` 1: before, at and after expiry, for a buffer created at 0, 1 or 2.
  `AssertionLife` 2: an assertion of a buffer that has expired counts for the next
  one at the address, and at 3 no longer. `ChunkBytes` 20: chunks small against
  the fixed part of a buffer, so that the room for voters is what runs out.
- *Slots* (`MaxSlot` 4, `TableSize` 3; 2 and 2 in `sync_threshold`): the table
  has gaps and overflows, in the next block as `NextBlockUnlocks` looks ahead, and
  the search goes left and right. `MaxEvents` 3: an intent, the delegation to
  another wallet, the intent again; an assertion, something else, the assertion
  again.
- *Popup flows* (2; 1 in `popup_abort`): one that ended and one under way.
  `MaxMissed` is the code's `HEARTBEAT_INTERVAL * 2`; `submissions` is capped at
  2 by its type because one is the most that may happen.
- *Manager client*: two calls, one waiting for the other; an answer may have too
  few or too many signatures for the second. `Horizon` 2 with delays of 1 and
  time limits of 2: a deadline that passes during an attempt, during a pause and
  not at all. `MaxEvents` 2 bounds only events that change nothing but the
  deadline. No timer is set beyond `Horizon`.
- *Lite client*: three transactions are one that only the payer signs and two
  that wait for each other in the manager's queue. Three attempts: a first, a
  repeated and a last one. Two polls: one that is repeated and the last.
- *Messages*: two instructions make one account appear with different rights and
  as account and program; two tables are what the order of loaded accounts needs;
  each table has at most two entries. A third table or instruction repeats the
  step from one to two.
- *Requests*: every builder alone, and pairs, which put the assertions of one
  request before those of another. *Chunk sizes* 1, 2, 3, 5 and the default, so
  that the last chunk is full, partial, or the only one.

### Fairness

No fairness is assumed of users, callers, popups, managers or remote services.

`PopupFlow` assumes `TimersFire`, weak fairness of the browser's armed timers:
`setTimeout` and `setInterval` callbacks run unless cleared. `CallbacksEnd` says
that the functions the client passes in end with a result or an error. The code
does not bound them itself, so it is not part of the specification: only
`FlowEnds` has it as its premise, and `ClosedWindowEndsFlow`, which is about
callbacks that hang, does not. A flow whose popup stays open and answers pings
while `onSuccessCallback` never ends does not end.

`ManagerClient` assumes that the clock advances (`Tick`), that timers fire
(`ConnectTimesOut`, `Wake`) and that a call whose predecessor is settled goes on
(`Start`). The code sets no limit on reading from an open socket, so
`EndsUnlessSilent` makes an exception of a manager that is silent for ever, and
of the calls queued behind it.

`LiteClient` assumes that timers fire (`Repeat`, `PollAgain`, `RetrySigning`),
that settled promises go on (`ManagerRejects`, `Signed`, `SignaturesMissing`), and
that an aborted signer ends its calls, which is the fairness `SigningPromise` has
and `KeepsSigningPromise` shows of the signer. `CallEnds` makes the exception of
a service that never answers: neither the RPC calls nor the payer's service have
a time limit, and the payer's request is not given the signal.

## 4. Proofs

| Theorem | Says, for every value of the constants |
|---|---|
| `RegistryTypeOK` | type correctness of `WalletRegistry` |
| `RegistryInvariant` | its inductive invariant `IInv` |
| `MembershipMirrored` | `WalletsMirrorMembers` |
| `DelegationIsUnique` | `OneDelegatedWallet` |
| `WalletsStayUsable` | `NeverLockedOut` |
| `DelegationIsRevocable` | `DelegateNeverStranded` |
| `PermanentMembersStay` | `PermanentMemberStays` |
| `SyncTypeOK` | type correctness of `SyncInstructions` |
| `ReplayProtection` | `AssertionsUsedOnce` |
| `IntentsAreFollowed` | `IntentsFollowDelegations` |
| `SearchIsExact` | what the search of the slot hashes returns, for every table in order |
| `SearchAlwaysFinds` | `SearchFindsSlots` |
| `NextBlockAlwaysUnlocks` | `NextBlockUnlocks` |
| `MessagesRunAsWritten` | what the program executes of a compiled message, for every list of instructions and of lookup tables |
| `ClientTypeCorrect` | type correctness of `MCClient`'s messages: instructions, tables and what these hold |
| `BuffersAlwaysRunWhatWasWritten` | `BufferRunsWhatWasWritten` |
| `PackedRunsOrIsRefused` | a message packed in a transaction runs as written or is refused, for every list of instructions |
| `PackedRunsWhenMembersSign` | and it runs if its members sign and no lookup table is one of its accounts |
| `PackedAlwaysRunsWhatWasWritten` | `PackedRunsWhatWasWritten` |
| `ManagerReadsBuffers` | what the manager reads in the bytes of a buffer, for every list of instructions and of lookup tables |
| `ManagerReadsPacked` | and in a packed message that runs and has one lookup table at most |
| `ManagerAlwaysReadsMessages` | `ManagerReadsMessages` |
| `ManagerReadsAssertions` | the manager reads every assertion of an instruction with its own key and message, for every list of assertions |
| `ProgramReadsAssertions` | the program reads the key and the message of each of the first nineteen |
| `ChunksMakeTheMessage` | the chunks of a bundle are the message, in order and whole, for every message and chunk size |
| `BuffersTypeOK`, `BuffersInvariant` | type correctness of `TransactionBuffers`, and its inductive invariant |
| `ApprovalsAreBacked` | `ApprovalIsBacked` |
| `VotesWereCast` | `VotesAreEndorsements` |
| `DeclaredSignersSigned` | `ExpectedSignersEndorsed` |
| `RunsAtMostOnce` | `RunsOnceInTime` |
| `MessageIsFrozen` | `ContentFrozen` |
| `BuffersKeepThePromise` | `ImplementsProposals`: the buffers refine `Proposals` |
| `PopupTypeOK`, `PopupInvariant` | type correctness of `PopupFlow`, and its inductive invariant |
| `PopupIsOwn` | `OwnPopup` |
| `CallersAreAnswered` | `AnsweredOnce` |
| `PopupTellsTheTruth` | `ResultIsTruth` |
| `OrphansAreTold` | `OrphanedWorkIsAborted` |
| `ApprovalsSubmittedOnce` | `SubmittedOnce` |
| `ManagerTypeOK`, `ManagerInvariant` | type correctness of `ManagerClient`, and its inductive invariant |
| `CallsAreServedInOrder` | `ServedInOrder` |
| `CallsAreGivenUpLate` | `GivenUpLate` |
| `AbortsStopCalls` | `AbortStops` |
| `SignerKeepsOrder` | the safety part of `KeepsSigningPromise`: initial states and steps |
| `LiteTypeOK`, `LiteInvariant` | type correctness of `LiteClient`, and its inductive invariant |
| `PayerAskedOnce` | `AskedOnce` |
| `ConfirmationsHold` | `ReturnedIsConfirmed` |
| `BundlesAreSentWhole` | `SentWhole` |

They assume only the named assumptions of the modules: keys are finite and of
one kind each, bounds are numbers, initial wallets satisfy the wallet rules, and
the vault is neither the buffer nor its payer (`VaultIsDerived`): the program
derives it from seeds of its own, and the client's payer signs with a key. Without
the last, a message would be refused whenever it wrote to the vault. A member signs
with a key it holds, so it is not the vault, which is derived, and not the account of
a lookup table or of a domain (`MemberHasKey`): of a member at such an address the
transaction would list an account that cannot sign. The programs that the vault calls
are addresses (`ProgramsAreAddresses`), so none of them is `Undefined`, which the
manager finds beyond the end of its list and refuses.

*The registry.* `WalletsMirrorMembers` is not inductive alone: a wallet at an
address not yet in use could be thought to have members, and a user account could
list two delegated wallets. `IInv` adds that user accounts pass `UserInvariant`
(`UsersValid`), created wallets pass `SettingsInvariant` (`SettingsValid`),
indexes from the counter on are unused (`UnusedWalletsEmpty`) and every passkey's
domain exists (`DomainsExist`). Each conjunct is preserved by a lemma of its own
with one case per instruction; a batch of `change_config` goes through lemmas on
one action (`AppliedToType`) applied twice, with the working copy's
mirror invariant between. Uniqueness of delegation then follows from the user's
own invariant, through the mirror, across wallets no instruction reads together;
`NeverLockedOut` from the wallet's invariant once every listed passkey is known
to have a domain.

*Replay.* `ReplayInv` adds `SlotsRemembered` to the property: every assertion in
the log that is not for a creation or a vote (`TakenOnce`) is over a slot not newer
than what the wallets that accepted it remember. A new one of these is newer than
that, so it is none of the old ones; creations and votes, which the log has as often
as they were presented, have actions of their own and leave the newest slot as it is.
Each instruction is shown to satisfy `Accepts`, the one fact about it the argument
uses. For intents two more conjuncts are needed: a key delegates to at most one
wallet (`OneDelegate`), and whoever delegates to a wallet either did so from the
start or is in the log with that delegation (`IntentsTraced`). Each instruction
`Traces`: it changes delegations only by what it adds to the log.

*The search.* `SlotIndex` is a recursive function on pairs of bounds, as
`fetch_slot_hash` is a loop on them; `SearchIsExact` is an induction on the
distance of the bounds, stated as a set of distances so that the provers need not
instantiate a predicate (`NatLessThanWellFounded`, `WFMin`): the search gives an
index that is between its bounds and has the slot, or `NotFound` if there is none.
All it needs of the table is that slots fall from entry to entry, however many were
skipped between; the type invariant says so of every reachable table.

*Unlocking.* `NextBlockUnlocks` is about a table that does not exist yet. The
invariant `Usable` carries it: every wallet passes `SettingsInvariant`, also in the
middle of a history of delegations and configuration changes. With the type
invariant, by which no wallet remembers the current slot, the hash pushed by the
next block is newer than what the wallet remembers, the search finds it, and all
members together pass `verify`, in whichever order they sign.

*Messages.* `MessagesRunAsWritten` compares two programs that share no code: the
client, which sorts accounts into classes, moves some of them to lookup tables and
replaces addresses by positions (`CompiledKeys`), and the program, which counts
those positions again through the static keys and the entries of all tables
(`ExecutableTransactionMessage`). The lists are of any length, and the operators
are folds, so each is first described by what it does to a list with one more
element (`SumAppend`, `OnlyAppend`, `FirstOnlyAppend`, `FlattenAppend`,
`SignerAppend`, `ExtractAppend`), and what follows by induction over lists
(`SeqInduction`, again on a set). The argument then has four parts:

1. Moving accounts to tables keeps the sum of all keys, moves no signer and no
   program, and records for each table entries at which it really holds the moved
   address (`ExtractionHolds`, an invariant of the fold over the tables).
2. The static keys are writable signers, readonly signers, writable and readonly
   others, and the counts in the header are the lengths of these (`SentIsRight`),
   so a position's rights are those of the address there.
3. The accounts the client appends are, after the lookup tables, the entries in the
   order of the tables, writable before readonly in each (`ListedInOrder`), and the
   program's checks of them pass (`LookupsRight`, `ValidatedHolds`). The client
   counts all writable entries before all readonly ones; that both counts name the
   same account is `CountedAlike`.
4. So each position leads back to the address it stood for, with its rights
   (`KeysFound`, `RunIsWritten`), and the message is refused exactly if some
   instruction writes to a protected account (`OnlyProtectedRefused`).

`BuffersAlwaysRunWhatWasWritten` applies this to every reachable message.

*Packed messages.* A message that travels in one transaction with its members has no
account list of its own: the client lists what the message needs, appends what the
members need, and drops every address it has listed before. So positions can shift,
and the program counts them all the same. There are two cases:

- The places the message names hold different addresses (`DistinctTo`). Then dropping
  repetitions moves none of them (`PackedAsListed`), the list begins as that of a
  staged message does, and the argument above applies (`ListedRuns`).
- An address repeats among them. Then the last of the loaded accounts has moved to an
  earlier place, what the program finds where it counts is not what the table holds
  there, and the message is refused (`MovedIsRefused`).

Each case gives `PackedRunsOrIsRefused`. For the converse: a compiled message names
each account once (`CompiledNamesOnce`), so only a table that is itself an account of
the message can bring the second case about (`ListedOnce`); the members' accounts go
in without moving the message's own, and each member's entry keeps pointing at its
account (`MembersKept`, `EntryRight`), which signs there (`MembersEndorse`).

*What the manager reads.* The manager decides on a third reading of the same message.
Of a buffer it has the bytes and decompiles them with lookup tables that it fetches
itself. It counts as the compiler does, so no account list comes in:
`AccountsReadRight` goes through the static keys and the loaded writable and readonly
accounts and shows that the rights read there are those of the header and the
lookups, `KeysRead` that the address is the compiler's, and `ReadIsWritten` puts both
together. Of a packed message the manager takes what the instruction lists behind its
first accounts, and counts nothing. With one lookup table at most the order of that
list is the order of the count, writable before readonly (`OneTableLoads`); so a list
that has every account where the program looks for it has the accounts of the message
in a row (`ListedInARow`), and one in which an account has moved does not run
(`RunIsListed`, from the two cases above). Whatever runs is read as it runs
(`ManagerReadsPacked`). The bound on tables is needed: with two of them list and
count differ, as the run `manager_reads` shows.

*Assertions.* A precompiled program verifies the assertions of a transaction, and the
wallet program and the manager take keys and messages from its instruction by the
offsets in its table. The data are pieces of different sizes one after another. No
piece is empty, so no two begin at the same byte (`SizesGrow`), and an offset finds a
piece if it is the sum of the sizes before it (`PieceFound`). `PiecesBegin` goes
through the pieces (count, padding, table, then three for each assertion) and
shows that these sums are the client's offsets, `AssertionsLocated` collects what
is found there. The manager adds up sizes and the program follows offsets; both meet
the same pieces. The program computes its place in the table in 8 bits that do not
wrap, 14 bytes an assertion, so it reaches the nineteenth (`ProgramReadsAssertions`;
a transaction has no room for that many, nor for an offset that outgrows its 16
bits or a count that outgrows its 8, which the model writes as numbers). The theorem takes messages of 64 bytes or
more, below which the program refuses, and that the value standing for a refusal
is not itself data.

*Chunks.* `prepareTransactionBundle` cuts the bytes of a message at multiples of the
chunk size and stops at the end. Before each cut all chunks are whole and the next
begins within the message (`ChunkEnds`), so after as many as there are they make up
exactly the bytes up to there (`PiecesJoin`, by induction over the chunks). The
program compares the hash of the whole buffer with the declared one when members
vote and when the buffer is executed, so a byte lost or repeated would leave
a buffer that was paid for and cannot be used.

*Buffers.* The invariant says of every live buffer that it is `Sound`: its
creator, its voters and its executor signed for exactly its message, the voters not
too long before the buffer was created (`InDateIn`), votes of
others than the creator and approvals are for a complete message, an approval
had the members and the threshold of its moment and all declared signers, and
nothing was run yet. The age of a vote is bounded by the time of its presentation,
which is after the creation (`NoneFromLater`, `AcceptedInDate`); no claim is made that
a passkey signed for this buffer, because the code cannot tell. An action that touches one buffer leaves the others alone
(`Framed`), so each instruction has to be looked at for its own buffer only. The
refinement of `Proposals` is a step simulation under this invariant, by the same
cases.

*Popup.* Each flow is `Good`: it has done nothing before its transport is
attached (`Fresh`), request, approval, work and answer follow each other
(`Orderly`, which also holds in the middle of a callback), and whoever answered
is torn down or has a timer for it. `popUp` is the one flow that was started and
not torn down. A callback either makes its flow become another good one or tears
it down; the two lemmas on that are shared by all the ways a flow ends.

*Lite client.* `Counters` bounds retries, polls and sends; `Signatures` ties the
state of each signing to what the payer's service and the manager's signer did: a
signing that failed has aborted the scope, so that its retry asks nobody. That is
why `AskedOnce` holds although the signing is wrapped in a retry.

*Manager client.* The queue of promises is a `Chain`: whoever waits, and the next
call to come, waits for a call such that everything made before is settled or was
made no later than that one. With `Order` (a call that runs, and a settled call
that others wait for, has only settled calls before it) and `Causes` (an aborted
call has an abort of its signer, its own, or of an earlier call) this is
inductive. What the callbacks of one call have in common (`OthersStay`,
`Settles`) is proved of each of them once; `SignerKeepsOrder` maps each step to
one of `SigningPromise`.

*Only model-checked.* Liveness (`FlowEnds`, `ClosedWindowEndsFlow`,
`EndsUnlessSilent`, `CallEnds`, the fairness of `SigningPromise`), which the
prover cannot reason about under fairness. Of `client`: `UnderstoodAsMeant`,
`ParsersAgree` and `ManagerAgrees`, which compare generated layouts field by field
for a fixed set of requests, so that TLC's enumeration says nearly as much; and
`BundleKeepsItsPromise`, which does the same for whole bundles; that their chunks make
up the message is proved.

## 5. Not modelled, and observations

Not modelled:

- What an inner message or a transfer does to accounts: balances, and the CPI
  effects on accounts of the program itself. `transaction_execute_sync` reads the
  settings before it executes the message and writes them after it
  (`P/instructions/decompressed/transaction_execute_sync.rs:108`): what a message
  that calls the program itself does to them is not covered.
- The text of WebAuthn data (JSON, origins, flags), address derivation (taken as
  injective), compressed argument encodings.
- Rent and resizing (`P/utils/system.rs`), except the space of a buffer: an
  account that holds more than its rent keeps its size.
- Durable nonces on the chain: the check concerns transactions without passkeys
  only. How the manager recognises one is modelled.
- That the slot of a vote and the slot a wallet remembers are the same clock:
  `TransactionBuffers` has ages, `SyncInstructions` the newest slot.
- Composing requests (`packages/lite/src/client`), the cache of the payer, lite
  server helpers, `verify-message.ts` and fetching of well-known files, account
  decoders and error texts of the generated client, the wallet-standard adapter:
  pure functions or forwarding, without state or interleavings of their own. An
  answer of a passkey's owner reaches the manager as `[messageHash, genuine]`,
  where `genuine` is all the signatures.

Observations, from modelling, that no run states:

- The slot check of `latest_slot_number_check` compares a distance in slots with
  a length in entries; skipped slots shorten the window in which an assertion is
  accepted. `NextBlockUnlocks` shows that this never refuses a fresh one.
- `transaction_buffer_create` and `transaction_buffer_vote` look the slot of an
  assertion up and never call `latest_slot_number_check`, so their assertions may be
  presented again, by anyone, while SlotHashes has the slot. An assertion for a
  creation binds the message and whether it is preauthorised, neither the index nor
  the expected signers; one for a vote binds the message only, so a buffer closed and
  created again can be given the votes of the first once more.
  `VotesAreEndorsements` and `AssertionsUsedOnce` say what holds all the same. The
  comment that the slot hash "is being verified which prevents replay attacks"
  (`P/utils/system.rs:8`) is about transactions with passkeys in general: it holds of
  the instructions that call the check.
- An assertion that was declared as expected is bound to the buffer that declares it
  by its hash, and older than that buffer. `TransactionBuffers` lets it be of any age
  an assertion may have, which allows more.
- Votes and approvals of Ed25519 members name the buffer, not its message, and are
  taken to be signed when they run.
- `error.rs:135` says that a transaction "must be executed within 3 minutes of
  approval"; `valid_till` is set when the buffer is created
  (`P/state/transaction_buffer.rs:87`) and no approval renews it. `RunsOnceInTime`
  states what holds: the limit runs from the creation.
- Delegation assertions bind the old and the new wallet's index, with 0 for none;
  `create_global_counter` starts at 1, which keeps the two apart.
- A buffer reserves room for one voter per expected signer
  (`P/state/transaction_buffer.rs:120`), while the creator votes without having
  to be one (`transaction_buffer_create.rs:116`): a vote that does not fit fails.
  `BundleKeepsItsPromise` shows that the clients' bundles declare the creator.
- The index of a client's buffer is random in a byte
  (`prepareTransactionBundle.ts:51`): a bundle meets a live buffer of the same
  creator now and then, and its creation then fails.
- When a domain changes its authority, the former authority keeps the role it has
  in its own user account.
- Work that ends after the popup was closed is aborted but may have been
  submitted already: the caller is told that it failed. `OrphanedWorkIsAborted`
  is what the code promises, not that nothing was sent.
- A network failure while a transaction is being signed aborts the scope, so the
  `withRetry` around the signing never has a second attempt that succeeds.
- The pauses of `withRetry` look at no signal: a send whose answer was lost is
  sent again after an abort, and a call that failed after sending may still have
  its transactions land. `SentWhole` says what is kept: they leave together, and
  for the first time only in a call that goes on.
- A confirmed transaction need not have succeeded: the status is not looked at
  for an error (`pollTransactionConfirmation.ts:54`).
- The manager refuses transactions with passkeys in two instructions
  (`transaction-parsing.ts:120`).
- `ManagerAgrees` is about transactions that the client builds. The manager reads
  the signers of a transfer of tokens six accounts too far; behind the accounts that
  the client lists there is nothing, so it refuses (`manager_transfers`), but accounts
  added by hand would be taken for signers.

## 6. Plan

Done, in this order: wallet rules and registry; staged transactions and their
refinement; slots and assertions; the popup; the manager's client and its
promise; the lite client; messages, instructions and bundles on both sides; the
manager's verification. Each module with state has its invariants proved.

Next, in order of weight:

1. Slots and buffers together: one clock for the age of a vote and the wallet's
   newest slot, so that repeated creations and votes meet executions and closings.
2. Inner messages that call the program itself: the writing back of settings in
   `transaction_execute_sync`, with `SyncInstructions` and `WalletRegistry`
   composed.
3. Lite server and client helpers: challenge, deadline and signatures of an
   authorisation, from the client's start request to the manager's check, so that
   `genuine` in `ManagerVerification` becomes a definition.
4. Space and rent of settings and user accounts as their lists grow and shrink.
