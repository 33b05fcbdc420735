------------------------- MODULE TransactionBuffers -------------------------
(***************************************************************************)
(* The staged path of one wallet: a member creates a buffer that announces *)
(* the hash of a transaction message, anyone uploads the chunks, members   *)
(* vote, one of them approves the execution, and anyone executes it within *)
(* the time limit.  The wallet's members change meanwhile, buffers expire, *)
(* are closed, and are created again at the same address.                  *)
(*                                                                         *)
(* One action is one instruction of programs/multi_wallet/src/instructions *)
(* /decompressed; each runs atomically.  A buffer lives at the address     *)
(* derived from its creator and a buffer index.                            *)
(*                                                                         *)
(* Abstracted: a chunk of the message is a model value and every chunk has *)
(* ChunkBytes bytes; the hash of a chunk or a message is the content       *)
(* itself (no collisions); a slot is a moment of the clock, and the slot   *)
(* that a wallet remembers, which execute and close check as well, is in   *)
(* SyncInstructions; an Ed25519 member is taken to sign its transaction    *)
(* when it runs; what the transaction does is not modelled, only that it   *)
(* runs.                                                                   *)
(***************************************************************************)
EXTENDS MultisigSettings, Sequences

CONSTANTS
  BufferIds,       \* the addresses in use: a creator and a buffer index
  Chunks,          \* chunks of transaction messages
  Plans,           \* what a creator may announce: hashes, final hash, final size
  ExpectedChoices, \* the expected signers a creator may declare
  Configs,         \* the settings a configuration change may install
  ChunkBytes,      \* bytes of one chunk
  TimeLimit,       \* TRANSACTION_TIME_LIMIT
  AssertionLife,   \* external: how long SlotHashes keeps the hash of a slot
  MaxTime,         \* bound: the clock stops here
  NoBuffer,        \* no account at this address
  NoKey            \* MemberKey::default, no executor yet

VARIABLES
  settings,  \* the wallet's Settings account
  buffers,   \* buffers[id] is the TransactionBuffer account at address id
  now,       \* the cluster clock
  history    \* history[id]: what really happened to the proposal at id

vars == <<settings, buffers, now, history>>

CreatorOf(id) == id[1]

Message == Seq(Chunks)

Plan == [extend_hashes : Message, final_hash : Message, final_size : Nat]

(***************************************************************************)
(* How an expected signer is declared.  A passkey is declared with the     *)
(* hash of the one assertion it will present, which is for one action.     *)
(***************************************************************************)
Declaration == {"Unexpected", "AnyAction", "Create", "Vote", "Execute"}

Expected == [Keys -> Declaration]

ExpectedKeys(expected) == {k \in Keys : expected[k] # "Unexpected"}

ASSUME BufferAssumption ==
  /\ BufferIds \subseteq Keys \X Nat
  /\ Plans \subseteq Plan
  /\ ExpectedChoices \subseteq Expected
  /\ \A expected \in ExpectedChoices, k \in Keys :
       expected[k] = "AnyAction" => k \in Ed25519Keys
  /\ Configs \subseteq Settings
  /\ ChunkBytes \in Nat
  /\ TimeLimit \in Nat
  /\ AssertionLife \in Nat
  /\ MaxTime \in Nat
  /\ NoKey \notin Keys

Buffer == [final_hash    : Message,
           final_size    : Nat,
           extend_hashes : Message,       \* hashes of the chunks still missing
           buffer        : Message,
           preauthorize  : BOOLEAN,
           can_execute   : BOOLEAN,
           valid_till    : Nat,
           executor      : Keys \cup {NoKey},
           voters        : SUBSET Keys,
           expected      : Expected,
           space         : Nat]           \* bytes allocated for the lists

ASSUME NoBufferAssumption == NoBuffer \notin Buffer

(***************************************************************************)
(* History, never read by an action: which signatures the buffer took since *)
(* it was created, for which content and of what time; when it was created; *)
(* who could vote and how many votes were needed when its execution was    *)
(* last approved; and how often it has run.                                *)
(***************************************************************************)
Record == [endorsed   : SUBSET (Keys \X Message \X Nat),
           started    : Nat,
           electorate : SUBSET Keys,
           needed     : Nat,
           executions : Nat]

NoRecord == [endorsed |-> {}, started |-> 0, electorate |-> {}, needed |-> 0,
             executions |-> 0]

Live(id) == buffers[id] # NoBuffer

TypeOK ==
  /\ settings \in Settings
  /\ buffers \in [BufferIds -> Buffer \cup {NoBuffer}]
  /\ now \in Nat
  /\ history \in [BufferIds -> Record]

Init ==
  /\ settings \in {s \in Configs : SettingsInvariant(s)}
  /\ buffers = [id \in BufferIds |-> NoBuffer]
  /\ now = 0
  /\ history = [id \in BufferIds |-> NoRecord]

-----------------------------------------------------------------------------
(***************************************************************************)
(* The space of the account.  TransactionBuffer::size reserves, next to    *)
(* the fixed fields, room for the message, the chunk hashes, one voter and *)
(* one declaration per expected signer.  Writing the account back fails    *)
(* when it has outgrown that.  Only a passkey's declaration stores a hash. *)
(***************************************************************************)
MaxBufferSize  == 10128
HashBytes      == 32
MemberKeyBytes == 34

SpaceFor(plan, expected) ==
  plan.final_size * ChunkBytes
    + HashBytes * Len(plan.extend_hashes)
    + (2 * MemberKeyBytes + 1 + HashBytes) * Cardinality(ExpectedKeys(expected))

UsedSpace(b) ==
  Len(b.buffer) * ChunkBytes
    + HashBytes * Len(b.extend_hashes)
    + MemberKeyBytes * Cardinality(b.voters)
    + (MemberKeyBytes + 1) * Cardinality(ExpectedKeys(b.expected))
    + HashBytes * Cardinality(ExpectedKeys(b.expected) \cap Secp256r1Keys)

Fits(b) == UsedSpace(b) <= b.space

\* Mutant of Complete: only the size is compared.
CompleteBySize(b) == Len(b.buffer) = b.final_size

\* validate_hash and validate_size
Complete(b) == b.buffer = b.final_hash /\ Len(b.buffer) = b.final_size

\* The rule of verify_vote and verify_execute: an Ed25519 signer has to be
\* declared; a passkey has to present the assertion that was declared for it,
\* unless nobody was declared.
Declared(b, k, act) ==
  \/ k \in Ed25519Keys /\ k \in ExpectedKeys(b.expected)
  \/ k \in Secp256r1Keys /\ ExpectedKeys(b.expected) = {}
  \/ k \in Secp256r1Keys /\ b.expected[k] = act

\* Mutant of ExpectedTookPart: one declared signer is enough.
ExpectedTookPartOnce(b, creator) ==
  \/ ExpectedKeys(b.expected) = {}
  \/ ExpectedKeys(b.expected) \cap (b.voters \cup {creator, b.executor}) # {}

\* check_expected_signers
ExpectedTookPart(b, creator) ==
  ExpectedKeys(b.expected) \subseteq b.voters \cup {creator, b.executor}

(***************************************************************************)
(* When the signature was made that key k presents now.  An assertion is   *)
(* over the wallet, the message and the hash of a slot, and names no       *)
(* buffer: create and vote only look the slot up and keep nothing of it,   *)
(* so the assertion counts again, also for a buffer created later, as long *)
(* as SlotHashes has the slot.                                             *)
(***************************************************************************)
\* Mutant of SignedAt: the slot is not looked up.
SignedAnyTime(k) == IF k \in Secp256r1Keys THEN 0..now ELSE {now}

SignedAt(k) ==
  IF k \in Secp256r1Keys THEN {t \in 0..now : now <= t + AssertionLife} ELSE {now}

Endorse(id, k, content, t) ==
  history' = [history EXCEPT ![id].endorsed = @ \cup {<<k, content, t>>}]

-----------------------------------------------------------------------------
(* transaction_buffer_create *)
\* Mutant of NewBuffer: the declared voters count from the start.
NewBufferPrefilled(creator, plan, expected, preauthorize) ==
  [final_hash    |-> plan.final_hash,
   final_size    |-> plan.final_size,
   extend_hashes |-> plan.extend_hashes,
   buffer        |-> << >>,
   preauthorize  |-> preauthorize,
   can_execute   |-> FALSE,
   valid_till    |-> now + TimeLimit,
   executor      |-> NoKey,
   voters        |-> ExpectedKeys(expected) \cap Holders(settings, "Vote"),
   expected      |-> expected,
   space         |-> SpaceFor(plan, expected)]

NewBuffer(creator, plan, expected, preauthorize) ==
  [final_hash    |-> plan.final_hash,
   final_size    |-> plan.final_size,
   extend_hashes |-> plan.extend_hashes,
   buffer        |-> << >>,
   preauthorize  |-> preauthorize,
   can_execute   |-> FALSE,
   valid_till    |-> now + TimeLimit,
   executor      |-> NoKey,
   voters        |-> {creator} \cap Holders(settings, "Vote"),
   expected      |-> expected,
   space         |-> SpaceFor(plan, expected)]

TransactionBufferCreate(id, plan, expected, preauthorize, t) ==
  LET creator == CreatorOf(id)
      b == NewBuffer(creator, plan, expected, preauthorize)
  IN  /\ ~Live(id)
      /\ creator \in Holders(settings, "Initiate")
      /\ t \in SignedAt(creator)
      /\ preauthorize => creator \in Holders(settings, "Execute")
      /\ ExpectedKeys(expected) \subseteq MembersOf(settings)
      /\ plan.final_size * ChunkBytes <= MaxBufferSize
      /\ Fits(b)
      /\ buffers' = [buffers EXCEPT ![id] = b]
      /\ history' = [history EXCEPT ![id] =
                       [NoRecord EXCEPT !.endorsed = {<<creator, plan.final_hash, t>>},
                                        !.started = now]]
      /\ UNCHANGED <<settings, now>>

(* transaction_buffer_extend: nobody has to sign. *)
\* Mutant of ChunkAllowed: the remaining size is not checked.
ChunkAllowedOversize(b, chunk) ==
  /\ b.extend_hashes # << >>
  /\ Head(b.extend_hashes) = chunk

ChunkAllowed(b, chunk) ==
  /\ Len(b.buffer) + 1 <= b.final_size
  /\ b.extend_hashes # << >>
  /\ Head(b.extend_hashes) = chunk

TransactionBufferExtend(id, chunk) ==
  LET b == [buffers[id] EXCEPT !.buffer = Append(@, chunk),
                               !.extend_hashes = Tail(@)]
  IN  /\ Live(id)
      /\ ChunkAllowed(buffers[id], chunk)
      /\ Fits(b)
      /\ buffers' = [buffers EXCEPT ![id] = b]
      /\ UNCHANGED <<settings, now, history>>

(* transaction_buffer_vote: votes are accepted after expiry as well. *)
TransactionBufferVote(id, k, t) ==
  LET b == [buffers[id] EXCEPT !.voters = @ \cup {k}]
  IN  /\ Live(id)
      /\ Complete(buffers[id])
      /\ k \in Holders(settings, "Vote")
      /\ t \in SignedAt(k)
      /\ Declared(buffers[id], k, "Vote")
      /\ Fits(b)
      /\ buffers' = [buffers EXCEPT ![id] = b]
      /\ Endorse(id, k, buffers[id].buffer, t)
      /\ UNCHANGED <<settings, now>>

-----------------------------------------------------------------------------
(***************************************************************************)
(* transaction_buffer_execute approves the execution.  A preauthorised     *)
(* buffer needs no signer, any other one is approved by a member that may  *)
(* execute and counts as a voter.  It may be repeated.                     *)
(***************************************************************************)
\* Mutant of VotesFor: the votes of former members count.
VotesOfAnyone(b, signers) == b.voters \cup signers

VotesFor(b, signers) == Holders(settings, "Vote") \cap (b.voters \cup signers)

Approve(id, b, endorsements) ==
  /\ Complete(b)
  /\ now <= b.valid_till
  /\ ExpectedTookPart(b, CreatorOf(id))
  /\ Fits(b)
  /\ buffers' = [buffers EXCEPT ![id] = [b EXCEPT !.can_execute = TRUE]]
  /\ history' = [history EXCEPT
       ![id].endorsed   = @ \cup endorsements,
       ![id].electorate = Holders(settings, "Vote"),
       ![id].needed     = settings.threshold]
  /\ UNCHANGED <<settings, now>>

TransactionBufferExecutePreauthorized(id) ==
  /\ Live(id)
  /\ buffers[id].preauthorize
  /\ Cardinality(VotesFor(buffers[id], {})) >= settings.threshold
  /\ Approve(id, buffers[id], {})

TransactionBufferExecute(id, k, t) ==
  /\ Live(id)
  /\ ~buffers[id].preauthorize
  /\ k \in Holders(settings, "Execute")
  /\ t \in SignedAt(k)
  /\ Cardinality(VotesFor(buffers[id], {k})) >= settings.threshold
  /\ Declared(buffers[id], k, "Execute")
  /\ SettingsInvariant(settings)
  /\ Approve(id, [buffers[id] EXCEPT !.executor = k], {<<k, buffers[id].buffer, t>>})

\* Mutant of TransactionExecute: the account is not closed.
TransactionExecuteAgain(id) ==
  /\ Live(id)
  /\ buffers[id].can_execute
  /\ now <= buffers[id].valid_till
  /\ history' = [history EXCEPT ![id].executions = @ + 1]
  /\ UNCHANGED <<settings, buffers, now>>

(* transaction_execute: nobody has to sign; closes the account. *)
TransactionExecute(id) ==
  /\ Live(id)
  /\ buffers[id].can_execute
  /\ now <= buffers[id].valid_till
  /\ buffers' = [buffers EXCEPT ![id] = NoBuffer]
  /\ history' = [history EXCEPT ![id].executions = @ + 1]
  /\ UNCHANGED <<settings, now>>

(* transaction_buffer_close: the creator at any time, the rent payer, who   *)
(* may be anyone, once the buffer has expired.                              *)
TransactionBufferClose(id, by_creator) ==
  /\ Live(id)
  /\ by_creator \/ now > buffers[id].valid_till
  /\ SettingsInvariant(settings)
  /\ buffers' = [buffers EXCEPT ![id] = NoBuffer]
  /\ UNCHANGED <<settings, now, history>>

-----------------------------------------------------------------------------
(* change_config, seen from this wallet: an authorised batch installs other *)
(* valid settings.  WalletRegistry has the instruction in detail.           *)
ChangeConfig ==
  /\ CanAuthorise(settings, MembersOf(settings))
  /\ settings' \in {s \in Configs : SettingsInvariant(s)}
  /\ UNCHANGED <<buffers, now, history>>

Tick ==
  /\ now < MaxTime
  /\ now' = now + 1
  /\ UNCHANGED <<settings, buffers, history>>

Next ==
  \/ \E id \in BufferIds, plan \in Plans, expected \in ExpectedChoices,
        preauthorize \in BOOLEAN, t \in 0..now :
       TransactionBufferCreate(id, plan, expected, preauthorize, t)
  \/ \E id \in BufferIds, chunk \in Chunks : TransactionBufferExtend(id, chunk)
  \/ \E id \in BufferIds, k \in Keys, t \in 0..now : TransactionBufferVote(id, k, t)
  \/ \E id \in BufferIds : TransactionBufferExecutePreauthorized(id)
  \/ \E id \in BufferIds, k \in Keys, t \in 0..now : TransactionBufferExecute(id, k, t)
  \/ \E id \in BufferIds : TransactionExecute(id)
  \/ \E id \in BufferIds, by_creator \in BOOLEAN : TransactionBufferClose(id, by_creator)
  \/ ChangeConfig
  \/ Tick

Spec == Init /\ [][Next]_vars

-----------------------------------------------------------------------------
(* Properties.                                                             *)

EndorsedAt(id, k, content) ==
  {e[3] : e \in {e \in history[id].endorsed : e[1] = k /\ e[2] = content}}

Endorsers(id, content) == {k \in Keys : EndorsedAt(id, k, content) # {}}

\* A buffer that may execute holds exactly the announced message, and at least
\* as many keys signed for that message, for this buffer or an earlier one, as
\* the threshold asked of the members who could vote when it was approved.  It
\* stays so through later votes, further approvals by another executor, and
\* configuration changes.
ApprovalIsBacked ==
  \A id \in BufferIds :
    (Live(id) /\ buffers[id].can_execute) =>
      /\ buffers[id].buffer = buffers[id].final_hash
      /\ Len(buffers[id].buffer) = buffers[id].final_size
      /\ history[id].needed > 0
      /\ Cardinality(history[id].electorate
                       \cap Endorsers(id, buffers[id].final_hash))
           >= history[id].needed

\* A signature of key k made at t is not too old for a buffer created later.
InDate(k, t, created) ==
  IF k \in Secp256r1Keys THEN t + AssertionLife >= created ELSE t >= created

\* A vote is for the message, and none outlives its signature by more than the
\* table of slots: every voter of a buffer signed for the announced message, an
\* Ed25519 member since this buffer was created, a passkey at most AssertionLife
\* before.  That is all the code promises a buffer that is created again at the
\* same address: it starts without the votes of the buffer before, but the
\* assertion of a passkey for the same message counts again while its slot is in
\* SlotHashes, as create and vote never check the slot the wallet remembers.
VotesAreEndorsements ==
  \A id \in BufferIds :
    Live(id) =>
      \A k \in buffers[id].voters :
        \E t \in EndorsedAt(id, k, buffers[id].final_hash) :
          InDate(k, t, history[id].started)

\* Every declared signer of a buffer that may execute signed for its message,
\* also when a second approval replaced the executor of the first.
ExpectedSignersEndorsed ==
  \A id \in BufferIds :
    (Live(id) /\ buffers[id].can_execute) =>
      ExpectedKeys(buffers[id].expected) \subseteq Endorsers(id, buffers[id].final_hash)

\* A proposal runs at most once, and only within the time limit that started
\* when it was created: closing the account is what stops a second run.
RunsOnceInTime ==
  [][\A id \in BufferIds :
       history'[id].executions > history[id].executions =>
         /\ history[id].executions = 0
         /\ now <= history[id].started + TimeLimit]_vars

\* The message of a buffer is frozen as soon as somebody other than its creator
\* voted for it or its execution was approved, although anyone may extend.
ContentFrozen ==
  [][\A id \in BufferIds :
       (/\ Live(id)
        /\ buffers'[id] # NoBuffer
        /\ buffers[id].can_execute \/ buffers[id].voters \ {CreatorOf(id)} # {})
       => /\ buffers'[id].buffer = buffers[id].buffer
          /\ buffers'[id].final_hash = buffers[id].final_hash]_vars

(***************************************************************************)
(* What the buffers implement: backing is the list of voters, who may vote *)
(* is read from the settings at that moment.                               *)
(***************************************************************************)
Stage(id) ==
  IF ~Live(id) THEN "none" ELSE IF buffers[id].can_execute THEN "approved" ELSE "open"

Backing(id) == IF Live(id) THEN buffers[id].voters ELSE {}

Promise == INSTANCE Proposals WITH
  Ids        <- BufferIds,
  People     <- Keys,
  electorate <- Holders(settings, "Vote"),
  threshold  <- settings.threshold,
  stage      <- [id \in BufferIds |-> Stage(id)],
  backing    <- [id \in BufferIds |-> Backing(id)]

\* Every behaviour of the buffers is one of Proposals: nothing runs that was
\* not approved by enough of the members who could vote at that moment.
ImplementsProposals == Promise!Spec
=============================================================================
