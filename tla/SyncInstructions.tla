-------------------------- MODULE SyncInstructions --------------------------
(***************************************************************************)
(* The instructions that accept a passkey's assertion, those that members  *)
(* authorise together in one transaction and those of a buffer, and when   *)
(* an assertion is accepted twice.                                         *)
(*                                                                         *)
(* A passkey does not sign the transaction: it signs a challenge made of   *)
(* an action, an account, a message and the hash of a recent slot, and     *)
(* whoever holds that assertion may present it.  Each wallet remembers the *)
(* newest slot it accepted and refuses assertions that are not newer,      *)
(* except those that create a buffer or vote for one: these instructions   *)
(* only look the slot up, and accept an assertion as often as it is        *)
(* presented while the sysvar has its slot.  A transfer intent names the   *)
(* token program instead of the wallet.                                    *)
(*                                                                         *)
(* One action is one instruction.  Abstracted: assertions are not forged,  *)
(* but a passkey may have signed any challenge over any past slot, and all *)
(* assertions are kept by everybody; origins and domains are those of      *)
(* WalletRegistry; what an executed message does is not modelled; members  *)
(* are added with the role Member.                                         *)
(***************************************************************************)
EXTENDS MultisigSettings, SlotHashes, Functions

CONSTANTS
  Wallets,         \* the addresses of the settings accounts
  Messages,        \* transaction messages and transfers
  InitialSettings, \* InitialSettings[w] is how wallet w was set up
  MaxSlot,         \* bound: the last slot
  MaxEvents        \* bound: how many instructions with assertions are accepted

VARIABLES
  slot,     \* the current slot
  hashes,   \* the SlotHashes sysvar
  wallets,  \* wallets[w] is the Settings account at w
  log       \* history: the assertions that wallets accepted

vars == <<slot, hashes, wallets, log>>

NoWallet == "NoWallet"

ASSUME SyncAssumption ==
  /\ NoWallet \notin Wallets
  /\ InitialSettings \in [Wallets -> Settings]
  /\ \A w \in Wallets : SettingsInvariant(InitialSettings[w])
  /\ \A k \in Keys : AtMostOne({w \in Wallets : InitialSettings[w].members[k].is_delegate})
  /\ MaxSlot \in Nat \ {0}
  /\ MaxEvents \in Nat

\* A settings account here also has the newest slot it accepted.
WalletAccount == [members : [Keys -> Member \cup {NoMember}], threshold : Nat, latest : Nat]

\* One listed signer: a passkey with the slot it signed, an Ed25519 key with 0.
Signer == [key : Ed25519Keys, slot : {0}] \cup [key : Secp256r1Keys, slot : 1..MaxSlot]

Assertion(key, n, action, account, message) ==
  [key |-> key, slot |-> n, action |-> action, account |-> account, message |-> message]

TypeOK ==
  /\ slot \in 1..MaxSlot
  /\ hashes \in Table
  /\ SlotsIn(hashes) \subseteq 1..(slot - 1)
  /\ Len(hashes) <= TableSize
  /\ wallets \in [Wallets -> WalletAccount]
  /\ \A w \in Wallets : wallets[w].latest < slot
  /\ Len(log) <= MaxEvents

Init ==
  /\ slot = 1
  /\ hashes = << >>
  /\ wallets = [w \in Wallets |-> [members   |-> InitialSettings[w].members,
                                   threshold |-> InitialSettings[w].threshold,
                                   latest    |-> 0]]
  /\ log = << >>

-----------------------------------------------------------------------------
(* Signers of one instruction.                                             *)

SignerKeys(signers) == [j \in DOMAIN signers |-> signers[j].key]

Passkeys(signers) == {j \in DOMAIN signers : signers[j].key \in Secp256r1Keys}

SlotNumbers(signers) == {signers[j].slot : j \in Passkeys(signers)}

AssertionsOf(signers, action, account, message) ==
  {Assertion(signers[j].key, signers[j].slot, action, account, message) :
     j \in Passkeys(signers)}

\* TransactionSyncSigners::verify and the slot check that follows it; neither
\* has an effect, so their order does not matter.
Accepted(table, wallet, signers) ==
  /\ SlotsAllowed(table, wallet.latest, SlotNumbers(signers))
  /\ \A n \in SlotNumbers(signers) : Hashed(table, n)
  /\ VerifySync(wallet, SignerKeys(signers))

Consumed(wallet, slots) == [wallet EXCEPT !.latest = LatestAfter(@, slots)]

\* History: the wallets in W accepted these assertions.
Recorded(W, assertions) ==
  IF assertions = {} THEN UNCHANGED log
  ELSE /\ Len(log) < MaxEvents
       /\ log' = Append(log, [wallets |-> W, assertions |-> assertions])

\* What every instruction with a signer list does; installed is the wallet's
\* account without the new slot.
Authorised(w, signers, action, account, message, installed) ==
  /\ Recorded({w}, AssertionsOf(signers, action, account, message))
  /\ Accepted(hashes, wallets[w], signers)
  /\ SettingsInvariant(installed)
  /\ wallets' = [wallets EXCEPT ![w] = Consumed(installed, SlotNumbers(signers))]
  /\ UNCHANGED <<slot, hashes>>

-----------------------------------------------------------------------------
(* Instructions.                                                           *)

TransactionExecuteSync(w, signers, message) ==
  Authorised(w, signers, "sync", w, message, wallets[w])

\* Only passkeys that delegate to w may sign for it without naming it.
TransferIntent(w, signers, program, message) ==
  /\ \A j \in Passkeys(signers) : wallets[w].members[signers[j].key].is_delegate
  /\ Authorised(w, signers, "transfer_intent", program, message, wallets[w])

NativeTransferIntent(w, signers, message) ==
  TransferIntent(w, signers, "system_program", message)

TokenTransferIntent(w, signers, message) ==
  TransferIntent(w, signers, "token_program", message)

\* change_config with a batch of one action.
ChangeConfig(w, signers, action) ==
  LET applied == AppliedTo(WorkingCopy(wallets[w]), action, [k \in Keys |-> "Member"])
      installed == [wallets[w] EXCEPT !.members = applied.members,
                                      !.threshold = applied.threshold]
  IN  /\ ActionAllowed(WorkingCopy(wallets[w]), action)
      /\ applied.repeated = {}
      /\ Authorised(w, signers, "change_config", w, action, installed)

DelegateOf(k) == {w \in Wallets : wallets[w].members[k].is_delegate}

Flagged(wallet, k, flag) == [wallet EXCEPT !.members[k].is_delegate = flag]

\* Mutant of DelegationSlots: only the wallet that is left checks the slot.
DelegationSlotsOfOld(w, old, to, slots) == IF w = old THEN slots ELSE {}

\* The slots wallet w has to accept: both wallets check the one assertion.
DelegationSlots(w, old, to, slots) == IF w \in {old, to} THEN slots ELSE {}

\* edit_user_delegate by member k: from its delegated wallet, if any, to
\* another one or to none.  n is the slot k signed, 0 for an Ed25519 key.  The
\* two settings accounts are both writable, so they may not be the same one.
EditUserDelegate(k, n, old, to) ==
  LET slots == IF k \in Secp256r1Keys THEN {n} ELSE {}
      account == IF old # NoWallet THEN old ELSE to
      Slots(w) == DelegationSlots(w, old, to, slots)
  IN  /\ IF DelegateOf(k) = {} THEN old = NoWallet ELSE old \in DelegateOf(k)
      /\ old # to
      /\ \A w \in {old, to} \ {NoWallet} :
           /\ wallets[w].members[k] # NoMember
           /\ SlotsAllowed(hashes, wallets[w].latest, Slots(w))
           /\ SettingsInvariant(Flagged(wallets[w], k, w = to))
      /\ \A m \in slots : Hashed(hashes, m)
      /\ wallets' = [w \in Wallets |->
                       IF w \in {old, to}
                       THEN Consumed(Flagged(wallets[w], k, w = to), Slots(w))
                       ELSE wallets[w]]
      /\ Recorded({old, to} \ {NoWallet},
                  {Assertion(k, m, "change_delegate", account, <<old, to>>) : m \in slots})
      /\ UNCHANGED <<slot, hashes>>

\* transaction_buffer_execute and transaction_buffer_close by a passkey, seen
\* from here: one assertion for this wallet, whose slot the wallet checks and
\* remembers.
BufferInstruction(w, k, n, action, message) ==
  /\ k \in Secp256r1Keys
  /\ action = "execute" => k \in Holders(wallets[w], "Execute")
  /\ Hashed(hashes, n)
  /\ SlotsAllowed(hashes, wallets[w].latest, {n})
  /\ SettingsInvariant(wallets[w])
  /\ wallets' = [wallets EXCEPT ![w] = Consumed(@, {n})]
  /\ Recorded({w}, {Assertion(k, n, action, w, message)})
  /\ UNCHANGED <<slot, hashes>>

\* transaction_buffer_create and transaction_buffer_vote by a passkey: the slot
\* must be in the table, but the wallet neither checks nor remembers it.
EndorsingActions == {"create", "create_preauthorized", "vote"}

BufferEndorsement(w, k, n, action, message) ==
  /\ k \in Secp256r1Keys
  /\ k \in Holders(wallets[w], IF action = "vote" THEN "Vote" ELSE "Initiate")
  /\ action = "create_preauthorized" => k \in Holders(wallets[w], "Execute")
  /\ Hashed(hashes, n)
  /\ Recorded({w}, {Assertion(k, n, action, w, message)})
  /\ UNCHANGED <<slot, hashes, wallets>>

\* External: the slot ends with or without a block.
NextSlot ==
  /\ slot < MaxSlot
  /\ slot' = slot + 1
  /\ hashes' \in {hashes, Pushed(hashes, slot)}
  /\ UNCHANGED <<wallets, log>>

SignerLists ==
  LET slots  == SlotsIn(hashes) \cup {0}
      listed == {s \in Signer : s.slot \in slots}
  IN  UNION {[1..n -> listed] : n \in 1..MaxSigners}

Next ==
  \/ \E signers \in SignerLists, w \in Wallets :
       \/ \E message \in Messages :
            \/ TransactionExecuteSync(w, signers, message)
            \/ NativeTransferIntent(w, signers, message)
            \/ TokenTransferIntent(w, signers, message)
       \/ \E action \in ConfigAction \ {Nothing} : ChangeConfig(w, signers, action)
  \/ \E s \in Signer, old, to \in Wallets \cup {NoWallet} :
       EditUserDelegate(s.key, s.slot, old, to)
  \/ \E w \in Wallets, s \in Signer, action \in {"execute", "close"}, message \in Messages :
       BufferInstruction(w, s.key, s.slot, action, message)
  \/ \E w \in Wallets, s \in Signer, action \in EndorsingActions, message \in Messages :
       BufferEndorsement(w, s.key, s.slot, action, message)
  \/ NextSlot

Spec == Init /\ [][Next]_vars

-----------------------------------------------------------------------------
(* Properties.                                                             *)

\* The assertions that a wallet takes once: all but those of creations and votes.
TakenOnce(assertions) == {a \in assertions : a.action \notin EndorsingActions}

\* No wallet accepts an assertion twice for an instruction that checks its newest
\* slot (a transaction, an intent, a change of configuration or delegation, the
\* execution or closing of a buffer), whatever it accepted in between; creations
\* and votes do check nothing of the kind and repeat theirs, but repeating them
\* makes no other assertion acceptable again.
AssertionsUsedOnce ==
  \A i, j \in DOMAIN log :
    (i < j /\ log[i].wallets \cap log[j].wallets # {}) =>
      TakenOnce(log[i].assertions) \cap log[j].assertions = {}

\* A transfer intent names no wallet.  It is accepted by a second wallet only
\* if, after the first, its passkey delegated to the second with an assertion
\* older than the intent: delegations presented in the order they were signed
\* make every intent unique across all wallets.
IntentsFollowDelegations ==
  \A i, j \in DOMAIN log :
    i < j =>
      \A a \in {b \in log[i].assertions \cap log[j].assertions :
                  b.action = "transfer_intent"} :
        \E d \in i..j :
          \E b \in log[d].assertions :
            /\ b.action = "change_delegate"
            /\ b.key = a.key
            /\ b.message[2] \in log[j].wallets
            /\ b.slot < a.slot

\* Nobody can use up the slots to come: once the current slot has a block, all
\* members signing its hash together are accepted by their wallet, whatever
\* assertions it accepted before and in whichever order.
NextBlockUnlocks ==
  \A w \in Wallets :
    LET M == MembersOf(wallets[w])
    IN  SettingsInvariant(wallets[w]) /\ \A order \in Bijection(1..Cardinality(M), M) :
          Accepted(Pushed(hashes, slot), wallets[w],
                   [j \in DOMAIN order |->
                      [key |-> order[j], slot |-> IF order[j] \in Secp256r1Keys THEN slot ELSE 0]])

\* The binary search of fetch_slot_hash finds exactly the slots in the table,
\* in every table that skipped slots leave behind.
SearchFindsSlots ==
  \A n \in 0..MaxSlot : Hashed(hashes, n) <=> n \in SlotsIn(hashes)

\* A transaction is executed only with as many members behind it as the
\* threshold asks for ("Not enough members with vote permission to meet the
\* approval threshold.", error.rs).
BackedByEnough(w, signers) ==
  Cardinality({signers[j].key : j \in DOMAIN signers} \cap Holders(wallets[w], "Vote"))
    >= wallets[w].threshold

ThresholdCountsMembers ==
  [][\A w \in Wallets, signers \in SignerLists, message \in Messages :
       TransactionExecuteSync(w, signers, message) => BackedByEnough(w, signers)]_vars
=============================================================================
