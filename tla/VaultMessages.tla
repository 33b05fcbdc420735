--------------------------- MODULE VaultMessages ---------------------------
(***************************************************************************)
(* The message a wallet's vault executes: how the client compiles it       *)
(* (packages/core/src/utils/transactionMessage and utils/transaction), how *)
(* the program checks and executes it (utils/vault_transaction.rs,         *)
(* transaction_message.rs, executable_transaction_message.rs), and how a   *)
(* transaction manager reads it before co-signing (packages/               *)
(* transaction-manager/src/utils/transaction-parsing.ts).                  *)
(*                                                                         *)
(* A message names its accounts by position.  The client, the program and  *)
(* the manager each compute those positions on their own, from a list of   *)
(* accounts in which lookup tables, static accounts, loaded accounts and   *)
(* signers follow each other.  Addresses are opaque, and the data of an    *)
(* instruction is left out: it is copied along.  Indexes start at 0.       *)
(***************************************************************************)
EXTENDS WireTypes

CONSTANTS
    Addresses,      \* account addresses
    Vault,          \* the wallet's vault, the payer of its messages
    Undefined       \* what lies beyond the end of a JavaScript array

ASSUME VaultAssumption == Vault \in Addresses /\ Undefined \notin Addresses

Nth(s, i)     == s[i + 1]
IndexOf(s, x) == SelectInSeq(s, LAMBDA y : y = x) - 1       \* -1: not found
FirstOnly(s)  == FoldLeft(LAMBDA acc, x : IF Contains(acc, x) THEN acc ELSE Append(acc, x),
                          <<>>, s)
Only(s, K)    == FoldLeft(LAMBDA acc, x : IF x \in K THEN Append(acc, x) ELSE acc, <<>>, s)
SumOf(s)         == FoldLeft(LAMBDA acc, n : acc + n, 0, s)
Mapped(s, Op(_)) == [i \in DOMAIN s |-> Op(s[i])]

Meta(a, signer, writable) == [address |-> a, signer |-> signer, writable |-> writable]
AddressesIn(metas)        == Mapped(metas, LAMBDA m : m.address)

\* An instruction as its author writes it.
Instruction(program, accounts) == [program |-> program, accounts |-> accounts]

-----------------------------------------------------------------------------
(* The client compiles instructions: CompiledKeys, MessageAccountKeys. *)

\* The keys in the order in which the map of CompiledKeys first meets them.
KeysOf(ixs) ==
    FirstOnly(<<Vault>> \o FlattenSeq(
        Mapped(ixs, LAMBDA ix : <<ix.program>> \o AddressesIn(ix.accounts))))

MetasOf(ixs)      == FlattenSeq(Mapped(ixs, LAMBDA ix : ix.accounts))
SignersOf(ixs)    == {Vault} \cup {m.address : m \in {x \in ToSet(MetasOf(ixs)) : x.signer}}
WritablesOf(ixs)  == {Vault} \cup {m.address : m \in {x \in ToSet(MetasOf(ixs)) : x.writable}}

\* The keys that move to lookup table t, writable ones first; acc collects what
\* earlier tables took.
Moved(acc, t, table, movable, writables) ==
    LET writable == Only(movable, writables)
        readonly == Only(movable, ToSet(movable) \ writables)
        indexes(keys) == Mapped(keys, LAMBDA k : IndexOf(table[t], k))
    IN  IF movable = <<>> THEN acc
        ELSE [left     |-> Only(acc.left, ToSet(acc.left) \ ToSet(movable)),
              lookups  |-> Append(acc.lookups, [table    |-> t,
                                                writable |-> indexes(writable),
                                                readonly |-> indexes(readonly)]),
              writable |-> acc.writable \o writable,
              readonly |-> acc.readonly \o readonly]

\* The keys still left that are not signers move, if the table holds them.
ExtractTableLookup(acc, t, table, ixs) ==
    Moved(acc, t, table,
          Only(acc.left, ToSet(table[t]) \ SignersOf(ixs)),
          WritablesOf(ixs))

\* Mutant of ExtractedTables: the loaded keys are listed in the wrong order.
ExtractedTablesMixed(ixs, tables, table) ==
    LET extract(acc, t) == ExtractTableLookup(acc, t, table, ixs)
        mixed(e)        == [e EXCEPT !.writable = e.readonly, !.readonly = e.writable]
    IN  mixed(FoldLeft(extract, [left |-> KeysOf(ixs), lookups |-> <<>>, writable |-> <<>>,
                                 readonly |-> <<>>], tables))

ExtractedTables(ixs, tables, table) ==
    FoldLeft(LAMBDA acc, t : ExtractTableLookup(acc, t, table, ixs),
             [left |-> KeysOf(ixs), lookups |-> <<>>, writable |-> <<>>, readonly |-> <<>>],
             tables)

\* The keys that do or do not sign, and are or are not written to.
InClass(keys, signers, writables, signer, writable) ==
    Only(keys, {k \in ToSet(keys) : (k \in signers) = signer /\ (k \in writables) = writable})

\* Static keys: writable signers, readonly signers, writable others, the rest.
StaticKeys(keys, signers, writables) ==
    LET class(signer, writable) == InClass(keys, signers, writables, signer, writable)
    IN  class(TRUE, TRUE) \o class(TRUE, FALSE) \o class(FALSE, TRUE) \o class(FALSE, FALSE)

Header(keys, signers, writables) ==
    LET count(signer, writable) == Len(InClass(keys, signers, writables, signer, writable))
    IN  [numSignerAccounts            |-> count(TRUE, TRUE) + count(TRUE, FALSE),
         numReadonlySignerAccounts    |-> count(TRUE, FALSE),
         numReadonlyNonSignerAccounts |-> count(FALSE, FALSE)]

\* compileToWrappedMessageV0, with the keys e that the lookup tables left.
CompiledInstructions(ixs, keys) ==
    Mapped(ixs, LAMBDA ix :
        [program  |-> IndexOf(keys, ix.program),
         accounts |-> Mapped(ix.accounts, LAMBDA m : IndexOf(keys, m.address))])

CompiledWith(ixs, e, static, header) ==
    [header         |-> header,
     staticAccounts |-> static,
     instructions   |-> CompiledInstructions(ixs, static \o e.writable \o e.readonly),
     lookups        |-> e.lookups]

CompiledFrom(ixs, e, signers, writables) ==
    CompiledWith(ixs, e, StaticKeys(e.left, signers, writables),
                 Header(e.left, signers, writables))

Compiled(ixs, tables, table) ==
    CompiledFrom(ixs, ExtractedTables(ixs, tables, table), SignersOf(ixs), WritablesOf(ixs))

\* vaultTransactionMessageSerialize: the wire form counts what is writable,
\* the header what is not.
Serialized(message) ==
    LET h == message.header
    IN  [num_signers              |-> h.numSignerAccounts,
         num_writable_signers     |-> h.numSignerAccounts - h.numReadonlySignerAccounts,
         num_writable_non_signers |-> Len(message.staticAccounts) - h.numSignerAccounts
                                      - h.numReadonlyNonSignerAccounts,
         account_keys             |-> message.staticAccounts,
         instructions             |-> message.instructions,
         address_table_lookups    |-> message.lookups]

\* vaultTransactionMessageDeserialize
Deserialized(wire) ==
    [header |-> [numSignerAccounts            |-> wire.num_signers,
                 numReadonlySignerAccounts    |-> wire.num_signers - wire.num_writable_signers,
                 numReadonlyNonSignerAccounts |-> Len(wire.account_keys) - wire.num_signers
                                                  - wire.num_writable_non_signers],
     staticAccounts |-> wire.account_keys,
     instructions   |-> wire.instructions,
     lookups        |-> wire.address_table_lookups]

-----------------------------------------------------------------------------
(* The client lists the accounts of the outer instruction. *)

\* isSignerIndex and isStaticWritableIndex of the client
SignerIndex(message, i) == i < message.header.numSignerAccounts

StaticWritableIndex(message, i) ==
    LET h == message.header
    IN  /\ i < Len(message.staticAccounts)
        /\ \/ i < h.numSignerAccounts - h.numReadonlySignerAccounts
           \/ /\ i >= h.numSignerAccounts
              /\ i - h.numSignerAccounts
                   < Len(message.staticAccounts) - h.numSignerAccounts
                     - h.numReadonlyNonSignerAccounts

LoadedMetas(lookup, table) ==
    Mapped(lookup.writable, LAMBDA i : Meta(Nth(table[lookup.table], i), FALSE, TRUE))
    \o Mapped(lookup.readonly, LAMBDA i : Meta(Nth(table[lookup.table], i), FALSE, FALSE))

\* An additional signer signs at the first place of its address, or at the end.
WithSigner(metas, s) ==
    IF Contains(AddressesIn(metas), s)
    THEN [j \in DOMAIN metas |->
            IF j = IndexOf(AddressesIn(metas), s) + 1 THEN [metas[j] EXCEPT !.signer = TRUE]
            ELSE metas[j]]
    ELSE Append(metas, Meta(s, TRUE, FALSE))

\* accountsForTransactionExecute: tables, static accounts, and then the loaded
\* accounts table by table.
AccountsForExecute(message, table, additional) ==
    LET static == [i \in DOMAIN message.staticAccounts |->
                      Meta(message.staticAccounts[i],
                           SignerIndex(message, i - 1) /\ message.staticAccounts[i] # Vault,
                           StaticWritableIndex(message, i - 1))]
        listed == Mapped(message.lookups, LAMBDA l : Meta(l.table, FALSE, FALSE))
                  \o static
                  \o FlattenSeq(Mapped(message.lookups, LAMBDA l : LoadedMetas(l, table)))
    IN  FoldLeft(WithSigner, listed, Only(additional, ToSet(additional) \ {Vault}))

-----------------------------------------------------------------------------
(* The client packs a message into one instruction: executeTransactionSync. *)

\* PackedAccounts.insertOrGet: an address keeps its first place and role.
InsertOrGet(packed, m) ==
    IF Contains(AddressesIn(packed), m.address) THEN packed ELSE Append(packed, m)

Packed(metas) == FoldLeft(InsertOrGet, <<>>, metas)

\* buildSignerAccounts: a signer is an Ed25519 account, or a passkey that brings
\* the account of its domain configuration and an assertion, which is counted
\* after the assertions given.
BuildSignerAccounts(signers, packed, assertions) ==
    LET with(acc, s) ==
            LET metas == InsertOrGet(acc.packed, Meta(s.account, ~s.passkey, FALSE))
            IN  [packed     |-> metas,
                 assertions |-> IF s.passkey THEN Append(acc.assertions, s) ELSE acc.assertions,
                 signers    |-> Append(acc.signers,
                     [by        |-> s,
                      passkey   |-> s.passkey,
                      index     |-> IndexOf(AddressesIn(metas), s.account),
                      assertion |-> Len(acc.assertions)])]
    IN  FoldLeft(with, [packed |-> packed, assertions |-> assertions, signers |-> <<>>], signers)

ExecuteSync(message, table, signers, additional, assertions) ==
    LET listed == AccountsForExecute(message, table, additional)
        built  == BuildSignerAccounts(signers, Packed(listed), assertions)
    IN  [wire       |-> Serialized(message),
         lookups    |-> Mapped(message.lookups, LAMBDA l :
             [lookup_table_address_index |-> IndexOf(AddressesIn(listed), l.table),
              writable |-> l.writable, readonly |-> l.readonly]),
         signers    |-> built.signers,
         assertions |-> built.assertions,
         remaining  |-> built.packed]

\* parseInnerTransaction of the manager: what it reads in an instruction with the
\* accounts outer, of which three come before the remaining ones.
AccountsOffset == 3

\* Mutant of ParsedInner: the lookup tables are taken for static accounts.
ParsedInnerFromTables(outer, lookups, instructions) ==
    LET available == SubSeq(outer, AccountsOffset + 1, Len(outer))
        at(i)     == IF i + 1 \in DOMAIN available THEN Nth(available, i) ELSE Undefined
    IN  Mapped(instructions, LAMBDA ix :
            [program |-> at(ix.program), accounts |-> Mapped(ix.accounts, at)])

ParsedInner(outer, lookups, instructions) ==
    LET available == SubSeq(outer, AccountsOffset + Len(lookups) + 1, Len(outer))
        at(i)     == IF i + 1 \in DOMAIN available THEN Nth(available, i) ELSE Undefined
    IN  IF \E ix \in ToSet(instructions) : at(ix.program) = Undefined THEN Refused
        ELSE Mapped(instructions, LAMBDA ix :
                 [program |-> at(ix.program), accounts |-> Mapped(ix.accounts, at)])

-----------------------------------------------------------------------------
(* The program. *)

\* The runtime gives every mention of an account the rights of all of them.
RightsAmong(all, metas) ==
    Mapped(metas, LAMBDA m :
        Meta(m.address, \E n \in all : n.address = m.address /\ n.signer,
                        \E n \in all : n.address = m.address /\ n.writable))

Infos(metas) == RightsAmong(ToSet(metas), metas)

NumLoaded(lookups) == SumOf(Mapped(lookups, LAMBDA l : Len(l.writable) + Len(l.readonly)))

\* TransactionMessage::convert_to_vault_transaction_message, when the accounts
\* that it looks up are there.
Convertible(sync) ==
    /\ Len(sync.lookups) + Len(sync.wire.account_keys) <= Len(sync.remaining)
    /\ \A l \in ToSet(sync.lookups) :
          l.lookup_table_address_index \in 0..(Len(sync.remaining) - 1)

ConvertedMessage(sync) ==
    LET n == Len(sync.lookups)
    IN  [sync.wire EXCEPT
            !.account_keys =
                AddressesIn(SubSeq(sync.remaining, n + 1, n + Len(sync.wire.account_keys))),
            !.address_table_lookups = Mapped(sync.lookups, LAMBDA l :
                [table    |-> Nth(sync.remaining, l.lookup_table_address_index).address,
                 writable |-> l.writable, readonly |-> l.readonly])]

NumAllAccountKeys(m) == Len(m.account_keys) + NumLoaded(m.address_table_lookups)

\* VaultTransactionMessage::validate
Valid(m) ==
    /\ m.num_signers <= Len(m.account_keys)
    /\ m.num_writable_signers <= m.num_signers
    /\ m.num_writable_non_signers <= Len(m.account_keys) - m.num_signers
    /\ \A ix \in ToSet(m.instructions) :
          {ix.program} \cup ToSet(ix.accounts) \subseteq 0..(NumAllAccountKeys(m) - 1)

IsSignerIndex(m, i) == i < m.num_signers
IsStaticWritableIndex(m, i) ==
    /\ i < Len(m.account_keys)
    /\ \/ i < m.num_writable_signers
       \/ i >= m.num_signers /\ i - m.num_signers < m.num_writable_non_signers

\* Where the accounts of lookup l begin among the message's accounts.
LoadedFrom(m, l) ==
    Len(m.account_keys) + NumLoaded(SubSeq(m.address_table_lookups, 1, l - 1))

\* ExecutableTransactionMessage::new_validated: tables and accounts are the
\* ones that the message names, with the rights it gives them.
Validated(m, infos, tableInfos, table) ==
    /\ AddressesIn(tableInfos) = Mapped(m.address_table_lookups, LAMBDA l : l.table)
    /\ ToSet(AddressesIn(tableInfos)) \subseteq DOMAIN table
    /\ Len(infos) = NumAllAccountKeys(m)
    /\ \A i \in DOMAIN m.account_keys :
          /\ infos[i].address = m.account_keys[i]
          /\ IsSignerIndex(m, i - 1) /\ infos[i].address # Vault => infos[i].signer
          /\ IsStaticWritableIndex(m, i - 1) => infos[i].writable
    /\ \A l \in DOMAIN m.address_table_lookups :
          LET lookup == m.address_table_lookups[l]
              named  == lookup.writable \o lookup.readonly
          IN  \A i \in DOMAIN named :
                 LET info == infos[LoadedFrom(m, l) + i]
                 IN  /\ named[i] < Len(table[lookup.table])
                     /\ info.address = Nth(table[lookup.table], named[i])
                     /\ i <= Len(lookup.writable) => info.writable

\* Mutant of AccountsByIndex: the loaded accounts as they are listed, table by
\* table.
AccountsByTable(m, infos) == infos

\* The accounts as the message counts them: static, all writable loaded ones,
\* all readonly loaded ones.
AccountsByIndex(m, infos) ==
    LET loaded(l, from, n) == SubSeq(infos, LoadedFrom(m, l) + from + 1,
                                     LoadedFrom(m, l) + from + n)
        lookups == m.address_table_lookups
        writable == [l \in DOMAIN lookups |-> loaded(l, 0, Len(lookups[l].writable))]
        readonly == [l \in DOMAIN lookups |->
                        loaded(l, Len(lookups[l].writable), Len(lookups[l].readonly))]
    IN  SubSeq(infos, 1, Len(m.account_keys)) \o FlattenSeq(writable) \o FlattenSeq(readonly)

\* to_instructions_and_accounts
ToInstructions(m, accounts) ==
    LET nWritable   == SumOf(Mapped(m.address_table_lookups, LAMBDA l : Len(l.writable)))
        writable(i) == \/ IsStaticWritableIndex(m, i)
                       \/ i >= Len(m.account_keys) /\ i - Len(m.account_keys) < nWritable
    IN  Mapped(m.instructions, LAMBDA ix :
            [program  |-> Nth(accounts, ix.program).address,
             accounts |-> Mapped(ix.accounts, LAMBDA i :
                 Meta(Nth(accounts, i).address, IsSignerIndex(m, i), writable(i)))])

\* execute_message: the accounts that it must not write to.
Unprotected(run, protected) ==
    \A ix \in ToSet(run) : \A a \in ToSet(ix.accounts) : a.writable => a.address \notin protected

\* A message with the instruction's remaining accounts: first the lookup tables,
\* then the accounts that the message names.
Executed(m, remaining, table, protected) ==
    LET n     == Len(m.address_table_lookups)
        infos == SubSeq(Infos(remaining), n + 1, n + NumAllAccountKeys(m))
        checked(run) == IF Unprotected(run, protected) THEN run ELSE Refused
    IN  IF \/ ~Valid(m)
           \/ n + NumAllAccountKeys(m) > Len(remaining)
           \/ ~Validated(m, infos, SubSeq(remaining, 1, n), table)
        THEN Refused ELSE checked(ToInstructions(m, AccountsByIndex(m, infos)))

\* TransactionExecuteSync: a passkey signed the bytes of the message it was
\* shown, an Ed25519 member has to be a signer where the list points.
Endorses(s, m, signed, infos) ==
    IF s.passkey THEN m = signed ELSE Nth(infos, s.index).signer

ExecutedAs(m, sync, table, signed) ==
    IF \A s \in ToSet(sync.signers) : Endorses(s, m, signed, Infos(sync.remaining))
    THEN Executed(m, sync.remaining, table, {}) ELSE Refused

ExecutedSync(sync, table, signed) ==
    IF Convertible(sync) THEN ExecutedAs(ConvertedMessage(sync), sync, table, signed) ELSE Refused
=============================================================================
