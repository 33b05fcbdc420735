--------------------------- MODULE ManagerProofs ----------------------------
(***************************************************************************)
(* Proofs about what is read of a transaction before it is signed and      *)
(* while it runs, for every message, every list of lookup tables and       *)
(* everything these hold.                                                  *)
(*                                                                         *)
(* The transaction manager reads what the program will execute. Of a       *)
(* buffer it reads the bytes and decompiles them, of a packed message the  *)
(* accounts that the instruction lists. The first needs that the           *)
(* decompiler counts accounts as the compiler does, the second that the    *)
(* order of the list is the order of the count; ClientProofs says the same *)
(* of the program, and shares its lemmas.                                  *)
(*                                                                         *)
(* The assertions of passkeys are checked by a precompiled program, and    *)
(* read from its instruction by the manager and by the wallet program,     *)
(* through a table of offsets. Both find each key and message where the    *)
(* client wrote it.                                                        *)
(*                                                                         *)
(* A bundle sends the bytes of a message in chunks; together they are the  *)
(* message that the buffer is to hold.                                     *)
(***************************************************************************)
EXTENDS ClientProofs

-----------------------------------------------------------------------------
(* The message of a buffer, as the manager decompiles it.                  *)

\* The client reads the wire form as the program does.
LEMMA ReadAlike ==
  ASSUME NEW m, NEW i \in Nat, m.num_signers \in Nat, m.num_writable_signers \in Nat,
         m.num_writable_non_signers \in Nat, Len(m.account_keys) \in Nat
  PROVE  /\ SignerIndex(Deserialized(m), i) = IsSignerIndex(m, i)
         /\ StaticWritableIndex(Deserialized(m), i) = IsStaticWritableIndex(m, i)
<1> DEFINE d == Deserialized(m)
           s == m.num_signers
           w == m.num_writable_signers
           o == m.num_writable_non_signers
           k == Len(m.account_keys)
<1>1. /\ d.header.numSignerAccounts = s
      /\ d.header.numReadonlySignerAccounts = s - w
      /\ d.header.numReadonlyNonSignerAccounts = k - s - o
      /\ d.staticAccounts = m.account_keys
  BY DEF Deserialized
<1>2. SignerIndex(d, i) = IsSignerIndex(m, i)
  BY <1>1 DEF SignerIndex, IsSignerIndex
<1> HIDE DEF d
<1>3. StaticWritableIndex(d, i)
        = (i < k /\ (i < s - (s - w) \/ (i >= s /\ i - s < k - s - (k - s - o))))
  BY <1>1 DEF StaticWritableIndex
<1>4. IsStaticWritableIndex(m, i) = (i < k /\ (i < w \/ (i >= s /\ i - s < o)))
  BY DEF IsStaticWritableIndex
<1>5. s \in Nat /\ w \in Nat /\ o \in Nat /\ k \in Nat
  OBVIOUS
<1> HIDE DEF s, w, o, k
<1>6. s - (s - w) = w /\ k - s - (k - s - o) = o
  BY <1>5
<1> QED BY <1>2, <1>3, <1>4, <1>6 DEF d

\* The accounts as the manager counts them.
StaticRead(m) ==
  [i \in 1..Len(m.account_keys) |->
     Meta(m.account_keys[i], IsSignerIndex(m, i - 1), IsStaticWritableIndex(m, i - 1))]
WritableRead(ls, table) ==
  [l \in 1..Len(ls) |-> [i \in 1..Len(ls[l].writable) |->
     Meta(Nth(table[ls[l].table], ls[l].writable[i]), FALSE, TRUE)]]
ReadonlyRead(ls, table) ==
  [l \in 1..Len(ls) |-> [i \in 1..Len(ls[l].readonly) |->
     Meta(Nth(table[ls[l].table], ls[l].readonly[i]), FALSE, FALSE)]]
AccountsRead(m, table) ==
  StaticRead(m) \o FlattenSeq(WritableRead(m.address_table_lookups, table))
  \o FlattenSeq(ReadonlyRead(m.address_table_lookups, table))

DecompiledAt(ixs, metas, i) ==
  [program  |-> Nth(metas, ixs[i].program).address,
   accounts |-> [j \in DOMAIN ixs[i].accounts |-> Nth(metas, ixs[i].accounts[j])]]

DecompilesTo(m, table, metas) ==
  Decompiled(Deserialized(m), table)
    = [i \in DOMAIN m.instructions |-> DecompiledAt(m.instructions, metas, i)]

LEMMA DecompiledReads ==
  ASSUME NEW D, NEW U, NEW table \in [U -> Seq(D)], NEW m,
         m.account_keys \in Seq(D), m.address_table_lookups \in Seq(LookupsIn(table)),
         m.num_signers \in Nat, m.num_writable_signers \in Nat,
         m.num_writable_non_signers \in Nat
  PROVE  DecompilesTo(m, table, AccountsRead(m, table))
<1> DEFINE d == Deserialized(m)
           ls == m.address_table_lookups
           static == [i \in DOMAIN d.staticAccounts |->
                        Meta(d.staticAccounts[i], SignerIndex(d, i - 1),
                             StaticWritableIndex(d, i - 1))]
           writable == Mapped(d.lookups, LAMBDA l :
                         Mapped(l.writable, LAMBDA i : Meta(Nth(table[l.table], i), FALSE, TRUE)))
           readonly == Mapped(d.lookups, LAMBDA l :
                         Mapped(l.readonly, LAMBDA i : Meta(Nth(table[l.table], i), FALSE, FALSE)))
           metas == static \o FlattenSeq(writable) \o FlattenSeq(readonly)
<1>1. /\ d.staticAccounts = m.account_keys /\ d.lookups = ls /\ d.instructions = m.instructions
  BY DEF Deserialized
<1>2. /\ DOMAIN m.account_keys = 1..Len(m.account_keys) /\ Len(m.account_keys) \in Nat
      /\ DOMAIN ls = 1..Len(ls)
      /\ \A l \in 1..Len(ls) : ls[l] \in LookupsIn(table)
  OBVIOUS
<1>3. \A l \in 1..Len(ls) : /\ DOMAIN ls[l].writable = 1..Len(ls[l].writable)
                            /\ DOMAIN ls[l].readonly = 1..Len(ls[l].readonly)
  <2>1. \A l \in 1..Len(ls) : ls[l].writable \in Seq(Nat) /\ ls[l].readonly \in Seq(Nat)
    BY <1>2, LookupType
  <2> QED BY <2>1
<1>4. Decompiled(d, table) = [i \in DOMAIN d.instructions |-> DecompiledAt(d.instructions, metas, i)]
  BY Zenon DEF Decompiled, Mapped, DecompiledAt
<1> HIDE DEF d
<1>5. static = StaticRead(m)
  <2>1. \A i \in 1..Len(m.account_keys) :
          /\ SignerIndex(d, i - 1) = IsSignerIndex(m, i - 1)
          /\ StaticWritableIndex(d, i - 1) = IsStaticWritableIndex(m, i - 1)
    <3> TAKE i \in 1..Len(m.account_keys)
    <3>1. i - 1 \in Nat /\ Len(m.account_keys) \in Nat
      BY <1>2
    <3> DEFINE j == i - 1
    <3>2. j \in Nat
      BY <3>1
    <3> HIDE DEF j
    <3>3. /\ SignerIndex(d, j) = IsSignerIndex(m, j)
          /\ StaticWritableIndex(d, j) = IsStaticWritableIndex(m, j)
      BY <3>1, <3>2, ReadAlike DEF d
    <3> QED BY <3>3 DEF j
  <2> QED BY <1>1, <1>2, <2>1, Zenon DEF StaticRead
<1>6. writable = WritableRead(ls, table) /\ readonly = ReadonlyRead(ls, table)
  <2>1. writable = [l \in DOMAIN ls |-> [i \in DOMAIN ls[l].writable |->
                      Meta(Nth(table[ls[l].table], ls[l].writable[i]), FALSE, TRUE)]]
    BY <1>1, Zenon DEF Mapped
  <2>2. readonly = [l \in DOMAIN ls |-> [i \in DOMAIN ls[l].readonly |->
                      Meta(Nth(table[ls[l].table], ls[l].readonly[i]), FALSE, FALSE)]]
    BY <1>1, Zenon DEF Mapped
  <2> HIDE DEF ls
  <2> QED BY <1>2, <1>3, <2>1, <2>2, Zenon DEF WritableRead, ReadonlyRead
<1> HIDE DEF static, writable, readonly
<1>7. metas = AccountsRead(m, table)
  BY <1>5, <1>6 DEF AccountsRead
<1> QED BY <1>1, <1>4, <1>7 DEF d, DecompilesTo

\* Accounts that all have the same rights.
MetasWith(D, signer, writable) == {x \in Metas(D) : x.signer = signer /\ x.writable = writable}

\* What the manager reads of one lookup.
LEMMA EntriesRead ==
  ASSUME NEW D, NEW list \in Seq(D), NEW indexes \in Seq(Nat), NEW w \in BOOLEAN,
         \A i \in 1..Len(indexes) : indexes[i] < Len(list),
         NEW read, read = [i \in 1..Len(indexes) |-> Meta(Nth(list, indexes[i]), FALSE, w)]
  PROVE  Addressed(D, Entries(list, indexes), read) /\ read \in Seq(MetasWith(D, FALSE, w))
<1> DEFINE es == Entries(list, indexes)
           n == Len(indexes)
<1>1. /\ es \in Seq(D) /\ Len(es) = n /\ n \in Nat
      /\ \A i \in 1..n : es[i] = Nth(list, indexes[i])
  BY EntriesType
<1> HIDE DEF es
<1>2. \A i \in 1..n : es[i] \in D /\ read[i] = Meta(es[i], FALSE, w)
  <2>1. \A i \in 1..n : es[i] \in D
    BY <1>1
  <2>2. \A i \in 1..n : read[i] = Meta(Nth(list, indexes[i]), FALSE, w)
    BY Zenon
  <2> QED BY <1>1, <2>1, <2>2, Zenon
<1>3. \A i \in 1..n : read[i] \in MetasWith(D, FALSE, w) /\ read[i].address = es[i]
  BY <1>2 DEF MetasWith, Metas, Meta
<1>4. IsList(read, n, MetasWith(D, FALSE, w))
  BY <1>3 DEF IsList
<1> HIDE DEF n
<1>5. read \in Seq(MetasWith(D, FALSE, w)) /\ Len(read) = n
  BY <1>1, <1>4, ListType
<1>6. read \in Seq(Metas(D))
  <2>1. MetasWith(D, FALSE, w) \subseteq Metas(D)
    BY DEF MetasWith
  <2> DEFINE V == MetasWith(D, FALSE, w)
  <2>2. read \in Seq(V) /\ V \subseteq Metas(D)
    BY <1>5, <2>1
  <2> HIDE DEF V
  <2> QED BY ONLY <2>2
<1>7. AddressesIn(read) = es
  <2>1. /\ AddressesIn(read) \in Seq(D) /\ Len(AddressesIn(read)) = Len(read)
        /\ \A i \in 1..Len(read) : AddressesIn(read)[i] = read[i].address
    BY <1>6, AddressesType
  <2>2. \A i \in 1..n : AddressesIn(read)[i] = es[i]
    BY <1>3, <1>5, <2>1
  <2> QED BY <1>1, <1>5, <2>1, <2>2, SameSequence
<1> QED BY <1>5, <1>6, <1>7 DEF Addressed, es

LEMMA LoadedRead ==
  ASSUME NEW D, NEW U, NEW table \in [U -> Seq(D)], NEW ls \in Seq(LookupsIn(table))
  PROVE  /\ Addressed(D, FlattenSeq(WritableLoaded(ls, table)), FlattenSeq(WritableRead(ls, table)))
         /\ Addressed(D, FlattenSeq(ReadonlyLoaded(ls, table)), FlattenSeq(ReadonlyRead(ls, table)))
         /\ FlattenSeq(WritableRead(ls, table)) \in Seq(MetasWith(D, FALSE, TRUE))
         /\ FlattenSeq(ReadonlyRead(ls, table)) \in Seq(MetasWith(D, FALSE, FALSE))
<1> DEFINE n == Len(ls)
<1>1. n \in Nat /\ \A l \in 1..n : ls[l] \in LookupsIn(table)
  OBVIOUS
<1>2. ASSUME NEW l \in 1..n
      PROVE  /\ Addressed(D, WritableLoaded(ls, table)[l], WritableRead(ls, table)[l])
             /\ Addressed(D, ReadonlyLoaded(ls, table)[l], ReadonlyRead(ls, table)[l])
             /\ WritableRead(ls, table)[l] \in Seq(MetasWith(D, FALSE, TRUE))
             /\ ReadonlyRead(ls, table)[l] \in Seq(MetasWith(D, FALSE, FALSE))
  <2> DEFINE list == table[ls[l].table]
             w == ls[l].writable
             r == ls[l].readonly
             wr == [i \in 1..Len(w) |-> Meta(Nth(list, w[i]), FALSE, TRUE)]
             rr == [i \in 1..Len(r) |-> Meta(Nth(list, r[i]), FALSE, FALSE)]
  <2>1. /\ WritableLoaded(ls, table)[l] = Entries(list, w)
        /\ ReadonlyLoaded(ls, table)[l] = Entries(list, r)
        /\ WritableRead(ls, table)[l] = wr
        /\ ReadonlyRead(ls, table)[l] = rr
    BY Zenon DEF WritableLoaded, ReadonlyLoaded, WritableRead, ReadonlyRead
  <2>2. /\ list \in Seq(D) /\ w \in Seq(Nat) /\ r \in Seq(Nat)
        /\ \A i \in 1..Len(w) : w[i] < Len(list)
        /\ \A i \in 1..Len(r) : r[i] < Len(list)
    BY <1>1, LookupType
  <2> HIDE DEF list, w, r
  <2>3. Addressed(D, Entries(list, w), wr) /\ wr \in Seq(MetasWith(D, FALSE, TRUE))
    BY <2>2, EntriesRead
  <2>4. Addressed(D, Entries(list, r), rr) /\ rr \in Seq(MetasWith(D, FALSE, FALSE))
    BY <2>2, EntriesRead
  <2> QED BY <2>1, <2>3, <2>4
<1>3. /\ WritableLoaded(ls, table) = [l \in 1..n |-> WritableLoaded(ls, table)[l]]
      /\ ReadonlyLoaded(ls, table) = [l \in 1..n |-> ReadonlyLoaded(ls, table)[l]]
      /\ WritableRead(ls, table) = [l \in 1..n |-> WritableRead(ls, table)[l]]
      /\ ReadonlyRead(ls, table) = [l \in 1..n |-> ReadonlyRead(ls, table)[l]]
  BY DEF WritableLoaded, ReadonlyLoaded, WritableRead, ReadonlyRead
<1>4. /\ Addressed(D, FlattenSeq(WritableLoaded(ls, table)), FlattenSeq(WritableRead(ls, table)))
      /\ Addressed(D, FlattenSeq(ReadonlyLoaded(ls, table)), FlattenSeq(ReadonlyRead(ls, table)))
  BY <1>1, <1>2, <1>3, AllAddressed
<1>5. /\ IsList(WritableRead(ls, table), n, Seq(MetasWith(D, FALSE, TRUE)))
      /\ IsList(ReadonlyRead(ls, table), n, Seq(MetasWith(D, FALSE, FALSE)))
  BY <1>2, <1>3 DEF IsList
<1>6. /\ WritableRead(ls, table) \in Seq(Seq(MetasWith(D, FALSE, TRUE)))
      /\ ReadonlyRead(ls, table) \in Seq(Seq(MetasWith(D, FALSE, FALSE)))
  BY <1>1, <1>5, ListType
<1> QED BY <1>4, <1>6, FlattenKeeps

LEMMA StaticsRead ==
  ASSUME NEW D, NEW m, m.account_keys \in Seq(D)
  PROVE  /\ Addressed(D, m.account_keys, StaticRead(m))
         /\ Len(StaticRead(m)) = Len(m.account_keys)
         /\ \A i \in 1..Len(m.account_keys) :
              StaticRead(m)[i] = Meta(m.account_keys[i], IsSignerIndex(m, i - 1),
                                      IsStaticWritableIndex(m, i - 1))
<1> DEFINE keys == m.account_keys
           n == Len(keys)
           read == StaticRead(m)
<1>1. n \in Nat /\ \A i \in 1..n : keys[i] \in D
  OBVIOUS
<1>2. \A i \in 1..n : read[i] = Meta(keys[i], IsSignerIndex(m, i - 1),
                                     IsStaticWritableIndex(m, i - 1))
  BY DEF StaticRead
<1>3. \A i \in 1..n : read[i] \in Metas(D) /\ read[i].address = keys[i]
  <2> TAKE i \in 1..n
  <2> DEFINE x == IsSignerIndex(m, i - 1)
             y == IsStaticWritableIndex(m, i - 1)
  <2>1. x \in BOOLEAN /\ y \in BOOLEAN
    BY DEF IsSignerIndex, IsStaticWritableIndex
  <2>2. read[i] = Meta(keys[i], x, y) /\ keys[i] \in D
    BY <1>1, <1>2
  <2> HIDE DEF x, y
  <2> QED BY <2>1, <2>2 DEF Metas, Meta
<1>4. read = [i \in 1..n |-> read[i]]
  BY DEF StaticRead
<1>5. IsList(read, n, Metas(D))
  BY <1>3, <1>4 DEF IsList
<1> HIDE DEF n
<1>6. read \in Seq(Metas(D)) /\ Len(read) = n
  BY <1>1, <1>5, ListType
<1>7. AddressesIn(read) = keys
  <2>1. /\ AddressesIn(read) \in Seq(D) /\ Len(AddressesIn(read)) = Len(read)
        /\ \A i \in 1..Len(read) : AddressesIn(read)[i] = read[i].address
    BY <1>6, AddressesType
  <2> HIDE DEF read
  <2> QED BY <1>3, <1>6, <2>1, SameSequence DEF n
<1> QED BY <1>2, <1>6, <1>7 DEF Addressed, n

\* Three parts of a list.
LEMMA ThreeParts ==
  ASSUME NEW X, NEW a \in Seq(X), NEW b \in Seq(X), NEW c \in Seq(X)
  PROVE  /\ a \o b \o c \in Seq(X) /\ Len(a \o b \o c) = Len(a) + Len(b) + Len(c)
         /\ \A i \in 1..Len(a) : (a \o b \o c)[i] = a[i]
         /\ \A i \in 1..Len(b) : (a \o b \o c)[Len(a) + i] = b[i]
         /\ \A i \in 1..Len(c) : (a \o b \o c)[Len(a) + Len(b) + i] = c[i]
OBVIOUS

\* Wherever the manager reads an account, it reads the rights that the header says.
ReadRight(D, m, e, metas) ==
  /\ Addressed(D, AllKeys(m, e), metas)
  /\ \A p \in 0..(Len(AllKeys(m, e)) - 1) : Nth(metas, p) = RightsAt(m, metas, Len(e.writable), p)

LEMMA AccountsReadRight ==
  ASSUME NEW D, NEW U, NEW table \in [U -> Seq(D)], NEW ixs, NEW e, Compiles(D, table, ixs, e)
  PROVE  ReadRight(D, Sent(ixs, e), e, AccountsRead(Sent(ixs, e), table))
<1> DEFINE m == Sent(ixs, e)
           all == AllKeys(m, e)
           a == StaticRead(m)
           b == FlattenSeq(WritableRead(e.lookups, table))
           c == FlattenSeq(ReadonlyRead(e.lookups, table))
           k == Len(m.account_keys)
           v == Len(e.writable)
           metas == AccountsRead(m, table)
<1>1. /\ SentRight(D, ixs, e) /\ m.address_table_lookups = e.lookups
      /\ e.lookups \in Seq(LookupsIn(table))
      /\ e.writable = FlattenSeq(WritableLoaded(e.lookups, table))
      /\ e.readonly = FlattenSeq(ReadonlyLoaded(e.lookups, table))
  BY DEF Compiles
<1>2. /\ m.account_keys \in Seq(D) /\ m.num_signers \in Nat /\ m.num_writable_signers \in Nat
      /\ m.num_writable_non_signers \in Nat
      /\ m.num_signers <= k
      /\ all \in Seq(D) /\ Len(all) = k + v + Len(e.readonly)
  BY <1>1 DEF SentRight
<1> HIDE DEF m
<1>3. /\ Addressed(D, m.account_keys, a) /\ Len(a) = k
      /\ \A i \in 1..k : a[i] = Meta(m.account_keys[i], IsSignerIndex(m, i - 1),
                                     IsStaticWritableIndex(m, i - 1))
  BY <1>2, StaticsRead
<1>4. /\ Addressed(D, e.writable, b) /\ Addressed(D, e.readonly, c)
      /\ b \in Seq(MetasWith(D, FALSE, TRUE)) /\ c \in Seq(MetasWith(D, FALSE, FALSE))
  BY <1>1, LoadedRead
<1>5. metas = a \o b \o c
  BY <1>1 DEF AccountsRead
<1> HIDE DEF a, b, c, metas
<1>6. Addressed(D, all, metas)
  <2>1. Addressed(D, m.account_keys \o e.writable, a \o b)
    BY <1>3, <1>4, BothAddressed
  <2>2. Addressed(D, m.account_keys \o e.writable \o e.readonly, a \o b \o c)
    BY <1>4, <2>1, BothAddressed
  <2> QED BY <1>5, <2>2 DEF AllKeys
<1>7. /\ a \in Seq(Metas(D)) /\ b \in Seq(Metas(D)) /\ c \in Seq(Metas(D))
      /\ Len(b) = v /\ Len(c) = Len(e.readonly)
  <2>1. \A s, ms : Addressed(D, s, ms) => ms \in Seq(Metas(D)) /\ Len(ms) = Len(s)
    BY AddressesType DEF Addressed
  <2> QED BY <1>3, <1>4, <2>1
<1>8. /\ \A i \in 1..k : metas[i] = a[i]
      /\ \A i \in 1..v : metas[k + i] = b[i]
      /\ \A i \in 1..Len(c) : metas[k + v + i] = c[i]
  <2>1. /\ \A i \in 1..Len(a) : (a \o b \o c)[i] = a[i]
        /\ \A i \in 1..Len(b) : (a \o b \o c)[Len(a) + i] = b[i]
        /\ \A i \in 1..Len(c) : (a \o b \o c)[Len(a) + Len(b) + i] = c[i]
    <3> DEFINE V == Metas(D)
    <3>1. a \in Seq(V) /\ b \in Seq(V) /\ c \in Seq(V)
      BY <1>7
    <3> HIDE DEF V
    <3> QED BY ONLY <3>1, ThreeParts
  <2> HIDE DEF k, v
  <2> QED BY <1>3, <1>5, <1>7, <2>1
<1>9. k \in Nat /\ v \in Nat /\ Len(c) \in Nat /\ Len(all) = k + v + Len(c)
  BY <1>2, <1>7
<1> HIDE DEF all, k, v
<1>10. ASSUME NEW p \in 0..(Len(all) - 1)
       PROVE  Nth(metas, p) = RightsAt(m, metas, v, p)
  <2> DEFINE x == IsSignerIndex(m, p)
             y == \/ IsStaticWritableIndex(m, p)
                  \/ p >= k /\ p - k < v
             t == metas[p + 1]
  <2>1. RightsAt(m, metas, v, p) = Meta(t.address, x, y) /\ Nth(metas, p) = t
    BY Zenon DEF RightsAt, Nth, k
  <2>2. x \in BOOLEAN /\ y \in BOOLEAN
    BY DEF IsSignerIndex, IsStaticWritableIndex
  <2>3. /\ x <=> p < m.num_signers
        /\ p >= k => ~IsStaticWritableIndex(m, p)
    BY <1>9 DEF IsSignerIndex, IsStaticWritableIndex, k
  <2>4. p \in Nat /\ m.num_signers \in Nat /\ m.num_signers <= k
    BY <1>2, <1>9 DEF k
  <2>5. t \in Metas(D) /\ t.signer = x /\ t.writable = y
    <3>1. CASE p < k
      <4>1. p + 1 \in 1..k /\ (p + 1) - 1 = p
        BY <1>9, <2>4, <3>1
      <4>2. t = Meta(m.account_keys[p + 1], x, IsStaticWritableIndex(m, p))
        BY <1>3, <1>8, <4>1, Zenon
      <4>3. y = IsStaticWritableIndex(m, p)
        BY <1>9, <2>4, <3>1 DEF IsStaticWritableIndex
      <4>4. t = a[p + 1] /\ a \in Seq(Metas(D)) /\ p + 1 \in 1..Len(a)
        BY <1>3, <1>7, <1>8, <4>1 DEF k
      <4>5. t \in Metas(D)
        BY <4>4
      <4>6. t = Meta(m.account_keys[p + 1], x, y)
        BY <4>2, <4>3
      <4> HIDE DEF x, y, t
      <4> QED BY <4>5, <4>6 DEF Meta
    <3>2. CASE p >= k /\ p < k + v
      <4>1. p - k + 1 \in 1..v /\ p + 1 = k + (p - k + 1) /\ p - k < v
        BY <1>9, <2>4, <3>2
      <4>2. t = b[p - k + 1]
        BY <1>8, <4>1
      <4>3. t \in MetasWith(D, FALSE, TRUE)
        <5> DEFINE V == MetasWith(D, FALSE, TRUE)
                   i == p - k + 1
        <5>1. b \in Seq(V) /\ i \in 1..Len(b)
          BY <1>4, <1>7, <4>1
        <5> HIDE DEF V, i
        <5>2. b[i] \in V
          BY <5>1
        <5> QED BY <4>2, <5>2 DEF V, i
      <4>4. x = FALSE /\ y = TRUE
        BY <1>9, <2>2, <2>3, <2>4, <3>2, <4>1
      <4> HIDE DEF x, y, t
      <4> QED BY <4>3, <4>4 DEF MetasWith
    <3>3. CASE p >= k + v
      <4>1. p - k - v + 1 \in 1..Len(c) /\ p + 1 = k + v + (p - k - v + 1) /\ ~(p - k < v)
            /\ p >= k
        BY <1>9, <2>4, <3>3
      <4>2. t = c[p - k - v + 1]
        BY <1>8, <4>1
      <4>3. t \in MetasWith(D, FALSE, FALSE)
        <5> DEFINE V == MetasWith(D, FALSE, FALSE)
                   i == p - k - v + 1
        <5>1. c \in Seq(V) /\ i \in 1..Len(c)
          BY <1>4, <4>1
        <5> HIDE DEF V, i
        <5>2. c[i] \in V
          BY <5>1
        <5> QED BY <4>2, <5>2 DEF V, i
      <4>4. ~x /\ ~y
        BY <1>9, <2>3, <2>4, <4>1
      <4>5. x = FALSE /\ y = FALSE
        BY <2>2, <4>4
      <4> HIDE DEF x, y, t
      <4> QED BY <4>3, <4>5 DEF MetasWith
    <3>4. p < k \/ (p >= k /\ p < k + v) \/ p >= k + v
      BY <1>9, <2>4
    <3> QED BY <3>1, <3>2, <3>3, <3>4, Zenon
  <2> HIDE DEF x, y, t
  <2>6. t = Meta(t.address, x, y)
    BY <2>5 DEF Metas, Meta
  <2> QED BY <2>1, <2>6
<1> QED BY <1>6, <1>10 DEF ReadRight, all, v, m, metas

\* The key at a position of the message, as the manager reads it.
LEMMA KeysRead ==
  ASSUME NEW D, NEW ixs, NEW e, SentRight(D, ixs, e), NEW metas,
         ReadRight(D, Sent(ixs, e), e, metas), NEW k \in ToSet(AllKeys(Sent(ixs, e), e))
  PROVE  Nth(metas, IndexOf(AllKeys(Sent(ixs, e), e), k))
           = Meta(k, k \in SignersOf(ixs), k \in WritablesOf(ixs))
<1> DEFINE m == Sent(ixs, e)
           p == IndexOf(AllKeys(m, e), k)
<1>1. Addressed(D, AllKeys(m, e), metas)
  BY DEF ReadRight
<1>2. KeyFound(ixs, m, e, metas, k)
  BY <1>1, KeysFound
<1>3. p \in 0..(Len(AllKeys(m, e)) - 1)
  BY <1>2, Zenon DEF KeyFound
<1>4. Nth(metas, p) = RightsAt(m, metas, Len(e.writable), p)
  <2> HIDE DEF m, p
  <2>1. ReadRight(D, m, e, metas)
    BY DEF m
  <2> QED BY <1>3, <2>1, Zenon DEF ReadRight
<1>5. RightsAt(m, metas, Len(e.writable), p)
        = Meta(k, k \in SignersOf(ixs), k \in WritablesOf(ixs))
  BY <1>2, Zenon DEF KeyFound
<1> QED BY <1>4, <1>5, Zenon

\* The manager reads what was written.
LEMMA ReadIsWritten ==
  ASSUME NEW D, NEW U, NEW table \in [U -> Seq(D)], NEW ixs \in Seq(Writing(D)),
         NEW e, Compiles(D, table, ixs, e)
  PROVE  Decompiled(Deserialized(Sent(ixs, e)), table) = WithRights(ixs)
<1> DEFINE m == Sent(ixs, e)
           all == AllKeys(m, e)
           n == Len(ixs)
           metas == AccountsRead(m, table)
<1>1. /\ SentRight(D, ixs, e)
      /\ m.instructions = [i \in 1..n |-> CompiledAt(ixs, all, i)]
      /\ m.address_table_lookups \in Seq(LookupsIn(table))
      /\ \A i \in 1..n :
           /\ ixs[i].program \in ToSet(all)
           /\ \A j \in 1..Len(ixs[i].accounts) : ixs[i].accounts[j].address \in ToSet(all)
  BY DEF Compiles
<1>2. ReadRight(D, m, e, metas)
  BY AccountsReadRight
<1>3. /\ m.account_keys \in Seq(D) /\ m.num_signers \in Nat /\ m.num_writable_signers \in Nat
      /\ m.num_writable_non_signers \in Nat
  BY <1>1 DEF SentRight
<1> HIDE DEF metas
<1>4. \A k \in ToSet(all) : Nth(metas, IndexOf(all, k))
        = Meta(k, k \in SignersOf(ixs), k \in WritablesOf(ixs))
  BY <1>1, <1>2, KeysRead
<1>5. WithRights(ixs) = [i \in 1..n |-> WithRightsAt(ixs, i)]
  BY WithRightsList
<1> HIDE DEF m
<1>6. Decompiled(Deserialized(m), table)
        = [i \in DOMAIN m.instructions |-> DecompiledAt(m.instructions, metas, i)]
  <2>1. DecompilesTo(m, table, AccountsRead(m, table))
    BY <1>1, <1>3, DecompiledReads
  <2> QED BY <2>1, Zenon DEF DecompilesTo, metas
<1>7. ASSUME NEW i \in 1..n PROVE DecompiledAt(m.instructions, metas, i) = WithRightsAt(ixs, i)
  <2> DEFINE t == ixs[i].accounts
             c == CompiledAt(ixs, all, i)
  <2>1. m.instructions[i] = c
    BY <1>1
  <2>2. /\ c.program = IndexOf(all, ixs[i].program)
        /\ DOMAIN c.accounts = 1..Len(t)
        /\ \A j \in 1..Len(t) : c.accounts[j] = IndexOf(all, t[j].address)
    BY DEF CompiledAt
  <2> HIDE DEF c
  <2>3. Nth(metas, c.program).address = ixs[i].program
    BY <1>1, <1>4, <2>2 DEF Meta
  <2>4. \A j \in 1..Len(t) : Nth(metas, c.accounts[j])
          = Meta(t[j].address, t[j].address \in SignersOf(ixs), t[j].address \in WritablesOf(ixs))
    <3>1. TAKE j \in 1..Len(t)
    <3> DEFINE k == t[j].address
    <3>2. c.accounts[j] = IndexOf(all, k) /\ k \in ToSet(all)
      BY <1>1, <2>2
    <3> HIDE DEF k
    <3>3. Nth(metas, c.accounts[j]) = Meta(k, k \in SignersOf(ixs), k \in WritablesOf(ixs))
      BY <1>4, <3>2, Zenon
    <3> QED BY <3>3, Zenon DEF k
  <2> HIDE DEF t
  <2>5. [j \in 1..Len(t) |-> Nth(metas, c.accounts[j])]
          = [j \in 1..Len(t) |->
              Meta(t[j].address, t[j].address \in SignersOf(ixs),
                   t[j].address \in WritablesOf(ixs))]
    BY <2>4, Zenon
  <2>6. WithRightsAt(ixs, i) =
          [program  |-> ixs[i].program,
           accounts |-> [j \in 1..Len(t) |->
              Meta(t[j].address, t[j].address \in SignersOf(ixs),
                   t[j].address \in WritablesOf(ixs))]]
    BY Zenon DEF WithRightsAt, t
  <2>7. DecompiledAt(m.instructions, metas, i) =
          [program  |-> Nth(metas, c.program).address,
           accounts |-> [j \in DOMAIN c.accounts |-> Nth(metas, c.accounts[j])]]
    BY <2>1, Zenon DEF DecompiledAt
  <2> QED BY <2>2, <2>3, <2>5, <2>6, <2>7
<1>8. DOMAIN m.instructions = 1..n
  BY <1>1
<1> HIDE DEF n, all
<1>9. Decompiled(Deserialized(m), table) = [i \in 1..n |-> WithRightsAt(ixs, i)]
  BY <1>6, <1>7, <1>8
<1> QED BY <1>5, <1>9 DEF m

\* The manager reads in the bytes of a buffer the instructions that were written, each
\* account with the rights that they ask for, whatever they are, whatever tables are
\* given and whatever these hold: the manager's decompiler counts the loaded accounts
\* as the client's compiler does.
THEOREM ManagerReadsBuffers ==
  ASSUME NEW D, Vault \in D, NEW U, U \subseteq D, NEW table \in [U -> Seq(D)],
         NEW ixs \in Seq(Writing(D)), NEW ts \in Seq(U), NEW n \in Nat, n # 0
  PROVE  Decompiled(MessageIn(BytesOf(Serialized(Compiled(ixs, ts, table)), n)), table)
           = WithRights(ixs)
<1> DEFINE e == ExtractedTables(ixs, ts, table)
           m == Serialized(Compiled(ixs, ts, table))
<1>1. m = Sent(ixs, e)
  BY Zenon DEF Compiled, Sent
<1>2. Compiles(D, table, ixs, e)
  <2>1. Extraction(D, table, ToSet(KeysOf(ixs)), SignersOf(ixs), WritablesOf(ixs), e)
    BY ExtractionHolds
  <2> HIDE DEF e
  <2> QED BY <2>1, ExtractionCompiles
<1> HIDE DEF e, m
<1>3. MessageIn(BytesOf(m, n)) = Deserialized(m)
  <2>1. 1 \in 1..n
    OBVIOUS
  <2>2. BytesOf(m, n)[1] = <<m, 1>>
    BY <2>1 DEF BytesOf
  <2> QED BY <2>2 DEF MessageIn
<1>4. Decompiled(Deserialized(m), table) = WithRights(ixs)
  BY <1>1, <1>2, ReadIsWritten
<1> QED BY <1>3, <1>4 DEF m

-----------------------------------------------------------------------------
(* A packed message, as the manager reads it.                              *)

\* What was written, without the rights.
AddressesOf(ixs) ==
  Mapped(ixs, LAMBDA ix : [program |-> ix.program, accounts |-> AddressesIn(ix.accounts)])

\* What the manager finds at a position.
FoundAt(available, i) == IF i + 1 \in DOMAIN available THEN Nth(available, i) ELSE Undefined

ParsedAt(available, ix) ==
  [program  |-> FoundAt(available, ix.program),
   accounts |-> [j \in DOMAIN ix.accounts |-> FoundAt(available, ix.accounts[j])]]

Available(outer, n) == SubSeq(outer, AccountsOffset + n + 1, Len(outer))

ParsesTo(outer, lookups, ixs, available) ==
  ParsedInner(outer, lookups, ixs)
    = IF \E ix \in ToSet(ixs) : FoundAt(available, ix.program) = Undefined THEN Refused
      ELSE [i \in DOMAIN ixs |-> ParsedAt(available, ixs[i])]

LEMMA ParsedReads ==
  ASSUME NEW outer, NEW lookups, NEW ixs
  PROVE  ParsesTo(outer, lookups, ixs, Available(outer, Len(lookups)))
BY Zenon DEF ParsesTo, ParsedInner, Mapped, FoundAt, ParsedAt, Available

LEMMA AddressesOfList ==
  ASSUME NEW D, NEW ixs \in Seq(Writing(D))
  PROVE  AddressesOf(ixs)
           = [i \in 1..Len(ixs) |->
                [program  |-> ixs[i].program,
                 accounts |-> [j \in 1..Len(ixs[i].accounts) |-> ixs[i].accounts[j].address]]]
<1>1. DOMAIN ixs = 1..Len(ixs) /\ \A i \in 1..Len(ixs) : ixs[i] \in Writing(D)
  OBVIOUS
<1>2. ASSUME NEW i \in 1..Len(ixs)
      PROVE  AddressesIn(ixs[i].accounts)
               = [j \in 1..Len(ixs[i].accounts) |-> ixs[i].accounts[j].address]
  <2>1. DOMAIN ixs[i].accounts = 1..Len(ixs[i].accounts)
    BY <1>1 DEF Writing
  <2> QED BY <2>1, Zenon DEF AddressesIn, Mapped
<1>3. AddressesOf(ixs) = [i \in DOMAIN ixs |-> [program  |-> ixs[i].program,
                                                accounts |-> AddressesIn(ixs[i].accounts)]]
  BY Zenon DEF AddressesOf, Mapped
<1> QED BY <1>1, <1>2, <1>3, Zenon

\* The accounts of an instruction of which three come before the remaining ones.
AvailableFrom(r, n, available) ==
  /\ DOMAIN available = 1..(Len(r) - n)
  /\ \A i \in 1..(Len(r) - n) : available[i] = r[n + i].address

LEMMA AvailableAccounts ==
  ASSUME NEW D, NEW r \in Seq(Metas(D)), NEW c1, NEW c2, NEW c3, NEW n \in Nat, n <= Len(r),
         NEW outer, outer = <<c1, c2, c3>> \o AddressesIn(r)
  PROVE  AvailableFrom(r, n, Available(outer, n))
<1> DEFINE available == Available(outer, n)
           a == AddressesIn(r)
           X == D \cup {c1, c2, c3}
           c == <<c1, c2, c3>>
           q == Len(r)
<1>1. a \in Seq(D) /\ Len(a) = q /\ \A i \in 1..q : a[i] = r[i].address
  BY AddressesType
<1>2. q \in Nat /\ n \in Nat /\ n <= q
  OBVIOUS
<1> HIDE DEF a, q
<1>3. c \in Seq(X) /\ Len(c) = 3 /\ a \in Seq(X)
  BY <1>1
<1> HIDE DEF c, X
<1>4. /\ outer \in Seq(X) /\ Len(outer) = 3 + q
      /\ \A i \in 1..q : outer[3 + i] = a[i]
  <2>1. /\ c \o a \in Seq(X) /\ Len(c \o a) = Len(c) + Len(a)
        /\ \A i \in 1..Len(a) : (c \o a)[Len(c) + i] = a[i]
    <3>1. c \in Seq(X) /\ a \in Seq(X)
      BY <1>3
    <3> QED BY ONLY <3>1, Concatenated
  <2>2. outer = c \o a
    BY DEF c, a
  <2> QED BY <1>1, <1>3, <2>1, <2>2
<1> DEFINE b == 3 + n
           d == q - n
<1>5. /\ b \in Nat /\ d \in Nat /\ b + d = 3 + q
      /\ \A i \in 1..d : b + i \in 1..(3 + q) /\ n + i \in 1..q /\ b + i = 3 + (n + i)
  BY <1>2
<1> HIDE DEF b, d
<1>6. available = SubSeq(outer, b + 1, b + d)
  BY <1>4, <1>5 DEF Available, AccountsOffset, b
<1> HIDE DEF available
<1>7. available \in Seq(X) /\ Len(available) = d /\ \A i \in 1..d : available[i] = outer[b + i]
  <2>1. \A i \in 1..d : b + i \in 1..Len(outer)
    BY <1>4, <1>5
  <2>2. outer \in Seq(X) /\ b \in Nat /\ d \in Nat /\ \A i \in 1..d : b + i \in 1..Len(outer)
    BY <1>4, <1>5, <2>1
  <2> QED BY ONLY <1>6, <2>2, PartOf
<1>8. \A i \in 1..d : available[i] = r[n + i].address
  <2> TAKE i \in 1..d
  <2>1. available[i] = outer[b + i]
    BY <1>7
  <2>2. b + i = 3 + (n + i) /\ n + i \in 1..q
    BY <1>5
  <2>3. outer[3 + (n + i)] = a[n + i]
    BY <1>4, <2>2
  <2>4. a[n + i] = r[n + i].address
    BY <1>1, <2>2
  <2> QED BY <2>1, <2>2, <2>3, <2>4
<1>9. DOMAIN available = 1..d
  BY <1>7
<1> QED BY <1>8, <1>9 DEF AvailableFrom, available, d, q

\* The message's accounts, one after the other from place n on.
InARow(all, n, r) ==
  /\ n + Len(all) <= Len(r)
  /\ \A i \in 1..Len(all) : r[n + i].address = all[i]

CompiledFor(ixs, all, compiled) ==
  /\ compiled = [i \in 1..Len(ixs) |-> CompiledAt(ixs, all, i)]
  /\ \A i \in 1..Len(ixs) :
       /\ ixs[i].program \in ToSet(all) /\ ixs[i].program # Undefined
       /\ \A j \in 1..Len(ixs[i].accounts) : ixs[i].accounts[j].address \in ToSet(all)

\* What the manager reads behind three other accounts.
FindsWritten(c1, c2, c3, r, lookups, compiled, ixs) ==
  ParsedInner(<<c1, c2, c3>> \o AddressesIn(r), lookups, compiled) = AddressesOf(ixs)

LEMMA RowIsRead ==
  ASSUME NEW D, NEW r \in Seq(Metas(D)), NEW n \in Nat, NEW all \in Seq(D), InARow(all, n, r),
         NEW ixs \in Seq(Writing(D)), NEW compiled, CompiledFor(ixs, all, compiled),
         NEW lookups, Len(lookups) = n, NEW c1, NEW c2, NEW c3
  PROVE  FindsWritten(c1, c2, c3, r, lookups, compiled, ixs)
<1> DEFINE outer == <<c1, c2, c3>> \o AddressesIn(r)
           available == Available(outer, n)
<1>0. /\ compiled = [i \in 1..Len(ixs) |-> CompiledAt(ixs, all, i)]
      /\ \A i \in 1..Len(ixs) :
           /\ ixs[i].program \in ToSet(all) /\ ixs[i].program # Undefined
           /\ \A j \in 1..Len(ixs[i].accounts) : ixs[i].accounts[j].address \in ToSet(all)
  BY DEF CompiledFor
<1>1. /\ n + Len(all) <= Len(r) /\ Len(all) \in Nat /\ Len(r) \in Nat /\ n <= Len(r)
      /\ \A i \in 1..Len(all) : r[n + i].address = all[i]
  BY DEF InARow
<1>2. /\ DOMAIN available = 1..(Len(r) - n)
      /\ \A i \in 1..(Len(r) - n) : available[i] = r[n + i].address
  <2>1. AvailableFrom(r, n, available)
    BY <1>1, AvailableAccounts
  <2> HIDE DEF available
  <2> QED BY <2>1 DEF AvailableFrom
<1>3. ParsedInner(outer, lookups, compiled)
        = IF \E ix \in ToSet(compiled) : FoundAt(available, ix.program) = Undefined THEN Refused
          ELSE [i \in DOMAIN compiled |-> ParsedAt(available, compiled[i])]
  <2>1. ParsesTo(outer, lookups, compiled, Available(outer, Len(lookups)))
    BY ParsedReads
  <2>2. ParsesTo(outer, lookups, compiled, available)
    BY <2>1
  <2> HIDE DEF outer, available
  <2> QED BY <2>2, Zenon DEF ParsesTo
<1> HIDE DEF outer, available
<1>4. ASSUME NEW k \in ToSet(all) PROVE FoundAt(available, IndexOf(all, k)) = k
  <2> DEFINE p == IndexOf(all, k)
  <2>1. p \in 0..(Len(all) - 1) /\ Nth(all, p) = k
    BY Found
  <2> HIDE DEF p
  <2>2. p + 1 \in 1..Len(all) /\ p + 1 \in 1..(Len(r) - n)
    BY <1>1, <2>1
  <2>3. available[p + 1] = all[p + 1] /\ p + 1 \in DOMAIN available
    BY <1>1, <1>2, <2>2
  <2> QED BY <2>1, <2>3, Zenon DEF FoundAt, Nth, p
<1>5. ASSUME NEW i \in 1..Len(ixs)
      PROVE  ParsedAt(available, compiled[i])
               = [program  |-> ixs[i].program,
                  accounts |-> [j \in 1..Len(ixs[i].accounts) |-> ixs[i].accounts[j].address]]
  <2> DEFINE t == ixs[i].accounts
             c == compiled[i]
  <2>1. /\ c.program = IndexOf(all, ixs[i].program)
        /\ DOMAIN c.accounts = 1..Len(t)
        /\ \A j \in 1..Len(t) : c.accounts[j] = IndexOf(all, t[j].address)
    BY <1>0 DEF CompiledAt
  <2> HIDE DEF c
  <2>2. FoundAt(available, c.program) = ixs[i].program
    BY <1>0, <1>4, <2>1
  <2>3. \A j \in 1..Len(t) : FoundAt(available, c.accounts[j]) = t[j].address
    BY <1>0, <1>4, <2>1
  <2> HIDE DEF t
  <2>4. [j \in DOMAIN c.accounts |-> FoundAt(available, c.accounts[j])]
          = [j \in 1..Len(t) |-> t[j].address]
    BY <2>1, <2>3, Zenon
  <2>5. ParsedAt(available, c)
          = [program  |-> ixs[i].program, accounts |-> [j \in 1..Len(t) |-> t[j].address]]
    BY <2>2, <2>4, Zenon DEF ParsedAt
  <2> QED BY <2>5 DEF t, c
<1>6. DOMAIN compiled = 1..Len(ixs)
  BY <1>0
<1>7. ~ \E ix \in ToSet(compiled) : FoundAt(available, ix.program) = Undefined
  <2> SUFFICES ASSUME NEW i \in 1..Len(ixs)
               PROVE  FoundAt(available, compiled[i].program) # Undefined
    BY <1>6 DEF ToSet
  <2>1. compiled[i].program = IndexOf(all, ixs[i].program)
    BY <1>0 DEF CompiledAt
  <2> QED BY <1>0, <1>4, <2>1
<1>8. AddressesOf(ixs)
        = [i \in 1..Len(ixs) |->
             [program  |-> ixs[i].program,
              accounts |-> [j \in 1..Len(ixs[i].accounts) |-> ixs[i].accounts[j].address]]]
  BY AddressesOfList
<1>9. ParsedInner(outer, lookups, compiled) = AddressesOf(ixs)
  BY <1>3, <1>5, <1>6, <1>7, <1>8, Zenon
<1> QED BY <1>9 DEF outer, FindsWritten

\* One lookup loads its writable accounts and then its readonly ones: in the order in
\* which the message counts them.
LEMMA OneTableLoads ==
  ASSUME NEW D, NEW U, NEW table \in [U -> Seq(D)], NEW ls \in Seq(LookupsIn(table)),
         Len(ls) <= 1
  PROVE  LoadedAddresses(ls, table)
           = FlattenSeq(WritableLoaded(ls, table)) \o FlattenSeq(ReadonlyLoaded(ls, table))
<1>1. /\ WritableLoaded(<< >>, table) = << >> /\ ReadonlyLoaded(<< >>, table) = << >>
      /\ LoadedAddresses(<< >>, table) = << >>
  BY NothingLoaded DEF WritableLoaded, ReadonlyLoaded
<1>2. CASE ls = << >>
  <2>1. FlattenSeq(<< >>) = << >>
    BY FlattenAppend
  <2>2. << >> \o << >> = << >>
    OBVIOUS
  <2> QED BY <1>1, <1>2, <2>1, <2>2
<1>3. CASE ls # << >>
  <2> DEFINE l == ls[1]
             w == Entries(table[l.table], l.writable)
             r == Entries(table[l.table], l.readonly)
  <2>1. l \in LookupsIn(table) /\ ls = Append(<< >>, l) /\ << >> \in Seq(LookupsIn(table))
    <3> DEFINE V == LookupsIn(table)
    <3>1. ls \in Seq(V) /\ Len(ls) <= 1 /\ ls # << >>
      BY <1>3
    <3> HIDE DEF V
    <3>2. Len(ls) = 1
      <4>1. Len(ls) \in Nat /\ << >> \in Seq(V) /\ Len(<< >>) = 0
        BY <3>1
      <4>2. Len(ls) = 0 => ls = << >>
        <5> SUFFICES ASSUME Len(ls) = 0 PROVE ls = << >>
          OBVIOUS
        <5>1. \A i \in 1..Len(ls) : ls[i] = << >>[i]
          OBVIOUS
        <5> QED BY <3>1, <4>1, <5>1, SameSequence
      <4>3. Len(ls) # 0 /\ Len(ls) <= 1
        BY <3>1, <4>2
      <4> DEFINE x == Len(ls)
      <4>4. x \in Nat /\ x # 0 /\ x <= 1
        BY <4>1, <4>3
      <4> HIDE DEF x
      <4>5. x = 1
        BY ONLY <4>4
      <4> QED BY <4>5 DEF x
    <3>3. ls[1] \in V /\ << >> \in Seq(V)
      BY <3>1, <3>2
    <3>4. /\ Append(<< >>, ls[1]) \in Seq(V) /\ Len(Append(<< >>, ls[1])) = 1
          /\ Append(<< >>, ls[1])[1] = ls[1]
      BY <3>3
    <3>5. \A i \in 1..Len(ls) : ls[i] = Append(<< >>, ls[1])[i]
      BY <3>2, <3>4
    <3>6. ls = Append(<< >>, ls[1])
      BY <3>1, <3>2, <3>4, <3>5, SameSequence
    <3> QED BY <3>3, <3>6 DEF V
  <2>2. w \in Seq(D) /\ r \in Seq(D)
    <3>1. LoadedInOrder(D, l, table)
      BY <2>1, LoadedType
    <3> QED BY <3>1 DEF LoadedInOrder
  <2>3. LoadedAddresses(Append(<< >>, l), table) = LoadedAddresses(<< >>, table) \o (w \o r)
    BY <2>1, LoadedTail
  <2>4. /\ WritableLoaded(Append(<< >>, l), table) = Append(WritableLoaded(<< >>, table), w)
        /\ ReadonlyLoaded(Append(<< >>, l), table) = Append(ReadonlyLoaded(<< >>, table), r)
    BY <2>1, LoadedAppend
  <2>5. /\ WritableLoaded(ls, table) = Append(<< >>, w)
        /\ ReadonlyLoaded(ls, table) = Append(<< >>, r)
        /\ LoadedAddresses(ls, table) = << >> \o (w \o r)
    <3> HIDE DEF l, w, r
    <3> QED BY <1>1, <2>1, <2>3, <2>4
  <2> HIDE DEF l, w, r
  <2>6. /\ FlattenSeq(Append(<< >>, w)) = << >> \o w
        /\ FlattenSeq(Append(<< >>, r)) = << >> \o r
    <3>1. << >> \in Seq(Seq(D)) /\ FlattenSeq(<< >>) = << >>
      BY FlattenAppend
    <3> QED BY <2>2, <3>1, FlattenAppend
  <2>7. \A t \in Seq(D) : << >> \o t = t
    OBVIOUS
  <2>8. w \o r \in Seq(D)
    BY <2>2
  <2> QED BY <2>2, <2>5, <2>6, <2>7, <2>8
<1> QED BY <1>2, <1>3

\* A list that has the accounts of the message at their places has them in a row.
LEMMA ListedInARow ==
  ASSUME NEW D, NEW U, NEW table \in [U -> Seq(D)], NEW ixs, NEW e,
         Compiles(D, table, ixs, e), Len(Sent(ixs, e).address_table_lookups) <= 1,
         NEW r, Listing(D, Sent(ixs, e), table, r)
  PROVE  /\ InARow(AllKeys(Sent(ixs, e), e), Len(Sent(ixs, e).address_table_lookups), r)
         /\ AllKeys(Sent(ixs, e), e) \in Seq(D)
<1> DEFINE m == Sent(ixs, e)
           ls == m.address_table_lookups
           keys == m.account_keys
           w == e.writable
           o == e.readonly
           f == FlattenSeq(LoadedLists(ls, table))
           g == LoadedAddresses(ls, table)
           n == Len(ls)
           k == Len(keys)
           all == AllKeys(m, e)
<1>1. /\ SentRight(D, ixs, e) /\ ls = e.lookups /\ ls \in Seq(LookupsIn(table))
      /\ w = FlattenSeq(WritableLoaded(ls, table))
      /\ o = FlattenSeq(ReadonlyLoaded(ls, table))
  BY DEF Compiles
<1>2. keys \in Seq(D) /\ all \in Seq(D) /\ all = (keys \o w) \o o
  BY <1>1 DEF SentRight, AllKeys
<1>3. w \in Seq(D) /\ o \in Seq(D)
  <2>1. /\ n \in Nat
        /\ IsList(WritableLoaded(ls, table), n, Seq(D))
        /\ IsList(ReadonlyLoaded(ls, table), n, Seq(D))
    BY <1>1, LoadedListsType
  <2>2. WritableLoaded(ls, table) \in Seq(Seq(D)) /\ ReadonlyLoaded(ls, table) \in Seq(Seq(D))
    BY <2>1, ListType
  <2> QED BY <1>1, <2>2, FlattenKeeps
<1>4. /\ r \in Seq(Metas(D)) /\ Len(r) >= n + k + Len(f)
      /\ \A i \in 1..k : r[n + i].address = keys[i]
      /\ \A i \in 1..Len(f) : r[n + k + i].address = f[i].address
  BY DEF Listing
<1>5. n <= 1
  OBVIOUS
<1> HIDE DEF m, keys
<1>6. g = w \o o
  BY <1>1, <1>5, OneTableLoads
<1>7. /\ g \in Seq(D) /\ Len(g) = Len(f) /\ Len(f) \in Nat
      /\ \A i \in 1..Len(f) : g[i] = f[i].address
  <2>1. n \in Nat /\ IsList(LoadedLists(ls, table), n, Seq(Metas(D)))
    BY <1>1, LoadedListsType
  <2>2. LoadedLists(ls, table) \in Seq(Seq(Metas(D)))
    BY <2>1, ListType
  <2>3. f \in Seq(Metas(D))
    BY <2>2, FlattenKeeps
  <2>4. Len(f) \in Nat
    <3> DEFINE V == Metas(D)
    <3>1. f \in Seq(V)
      BY <2>3
    <3> HIDE DEF V, f
    <3> QED BY <3>1
  <2> HIDE DEF f
  <2>5. /\ AddressesIn(f) \in Seq(D) /\ Len(AddressesIn(f)) = Len(f)
        /\ \A i \in 1..Len(f) : AddressesIn(f)[i] = f[i].address
    BY <2>3, AddressesType
  <2> QED BY <2>4, <2>5 DEF LoadedAddresses, f
<1> HIDE DEF g, f, all, w, o
<1>8. all = keys \o g
  BY <1>2, <1>3, <1>6
<1>9. /\ Len(all) = k + Len(g) /\ k \in Nat
      /\ \A i \in 1..k : all[i] = keys[i]
      /\ \A i \in 1..Len(g) : all[k + i] = g[i]
  <2>1. keys \in Seq(D) /\ g \in Seq(D)
    BY <1>2, <1>7
  <2>2. /\ Len(keys \o g) = Len(keys) + Len(g) /\ Len(keys) \in Nat
        /\ \A i \in 1..Len(keys) : (keys \o g)[i] = keys[i]
        /\ \A i \in 1..Len(g) : (keys \o g)[Len(keys) + i] = g[i]
    BY ONLY <2>1, Concatenated
  <2> QED BY <1>8, <2>2
<1>10. n \in Nat /\ Len(r) \in Nat
  <2>1. ls \in Seq(LookupsIn(table)) /\ r \in Seq(Metas(D))
    BY <1>1, <1>4
  <2> HIDE DEF ls
  <2> QED BY <2>1
<1> DEFINE v == Len(f)
           q == Len(r)
<1>11. /\ n \in Nat /\ k \in Nat /\ v \in Nat /\ q \in Nat /\ q >= n + k + v
       /\ Len(all) = k + v
  BY <1>4, <1>7, <1>9, <1>10
<1> HIDE DEF n, k, v, q
<1>12. n + Len(all) <= q
  BY ONLY <1>11
<1>13. ASSUME NEW i \in 1..Len(all) PROVE r[n + i].address = all[i]
  <2>1. CASE i \in 1..k
    BY <1>4, <1>9, <2>1
  <2>2. CASE i \notin 1..k
    <3> DEFINE j == i - k
    <3>1. j \in 1..v /\ i = k + j /\ n + i = n + k + j
      BY <1>11, <2>2
    <3> HIDE DEF j
    <3>2. r[n + k + j].address = g[j] /\ all[k + j] = g[j]
      BY <1>4, <1>7, <1>9, <3>1 DEF v
    <3> QED BY <3>1, <3>2
  <2> QED BY <2>1, <2>2
<1> QED BY <1>2, <1>12, <1>13 DEF InARow, m, ls, n, all, q

\* What runs is packed as it is listed.
LEMMA RunIsListed ==
  ASSUME NEW D, NEW table, NEW ixs, NEW ts, NEW additional, NEW Y, NEW ss, NEW assertions,
         NEW message, PackedSet(D, table, ixs, ts, additional, Y, ss, assertions, message),
         NEW sync, sync = ExecuteSync(message, table, ss, additional, assertions),
         NEW signed, ExecutedSync(sync, table, signed) # Refused
  PROVE  /\ Listing(D, Serialized(message), table, sync.remaining)
         /\ sync.remaining \in Seq(Metas(D))
<1> DEFINE m == Serialized(message)
           e == ExtractedTables(ixs, ts, table)
           ms == AccountsForExecute(message, table, additional)
           built == BuildSignerAccounts(ss, Packed(ms), assertions)
           r == sync.remaining
<1>1. /\ PackedOf(D, Y, table, ixs, e, m, ms, built)
      /\ PackedRun(table, ixs, m, ms, sync)
      /\ r = built.packed
  BY Zenon DEF PackedSet
<1> HIDE DEF m, e, ms, built, r
<1>2. DistinctTo(ms, Places(m, table))
  <2>1. Convertible(sync) /\ ExecutedAs(ConvertedMessage(sync), sync, table, signed) # Refused
    BY Zenon DEF ExecutedSync
  <2>2. Executed(ConvertedMessage(sync), r, table, {}) # Refused
    BY <2>1, Zenon DEF ExecutedAs, r
  <2> QED BY <1>1, <2>1, <2>2, Zenon DEF PackedRun, r
<1>3. /\ NamedOnce(D, m, table) /\ Listing(D, m, table, ms)
      /\ Len(FlattenSeq(LoadedLists(m.address_table_lookups, table))) \in Nat
      /\ MembersKeep(D, Y, ms, built)
  BY <1>1 DEF PackedOf
<1>4. r \in Seq(Metas(D)) /\ Packs(ms, r)
  BY <1>1, <1>3 DEF MembersKeep, MembersBuilt
<1>5. Len(m.address_table_lookups) \in Nat /\ Len(m.account_keys) \in Nat
  <2>1. m.account_keys \in Seq(D) /\ m.address_table_lookups \in Seq(LookupsIn(table))
    BY <1>3 DEF NamedOnce
  <2> QED BY <2>1
<1>6. Listing(D, m, table, r)
  BY <1>2, <1>3, <1>4, <1>5, PackedAsListed
<1> QED BY <1>4, <1>6 DEF m, r

LEMMA PackedIsRead ==
  ASSUME NEW D, NEW U, NEW table, NEW ixs, NEW ts, NEW additional, NEW Y, NEW ss,
         NEW assertions, NEW message, NEW ms,
         Packing(D, U, table, ixs, ts, additional, Y, ss, assertions, message, ms),
         \A i \in 1..Len(ixs) : ixs[i].program # Undefined, Len(message.lookups) <= 1,
         NEW sync, sync = ExecuteSync(message, table, ss, additional, assertions),
         NEW signed, ExecutedSync(sync, table, signed) # Refused,
         NEW c1, NEW c2, NEW c3
  PROVE  FindsWritten(c1, c2, c3, sync.remaining, sync.lookups, sync.wire.instructions, ixs)
<1>0. /\ Vault \in D /\ U \subseteq D /\ table \in [U -> Seq(D)]
      /\ ixs \in Seq(Writing(D)) /\ ts \in Seq(U) /\ additional \in Seq(D)
      /\ (\A y \in Y : IsMember(y, D)) /\ ss \in Seq(Y) /\ assertions \in Seq(Y)
      /\ message = Compiled(ixs, ts, table)
      /\ ms = AccountsForExecute(message, table, additional)
  BY Zenon DEF Packing
<1> USE <1>0
<1> DEFINE m == Serialized(message)
           e == ExtractedTables(ixs, ts, table)
           ls == m.address_table_lookups
           all == AllKeys(m, e)
           r == sync.remaining
<1>1. PackedSet(D, table, ixs, ts, additional, Y, ss, assertions, message)
  BY PackedSetRun
<1>2. Listing(D, m, table, r) /\ r \in Seq(Metas(D))
  BY <1>1, RunIsListed
<1>3. /\ Compiles(D, table, ixs, e) /\ m = Sent(ixs, e)
      /\ ls \in Seq(LookupsIn(table))
  BY <1>1, Zenon DEF PackedSet, PackedOf, NamedOnce
<1>4. ls = message.lookups
  BY DEF Serialized
<1>5. /\ sync.wire = m /\ sync.lookups = SyncLookups(ls, ms)
  <2>1. message.lookups \in Seq(LookupsIn(table))
    BY <1>3, <1>4
  <2>2. /\ sync.wire = Serialized(message)
        /\ sync.lookups = SyncLookups(message.lookups, ms)
    BY <2>1, PackedParts
  <2> QED BY <1>4, <2>2
<1>6. Len(ls) <= 1 /\ Len(ls) \in Nat
  <2> HIDE DEF m
  <2>1. Len(ls) \in Nat
    BY <1>3
  <2> QED BY <1>4, <2>1
<1> HIDE DEF m, e, ls
<1>7. Len(sync.lookups) = Len(ls)
  <2>1. Len(SyncLookups(ls, ms)) = Len(ls)
    BY <1>6 DEF SyncLookups
  <2> QED BY <1>5, <2>1
<1>8. InARow(all, Len(ls), r) /\ all \in Seq(D)
  <2>1. Len(Sent(ixs, e).address_table_lookups) <= 1 /\ Listing(D, Sent(ixs, e), table, r)
    BY <1>2, <1>3, <1>6 DEF ls
  <2> HIDE DEF r
  <2>2. /\ InARow(AllKeys(Sent(ixs, e), e), Len(Sent(ixs, e).address_table_lookups), r)
        /\ AllKeys(Sent(ixs, e), e) \in Seq(D)
    BY <1>3, <2>1, ListedInARow
  <2> QED BY <1>3, <2>2 DEF ls
<1>9. CompiledFor(ixs, all, m.instructions)
  <2>1. /\ m.instructions = [i \in 1..Len(ixs) |-> CompiledAt(ixs, all, i)]
        /\ \A i \in 1..Len(ixs) :
             /\ ixs[i].program \in ToSet(all)
             /\ \A j \in 1..Len(ixs[i].accounts) : ixs[i].accounts[j].address \in ToSet(all)
    BY <1>3 DEF Compiles
  <2> QED BY <2>1 DEF CompiledFor
<1> HIDE DEF all, r
<1>10. FindsWritten(c1, c2, c3, r, sync.lookups, m.instructions, ixs)
  BY <1>2, <1>6, <1>7, <1>8, <1>9, RowIsRead
<1> QED BY <1>5, <1>10 DEF r

\* The manager reads in a packed message with one lookup table at most the
\* instructions that will run, if it runs at all, whatever accounts repeat, whatever the
\* table holds, whoever signs and whatever they signed.
THEOREM ManagerReadsPacked ==
  ASSUME NEW D, Vault \in D, NEW U, U \subseteq D, NEW table \in [U -> Seq(D)],
         NEW ixs \in Seq(Writing(D)), \A i \in 1..Len(ixs) : ixs[i].program # Undefined,
         NEW ts \in Seq(U), NEW additional \in Seq(D),
         NEW Y, \A y \in Y : IsMember(y, D), NEW ss \in Seq(Y), NEW assertions \in Seq(Y),
         NEW message, message = Compiled(ixs, ts, table), Len(message.lookups) <= 1,
         NEW sync, sync = ExecuteSync(message, table, ss, additional, assertions),
         NEW signed, ExecutedSync(sync, table, signed) # Refused,
         NEW c1, NEW c2, NEW c3
  PROVE  ParsedInner(<<c1, c2, c3>> \o AddressesIn(sync.remaining), sync.lookups,
                     sync.wire.instructions) = AddressesOf(ixs)
<1> DEFINE ms == AccountsForExecute(message, table, additional)
<1>1. Packing(D, U, table, ixs, ts, additional, Y, ss, assertions, message, ms)
  BY DEF Packing
<1> HIDE DEF ms
<1>2. FindsWritten(c1, c2, c3, sync.remaining, sync.lookups, sync.wire.instructions, ixs)
  BY <1>1, PackedIsRead
<1> QED BY <1>2 DEF FindsWritten

-----------------------------------------------------------------------------
(* The manager and the client of MCClient.                                 *)

\* The vault's instructions call programs that have addresses.
ProgramsOK ==
  \A i \in 1..Len(instructions) : instructions[i].program \in {P, Q}

LEMMA ProgramsAlwaysOK == Spec => []ProgramsOK
<1>1. Init => ProgramsOK
  BY DEF Init, ProgramsOK
<1>2. ClientTypeOK /\ ProgramsOK /\ [Next]_vars => ProgramsOK'
  <2> SUFFICES ASSUME ClientTypeOK, ProgramsOK, [Next]_vars PROVE ProgramsOK'
    OBVIOUS
  <2>1. CASE AddInstruction
    <3>1. PICK f \in Firsts, s \in Seconds :
            instructions' = Append(instructions,
              Instruction(ProgramOf(Len(instructions) + 1), <<f, s>>))
      BY <2>1 DEF AddInstruction
    <3> DEFINE ix == Instruction(ProgramOf(Len(instructions) + 1), <<f, s>>)
               n == Len(instructions)
    <3>2. ix.program \in {P, Q}
      BY DEF Instruction, ProgramOf
    <3>3. /\ n \in Nat /\ Len(instructions') = n + 1 /\ instructions'[n + 1] = ix
          /\ \A i \in 1..n : instructions'[i] = instructions[i]
      <4>1. instructions \in Seq(Writing(Known))
        BY DEF ClientTypeOK
      <4>2. n \in Nat
        BY <4>1
      <4> DEFINE Z == Writing(Known) \cup {ix}
      <4>3. instructions \in Seq(Z) /\ ix \in Z
        BY <4>1
      <4> HIDE DEF Z, ix
      <4>4. /\ Len(Append(instructions, ix)) = n + 1
            /\ Append(instructions, ix)[n + 1] = ix
            /\ \A i \in 1..n : Append(instructions, ix)[i] = instructions[i]
        BY <4>3, Appended
      <4> QED BY <3>1, <4>2, <4>4 DEF ix
    <3> HIDE DEF ix
    <3>4. \A i \in 1..(n + 1) : i \in 1..n \/ i = n + 1
      BY <3>3
    <3> QED BY <3>2, <3>3, <3>4 DEF ProgramsOK
  <2>2. CASE AddTable \/ AddRequest \/ AddSyncRequest \/ UNCHANGED vars
    BY <2>2 DEF AddTable, AddRequest, AddSyncRequest, vars, ProgramsOK
  <2> QED BY <2>1, <2>2 DEF Next
<1> QED BY <1>1, <1>2, ClientTypeCorrect, PTL DEF Spec

\* The manager reads the instructions that the vault will execute: with their rights in
\* the bytes of a buffer, whatever message is put together, and in every packed message
\* with one lookup table at most (parseTransactionMessageBytes and
\* parseInnerTransaction against the program).
THEOREM ManagerAlwaysReadsMessages == Spec => []ManagerReadsMessages
<1>1. ClientTypeOK /\ SignersOK /\ ProgramsOK => ManagerReadsMessages
  <2> SUFFICES ASSUME ClientTypeOK, SignersOK, ProgramsOK PROVE ManagerReadsMessages
    OBVIOUS
  <2> DEFINE Y == ToSet(signers)
             U == {T1, T2}
             message == Message
             sync == Sync
  <2>1. Vault \in Known /\ U \subseteq Known
    BY DEF Known
  <2>2. /\ instructions \in Seq(Writing(Known)) /\ tables \in Seq(U)
        /\ contents \in [U -> Seq(Known)]
    BY DEF ClientTypeOK
  <2>3. Additional \in Seq(Known)
    <3>1. SignersOf(instructions) \ {Vault} \in SUBSET Known
      BY <2>1, <2>2, SignersAreKnown
    <3> QED BY <3>1, KnownIsFinite, SetInOrder DEF Additional
  <2>4. /\ signers \in Seq(Y) /\ << >> \in Seq(Y)
        /\ \A y \in Y : IsMember(y, Known)
    <3>1. /\ signers \in Seq(Y)
          /\ \A y \in Y : /\ y.passkey \in BOOLEAN
                          /\ ~y.passkey => y.account = S
                          /\ y.passkey => y.account = <<"domain_config", "rp">>
      BY SignersTell
    <3>2. S \in Known /\ <<"domain_config", "rp">> \in Known
      BY DEF Known
    <3> HIDE DEF Y
    <3>3. ASSUME NEW y \in Y PROVE IsMember(y, Known)
      <4>1. y.account \in Known
        BY <3>1, <3>2
      <4> QED BY <3>1, <4>1 DEF IsMember
    <3>4. << >> \in Seq(Y)
      OBVIOUS
    <3> QED BY <3>1, <3>3, <3>4
  <2>5. \A i \in 1..Len(instructions) : instructions[i].program # Undefined
    BY VaultAssumption, ProgramsAreAddresses DEF ProgramsOK
  <2>6. /\ message = Compiled(instructions, tables, contents)
        /\ sync = ExecuteSync(message, contents, signers, Additional, << >>)
    BY DEF Message, Sync
  <2>7. Decompiled(MessageIn(MessageBytes), contents) = Written
    <3>1. Written = WithRights(instructions)
      BY Zenon DEF Written, WithRights
    <3>2. MessageBytes = BytesOf(Serialized(Compiled(instructions, tables, contents)), 3)
      BY DEF MessageBytes, Message
    <3> DEFINE n == 3
    <3>3. n \in Nat /\ n # 0
      OBVIOUS
    <3> HIDE DEF n, U
    <3>4. Decompiled(MessageIn(BytesOf(Serialized(Compiled(instructions, tables, contents)), n)),
                     contents) = WithRights(instructions)
      BY <2>1, <2>2, <3>3, ManagerReadsBuffers
    <3> QED BY <3>1, <3>2, <3>4 DEF n
  <2>8. ASSUME Len(Message.lookups) <= 1,
               ExecutedSync(Sync, contents, Serialized(Message)) # Refused
        PROVE  ManagerReading(Sync) = WrittenAddresses
    <3>1. WrittenAddresses = AddressesOf(instructions)
      BY Zenon DEF WrittenAddresses, AddressesOf
    <3> DEFINE signed == Serialized(Message)
    <3>2. Len(message.lookups) <= 1 /\ ExecutedSync(sync, contents, signed) # Refused
      BY <2>8
    <3> DEFINE ms == AccountsForExecute(message, contents, Additional)
    <3> HIDE DEF Y, U, message, sync, signed
    <3>3. Packing(Known, U, contents, instructions, tables, Additional, Y, signers, << >>,
                  message, ms)
      BY <2>1, <2>2, <2>3, <2>4, <2>6, Zenon DEF Packing
    <3> HIDE DEF ms
    <3>4. FindsWritten(Settings, SlotHashesSysvar, InstructionsSysvar, sync.remaining,
                       sync.lookups, sync.wire.instructions, instructions)
      BY <2>5, <2>6, <3>2, <3>3, PackedIsRead
    <3> QED BY <3>1, <3>4, Zenon DEF FindsWritten, ManagerReading, sync
  <2> QED BY <2>7, <2>8, Zenon DEF ManagerReadsMessages, ReadAsItRuns
<1> QED BY <1>1, ClientTypeCorrect, SignersAlwaysOK, ProgramsAlwaysOK, PTL

-----------------------------------------------------------------------------
(* Data that is addressed by byte.                                         *)

Sizes(s) == FoldLeft(LAMBDA n, x : n + x.size, 0, s)

\* The steps of such a sum.
SizesRun(g, s) ==
  /\ g[0] = 0
  /\ \A i \in 1..Len(s) : g[i] = g[i - 1] + s[i].size
  /\ Sizes(s) = g[Len(s)]

LEMMA SizesRuns ==
  ASSUME NEW X, \A x \in X : x.size \in Nat, NEW s \in Seq(X)
  PROVE  \E g : SizesRun(g, s)
<1> DEFINE n == Len(s)
           F == [p \in Nat \X (1..n) |-> p[1] + s[p[2]].size]
           Step(h, T) == IF T = {} THEN 0 ELSE h[T \ {Max(T)}] + s[Max(T)].size
           iter == CHOOSE h : h = [T \in SUBSET DOMAIN s |-> Step(h, T)]
           g == [i \in 0..n |-> iter[1..i]]
<1>1. n \in Nat /\ DOMAIN s = 1..n /\ \A i \in 1..n : s[i].size \in Nat
  OBVIOUS
<1>2. \E h : h = [T \in SUBSET DOMAIN s |-> Step(h, T)]
  <2>1. F \in [Nat \X (1..n) -> Nat]
    BY <1>1
  <2> HIDE DEF F
  <2>2. PICK h \in [SUBSET (1..n) -> Nat] : IsFold(h, n, 0, F)
    BY <1>1, <2>1, FoldExists, 0 \in Nat
  <2>3. ASSUME NEW T \in SUBSET (1..n) PROVE h[T] = Step(h, T)
    <3>1. CASE T = {}
      BY <2>2, <3>1 DEF IsFold
    <3>2. CASE T # {}
      <4>1. Max(T) \in 1..n
        BY <1>1, <3>2, MaxIn, Zenon
      <4>2. h[T \ {Max(T)}] \in Nat
        OBVIOUS
      <4>3. F[<<h[T \ {Max(T)}], Max(T)>>] = h[T \ {Max(T)}] + s[Max(T)].size
        BY <4>1, <4>2 DEF F
      <4> QED BY <2>2, <3>2, <4>3 DEF IsFold
    <3> QED BY <3>1, <3>2
  <2> HIDE DEF Step
  <2>4. h = [T \in SUBSET DOMAIN s |-> Step(h, T)]
    BY <1>1, <2>3
  <2> QED BY <2>4
<1>3. iter = [T \in SUBSET DOMAIN s |-> Step(iter, T)]
  BY <1>2, Zenon
<1>4. Sizes(s) = iter[DOMAIN s]
  BY Zenon DEF Sizes, FoldLeft, MapThenFoldSet
<1> HIDE DEF iter
<1>5. g[0] = 0 /\ g[n] = iter[DOMAIN s]
  BY <1>1, <1>3
<1>6. ASSUME NEW i \in 1..n PROVE g[i] = g[i - 1] + s[i].size
  <2>1. Max(1..i) = i /\ (1..i) \ {Max(1..i)} = 1..(i - 1) /\ 1..i # {}
    BY MaxOfFirst
  <2>2. 1..i \in SUBSET DOMAIN s /\ g[i] = iter[1..i] /\ g[i - 1] = iter[1..(i - 1)]
    BY <1>1
  <2>3. iter[1..i] = Step(iter, 1..i)
    BY <1>3, <2>2, Zenon
  <2> QED BY <2>1, <2>2, <2>3
<1> HIDE DEF g
<1>7. SizesRun(g, s)
  BY <1>4, <1>5, <1>6 DEF SizesRun
<1> QED BY <1>7

\* Where the pieces begin.
LEMMA SizesUpTo ==
  ASSUME NEW X, \A x \in X : x.size \in Nat, NEW s \in Seq(X), NEW g, SizesRun(g, s),
         NEW i \in 0..Len(s)
  PROVE  Sizes(SubSeq(s, 1, i)) = g[i]
<1> DEFINE t == SubSeq(s, 1, i)
<1>1. t \in Seq(X) /\ Len(t) = i /\ i \in Nat /\ \A j \in 1..i : t[j] = s[j] /\ j \in 1..Len(s)
  OBVIOUS
<1> HIDE DEF t
<1>2. PICK h : SizesRun(h, t)
  BY <1>1, SizesRuns
<1>3. h[0] = g[0] /\ \A j \in 1..i : h[j - 1] = g[j - 1] => h[j] = g[j]
  BY <1>1, <1>2 DEF SizesRun
<1>4. h[i] = g[i]
  BY <1>1, <1>3, SameSteps
<1> QED BY <1>1, <1>2, <1>4 DEF SizesRun, t

\* No two pieces begin at the same byte.
LEMMA SizesGrow ==
  ASSUME NEW X, \A x \in X : x.size \in Nat \ {0}, NEW s \in Seq(X), NEW g, SizesRun(g, s)
  PROVE  \A j \in 0..Len(s) : g[j] \in Nat /\ \A i \in 0..Len(s) : i < j => g[i] < g[j]
<1> DEFINE n == Len(s)
           N == {m \in Nat : m <= n =>
                  /\ g[m] \in Nat
                  /\ \A i \in 0..n : i < m => g[i] \in Nat /\ g[i] < g[m]}
<1>1. n \in Nat /\ \A j \in 1..n : s[j].size \in Nat \ {0} /\ g[j] = g[j - 1] + s[j].size
  BY DEF SizesRun
<1>2. 0 \in N
  BY DEF SizesRun
<1>3. \A m \in Nat : m \in N => m + 1 \in N
  <2> SUFFICES ASSUME NEW m \in Nat, m \in N, m + 1 <= n
               PROVE  /\ g[m + 1] \in Nat
                      /\ \A i \in 0..n : i < m + 1 => g[i] \in Nat /\ g[i] < g[m + 1]
    OBVIOUS
  <2>1. g[m] \in Nat /\ \A i \in 0..n : i < m => g[i] \in Nat /\ g[i] < g[m]
    BY <1>1
  <2>2. m + 1 \in 1..n /\ (m + 1) - 1 = m
    BY <1>1
  <2>3. g[m + 1] \in Nat /\ g[m] < g[m + 1]
    BY <1>1, <2>1, <2>2
  <2>4. \A i \in 0..n : i < m + 1 => i = m \/ i < m
    BY <1>1
  <2> HIDE DEF N, n
  <2> QED BY <2>1, <2>3, <2>4
<1> HIDE DEF N
<1>4. Nat \subseteq N
  BY <1>2, <1>3, SetInduction
<1> QED BY <1>1, <1>4 DEF N

\* A piece is found at the byte at which it begins.
LEMMA PieceFound ==
  ASSUME NEW X, \A x \in X : x.size \in Nat \ {0}, NEW s \in Seq(X), NEW g, SizesRun(g, s),
         NEW p \in 1..Len(s)
  PROVE  BytesAt(s, g[p - 1], s[p].size) = s[p].content
<1> DEFINE z == s[p].size
           from == g[p - 1]
           places == {q \in DOMAIN s : s[q].size = z /\ Sizes(SubSeq(s, 1, q - 1)) = from}
           found == {s[q] : q \in places}
<1>1. DOMAIN s = 1..Len(s) /\ Len(s) \in Nat
  OBVIOUS
<1>2. \A q \in 1..Len(s) : q - 1 \in 0..Len(s) /\ Sizes(SubSeq(s, 1, q - 1)) = g[q - 1]
  <2>1. \A x \in X : x.size \in Nat
    OBVIOUS
  <2>2. \A q \in 1..Len(s) : q - 1 \in 0..Len(s)
    BY <1>1
  <2> QED BY <2>1, <2>2, SizesUpTo
<1>3. \A q \in 1..Len(s) : g[q - 1] = g[p - 1] => q = p
  <2>1. \A j \in 0..Len(s) : g[j] \in Nat /\ \A i \in 0..Len(s) : i < j => g[i] < g[j]
    BY SizesGrow
  <2> SUFFICES ASSUME NEW q \in 1..Len(s), g[q - 1] = g[p - 1] PROVE q = p
    OBVIOUS
  <2>2. q - 1 \in 0..Len(s) /\ p - 1 \in 0..Len(s) /\ p \in Nat /\ q \in Nat
    BY <1>1
  <2>3. ~(q - 1 < p - 1) /\ ~(p - 1 < q - 1)
    BY <2>1, <2>2
  <2> QED BY <2>2, <2>3
<1>4. places = {p}
  BY <1>1, <1>2, <1>3
<1> HIDE DEF places
<1>5. found = {s[p]}
  BY <1>4
<1>6. BytesAt(s, from, z) = IF found = {} THEN Refused ELSE (CHOOSE x \in found : TRUE).content
  BY Zenon DEF BytesAt, Sizes, found, places
<1> HIDE DEF found
<1>7. (CHOOSE x \in found : TRUE) = s[p] /\ found # {}
  BY <1>5
<1> QED BY <1>6, <1>7

-----------------------------------------------------------------------------
(* The instruction that verifies assertions.                               *)

\* Where the assertions before number k + 1 end, counted from where the first begins.
Before(input, k) == SumOf(Mapped(SubSeq(input, 1, k), LAMBDA s : 33 + 64 + s.size))

OffsetsOf(input, k) ==
  LET start == 2 + 14 * Len(input) + Before(input, k - 1)
  IN  [publicKeyOffset   |-> start,
       signatureOffset   |-> start + 33,
       messageDataOffset |-> start + 33 + 64,
       messageDataSize   |-> input[k].size]

PiecesOf(s) == <<Piece(33, s.key), Piece(64, s.signature), Piece(s.size, s.message)>>

AllPieces(input) == [k \in 1..Len(input) |-> PiecesOf(input[k])]

\* The pieces that data for a list over Y can have.
PiecesFor(Y, input) ==
  {Piece(1, Len(input)), Piece(1, 0)}
  \cup {Piece(14, OffsetsOf(input, k)) : k \in 1..Len(input)}
  \cup {Piece(33, y.key) : y \in Y} \cup {Piece(64, y.signature) : y \in Y}
  \cup {Piece(y.size, y.message) : y \in Y}

\* What lies where in the data for a list.
Laid(d, input) ==
  LET n == Len(input)
  IN  /\ Len(d) = 2 + n + 3 * n
      /\ d[1] = Piece(1, n) /\ d[2] = Piece(1, 0)
      /\ \A k \in 1..n :
            /\ d[2 + k] = Piece(14, OffsetsOf(input, k))
            /\ d[2 + n + 3 * (k - 1) + 1] = Piece(33, input[k].key)
            /\ d[2 + n + 3 * (k - 1) + 2] = Piece(64, input[k].signature)
            /\ d[2 + n + 3 * (k - 1) + 3] = Piece(input[k].size, input[k].message)

LEMMA PiecesSized ==
  ASSUME NEW Y, \A y \in Y : y.size \in Nat \ {0}, NEW input
  PROVE  \A x \in PiecesFor(Y, input) : x.size \in Nat \ {0}
BY DEF PiecesFor, Piece

\* Lists that all have three elements.
LEMMA ThreeEach ==
  ASSUME NEW X, NEW ss \in Seq(Seq(X)), \A i \in 1..Len(ss) : Len(ss[i]) = 3
  PROVE  /\ FlattenSeq(ss) \in Seq(X) /\ Len(FlattenSeq(ss)) = 3 * Len(ss)
         /\ \A k \in 1..Len(ss), c \in 1..3 :
              /\ 3 * (k - 1) + c \in 1..(3 * Len(ss))
              /\ FlattenSeq(ss)[3 * (k - 1) + c] = ss[k][c]
<1> DEFINE Threes(tt) == /\ Len(FlattenSeq(tt)) = 3 * Len(tt)
                         /\ \A k \in 1..Len(tt), c \in 1..3 :
                              FlattenSeq(tt)[3 * (k - 1) + c] = tt[k][c]
           T == {tt \in Seq(Seq(X)) : (\A i \in 1..Len(tt) : Len(tt[i]) = 3) => Threes(tt)}
<1>1. << >> \in T
  <2>1. FlattenSeq(<< >>) = << >>
    BY FlattenAppend
  <2>2. << >> \in Seq(Seq(X)) /\ Len(<< >>) = 0 /\ 1..0 = {}
    OBVIOUS
  <2> QED BY <2>1, <2>2
<1>2. ASSUME NEW tt \in Seq(Seq(X)), NEW u \in Seq(X), tt \in T PROVE Append(tt, u) \in T
  <2> DEFINE uu == Append(tt, u)
             n == Len(tt)
             f == FlattenSeq(tt)
  <2>1. /\ uu \in Seq(Seq(X)) /\ Len(uu) = n + 1 /\ n \in Nat
        /\ uu[n + 1] = u /\ \A i \in 1..n : uu[i] = tt[i]
    BY Appended
  <2>2. FlattenSeq(uu) = f \o u
    <3>1. \A vv \in Seq(Seq(X)), v \in Seq(X) : FlattenSeq(Append(vv, v)) = FlattenSeq(vv) \o v
      BY FlattenAppend
    <3> QED BY <3>1
  <2>3. f \in Seq(X) /\ Len(f) \in Nat
    BY FlattenKeeps
  <2> HIDE DEF uu
  <2> SUFFICES ASSUME \A i \in 1..Len(uu) : Len(uu[i]) = 3 PROVE Threes(uu)
    BY <2>1 DEF uu
  <2>4. Len(u) = 3 /\ \A i \in 1..n : Len(tt[i]) = 3
    BY <2>1
  <2>5. Len(f) = 3 * n /\ \A k \in 1..n, c \in 1..3 : f[3 * (k - 1) + c] = tt[k][c]
    BY <1>2, <2>4
  <2> HIDE DEF T, f
  <2>6. /\ Len(f \o u) = Len(f) + Len(u)
        /\ \A i \in 1..Len(f) : (f \o u)[i] = f[i]
        /\ \A i \in 1..Len(u) : (f \o u)[Len(f) + i] = u[i]
    BY <2>3, Concatenated
  <2> HIDE DEF n
  <2>7. ASSUME NEW k \in 1..(n + 1), NEW c \in 1..3
        PROVE  (f \o u)[3 * (k - 1) + c] = uu[k][c]
    <3>1. CASE k = n + 1
      <4>1. 3 * (k - 1) + c = Len(f) + c
        BY <2>1, <2>5, <3>1
      <4>2. (f \o u)[Len(f) + c] = u[c]
        BY ONLY <2>4, <2>6, c \in 1..3
      <4> QED BY ONLY <2>1, <3>1, <4>1, <4>2
    <3>2. CASE k # n + 1
      <4>1. k \in 1..n
        BY <2>1, <3>2
      <4>2. 3 * (k - 1) + c \in 1..Len(f)
        BY <2>1, <2>5, <4>1
      <4>3. (f \o u)[3 * (k - 1) + c] = f[3 * (k - 1) + c]
        BY ONLY <2>6, <4>2
      <4>4. f[3 * (k - 1) + c] = tt[k][c] /\ uu[k] = tt[k]
        BY ONLY <2>1, <2>5, <4>1, c \in 1..3
      <4> QED BY ONLY <4>3, <4>4
    <3> QED BY <3>1, <3>2
  <2>8. Len(f \o u) = 3 * (n + 1)
    BY <2>1, <2>4, <2>5, <2>6
  <2> QED BY <2>1, <2>2, <2>7, <2>8
<1> HIDE DEF T, Threes
<1>3. ss \in T
  BY <1>1, <1>2, SeqInduction
<1>4. Threes(ss)
  BY <1>3 DEF T
<1>5. FlattenSeq(ss) \in Seq(X) /\ Len(ss) \in Nat
  BY FlattenKeeps
<1>6. \A k \in 1..Len(ss), c \in 1..3 : 3 * (k - 1) + c \in 1..(3 * Len(ss))
  BY <1>5
<1> QED BY <1>4, <1>5, <1>6 DEF Threes

LEMMA AssertionData ==
  ASSUME NEW Y, \A y \in Y : y.size \in Nat \ {0}, NEW input \in Seq(Y),
         NEW d, d = GetSecp256r1VerifyInstruction(input).data
  PROVE  d \in Seq(PiecesFor(Y, input)) /\ Laid(d, input)
<1> DEFINE X == PiecesFor(Y, input)
           n == Len(input)
           offs == [k \in DOMAIN input |-> OffsetsOf(input, k)]
           head == <<Piece(1, n), Piece(1, 0)>>
           table == [k \in 1..n |-> Piece(14, OffsetsOf(input, k))]
           parts == AllPieces(input)
<1>1. n \in Nat /\ DOMAIN input = 1..n /\ \A k \in 1..n : input[k] \in Y
  OBVIOUS
<1>2. d = Secp256r1VerifyData(offs, input)
  BY Zenon DEF GetSecp256r1VerifyInstruction, OffsetsOf, Before
<1>3. DOMAIN offs = 1..n /\ Len(offs) = n /\ \A k \in 1..n : offs[k] = OffsetsOf(input, k)
  BY <1>1
<1> HIDE DEF offs
<1>4. Mapped(offs, LAMBDA o : Piece(14, o)) = table
  BY <1>3 DEF Mapped
<1>5. Mapped(input, LAMBDA s : <<Piece(33, s.key), Piece(64, s.signature),
                                  Piece(s.size, s.message)>>) = parts
  BY <1>1, Zenon DEF Mapped, AllPieces, PiecesOf
<1>6. d = (head \o table) \o FlattenSeq(parts)
  BY <1>2, <1>3, <1>4, <1>5, Zenon DEF Secp256r1VerifyData
<1>7. /\ Piece(1, n) \in X /\ Piece(1, 0) \in X
      /\ \A k \in 1..n : Piece(14, OffsetsOf(input, k)) \in X
      /\ \A y \in Y : /\ Piece(33, y.key) \in X /\ Piece(64, y.signature) \in X
                      /\ Piece(y.size, y.message) \in X
  BY DEF PiecesFor
<1> HIDE DEF X
<1>8. head \in Seq(X) /\ Len(head) = 2 /\ head[1] = Piece(1, n) /\ head[2] = Piece(1, 0)
  BY <1>7
<1>9. table \in Seq(X) /\ Len(table) = n /\ \A k \in 1..n : table[k] = Piece(14, OffsetsOf(input, k))
  <2>1. IsList(table, n, X)
    BY <1>7 DEF IsList
  <2>2. \A k \in 1..n : table[k] = Piece(14, OffsetsOf(input, k))
    OBVIOUS
  <2> HIDE DEF table
  <2> QED BY <1>1, <2>1, <2>2, ListType
<1>10. parts \in Seq(Seq(X)) /\ Len(parts) = n
       /\ \A k \in 1..n : /\ Len(parts[k]) = 3
                          /\ parts[k][1] = Piece(33, input[k].key)
                          /\ parts[k][2] = Piece(64, input[k].signature)
                          /\ parts[k][3] = Piece(input[k].size, input[k].message)
  <2>1. ASSUME NEW k \in 1..n
        PROVE  /\ parts[k] \in Seq(X) /\ Len(parts[k]) = 3
               /\ parts[k][1] = Piece(33, input[k].key)
               /\ parts[k][2] = Piece(64, input[k].signature)
               /\ parts[k][3] = Piece(input[k].size, input[k].message)
    <3>1. parts[k] = <<Piece(33, input[k].key), Piece(64, input[k].signature),
                       Piece(input[k].size, input[k].message)>>
      BY DEF AllPieces, PiecesOf
    <3>2. /\ Piece(33, input[k].key) \in X /\ Piece(64, input[k].signature) \in X
          /\ Piece(input[k].size, input[k].message) \in X
      BY <1>1, <1>7
    <3> QED BY <3>1, <3>2
  <2>2. parts = [k \in 1..n |-> parts[k]]
    BY DEF AllPieces
  <2>3. IsList(parts, n, Seq(X))
    BY <2>1, <2>2 DEF IsList
  <2> HIDE DEF parts
  <2> QED BY <1>1, <2>1, <2>3, ListType
<1> HIDE DEF head, table, parts
<1> DEFINE b == head \o table
           f == FlattenSeq(parts)
<1>11. /\ b \in Seq(X) /\ Len(b) = 2 + n /\ b[1] = Piece(1, n) /\ b[2] = Piece(1, 0)
       /\ \A k \in 1..n : b[2 + k] = Piece(14, OffsetsOf(input, k))
  <2>0. head \in Seq(X) /\ table \in Seq(X)
    BY <1>8, <1>9
  <2>1. /\ b \in Seq(X) /\ Len(b) = Len(head) + Len(table)
        /\ \A i \in 1..Len(head) : b[i] = head[i]
        /\ \A i \in 1..Len(table) : b[Len(head) + i] = table[i]
    BY ONLY <2>0, Concatenated
  <2> HIDE DEF b
  <2> QED BY <1>8, <1>9, <2>1
<1>12. f \in Seq(X) /\ Len(f) = 3 * n
       /\ \A k \in 1..n, c \in 1..3 : /\ 3 * (k - 1) + c \in 1..(3 * n)
                                      /\ f[3 * (k - 1) + c] = parts[k][c]
  <2>1. parts \in Seq(Seq(X)) /\ \A i \in 1..Len(parts) : Len(parts[i]) = 3
    BY <1>10
  <2>2. Len(parts) = n
    BY <1>10
  <2>3. /\ f \in Seq(X) /\ Len(f) = 3 * Len(parts)
        /\ \A k \in 1..Len(parts), c \in 1..3 :
             /\ 3 * (k - 1) + c \in 1..(3 * Len(parts))
             /\ f[3 * (k - 1) + c] = parts[k][c]
    BY ONLY <2>1, ThreeEach
  <2> HIDE DEF n, f
  <2> QED BY ONLY <2>2, <2>3
<1> HIDE DEF b, f
<1>13. /\ b \o f \in Seq(X) /\ Len(b \o f) = Len(b) + Len(f)
       /\ \A i \in 1..Len(b) : (b \o f)[i] = b[i]
       /\ \A i \in 1..Len(f) : (b \o f)[Len(b) + i] = f[i]
  <2>1. b \in Seq(X) /\ f \in Seq(X)
    BY <1>11, <1>12
  <2> QED BY ONLY <2>1, Concatenated
<1>14. d = b \o f
  BY <1>6 DEF b, f
<1>15. /\ d \in Seq(X) /\ Len(d) = 2 + n + 3 * n
       /\ d[1] = Piece(1, n) /\ d[2] = Piece(1, 0)
       /\ \A k \in 1..n : d[2 + k] = Piece(14, OffsetsOf(input, k))
  <2> HIDE DEF n
  <2>1. Len(b) = 2 + n /\ 1 \in 1..Len(b) /\ 2 \in 1..Len(b) /\ \A k \in 1..n : 2 + k \in 1..Len(b)
    BY <1>1, <1>11
  <2> QED BY <1>11, <1>12, <1>13, <1>14, <2>1
<1>16. ASSUME NEW k \in 1..n, NEW c \in 1..3
       PROVE  d[2 + n + 3 * (k - 1) + c] = parts[k][c]
  <2> HIDE DEF n
  <2>1. 2 + n + 3 * (k - 1) + c = Len(b) + (3 * (k - 1) + c)
    BY <1>1, <1>11
  <2>2. 3 * (k - 1) + c \in 1..Len(f)
    BY <1>12
  <2> QED BY <1>12, <1>13, <1>14, <2>1, <2>2
<1>17. 1 \in 1..3 /\ 2 \in 1..3 /\ 3 \in 1..3
  OBVIOUS
<1>18. Laid(d, input)
  <2>1. \A k \in 1..n : /\ d[2 + n + 3 * (k - 1) + 1] = parts[k][1]
                        /\ d[2 + n + 3 * (k - 1) + 2] = parts[k][2]
                        /\ d[2 + n + 3 * (k - 1) + 3] = parts[k][3]
    BY <1>16, <1>17
  <2> HIDE DEF n
  <2> QED BY <1>10, <1>15, <2>1 DEF Laid, n
<1> QED BY <1>15, <1>18 DEF X

LEMMA BeforeEach ==
  ASSUME NEW Y, \A y \in Y : y.size \in Nat \ {0}, NEW input \in Seq(Y)
  PROVE  /\ Before(input, 0) = 0
         /\ \A k \in 1..Len(input) :
              /\ Before(input, k - 1) \in Nat
              /\ Before(input, k) = Before(input, k - 1) + 33 + 64 + input[k].size
<1> DEFINE n == Len(input)
           Z(k) == [i \in 1..k |-> 33 + 64 + input[i].size]
<1>1. n \in Nat /\ \A k \in 1..n : input[k] \in Y /\ input[k].size \in Nat
  OBVIOUS
<1>2. ASSUME NEW k \in 0..n PROVE Before(input, k) = SumOf(Z(k))
  <2> DEFINE s == SubSeq(input, 1, k)
  <2>1. DOMAIN s = 1..k /\ \A i \in 1..k : s[i] = input[i]
    OBVIOUS
  <2> HIDE DEF s
  <2>2. Mapped(s, LAMBDA x : 33 + 64 + x.size) = Z(k)
    BY <2>1 DEF Mapped
  <2>3. Before(input, k) = SumOf(Mapped(s, LAMBDA x : 33 + 64 + x.size))
    BY Zenon DEF Before, s
  <2> QED BY <2>2, <2>3
<1>3. ASSUME NEW k \in 0..n PROVE Z(k) \in Seq(Nat) /\ Len(Z(k)) = k
  <2>1. Z(k) \in [1..k -> Nat]
    BY <1>1
  <2> HIDE DEF Z
  <2> QED BY <2>1
<1>4. ASSUME NEW k \in 1..n PROVE Z(k) = Append(Z(k - 1), 33 + 64 + input[k].size)
  <2>1. k - 1 \in 0..n /\ k \in 0..n /\ k \in 1..k
    BY <1>1
  <2>2. /\ Z(k - 1) \in Seq(Nat) /\ Z(k) \in Seq(Nat)
        /\ Len(Z(k - 1)) = k - 1 /\ Len(Z(k)) = k
    BY <1>3, <2>1
  <2>3. \A i \in 1..(k - 1) : Z(k)[i] = Z(k - 1)[i]
    OBVIOUS
  <2>4. Z(k)[k] = 33 + 64 + input[k].size
    BY <2>1
  <2> HIDE DEF Z, n
  <2>5. Len(Z(k)) = Len(Z(k - 1)) + 1 /\ \A i \in 1..Len(Z(k - 1)) : Z(k)[i] = Z(k - 1)[i]
    BY <2>2, <2>3
  <2>6. Z(k) = Append(Z(k - 1), Z(k)[Len(Z(k - 1)) + 1])
    BY <2>2, <2>5, MappedAppend
  <2>7. Len(Z(k - 1)) + 1 = k
    BY <2>2
  <2> QED BY <2>4, <2>6, <2>7
<1>5. Before(input, 0) = 0
  <2>1. 0 \in 0..n
    BY <1>1
  <2>2. Z(0) = << >>
    BY <1>3, <2>1
  <2> QED BY <1>2, <2>1, <2>2, SumAppend
<1>6. ASSUME NEW k \in 1..n
      PROVE  /\ Before(input, k - 1) \in Nat
             /\ Before(input, k) = Before(input, k - 1) + 33 + 64 + input[k].size
  <2>1. k - 1 \in 0..n /\ k \in 0..n
    BY <1>1
  <2>2. Z(k - 1) \in Seq(Nat) /\ 33 + 64 + input[k].size \in Nat
    BY <1>1, <1>3, <2>1
  <2>3. SumOf(Z(k - 1)) \in Nat
    BY <2>2, SumType
  <2>4. SumOf(Append(Z(k - 1), 33 + 64 + input[k].size))
          = SumOf(Z(k - 1)) + (33 + 64 + input[k].size)
    BY ONLY <2>2, SumAppend
  <2>5. SumOf(Z(k)) = SumOf(Z(k - 1)) + (33 + 64 + input[k].size)
    BY <1>4, <2>4
  <2> HIDE DEF Z
  <2>6. Before(input, k) = SumOf(Z(k)) /\ Before(input, k - 1) = SumOf(Z(k - 1))
    BY <1>2, <2>1
  <2> QED BY <1>1, <2>3, <2>5, <2>6
<1> QED BY <1>5, <1>6

\* Where the pieces of the data begin.
LEMMA PiecesBegin ==
  ASSUME NEW Y, \A y \in Y : y.size \in Nat \ {0}, NEW input \in Seq(Y),
         NEW d, Laid(d, input), NEW g, SizesRun(g, d)
  PROVE  /\ g[0] = 0
         /\ \A k \in 0..Len(input) : g[2 + k] = 2 + 14 * k
         /\ \A k \in 1..Len(input) :
              LET b == 2 + Len(input) + 3 * (k - 1)
                  o == 2 + 14 * Len(input) + Before(input, k - 1)
              IN  g[b] = o /\ g[b + 1] = o + 33 /\ g[b + 2] = o + 33 + 64
<1> DEFINE n == Len(input)
           m == 2 + n + 3 * n
           O(k) == 2 + 14 * n + Before(input, k)
<1>1. n \in Nat /\ \A k \in 1..n : input[k].size \in Nat
  OBVIOUS
<1>2. g[0] = 0 /\ \A i \in 1..m : g[i] = g[i - 1] + d[i].size
  BY DEF SizesRun, Laid
<1>3. /\ d[1].size = 1 /\ d[2].size = 1
      /\ \A k \in 1..n : /\ d[2 + k].size = 14
                         /\ d[2 + n + 3 * (k - 1) + 1].size = 33
                         /\ d[2 + n + 3 * (k - 1) + 2].size = 64
                         /\ d[2 + n + 3 * (k - 1) + 3].size = input[k].size
  <2>1. /\ d[1] = Piece(1, n) /\ d[2] = Piece(1, 0)
        /\ \A k \in 1..n :
              /\ d[2 + k] = Piece(14, OffsetsOf(input, k))
              /\ d[2 + n + 3 * (k - 1) + 1] = Piece(33, input[k].key)
              /\ d[2 + n + 3 * (k - 1) + 2] = Piece(64, input[k].signature)
              /\ d[2 + n + 3 * (k - 1) + 3] = Piece(input[k].size, input[k].message)
    BY DEF Laid
  <2>2. \A size, content : Piece(size, content).size = size
    BY DEF Piece
  <2> HIDE DEF n
  <2> QED BY ONLY <2>1, <2>2
<1>4. /\ Before(input, 0) = 0
      /\ \A k \in 1..n : /\ Before(input, k - 1) \in Nat
                         /\ Before(input, k) = Before(input, k - 1) + 33 + 64 + input[k].size
  BY BeforeEach
<1> HIDE DEF n
<1>5. \A k \in 0..n : g[2 + k] = 2 + 14 * k
  <2> DEFINE N == {k \in Nat : k <= n => g[2 + k] = 2 + 14 * k}
  <2>1. 0 \in N
    <3>1. 1 \in 1..m /\ 2 \in 1..m /\ 1 - 1 = 0 /\ 2 - 1 = 1
      BY <1>1
    <3>2. g[1] = g[0] + d[1].size /\ g[2] = g[1] + d[2].size
      BY <1>2, <3>1
    <3>3. g[2] = 2
      BY <1>2, <1>3, <3>2
    <3> QED BY <3>3
  <2>2. \A k \in Nat : k \in N => k + 1 \in N
    <3> SUFFICES ASSUME NEW k \in Nat, k \in N, k + 1 <= n
                 PROVE  g[2 + (k + 1)] = 2 + 14 * (k + 1)
      OBVIOUS
    <3>1. k + 1 \in 1..n /\ 2 + (k + 1) \in 1..m /\ (2 + (k + 1)) - 1 = 2 + k /\ k <= n
      BY <1>1
    <3>2. g[2 + k] = 2 + 14 * k
      BY <3>1
    <3> HIDE DEF N, m
    <3>3. g[2 + (k + 1)] = g[2 + k] + 14
      <4>1. g[2 + (k + 1)] = g[(2 + (k + 1)) - 1] + d[2 + (k + 1)].size
        BY <1>2, <3>1
      <4>2. d[2 + (k + 1)].size = 14
        BY <1>3, <3>1
      <4> QED BY <3>1, <4>1, <4>2
    <3> QED BY <3>2, <3>3
  <2> HIDE DEF N
  <2>3. Nat \subseteq N
    BY <2>1, <2>2, SetInduction
  <2> QED BY <1>1, <2>3 DEF N
<1>6. ASSUME NEW k \in 1..n, g[2 + n + 3 * (k - 1)] = O(k - 1)
      PROVE  /\ g[2 + n + 3 * (k - 1) + 1] = O(k - 1) + 33
             /\ g[2 + n + 3 * (k - 1) + 2] = O(k - 1) + 33 + 64
             /\ g[2 + n + 3 * k] = O(k)
  <2> DEFINE b == 2 + n + 3 * (k - 1)
  <2>1. /\ b + 1 \in 1..m /\ b + 2 \in 1..m /\ b + 3 \in 1..m
        /\ (b + 1) - 1 = b /\ (b + 2) - 1 = b + 1 /\ (b + 3) - 1 = b + 2
        /\ 2 + n + 3 * k = b + 3
    BY <1>1
  <2>2. d[b + 1].size = 33 /\ d[b + 2].size = 64 /\ d[b + 3].size = input[k].size
    BY <1>3
  <2> HIDE DEF b, m
  <2>3. g[b + 1] = g[b] + 33 /\ g[b + 2] = g[b + 1] + 64 /\ g[b + 3] = g[b + 2] + input[k].size
    <3>1. /\ g[b + 1] = g[(b + 1) - 1] + d[b + 1].size
          /\ g[b + 2] = g[(b + 2) - 1] + d[b + 2].size
          /\ g[b + 3] = g[(b + 3) - 1] + d[b + 3].size
      BY <1>2, <2>1
    <3> QED BY <2>1, <2>2, <3>1
  <2>4. O(k - 1) \in Nat /\ input[k].size \in Nat
        /\ O(k) = O(k - 1) + 33 + 64 + input[k].size
    <3>1. Before(input, k - 1) \in Nat
          /\ Before(input, k) = Before(input, k - 1) + 33 + 64 + input[k].size
      BY <1>4
    <3>2. n \in Nat /\ input[k].size \in Nat
      BY <1>1
    <3> DEFINE u == Before(input, k - 1)
               v == Before(input, k)
               z == input[k].size
    <3>3. u \in Nat /\ v = u + 33 + 64 + z /\ n \in Nat /\ z \in Nat
      BY <3>1, <3>2
    <3>4. O(k - 1) = 2 + 14 * n + u /\ O(k) = 2 + 14 * n + v
      OBVIOUS
    <3> HIDE DEF u, v, z, O
    <3>5. 2 + 14 * n + u \in Nat /\ 2 + 14 * n + v = (2 + 14 * n + u) + 33 + 64 + z
      BY ONLY <3>3
    <3>6. O(k - 1) \in Nat /\ z \in Nat /\ O(k) = O(k - 1) + 33 + 64 + z
      BY ONLY <3>3, <3>4, <3>5
    <3> QED BY ONLY <3>6 DEF z
  <2> HIDE DEF O
  <2>5. g[b] = O(k - 1)
    BY <1>6 DEF b
  <2>6. g[b + 1] = O(k - 1) + 33 /\ g[b + 2] = O(k - 1) + 33 + 64 /\ g[b + 3] = O(k)
    BY <2>3, <2>4, <2>5
  <2> QED BY <2>1, <2>6 DEF b
<1>7. \A k \in 1..n : g[2 + n + 3 * (k - 1)] = O(k - 1)
  <2> DEFINE N == {k \in Nat : k <= n => g[2 + n + 3 * k] = O(k)}
  <2>1. 0 \in N
    <3>1. n \in 0..n /\ 2 + n + 3 * 0 = 2 + n
      BY <1>1
    <3>2. g[2 + n] = 2 + 14 * n
      BY <1>5, <3>1
    <3>3. O(0) = 2 + 14 * n
      BY <1>1, <1>4
    <3> QED BY <3>1, <3>2, <3>3
  <2>2. \A k \in Nat : k \in N => k + 1 \in N
    <3> SUFFICES ASSUME NEW k \in Nat, k \in N, k + 1 <= n
                 PROVE  g[2 + n + 3 * (k + 1)] = O(k + 1)
      OBVIOUS
    <3>1. k + 1 \in 1..n /\ (k + 1) - 1 = k /\ k <= n
      BY <1>1
    <3>2. g[2 + n + 3 * k] = O(k)
      BY <3>1
    <3> HIDE DEF N, O
    <3> QED BY <1>6, <3>1, <3>2
  <2> HIDE DEF N
  <2>3. Nat \subseteq N
    BY <2>1, <2>2, SetInduction
  <2> SUFFICES ASSUME NEW k \in 1..n PROVE g[2 + n + 3 * (k - 1)] = O(k - 1)
    OBVIOUS
  <2>4. k - 1 \in Nat /\ k - 1 <= n
    BY <1>1
  <2> HIDE DEF O
  <2> QED BY <2>3, <2>4 DEF N
<1> HIDE DEF O, m
<1>8. \A k \in 1..n : /\ g[2 + n + 3 * (k - 1)] = O(k - 1)
                      /\ g[2 + n + 3 * (k - 1) + 1] = O(k - 1) + 33
                      /\ g[2 + n + 3 * (k - 1) + 2] = O(k - 1) + 33 + 64
  BY <1>6, <1>7
<1> QED BY <1>2, <1>5, <1>8 DEF n, O

\* Every part of the data for a list is found where its offsets say.
Located(d, input) ==
  /\ BytesAt(d, 0, 1) = Len(input)
  /\ \A k \in 1..Len(input) :
       LET o == OffsetsOf(input, k)
       IN  /\ BytesAt(d, 2 + 14 * (k - 1), 14) = o
           /\ BytesAt(d, o.publicKeyOffset, 33) = input[k].key
           /\ BytesAt(d, o.publicKeyOffset + 33 + 64, input[k].size) = input[k].message
           /\ o.messageDataOffset = o.publicKeyOffset + 33 + 64
           /\ o.messageDataSize = input[k].size

LEMMA AssertionsLocated ==
  ASSUME NEW Y, \A y \in Y : y.size \in Nat \ {0}, NEW input \in Seq(Y),
         NEW d, d = GetSecp256r1VerifyInstruction(input).data
  PROVE  Located(d, input)
<1> DEFINE X == PiecesFor(Y, input)
           n == Len(input)
<1>1. d \in Seq(X) /\ Laid(d, input)
  BY AssertionData
<1>2. \A x \in X : x.size \in Nat \ {0}
  BY PiecesSized
<1> HIDE DEF X
<1>3. PICK g : SizesRun(g, d)
  <2>1. \A x \in X : x.size \in Nat
    BY <1>2
  <2> QED BY <1>1, <2>1, SizesRuns
<1>4. \A p \in 1..Len(d) : BytesAt(d, g[p - 1], d[p].size) = d[p].content
  BY <1>1, <1>2, <1>3, PieceFound
<1>5. /\ g[0] = 0
      /\ \A k \in 0..n : g[2 + k] = 2 + 14 * k
      /\ \A k \in 1..n :
           LET b == 2 + n + 3 * (k - 1)
               o == 2 + 14 * n + Before(input, k - 1)
           IN  g[b] = o /\ g[b + 1] = o + 33 /\ g[b + 2] = o + 33 + 64
  BY <1>1, <1>3, PiecesBegin
<1>6. n \in Nat /\ Len(d) = 2 + n + 3 * n
  BY <1>1 DEF Laid
<1>7. \A size, content : /\ Piece(size, content).size = size
                         /\ Piece(size, content).content = content
  BY DEF Piece
<1>8. BytesAt(d, 0, 1) = n
  <2>1. d[1].size = 1 /\ d[1].content = n
    BY <1>1, <1>7 DEF Laid
  <2>2. 1 \in 1..Len(d) /\ 1 - 1 = 0
    BY <1>6
  <2> QED BY <1>4, <1>5, <2>1, <2>2
<1>9. ASSUME NEW k \in 1..n
      PROVE  LET o == OffsetsOf(input, k)
             IN  /\ BytesAt(d, 2 + 14 * (k - 1), 14) = o
                 /\ BytesAt(d, o.publicKeyOffset, 33) = input[k].key
                 /\ BytesAt(d, o.publicKeyOffset + 33 + 64, input[k].size) = input[k].message
                 /\ o.messageDataOffset = o.publicKeyOffset + 33 + 64
                 /\ o.messageDataSize = input[k].size
  <2> DEFINE o == OffsetsOf(input, k)
             b == 2 + n + 3 * (k - 1)
             start == 2 + 14 * n + Before(input, k - 1)
  <2>1. /\ o.publicKeyOffset = start /\ o.messageDataOffset = start + 33 + 64
        /\ o.messageDataSize = input[k].size
    BY DEF OffsetsOf
  <2>2. /\ d[2 + k] = Piece(14, o) /\ d[b + 1] = Piece(33, input[k].key)
        /\ d[b + 3] = Piece(input[k].size, input[k].message)
    BY <1>1 DEF Laid
  <2>3. /\ 2 + k \in 1..Len(d) /\ b + 1 \in 1..Len(d) /\ b + 3 \in 1..Len(d)
        /\ (2 + k) - 1 = 2 + (k - 1) /\ k - 1 \in 0..n /\ (b + 1) - 1 = b /\ (b + 3) - 1 = b + 2
    BY <1>6
  <2>4. g[2 + (k - 1)] = 2 + 14 * (k - 1) /\ g[b] = start /\ g[b + 2] = start + 33 + 64
    BY <1>5, <2>3
  <2> HIDE DEF o, b, start, n
  <2>5. BytesAt(d, 2 + 14 * (k - 1), 14) = o
    <3>1. BytesAt(d, g[(2 + k) - 1], d[2 + k].size) = d[2 + k].content
      BY <1>4, <2>3
    <3>2. d[2 + k].size = 14 /\ d[2 + k].content = o
      BY <1>7, <2>2
    <3> QED BY <2>3, <2>4, <3>1, <3>2
  <2>6. BytesAt(d, start, 33) = input[k].key
    <3>1. BytesAt(d, g[(b + 1) - 1], d[b + 1].size) = d[b + 1].content
      BY <1>4, <2>3
    <3>2. d[b + 1].size = 33 /\ d[b + 1].content = input[k].key
      BY <1>7, <2>2
    <3> QED BY <2>3, <2>4, <3>1, <3>2
  <2>7. BytesAt(d, start + 33 + 64, input[k].size) = input[k].message
    <3>1. BytesAt(d, g[(b + 3) - 1], d[b + 3].size) = d[b + 3].content
      BY <1>4, <2>3
    <3>2. d[b + 3].size = input[k].size /\ d[b + 3].content = input[k].message
      BY <1>7, <2>2
    <3> QED BY <2>3, <2>4, <3>1, <3>2
  <2> QED BY <2>1, <2>5, <2>6, <2>7 DEF o
<1> QED BY <1>8, <1>9 DEF Located, n

\* The manager reads every assertion with its key, for every list of assertions.
THEOREM ManagerReadsAssertions ==
  ASSUME NEW Y, \A y \in Y : y.size \in Nat \ {0}, NEW input \in Seq(Y)
  PROVE  Secp256r1VerifyPayload(GetSecp256r1VerifyInstruction(input).data)
           = [k \in 1..Len(input) |-> [publicKey |-> input[k].key, message |-> input[k].message]]
<1> DEFINE d == GetSecp256r1VerifyInstruction(input).data
           n == Len(input)
           size(k) == BytesAt(d, 2 + 14 * (k - 1), 14).messageDataSize
           start(k) == 2 + 14 * n + SumOf([j \in 1..(k - 1) |-> 33 + 64 + size(j)])
           read(k) == [publicKey |-> BytesAt(d, start(k), 33),
                       message |-> BytesAt(d, start(k) + 33 + 64, size(k))]
<1>1. Located(d, input)
  BY AssertionsLocated
<1> HIDE DEF d
<1>2. Secp256r1VerifyPayload(d) = [k \in 1..n |-> read(k)]
  <2>1. BytesAt(d, 0, 1) = n
    BY <1>1 DEF Located
  <2> HIDE DEF n
  <2> QED BY <2>1, Zenon DEF Secp256r1VerifyPayload
<1>3. \A k \in 1..n : size(k) = input[k].size
  BY <1>1 DEF Located
<1>4. ASSUME NEW k \in 1..n
      PROVE  SumOf([j \in 1..(k - 1) |-> 33 + 64 + size(j)]) = Before(input, k - 1)
  <2> DEFINE s == SubSeq(input, 1, k - 1)
  <2>1. DOMAIN s = 1..(k - 1) /\ \A j \in 1..(k - 1) : s[j] = input[j] /\ j \in 1..n
    OBVIOUS
  <2> HIDE DEF s, size
  <2>2. \A j \in 1..(k - 1) : 33 + 64 + size(j) = 33 + 64 + s[j].size
    BY <1>3, <2>1
  <2>3. [j \in 1..(k - 1) |-> 33 + 64 + size(j)] = Mapped(s, LAMBDA x : 33 + 64 + x.size)
    BY <2>1, <2>2 DEF Mapped
  <2>4. Before(input, k - 1) = SumOf(Mapped(s, LAMBDA x : 33 + 64 + x.size))
    BY Zenon DEF Before, s
  <2> QED BY <2>3, <2>4
<1>5. ASSUME NEW k \in 1..n
      PROVE  read(k) = [publicKey |-> input[k].key, message |-> input[k].message]
  <2>1. start(k) = OffsetsOf(input, k).publicKeyOffset
    <3>1. start(k) = 2 + 14 * n + Before(input, k - 1)
      BY <1>4
    <3>2. OffsetsOf(input, k).publicKeyOffset = 2 + 14 * n + Before(input, k - 1)
      BY DEF OffsetsOf
    <3> QED BY <3>1, <3>2
  <2> HIDE DEF start, size
  <2>2. /\ BytesAt(d, start(k), 33) = input[k].key
        /\ BytesAt(d, start(k) + 33 + 64, input[k].size) = input[k].message
    BY <1>1, <2>1 DEF Located
  <2> QED BY <1>3, <2>2
<1> HIDE DEF read
<1> QED BY <1>2, <1>5 DEF d, n

LEMMA SameBytes ==
  ASSUME NEW d, NEW from, NEW size
  PROVE  Program!BytesAt(d, from, size) = BytesAt(d, from, size)
<1>1. ASSUME NEW s
      PROVE  Program!FoldLeft(LAMBDA n, x : n + x.size, 0, s)
               = FoldLeft(LAMBDA n, x : n + x.size, 0, s)
  BY Zenon DEF FoldLeft, Program!FoldLeft, MapThenFoldSet, Program!MapThenFoldSet,
               Max, Program!Max
<1> DEFINE F(q) == FoldLeft(LAMBDA n, x : n + x.size, 0, SubSeq(d, 1, q - 1))
           G(q) == Program!FoldLeft(LAMBDA n, x : n + x.size, 0, SubSeq(d, 1, q - 1))
           there == {q \in DOMAIN d : d[q].size = size /\ F(q) = from}
           theirs == {q \in DOMAIN d : d[q].size = size /\ G(q) = from}
           piece(qs) == IF {d[q] : q \in qs} = {} THEN Refused
                        ELSE (CHOOSE p \in {d[q] : q \in qs} : TRUE).content
<1>2. \A q : F(q) = G(q)
  BY <1>1, Zenon
<1>3. BytesAt(d, from, size) = piece(there)
  BY Zenon DEF BytesAt
<1>4. Program!BytesAt(d, from, size) = piece(theirs)
  BY Zenon DEF Program!BytesAt
<1> HIDE DEF F, G, piece
<1>5. there = theirs
  BY <1>2
<1> QED BY <1>3, <1>4, <1>5

\* The program verifies the first nineteen assertions of an instruction each with its
\* own key and message: its 8-bit position in the table of offsets stops only behind
\* them.  A message has 64 bytes at least, as authenticator data and the hash of the
\* client data have; Refused stands for no data.
THEOREM ProgramReadsAssertions ==
  ASSUME NEW Y, \A y \in Y : y.size \in Nat /\ y.size >= 64, NEW input \in Seq(Y),
         Refused \notin Seq(PiecesFor(Y, input)),
         NEW tx, NEW i \in Nat, i > 1, tx[i - 1] = GetSecp256r1VerifyInstruction(input),
         NEW k \in 1..Len(input), k <= 19, Refused # OffsetsOf(input, k)
  PROVE  /\ Program!ExtractPublicKey(tx, i, k - 1) = input[k].key
         /\ Program!ExtractMessage(tx, i, k - 1) = input[k].message
<1> DEFINE d == GetSecp256r1VerifyInstruction(input).data
           o == OffsetsOf(input, k)
<1>1. Located(d, input) /\ d # Refused
  <2>1. \A y \in Y : y.size \in Nat \ {0}
    OBVIOUS
  <2>2. d \in Seq(PiecesFor(Y, input))
    BY <2>1, AssertionData
  <2>3. Located(d, input)
    BY <2>1, AssertionsLocated
  <2> QED BY <2>2, <2>3
<1>2. Program!VerifiedBefore(tx, i) = d
  <2>1. GetSecp256r1VerifyInstruction(input).program = Secp256r1Program
    BY Zenon DEF GetSecp256r1VerifyInstruction
  <2> QED BY ONLY <2>1, i > 1, tx[i - 1] = GetSecp256r1VerifyInstruction(input)
          DEF Program!VerifiedBefore
<1> HIDE DEF d
<1>3. /\ BytesAt(d, 0, 1) = Len(input) /\ BytesAt(d, 2 + 14 * (k - 1), 14) = o
      /\ BytesAt(d, o.publicKeyOffset, 33) = input[k].key
      /\ BytesAt(d, o.messageDataOffset, o.messageDataSize) = input[k].message
      /\ o.messageDataSize = input[k].size /\ input[k] \in Y
  BY <1>1 DEF Located
<1> HIDE DEF o
<1>4. Program!SignatureOffsets(d, k - 1) = o
  <2> DEFINE least(n) == IF n > 255 THEN 255 ELSE n
  <2>1. least(least((k - 1) * 14) + 2) = 2 + 14 * (k - 1) /\ ~(k - 1 >= Len(input))
    OBVIOUS
  <2> HIDE DEF least
  <2>2. Program!BytesAt(d, least(least((k - 1) * 14) + 2), 14) = o
    BY <1>3, <2>1, SameBytes
  <2>3. ~(d = Refused \/ k - 1 >= Program!BytesAt(d, 0, 1))
    BY <1>1, <1>3, <2>1, SameBytes
  <2> QED BY <2>2, <2>3, Zenon DEF Program!SignatureOffsets, least
<1>5. Program!PublicKeyAt(d, o) = input[k].key
  <2>1. o # Refused
    BY DEF o
  <2> QED BY <1>3, <2>1, SameBytes DEF Program!PublicKeyAt
<1>6. Program!MessageAt(d, o) = input[k].message
  <2>1. o # Refused
    BY DEF o
  <2>2. ~(o.messageDataSize < 64)
    BY <1>3
  <2> QED BY <1>3, <2>1, <2>2, SameBytes DEF Program!MessageAt
<1> QED BY <1>2, <1>4, <1>5, <1>6 DEF Program!ExtractPublicKey, Program!ExtractMessage

-----------------------------------------------------------------------------
(* The chunks of a bundle.                                                 *)

\* Where a chunk of a size ends: chunks are whole but the last, which is not empty.
LEMMA ChunkEnds ==
  ASSUME NEW length \in Nat \ {0}, NEW size \in Nat \ {0}
  PROVE  LET n == (length + size - 1) \div size
         IN  n \in Nat \ {0} /\ length <= n * size /\ \A k \in 0..(n - 1) : k * size < length
<1> DEFINE n == (length + size - 1) \div size
<1>1. /\ n \in Int /\ n * size <= length + size - 1 /\ length + size - 1 < n * size + size
  OBVIOUS
<1> HIDE DEF n
<1>2. n >= 1
  <2>1. SUFFICES ASSUME n <= 0 PROVE FALSE
    BY <1>1
  <2>2. (0 - n) * size >= 0 /\ (0 - n) * size = 0 - n * size /\ n * size \in Int
    BY <1>1, <2>1
  <2> QED BY <1>1, <2>2
<1>3. ASSUME NEW k \in 0..(n - 1) PROVE k * size < length
  <2>1. (n - 1 - k) * size >= 0
    BY <1>1
  <2>2. (n - 1 - k) * size = n * size - size - k * size
    BY <1>1
  <2>3. n * size \in Int /\ k * size \in Int
    BY <1>1
  <2> QED BY <1>1, <2>1, <2>2, <2>3
<1> QED BY <1>1, <1>2, <1>3 DEF n

\* Two pieces of a list that follow each other.
LEMMA PiecesJoin ==
  ASSUME NEW X, NEW s \in Seq(X), NEW i \in 0..Len(s), NEW j \in i..Len(s)
  PROVE  /\ SubSeq(s, i + 1, j) \in Seq(X) /\ Len(SubSeq(s, i + 1, j)) = j - i
         /\ SubSeq(s, 1, i) \o SubSeq(s, i + 1, j) = SubSeq(s, 1, j)
<1> DEFINE a == SubSeq(s, 1, i)
           b == SubSeq(s, i + 1, j)
           c == SubSeq(s, 1, j)
<1>1. /\ a \in Seq(X) /\ Len(a) = i /\ \A k \in 1..i : a[k] = s[k]
      /\ b \in Seq(X) /\ Len(b) = j - i /\ \A k \in 1..(j - i) : b[k] = s[i + k]
      /\ c \in Seq(X) /\ Len(c) = j /\ \A k \in 1..j : c[k] = s[k]
  OBVIOUS
<1> HIDE DEF a, b, c
<1>2. /\ a \o b \in Seq(X) /\ Len(a \o b) = j
      /\ \A k \in 1..i : (a \o b)[k] = a[k]
      /\ \A k \in 1..(j - i) : (a \o b)[i + k] = b[k]
  <2>1. /\ a \o b \in Seq(X)
        /\ Len(a \o b) = Len(a) + Len(b) /\ Len(a) \in Nat /\ Len(b) \in Nat
        /\ \A k \in 1..Len(a) : (a \o b)[k] = a[k]
        /\ \A k \in 1..Len(b) : (a \o b)[Len(a) + k] = b[k]
    <3>1. a \in Seq(X) /\ b \in Seq(X)
      BY <1>1
    <3> QED BY ONLY <3>1, Concatenated
  <2>2. Len(a) = i /\ Len(b) = j - i
    BY <1>1
  <2> QED BY ONLY <2>1, <2>2, i \in Nat, j \in Nat
<1>3. \A k \in 1..j : (a \o b)[k] = c[k]
  <2> TAKE k \in 1..j
  <2>1. CASE k <= i
    <3>1. k \in 1..i
      BY <2>1
    <3> QED BY ONLY <1>1, <1>2, <3>1, k \in 1..j
  <2>2. CASE k > i
    <3>1. k - i \in 1..(j - i) /\ i + (k - i) = k
      BY <2>2
    <3>2. (a \o b)[i + (k - i)] = b[k - i] /\ b[k - i] = s[i + (k - i)] /\ c[k] = s[k]
      BY ONLY <1>1, <1>2, <3>1, k \in 1..j
    <3> QED BY ONLY <3>1, <3>2
  <2>3. k <= i \/ k > i
    OBVIOUS
  <2> QED BY <2>1, <2>2, <2>3, Zenon
<1>4. a \o b = c
  <2> DEFINE ab == a \o b
  <2>1. ab \in Seq(X) /\ Len(ab) = j /\ \A k \in 1..j : ab[k] = c[k]
    BY ONLY <1>2, <1>3
  <2> HIDE DEF ab
  <2>2. ab = c
    BY ONLY <1>1, <2>1
  <2> QED BY <2>2 DEF ab
<1> QED BY <1>1, <1>4 DEF a, b, c

\* The chunks of a bundle are the message, in order and whole: each extends the buffer by
\* one byte at least and by no more than a chunk's size, and the buffer that was
\* extended by all holds the message.
THEOREM ChunksMakeTheMessage ==
  ASSUME NEW X, NEW bundle, bundle.bytes \in Seq(X), bundle.bytes # << >>,
         NEW size \in Nat \ {0},
         size = IF bundle.chunkSize = None THEN (Len(bundle.bytes) + 1) \div 2
                ELSE bundle.chunkSize[1]
  PROVE  /\ FlattenSeq(ChunksOf(bundle)) = bundle.bytes
         /\ \A k \in 1..Len(ChunksOf(bundle)) : Len(ChunksOf(bundle)[k]) \in 1..size
<1> DEFINE bytes == bundle.bytes
           length == Len(bytes)
           n == (length + size - 1) \div size
           end(k) == IF k * size < length THEN k * size ELSE length
           chunk(k) == SubSeq(bytes, (k - 1) * size + 1, end(k))
           chunks == [k \in 1..n |-> chunk(k)]
<1>1. ChunksOf(bundle) = chunks
  BY Zenon DEF ChunksOf
<1>2. length \in Nat \ {0}
  OBVIOUS
<1>3. n \in Nat \ {0} /\ length <= n * size /\ \A k \in 0..(n - 1) : k * size < length
  BY <1>2, ChunkEnds
<1> HIDE DEF n
<1>4. end(0) = 0 /\ end(n) = length
  <2>1. 0 * size = 0 /\ n * size \in Nat
    BY ONLY <1>3, size \in Nat
  <2>2. 0 < length /\ ~(n * size < length)
    BY ONLY <1>2, <1>3, <2>1
  <2> QED BY ONLY <2>1, <2>2 DEF end
<1>5. ASSUME NEW k \in 1..n
      PROVE  /\ (k - 1) * size \in Nat /\ end(k - 1) = (k - 1) * size
             /\ end(k) \in Nat /\ end(k) <= length
             /\ end(k) > end(k - 1) /\ end(k) <= end(k - 1) + size
  <2> DEFINE p == (k - 1) * size
             q == k * size
  <2>1. p \in Nat /\ q = p + size /\ k - 1 \in 0..(n - 1)
    BY ONLY <1>3, k \in 1..n, size \in Nat DEF p, q
  <2>2. p < length
    BY ONLY <1>3, <2>1 DEF p
  <2> HIDE DEF p, q
  <2>3. /\ (IF p < length THEN p ELSE length) = p
        /\ (IF q < length THEN q ELSE length) \in (p + 1)..(p + size)
        /\ (IF q < length THEN q ELSE length) <= length
    BY ONLY <1>2, <2>1, <2>2, size \in Nat \ {0}
  <2>4. end(k - 1) = p /\ end(k) = IF q < length THEN q ELSE length
    BY ONLY <2>3 DEF end, p, q
  <2> HIDE DEF end
  <2>5. /\ p \in Nat /\ end(k - 1) = p /\ end(k) \in Nat /\ end(k) <= length
        /\ end(k) > end(k - 1) /\ end(k) <= end(k - 1) + size
    BY ONLY <2>1, <2>3, <2>4, size \in Nat
  <2> QED BY ONLY <2>5 DEF p
<1> HIDE DEF end
<1>6. ASSUME NEW k \in 1..n
      PROVE  /\ chunk(k) \in Seq(X) /\ Len(chunk(k)) \in 1..size
             /\ SubSeq(bytes, 1, end(k - 1)) \o chunk(k) = SubSeq(bytes, 1, end(k))
  <2> DEFINE i == end(k - 1)
             j == end(k)
  <2>1. i \in 0..length /\ j \in i..length /\ j - i \in 1..size /\ i = (k - 1) * size
    <3>1. /\ i = (k - 1) * size /\ i \in Nat /\ j \in Nat /\ j <= length /\ j > i
          /\ j <= i + size
      BY <1>5
    <3> HIDE DEF i, j
    <3>2. i = (k - 1) * size
      BY <3>1
    <3> QED BY ONLY <1>2, <3>1, <3>2, size \in Nat
  <2> HIDE DEF i, j, length, bytes
  <2>2. bytes \in Seq(X)
    BY DEF bytes
  <2>3. /\ SubSeq(bytes, i + 1, j) \in Seq(X) /\ Len(SubSeq(bytes, i + 1, j)) = j - i
        /\ SubSeq(bytes, 1, i) \o SubSeq(bytes, i + 1, j) = SubSeq(bytes, 1, j)
    <3>1. length = Len(bytes)
      BY DEF length
    <3> QED BY ONLY <2>1, <2>2, <3>1, PiecesJoin
  <2>4. chunk(k) = SubSeq(bytes, i + 1, j)
    BY <2>1 DEF j
  <2> HIDE DEF chunk
  <2> QED BY <2>1, <2>3, <2>4 DEF i, j
<1> HIDE DEF chunk
<1>7. chunks \in Seq(Seq(X)) /\ Len(chunks) = n /\ \A k \in 1..n : chunks[k] = chunk(k)
  <2>1. \A k \in 1..n : chunk(k) \in Seq(X)
    BY <1>6
  <2> QED BY ONLY <1>3, <2>1 DEF chunks
<1> HIDE DEF chunks, length, bytes
<1>8. FlattenSeq(chunks) = bytes
  <2>1. PICK g : FlattenRun(g, chunks)
    BY <1>7, FlattenRuns
  <2> DEFINE T == {i \in Nat : i <= n => g[i] = SubSeq(bytes, 1, end(i))}
  <2>2. 0 \in T
    <3>1. SubSeq(bytes, 1, 0) = << >>
      BY DEF bytes
    <3> QED BY <1>4, <2>1, <3>1 DEF FlattenRun
  <2>3. ASSUME NEW i \in Nat, i \in T PROVE i + 1 \in T
    <3> SUFFICES ASSUME i + 1 <= n PROVE g[i + 1] = SubSeq(bytes, 1, end(i + 1))
      OBVIOUS
    <3>1. i + 1 \in 1..n /\ (i + 1) - 1 = i /\ i <= n
      BY <1>3
    <3>2. g[i] = SubSeq(bytes, 1, end(i))
      BY <2>3, <3>1
    <3>3. g[i + 1] = g[i] \o chunk(i + 1)
      BY <1>7, <2>1, <3>1 DEF FlattenRun
    <3>4. SubSeq(bytes, 1, end(i)) \o chunk(i + 1) = SubSeq(bytes, 1, end(i + 1))
      BY <1>6, <3>1
    <3> QED BY <3>2, <3>3, <3>4
  <2> HIDE DEF T
  <2>4. n \in T
    BY <1>3, <2>2, <2>3, SetInduction
  <2>5. g[n] = SubSeq(bytes, 1, length)
    BY <1>3, <1>4, <2>4 DEF T
  <2>6. SubSeq(bytes, 1, length) = bytes
    BY DEF bytes, length
  <2> QED BY <1>7, <2>1, <2>5, <2>6 DEF FlattenRun
<1> QED BY <1>1, <1>6, <1>7, <1>8 DEF bytes
=============================================================================
