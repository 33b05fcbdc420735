----------------------------- MODULE WireTypes -----------------------------
(***************************************************************************)
(* How values are laid out in the data of an instruction (Borsh).  The     *)
(* data carries no names and no types, so what one side writes and another *)
(* side reads agree only if both list the same types in the same order.    *)
(* A type is a tuple that begins with its kind; a value stands for its     *)
(* bytes and is kept next to the type it was written with.                 *)
(***************************************************************************)
EXTENDS Integers, SequencesExt

CONSTANT Refused    \* what comes of data that cannot be read, and of an
                    \* instruction that fails

U8          == <<"u8">>
U16         == <<"u16">>
U64         == <<"u64">>
U128        == <<"u128">>
Bool        == <<"bool">>
Utf8        == <<"string">>
Bytes       == <<"bytes">>
FixedBytes(n)    == <<"bytes", n>>
ArrayOf(type)    == <<"array", type>>
OptionOf(type)   == <<"option", type>>
EnumOf(n)        == <<"enum", n>>
StructOf(types)  == <<"struct", types>>
UnionOf(types)   == <<"union", types>>

\* An optional value.
None     == <<>>
Some(x)  == <<x>>

\* A field of a layout; a layout is a discriminator and its fields.
Field(name, type)           == [name |-> name, type |-> type]
Data(discriminator, fields) == [discriminator |-> discriminator, fields |-> fields]

Encoded(layout, values) ==
    <<layout.discriminator>>
    \o [i \in DOMAIN layout.fields |-> <<layout.fields[i].type, values[layout.fields[i].name]>>]

\* Reading data with a layout: the values by name.
Decoded(layout, data) ==
    LET fields == layout.fields
        index(name) == SelectInSeq(fields, LAMBDA f : f.name = name)
    IN  IF /\ Len(data) = Len(fields) + 1
           /\ data[1] = layout.discriminator
           /\ \A i \in DOMAIN fields : data[i + 1][1] = fields[i].type
        THEN [name \in {fields[i].name : i \in DOMAIN fields} |-> data[index(name) + 1][2]]
        ELSE Refused

\* Data that a reader addresses by byte: pieces of known size, one after another.
Piece(size, content) == [size |-> size, content |-> content]

\* The piece that lies at a byte; Refused stands for any other bytes.
BytesAt(pieces, from, size) ==
    LET begins(p)     == FoldLeft(LAMBDA n, x : n + x.size, 0, SubSeq(pieces, 1, p - 1))
        content(found) == IF found = {} THEN Refused ELSE (CHOOSE p \in found : TRUE).content
    IN  content({pieces[p] : p \in {q \in DOMAIN pieces : pieces[q].size = size
                                                          /\ begins(q) = from}})
=============================================================================
