----------------------------- MODULE SlotHashes -----------------------------
(***************************************************************************)
(* The SlotHashes sysvar as the program reads it: the slots of the latest  *)
(* blocks, newest first, at most TableSize of them.  A slot whose leader   *)
(* produced no block is missing from the table.  A passkey signs over the  *)
(* hash of one of these slots, and a wallet remembers the newest slot it   *)
(* accepted.  From utils/secp256r1_verify_args.rs and utils/settings.rs.   *)
(***************************************************************************)
EXTENDS Integers, Sequences

CONSTANT TableSize   \* entries the sysvar keeps

ASSUME TableSizeAssumption == TableSize \in Nat \ {0}

Table == {t \in Seq(Nat) : \A i, j \in DOMAIN t : i < j => t[i] > t[j]}

SlotsIn(table) == {table[i] : i \in DOMAIN table}

\* External: a block of the given slot pushes the oldest entry out.
Pushed(table, slot) ==
  LET kept == IF Len(table) < TableSize THEN table ELSE SubSeq(table, 1, TableSize - 1)
  IN  <<slot>> \o kept

Greatest(S) == CHOOSE n \in S : \A m \in S : n >= m

-----------------------------------------------------------------------------
(***************************************************************************)
(* fetch_slot_hash: a binary search of the half-open range of indexes      *)
(* [left, right), counted from 0.  It returns the index, NotFound if the   *)
(* slot is not in the table.                                               *)
(***************************************************************************)
NotFound == -1

Bounds(table) == (0..Len(table)) \X (0..Len(table))

\* Mutant of SlotIndex: the search forgets the middle of the older half.
SlotIndexSkipping(table, slot) ==
  LET find[bounds \in (0..(Len(table) + 1)) \X (0..Len(table))] ==
        LET left == bounds[1]
            right == bounds[2]
            mid == left + (right - left) \div 2
        IN  IF left >= right THEN NotFound
            ELSE IF table[mid + 1] = slot THEN mid
            ELSE IF table[mid + 1] > slot THEN find[<<mid + 2, right>>]
            ELSE find[<<left, mid>>]
  IN  find[<<0, Len(table)>>]

SlotIndex(table, slot) ==
  LET find[bounds \in Bounds(table)] ==
        LET left == bounds[1]
            right == bounds[2]
            mid == left + (right - left) \div 2
        IN  IF left >= right THEN NotFound
            ELSE IF table[mid + 1] = slot THEN mid
            ELSE IF table[mid + 1] > slot THEN find[<<mid + 1, right>>]
            ELSE find[<<left, mid>>]
  IN  find[<<0, Len(table)>>]

Hashed(table, slot) == SlotIndex(table, slot) # NotFound

-----------------------------------------------------------------------------
(***************************************************************************)
(* latest_slot_number_check for the slots of one instruction: none is      *)
(* newer than the table, all are newer than the slot the wallet remembers, *)
(* and the newest of them, which the wallet remembers from then on, is no  *)
(* further back than the table is long.  The distance is counted in slots  *)
(* and the length in entries, so missing slots shorten the window.         *)
(***************************************************************************)
\* Mutant of SlotsAllowed: the remembered slot is accepted once more.
SlotsAllowedAgain(table, latest, slots) ==
  slots # {} =>
    /\ table # << >>
    /\ \A n \in slots : latest <= n /\ n <= table[1]
    /\ \E n \in slots : (\A m \in slots : m <= n) /\ table[1] - n < Len(table)

\* Mutant of SlotsAllowed: only the newest slot is compared with it.
SlotsAllowedByNewest(table, latest, slots) ==
  slots # {} =>
    /\ table # << >>
    /\ \A n \in slots : n <= table[1]
    /\ \E n \in slots : (\A m \in slots : m <= n) /\ table[1] - n < Len(table) /\ latest < n

SlotsAllowed(table, latest, slots) ==
  slots # {} =>
    /\ table # << >>
    /\ \A n \in slots : latest < n /\ n <= table[1]
    /\ \E n \in slots : (\A m \in slots : m <= n) /\ table[1] - n < Len(table)

\* Mutant of LatestAfter: the next slot is remembered.
LatestAfterNext(latest, slots) ==
  IF slots = {} THEN latest ELSE Greatest(slots) + 1

LatestAfter(latest, slots) == IF slots = {} THEN latest ELSE Greatest(slots)
=============================================================================
