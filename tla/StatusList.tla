------------------------------ MODULE StatusList ------------------------------
(***************************************************************************)
(* internal/statuslist/statuslist.go: the token status list of a category, *)
(* two bits for each index, as ServeHTTP builds it from the entries in the *)
(* store, and as a verifier reads it back.                                 *)
(*                                                                         *)
(* A byte is the set of its bits that are one, so |= is union.  The        *)
(* compression and the JWT around the list are left out: they are undone   *)
(* by every reader.                                                        *)
(***************************************************************************)
EXTENDS Naturals, FiniteSetsExt

CONSTANT MaxIndex       \* bound: the indices ever allocated

ASSUME MaxIndexAssumption == MaxIndex \in Nat

VARIABLES next,         \* the index that AllocateIndex hands out next
          entries       \* the statuses in the store, by index

listVars == <<next, entries>>

\* StatusValid, StatusInvalid (revoked) and StatusSuspended.
Statuses == 0..2

\* Every entry has an index that was allocated and one of the three statuses.
ListTypeOK == /\ next \in 0..MaxIndex
              /\ DOMAIN entries \subseteq 0..(next - 1)
              /\ entries \in [DOMAIN entries -> Statuses]

ListInit == /\ next = 0
            /\ entries = [i \in {} |-> 0]

AllocateOneBased == /\ next < MaxIndex
                    /\ next' = next + 1
                    /\ entries' = [i \in DOMAIN entries \cup {next'} |->
                                     IF i = next' THEN 0 ELSE entries[i]]

\* The status entry of an allocated index may fail to be stored: a gap.
AllocateIndex == /\ next < MaxIndex
                 /\ next' = next + 1
                 /\ \/ entries' = [i \in DOMAIN entries \cup {next} |->
                                      IF i = next THEN 0 ELSE entries[i]]
                    \/ UNCHANGED entries

\* An index without an entry is the "not found" error.
SetStatus == /\ \E i \in 0..MaxIndex, s \in Statuses :
                   entries' = IF i \in DOMAIN entries
                              THEN [entries EXCEPT ![i] = s]
                              ELSE entries
             /\ UNCHANGED next

ListNext == AllocateIndex \/ SetStatus

ListSpec == ListInit /\ [][ListNext]_listVars

-----------------------------------------------------------------------------
NumEntries == (IF DOMAIN entries = {} THEN 0 ELSE Max(DOMAIN entries)) + 1

ByteLen == (NumEntries * 2 + 7) \div 8

ByteOf(i) == (i * 2) \div 8

OffsetOf(i) == (i * 2) % 8

\* status & 0x03
LowBits(status) == {b \in {0, 1} : (status \div (2^b)) % 2 = 1}

PackOneBitApart(i) == {(i % 8) + b : b \in LowBits(entries[i])}

\* (status & 0x03) << bitOffset; what the shift moves out of the byte is lost.
Pack(i) == {OffsetOf(i) + b : b \in LowBits(entries[i])} \cap (0..7)

Bitstring == [k \in 0..(ByteLen - 1) |-> UNION {Pack(i) : i \in {j \in DOMAIN entries : ByteOf(j) = k}}]

\* How a verifier reads the status at index i.
Bit(list, i, b) == IF OffsetOf(i) + b \in list[ByteOf(i)] THEN 1 ELSE 0

StatusAt(list, i) == Bit(list, i, 0) + 2 * Bit(list, i, 1)

-----------------------------------------------------------------------------
(***************************************************************************)
(* The list that ServeHTTP publishes says for every entry what the store   *)
(* says, and "valid" for every other position: no entry is written outside *)
(* of the byte array, and no status spills into that of a neighbour,       *)
(* within a byte or across bytes.                                          *)
(***************************************************************************)
PublishesStatuses ==
    /\ \A i \in DOMAIN entries : ByteOf(i) < ByteLen
    /\ \A i \in 0..(ByteLen * 4 - 1) :
          StatusAt(Bitstring, i) = IF i \in DOMAIN entries THEN entries[i] ELSE 0
=============================================================================
