--------------------------- MODULE StatusListProofs ---------------------------
(***************************************************************************)
(* The status list says what the store says, for every number of indices.  *)
(*                                                                         *)
(* The size of the list comes from the greatest index with an entry, so    *)
(* the inductive invariant carries that there is one (HasGreatest): an     *)
(* entry is only ever added at an index above all the others.  The rest is *)
(* arithmetic: byte and offset determine the index (Positions), so the     *)
(* union of the packed entries keeps every pair of bits apart.             *)
(***************************************************************************)
EXTENDS StatusList, TLAPS

HasGreatest == DOMAIN entries # {} =>
                  \E m \in DOMAIN entries : \A i \in DOMAIN entries : m >= i

ListInv == ListTypeOK /\ HasGreatest

-----------------------------------------------------------------------------
\* One allocation or one change of a status keeps the types, and leaves an
\* entry with the greatest index.
LEMMA ListStep == ASSUME ListInv, [ListNext]_listVars PROVE ListInv'
<1> USE MaxIndexAssumption DEF ListInv, ListTypeOK, HasGreatest, Statuses
<1>1. ASSUME next < MaxIndex, next' = next + 1,
             entries' = [i \in DOMAIN entries \cup {next} |->
                           IF i = next THEN 0 ELSE entries[i]]
      PROVE  ListInv'
    <2>1. DOMAIN entries' = DOMAIN entries \cup {next}
        BY <1>1
    <2>2. entries' \in [DOMAIN entries' -> Statuses]
        BY <1>1, <2>1
    <2>3. next \in DOMAIN entries' /\ \A i \in DOMAIN entries' : next >= i
        BY <2>1
    <2> QED
        BY <1>1, <2>1, <2>2, <2>3
<1>2. CASE next < MaxIndex /\ next' = next + 1 /\ UNCHANGED entries
    BY <1>2
<1>3. CASE SetStatus
    <2> PICK j \in 0..MaxIndex, s \in Statuses :
               entries' = IF j \in DOMAIN entries THEN [entries EXCEPT ![j] = s] ELSE entries
        BY <1>3 DEF SetStatus
    <2>1. DOMAIN entries' = DOMAIN entries /\ entries' \in [DOMAIN entries' -> Statuses]
        OBVIOUS
    <2> QED
        BY <1>3, <2>1 DEF SetStatus
<1>4. CASE UNCHANGED listVars
    BY <1>4 DEF listVars
<1> QED
    BY <1>1, <1>2, <1>3, <1>4 DEF ListNext, AllocateIndex

\* Every entry has an allocated index and a status, and the entry that decides
\* the size of the list is one of them (AllocateIndex, SetStatus).
THEOREM ListInvariance == ListSpec => [](ListTypeOK /\ HasGreatest)
<1>1. ListInit => ListInv
    BY MaxIndexAssumption DEF ListInit, ListInv, ListTypeOK, HasGreatest
<1> QED
    BY <1>1, ListStep, PTL DEF ListSpec, ListInv

-----------------------------------------------------------------------------
\* Four statuses share a byte, and no two of them a position.
LEMMA Positions ==
    ASSUME NEW i \in Nat, NEW j \in Nat, NEW b \in {0, 1}, NEW c \in {0, 1}
    PROVE  /\ ByteOf(i) \in Nat
           /\ OffsetOf(i) + b \in 0..7
           /\ ByteOf(i) = ByteOf(j) /\ OffsetOf(i) + b = OffsetOf(j) + c => i = j /\ b = c
<1>1. PICK q \in Nat, r \in 0..3 : i = 4 * q + r
    <2>1. i = 4 * (i \div 4) + (i % 4) /\ i \div 4 \in Nat /\ i % 4 \in 0..3
        OBVIOUS
    <2> QED
        BY <2>1
<1>2. ByteOf(i) = q /\ OffsetOf(i) = 2 * r
    BY <1>1 DEF ByteOf, OffsetOf
<1>3. PICK p \in Nat, s \in 0..3 : j = 4 * p + s
    <2>1. j = 4 * (j \div 4) + (j % 4) /\ j \div 4 \in Nat /\ j % 4 \in 0..3
        OBVIOUS
    <2> QED
        BY <2>1
<1>4. ByteOf(j) = p /\ OffsetOf(j) = 2 * s
    BY <1>3 DEF ByteOf, OffsetOf
<1>5. ASSUME q = p, 2 * r + b = 2 * s + c
      PROVE  r = s /\ b = c
    BY <1>5
<1>6. ByteOf(i) \in Nat /\ OffsetOf(i) + b \in 0..7
    BY <1>1, <1>2
<1> QED
    BY <1>1, <1>2, <1>3, <1>4, <1>5, <1>6

\* The two bits of a status are the status.
LEMMA TwoBits ==
    ASSUME NEW status \in Statuses
    PROVE  status = (IF 0 \in LowBits(status) THEN 1 ELSE 0)
                    + 2 * (IF 1 \in LowBits(status) THEN 1 ELSE 0)
<1>1. 2^0 = 1 /\ 2^1 = 2
    OBVIOUS
<1> QED
    BY <1>1 DEF LowBits, Statuses

\* The list is long enough for every entry: the index of no entry lies beyond
\* its last byte.
LEMMA LongEnough ==
    ASSUME ListInv
    PROVE  /\ ByteLen \in Nat
           /\ \A i \in DOMAIN entries : i \in Nat /\ ByteOf(i) \in 0..(ByteLen - 1)
<1>1. \A i \in DOMAIN entries : i \in Nat
    BY DEF ListInv, ListTypeOK
<1>2. NumEntries \in Nat /\ \A i \in DOMAIN entries : i < NumEntries
    <2>1. CASE DOMAIN entries = {}
        BY <2>1 DEF NumEntries
    <2>2. CASE DOMAIN entries # {}
        <3>1. /\ Max(DOMAIN entries) \in DOMAIN entries
              /\ \A i \in DOMAIN entries : Max(DOMAIN entries) >= i
            BY <2>2 DEF ListInv, HasGreatest, Max
        <3> QED
            BY <1>1, <2>2, <3>1 DEF NumEntries
    <2> QED
        BY <2>1, <2>2
<1> QED
    BY <1>1, <1>2 DEF ByteLen, ByteOf

\* A bit of the list is one exactly when it is a bit of the entry at its index.
LEMMA BitsApart ==
    ASSUME ListInv, NEW i \in Nat, ByteOf(i) \in 0..(ByteLen - 1), NEW b \in {0, 1}
    PROVE  OffsetOf(i) + b \in Bitstring[ByteOf(i)]
              <=> i \in DOMAIN entries /\ b \in LowBits(entries[i])
<1> DEFINE Here == {j \in DOMAIN entries : ByteOf(j) = ByteOf(i)}
<1>1. Bitstring[ByteOf(i)] = UNION {Pack(j) : j \in Here}
    BY DEF Bitstring
<1>2. OffsetOf(i) + b \in 0..7
    BY Positions
<1>3. ASSUME OffsetOf(i) + b \in Bitstring[ByteOf(i)]
      PROVE  i \in DOMAIN entries /\ b \in LowBits(entries[i])
    <2>1. PICK j \in Here : OffsetOf(i) + b \in Pack(j)
        BY <1>1, <1>3
    <2>2. PICK c \in LowBits(entries[j]) : OffsetOf(i) + b = OffsetOf(j) + c
        BY <2>1 DEF Pack
    <2>3. j \in Nat /\ c \in {0, 1}
        BY LongEnough DEF LowBits
    <2>4. i = j /\ b = c
        BY <2>2, <2>3, Positions
    <2> QED
        BY <2>4
<1>4. ASSUME i \in DOMAIN entries, b \in LowBits(entries[i])
      PROVE  OffsetOf(i) + b \in Bitstring[ByteOf(i)]
    <2>1. OffsetOf(i) + b \in Pack(i)
        BY <1>2, <1>4 DEF Pack
    <2> QED
        BY <1>1, <1>4, <2>1
<1> QED
    BY <1>3, <1>4

\* For every number of indices, the published list reads back as the store
\* (ServeHTTP).
THEOREM ListFaithful == ListSpec => []PublishesStatuses
<1>1. ASSUME ListInv, NEW i \in 0..(ByteLen * 4 - 1)
      PROVE  StatusAt(Bitstring, i) = IF i \in DOMAIN entries THEN entries[i] ELSE 0
    <2>1. ByteOf(i) \in 0..(ByteLen - 1)
        BY <1>1, LongEnough DEF ByteOf
    <2>2. \A b \in {0, 1} : OffsetOf(i) + b \in Bitstring[ByteOf(i)]
                              <=> i \in DOMAIN entries /\ b \in LowBits(entries[i])
        BY <1>1, <2>1, LongEnough, BitsApart
    <2>3. CASE i \in DOMAIN entries
        <3>1. entries[i] \in Statuses
            BY <1>1, <2>3 DEF ListInv, ListTypeOK
        <3> QED
            BY <2>2, <2>3, <3>1, TwoBits DEF StatusAt, Bit
    <2>4. CASE i \notin DOMAIN entries
        BY <2>2, <2>4 DEF StatusAt, Bit
    <2> QED
        BY <2>3, <2>4
<1>2. ListInv => PublishesStatuses
    BY <1>1, LongEnough DEF PublishesStatuses
<1> QED
    BY <1>2, ListInvariance, PTL DEF ListInv
=============================================================================
