----------------------------- MODULE PageProofs -----------------------------
(***************************************************************************)
(* Invariance and refinement proofs about Page, for every page size, slot  *)
(* size, set of record lengths and set of records.                         *)
(***************************************************************************)
EXTENDS Page, TLAPS

\* A slot of the directory has a record or is marked empty, and a record ends
\* below freePtr.
SlotsSet ==
  \A i \in SlotNos : i < slotCnt =>
    /\ slot[i].length # 0
    /\ slot[i].length > 0 => slot[i].offset + slot[i].length <= freePtr

\* No two records overlap.
Disjoint ==
  \A i, j \in SlotNos : InUse(i) /\ InUse(j) /\ i # j =>
    \/ slot[i].offset + slot[i].length <= slot[j].offset
    \/ slot[j].offset + slot[j].length <= slot[i].offset

\* The records leave no hole.
Filled == \A b \in Bytes : b < freePtr => \E i \in SlotNos : Covers(i, b)

\* The bytes of a slot in use are those of one record.
Spelt == \A i \in SlotNos : InUse(i) => \E r \in Record : Spells(i, r)

\* The inductive invariant.  Compact says of each byte what Disjoint and Filled
\* say of intervals; deleteRecord needs the intervals, to tell which offsets are
\* behind the hole.
IInv == TypeOK /\ SpaceAdds /\ SlotsSet /\ Disjoint /\ Filled /\ Spelt

-----------------------------------------------------------------------------
(***************************************************************************)
(* Arithmetic.                                                             *)
(***************************************************************************)
LEMMA SlotsFit ==
  ASSUME NEW k \in Nat, NEW S \in Nat \ {0}, NEW D \in Nat, k * S <= D
  PROVE  k <= D \div S
OBVIOUS

(* Taking the smaller of two naturals from the larger leaves a natural.    *)
LEMMA Difference ==
  ASSUME NEW a \in Nat, NEW b \in Nat, b <= a
  PROVE  a - b \in Nat
OBVIOUS

LEMMA Distribute ==
  ASSUME NEW a \in Nat, NEW b \in Nat, NEW S \in Nat
  PROVE  /\ (a + 1) * S = a * S + S
         /\ (a - b) * S = a * S - b * S
         /\ a * S \in Nat /\ b * S \in Nat
OBVIOUS

\* The types, as the provers like them.
LEMMA Typed ==
  ASSUME TypeOK
  PROVE  /\ DataSize \in Nat /\ SlotSize \in Nat \ {0} /\ SlotSize \in Nat
         /\ slotCnt \in Nat /\ freePtr \in Nat /\ freeSpace \in Nat
         /\ freePtr <= DataSize
         /\ \A i \in SlotNos :
              /\ i \in Nat /\ slot[i].offset \in Nat
              /\ slot[i].length \in Int /\ slot[i].length >= -1
              /\ slot[i].length \notin {0, Empty} => slot[i].length \in Lens /\ slot[i].length > 0
              /\ slot[i].length > 0 => slot[i].length \in Lens
<1>1. /\ DataSize \in Nat /\ SlotSize \in Nat \ {0} /\ Lens \subseteq Nat \ {0}
  BY PageAssumption
<1>2. /\ slot \in [SlotNos -> [offset : 0 .. DataSize, length : Lens \cup {Empty, 0}]]
      /\ slotCnt \in SlotNos /\ freePtr \in 0 .. DataSize /\ freeSpace \in 0 .. DataSize
  BY DEF TypeOK
<1>3. \A i \in SlotNos : i \in Nat
  BY <1>1 DEF SlotNos
<1>4. ASSUME NEW i \in SlotNos
      PROVE  slot[i].offset \in 0 .. DataSize /\ slot[i].length \in Lens \cup {-1, 0}
  BY <1>2 DEF Empty
<1>5. ASSUME NEW i \in SlotNos
      PROVE  /\ i \in Nat /\ slot[i].offset \in Nat
             /\ slot[i].length \in Int /\ slot[i].length >= -1
             /\ slot[i].length \notin {0, Empty} => slot[i].length \in Lens /\ slot[i].length > 0
             /\ slot[i].length > 0 => slot[i].length \in Lens
  <2> DEFINE l == slot[i].length
  <2>1. l \in Lens \/ l = -1 \/ l = 0
    BY <1>4
  <2>2. l \in Lens => l \in Nat \ {0}
    BY <1>1
  <2> HIDE DEF l
  <2>3. l \in Int /\ l >= -1 /\ (l \notin {0, -1} => l \in Lens /\ l > 0) /\ (l > 0 => l \in Lens)
    BY <2>1, <2>2
  <2>4. slot[i].offset \in Nat
    BY <1>1, <1>4
  <2> QED
    BY <1>3, <2>3, <2>4 DEF l, Empty
<1>6. slotCnt \in Nat /\ freePtr \in Nat /\ freeSpace \in Nat /\ freePtr <= DataSize
  BY <1>1, <1>2, <1>3
<1> QED
  BY <1>1, <1>5, <1>6

LEMMA RecordTyped ==
  ASSUME NEW r \in Record
  PROVE  r.length \in Lens /\ r.length \in Nat /\ r.length > 0 /\ r.tag \in Tag
<1>1. r.length \in Lens /\ r.tag \in Tag
  BY DEF Record
<1> DEFINE l == r.length
<1>2. l \in Nat \ {0}
  BY <1>1, PageAssumption
<1> HIDE DEF l
<1>3. l \in Nat /\ l > 0
  BY <1>2
<1> QED
  BY <1>1, <1>3 DEF l

\* A number below that of a slot is that of a slot.
LEMMA SlotBelow ==
  ASSUME NEW n \in SlotNos, NEW m \in Nat, m <= n
  PROVE  m \in SlotNos
<1>1. DataSize \div SlotSize \in Int
  BY PageAssumption
<1> QED
  BY <1>1 DEF SlotNos

LEMMA BytesTyped == \A b \in Bytes : b \in Nat
BY PageAssumption DEF Bytes

-----------------------------------------------------------------------------
LEMMA InitIInv == Init => IInv
<1> SUFFICES ASSUME Init PROVE IInv
OBVIOUS
<1>1. DataSize \in Nat /\ SlotSize \in Nat \ {0}
  BY PageAssumption
<1>2. 0 \in SlotNos /\ 0 \in 0 .. DataSize /\ DataSize \in 0 .. DataSize
  <2>1. 0 * SlotSize <= DataSize
    BY <1>1
  <2>2. 0 <= DataSize \div SlotSize
    BY <1>1, <2>1, SlotsFit
  <2>3. DataSize \div SlotSize \in Int
    BY <1>1
  <2> QED
    BY <1>1, <2>2, <2>3 DEF SlotNos
<1>3. TypeOK
  BY <1>2 DEF Init, TypeOK, Byte
<1>4. slotCnt = 0 /\ freePtr = 0 /\ freeSpace = DataSize
  BY DEF Init
<1>5. \A i \in SlotNos : ~(i < slotCnt)
  BY <1>3, <1>4, Typed
<1>6. SpaceAdds
  BY <1>1, <1>4 DEF SpaceAdds
<1>7. \A b \in Bytes : ~(b < freePtr)
  BY <1>4 DEF Bytes
<1> QED
  BY <1>3, <1>5, <1>6, <1>7 DEF IInv, SlotsSet, Disjoint, Filled, Spelt, InUse

-----------------------------------------------------------------------------
(***************************************************************************)
(* insertRecord.                                                           *)
(***************************************************************************)

\* Record r goes to slot i, which has none, behind the last record.
Inserts(r, i) ==
  /\ ~InUse(i) /\ i <= slotCnt
  /\ r.length + SlotSize <= freeSpace
  /\ slotCnt' = IF i = slotCnt THEN slotCnt + 1 ELSE slotCnt
  /\ freeSpace' = freeSpace - r.length - (IF i = slotCnt THEN SlotSize ELSE 0)
  /\ slot' = [slot EXCEPT ![i] = [offset |-> freePtr, length |-> r.length]]
  /\ data' = [b \in Bytes |->
                IF b >= freePtr /\ b < freePtr + r.length
                THEN <<r.tag, b - freePtr>> ELSE data[b]]
  /\ freePtr' = freePtr + r.length

LEMMA insertIs ==
  ASSUME TypeOK, NEW r \in Record, insertRecord(r)
  PROVE  \/ UNCHANGED <<slot, slotCnt, freePtr, freeSpace, data>>
         \/ status' = "OK" /\ \E i \in SlotNos : Inserts(r, i)
<1>1. ASSUME NEW i \in SlotNos, SlotForInsert(i) PROVE ~InUse(i) /\ i <= slotCnt
  BY <1>1, Typed DEF SlotForInsert, InUse, Empty
<1> QED
  BY <1>1 DEF insertRecord, Fits, Inserts

\* What a slot is after the insertion, and the room there was for the record.
LEMMA insertSlots ==
  ASSUME IInv, NEW r \in Record, NEW i \in SlotNos, Inserts(r, i)
  PROVE  /\ r.length \in Lens /\ r.length \in Nat /\ r.length > 0 /\ r.tag \in Tag
         /\ freePtr + r.length <= DataSize
         /\ slotCnt' \in SlotNos /\ freeSpace' \in 0 .. DataSize
         /\ freePtr' + slotCnt' * SlotSize + freeSpace' = DataSize
         /\ \A j \in SlotNos : slot'[j] = IF j = i THEN [offset |-> freePtr, length |-> r.length]
                                                   ELSE slot[j]
         /\ \A j \in SlotNos : InUse(j)' <=> InUse(j) \/ j = i
<1>1. /\ DataSize \in Nat /\ SlotSize \in Nat \ {0} /\ SlotSize \in Nat
      /\ slotCnt \in Nat /\ freePtr \in Nat /\ freeSpace \in Nat
      /\ \A j \in SlotNos : j \in Nat
  BY Typed DEF IInv
<1>2. r.length \in Lens /\ r.length \in Nat /\ r.length > 0 /\ r.tag \in Tag
  BY RecordTyped
<1>3. freePtr + slotCnt * SlotSize + freeSpace = DataSize
  BY DEF IInv, SpaceAdds
<1>4. (slotCnt + 1) * SlotSize = slotCnt * SlotSize + SlotSize /\ slotCnt * SlotSize \in Nat
  BY <1>1, Distribute
<1>5. freePtr' + slotCnt' * SlotSize + freeSpace' = DataSize
      /\ freeSpace' \in 0 .. DataSize /\ slotCnt' * SlotSize <= DataSize
      /\ freePtr + r.length <= DataSize
  <2> DEFINE x == slotCnt * SlotSize
             y == (slotCnt + 1) * SlotSize
             l == r.length
  <2>1. y = x + SlotSize /\ x \in Nat /\ l \in Nat
    BY <1>2, <1>4
  <2>2. /\ slotCnt' * SlotSize = IF i = slotCnt THEN y ELSE x
        /\ freeSpace' = freeSpace - l - (IF i = slotCnt THEN SlotSize ELSE 0)
        /\ freePtr' = freePtr + l /\ l + SlotSize <= freeSpace
    BY DEF Inserts
  <2>3. freePtr + x + freeSpace = DataSize
    BY <1>3
  <2> HIDE DEF x, y, l
  <2>4. freePtr' + slotCnt' * SlotSize + freeSpace' = DataSize
        /\ freeSpace' \in 0 .. DataSize /\ slotCnt' * SlotSize <= DataSize
        /\ freePtr + l <= DataSize
    BY <1>1, <2>1, <2>2, <2>3
  <2> QED
    BY <2>4 DEF l
<1>6. slotCnt' \in SlotNos
  <2>1. slotCnt' \in Nat
    BY <1>1 DEF Inserts
  <2>2. slotCnt' <= DataSize \div SlotSize
    BY <1>1, <1>5, <2>1, SlotsFit
  <2>3. DataSize \div SlotSize \in Int
    BY <1>1
  <2> QED
    BY <2>1, <2>2, <2>3 DEF SlotNos
<1>7. \A j \in SlotNos : slot'[j] = IF j = i THEN [offset |-> freePtr, length |-> r.length]
                                             ELSE slot[j]
  BY DEF Inserts, IInv, TypeOK
<1>8. ASSUME NEW j \in SlotNos PROVE InUse(j)' <=> InUse(j) \/ j = i
  <2>1. CASE j = i
    <3>1. slot'[j].length = r.length /\ j < slotCnt'
      BY <1>1, <1>7, <2>1 DEF Inserts
    <3> QED
      BY <1>2, <2>1, <3>1 DEF InUse
  <2>2. CASE j # i
    <3>1. slot'[j] = slot[j] /\ (j < slotCnt' <=> j < slotCnt)
      BY <1>1, <1>7, <2>2 DEF Inserts
    <3> QED
      BY <2>2, <3>1 DEF InUse
  <2> QED
    BY <2>1, <2>2
<1> QED
  BY <1>2, <1>5, <1>6, <1>7, <1>8

\* The new record is in its slot and the others are where they were.
LEMMA insertSpells ==
  ASSUME IInv, NEW r \in Record, NEW i \in SlotNos, Inserts(r, i)
  PROVE  /\ Spells(i, r)'
         /\ \A j \in SlotNos, s \in Record : InUse(j) /\ Spells(j, s) => Spells(j, s)'
<1>1. /\ r.length \in Lens /\ r.length \in Nat /\ r.length > 0 /\ r.tag \in Tag
      /\ freePtr + r.length <= DataSize
      /\ slotCnt' \in SlotNos /\ freeSpace' \in 0 .. DataSize
      /\ freePtr' + slotCnt' * SlotSize + freeSpace' = DataSize
      /\ \A j \in SlotNos : slot'[j] = IF j = i THEN [offset |-> freePtr, length |-> r.length]
                                                ELSE slot[j]
      /\ \A j \in SlotNos : InUse(j)' <=> InUse(j) \/ j = i
  BY insertSlots
<1>2. /\ DataSize \in Nat /\ slotCnt \in Nat /\ freePtr \in Nat
      /\ \A j \in SlotNos : j \in Nat /\ slot[j].offset \in Nat /\ slot[j].length \in Int
  BY Typed DEF IInv
<1>3. freePtr' = freePtr + r.length /\ i <= slotCnt
      /\ slotCnt' = (IF i = slotCnt THEN slotCnt + 1 ELSE slotCnt)
  BY DEF Inserts
<1>4. ASSUME NEW b \in Bytes
      PROVE  /\ b \in Nat
             /\ b < freePtr => data'[b] = data[b]
             /\ b >= freePtr /\ b < freePtr + r.length => data'[b] = <<r.tag, b - freePtr>>
  <2>1. b \in Nat
    BY BytesTyped
  <2>2. b < freePtr => ~(b >= freePtr)
    BY <1>2, <2>1
  <2> QED
    BY <2>1, <2>2 DEF Inserts
<1>5. \A j \in SlotNos : InUse(j) => j # i /\ slot[j].offset + slot[j].length <= freePtr
                                       /\ slot[j].length > 0
  BY <1>2 DEF IInv, SlotsSet, InUse, Inserts
<1>11. ASSUME NEW j \in SlotNos, InUse(j), NEW s \in Record, Spells(j, s)
       PROVE  Spells(j, s)'
  <2>1. slot'[j] = slot[j] /\ slot[j].offset + s.length <= freePtr /\ s.length \in Nat
        /\ slot[j].length = s.length
    BY <1>1, <1>5, <1>11, RecordTyped DEF Spells
  <2>2. ASSUME NEW k \in 0 .. s.length - 1
        PROVE  data'[slot[j].offset + k] = <<s.tag, k>>
    <3> DEFINE b == slot[j].offset + k
    <3>1. b \in Bytes /\ b < freePtr
      BY <1>1, <1>2, <2>1 DEF Bytes
    <3>2. data[b] = <<s.tag, k>>
      BY <1>11 DEF Spells
    <3> HIDE DEF b
    <3>3. data'[b] = data[b]
      BY <1>2, <1>4, <3>1
    <3> QED
      BY <3>2, <3>3 DEF b
  <2> QED
    BY <2>1, <2>2 DEF Spells
<1>12. Spells(i, r)'
  <2>1. slot'[i].offset = freePtr /\ slot'[i].length = r.length
    BY <1>1
  <2>2. ASSUME NEW k \in 0 .. r.length - 1
        PROVE  data'[freePtr + k] = <<r.tag, k>>
    <3> DEFINE b == freePtr + k
    <3>1. b \in Bytes /\ b >= freePtr /\ b < freePtr + r.length /\ b - freePtr = k
      BY <1>1, <1>2 DEF Bytes
    <3> HIDE DEF b
    <3>2. data'[b] = <<r.tag, k>>
      BY <1>4, <3>1
    <3> QED
      BY <3>2 DEF b
  <2> QED
    BY <2>1, <2>2 DEF Spells
<1> QED
  BY <1>11, <1>12

LEMMA insertKeeps ==
  ASSUME IInv, NEW r \in Record, NEW i \in SlotNos, Inserts(r, i), status' = "OK"
  PROVE  IInv'
<1>1. /\ r.length \in Lens /\ r.length \in Nat /\ r.length > 0 /\ r.tag \in Tag
      /\ freePtr + r.length <= DataSize
      /\ slotCnt' \in SlotNos /\ freeSpace' \in 0 .. DataSize
      /\ freePtr' + slotCnt' * SlotSize + freeSpace' = DataSize
      /\ \A j \in SlotNos : slot'[j] = IF j = i THEN [offset |-> freePtr, length |-> r.length]
                                                ELSE slot[j]
      /\ \A j \in SlotNos : InUse(j)' <=> InUse(j) \/ j = i
  BY insertSlots
<1>2. /\ DataSize \in Nat /\ slotCnt \in Nat /\ freePtr \in Nat
      /\ \A j \in SlotNos : j \in Nat /\ slot[j].offset \in Nat /\ slot[j].length \in Int
  BY Typed DEF IInv
<1>3. freePtr' = freePtr + r.length /\ i <= slotCnt
      /\ slotCnt' = (IF i = slotCnt THEN slotCnt + 1 ELSE slotCnt)
  BY DEF Inserts
<1>4. ASSUME NEW b \in Bytes
      PROVE  /\ b \in Nat
             /\ b < freePtr => data'[b] = data[b]
             /\ b >= freePtr /\ b < freePtr + r.length => data'[b] = <<r.tag, b - freePtr>>
  <2>1. b \in Nat
    BY BytesTyped
  <2>2. b < freePtr => ~(b >= freePtr)
    BY <1>2, <2>1
  <2> QED
    BY <2>1, <2>2 DEF Inserts
<1>5. \A j \in SlotNos : InUse(j) => j # i /\ slot[j].offset + slot[j].length <= freePtr
                                       /\ slot[j].length > 0
  BY <1>2 DEF IInv, SlotsSet, InUse, Inserts
<1>6. TypeOK'
  <2>1. slot' \in [SlotNos -> [offset : 0 .. DataSize, length : Lens \cup {Empty, 0}]]
    <3>1. [offset |-> freePtr, length |-> r.length] \in
            [offset : 0 .. DataSize, length : Lens \cup {Empty, 0}]
      BY <1>1, <1>2
    <3> QED
      BY <3>1 DEF Inserts, IInv, TypeOK
  <2>2. data' \in [Bytes -> Byte]
    <3>1. \A b \in Bytes : data[b] \in Byte
      BY DEF IInv, TypeOK
    <3>2. \A b \in Bytes : b >= freePtr => <<r.tag, b - freePtr>> \in Byte
      BY <1>1, <1>2, <1>4 DEF Byte
    <3> QED
      BY <3>1, <3>2 DEF Inserts
  <2>3. freePtr' \in 0 .. DataSize
    BY <1>1, <1>2, <1>3
  <2> QED
    BY <1>1, <2>1, <2>2, <2>3 DEF TypeOK
<1>7. SpaceAdds'
  <2>1. slotCnt' > 0 => slot'[slotCnt' - 1].length > 0
    <3>1. CASE i = slotCnt
      <4>1. slotCnt' - 1 = i
        BY <1>2, <1>3, <3>1
      <4>2. slot'[i].length = r.length
        BY <1>1
      <4> QED
        BY <1>1, <4>1, <4>2
    <3>2. CASE i # slotCnt
      <4>1. slotCnt' = slotCnt /\ slotCnt > 0 /\ i \in Nat
        BY <1>2, <1>3, <3>2
      <4>2. slotCnt - 1 \in SlotNos
        <5>1. slotCnt \in SlotNos
          BY DEF IInv, TypeOK
        <5> QED
          BY <1>2, <4>1, <5>1, SlotBelow
      <4>3. slot[slotCnt - 1].length > 0
        BY <4>1 DEF IInv, SpaceAdds
      <4>4. slotCnt - 1 # i
        BY <1>2, <4>1, <4>3 DEF Inserts, InUse
      <4> QED
        BY <1>1, <4>1, <4>2, <4>3, <4>4
    <3> QED
      BY <3>1, <3>2
  <2> QED
    BY <1>1, <2>1 DEF SpaceAdds
<1>8. SlotsSet'
  <2> SUFFICES ASSUME NEW j \in SlotNos, j < slotCnt'
               PROVE  /\ slot'[j].length # 0
                      /\ slot'[j].length > 0 => slot'[j].offset + slot'[j].length <= freePtr'
    BY DEF SlotsSet
  <2>1. CASE j = i
    <3>1. slot'[j].length = r.length /\ slot'[j].offset = freePtr
      BY <1>1, <2>1
    <3> QED
      BY <1>1, <1>2, <1>3, <3>1
  <2>2. CASE j # i
    <3>1. slot'[j] = slot[j] /\ j < slotCnt
      BY <1>1, <1>2, <1>3, <2>2
    <3>2. slot[j].length # 0 /\ (slot[j].length > 0 => slot[j].offset + slot[j].length <= freePtr)
      BY <3>1 DEF IInv, SlotsSet
    <3> QED
      BY <1>1, <1>2, <1>3, <3>1, <3>2
  <2> QED
    BY <2>1, <2>2
<1>9. Disjoint'
  <2> SUFFICES ASSUME NEW j \in SlotNos, NEW k \in SlotNos, InUse(j)', InUse(k)', j # k
               PROVE  \/ slot'[j].offset + slot'[j].length <= slot'[k].offset
                      \/ slot'[k].offset + slot'[k].length <= slot'[j].offset
    BY DEF Disjoint
  <2>1. slot'[i].offset = freePtr
    BY <1>1
  <2>2. CASE j = i
    BY <1>1, <1>2, <1>5, <2>1, <2>2
  <2>3. CASE k = i
    BY <1>1, <1>2, <1>5, <2>1, <2>3
  <2>4. CASE j # i /\ k # i
    BY <1>1, <2>4 DEF IInv, Disjoint
  <2> QED
    BY <2>2, <2>3, <2>4
<1>10. Filled'
  <2> SUFFICES ASSUME NEW b \in Bytes, b < freePtr' PROVE \E j \in SlotNos : Covers(j, b)'
    BY DEF Filled
  <2>1. CASE b < freePtr
    <3>1. PICK j \in SlotNos : Covers(j, b)
      BY <2>1 DEF IInv, Filled
    <3>2. j # i /\ InUse(j) /\ slot'[j] = slot[j]
      BY <1>1, <1>5, <3>1 DEF Covers
    <3> QED
      BY <1>1, <3>1, <3>2 DEF Covers
  <2>2. CASE b >= freePtr
    <3>1. slot'[i].offset = freePtr /\ slot'[i].length = r.length /\ InUse(i)'
      BY <1>1
    <3> QED
      BY <1>3, <2>2, <3>1 DEF Covers
  <2> QED
    <3>1. b < freePtr \/ b >= freePtr
      BY <1>2, BytesTyped
    <3> QED
      BY <2>1, <2>2, <3>1
<1>11. Spells(i, r)' /\ \A j \in SlotNos, s \in Record : InUse(j) /\ Spells(j, s) => Spells(j, s)'
  BY insertSpells
<1>13. Spelt'
  BY <1>1, <1>11 DEF IInv, Spelt
<1> QED
  BY <1>6, <1>7, <1>8, <1>9, <1>10, <1>13 DEF IInv

-----------------------------------------------------------------------------
(***************************************************************************)
(* deleteRecord.                                                           *)
(***************************************************************************)

\* The record of slot i goes, and what is behind it moves down.
Deletes(i) ==
  LET off == slot[i].offset
      len == slot[i].length
  IN  /\ InUse(i)
      /\ freePtr' = freePtr - len
      /\ data' = Closed(off, len)
      /\ slotCnt' \in Nat /\ slotCnt' <= slotCnt
      /\ freeSpace' = freeSpace + SpaceBack(len, slotCnt')
      /\ slotCnt' > 0 => slot'[slotCnt' - 1].length > 0
      /\ slot' \in [SlotNos -> [offset : Int, length : Lens \cup {Empty, 0}]]
      /\ \A j \in SlotNos :
           /\ InUse(j)' <=> InUse(j) /\ j # i
           /\ InUse(j)' => slot'[j].length = slot[j].length
           /\ InUse(j)' => slot'[j].offset = IF slot[j].offset > off THEN slot[j].offset - len
                                                                     ELSE slot[j].offset
           /\ j < slotCnt' => slot'[j].length # 0
           /\ ~InUse(j)' => slot'[j].offset \in {0, slot[j].offset}

\* The offsets behind the hole.
LEMMA ShiftedAt ==
  ASSUME TypeOK, NEW off \in Int, NEW len \in Int, NEW j \in SlotNos
  PROVE  /\ Shifted(off, len)[j].length = slot[j].length
         /\ Shifted(off, len)[j].offset =
              IF j < slotCnt /\ slot[j].length >= 0 /\ slot[j].offset > off
              THEN slot[j].offset - len ELSE slot[j].offset
         /\ Shifted(off, len)[j] \in [offset : Int, length : Lens \cup {Empty, 0}]
<1>1. slot[j] \in [offset : 0 .. DataSize, length : Lens \cup {Empty, 0}]
  BY DEF TypeOK
<1>2. slot[j].offset \in Int
  BY Typed
<1> DEFINE o == slot[j].offset - len
<1>3. o \in Int
  BY <1>2
<1>4. Shifted(off, len)[j] = IF j < slotCnt /\ slot[j].length >= 0 /\ slot[j].offset > off
                             THEN [slot[j] EXCEPT !.offset = o] ELSE slot[j]
  BY <1>1 DEF Shifted
<1> HIDE DEF o
<1>5. /\ [slot[j] EXCEPT !.offset = o].offset = o
      /\ [slot[j] EXCEPT !.offset = o].length = slot[j].length
      /\ [slot[j] EXCEPT !.offset = o] \in [offset : Int, length : Lens \cup {Empty, 0}]
  BY <1>1, <1>3
<1>6. slot[j] \in [offset : Int, length : Lens \cup {Empty, 0}]
  BY <1>1, <1>2
<1> QED
  BY <1>4, <1>5, <1>6 DEF o

LEMMA deleteIs ==
  ASSUME IInv, NEW i \in SlotNos, deleteRecord(i)
  PROVE  \/ UNCHANGED <<slot, slotCnt, freePtr, freeSpace, data>>
         \/ status' = "OK" /\ Deletes(i)
<1>1. CASE ~InUse(i)
  BY <1>1 DEF deleteRecord
<1>2. CASE InUse(i)
  <2> DEFINE off == slot[i].offset
             len == slot[i].length
  <2>1. TypeOK /\ SlotsSet
    BY DEF IInv
  <2>2. /\ SlotSize \in Nat /\ slotCnt \in Nat /\ freeSpace \in Nat
        /\ \A j \in SlotNos : /\ j \in Nat /\ slot[j].offset \in Nat
                              /\ slot[j].length \in Int /\ slot[j].length >= -1
                              /\ slot[j].length \notin {0, Empty} => slot[j].length > 0
    BY <2>1, Typed
  <2>3. off \in Int /\ len \in Int /\ len > 0 /\ i < slotCnt
    BY <1>2, <2>2 DEF InUse
  <2>4. \A j \in SlotNos : j < slotCnt => slot[j].length # 0
    BY <2>1 DEF SlotsSet
  <2>5. /\ freePtr' = freePtr - len /\ data' = Closed(off, len) /\ status' = "OK"
        /\ \/ /\ i = slotCnt - 1
              /\ \E n \in SlotNos : /\ SlotsLeft(i, n) /\ slotCnt' = n
                                    /\ freeSpace' = freeSpace + SpaceBack(len, n)
              /\ slot' = Shifted(off, len)
           \/ /\ i # slotCnt - 1
              /\ slot' = [Shifted(off, len) EXCEPT ![i] = [offset |-> 0, length |-> Empty]]
              /\ freeSpace' = freeSpace + len /\ slotCnt' = slotCnt
    BY <1>2 DEF deleteRecord
  <2>6. \A j \in SlotNos :
          /\ Shifted(off, len)[j].length = slot[j].length
          /\ Shifted(off, len)[j].offset =
               IF j < slotCnt /\ slot[j].length >= 0 /\ slot[j].offset > off
               THEN slot[j].offset - len ELSE slot[j].offset
          /\ Shifted(off, len)[j] \in [offset : Int, length : Lens \cup {Empty, 0}]
    BY <2>1, <2>3, ShiftedAt
  <2>7. /\ Shifted(off, len) = [j \in SlotNos |-> Shifted(off, len)[j]]
        /\ Shifted(off, len) \in [SlotNos -> [offset : Int, length : Lens \cup {Empty, 0}]]
    <3>1. Shifted(off, len) = [j \in SlotNos |-> Shifted(off, len)[j]]
      BY DEF Shifted
    <3> QED
      BY <2>6, <3>1
  <2> HIDE DEF off, len
  <2> DEFINE T == Shifted(off, len)
  <2>8. /\ \A j \in SlotNos : InUse(j) => /\ j < slotCnt /\ slot[j].length > 0
                                          /\ slot[j].length >= 0
        /\ \A j \in SlotNos : j < slotCnt /\ slot[j].length >= 0 => InUse(j)
    BY <2>2, <2>4 DEF InUse
  <2>9. /\ \A j \in SlotNos : InUse(j) =>
             T[j].offset = IF slot[j].offset > off THEN slot[j].offset - len ELSE slot[j].offset
        /\ \A j \in SlotNos : ~InUse(j) \/ j = i => T[j].offset = slot[j].offset
    <3>1. ~(slot[i].offset > off)
      BY <2>2 DEF off
    <3> QED
      BY <2>6, <2>8, <3>1
  <2> HIDE DEF T
  <2>10. CASE i = slotCnt - 1
    <3>1. PICK n \in SlotNos : /\ SlotsLeft(i, n) /\ slotCnt' = n
                               /\ freeSpace' = freeSpace + SpaceBack(len, n)
      BY <2>5, <2>10
    <3>2. slot' = T
      BY <2>5, <2>10 DEF T
    <3>3. n \in Nat /\ i \in Nat /\ slotCnt \in Nat /\ n <= i /\ i < slotCnt
      BY <2>2, <2>3, <3>1 DEF SlotsLeft
    <3>3a. n < slotCnt /\ n <= slotCnt
      BY <3>3
    <3>4. \A j \in SlotNos : slot'[j].length = slot[j].length
      BY <2>6, <3>2 DEF T
    <3>5. \A j \in SlotNos : InUse(j)' <=> InUse(j) /\ j # i
      <4> SUFFICES ASSUME NEW j \in SlotNos
                   PROVE  j < n /\ slot[j].length > 0 <=> j < slotCnt /\ slot[j].length > 0 /\ j # i
        BY <3>1, <3>4 DEF InUse
      <4>1. n <= j /\ j < i => slot[j].length = -1
        BY <3>1 DEF SlotsLeft, Empty
      <4>2. j \in Nat /\ i \in Nat /\ slotCnt \in Nat /\ slotCnt = i + 1
        BY <2>2, <2>10
      <4> QED
        BY <3>3, <4>1, <4>2
    <3>6. slotCnt' > 0 => slot'[slotCnt' - 1].length > 0
      <4> SUFFICES ASSUME n > 0 PROVE slot'[n - 1].length > 0
        BY <3>1
      <4>1. n - 1 \in SlotNos /\ n - 1 < slotCnt
        <5>1. n - 1 \in Nat /\ n - 1 <= n /\ n - 1 < slotCnt
          BY <3>3
        <5> QED
          BY <5>1, SlotBelow
      <4>2. slot[n - 1].length \notin {0, Empty}
        BY <2>4, <3>1, <4>1 DEF SlotsLeft
      <4> QED
        BY <2>2, <3>4, <4>1, <4>2
    <3>7. slotCnt' <= slotCnt
      BY <3>1, <3>3a
    <3>8. \A j \in SlotNos : j < slotCnt' => slot'[j].length # 0
      <4>1. \A j \in SlotNos : j < n => j < slotCnt
        BY <2>2, <3>3
      <4> QED
        BY <2>4, <3>1, <3>4, <4>1
    <3>9. \A j \in SlotNos :
            /\ InUse(j)' => slot'[j].length = slot[j].length
            /\ InUse(j)' => slot'[j].offset = IF slot[j].offset > off THEN slot[j].offset - len
                                                                      ELSE slot[j].offset
            /\ ~InUse(j)' => slot'[j].offset \in {0, slot[j].offset}
      BY <2>9, <3>2, <3>4, <3>5
    <3>10. Deletes(i)
      BY <1>2, <2>5, <2>7, <3>1, <3>2, <3>3, <3>5, <3>6, <3>7, <3>8, <3>9
      DEF Deletes, off, len, T
    <3> QED
      BY <2>5, <3>10
  <2>11. CASE i # slotCnt - 1
    <3>1. /\ slot' = [T EXCEPT ![i] = [offset |-> 0, length |-> Empty]]
          /\ freeSpace' = freeSpace + len /\ slotCnt' = slotCnt
      BY <2>5, <2>11 DEF T
    <3>2. /\ \A j \in SlotNos : slot'[j] = IF j = i THEN [offset |-> 0, length |-> Empty] ELSE T[j]
          /\ slot' \in [SlotNos -> [offset : Int, length : Lens \cup {Empty, 0}]]
      <4>1. [offset |-> 0, length |-> Empty] \in [offset : Int, length : Lens \cup {Empty, 0}]
        OBVIOUS
      <4> QED
        BY <2>7, <3>1, <4>1 DEF T
    <3>3. /\ slot'[i].length = -1 /\ slot'[i].offset = 0
          /\ \A j \in SlotNos : j # i => slot'[j].length = slot[j].length /\ slot'[j].offset = T[j].offset
      BY <2>6, <3>2 DEF Empty, T
    <3>4. \A j \in SlotNos : InUse(j)' <=> InUse(j) /\ j # i
      BY <3>1, <3>3 DEF InUse
    <3>5. slotCnt' > 0 => slot'[slotCnt' - 1].length > 0
      <4>1. slotCnt > 0 => slotCnt - 1 \in SlotNos /\ slot[slotCnt - 1].length > 0
        BY <2>1, <2>2, SlotBelow DEF IInv, TypeOK, SpaceAdds
      <4> QED
        BY <2>11, <3>1, <3>3, <4>1
    <3>6. \A j \in SlotNos : j < slotCnt' => slot'[j].length # 0
      BY <2>4, <3>1, <3>3
    <3>7. \A j \in SlotNos :
            /\ InUse(j)' => slot'[j].length = slot[j].length
            /\ InUse(j)' => slot'[j].offset = IF slot[j].offset > off THEN slot[j].offset - len
                                                                      ELSE slot[j].offset
            /\ ~InUse(j)' => slot'[j].offset \in {0, slot[j].offset}
      BY <2>9, <3>3, <3>4
    <3>8. freeSpace' = freeSpace + SpaceBack(len, slotCnt')
      <4>1. slotCnt - slotCnt = 0 /\ 0 * SlotSize = 0
        BY <2>2
      <4> QED
        BY <2>3, <3>1, <4>1 DEF SpaceBack
    <3>9. Deletes(i)
      BY <1>2, <2>2, <2>5, <3>1, <3>2, <3>4, <3>5, <3>6, <3>7, <3>8
      DEF Deletes, off, len
    <3> QED
      BY <2>5, <3>9
  <2> QED
    BY <2>10, <2>11
<1> QED
  BY <1>1, <1>2

\* Where the other records are, before and after.
LEMMA deleteSlots ==
  ASSUME IInv, NEW i \in SlotNos, Deletes(i), NEW j \in SlotNos, InUse(j), j # i
  PROVE  LET off == slot[i].offset
             len == slot[i].length
         IN  /\ slot[j].offset \in Nat /\ slot[j].length \in Nat /\ slot[j].length > 0
             /\ slot[j].offset + slot[j].length <= freePtr
             /\ InUse(j)' /\ slot'[j].length = slot[j].length
             /\ IF slot[j].offset >= off + len
                THEN slot[j].offset > off /\ slot'[j].offset = slot[j].offset - len
                ELSE slot[j].offset + slot[j].length <= off /\ slot'[j].offset = slot[j].offset
<1> DEFINE off == slot[i].offset
           len == slot[i].length
<1>1. /\ slot[j].offset \in Nat /\ slot[j].length \in Int
      /\ off \in Nat /\ len \in Int
  BY Typed DEF IInv
<1>2. slot[j].length > 0 /\ len > 0
  BY DEF Deletes, InUse
<1>3. slot[j].offset + slot[j].length <= freePtr
  BY <1>2 DEF InUse, IInv, SlotsSet
<1>4. InUse(j)' /\ slot'[j].length = slot[j].length
      /\ slot'[j].offset = (IF slot[j].offset > off THEN slot[j].offset - len ELSE slot[j].offset)
  BY DEF Deletes
<1>5. off + len <= slot[j].offset \/ slot[j].offset + slot[j].length <= off
  BY DEF IInv, Disjoint, Deletes
<1> DEFINE oj == slot[j].offset
           lj == slot[j].length
<1>6. lj \in Nat /\ IF oj >= off + len THEN oj > off ELSE oj + lj <= off /\ ~(oj > off)
  <2>1. oj \in Nat /\ lj \in Int /\ off \in Nat /\ len \in Int /\ lj > 0 /\ len > 0
        /\ (off + len <= oj \/ oj + lj <= off)
    BY <1>1, <1>2, <1>5
  <2> HIDE DEF oj, lj, off, len
  <2> QED
    BY <2>1
<1> QED
  BY <1>1, <1>2, <1>3, <1>4, <1>6

\* The other records keep their bytes.
LEMMA deleteSpells ==
  ASSUME IInv, NEW i \in SlotNos, Deletes(i)
  PROVE  \A j \in SlotNos, s \in Record : InUse(j) /\ j # i /\ Spells(j, s) => Spells(j, s)'
<1> DEFINE off == slot[i].offset
           len == slot[i].length
<1>1. /\ DataSize \in Nat /\ SlotSize \in Nat /\ slotCnt \in Nat /\ freePtr \in Nat
      /\ freeSpace \in Nat /\ freePtr <= DataSize
      /\ off \in Nat /\ len \in Int
      /\ \A j \in SlotNos : j \in Nat
  BY Typed DEF IInv
<1>2. len > 0 /\ len \in Nat /\ off + len <= freePtr
  <2>1. len > 0 /\ i < slotCnt
    BY DEF Deletes, InUse
  <2> QED
    BY <1>1, <2>1 DEF IInv, SlotsSet
<1>3. /\ freePtr' = freePtr - len
      /\ slotCnt' \in Nat /\ slotCnt' <= slotCnt
      /\ freeSpace' = freeSpace + SpaceBack(len, slotCnt')
      /\ slotCnt' > 0 => slot'[slotCnt' - 1].length > 0
      /\ \A j \in SlotNos :
           /\ InUse(j)' <=> InUse(j) /\ j # i
           /\ j < slotCnt' => slot'[j].length # 0
           /\ ~InUse(j)' => slot'[j].offset \in {0, slot[j].offset}
      /\ slot' \in [SlotNos -> [offset : Int, length : Lens \cup {Empty, 0}]]
  BY DEF Deletes
<1>4. ASSUME NEW b \in Bytes
      PROVE  /\ b \in Nat
             /\ b < off => data'[b] = data[b]
             /\ b >= off /\ b < freePtr - len => data'[b] = data[b + len] /\ b + len \in Bytes
             /\ data'[b] \in {data[b], data[b + len], Blank}
  <2>1. b \in Nat
    BY BytesTyped
  <2>2. data' = Closed(off, len)
    BY DEF Deletes
  <2>3. /\ b < off => ~(b >= off) /\ ~(b >= freePtr - len)
        /\ b < freePtr - len => b + len \in Bytes
    BY <1>1, <1>2, <2>1 DEF Bytes
  <2>4. data'[b] = IF b >= off /\ b < freePtr - len THEN data[b + len]
                   ELSE IF b >= freePtr - len /\ b < freePtr THEN Blank
                   ELSE data[b]
    BY <2>2 DEF Closed
  <2> QED
    BY <2>1, <2>3, <2>4
<1>5. ASSUME NEW j \in SlotNos, InUse(j), j # i
      PROVE  /\ slot[j].offset \in Nat /\ slot[j].length \in Nat /\ slot[j].length > 0
             /\ slot[j].offset + slot[j].length <= freePtr
             /\ InUse(j)' /\ slot'[j].length = slot[j].length
             /\ IF slot[j].offset >= off + len
                THEN slot[j].offset > off /\ slot'[j].offset = slot[j].offset - len
                ELSE slot[j].offset + slot[j].length <= off /\ slot'[j].offset = slot[j].offset
  BY <1>5, deleteSlots
<1> HIDE DEF off, len
<1>11. ASSUME NEW j \in SlotNos, InUse(j), j # i, NEW s \in Record, Spells(j, s)
       PROVE  Spells(j, s)'
  <2>1. slot[j].length = s.length /\ s.length \in Nat /\ slot'[j].length = s.length
    BY <1>5, <1>11, RecordTyped DEF Spells
  <2>2. ASSUME NEW k \in 0 .. s.length - 1
        PROVE  data'[slot'[j].offset + k] = <<s.tag, k>>
    <3> DEFINE b == slot'[j].offset + k
               c == slot[j].offset + k
               o == slot[j].offset
    <3>1. data[c] = <<s.tag, k>>
      BY <1>11 DEF Spells
    <3>2. o \in Nat /\ o + s.length <= freePtr /\ k \in Nat /\ k < s.length
      BY <1>5, <1>11, <2>1
    <3>3. CASE o >= off + len
      <4>1. slot'[j].offset = o - len
        BY <1>5, <1>11, <3>3
      <4>2. b + len = c /\ b \in Bytes /\ b >= off /\ b < freePtr - len
        BY <1>1, <1>2, <2>1, <3>2, <3>3, <4>1 DEF Bytes
      <4> HIDE DEF b, c, o
      <4>3. data'[b] = data[c]
        BY <1>4, <4>2
      <4> QED
        BY <3>1, <4>3 DEF b, c
    <3>4. CASE ~(o >= off + len)
      <4>1. slot'[j].offset = o /\ o + s.length <= off
        BY <1>5, <1>11, <2>1, <3>4
      <4>2. b = c /\ b \in Bytes /\ b < off
        BY <1>1, <1>2, <2>1, <3>2, <4>1 DEF Bytes
      <4> HIDE DEF b, c, o
      <4>3. data'[b] = data[c]
        BY <1>4, <4>2
      <4> QED
        BY <3>1, <4>3 DEF b, c
    <3> QED
      BY <3>3, <3>4
  <2> QED
    BY <2>1, <2>2 DEF Spells
<1> QED
  BY <1>11

LEMMA deleteKeeps ==
  ASSUME IInv, NEW i \in SlotNos, Deletes(i), status' = "OK"
  PROVE  IInv'
<1> DEFINE off == slot[i].offset
           len == slot[i].length
<1>1. /\ DataSize \in Nat /\ SlotSize \in Nat /\ slotCnt \in Nat /\ freePtr \in Nat
      /\ freeSpace \in Nat /\ freePtr <= DataSize
      /\ off \in Nat /\ len \in Int
      /\ \A j \in SlotNos : j \in Nat
  BY Typed DEF IInv
<1>2. len > 0 /\ len \in Nat /\ off + len <= freePtr
  <2>1. len > 0 /\ i < slotCnt
    BY DEF Deletes, InUse
  <2> QED
    BY <1>1, <2>1 DEF IInv, SlotsSet
<1>3. /\ freePtr' = freePtr - len
      /\ slotCnt' \in Nat /\ slotCnt' <= slotCnt
      /\ freeSpace' = freeSpace + SpaceBack(len, slotCnt')
      /\ slotCnt' > 0 => slot'[slotCnt' - 1].length > 0
      /\ \A j \in SlotNos :
           /\ InUse(j)' <=> InUse(j) /\ j # i
           /\ j < slotCnt' => slot'[j].length # 0
           /\ ~InUse(j)' => slot'[j].offset \in {0, slot[j].offset}
      /\ slot' \in [SlotNos -> [offset : Int, length : Lens \cup {Empty, 0}]]
  BY DEF Deletes
<1>4. ASSUME NEW b \in Bytes
      PROVE  /\ b \in Nat
             /\ b < off => data'[b] = data[b]
             /\ b >= off /\ b < freePtr - len => data'[b] = data[b + len] /\ b + len \in Bytes
             /\ data'[b] \in {data[b], data[b + len], Blank}
  <2>1. b \in Nat
    BY BytesTyped
  <2>2. data' = Closed(off, len)
    BY DEF Deletes
  <2>3. /\ b < off => ~(b >= off) /\ ~(b >= freePtr - len)
        /\ b < freePtr - len => b + len \in Bytes
    BY <1>1, <1>2, <2>1 DEF Bytes
  <2>4. data'[b] = IF b >= off /\ b < freePtr - len THEN data[b + len]
                   ELSE IF b >= freePtr - len /\ b < freePtr THEN Blank
                   ELSE data[b]
    BY <2>2 DEF Closed
  <2> QED
    BY <2>1, <2>3, <2>4
<1>5. ASSUME NEW j \in SlotNos, InUse(j), j # i
      PROVE  /\ slot[j].offset \in Nat /\ slot[j].length \in Nat /\ slot[j].length > 0
             /\ slot[j].offset + slot[j].length <= freePtr
             /\ InUse(j)' /\ slot'[j].length = slot[j].length
             /\ IF slot[j].offset >= off + len
                THEN slot[j].offset > off /\ slot'[j].offset = slot[j].offset - len
                ELSE slot[j].offset + slot[j].length <= off /\ slot'[j].offset = slot[j].offset
  BY <1>5, deleteSlots
<1> HIDE DEF off, len
<1>6. TypeOK' /\ SpaceAdds'
  <2>1. ASSUME NEW j \in SlotNos PROVE slot'[j].offset \in 0 .. DataSize
    <3>1. slot[j].offset \in 0 .. DataSize
      BY DEF IInv, TypeOK
    <3>2. CASE InUse(j)'
      <4>1. InUse(j) /\ j # i
        BY <1>3, <3>2
      <4>2. slot[j].offset >= off + len => slot[j].offset - len \in 0 .. DataSize
        BY <1>1, <1>2, <3>1
      <4> QED
        BY <1>5, <3>1, <4>1, <4>2
    <3>3. CASE ~InUse(j)'
      BY <1>1, <1>3, <3>1, <3>3
    <3> QED
      BY <3>2, <3>3
  <2>2. slot' \in [SlotNos -> [offset : 0 .. DataSize, length : Lens \cup {Empty, 0}]]
    BY <1>3, <2>1
  <2>3. data' \in [Bytes -> Byte]
    <3>1. \A b \in Bytes : data[b] \in Byte
      BY DEF IInv, TypeOK
    <3>2. ASSUME NEW b \in Bytes PROVE data'[b] \in Byte
      <4>1. data'[b] = IF b >= off /\ b < freePtr - len THEN data[b + len]
                       ELSE IF b >= freePtr - len /\ b < freePtr THEN Blank
                       ELSE data[b]
        BY DEF Deletes, Closed, off, len
      <4> QED
        BY <1>4, <3>1, <4>1 DEF Byte
    <3>3. data' = [b \in Bytes |-> data'[b]]
      BY DEF Deletes, Closed
    <3> QED
      BY <3>2, <3>3
  <2>4. slotCnt' \in SlotNos
    BY <1>3, SlotBelow DEF IInv, TypeOK
  <2>5. freePtr' \in 0 .. DataSize
    BY <1>1, <1>2, <1>3
  <2>6. freeSpace' \in 0 .. DataSize /\ freePtr' + slotCnt' * SlotSize + freeSpace' = DataSize
    <3> DEFINE x == slotCnt * SlotSize
               y == slotCnt' * SlotSize
    <3>1. (slotCnt - slotCnt') * SlotSize = x - y /\ x \in Nat /\ y \in Nat
      <4>1. PICK m \in Nat, n \in Nat : m = slotCnt /\ n = slotCnt'
        BY <1>1, <1>3
      <4>2. (m - n) * SlotSize = m * SlotSize - n * SlotSize
            /\ m * SlotSize \in Nat /\ n * SlotSize \in Nat
        BY <1>1, Distribute
      <4> QED
        BY <4>1, <4>2
    <3>2. freePtr + x + freeSpace = DataSize
      BY DEF IInv, SpaceAdds
    <3>3. freeSpace' = freeSpace + (len + (slotCnt - slotCnt') * SlotSize)
      BY <1>3 DEF SpaceBack
    <3>4. x - y >= 0
      <4>1. (slotCnt - slotCnt') \in Nat
        <5>1. PICK m \in Nat, n \in Nat : m = slotCnt /\ n = slotCnt' /\ n <= m
          BY <1>1, <1>3
        <5>2. m - n \in Nat
          BY <5>1, Difference
        <5> QED
          BY <5>1, <5>2
      <4>2. (slotCnt - slotCnt') * SlotSize \in Nat
        BY <1>1, <4>1, Distribute
      <4> QED
        BY <3>1, <4>2
    <3> HIDE DEF x, y
    <3>5. freeSpace' = freeSpace + (len + (x - y))
      BY <3>1, <3>3
    <3>6. freeSpace' \in 0 .. DataSize /\ freePtr' + y + freeSpace' = DataSize
      BY <1>1, <1>2, <1>3, <3>1, <3>2, <3>4, <3>5
    <3> QED
      BY <3>6 DEF y
  <2> QED
    BY <1>3, <2>2, <2>3, <2>4, <2>5, <2>6 DEF TypeOK, SpaceAdds
<1>8. SlotsSet'
  <2> SUFFICES ASSUME NEW j \in SlotNos, j < slotCnt', slot'[j].length > 0
               PROVE  slot'[j].offset + slot'[j].length <= freePtr'
    BY <1>3 DEF SlotsSet
  <2>1. InUse(j) /\ j # i
    BY <1>3 DEF InUse
  <2> QED
    BY <1>1, <1>2, <1>3, <1>5, <2>1
<1>9. Disjoint'
  <2> SUFFICES ASSUME NEW j \in SlotNos, NEW k \in SlotNos, InUse(j)', InUse(k)', j # k
               PROVE  \/ slot'[j].offset + slot'[j].length <= slot'[k].offset
                      \/ slot'[k].offset + slot'[k].length <= slot'[j].offset
    BY DEF Disjoint
  <2>1. InUse(j) /\ j # i /\ InUse(k) /\ k # i
    BY <1>3
  <2>2. \/ slot[j].offset + slot[j].length <= slot[k].offset
        \/ slot[k].offset + slot[k].length <= slot[j].offset
    BY <2>1 DEF IInv, Disjoint
  <2> QED
    BY <1>1, <1>2, <1>5, <2>1, <2>2
<1>10. Filled'
  <2> SUFFICES ASSUME NEW b \in Bytes, b < freePtr' PROVE \E j \in SlotNos : Covers(j, b)'
    BY DEF Filled
  <2>0. b \in Nat /\ b < freePtr - len
    BY <1>3, BytesTyped
  <2>1. CASE b < off
    <3>1. PICK j \in SlotNos : Covers(j, b)
      <4>1. b < freePtr
        BY <1>1, <1>2, <2>0
      <4> QED
        BY <4>1 DEF IInv, Filled
    <3>2. InUse(j) /\ slot[j].offset <= b /\ b < slot[j].offset + slot[j].length
      BY <3>1 DEF Covers
    <3>3. j # i
      BY <1>1, <2>0, <2>1, <3>2 DEF off
    <3>4. slot'[j].offset = slot[j].offset /\ slot'[j].length = slot[j].length /\ InUse(j)'
      BY <1>1, <1>2, <1>5, <2>0, <2>1, <3>2, <3>3
    <3> QED
      BY <3>2, <3>4 DEF Covers
  <2>2. CASE b >= off
    <3> DEFINE c == b + len
    <3>1. c \in Bytes /\ c < freePtr /\ c >= off + len /\ c \in Nat /\ c - len = b
      BY <1>1, <1>2, <2>0, <2>2 DEF Bytes
    <3> HIDE DEF c
    <3>2. PICK j \in SlotNos : Covers(j, c)
      BY <3>1 DEF IInv, Filled
    <3>3. InUse(j) /\ slot[j].offset <= c /\ c < slot[j].offset + slot[j].length
      BY <3>2 DEF Covers
    <3>4. j # i
      BY <1>1, <3>1, <3>3 DEF off, len
    <3>5. /\ slot'[j].offset = slot[j].offset - len /\ slot'[j].length = slot[j].length
          /\ InUse(j)' /\ slot[j].offset \in Nat /\ slot[j].length \in Nat
      BY <1>1, <1>2, <1>5, <3>1, <3>3, <3>4
    <3>6. slot'[j].offset <= b /\ b < slot'[j].offset + slot'[j].length
      BY <1>2, <2>0, <3>1, <3>3, <3>5
    <3> QED
      BY <3>5, <3>6 DEF Covers
  <2> QED
    BY <1>1, <2>0, <2>1, <2>2
<1>11. \A j \in SlotNos, s \in Record : InUse(j) /\ j # i /\ Spells(j, s) => Spells(j, s)'
  BY deleteSpells
<1>12. Spelt'
  BY <1>3, <1>11 DEF IInv, Spelt
<1> QED
  BY <1>6, <1>8, <1>9, <1>10, <1>12 DEF IInv

-----------------------------------------------------------------------------
LEMMA NextIInv == IInv /\ [Next]_vars => IInv'
<1> SUFFICES ASSUME IInv, [Next]_vars PROVE IInv'
OBVIOUS
<1>1. ASSUME UNCHANGED <<slot, slotCnt, freePtr, freeSpace, data>>,
             status' \in {"OK", "NOSPACE", "INVALIDSLOTNO"}
      PROVE  IInv'
  BY <1>1 DEF IInv, TypeOK, SpaceAdds, SlotsSet, Disjoint, Filled, Spelt, InUse, Covers, Spells
<1>2. ASSUME NEW r \in Record, insertRecord(r) PROVE IInv'
  <2>1. TypeOK
    BY DEF IInv
  <2>2. status' \in {"OK", "NOSPACE", "INVALIDSLOTNO"}
    BY <1>2 DEF insertRecord
  <2> QED
    BY <1>1, <1>2, <2>1, <2>2, insertIs, insertKeeps
<1>3. ASSUME NEW i \in SlotNos, deleteRecord(i) PROVE IInv'
  <2>1. status' \in {"OK", "NOSPACE", "INVALIDSLOTNO"}
    BY <1>3 DEF deleteRecord
  <2> QED
    BY <1>1, <1>3, <2>1, deleteIs, deleteKeeps
<1>4. CASE UNCHANGED vars
  <2>1. status' \in {"OK", "NOSPACE", "INVALIDSLOTNO"}
    BY <1>4 DEF vars, IInv, TypeOK
  <2> QED
    BY <1>1, <1>4, <2>1 DEF vars
<1> QED
  BY <1>2, <1>3, <1>4 DEF Next

\* The inductive invariant holds in every reachable state.
THEOREM Invariant == Spec => []IInv
BY InitIInv, NextIInv, PTL DEF Spec

\* freePtr, freeSpace and slotCnt stay inside the page, and so does every slot.
THEOREM TypeCorrect == Spec => []TypeOK
<1>1. IInv => TypeOK
  BY DEF IInv
<1> QED
  BY <1>1, Invariant, PTL

\* Records, slots and freeSpace always add up to the page, and the last slot of
\* the directory is in use.
THEOREM SpaceAddsAlways == Spec => []SpaceAdds
<1>1. IInv => SpaceAdds
  BY DEF IInv
<1> QED
  BY <1>1, Invariant, PTL

\* insertRecord overlays no record and deleteRecord leaves no hole: each byte
\* below freePtr belongs to exactly one record, and none above it to any.
THEOREM CompactAlways == Spec => []Compact
<1>1. ASSUME IInv PROVE Compact
  <2> SUFFICES ASSUME NEW b \in Bytes
               PROVE  /\ b < freePtr => \E i \in SlotNos :
                           Covers(i, b) /\ \A j \in SlotNos : Covers(j, b) => j = i
                      /\ b >= freePtr => \A i \in SlotNos : ~Covers(i, b)
    BY DEF Compact
  <2>1. /\ b \in Nat /\ freePtr \in Nat
        /\ \A i \in SlotNos : slot[i].offset \in Nat /\ slot[i].length \in Int
    BY <1>1, Typed, BytesTyped DEF IInv
  <2>2. ASSUME NEW i \in SlotNos, NEW j \in SlotNos, Covers(i, b), Covers(j, b), j # i
        PROVE  FALSE
    <3>1. \/ slot[i].offset + slot[i].length <= slot[j].offset
          \/ slot[j].offset + slot[j].length <= slot[i].offset
      BY <1>1, <2>2 DEF IInv, Disjoint, Covers
    <3> QED
      BY <2>1, <2>2, <3>1 DEF Covers
  <2>3. ASSUME NEW i \in SlotNos, Covers(i, b) PROVE b < freePtr
    <3>1. slot[i].offset + slot[i].length <= freePtr
      BY <1>1, <2>3 DEF IInv, SlotsSet, Covers, InUse
    <3> QED
      BY <2>1, <2>3, <3>1 DEF Covers
  <2>4. b < freePtr => \E i \in SlotNos : Covers(i, b)
    BY <1>1 DEF IInv, Filled
  <2>5. b >= freePtr => ~(b < freePtr)
    BY <2>1
  <2> QED
    BY <2>2, <2>3, <2>4, <2>5
<1> QED
  BY <1>1, Invariant, PTL

-----------------------------------------------------------------------------
(***************************************************************************)
(* The page implements RecordMap.                                          *)
(***************************************************************************)

\* The refinement mapping of Records, by name.
rec == [i \in SlotNos |-> getRecord(i)]

\* A slot in use that spells r gives r: the first byte tells the tag.
LEMMA getIs ==
  ASSUME NEW i \in SlotNos, NEW r \in Record, InUse(i), Spells(i, r)
  PROVE  getRecord(i) = r
<1>1. ASSUME NEW s \in Record, Spells(i, s) PROVE s = r
  <2>1. s.length = r.length /\ r.length \in Nat /\ r.length > 0 /\ s.length \in Nat
    BY <1>1, RecordTyped DEF Spells
  <2>2. 0 \in 0 .. r.length - 1 /\ 0 \in 0 .. s.length - 1
    BY <2>1
  <2>3. data[slot[i].offset + 0] = <<s.tag, 0>> /\ data[slot[i].offset + 0] = <<r.tag, 0>>
    BY <1>1, <2>2 DEF Spells
  <2>4. s.tag = r.tag
    BY <2>3
  <2> QED
    BY <2>1, <2>4 DEF Record
<1>2. \E s \in Record : Spells(i, s)
OBVIOUS
<1>3. (CHOOSE s \in Record : Spells(i, s)) = r
  BY <1>1, <1>2
<1>4. getRecord(i) = CHOOSE s \in Record : Spells(i, s)
  BY <1>2 DEF getRecord
<1> QED
  BY <1>3, <1>4

\* The same before and after a step.
GetsIt == \A i \in SlotNos, r \in Record : InUse(i) /\ Spells(i, r) => getRecord(i) = r

LEMMA getIsAlways == GetsIt /\ GetsIt'
<1>1. GetsIt
  BY getIs DEF GetsIt
<1> QED
  BY <1>1, PTL

LEMMA NoRecordFree ==
  ASSUME NEW i \in SlotNos
  PROVE  (~InUse(i) => getRecord(i) = NoRecord) /\ (~InUse(i)' => getRecord(i)' = NoRecord)
BY DEF getRecord

\* insertRecord puts its record in one slot, and getRecord of others stays.
LEMMA insertMaps ==
  ASSUME IInv, NEW r \in Record, NEW i \in SlotNos, Inserts(r, i), status' = "OK"
  PROVE  Records!Insert(i, r)
<1>1. \A j \in SlotNos : InUse(j)' <=> InUse(j) \/ j = i
  BY insertSlots
<1>2. ~InUse(i)
  BY DEF Inserts
<1>3. getRecord(i)' = r
  BY <1>1, getIsAlways, insertSpells DEF GetsIt
<1>4. ASSUME NEW j \in SlotNos, j # i PROVE getRecord(j)' = getRecord(j)
  <2>1. CASE InUse(j)
    <3>1. PICK s \in Record : Spells(j, s)
      BY <2>1 DEF IInv, Spelt
    <3>2. Spells(j, s)' /\ InUse(j)'
      BY <1>1, <2>1, <3>1, insertSpells
    <3> QED
      BY <2>1, <3>1, <3>2, getIsAlways DEF GetsIt
  <2>2. CASE ~InUse(j)
    BY <1>1, <1>4, <2>2, NoRecordFree
  <2> QED
    BY <2>1, <2>2
<1>5. rec' = [rec EXCEPT ![i] = r]
  BY <1>3, <1>4 DEF rec
<1>6. rec[i] = NoRecord
  BY <1>2, NoRecordFree DEF rec
<1> QED
  BY <1>5, <1>6 DEF Records!Insert, rec

\* deleteRecord takes the record of its slot and no other.
LEMMA deleteMaps ==
  ASSUME IInv, NEW i \in SlotNos, Deletes(i)
  PROVE  Records!Delete(i)
<1>1. InUse(i) /\ \A j \in SlotNos : InUse(j)' <=> InUse(j) /\ j # i
  BY DEF Deletes
<1>2. getRecord(i)' = NoRecord
  BY <1>1, NoRecordFree
<1>3. getRecord(i) # NoRecord
  <2>1. PICK r \in Record : Spells(i, r)
    BY <1>1 DEF IInv, Spelt
  <2>2. getRecord(i) = r
    BY <1>1, <2>1, getIs
  <2> QED
    BY <2>2, PageAssumption DEF Record
<1>4. ASSUME NEW j \in SlotNos, j # i PROVE getRecord(j)' = getRecord(j)
  <2>1. CASE InUse(j)
    <3>1. PICK s \in Record : Spells(j, s)
      BY <2>1 DEF IInv, Spelt
    <3>2. Spells(j, s)' /\ InUse(j)'
      BY <1>1, <1>4, <2>1, <3>1, deleteSpells
    <3> QED
      BY <2>1, <3>1, <3>2, getIsAlways DEF GetsIt
  <2>2. CASE ~InUse(j)
    BY <1>1, <2>2, NoRecordFree
  <2> QED
    BY <2>1, <2>2
<1>5. rec' = [rec EXCEPT ![i] = NoRecord]
  BY <1>2, <1>4 DEF rec
<1> QED
  BY <1>3, <1>5 DEF Records!Delete, rec

\* No insert, delete, compaction or reuse of a slot changes what getRecord
\* returns for any other slot: a RID keeps its record until it is deleted.
THEOREM RecordMapRefinement == Spec => ImplementsRecordMap
<1>1. Init => Records!Init
  <2> SUFFICES ASSUME Init PROVE \A i \in SlotNos : getRecord(i) = NoRecord
    BY DEF Records!Init
  <2>1. IInv /\ slotCnt = 0
    BY InitIInv DEF Init
  <2>2. \A i \in SlotNos : ~InUse(i)
    BY <2>1, Typed DEF IInv, InUse
  <2> QED
    BY <2>2, NoRecordFree
<1>2. IInv /\ [Next]_vars => [Records!Next]_rec
  <2> SUFFICES ASSUME IInv, [Next]_vars PROVE [Records!Next]_rec
    OBVIOUS
  <2>1. ASSUME UNCHANGED <<slot, slotCnt, freePtr, freeSpace, data>> PROVE rec' = rec
    BY <2>1 DEF rec, getRecord, InUse, Spells
  <2>2. ASSUME NEW r \in Record, insertRecord(r) PROVE [Records!Next]_rec
    <3>1. TypeOK
      BY DEF IInv
    <3>2. CASE UNCHANGED <<slot, slotCnt, freePtr, freeSpace, data>>
      BY <2>1, <3>2
    <3>3. CASE status' = "OK" /\ \E i \in SlotNos : Inserts(r, i)
      BY <3>3, insertMaps DEF Records!Next
    <3> QED
      BY <2>2, <3>1, <3>2, <3>3, insertIs
  <2>3. ASSUME NEW i \in SlotNos, deleteRecord(i) PROVE [Records!Next]_rec
    <3>1. CASE UNCHANGED <<slot, slotCnt, freePtr, freeSpace, data>>
      BY <2>1, <3>1
    <3>2. CASE Deletes(i)
      BY <3>2, deleteMaps DEF Records!Next
    <3> QED
      BY <2>3, <3>1, <3>2, deleteIs
  <2>4. CASE UNCHANGED vars
    BY <2>1, <2>4 DEF vars
  <2> QED
    BY <2>2, <2>3, <2>4 DEF Next
<1>3. IInv /\ [Next]_vars => [Records!Next]_([i \in SlotNos |-> getRecord(i)])
  BY <1>2 DEF rec
<1> QED
  BY <1>1, <1>3, Invariant, PTL DEF Spec, ImplementsRecordMap, Records!Spec
=============================================================================
