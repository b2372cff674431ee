-------------------------------- MODULE Page --------------------------------
(***************************************************************************)
(* The slotted data page of page.h and page.cpp.                           *)
(*                                                                         *)
(* Records grow upwards from byte 0 of data[], the slot directory grows    *)
(* downwards from its end.  slotCnt is the number of slots (the code keeps *)
(* it negative and negates slot numbers in RIDs).  Byte sizes are          *)
(* parameters: DataSize = PAGESIZE - DPFIXED, SlotSize = sizeof(slot_t).   *)
(* All quantities stay below PAGESIZE, so short never overflows.           *)
(***************************************************************************)
EXTENDS Integers

CONSTANTS DataSize,     \* bytes in data[]
          SlotSize,     \* bytes of a slot
          Lens,         \* lengths of the records callers insert
          Tag,          \* tells records of one length apart
          Blank,        \* a byte that belongs to no record
          NoRecord      \* getRecord answered INVALIDSLOTNO

ASSUME PageAssumption ==
  /\ DataSize \in Nat /\ SlotSize \in Nat \ {0}
  /\ Lens \subseteq Nat \ {0}
  /\ NoRecord \notin [length : Lens, tag : Tag]

Empty == -1             \* slot_t::length of a slot that is not in use

\* Every slot costs SlotSize bytes of freeSpace, so there are never more.
SlotNos == 0 .. DataSize \div SlotSize
Bytes == 0 .. DataSize - 1

\* The k-th byte of the record with this tag: all bytes of a page are distinct
\* as long as its records are.
Byte == (Tag \X Nat) \cup {Blank}
Record == [length : Lens, tag : Tag]

VARIABLES slot,         \* slot[i]: [offset, length]; meaningful below slotCnt
          slotCnt,
          freePtr,      \* first free byte of data[]
          freeSpace,    \* bytes the page believes to be free
          data,         \* data[]
          status        \* what the last operation returned

vars == <<slot, slotCnt, freePtr, freeSpace, data, status>>

\* Page::init on a frame of arbitrary bytes: the slots are not touched.
Init ==
  /\ slot = [i \in SlotNos |-> [offset |-> 0, length |-> 0]]
  /\ slotCnt = 0
  /\ freePtr = 0
  /\ freeSpace = DataSize
  /\ data = [b \in Bytes |-> Blank]
  /\ status = "OK"

-----------------------------------------------------------------------------
(***************************************************************************)
(* insertRecord: the first empty slot, or a new one.  The space test asks  *)
(* for a slot in both cases.                                               *)
(***************************************************************************)
SlotForInsert(i) ==
  /\ i <= slotCnt
  /\ i = slotCnt \/ slot[i].length = Empty
  /\ \A j \in SlotNos : j < i => slot[j].length # Empty

Fits(r) == r.length + SlotSize <= freeSpace

insertRecord(r) ==
  \/ /\ ~Fits(r)
     /\ status' = "NOSPACE"
     /\ UNCHANGED <<slot, slotCnt, freePtr, freeSpace, data>>
  \/ \E i \in SlotNos :
       /\ Fits(r)
       /\ SlotForInsert(i)
       /\ slotCnt' = IF i = slotCnt THEN slotCnt + 1 ELSE slotCnt
       /\ freeSpace' = freeSpace - r.length - (IF i = slotCnt THEN SlotSize ELSE 0)
       /\ slot' = [slot EXCEPT ![i] = [offset |-> freePtr, length |-> r.length]]
       /\ data' = [b \in Bytes |->
                     IF b >= freePtr /\ b < freePtr + r.length
                     THEN <<r.tag, b - freePtr>> ELSE data[b]]
       /\ freePtr' = freePtr + r.length
       /\ status' = "OK"

-----------------------------------------------------------------------------
(***************************************************************************)
(* deleteRecord: close the hole in data[], move the offsets behind it, and *)
(* give back the slot, with the empty ones before it, if it is the last.   *)
(***************************************************************************)
InUse(i) == i < slotCnt /\ slot[i].length > 0

\* Mutant: one byte too few is moved.
ClosedShort(off, len) ==
  [b \in Bytes |-> IF b >= off /\ b < freePtr - len - 1 THEN data[b + len] ELSE data[b]]

\* bcopy of the bytes behind the record; what is left over is no record's.
Closed(off, len) ==
  [b \in Bytes |->
     IF b >= off /\ b < freePtr - len THEN data[b + len]
     ELSE IF b >= freePtr - len /\ b < freePtr THEN Blank
     ELSE data[b]]

\* Mutant: the records moved are taken to be those of the slots behind.
ShiftedBehind(off, len) ==
  [j \in SlotNos |->
     IF j < slotCnt /\ slot[j].length >= 0
          /\ \E i \in SlotNos : i < j /\ slot[i].offset = off /\ slot[i].length = len
     THEN [slot[j] EXCEPT !.offset = @ - len] ELSE slot[j]]

Shifted(off, len) ==
  [j \in SlotNos |->
     IF j < slotCnt /\ slot[j].length >= 0 /\ slot[j].offset > off
     THEN [slot[j] EXCEPT !.offset = @ - len] ELSE slot[j]]

\* n slots are left when slot n is the last one and those below it are empty.
SlotsLeft(i, n) ==
  /\ n <= i
  /\ n > 0 => slot[n - 1].length # Empty
  /\ \A j \in SlotNos : n <= j /\ j < i => slot[j].length = Empty

\* Mutant: the bytes of one slot come back, however many slots do.
SpaceBackOne(len, n) == len + SlotSize

\* The bytes that come back with a record of this length when n slots are left.
SpaceBack(len, n) == len + (slotCnt - n) * SlotSize

deleteRecord(i) ==
  LET off == slot[i].offset
      len == slot[i].length
  IN  \/ /\ ~InUse(i)
         /\ status' = "INVALIDSLOTNO"
         /\ UNCHANGED <<slot, slotCnt, freePtr, freeSpace, data>>
      \/ /\ InUse(i)
         /\ data' = Closed(off, len)
         /\ freePtr' = freePtr - len
         /\ status' = "OK"
         /\ \/ /\ i = slotCnt - 1
               /\ \E n \in SlotNos :
                    /\ SlotsLeft(i, n)
                    /\ slotCnt' = n
                    /\ freeSpace' = freeSpace + SpaceBack(len, n)
               /\ slot' = Shifted(off, len)
            \/ /\ i # slotCnt - 1
               /\ slot' = [Shifted(off, len) EXCEPT
                             ![i] = [offset |-> 0, length |-> Empty]]
               /\ freeSpace' = freeSpace + len
               /\ UNCHANGED slotCnt

Next ==
  \/ \E r \in Record : insertRecord(r)
  \/ \E i \in SlotNos : deleteRecord(i)

Spec == Init /\ [][Next]_vars

-----------------------------------------------------------------------------
\* Slot i holds the bytes of record r.
Spells(i, r) ==
  /\ slot[i].length = r.length
  /\ \A k \in 0 .. r.length - 1 : data[slot[i].offset + k] = <<r.tag, k>>

\* getRecord: the record whose bytes slot i points at, if they are a record's.
getRecord(i) ==
  CASE ~InUse(i) -> NoRecord
    [] InUse(i) /\ \E r \in Record : Spells(i, r) -> CHOOSE r \in Record : Spells(i, r)
    [] OTHER -> [length |-> 0, tag |-> Blank]

\* The record in slot i occupies byte b.
Covers(i, b) == InUse(i) /\ slot[i].offset <= b /\ b < slot[i].offset + slot[i].length

-----------------------------------------------------------------------------
\* Every field of the page has its type.
TypeOK ==
  /\ slot \in [SlotNos -> [offset : 0 .. DataSize, length : Lens \cup {Empty, 0}]]
  /\ slotCnt \in SlotNos
  /\ freePtr \in 0 .. DataSize
  /\ freeSpace \in 0 .. DataSize
  /\ data \in [Bytes -> Byte]
  /\ status \in {"OK", "NOSPACE", "INVALIDSLOTNO"}

\* insertRecord and deleteRecord never lose count of the page's bytes: records,
\* slots and freeSpace add up to the page, so data and directory never meet.  The
\* last slot is in use (deleteRecord gives back all empty ones before it too), so
\* a page without records has its whole space free again.
SpaceAdds ==
  /\ freePtr + slotCnt * SlotSize + freeSpace = DataSize
  /\ slotCnt > 0 => slot[slotCnt - 1].length > 0

\* deleteRecord closes every hole and insertRecord overlays nothing: each byte
\* below freePtr belongs to exactly one record, and none above it to any.
Compact ==
  \A b \in Bytes :
    /\ b < freePtr => \E i \in SlotNos : Covers(i, b) /\ \A j \in SlotNos : Covers(j, b) => j = i
    /\ b >= freePtr => \A i \in SlotNos : ~Covers(i, b)

\* The page implements RecordMap: no insert, delete, compaction or reuse of a
\* slot changes what getRecord returns for any other slot.
Records == INSTANCE RecordMap WITH rec <- [i \in SlotNos |-> getRecord(i)]

ImplementsRecordMap == Records!Spec
=============================================================================
