---------------------------- MODULE BufMgrProofs ----------------------------
(***************************************************************************)
(* Proofs about BufMgr, for every number of frames, files, pages, values   *)
(* and clients: what holds with and without faults; what holds when I/O    *)
(* succeeds and clients keep to the rules; and, from ClockSweep, that      *)
(* allocBuf may be taken as one step.                                      *)
(***************************************************************************)
EXTENDS BufMgr, ClockSweep, FiniteSetTheorems, WellFoundedInduction, TLAPS

\* The inductive invariant.  HashSound alone is not inductive: that a step
\* leaves an entry pointing at the right frame needs the types, that a frame
\* which is evicted or flushed has its own entry removed needs WriteBackSafe,
\* and that a list which is not lost never gives page 0 needs FreeInRange.
FreeInRange == \A f \in File : free[f] \subseteq 2 .. numPages[f] - 1

IInv == TypeOK /\ HashSound /\ WriteBackSafe /\ FreeInRange

-----------------------------------------------------------------------------
(***************************************************************************)
(* Helpers: the clock sweep.                                               *)
(***************************************************************************)

\* advanceClock stays inside the pool.
LEMMA SweepInFrames ==
  ASSUME NEW hand \in Frames, NEW n \in Nat
  PROVE  Sweep(hand, n) \in Frames
BY NumBufsAssumption DEF Sweep, Frames

\* The sweep of allocBuf changes reference bits and nothing else.
LEMMA SweptTable ==
  ASSUME NEW tbl \in [Frames -> BufDesc], NEW hand, NEW n
  PROVE  /\ Swept(tbl, hand, n) \in [Frames -> BufDesc]
         /\ \A i \in Frames :
              /\ Swept(tbl, hand, n)[i].valid = tbl[i].valid
              /\ Swept(tbl, hand, n)[i].file = tbl[i].file
              /\ Swept(tbl, hand, n)[i].pageNo = tbl[i].pageNo
              /\ Swept(tbl, hand, n)[i].dirty = tbl[i].dirty
              /\ Swept(tbl, hand, n)[i].pinCnt = tbl[i].pinCnt
<1>1. \A i \in Frames : /\ [tbl[i] EXCEPT !.refbit = FALSE] \in BufDesc
                        /\ [tbl[i] EXCEPT !.refbit = FALSE].valid = tbl[i].valid
                        /\ [tbl[i] EXCEPT !.refbit = FALSE].file = tbl[i].file
                        /\ [tbl[i] EXCEPT !.refbit = FALSE].pageNo = tbl[i].pageNo
                        /\ [tbl[i] EXCEPT !.refbit = FALSE].dirty = tbl[i].dirty
                        /\ [tbl[i] EXCEPT !.refbit = FALSE].pinCnt = tbl[i].pinCnt
  BY DEF BufDesc
<1> QED
  BY <1>1 DEF Swept

\* The initial state.
LEMMA InitIInv == Init => IInv
<1> SUFFICES ASSUME Init PROVE IInv
  OBVIOUS
<1>1. TypeOK
  BY NumBufsAssumption, BufMgrAssumption
  DEF Init, TypeOK, Frames, PageNos, BufDesc, ZeroDesc, Content, Pin, Unpinned,
      NoFrame, NoPage, Statuses
<1>2. HashSound
  BY DEF Init, HashSound, InPool
<1>3. WriteBackSafe
  BY DEF Init, WriteBackSafe, ZeroDesc
<1>4. FreeInRange
  BY DEF Init, FreeInRange
<1> QED
  BY <1>1, <1>2, <1>3, <1>4 DEF IInv

-----------------------------------------------------------------------------
(***************************************************************************)
(* Helpers: what allocBuf does to the hash table and to the file.          *)
(***************************************************************************)

Tables == [File -> [PageNos -> Frames \cup {NoFrame}]]
Disks == [File -> [PageNos -> Content]]

\* A valid frame names a file and a page that the hash table is indexed by.
LEMMA ValidFrame ==
  ASSUME IInv, NEW i \in Frames, bufTable[i].valid
  PROVE  bufTable[i].file \in File /\ bufTable[i].pageNo \in PageNos
BY DEF IInv, WriteBackSafe

\* Once frame i is evicted no entry points to it, and the others are as before.
LEMMA EvictHash ==
  ASSUME IInv, NEW i \in Frames
  PROVE  /\ HashAfterEvict(i) \in Tables
         /\ \A f \in File, p \in PageNos :
              HashAfterEvict(i)[f][p] # NoFrame =>
                HashAfterEvict(i)[f][p] = hashTable[f][p] /\ hashTable[f][p] # i
<1>1. hashTable \in Tables
  BY DEF IInv, TypeOK, Tables
<1>2. CASE bufTable[i].valid
  <2> DEFINE g == bufTable[i].file
             q == bufTable[i].pageNo
  <2>1. g \in File /\ q \in PageNos
    BY <1>2, ValidFrame
  <2>2. HashAfterEvict(i) = [hashTable EXCEPT ![g][q] = NoFrame]
    BY <1>2 DEF HashAfterEvict, Remove
  <2>3. \A f \in File, p \in PageNos : hashTable[f][p] = i => f = g /\ p = q
    BY <1>1 DEF IInv, HashSound, InPool, Tables, NoFrame, Frames
  <2> HIDE DEF g, q
  <2> QED
    BY <1>1, <2>1, <2>2, <2>3 DEF Tables
<1>3. CASE ~bufTable[i].valid
  <2>1. HashAfterEvict(i) = hashTable
    BY <1>3 DEF HashAfterEvict
  <2>2. \A f \in File, p \in PageNos : hashTable[f][p] # NoFrame => hashTable[f][p] # i
    BY <1>3 DEF IInv, HashSound, InPool
  <2> QED
    BY <1>1, <2>1, <2>2
<1> QED
  BY <1>2, <1>3

\* The write-back of a victim goes to a page of an open file.
LEMMA EvictDisk ==
  ASSUME IInv, NEW i \in Frames, NEW d \in Disks
  PROVE  DiskAfterEvict(i, d) \in Disks
<1>1. CASE bufTable[i].dirty
  <2>1. bufTable[i].valid
    BY <1>1 DEF IInv, WriteBackSafe
  <2>2. bufTable[i].file \in File /\ bufTable[i].pageNo \in PageNos
    BY <2>1, ValidFrame
  <2>3. bufPool[i] \in Content
    BY DEF IInv, TypeOK
  <2> QED
    BY <1>1, <2>2, <2>3 DEF DiskAfterEvict, Disks
<1>2. CASE ~bufTable[i].dirty
  BY <1>2 DEF DiskAfterEvict
<1> QED
  BY <1>1, <1>2

\* HashSound and WriteBackSafe of a frame table, a hash table and lost lists.
Sound(tbl, ht) ==
  \A f \in File, p \in PageNos :
    ht[f][p] # NoFrame =>
      tbl[ht[f][p]].valid /\ tbl[ht[f][p]].file = f /\ tbl[ht[f][p]].pageNo = p

Safe(tbl, ls) ==
  \A i \in Frames :
    IF tbl[i].valid
    THEN /\ tbl[i].file \in File /\ tbl[i].pageNo \in PageNos
         /\ tbl[i].pageNo = 0 => ls[tbl[i].file]
    ELSE tbl[i].file = NoFile /\ ~tbl[i].dirty /\ tbl[i].pinCnt = 0

\* A list that is lost stays so, and what was safe stays safe.
LEMMA SafeStays ==
  ASSUME NEW tbl, NEW ls, NEW ls2, Safe(tbl, ls), \A g \in File : ls[g] => ls2[g]
  PROVE  Safe(tbl, ls2)
BY DEF Safe

LEMMA LostAfterWrites ==
  ASSUME NEW S, NEW fr, lost \in [File -> BOOLEAN]
  PROVE  /\ LostAfter(S, fr) \in [File -> BOOLEAN]
         /\ \A g \in File : lost[g] => LostAfter(S, fr)[g]
<1>1. \A g \in File : LostAfter(S, fr)[g] =
        (lost[g] \/ \E i \in S : /\ bufTable[i].dirty /\ bufTable[i].file = g
                               /\ bufTable[i].pageNo \in fr[g])
  BY DEF LostAfter
<1>2. \A g \in File : LostAfter(S, fr)[g] \in BOOLEAN
  BY <1>1
<1>3. LostAfter(S, fr) = [g \in File |-> LostAfter(S, fr)[g]]
  BY DEF LostAfter
<1>4. LostAfter(S, fr) \in [File -> BOOLEAN]
  BY <1>2, <1>3
<1> QED
  BY <1>1, <1>4

\* Sweeping over n frames and then evicting frame i keeps both.
LEMMA SweepKeeps ==
  ASSUME IInv, NEW i \in Frames, NEW n
  PROVE  /\ Sound(Swept(bufTable, clockHand, n), HashAfterEvict(i))
         /\ Sound(Swept(bufTable, clockHand, n), hashTable)
         /\ Safe(Swept(bufTable, clockHand, n), lost)
<1> DEFINE T == Swept(bufTable, clockHand, n)
<1>1. \A j \in Frames : /\ T[j].valid = bufTable[j].valid
                        /\ T[j].file = bufTable[j].file
                        /\ T[j].pageNo = bufTable[j].pageNo
                        /\ T[j].dirty = bufTable[j].dirty
                        /\ T[j].pinCnt = bufTable[j].pinCnt
  BY SweptTable DEF IInv, TypeOK
<1> HIDE DEF T
<1>2. Sound(T, hashTable)
  <2>1. \A f \in File, p \in PageNos : hashTable[f][p] \in Frames \cup {NoFrame}
    BY DEF IInv, TypeOK
  <2>2. \A f \in File, p \in PageNos : hashTable[f][p] # NoFrame =>
          /\ bufTable[hashTable[f][p]].valid
          /\ bufTable[hashTable[f][p]].file = f
          /\ bufTable[hashTable[f][p]].pageNo = p
    BY DEF IInv, HashSound, InPool
  <2> QED
    BY <1>1, <2>1, <2>2 DEF Sound
<1>3. Sound(T, HashAfterEvict(i))
  BY <1>2, EvictHash DEF Sound
<1>4. Safe(T, lost)
  BY <1>1 DEF IInv, WriteBackSafe, Safe
<1> QED
  BY <1>2, <1>3, <1>4 DEF T

\* So does giving the frame to a page of the file, with or without an entry.
LEMMA SetKeeps ==
  ASSUME IInv, NEW i \in Frames, NEW n, NEW f \in File, NEW p \in PageNos,
         NEW ls, p = 0 => ls[f], \A g \in File : lost[g] => ls[g]
  PROVE  LET T == [Swept(bufTable, clockHand, n) EXCEPT ![i] = Set(f, p)]
         IN  /\ T \in [Frames -> BufDesc]
             /\ Sound(T, HashAfterEvict(i))
             /\ Insert(HashAfterEvict(i), f, p, i) \in Tables
             /\ Sound(T, Insert(HashAfterEvict(i), f, p, i))
             /\ Safe(T, ls)
<1> DEFINE S == Swept(bufTable, clockHand, n)
           T == [S EXCEPT ![i] = Set(f, p)]
           H == HashAfterEvict(i)
           H2 == Insert(H, f, p, i)
<1>1. S \in [Frames -> BufDesc] /\ Sound(S, H) /\ Safe(S, lost)
  BY SweptTable, SweepKeeps DEF IInv, TypeOK
<1>2. Safe(S, ls)
  BY <1>1, SafeStays
<1>3. /\ Set(f, p) \in BufDesc
      /\ Set(f, p).valid /\ Set(f, p).file = f /\ Set(f, p).pageNo = p
  BY DEF Set, BufDesc
<1>4. H \in Tables /\ \A g \in File, q \in PageNos : H[g][q] # NoFrame => H[g][q] # i
  BY EvictHash
<1>4a. NoFrame \notin Frames /\ \A g \in File, q \in PageNos : H[g][q] \in Frames \cup {NoFrame}
  BY <1>4 DEF Tables, NoFrame, Frames
<1> HIDE DEF S, H
<1>5. T \in [Frames -> BufDesc]
  BY <1>1, <1>3
<1>6. Sound(T, H)
  BY <1>1, <1>4, <1>4a DEF Sound
<1>7. /\ H2 \in Tables
      /\ H2[f][p] = i
      /\ \A g \in File, q \in PageNos : <<g, q>> # <<f, p>> => H2[g][q] = H[g][q]
  BY <1>4 DEF Insert, Tables
<1>8. Sound(T, H2)
  <2> SUFFICES ASSUME NEW g \in File, NEW q \in PageNos, H2[g][q] # NoFrame
               PROVE  T[H2[g][q]].valid /\ T[H2[g][q]].file = g /\ T[H2[g][q]].pageNo = q
    BY DEF Sound
  <2>1. CASE g = f /\ q = p
    BY <2>1, <1>1, <1>3, <1>7
  <2>2. CASE ~(g = f /\ q = p)
    <3>1. H2[g][q] = H[g][q]
      BY <2>2, <1>7
    <3> QED
      BY <3>1, <1>6 DEF Sound
  <2> QED
    BY <2>1, <2>2
<1>9. Safe(T, ls)
  <2> SUFFICES ASSUME NEW j \in Frames
               PROVE  IF T[j].valid
                      THEN /\ T[j].file \in File /\ T[j].pageNo \in PageNos
                           /\ T[j].pageNo = 0 => ls[T[j].file]
                      ELSE T[j].file = NoFile /\ ~T[j].dirty /\ T[j].pinCnt = 0
    BY DEF Safe
  <2>1. CASE j = i
    BY <2>1, <1>1, <1>3
  <2>2. CASE j # i
    BY <2>2, <1>1, <1>2 DEF Safe
  <2> QED
    BY <2>1, <2>2
<1> QED
  BY <1>5, <1>6, <1>7, <1>8, <1>9 DEF S, H

-----------------------------------------------------------------------------
(***************************************************************************)
(* One lemma per operation.                                                *)
(***************************************************************************)

\* The parts of IInv in terms of the parameterised predicates.
LEMMA Parts ==
  /\ IInv => Sound(bufTable, hashTable) /\ Safe(bufTable, lost)
  /\ TypeOK' /\ Sound(bufTable', hashTable') /\ Safe(bufTable', lost') /\ FreeInRange'
       => IInv'
BY DEF IInv, HashSound, WriteBackSafe, InPool, Sound, Safe

\* A call of allocBuf that fails leaves tables that fit each other.
LEMMA allocBufFailsKeeps ==
  ASSUME IInv, allocBufFails
  PROVE  /\ bufTable' \in [Frames -> BufDesc]
         /\ hashTable' \in Tables
         /\ clockHand' \in Frames
         /\ status' \in Statuses
         /\ Sound(bufTable', hashTable')
         /\ Safe(bufTable', lost)
<1>1. clockHand \in Frames /\ bufTable \in [Frames -> BufDesc] /\ hashTable \in Tables
  BY DEF IInv, TypeOK, Tables
<1>2. CASE /\ bufTable' = Swept(bufTable, clockHand, 2 * numBufs)
           /\ status' = "BUFFEREXCEEDED"
           /\ UNCHANGED <<hashTable, clockHand>>
  BY <1>1, <1>2, SweptTable, SweepKeeps DEF Statuses
<1>3. ASSUME NEW n \in 1 .. 2 * numBufs,
             bufTable' = Swept(bufTable, clockHand, n - 1),
             hashTable' = HashAfterEvict(Sweep(clockHand, n)),
             clockHand' = Sweep(clockHand, n),
             status' \in {"UNIXERR", "BADPAGENO"}
      PROVE  /\ bufTable' \in [Frames -> BufDesc]
             /\ hashTable' \in Tables
             /\ clockHand' \in Frames
             /\ status' \in Statuses
             /\ Sound(bufTable', hashTable')
             /\ Safe(bufTable', lost)
  <2>1. Sweep(clockHand, n) \in Frames
    BY <1>1, SweepInFrames, NumBufsAssumption
  <2> QED
    BY <1>1, <1>3, <2>1, SweptTable, SweepKeeps, EvictHash DEF Statuses
<1> QED
  BY <1>2, <1>3 DEF allocBufFails

\* So does a change of the flags and pins of valid frames.
LEMMA FlagsKeep ==
  ASSUME IInv, NEW T,
         \A j \in Frames :
           /\ T[j].valid = bufTable[j].valid
           /\ T[j].file = bufTable[j].file
           /\ T[j].pageNo = bufTable[j].pageNo
           /\ ~bufTable[j].valid => T[j].dirty = bufTable[j].dirty
                                      /\ T[j].pinCnt = bufTable[j].pinCnt
  PROVE  Sound(T, hashTable) /\ Safe(T, lost)
<1>1. \A f \in File, p \in PageNos : hashTable[f][p] \in Frames \cup {NoFrame}
  BY DEF IInv, TypeOK
<1>2. Sound(bufTable, hashTable) /\ Safe(bufTable, lost)
  BY Parts
<1>3. Sound(T, hashTable)
  BY <1>1, <1>2 DEF Sound
<1>4. Safe(T, lost)
  BY <1>2 DEF Safe
<1> QED
  BY <1>3, <1>4

\* An entry of the hash table names a valid frame.
LEMMA InPoolFrame ==
  ASSUME IInv, NEW f \in File, NEW p \in PageNos, InPool(f, p)
  PROVE  hashTable[f][p] \in Frames /\ bufTable[hashTable[f][p]].valid
<1>1. \A g \in File, q \in PageNos : hashTable[g][q] \in Frames \cup {NoFrame}
  BY DEF IInv, TypeOK
<1> QED
  BY <1>1 DEF InPool, IInv, HashSound

\* The types, with the named sets of tables and files.
Types ==
  /\ clockHand \in Frames /\ bufTable \in [Frames -> BufDesc] /\ hashTable \in Tables
  /\ disk \in Disks /\ bufPool \in [Frames -> Content]
  /\ numPages \in [File -> 1 .. MaxPages + 1] /\ free \in [File -> SUBSET PageNos]
  /\ lost \in [File -> BOOLEAN]
  /\ holds \in [Client -> Pin \cup {Unpinned}] /\ status \in Statuses

LEMMA TypesTypeOK == (IInv => Types) /\ (Types' => TypeOK')
BY DEF IInv, Types, TypeOK, Tables, Disks

LEMMA readHitKeeps ==
  ASSUME IInv, NEW c \in Client, NEW f \in File, NEW p \in PageNos, readHit(c, f, p)
  PROVE  IInv'
<1>1. Types
  BY TypesTypeOK
<1> DEFINE i == hashTable[f][p]
           k == bufTable[i].pinCnt + 1
<1>2. i \in Frames /\ bufTable[i].valid
  BY InPoolFrame DEF readHit
<1>3. /\ bufTable' = [bufTable EXCEPT ![i] =
                        [@ EXCEPT !.refbit = TRUE, !.pinCnt = k]]
      /\ holds' = [holds EXCEPT ![c] =
                     [frame |-> i, file |-> f, pageNo |-> p, dirty |-> FALSE]]
      /\ status' = "OK"
      /\ UNCHANGED <<bufPool, hashTable, clockHand, disk, numPages, free, lost>>
  BY <1>1, <1>2 DEF readHit, fileVars, Types
<1>4. bufTable[i] \in BufDesc /\ k \in Nat
  BY <1>1, <1>2 DEF Types, BufDesc
<1> HIDE DEF i, k
<1>5. Types'
  <2>1. [bufTable[i] EXCEPT !.refbit = TRUE, !.pinCnt = k] \in BufDesc
    BY <1>4 DEF BufDesc
  <2>2. bufTable' \in [Frames -> BufDesc]
    BY <1>1, <1>3, <2>1 DEF Types
  <2>3. holds' \in [Client -> Pin \cup {Unpinned}]
    BY <1>1, <1>2, <1>3 DEF Types, Pin
  <2> QED
    BY <1>1, <1>3, <2>2, <2>3 DEF Types, Statuses
<1>6. \A j \in Frames : /\ bufTable'[j].valid = bufTable[j].valid
                        /\ bufTable'[j].file = bufTable[j].file
                        /\ bufTable'[j].pageNo = bufTable[j].pageNo
                        /\ bufTable'[j].dirty = bufTable[j].dirty
                        /\ j # i => bufTable'[j].pinCnt = bufTable[j].pinCnt
  BY <1>1, <1>3, <1>4 DEF Types, BufDesc
<1>7. Sound(bufTable', hashTable) /\ Safe(bufTable', lost)
  BY <1>2, <1>6, FlagsKeep
<1>8. FreeInRange'
  BY <1>3 DEF IInv, FreeInRange
<1> QED
  BY <1>3, <1>5, <1>7, <1>8, Parts, TypesTypeOK

LEMMA readMissKeeps ==
  ASSUME IInv, NEW c \in Client, NEW f \in File, NEW p \in PageNos,
         NEW n \in 1 .. 2 * numBufs, readMiss(c, f, p, n)
  PROVE  IInv'
<1>1. Types
  BY TypesTypeOK
<1> DEFINE i == Sweep(clockHand, n)
<1>2. i \in Frames
  BY <1>1, SweepInFrames, NumBufsAssumption DEF Types
<1>3. p # 0
  BY DEF readMiss
<1>4. /\ disk' = DiskAfterEvict(i, disk)
      /\ lost' = LostAfter({i}, free)
      /\ bufPool' = [bufPool EXCEPT ![i] = disk'[f][p]]
      /\ bufTable' = [Swept(bufTable, clockHand, n - 1) EXCEPT ![i] = Set(f, p)]
      /\ hashTable' = Insert(HashAfterEvict(i), f, p, i)
      /\ clockHand' = i
      /\ holds' = [holds EXCEPT ![c] =
                     [frame |-> i, file |-> f, pageNo |-> p, dirty |-> FALSE]]
      /\ status' = "OK"
      /\ UNCHANGED <<numPages, free>>
  BY DEF readMiss
<1> HIDE DEF i
<1>5. lost' \in [File -> BOOLEAN] /\ \A g \in File : lost[g] => lost'[g]
  BY <1>1, <1>4, LostAfterWrites DEF Types
<1>6. /\ bufTable' \in [Frames -> BufDesc]
      /\ hashTable' \in Tables
      /\ Sound(bufTable', hashTable')
      /\ Safe(bufTable', lost')
  BY <1>2, <1>3, <1>4, <1>5, SetKeeps
<1>7. disk' \in Disks
  BY <1>1, <1>2, <1>4, EvictDisk DEF Types
<1>8. Types'
  <2>1. disk'[f][p] \in Content
    BY <1>7 DEF Disks
  <2>2. bufPool' \in [Frames -> Content]
    BY <1>1, <1>4, <2>1 DEF Types
  <2>3. holds' \in [Client -> Pin \cup {Unpinned}]
    BY <1>1, <1>2, <1>4 DEF Types, Pin
  <2> QED
    BY <1>1, <1>2, <1>4, <1>5, <1>6, <1>7, <2>2, <2>3 DEF Types, Statuses
<1>9. FreeInRange'
  BY <1>4 DEF IInv, FreeInRange
<1> QED
  BY <1>4, <1>6, <1>8, <1>9, Parts, TypesTypeOK

LEMMA readFailsKeeps ==
  ASSUME IInv, NEW f \in File, NEW p \in PageNos, NEW n \in 1 .. 2 * numBufs,
         readFails(f, p, n)
  PROVE  IInv'
<1>1. Types
  BY TypesTypeOK
<1> DEFINE i == Sweep(clockHand, n)
<1>2. i \in Frames
  BY <1>1, SweepInFrames, NumBufsAssumption DEF Types
<1>3. /\ disk' = DiskAfterEvict(i, disk)
      /\ lost' = LostAfter({i}, free)
      /\ bufTable' = Swept(bufTable, clockHand, n - 1)
      /\ hashTable' = HashAfterEvict(i)
      /\ clockHand' = i
      /\ status' \in {"BADPAGENO", "UNIXERR"}
      /\ UNCHANGED <<bufPool, numPages, free, holds>>
  BY DEF readFails
<1> HIDE DEF i
<1>4. lost' \in [File -> BOOLEAN] /\ \A g \in File : lost[g] => lost'[g]
  BY <1>1, <1>3, LostAfterWrites DEF Types
<1>5. Sound(bufTable', hashTable') /\ Safe(bufTable', lost')
  BY <1>2, <1>3, <1>4, SweepKeeps, SafeStays
<1>6. Types'
  BY <1>1, <1>2, <1>3, <1>4, SweptTable, EvictHash, EvictDisk DEF Types, Statuses
<1>7. FreeInRange'
  BY <1>3 DEF IInv, FreeInRange
<1> QED
  BY <1>5, <1>6, <1>7, Parts, TypesTypeOK

\* readPage
LEMMA readPageKeeps ==
  ASSUME IInv, NEW c \in Client, NEW f \in File, NEW p \in PageNos, readPage(c, f, p)
  PROVE  IInv'
<1>1. CASE readNoFrame(f, p)
  <2>1. Types
    BY TypesTypeOK
  <2>2. /\ allocBufFails
        /\ UNCHANGED <<bufPool, disk, numPages, free, lost, holds>>
    BY <1>1 DEF readNoFrame, fileVars
  <2>3. Types'
    BY <2>1, <2>2, allocBufFailsKeeps DEF Types
  <2>4. Sound(bufTable', hashTable') /\ Safe(bufTable', lost')
    BY <2>2, allocBufFailsKeeps
  <2>5. FreeInRange'
    BY <2>2 DEF IInv, FreeInRange
  <2> QED
    BY <2>3, <2>4, <2>5, Parts, TypesTypeOK
<1> QED
  BY <1>1, readHitKeeps, readMissKeeps, readFailsKeeps DEF readPage

\* unPinPage, also when it is called once too often.
LEMMA unPinKeeps ==
  ASSUME IInv, NEW f \in File, NEW p \in PageNos, NEW dirty \in BOOLEAN,
         unPin(f, p, dirty), holds' \in [Client -> Pin \cup {Unpinned}]
  PROVE  IInv'
<1>1. Types
  BY TypesTypeOK
<1>2. UNCHANGED <<bufPool, hashTable, clockHand, disk, numPages, free, lost>>
  BY DEF unPin, fileVars
<1>3. FreeInRange'
  BY <1>2 DEF IInv, FreeInRange
<1>4. CASE ~InPool(f, p)
  <2>1. bufTable' = bufTable /\ status' = "HASHNOTFOUND"
    BY <1>4 DEF unPin
  <2>2. Types'
    BY <1>1, <1>2, <2>1 DEF Types, Statuses
  <2> QED
    BY <1>2, <1>3, <2>1, <2>2, Parts, TypesTypeOK
<1>5. CASE InPool(f, p)
  <2> DEFINE i == hashTable[f][p]
             k == IF bufTable[i].pinCnt = 0 THEN 0 ELSE bufTable[i].pinCnt - 1
             b == bufTable[i].dirty \/ dirty
  <2>1. i \in Frames /\ bufTable[i].valid
    BY <1>5, InPoolFrame
  <2>2. bufTable[i] \in BufDesc
    BY <1>1, <2>1 DEF Types
  <2>3. k \in Nat /\ b \in BOOLEAN
    BY <2>2 DEF BufDesc
  <2>4. /\ bufTable' = [bufTable EXCEPT ![i] = [@ EXCEPT !.dirty = b, !.pinCnt = k]]
        /\ status' \in {"PAGENOTPINNED", "OK"}
    BY <1>1, <1>5, <2>1 DEF unPin, Types
  <2> HIDE DEF i, k, b
  <2>5. bufTable' \in [Frames -> BufDesc]
    BY <1>1, <2>1, <2>2, <2>3, <2>4 DEF Types, BufDesc
  <2>6. \A j \in Frames : /\ bufTable'[j].valid = bufTable[j].valid
                          /\ bufTable'[j].file = bufTable[j].file
                          /\ bufTable'[j].pageNo = bufTable[j].pageNo
                          /\ j # i => bufTable'[j] = bufTable[j]
    BY <1>1, <2>2, <2>4 DEF Types, BufDesc
  <2>7. Sound(bufTable', hashTable) /\ Safe(bufTable', lost)
    BY <2>1, <2>6, FlagsKeep
  <2>8. Types'
    BY <1>1, <1>2, <2>4, <2>5 DEF Types, Statuses
  <2> QED
    BY <1>2, <1>3, <2>7, <2>8, Parts, TypesTypeOK
<1> QED
  BY <1>4, <1>5

LEMMA unPinPageKeeps ==
  ASSUME IInv, NEW c \in Client, NEW dirty \in BOOLEAN, unPinPage(c, dirty)
  PROVE  IInv'
<1>1. Types
  BY TypesTypeOK
<1>2. holds' \in [Client -> Pin \cup {Unpinned}]
  BY <1>1 DEF Types, unPinPage
<1>3. holds[c].file \in File /\ holds[c].pageNo \in PageNos
  BY <1>1 DEF Types, Pin, unPinPage
<1> QED
  BY <1>2, <1>3, unPinKeeps DEF unPinPage

LEMMA unPinTwiceKeeps ==
  ASSUME IInv, NEW f \in File, NEW p \in PageNos, NEW dirty \in BOOLEAN,
         unPinTwice(f, p, dirty)
  PROVE  IInv'
<1>1. holds' \in [Client -> Pin \cup {Unpinned}]
  BY TypesTypeOK DEF Types, unPinTwice
<1> QED
  BY <1>1, unPinKeeps DEF unPinTwice

\* A client writes through its Page pointer.
LEMMA ModifyKeeps ==
  ASSUME IInv, NEW c \in Client, NEW v \in Value, Modify(c, v)
  PROVE  IInv'
<1>1. Types
  BY TypesTypeOK
<1>2. UNCHANGED <<bufTable, hashTable, clockHand, disk, numPages, free, lost>>
  BY DEF Modify, fileVars
<1>3. holds[c] \in Pin
  BY <1>1 DEF Types, Modify
<1>4. Types'
  <2>1. bufPool' \in [Frames -> Content]
    BY <1>1 DEF Types, Modify, Content
  <2>2. [holds[c] EXCEPT !.dirty = TRUE] \in Pin
    BY <1>3 DEF Pin
  <2>3. holds' = [holds EXCEPT ![c] = [holds[c] EXCEPT !.dirty = TRUE]]
    BY <1>1 DEF Types, Modify
  <2>4. holds' \in [Client -> Pin \cup {Unpinned}]
    BY <1>1, <2>2, <2>3 DEF Types
  <2>5. status' \in Statuses
    BY DEF Modify, Statuses
  <2> QED
    BY <1>1, <1>2, <2>1, <2>4, <2>5 DEF Types
<1>5. FreeInRange'
  BY <1>2 DEF IInv, FreeInRange
<1> QED
  BY <1>2, <1>4, <1>5, Parts, TypesTypeOK

-----------------------------------------------------------------------------
(***************************************************************************)
(* allocPage: the page comes from the free list, where FreeInRange says it *)
(* is a page of the file, the file grows by it, or the list is lost.       *)
(***************************************************************************)
LEMMA fileAllocateKeeps ==
  ASSUME IInv, NEW f \in File, NEW p \in PageNos, fileAllocatePage(f, p)
  PROVE  /\ numPages' \in [File -> 1 .. MaxPages + 1]
         /\ free' \in [File -> SUBSET PageNos]
         /\ \A g \in File : numPages[g] <= numPages'[g]
         /\ p < numPages'[f]
         /\ p = 0 => lost[f]
         /\ FreeInRange'
         /\ DiskAfterAllocate(f, p) \in Disks
<1>1. Types
  BY TypesTypeOK
<1>2. free' \in [File -> SUBSET PageNos] /\ \A g \in File : free'[g] \subseteq free[g]
  BY <1>1 DEF Types, fileAllocatePage
<1>3. DiskAfterAllocate(f, p) \in Disks
  BY <1>1 DEF Types, DiskAfterAllocate, Disks, Content
<1>4. /\ \A g \in File : numPages[g] \in 1 .. MaxPages + 1
      /\ p \in 0 .. MaxPages /\ MaxPages \in Nat
  BY <1>1, BufMgrAssumption DEF Types, PageNos
<1>5. p <= numPages[f] /\ (p = 0 => lost[f])
  <2>1. CASE p \in free[f]
    <3>1. p \in 2 .. numPages[f] - 1
      BY <2>1 DEF IInv, FreeInRange
    <3> QED
      BY <1>4, <3>1
  <2>2. CASE p = numPages[f]
    BY <1>4, <2>2
  <2>3. CASE lost[f] /\ p <= numPages[f]
    BY <2>3
  <2>4. p \in free[f] \/ p = numPages[f] \/ (lost[f] /\ p <= numPages[f])
    BY DEF fileAllocatePage, FileAllocates
  <2> QED
    BY <2>1, <2>2, <2>3, <2>4
<1>6. numPages' = [numPages EXCEPT ![f] = IF p < numPages[f] THEN numPages[f] ELSE numPages[f] + 1]
  BY <1>1 DEF Types, fileAllocatePage
<1>7. /\ numPages' \in [File -> 1 .. MaxPages + 1]
      /\ \A g \in File : numPages[g] <= numPages'[g]
      /\ p < numPages'[f]
  <2>1. CASE p < numPages[f]
    <3>1. numPages' = numPages
      BY <1>1, <1>6, <2>1 DEF Types
    <3> QED
      BY <1>1, <1>4, <2>1, <3>1 DEF Types
  <2>2. CASE ~(p < numPages[f])
    <3>1. numPages' = [numPages EXCEPT ![f] = numPages[f] + 1] /\ p = numPages[f]
      BY <1>4, <1>5, <1>6, <2>2
    <3> QED
      BY <1>1, <1>4, <3>1 DEF Types
  <2> QED
    BY <2>1, <2>2
<1>8. FreeInRange'
  <2> SUFFICES ASSUME NEW g \in File, NEW q \in free'[g]
               PROVE  q \in 2 .. numPages'[g] - 1
    BY DEF FreeInRange
  <2>1. q \in 2 .. numPages[g] - 1
    BY <1>2 DEF IInv, FreeInRange
  <2> QED
    BY <1>4, <1>7, <2>1
<1> QED
  BY <1>2, <1>3, <1>5, <1>7, <1>8

LEMMA allocFrameKeeps ==
  ASSUME IInv, NEW c \in Client, NEW f \in File, NEW p \in PageNos,
         NEW n \in 1 .. 2 * numBufs, fileAllocatePage(f, p), allocFrame(c, f, p, n)
  PROVE  IInv'
<1>1. Types
  BY TypesTypeOK
<1>2. /\ numPages' \in [File -> 1 .. MaxPages + 1]
      /\ free' \in [File -> SUBSET PageNos]
      /\ p = 0 => lost[f]
      /\ FreeInRange'
      /\ DiskAfterAllocate(f, p) \in Disks
  BY fileAllocateKeeps
<1> DEFINE i == Sweep(clockHand, n)
<1>3. i \in Frames
  BY <1>1, SweepInFrames, NumBufsAssumption DEF Types
<1>4. /\ disk' = DiskAfterEvict(i, DiskAfterAllocate(f, p))
      /\ lost' = LostAfter({i}, free')
      /\ bufTable' = [Swept(bufTable, clockHand, n - 1) EXCEPT ![i] = Set(f, p)]
      /\ clockHand' = i
      /\ \/ hashTable' = HashAfterEvict(i) /\ status' = "HASHTBLERROR" /\ holds' = holds
         \/ /\ hashTable' = Insert(HashAfterEvict(i), f, p, i)
            /\ holds' = [holds EXCEPT ![c] =
                           [frame |-> i, file |-> f, pageNo |-> p, dirty |-> TRUE]]
            /\ status' = "OK"
      /\ UNCHANGED bufPool
  BY DEF allocFrame
<1> HIDE DEF i
<1>4a. lost' \in [File -> BOOLEAN] /\ \A g \in File : lost[g] => lost'[g]
  <2>1. PICK fr : fr = free'
    OBVIOUS
  <2> QED
    BY <1>1, <1>4, <2>1, LostAfterWrites DEF Types
<1>5. /\ bufTable' \in [Frames -> BufDesc]
      /\ Sound(bufTable', HashAfterEvict(i))
      /\ Insert(HashAfterEvict(i), f, p, i) \in Tables
      /\ Sound(bufTable', Insert(HashAfterEvict(i), f, p, i))
      /\ Safe(bufTable', lost')
  BY <1>2, <1>3, <1>4, <1>4a, SetKeeps
<1>6. hashTable' \in Tables /\ Sound(bufTable', hashTable')
  BY <1>3, <1>4, <1>5, EvictHash
<1>7. disk' \in Disks
  BY <1>2, <1>3, <1>4, EvictDisk
<1>8. holds' \in [Client -> Pin \cup {Unpinned}] /\ status' \in Statuses
  <2>1. [frame |-> i, file |-> f, pageNo |-> p, dirty |-> TRUE] \in Pin
    BY <1>3 DEF Pin
  <2> QED
    BY <1>1, <1>4, <2>1 DEF Types, Statuses
<1>9. Types'
  BY <1>1, <1>2, <1>3, <1>4, <1>4a, <1>5, <1>6, <1>7, <1>8 DEF Types
<1> QED
  BY <1>2, <1>5, <1>6, <1>9, Parts, TypesTypeOK

\* allocPage
LEMMA allocPageKeeps ==
  ASSUME IInv, NEW c \in Client, NEW f \in File, allocPage(c, f)
  PROVE  IInv'
<1>1. Types
  BY TypesTypeOK
<1>2. CASE allocFileFails
  <2>1. /\ UNCHANGED <<bufTable, bufPool, hashTable, clockHand, disk, numPages, free, lost, holds>>
        /\ status' = "UNIXERR"
    BY <1>2 DEF allocFileFails, fileVars
  <2>2. Types'
    BY <1>1, <2>1 DEF Types, Statuses
  <2>3. FreeInRange'
    BY <2>1 DEF IInv, FreeInRange
  <2> QED
    BY <2>1, <2>2, <2>3, Parts, TypesTypeOK
<1>3. ASSUME NEW p \in PageNos, fileAllocatePage(f, p), allocNoFrame(f, p)
      PROVE  IInv'
  <2>1. /\ disk' = DiskAfterAllocate(f, p)
        /\ allocBufFails
        /\ UNCHANGED <<bufPool, lost, holds>>
    BY <1>3 DEF allocNoFrame
  <2>2. /\ numPages' \in [File -> 1 .. MaxPages + 1]
        /\ free' \in [File -> SUBSET PageNos]
        /\ \A g \in File : numPages[g] <= numPages'[g]
        /\ FreeInRange'
        /\ disk' \in Disks
    BY <1>3, <2>1, fileAllocateKeeps
  <2>3. /\ bufTable' \in [Frames -> BufDesc]
        /\ hashTable' \in Tables
        /\ clockHand' \in Frames
        /\ status' \in Statuses
        /\ Sound(bufTable', hashTable')
        /\ Safe(bufTable', lost)
    BY <2>1, allocBufFailsKeeps
  <2>4. Safe(bufTable', lost')
    BY <2>1, <2>3
  <2>5. Types'
    BY <1>1, <2>1, <2>2, <2>3 DEF Types
  <2> QED
    BY <2>2, <2>3, <2>4, <2>5, Parts, TypesTypeOK
<1> QED
  BY <1>2, <1>3, allocFrameKeeps DEF allocPage

-----------------------------------------------------------------------------
(***************************************************************************)
(* disposePage, flushFile, Restart: frames are given up.                   *)
(***************************************************************************)
LEMMA disposePageKeeps ==
  ASSUME IInv, NEW f \in File, NEW p \in PageNos, disposePage(f, p)
  PROVE  IInv'
<1>1. Types
  BY TypesTypeOK
<1>2. UNCHANGED <<bufPool, clockHand, numPages, holds>>
  BY DEF disposePage
<1>3. /\ disk' \in Disks
      /\ free' \in [File -> SUBSET PageNos]
      /\ lost' \in [File -> BOOLEAN] /\ \A g \in File : lost[g] => lost'[g]
      /\ status' \in Statuses
      /\ FreeInRange'
  <2>1. CASE /\ Disposable(f, p)
             /\ disk' = [disk EXCEPT ![f][p] = FreeMark]
             /\ free' = [free EXCEPT ![f] = @ \cup {p}]
             /\ lost' = [lost EXCEPT ![f] = @ \/ p \in free[f]]
             /\ status' = "OK"
    <3>1. p \in 2 .. numPages[f] - 1
      BY <1>1, <2>1 DEF Types, Disposable, PageNos
    <3>2. FreeInRange'
      BY <1>1, <1>2, <2>1, <3>1 DEF Types, IInv, FreeInRange
    <3>3. lost' \in [File -> BOOLEAN] /\ \A g \in File : lost[g] => lost'[g]
      <4>1. (lost[f] \/ p \in free[f]) \in BOOLEAN /\ lost[f] \in BOOLEAN
        BY <1>1 DEF Types
      <4>2. PICK b \in BOOLEAN : b = (lost[f] \/ p \in free[f])
        BY <4>1
      <4>3. lost' = [lost EXCEPT ![f] = b] /\ (lost[f] => b)
        BY <1>1, <2>1, <4>2 DEF Types
      <4> QED
        BY <1>1, <4>3 DEF Types
    <3>4. disk' \in Disks /\ free' \in [File -> SUBSET PageNos] /\ status' \in Statuses
      BY <1>1, <2>1 DEF Types, Disks, Content, Statuses
    <3> QED
      BY <3>2, <3>3, <3>4
  <2>2. CASE status' \in {"UNIXERR", "BADPAGENO"} /\ UNCHANGED <<disk, free, lost>>
    BY <1>1, <1>2, <2>2 DEF Types, Statuses, IInv, FreeInRange
  <2> QED
    BY <2>1, <2>2 DEF disposePage
<1>4. /\ hashTable' \in Tables
      /\ hashTable'[f][p] = NoFrame
      /\ \A g \in File, q \in PageNos : <<g, q>> # <<f, p>> => hashTable'[g][q] = hashTable[g][q]
  BY <1>1 DEF disposePage, Remove, Types, Tables, NoFrame, Frames
<1>5. CASE InPool(f, p)
  <2> DEFINE i == hashTable[f][p]
  <2>1. i \in Frames
    BY <1>5, InPoolFrame
  <2>2. bufTable' = [bufTable EXCEPT ![i] = Clear(bufTable[i])]
    BY <1>1, <1>5, <2>1 DEF disposePage, Types
  <2>3. \A g \in File, q \in PageNos :
          hashTable[g][q] = i => g = f /\ q = p
    BY <1>5 DEF InPool, IInv, HashSound
  <2> HIDE DEF i
  <2>4. bufTable[i] \in BufDesc
    BY <1>1, <2>1 DEF Types
  <2>5. /\ Clear(bufTable[i]) \in BufDesc
        /\ ~Clear(bufTable[i]).valid /\ Clear(bufTable[i]).file = NoFile
        /\ ~Clear(bufTable[i]).dirty /\ Clear(bufTable[i]).pinCnt = 0
    BY <2>4 DEF Clear, BufDesc
  <2>6. bufTable' \in [Frames -> BufDesc]
    BY <1>1, <2>2, <2>5 DEF Types
  <2>7. \A j \in Frames : bufTable'[j] = IF j = i THEN Clear(bufTable[i]) ELSE bufTable[j]
    BY <1>1, <2>2 DEF Types
  <2>8. Safe(bufTable', lost)
    BY <2>5, <2>7, Parts DEF Safe
  <2>9. Sound(bufTable', hashTable')
    <3> SUFFICES ASSUME NEW g \in File, NEW q \in PageNos, hashTable'[g][q] # NoFrame
                 PROVE  /\ bufTable'[hashTable'[g][q]].valid
                        /\ bufTable'[hashTable'[g][q]].file = g
                        /\ bufTable'[hashTable'[g][q]].pageNo = q
      BY DEF Sound
    <3>1. ~(g = f /\ q = p)
      BY <1>4
    <3>2. hashTable'[g][q] = hashTable[g][q] /\ hashTable[g][q] # i
      BY <1>4, <2>3, <3>1
    <3>3. hashTable[g][q] \in Frames
      BY <1>1, <3>2 DEF Types, Tables
    <3>4. bufTable'[hashTable[g][q]] = bufTable[hashTable[g][q]]
      BY <2>7, <3>2, <3>3
    <3>5. Sound(bufTable, hashTable)
      BY Parts
    <3> QED
      BY <3>2, <3>4, <3>5 DEF Sound
  <2>10. Types'
    BY <1>1, <1>2, <1>3, <1>4, <2>6 DEF Types
  <2>11. Safe(bufTable', lost')
    BY <1>3, <2>8, SafeStays
  <2> QED
    BY <1>2, <1>3, <2>9, <2>10, <2>11, Parts, TypesTypeOK
<1>6. CASE ~InPool(f, p)
  <2>1. bufTable' = bufTable
    BY <1>6 DEF disposePage
  <2>2. \A g \in File, q \in PageNos : hashTable'[g][q] = hashTable[g][q]
    BY <1>4, <1>6 DEF InPool
  <2>3. Sound(bufTable', hashTable') /\ Safe(bufTable', lost)
    BY <2>1, <2>2, Parts DEF Sound
  <2>4. Types'
    BY <1>1, <1>2, <1>3, <1>4, <2>1 DEF Types
  <2>5. Safe(bufTable', lost')
    BY <1>3, <2>3, SafeStays
  <2> QED
    BY <1>2, <1>3, <2>3, <2>4, <2>5, Parts, TypesTypeOK
<1> QED
  BY <1>5, <1>6

\* A set of frames has a last one.
LEMMA LastFrame ==
  ASSUME NEW T \in SUBSET Frames, T # {}
  PROVE  \E i \in T : \A j \in T : j <= i
<1> DEFINE U == {numBufs - 1 - j : j \in T}
<1>1. U \subseteq Nat /\ U # {}
  BY NumBufsAssumption DEF Frames
<1>2. PICK x \in U : \A y \in U : <<y, x>> \notin OpToRel(<, Nat)
  BY <1>1, NatLessThanWellFounded, WFMin
<1>3. \A y \in U : ~(y < x)
  BY <1>1, <1>2 DEF OpToRel
<1>4. PICK i \in T : x = numBufs - 1 - i
  OBVIOUS
<1>5. \A j \in T : ~(numBufs - 1 - j < numBufs - 1 - i)
  BY <1>3, <1>4
<1>6. \A j \in T : j <= i
  BY <1>5, NumBufsAssumption DEF Frames
<1> QED
  BY <1>6

\* What is written back are pages of frames.
LEMMA WrittenBackType ==
  ASSUME IInv, NEW S \in SUBSET Frames
  PROVE  WrittenBack(S) \in Disks
<1>1. /\ \A j \in Frames : bufPool[j] \in Content
      /\ \A f \in File, p \in PageNos : disk[f][p] \in Content
  BY DEF IInv, TypeOK
<1>2. ASSUME NEW f \in File, NEW p \in PageNos
      PROVE  WrittenBack(S)[f][p] \in Content
  <2> DEFINE D == DirtyFrames(S, f, p)
             i == CHOOSE i \in D : \A j \in D : j <= i
  <2>1. D \in SUBSET Frames
    BY DEF DirtyFrames
  <2>2. WrittenBack(S)[f][p] = IF D = {} THEN disk[f][p] ELSE bufPool[i]
    BY DEF WrittenBack
  <2>3. D # {} => i \in D
    BY <2>1, LastFrame
  <2> HIDE DEF D, i
  <2> QED
    BY <1>1, <2>1, <2>2, <2>3
<1>3. /\ DOMAIN WrittenBack(S) = File
      /\ \A f \in File : WrittenBack(S)[f] = [p \in PageNos |-> WrittenBack(S)[f][p]]
      /\ WrittenBack(S) = [f \in File |-> WrittenBack(S)[f]]
  BY DEF WrittenBack
<1> QED
  BY <1>2, <1>3 DEF Disks

LEMMA flushUpToKeeps ==
  ASSUME IInv, NEW f \in File, NEW k \in Int, flushUpTo(f, k), status' \in Statuses
  PROVE  IInv'
<1>1. Types
  BY TypesTypeOK
<1> DEFINE S == FlushedBy(f, k)
<1>2. /\ S \subseteq Frames
      /\ \A i \in S : bufTable[i].file = f /\ bufTable[i].valid /\ ~(bufTable[i].pinCnt > 0)
  BY DEF FlushedBy, flushUpTo, FlushStops
<1>3. UNCHANGED <<bufPool, clockHand, numPages, free, holds>>
  BY DEF flushUpTo
<1>4. disk' \in Disks
  BY <1>2, WrittenBackType DEF flushUpTo
<1>5. \A i \in Frames :
        IF i \in S
        THEN /\ bufTable'[i] \in BufDesc
             /\ ~bufTable'[i].valid /\ bufTable'[i].file = NoFile /\ ~bufTable'[i].dirty
             /\ bufTable'[i].pinCnt = 0
        ELSE bufTable'[i] = bufTable[i]
  <2> SUFFICES ASSUME NEW i \in Frames, i \in S
               PROVE  /\ bufTable'[i] \in BufDesc
                      /\ ~bufTable'[i].valid /\ bufTable'[i].file = NoFile
                      /\ ~bufTable'[i].dirty /\ bufTable'[i].pinCnt = 0
    BY DEF flushUpTo
  <2>1. bufTable[i] \in BufDesc /\ bufTable[i].pinCnt = 0
    BY <1>1, <1>2 DEF Types, BufDesc
  <2>2. bufTable'[i] = [bufTable[i] EXCEPT !.file = NoFile, !.pageNo = NoPage,
                                           !.dirty = FALSE, !.valid = FALSE]
    BY DEF flushUpTo
  <2> QED
    BY <2>1, <2>2 DEF BufDesc
<1>6. bufTable' \in [Frames -> BufDesc]
  <2>1. bufTable' = [i \in Frames |-> bufTable'[i]]
    BY DEF flushUpTo
  <2> QED
    BY <1>1, <1>5, <2>1 DEF Types
<1>7. /\ hashTable' \in Tables
      /\ \A g \in File, q \in PageNos :
           hashTable'[g][q] # NoFrame =>
             hashTable'[g][q] = hashTable[g][q] /\ ~(g = f /\ \E i \in S : bufTable[i].pageNo = q)
  <2> DEFINE G == [q \in PageNos |->
                     IF \E i \in S : bufTable[i].pageNo = q THEN NoFrame ELSE hashTable[f][q]]
  <2>1. hashTable' = [hashTable EXCEPT ![f] = G]
    BY <1>1 DEF flushUpTo, Types, Tables
  <2>2. G \in [PageNos -> Frames \cup {NoFrame}]
    BY <1>1 DEF Types, Tables
  <2>3. \A q \in PageNos : G[q] # NoFrame =>
          G[q] = hashTable[f][q] /\ ~\E i \in S : bufTable[i].pageNo = q
    OBVIOUS
  <2> HIDE DEF G, S
  <2> QED
    BY <1>1, <2>1, <2>2, <2>3 DEF Types, Tables
<1>7a. lost' \in [File -> BOOLEAN] /\ \A g \in File : lost[g] => lost'[g]
  BY <1>1, LostAfterWrites DEF flushUpTo, Types
<1> HIDE DEF S
<1>8. Safe(bufTable', lost')
  <2>1. Safe(bufTable', lost)
    BY <1>5, Parts DEF Safe
  <2> QED
    BY <1>7a, <2>1, SafeStays
<1>9. Sound(bufTable', hashTable')
  <2> SUFFICES ASSUME NEW g \in File, NEW q \in PageNos, hashTable'[g][q] # NoFrame
               PROVE  /\ bufTable'[hashTable'[g][q]].valid
                      /\ bufTable'[hashTable'[g][q]].file = g
                      /\ bufTable'[hashTable'[g][q]].pageNo = q
    BY DEF Sound
  <2> DEFINE j == hashTable[g][q]
  <2>1. hashTable'[g][q] = j /\ ~(g = f /\ \E i \in S : bufTable[i].pageNo = q)
    BY <1>7
  <2>2. j \in Frames
    BY <1>1, <2>1 DEF Types, Tables
  <2>3. bufTable[j].valid /\ bufTable[j].file = g /\ bufTable[j].pageNo = q
    BY <2>1, Parts DEF Sound
  <2> HIDE DEF j
  <2>4. j \notin S
    BY <1>2, <2>1, <2>3
  <2> QED
    BY <1>5, <2>1, <2>2, <2>3, <2>4
<1>10. Types'
  BY <1>1, <1>3, <1>4, <1>6, <1>7, <1>7a DEF Types
<1>11. FreeInRange'
  BY <1>3 DEF IInv, FreeInRange
<1> QED
  BY <1>3, <1>8, <1>9, <1>10, <1>11, Parts, TypesTypeOK

\* flushFile
LEMMA flushFileKeeps ==
  ASSUME IInv, NEW f \in File, flushFile(f)
  PROVE  IInv'
<1>1. status' \in Statuses
  BY DEF flushFile, Statuses
<1>2. \E k \in Int : flushUpTo(f, k)
  BY NumBufsAssumption DEF flushFile, Frames
<1> QED
  BY <1>1, <1>2, flushUpToKeeps

\* The program ends and starts again.
LEMMA RestartKeeps ==
  ASSUME IInv, Restart
  PROVE  IInv'
<1>1. Types
  BY TypesTypeOK
<1>2. UNCHANGED <<numPages, free>>
  BY DEF Restart
<1>3. disk' \in Disks /\ lost' \in [File -> BOOLEAN]
  <2>1. PICK S \in SUBSET Frames : disk' = WrittenBack(S) /\ lost' = LostAfter(S, free)
    BY DEF Restart
  <2> QED
    BY <1>1, <2>1, WrittenBackType, LostAfterWrites DEF Types
<1>4. /\ bufTable' = [i \in Frames |-> ZeroDesc]
      /\ bufPool' = [i \in Frames |-> Zero]
      /\ hashTable' = [f \in File |-> [p \in PageNos |-> NoFrame]]
      /\ clockHand' = numBufs - 1
      /\ holds' = [c \in Client |-> Unpinned]
      /\ status' = "OK"
  BY DEF Restart
<1>5. ZeroDesc \in BufDesc
  BY BufMgrAssumption DEF ZeroDesc, BufDesc, PageNos
<1>6. Types'
  BY <1>1, <1>2, <1>3, <1>4, <1>5, NumBufsAssumption
  DEF Types, Frames, Tables, Content, Statuses
<1>7. Sound(bufTable', hashTable')
  BY <1>4 DEF Sound
<1>8. Safe(bufTable', lost')
  BY <1>4 DEF Safe, ZeroDesc
<1>9. FreeInRange'
  BY <1>2 DEF IInv, FreeInRange
<1> QED
  BY <1>6, <1>7, <1>8, <1>9, Parts, TypesTypeOK

-----------------------------------------------------------------------------
\* Every step of the buffer manager and its clients keeps the invariant.
LEMMA NextIInv == IInv /\ [Next]_vars => IInv'
<1> SUFFICES ASSUME IInv, [Next]_vars PROVE IInv'
  OBVIOUS
<1>1. CASE Next
  BY <1>1, allocPageKeeps, readPageKeeps, unPinPageKeeps, ModifyKeeps,
     disposePageKeeps, unPinTwiceKeeps, flushFileKeeps, RestartKeeps
  DEF Next
<1>2. CASE UNCHANGED vars
  BY <1>2 DEF vars, IInv, TypeOK, HashSound, WriteBackSafe, FreeInRange, InPool
<1> QED
  BY <1>1, <1>2

\* The inductive invariant holds in every reachable state.
THEOREM Invariant == Spec => []IInv
BY InitIInv, NextIInv, PTL DEF Spec

\* Every variable keeps its type: in particular no call makes a pin count
\* negative, moves the clock hand out of the pool, or leaves an entry of the
\* hash table that is not a frame number.
THEOREM TypeCorrect == Spec => []TypeOK
<1>1. IInv => TypeOK
  BY DEF IInv
<1> QED
  BY <1>1, Invariant, PTL

\* Whatever I/O fails, whichever call returns early and however often a page is
\* unpinned: the frame that BufHashTbl::lookup gives for a page is valid and
\* holds that page.
THEOREM HashSoundAlways == Spec => []HashSound
<1>1. IInv => HashSound
  BY DEF IInv
<1> QED
  BY <1>1, Invariant, PTL

\* Under the same conditions, allocBuf, flushFile and ~BufMgr write back only to
\* open files, and there to pages that writePage accepts as long as no write-back
\* or second disposal has overwritten a link of the free list; a frame without a
\* page has no file, no pins and no changes.
THEOREM WriteBackSafeAlways == Spec => []WriteBackSafe
<1>1. IInv => WriteBackSafe
  BY DEF IInv
<1> QED
  BY <1>1, Invariant, PTL

-----------------------------------------------------------------------------
(***************************************************************************)
(* BUFFEREXCEEDED.                                                         *)
(***************************************************************************)
LEMMA ModSmall ==
  ASSUME NEW a \in Nat, NEW N \in Nat \ {0}
  PROVE  /\ a < N => a % N = a
         /\ N <= a /\ a < 2 * N => a % N = a - N
         /\ 2 * N <= a /\ a < 3 * N => a % N = a - 2 * N
OBVIOUS

\* The second round of the clock visits every frame.
LEMMA SecondRound ==
  ASSUME NEW h \in Frames, NEW i \in Frames
  PROVE  \E n \in numBufs + 1 .. 2 * numBufs : Sweep(h, n) = i
<1>1. h \in 0 .. numBufs - 1 /\ i \in 0 .. numBufs - 1 /\ numBufs \in Nat \ {0}
  BY NumBufsAssumption DEF Frames
<1> DEFINE n == IF i > h THEN numBufs + (i - h) ELSE 2 * numBufs + i - h
<1>2. n \in numBufs + 1 .. 2 * numBufs
  BY <1>1
<1>3. h + n = IF i > h THEN numBufs + i ELSE 2 * numBufs + i
  BY <1>1
<1> DEFINE a == h + n
<1>4. Sweep(h, n) = a % numBufs
  BY DEF Sweep
<1>5. /\ a \in Nat
      /\ i > h => numBufs <= a /\ a < 2 * numBufs /\ a - numBufs = i
      /\ ~(i > h) => 2 * numBufs <= a /\ a < 3 * numBufs /\ a - 2 * numBufs = i
  BY <1>1, <1>3
<1> HIDE DEF a, n
<1>6. a % numBufs = i
  BY <1>1, <1>5, ModSmall
<1> QED
  BY <1>2, <1>4, <1>6

\* So two rounds without a stop mean that every frame is pinned.
LEMMA ExhaustedPinned ==
  ASSUME IInv, Exhausted(bufTable, clockHand), NEW i \in Frames
  PROVE  bufTable[i].pinCnt > 0
<1>1. clockHand \in Frames /\ bufTable[i].pinCnt \in Nat
  BY DEF IInv, TypeOK, BufDesc
<1>2. PICK n \in numBufs + 1 .. 2 * numBufs : Sweep(clockHand, n) = i
  BY <1>1, SecondRound
<1>3. n \in 1 .. 2 * numBufs /\ n > numBufs
  BY NumBufsAssumption
<1>4. ~Stops(bufTable, clockHand, n)
  BY <1>3 DEF Exhausted
<1>5. bufTable[i].pinCnt # 0
  BY <1>2, <1>3, <1>4 DEF Stops
<1> QED
  BY <1>1, <1>5

\* allocBuf answers BUFFEREXCEEDED, in readPage or in allocPage, only when every
\* frame is pinned, wherever the hand and the reference bits were, and then
\* nothing but reference bits has changed; with faults too.
THEOREM ExceededOnlyWhenPinnedAlways == Spec => ExceededOnlyWhenPinned
<1>1. ASSUME IInv, Next, status' = "BUFFEREXCEEDED"
      PROVE  Exhausted(bufTable, clockHand) /\ UNCHANGED <<bufPool, holds, hashTable>>
  <2>1. \A c \in Client, f \in File, p \in PageNos : readPage(c, f, p) => readNoFrame(f, p)
    BY <1>1 DEF readPage, readHit, readMiss, readFails
  <2>2. \A c \in Client, f \in File : allocPage(c, f) => \E p \in PageNos : allocNoFrame(f, p)
    BY <1>1 DEF allocPage, allocFileFails, allocFrame
  <2>3. \A f, p, dirty : ~unPin(f, p, dirty)
    BY <1>1 DEF unPin
  <2>4. \A c, dirty : ~unPinPage(c, dirty)
    BY <2>3 DEF unPinPage
  <2>5. \A f, p, dirty : ~unPinTwice(f, p, dirty)
    BY <2>3 DEF unPinTwice
  <2>6. (\A c, v : ~Modify(c, v)) /\ (\A f, p : ~disposePage(f, p))
    BY <1>1 DEF Modify, disposePage
  <2>7. (\A f \in File : ~flushFile(f)) /\ ~Restart
    BY <1>1 DEF flushFile, Restart
  <2>8. allocBufFails /\ UNCHANGED <<bufPool, holds>>
    BY <1>1, <2>1, <2>2, <2>4, <2>5, <2>6, <2>7 DEF Next, readNoFrame, allocNoFrame
  <2> QED
    BY <1>1, <2>8 DEF allocBufFails
<1>2. IInv /\ [Next]_vars =>
        [status' = "BUFFEREXCEEDED" =>
           /\ \A i \in Frames : bufTable[i].pinCnt > 0
           /\ UNCHANGED <<bufPool, holds, hashTable>>]_vars
  BY <1>1, ExhaustedPinned
<1> QED
  BY <1>2, Invariant, PTL DEF Spec, ExceededOnlyWhenPinned

-----------------------------------------------------------------------------
(***************************************************************************)
(* What the buffer manager promises when I/O succeeds and clients keep to  *)
(* its rules: the pool is what the hash table says, pins are accounted     *)
(* for, the free list is intact, and BufMgr implements PageStore.          *)
(***************************************************************************)
\* HashComplete, the two parts of PinAccount, and the second part of
\* FreePagesIntact, without their condition ~Faults.
Complete ==
  \A i \in Frames :
    bufTable[i].valid => hashTable[bufTable[i].file][bufTable[i].pageNo] = i

Pinned ==
  \A c \in Client : holds[c] # Unpinned =>
    hashTable[holds[c].file][holds[c].pageNo] = holds[c].frame

Counted == \A i \in Frames : bufTable[i].pinCnt = Cardinality(Holders(i))

FreeIntact ==
  \A f \in File : \A p \in free[f] : disk[f][p] = FreeMark /\ hashTable[f][p] = NoFrame

\* A frame that is not marked dirty differs from its page on disk only while a
\* client that wrote it has yet to report so.
CleanFrames ==
  \A i \in Frames :
    /\ bufTable[i].valid /\ ~bufTable[i].dirty
    /\ bufPool[i] # disk[bufTable[i].file][bufTable[i].pageNo]
    => \E c \in Client : holds[c].frame = i /\ holds[c].dirty

\* With IInv, the inductive invariant of a pool without faults.  CleanFrames is
\* needed for the refinement: what an eviction or a flush drops is on disk.
Contract == Complete /\ Pinned /\ Counted /\ FreeIntact /\ CleanFrames

\* No free list is lost, and a page in the pool is a page of its file.
Linked == \A f \in File : ~lost[f]

Resident ==
  \A f \in File, p \in PageNos : hashTable[f][p] # NoFrame => p \in 1 .. numPages[f] - 1

-----------------------------------------------------------------------------
(***************************************************************************)
(* Helpers                                                                 *)
(***************************************************************************)

\* Lookup and frame table are inverse to each other.
LEMMA Mirror ==
  ASSUME IInv, Contract
  PROVE  /\ NoFrame \notin Frames
         /\ \A f \in File, p \in PageNos : hashTable[f][p] \in Frames \cup {NoFrame}
         /\ \A f \in File, p \in PageNos, i \in Frames :
              hashTable[f][p] = i <=>
                bufTable[i].valid /\ bufTable[i].file = f /\ bufTable[i].pageNo = p
<1>1. NoFrame \notin Frames
  BY DEF NoFrame, Frames
<1>2. \A f \in File, p \in PageNos : hashTable[f][p] \in Frames \cup {NoFrame}
  BY DEF IInv, TypeOK
<1>3. \A f \in File, p \in PageNos : hashTable[f][p] # NoFrame =>
        /\ bufTable[hashTable[f][p]].valid
        /\ bufTable[hashTable[f][p]].file = f
        /\ bufTable[hashTable[f][p]].pageNo = p
  BY DEF IInv, HashSound, InPool
<1> QED
  BY <1>1, <1>2, <1>3 DEF Contract, Complete

\* A client that holds a page holds the frame of that page.
LEMMA Held ==
  ASSUME IInv, Contract, NEW c \in Client
  PROVE  /\ holds[c] = Unpinned => holds[c].frame = NoFrame /\ ~holds[c].dirty
         /\ holds[c] # Unpinned =>
              /\ holds[c].frame \in Frames /\ holds[c].file \in File /\ holds[c].pageNo \in PageNos
              /\ holds[c].dirty \in BOOLEAN
              /\ hashTable[holds[c].file][holds[c].pageNo] = holds[c].frame
              /\ holds[c] = [frame |-> holds[c].frame, file |-> holds[c].file,
                             pageNo |-> holds[c].pageNo, dirty |-> holds[c].dirty]
<1>1. holds[c] \in Pin \cup {Unpinned}
  BY DEF IInv, TypeOK
<1>2. CASE holds[c] = Unpinned
  BY <1>2 DEF Unpinned
<1>3. CASE holds[c] # Unpinned
  BY <1>1, <1>3 DEF Pin, Contract, Pinned
<1> QED
  BY <1>2, <1>3

\* The clients of a frame can be counted.
LEMMA HoldersFinite ==
  ASSUME NEW i
  PROVE  IsFiniteSet(Holders(i)) /\ Holders(i) \subseteq Client
         /\ Cardinality(Holders(i)) \in Nat
         /\ (Cardinality(Holders(i)) = 0 <=> Holders(i) = {})
<1>1. Holders(i) \in SUBSET Client
  BY DEF Holders
<1>2. IsFiniteSet(Holders(i))
  BY <1>1, FS_Subset, BufMgrAssumption
<1> QED
  BY <1>1, <1>2, FS_CardinalityType, FS_EmptySet

\* Nobody holds a frame that is not pinned.
LEMMA NotHeld ==
  ASSUME IInv, Contract, NEW i \in Frames, bufTable[i].pinCnt = 0
  PROVE  \A c \in Client : holds[c].frame # i
<1>1. Holders(i) = {}
  BY HoldersFinite DEF Contract, Counted
<1> QED
  BY <1>1 DEF Holders

\* A client that takes frame i is one more of its clients.
LEMMA TakePin ==
  ASSUME IInv, Contract, NEW c \in Client, holds[c] = Unpinned, NEW r, NEW i \in Frames,
         r.frame = i, holds' = [holds EXCEPT ![c] = r]
  PROVE  /\ Cardinality(Holders(i)') = Cardinality(Holders(i)) + 1
         /\ \A j \in Frames : j # i => Holders(j)' = Holders(j)
<1>1. holds \in [Client -> Pin \cup {Unpinned}]
  BY DEF IInv, TypeOK
<1>2. holds[c].frame = NoFrame /\ NoFrame \notin Frames
  BY Held, Mirror
<1>3. Holders(i)' = Holders(i) \cup {c} /\ c \notin Holders(i)
  BY <1>1, <1>2 DEF Holders
<1>4. \A j \in Frames : j # i => Holders(j)' = Holders(j)
  BY <1>1, <1>2 DEF Holders
<1> QED
  BY <1>3, <1>4, HoldersFinite, FS_AddElement, ZenonT(60)

\* One that gives it back is one less.
LEMMA GivePin ==
  ASSUME IInv, Contract, NEW c \in Client, NEW i \in Frames, holds[c].frame = i,
         holds' = [holds EXCEPT ![c] = Unpinned]
  PROVE  /\ Cardinality(Holders(i)) > 0
         /\ Cardinality(Holders(i)') = Cardinality(Holders(i)) - 1
         /\ \A j \in Frames : j # i => Holders(j)' = Holders(j)
<1>1. holds \in [Client -> Pin \cup {Unpinned}]
  BY DEF IInv, TypeOK
<1>2. NoFrame \notin Frames /\ Unpinned.frame = NoFrame
  BY Mirror DEF Unpinned
<1>3. Holders(i)' = Holders(i) \ {c} /\ c \in Holders(i)
  BY <1>1, <1>2 DEF Holders
<1>4. \A j \in Frames : j # i => Holders(j)' = Holders(j)
  BY <1>1, <1>2 DEF Holders
<1>5. Cardinality(Holders(i)) > 0
  BY <1>3, HoldersFinite
<1>6. Cardinality(Holders(i) \ {c}) = Cardinality(Holders(i)) - 1
  <2>1. PICK H : H = Holders(i)
    OBVIOUS
  <2>2. IsFiniteSet(H) /\ c \in H
    BY <1>3, <2>1, HoldersFinite
  <2>3. Cardinality(H \ {c}) = Cardinality(H) - 1
    BY <2>2, FS_RemoveElement
  <2> QED
    BY <2>1, <2>3
<1>7. Cardinality(Holders(i)') = Cardinality(Holders(i)) - 1
  BY <1>3, <1>6
<1> QED
  BY <1>4, <1>5, <1>7

\* What allocBuf gives up: a frame that nobody holds, its hash entry, and its
\* page, which is on disk afterwards.  d: the file as allocBuf finds it.
LEMMA Evicts ==
  ASSUME IInv, Contract, NEW n, FirstStop(bufTable, clockHand, n), NEW d \in Disks,
         \A f \in File, p \in PageNos : hashTable[f][p] # NoFrame => d[f][p] = disk[f][p]
  PROVE  LET i == Sweep(clockHand, n)
         IN  /\ i \in Frames
             /\ \A c \in Client : holds[c].frame # i
             /\ \A f \in File, p \in PageNos :
                  /\ HashAfterEvict(i)[f][p] =
                       IF hashTable[f][p] = i THEN NoFrame ELSE hashTable[f][p]
                  /\ DiskAfterEvict(i, d)[f][p] =
                       IF hashTable[f][p] = i THEN bufPool[i] ELSE d[f][p]
<1> DEFINE i == Sweep(clockHand, n)
<1>1. i \in Frames
  BY SweepInFrames, NumBufsAssumption DEF FirstStop, IInv, TypeOK
<1>2. bufTable[i].pinCnt = 0
  BY <1>1 DEF FirstStop, Stops, IInv, WriteBackSafe
<1>3. \A c \in Client : holds[c].frame # i
  BY <1>1, <1>2, NotHeld
<1> HIDE DEF i
<1>4. \A f \in File, p \in PageNos :
        HashAfterEvict(i)[f][p] = IF hashTable[f][p] = i THEN NoFrame ELSE hashTable[f][p]
  <2>1. CASE bufTable[i].valid
    <3>1. bufTable[i].file \in File /\ bufTable[i].pageNo \in PageNos
      BY <1>1, <2>1, ValidFrame
    <3>2. HashAfterEvict(i) = [hashTable EXCEPT ![bufTable[i].file][bufTable[i].pageNo] = NoFrame]
      BY <2>1 DEF HashAfterEvict, Remove
    <3>3. hashTable \in Tables
      BY DEF IInv, TypeOK, Tables
    <3> QED
      BY <1>1, <2>1, <3>1, <3>2, <3>3, Mirror DEF Tables
  <2>2. CASE ~bufTable[i].valid
    BY <1>1, <2>2, Mirror DEF HashAfterEvict
  <2> QED
    BY <2>1, <2>2
<1>5. \A f \in File, p \in PageNos :
        DiskAfterEvict(i, d)[f][p] = IF hashTable[f][p] = i THEN bufPool[i] ELSE d[f][p]
  <2>1. CASE bufTable[i].dirty
    <3>1. bufTable[i].valid
      BY <1>1, <2>1 DEF IInv, WriteBackSafe
    <3>2. bufTable[i].file \in File /\ bufTable[i].pageNo \in PageNos
      BY <1>1, <3>1, ValidFrame
    <3>3. DiskAfterEvict(i, d) = [d EXCEPT ![bufTable[i].file][bufTable[i].pageNo] = bufPool[i]]
      BY <2>1 DEF DiskAfterEvict
    <3> QED
      BY <1>1, <3>1, <3>2, <3>3, Mirror DEF Disks
  <2>2. CASE ~bufTable[i].dirty
    <3>1. DiskAfterEvict(i, d) = d
      BY <2>2 DEF DiskAfterEvict
    <3>2. ASSUME NEW f \in File, NEW p \in PageNos, hashTable[f][p] = i
          PROVE  d[f][p] = bufPool[i]
      <4>1. bufTable[i].valid /\ bufTable[i].file = f /\ bufTable[i].pageNo = p
        BY <1>1, <3>2, Mirror
      <4>2. bufPool[i] = disk[f][p]
        BY <1>1, <1>3, <2>2, <4>1 DEF Contract, CleanFrames
      <4> QED
        BY <1>1, <3>2, <4>2, Mirror
    <3> QED
      BY <3>1, <3>2
  <2> QED
    BY <2>1, <2>2
<1> QED
  BY <1>1, <1>3, <1>4, <1>5 DEF i

\* Pages that are written back are in the pool, and so no page of a free list.
LEMMA NothingLost ==
  ASSUME IInv, Contract, Linked, NEW S \in SUBSET Frames, NEW fr,
         \A f \in File : fr[f] \subseteq free[f]
  PROVE  \A f \in File : ~LostAfter(S, fr)[f]
<1> SUFFICES ASSUME NEW f \in File, NEW i \in S, bufTable[i].dirty, bufTable[i].file = f,
                    bufTable[i].pageNo \in fr[f]
             PROVE  FALSE
  BY DEF LostAfter, Linked
<1>1. bufTable[i].valid
  BY DEF IInv, WriteBackSafe
<1>2. bufTable[i].pageNo \in PageNos /\ hashTable[f][bufTable[i].pageNo] = i
  BY <1>1, ValidFrame DEF Contract, Complete
<1>3. bufTable[i].pageNo \in free[f]
  OBVIOUS
<1> QED
  BY <1>2, <1>3, Mirror DEF Contract, FreeIntact

-----------------------------------------------------------------------------
(***************************************************************************)
(* One lemma per operation.                                                *)
(***************************************************************************)

\* The flags of a frame other than its reference bit.
SameFrame(d, e) ==
  /\ d.valid = e.valid /\ d.file = e.file /\ d.pageNo = e.pageNo
  /\ d.dirty = e.dirty /\ d.pinCnt = e.pinCnt

\* Frame i, which nobody holds, is given to client c for page p of f.
Gives(c, f, p, i, wrote) ==
  /\ holds[c] = Unpinned /\ hashTable[f][p] = NoFrame
  /\ \A b \in Client : holds[b].frame # i
  /\ bufTable' \in [Frames -> BufDesc]
  /\ bufTable'[i] = Set(f, p)
  /\ \A j \in Frames : j # i => SameFrame(bufTable'[j], bufTable[j])
  /\ \A g \in File, q \in PageNos :
       hashTable'[g][q] = IF g = f /\ q = p THEN i
                          ELSE IF hashTable[g][q] = i THEN NoFrame ELSE hashTable[g][q]
  /\ \A g \in File, q \in PageNos : ~(g = f /\ q = p) =>
       disk'[g][q] = IF hashTable[g][q] = i THEN bufPool[i] ELSE disk[g][q]
  /\ \A j \in Frames : j # i => bufPool'[j] = bufPool[j]
  /\ wrote \/ bufPool'[i] = disk'[f][p]
  /\ holds' = [holds EXCEPT ![c] =
                 [frame |-> i, file |-> f, pageNo |-> p, dirty |-> wrote]]
  /\ \A g \in File : free'[g] \subseteq free[g]
  /\ p \notin free'[f]

LEMMA GiveKeeps ==
  ASSUME IInv, Contract, NEW c \in Client, NEW f \in File, NEW p \in PageNos,
         NEW i \in Frames, NEW wrote \in BOOLEAN, Gives(c, f, p, i, wrote)
  PROVE  Contract'
<1> USE DEF Gives
<1> DEFINE r == [frame |-> i, file |-> f, pageNo |-> p, dirty |-> wrote]
<1>1. /\ Set(f, p).valid /\ Set(f, p).file = f /\ Set(f, p).pageNo = p
      /\ Set(f, p).pinCnt = 1 /\ ~Set(f, p).dirty
  BY DEF Set
<1>2. holds \in [Client -> Pin \cup {Unpinned}] /\ free \in [File -> SUBSET PageNos]
  BY DEF IInv, TypeOK
<1>3. \A j \in Frames : bufTable[j].valid =>
        /\ bufTable[j].file \in File /\ bufTable[j].pageNo \in PageNos
        /\ hashTable[bufTable[j].file][bufTable[j].pageNo] = j
  BY ValidFrame DEF Contract, Complete
<1>4. Complete'
  <2> SUFFICES ASSUME NEW j \in Frames, bufTable'[j].valid
               PROVE  hashTable'[bufTable'[j].file][bufTable'[j].pageNo] = j
    BY DEF Complete
  <2>1. CASE j = i
    BY <1>1, <2>1
  <2>2. CASE j # i
    <3>1. bufTable[j].valid /\ bufTable'[j].file = bufTable[j].file
            /\ bufTable'[j].pageNo = bufTable[j].pageNo
      BY <2>2 DEF SameFrame
    <3> QED
      BY <1>3, <2>2, <3>1, Mirror
  <2> QED
    BY <2>1, <2>2
<1>5. Pinned'
  <2> SUFFICES ASSUME NEW b \in Client, holds'[b] # Unpinned
               PROVE  hashTable'[holds'[b].file][holds'[b].pageNo] = holds'[b].frame
    BY DEF Pinned
  <2>1. CASE b = c
    <3>1. holds'[b] = r
      BY <1>2, <2>1
    <3> QED
      BY <3>1
  <2>2. CASE b # c
    <3>1. holds'[b] = holds[b]
      BY <1>2, <2>2
    <3>2. /\ holds[b].file \in File /\ holds[b].pageNo \in PageNos
          /\ holds[b].frame \in Frames
          /\ hashTable[holds[b].file][holds[b].pageNo] = holds[b].frame
      BY <3>1, Held
    <3> QED
      BY <3>1, <3>2, Mirror
  <2> QED
    BY <2>1, <2>2
<1>6. Counted'
  <2>1. /\ Cardinality(Holders(i)') = Cardinality(Holders(i)) + 1
        /\ \A j \in Frames : j # i => Holders(j)' = Holders(j)
    <3>1. r.frame = i
      OBVIOUS
    <3> QED
      BY <3>1, TakePin
  <2>2. Holders(i) = {}
    BY DEF Holders
  <2>3. Cardinality(Holders(i)) = 0
    BY <2>2, FS_EmptySet
  <2>4. bufTable'[i].pinCnt = Cardinality(Holders(i)')
    BY <1>1, <2>1, <2>3
  <2>5. \A j \in Frames : j # i => bufTable'[j].pinCnt = Cardinality(Holders(j)')
    BY <2>1 DEF Contract, Counted, SameFrame
  <2> QED
    BY <2>4, <2>5 DEF Counted
<1>7. FreeIntact'
  <2> SUFFICES ASSUME NEW g \in File, NEW q \in free'[g]
               PROVE  disk'[g][q] = FreeMark /\ hashTable'[g][q] = NoFrame
    BY DEF FreeIntact
  <2>1. q \in free[g] /\ q \in PageNos /\ ~(g = f /\ q = p)
    BY <1>2
  <2>2. disk[g][q] = FreeMark /\ hashTable[g][q] = NoFrame
    BY <2>1 DEF Contract, FreeIntact
  <2> QED
    BY <2>1, <2>2, Mirror
<1>8. CleanFrames'
  <2> SUFFICES ASSUME NEW j \in Frames, bufTable'[j].valid, ~bufTable'[j].dirty,
                      bufPool'[j] # disk'[bufTable'[j].file][bufTable'[j].pageNo]
               PROVE  \E b \in Client : holds'[b].frame = j /\ holds'[b].dirty
    BY DEF CleanFrames
  <2>1. CASE j = i
    <3>1. holds'[c].frame = i /\ holds'[c].dirty
      BY <1>1, <1>2, <2>1
    <3> QED
      BY <2>1, <3>1
  <2>2. CASE j # i
    <3> DEFINE g == bufTable[j].file
               q == bufTable[j].pageNo
    <3>1. /\ bufTable[j].valid /\ ~bufTable[j].dirty
          /\ bufTable'[j].file = g /\ bufTable'[j].pageNo = q
          /\ bufPool'[j] = bufPool[j]
      BY <2>2 DEF SameFrame
    <3>2. g \in File /\ q \in PageNos /\ hashTable[g][q] = j
      BY <1>3, <3>1
    <3>3. disk'[g][q] = disk[g][q]
      BY <2>2, <3>2, Mirror
    <3>4. PICK b \in Client : holds[b].frame = j /\ holds[b].dirty
      BY <3>1, <3>3 DEF Contract, CleanFrames
    <3>5. b # c
      BY <3>4, Held, Mirror
    <3> QED
      BY <1>2, <3>4, <3>5
  <2> QED
    BY <2>1, <2>2
<1> QED
  BY <1>4, <1>5, <1>6, <1>7, <1>8 DEF Contract

\* A miss in readPage gives the page a frame with its contents on disk.
LEMMA readMissGives ==
  ASSUME IInv, Contract, NEW c \in Client, NEW f \in File, NEW p \in PageNos, NEW n,
         holds[c] = Unpinned, p \notin free[f], readMiss(c, f, p, n)
  PROVE  \E i \in Frames :
           /\ Gives(c, f, p, i, FALSE)
           /\ disk'[f][p] = disk[f][p] /\ bufPool'[i] = disk[f][p]
           /\ lost' = LostAfter({i}, free)
           /\ UNCHANGED <<numPages, free>>
<1> DEFINE i == Sweep(clockHand, n)
<1>1. Types
  BY TypesTypeOK
<1>2. /\ hashTable[f][p] = NoFrame
      /\ FirstStop(bufTable, clockHand, n)
      /\ disk' = DiskAfterEvict(i, disk)
      /\ bufPool' = [bufPool EXCEPT ![i] = disk'[f][p]]
      /\ bufTable' = [Swept(bufTable, clockHand, n - 1) EXCEPT ![i] = Set(f, p)]
      /\ hashTable' = Insert(HashAfterEvict(i), f, p, i)
      /\ holds' = [holds EXCEPT ![c] =
                     [frame |-> i, file |-> f, pageNo |-> p, dirty |-> FALSE]]
      /\ lost' = LostAfter({i}, free)
      /\ UNCHANGED <<numPages, free>>
  BY DEF readMiss, InPool
<1>3. /\ i \in Frames
      /\ \A b \in Client : holds[b].frame # i
      /\ \A g \in File, q \in PageNos :
           /\ HashAfterEvict(i)[g][q] = IF hashTable[g][q] = i THEN NoFrame ELSE hashTable[g][q]
           /\ DiskAfterEvict(i, disk)[g][q] =
                IF hashTable[g][q] = i THEN bufPool[i] ELSE disk[g][q]
  <2>1. disk \in Disks
    BY <1>1 DEF Types
  <2> QED
    BY <1>2, <2>1, Evicts
<1>4. HashAfterEvict(i) \in Tables
  BY <1>3, EvictHash
<1>5. /\ Swept(bufTable, clockHand, n - 1) \in [Frames -> BufDesc]
      /\ \A j \in Frames : SameFrame(Swept(bufTable, clockHand, n - 1)[j], bufTable[j])
  BY <1>1, SweptTable DEF Types, SameFrame
<1>6. Set(f, p) \in BufDesc
  BY DEF Set, BufDesc
<1> HIDE DEF i
<1>7. /\ bufTable' \in [Frames -> BufDesc]
      /\ bufTable'[i] = Set(f, p)
      /\ \A j \in Frames : j # i => SameFrame(bufTable'[j], bufTable[j])
  BY <1>2, <1>3, <1>5, <1>6
<1>8. \A g \in File, q \in PageNos :
        hashTable'[g][q] = IF g = f /\ q = p THEN i
                           ELSE IF hashTable[g][q] = i THEN NoFrame ELSE hashTable[g][q]
  BY <1>2, <1>3, <1>4 DEF Insert, Tables
<1>9. \A g \in File, q \in PageNos :
        disk'[g][q] = IF hashTable[g][q] = i THEN bufPool[i] ELSE disk[g][q]
  BY <1>2, <1>3
<1>10. \A j \in Frames : bufPool'[j] = IF j = i THEN disk'[f][p] ELSE bufPool[j]
  BY <1>1, <1>2, <1>3 DEF Types
<1>11. disk'[f][p] = disk[f][p]
  BY <1>2, <1>3, <1>9, Mirror
<1>12. Gives(c, f, p, i, FALSE)
  BY <1>2, <1>3, <1>7, <1>8, <1>9, <1>10 DEF Gives
<1> QED
  BY <1>2, <1>3, <1>10, <1>11, <1>12

LEMMA readMissContract ==
  ASSUME IInv, Contract, NEW c \in Client, NEW f \in File, NEW p \in PageNos, NEW n,
         holds[c] = Unpinned, p \notin free[f], readMiss(c, f, p, n)
  PROVE  Contract'
BY readMissGives, GiveKeeps

\* A page that the file allocates is not in the pool, and no other page changes.
LEMMA NewPage ==
  ASSUME IInv, Contract, Linked, Resident,
         NEW f \in File, NEW p \in PageNos, fileAllocatePage(f, p)
  PROVE  /\ hashTable[f][p] = NoFrame
         /\ DiskAfterAllocate(f, p) \in Disks
         /\ \A g \in File, q \in PageNos :
              ~(g = f /\ q = p) => DiskAfterAllocate(f, p)[g][q] = disk[g][q]
<1>1. Types
  BY TypesTypeOK
<1>2. hashTable[f][p] = NoFrame
  <2>1. CASE p \in free[f]
    BY <2>1 DEF Contract, FreeIntact
  <2>2. CASE p = numPages[f]
    <3>1. numPages[f] \in Nat
      BY <1>1, BufMgrAssumption DEF Types
    <3> QED
      BY <2>2, <3>1 DEF Resident
  <2> QED
    BY <2>1, <2>2 DEF fileAllocatePage, FileAllocates, Linked
<1>3. DiskAfterAllocate(f, p) \in Disks /\ \A g \in File, q \in PageNos :
        ~(g = f /\ q = p) => DiskAfterAllocate(f, p)[g][q] = disk[g][q]
  BY <1>1 DEF DiskAfterAllocate, Types, Disks, Content
<1> QED
  BY <1>2, <1>3

\* allocPage gives the new page a frame, whatever bytes the frame has.
LEMMA allocFrameGives ==
  ASSUME IInv, Contract, Linked, Resident,
         NEW c \in Client, NEW f \in File, NEW p \in PageNos, NEW n,
         holds[c] = Unpinned, fileAllocatePage(f, p), allocFrame(c, f, p, n)
  PROVE  \E i \in Frames : /\ Gives(c, f, p, i, TRUE)
                           /\ lost' = LostAfter({i}, free')
<1> DEFINE i == Sweep(clockHand, n)
           d == DiskAfterAllocate(f, p)
<1>1. Types
  BY TypesTypeOK
<1>2. /\ FirstStop(bufTable, clockHand, n)
      /\ disk' = DiskAfterEvict(i, d)
      /\ bufTable' = [Swept(bufTable, clockHand, n - 1) EXCEPT ![i] = Set(f, p)]
      /\ IF HashAfterEvict(i)[f][p] # NoFrame
         THEN TRUE
         ELSE /\ hashTable' = Insert(HashAfterEvict(i), f, p, i)
              /\ holds' = [holds EXCEPT ![c] =
                             [frame |-> i, file |-> f, pageNo |-> p, dirty |-> TRUE]]
      /\ bufPool' = bufPool
      /\ free' = [free EXCEPT ![f] = @ \ {p}]
      /\ lost' = LostAfter({i}, free')
  BY DEF allocFrame, fileAllocatePage
<1>3. hashTable[f][p] = NoFrame
  BY NewPage
<1>4. d \in Disks /\ \A g \in File, q \in PageNos :
        ~(g = f /\ q = p) => d[g][q] = disk[g][q]
  BY NewPage
<1>5. /\ i \in Frames
      /\ \A b \in Client : holds[b].frame # i
      /\ \A g \in File, q \in PageNos :
           /\ HashAfterEvict(i)[g][q] = IF hashTable[g][q] = i THEN NoFrame ELSE hashTable[g][q]
           /\ DiskAfterEvict(i, d)[g][q] = IF hashTable[g][q] = i THEN bufPool[i] ELSE d[g][q]
  <2> HIDE DEF d
  <2>1. \A g \in File, q \in PageNos : hashTable[g][q] # NoFrame => d[g][q] = disk[g][q]
    BY <1>3, <1>4
  <2> QED
    BY <1>2, <1>4, <2>1, Evicts
<1>6. HashAfterEvict(i) \in Tables
  BY <1>5, EvictHash
<1>7. /\ Swept(bufTable, clockHand, n - 1) \in [Frames -> BufDesc]
      /\ \A j \in Frames : SameFrame(Swept(bufTable, clockHand, n - 1)[j], bufTable[j])
  BY <1>1, SweptTable DEF Types, SameFrame
<1>8. Set(f, p) \in BufDesc
  BY DEF Set, BufDesc
<1> HIDE DEF i, d
<1>9. /\ bufTable' \in [Frames -> BufDesc]
      /\ bufTable'[i] = Set(f, p)
      /\ \A j \in Frames : j # i => SameFrame(bufTable'[j], bufTable[j])
  BY <1>2, <1>5, <1>7, <1>8
<1>10. /\ hashTable' = Insert(HashAfterEvict(i), f, p, i)
       /\ holds' = [holds EXCEPT ![c] =
                      [frame |-> i, file |-> f, pageNo |-> p, dirty |-> TRUE]]
  BY <1>2, <1>3, <1>5
<1>11. \A g \in File, q \in PageNos :
         hashTable'[g][q] = IF g = f /\ q = p THEN i
                            ELSE IF hashTable[g][q] = i THEN NoFrame ELSE hashTable[g][q]
  BY <1>5, <1>6, <1>10 DEF Insert, Tables
<1>12. \A g \in File, q \in PageNos : ~(g = f /\ q = p) =>
         disk'[g][q] = IF hashTable[g][q] = i THEN bufPool[i] ELSE disk[g][q]
  BY <1>2, <1>4, <1>5
<1>13. (\A g \in File : free'[g] \subseteq free[g]) /\ p \notin free'[f]
  BY <1>1, <1>2 DEF Types
<1>14. Gives(c, f, p, i, TRUE)
  BY <1>2, <1>3, <1>5, <1>9, <1>10, <1>11, <1>12, <1>13 DEF Gives
<1> QED
  BY <1>2, <1>5, <1>14

LEMMA allocFrameContract ==
  ASSUME IInv, Contract, Linked, Resident,
         NEW c \in Client, NEW f \in File, NEW p \in PageNos, NEW n,
         holds[c] = Unpinned, fileAllocatePage(f, p), allocFrame(c, f, p, n)
  PROVE  Contract'
BY allocFrameGives, GiveKeeps

\* Without faults allocBuf fails only when every frame is pinned; only
\* reference bits change.
LEMMA allocBufFailsEffect ==
  ASSUME ~Faults, IInv, allocBufFails
  PROVE  /\ \A j \in Frames : SameFrame(bufTable'[j], bufTable[j])
         /\ UNCHANGED hashTable
BY SweptTable DEF allocBufFails, SameFrame, IInv, TypeOK

\* Frames and entries stay, pages in the pool stay, and pages leave the free list.
LEMMA SameKeeps ==
  ASSUME IInv, Contract,
         \A j \in Frames : SameFrame(bufTable'[j], bufTable[j]),
         UNCHANGED <<hashTable, bufPool, holds>>,
         \A g \in File, q \in PageNos :
           hashTable[g][q] # NoFrame \/ q \in free'[g] => disk'[g][q] = disk[g][q],
         \A g \in File : free'[g] \subseteq free[g]
  PROVE  Contract'
<1>1. free \in [File -> SUBSET PageNos]
  BY DEF IInv, TypeOK
<1>2. \A j \in Frames : bufTable[j].valid =>
        /\ bufTable[j].file \in File /\ bufTable[j].pageNo \in PageNos
        /\ hashTable[bufTable[j].file][bufTable[j].pageNo] = j
  BY ValidFrame DEF Contract, Complete
<1>3. Complete'
  BY DEF Complete, Contract, SameFrame
<1>4. Pinned'
  BY DEF Pinned, Contract
<1>5. Counted'
  <2>1. \A j \in Frames : Holders(j)' = Holders(j)
    BY DEF Holders
  <2> QED
    BY <2>1 DEF Counted, Contract, SameFrame
<1>6. FreeIntact'
  BY <1>1 DEF FreeIntact, Contract
<1>7. CleanFrames'
  <2> SUFFICES ASSUME NEW j \in Frames, bufTable'[j].valid, ~bufTable'[j].dirty,
                      bufPool'[j] # disk'[bufTable'[j].file][bufTable'[j].pageNo]
               PROVE  \E b \in Client : holds'[b].frame = j /\ holds'[b].dirty
    BY DEF CleanFrames
  <2>1. /\ bufTable[j].valid /\ ~bufTable[j].dirty
        /\ bufTable'[j].file = bufTable[j].file /\ bufTable'[j].pageNo = bufTable[j].pageNo
    BY DEF SameFrame
  <2>2. disk'[bufTable[j].file][bufTable[j].pageNo] = disk[bufTable[j].file][bufTable[j].pageNo]
    BY <1>2, <2>1, Mirror
  <2> QED
    BY <2>1, <2>2 DEF Contract, CleanFrames
<1> QED
  BY <1>3, <1>4, <1>5, <1>6, <1>7 DEF Contract

\* What a client reads of a page, and what a restart brings back of it.
PageAt(f, p) == IF hashTable[f][p] # NoFrame THEN bufPool[hashTable[f][p]] ELSE disk[f][p]

SavedAt(f, p) ==
  IF hashTable[f][p] # NoFrame /\ bufTable[hashTable[f][p]].dirty
  THEN bufPool[hashTable[f][p]] ELSE disk[f][p]

\* Both stay for page q of g.
SameView(g, q) == PageAt(g, q)' = PageAt(g, q) /\ SavedAt(g, q)' = SavedAt(g, q)

\* A page that is in the pool, or not, with the same frame as before.
LEMMA StaysView ==
  ASSUME IInv, Contract, NEW g \in File, NEW q \in PageNos,
         hashTable'[g][q] = hashTable[g][q],
         hashTable[g][q] = NoFrame => disk'[g][q] = disk[g][q],
         \A j \in Frames : j = hashTable[g][q] =>
           /\ bufPool'[j] = bufPool[j] /\ bufTable'[j].dirty = bufTable[j].dirty
           /\ ~bufTable[j].dirty => disk'[g][q] = disk[g][q]
  PROVE  SameView(g, q)
<1>1. CASE hashTable[g][q] = NoFrame
  BY <1>1 DEF SameView, PageAt, SavedAt
<1>2. CASE hashTable[g][q] \in Frames
  BY <1>2 DEF SameView, PageAt, SavedAt
<1> QED
  BY <1>1, <1>2, Mirror

\* A page whose clean or dirty frame is given up after it has been written.
LEMMA DropView ==
  ASSUME IInv, Contract, NEW g \in File, NEW q \in PageNos, NEW i \in Frames,
         hashTable[g][q] = i, \A c \in Client : holds[c].frame # i,
         hashTable'[g][q] = NoFrame, disk'[g][q] = bufPool[i]
  PROVE  SameView(g, q)
<1>1. bufTable[i].valid /\ bufTable[i].file = g /\ bufTable[i].pageNo = q /\ i # NoFrame
  BY Mirror
<1>2. ~bufTable[i].dirty => bufPool[i] = disk[g][q]
  BY <1>1 DEF Contract, CleanFrames
<1> QED
  BY <1>1, <1>2 DEF SameView, PageAt, SavedAt

\* Giving a frame to one page changes no other page.
LEMMA GiveView ==
  ASSUME IInv, Contract, NEW c \in Client, NEW f \in File, NEW p \in PageNos,
         NEW i \in Frames, NEW wrote \in BOOLEAN, Gives(c, f, p, i, wrote),
         NEW g \in File, NEW q \in PageNos, ~(g = f /\ q = p)
  PROVE  SameView(g, q)
<1>1. CASE hashTable[g][q] = i
  <2>1. hashTable'[g][q] = NoFrame /\ disk'[g][q] = bufPool[i]
        /\ \A b \in Client : holds[b].frame # i
    BY <1>1 DEF Gives
  <2> QED
    BY <1>1, <2>1, DropView
<1>2. CASE hashTable[g][q] # i
  <2>1. hashTable'[g][q] = hashTable[g][q] /\ disk'[g][q] = disk[g][q]
    BY <1>2 DEF Gives
  <2>2. \A j \in Frames : j = hashTable[g][q] =>
          bufPool'[j] = bufPool[j] /\ bufTable'[j].dirty = bufTable[j].dirty
    BY <1>2 DEF Gives, SameFrame
  <2> QED
    BY <2>1, <2>2, StaysView
<1> QED
  BY <1>1, <1>2

LEMMA readMissView ==
  ASSUME IInv, Contract, NEW c \in Client, NEW f \in File, NEW p \in PageNos, NEW n,
         holds[c] = Unpinned, p \notin free[f], readMiss(c, f, p, n),
         NEW g \in File, NEW q \in PageNos
  PROVE  SameView(g, q)
<1>1. PICK i \in Frames : /\ Gives(c, f, p, i, FALSE)
                          /\ disk'[f][p] = disk[f][p] /\ bufPool'[i] = disk[f][p]
  BY readMissGives
<1>2. CASE ~(g = f /\ q = p)
  BY <1>1, <1>2, GiveView
<1>3. CASE g = f /\ q = p
  <2>1. hashTable[f][p] = NoFrame /\ hashTable'[f][p] = i /\ i # NoFrame
    BY <1>1, Mirror DEF Gives
  <2>2. ~bufTable'[i].dirty
    BY <1>1 DEF Gives, Set
  <2> QED
    BY <1>1, <1>3, <2>1, <2>2 DEF SameView, PageAt, SavedAt
<1> QED
  BY <1>2, <1>3

\* A hit in readPage adds a pin.
LEMMA readHitContract ==
  ASSUME IInv, Contract, NEW c \in Client, NEW f \in File, NEW p \in PageNos,
         holds[c] = Unpinned, readHit(c, f, p)
  PROVE  Contract' /\ \A g \in File, q \in PageNos : SameView(g, q)
<1>1. Types
  BY TypesTypeOK
<1>2. hashTable[f][p] \in Frames
  BY InPoolFrame DEF readHit
<1>3. PICK i \in Frames : i = hashTable[f][p]
  BY <1>2
<1> DEFINE r == [frame |-> i, file |-> f, pageNo |-> p, dirty |-> FALSE]
           k == bufTable[i].pinCnt + 1
<1>4. /\ bufTable' = [bufTable EXCEPT ![i] = [@ EXCEPT !.refbit = TRUE, !.pinCnt = k]]
      /\ holds' = [holds EXCEPT ![c] = r]
      /\ UNCHANGED <<bufPool, hashTable, disk, numPages, free>>
  BY <1>1, <1>3 DEF readHit, fileVars, Types
<1>5. bufTable[i] \in BufDesc
  BY <1>1 DEF Types
<1>5a. /\ r.frame = i /\ r.file = f /\ r.pageNo = p
  OBVIOUS
<1> HIDE DEF k, r
<1>6. \A j \in Frames : /\ bufTable'[j].valid = bufTable[j].valid
                        /\ bufTable'[j].file = bufTable[j].file
                        /\ bufTable'[j].pageNo = bufTable[j].pageNo
                        /\ bufTable'[j].dirty = bufTable[j].dirty
                        /\ bufTable'[j].pinCnt = IF j = i THEN k ELSE bufTable[j].pinCnt
  BY <1>1, <1>4, <1>5 DEF Types, BufDesc
<1>7. \A b \in Client : holds'[b] = IF b = c THEN r ELSE holds[b]
  BY <1>1, <1>4 DEF Types
<1>8. Complete'
  BY <1>4, <1>6 DEF Contract, Complete
<1>9. Pinned'
  BY <1>3, <1>4, <1>5a, <1>7 DEF Contract, Pinned
<1>10. Counted'
  <2>1. /\ Cardinality(Holders(i)') = Cardinality(Holders(i)) + 1
        /\ \A j \in Frames : j # i => Holders(j)' = Holders(j)
    BY <1>4, <1>5a, TakePin
  <2>2. k = Cardinality(Holders(i)) + 1
    BY DEF k, Contract, Counted
  <2> QED
    BY <1>6, <2>1, <2>2 DEF Contract, Counted
<1>11. FreeIntact'
  BY <1>4 DEF Contract, FreeIntact
<1>12. CleanFrames'
  <2> SUFFICES ASSUME NEW j \in Frames, bufTable'[j].valid, ~bufTable'[j].dirty,
                      bufPool'[j] # disk'[bufTable'[j].file][bufTable'[j].pageNo]
               PROVE  \E b \in Client : holds'[b].frame = j /\ holds'[b].dirty
    BY DEF CleanFrames
  <2>1. PICK b \in Client : holds[b].frame = j /\ holds[b].dirty
    BY <1>4, <1>6 DEF Contract, CleanFrames
  <2>2. b # c
    BY <2>1, Held
  <2> QED
    BY <1>7, <2>1, <2>2
<1>13. \A g \in File, q \in PageNos : SameView(g, q)
  BY <1>4, <1>6, StaysView
<1> QED
  BY <1>8, <1>9, <1>10, <1>11, <1>12, <1>13 DEF Contract

\* Client c gives back its pin of frame i.
Unpins(c, dirty, i) ==
  /\ holds[c].frame = i /\ hashTable[holds[c].file][holds[c].pageNo] = i
  /\ holds[c].file \in File /\ holds[c].pageNo \in PageNos
  /\ holds[c].dirty => dirty
  /\ \A j \in Frames :
       /\ bufTable'[j].valid = bufTable[j].valid
       /\ bufTable'[j].file = bufTable[j].file
       /\ bufTable'[j].pageNo = bufTable[j].pageNo
       /\ bufTable'[j].dirty = IF j = i THEN bufTable[j].dirty \/ dirty
                                        ELSE bufTable[j].dirty
       /\ bufTable'[j].pinCnt = IF j = i THEN bufTable[j].pinCnt - 1
                                         ELSE bufTable[j].pinCnt
  /\ holds' = [holds EXCEPT ![c] = Unpinned]
  /\ UNCHANGED <<bufPool, hashTable, disk, numPages, free>>

\* A client gives its pin back, in time to report what it wrote.
LEMMA unPinPageEffect ==
  ASSUME IInv, Contract, NEW c \in Client, NEW dirty \in BOOLEAN, unPinPage(c, dirty)
  PROVE  \E i \in Frames : Unpins(c, dirty, i)
<1>1. Types
  BY TypesTypeOK
<1>2. /\ holds[c].frame \in Frames /\ holds[c].file \in File /\ holds[c].pageNo \in PageNos
      /\ hashTable[holds[c].file][holds[c].pageNo] = holds[c].frame
  BY Held DEF unPinPage
<1>3. PICK i \in Frames : i = holds[c].frame
  BY <1>2
<1>4. holds' = [holds EXCEPT ![c] = Unpinned] /\ (holds[c].dirty => dirty)
  BY DEF unPinPage
<1>5. bufTable[i] \in BufDesc /\ bufTable[i].pinCnt \in Nat /\ bufTable[i].dirty \in BOOLEAN
  BY <1>1 DEF Types, BufDesc
<1>6. bufTable[i].pinCnt > 0
  <2>1. Cardinality(Holders(i)) > 0
    BY <1>3, <1>4, GivePin
  <2> QED
    BY <2>1 DEF Contract, Counted
<1> DEFINE k == bufTable[i].pinCnt - 1
           d == bufTable[i].dirty \/ dirty
<1>7. /\ bufTable' = [bufTable EXCEPT ![i].dirty = @ \/ dirty,
                                      ![i].pinCnt = IF @ = 0 THEN 0 ELSE @ - 1]
      /\ UNCHANGED <<bufPool, hashTable, disk, numPages, free>>
  BY <1>2, <1>3, Mirror DEF unPinPage, unPin, InPool, fileVars
<1>8. bufTable' = [bufTable EXCEPT ![i] = [@ EXCEPT !.dirty = d, !.pinCnt = k]]
  BY <1>1, <1>5, <1>6, <1>7 DEF Types, BufDesc
<1>9. d \in BOOLEAN
  BY <1>5
<1> HIDE DEF k, d
<1>10. \A j \in Frames :
         /\ bufTable'[j].valid = bufTable[j].valid
         /\ bufTable'[j].file = bufTable[j].file
         /\ bufTable'[j].pageNo = bufTable[j].pageNo
         /\ bufTable'[j].dirty = IF j = i THEN d ELSE bufTable[j].dirty
         /\ bufTable'[j].pinCnt = IF j = i THEN k ELSE bufTable[j].pinCnt
  BY <1>1, <1>5, <1>8 DEF Types, BufDesc
<1>11. \A j \in Frames :
         /\ bufTable'[j].valid = bufTable[j].valid
         /\ bufTable'[j].file = bufTable[j].file
         /\ bufTable'[j].pageNo = bufTable[j].pageNo
         /\ bufTable'[j].dirty = IF j = i THEN bufTable[j].dirty \/ dirty
                                          ELSE bufTable[j].dirty
         /\ bufTable'[j].pinCnt = IF j = i THEN bufTable[j].pinCnt - 1
                                           ELSE bufTable[j].pinCnt
  BY <1>10 DEF k, d
<1>12. UNCHANGED <<bufPool, hashTable, disk, numPages, free>>
  BY <1>7
<1>13. Unpins(c, dirty, i)
  BY <1>2, <1>3, <1>4, <1>11, <1>12, Zenon DEF Unpins
<1> QED
  BY <1>13

LEMMA unPinPageContract ==
  ASSUME IInv, Contract, NEW c \in Client, NEW dirty \in BOOLEAN, unPinPage(c, dirty)
  PROVE  Contract'
<1>1. PICK i \in Frames : Unpins(c, dirty, i)
  BY unPinPageEffect
<1> USE DEF Unpins
<1>2. \A b \in Client : holds'[b] = IF b = c THEN Unpinned ELSE holds[b]
  BY <1>1 DEF IInv, TypeOK
<1>3. Complete'
  BY <1>1 DEF Contract, Complete
<1>4. Pinned'
  BY <1>1, <1>2 DEF Contract, Pinned
<1>5. Counted'
  <2>1. /\ Cardinality(Holders(i)') = Cardinality(Holders(i)) - 1
        /\ \A j \in Frames : j # i => Holders(j)' = Holders(j)
    BY <1>1, GivePin
  <2>2. bufTable'[i].pinCnt = Cardinality(Holders(i)')
    BY <1>1, <2>1 DEF Contract, Counted
  <2>3. \A j \in Frames : j # i => bufTable'[j].pinCnt = Cardinality(Holders(j)')
    BY <1>1, <2>1 DEF Contract, Counted
  <2> QED
    BY <2>2, <2>3 DEF Counted
<1>6. FreeIntact'
  BY <1>1 DEF Contract, FreeIntact
<1>7. CleanFrames'
  <2> SUFFICES ASSUME NEW j \in Frames, bufTable'[j].valid, ~bufTable'[j].dirty,
                      bufPool'[j] # disk'[bufTable'[j].file][bufTable'[j].pageNo]
               PROVE  \E b \in Client : holds'[b].frame = j /\ holds'[b].dirty
    BY DEF CleanFrames
  <2>1. ~bufTable[j].dirty /\ (j = i => ~dirty)
    BY <1>1
  <2>2. PICK b \in Client : holds[b].frame = j /\ holds[b].dirty
    BY <1>1, <2>1 DEF Contract, CleanFrames
  <2>3. b # c
    BY <1>1, <2>1, <2>2
  <2> QED
    BY <1>2, <2>2, <2>3
<1> QED
  BY <1>3, <1>4, <1>5, <1>6, <1>7 DEF Contract

\* A client writes the page it holds, and no other.
LEMMA ModifyContract ==
  ASSUME IInv, Contract, NEW c \in Client, NEW v \in Value, Modify(c, v)
  PROVE  Contract'
<1>1. Types
  BY TypesTypeOK
<1>2. /\ holds[c].frame \in Frames
      /\ hashTable[holds[c].file][holds[c].pageNo] = holds[c].frame
      /\ holds[c] = [frame |-> holds[c].frame, file |-> holds[c].file,
                     pageNo |-> holds[c].pageNo, dirty |-> holds[c].dirty]
  BY Held DEF Modify
<1>3. /\ bufPool' = [bufPool EXCEPT ![holds[c].frame] = v]
      /\ holds' = [holds EXCEPT ![c].dirty = TRUE]
      /\ UNCHANGED <<bufTable, hashTable, disk, numPages, free>>
  BY DEF Modify, fileVars
<1>4. \A b \in Client :
        /\ holds'[b].frame = holds[b].frame /\ holds'[b].file = holds[b].file
        /\ holds'[b].pageNo = holds[b].pageNo
        /\ b # c => holds'[b] = holds[b]
        /\ b = c => holds'[b].dirty
  BY <1>1, <1>2, <1>3 DEF Types
<1>5. \A b \in Client : holds'[b] # Unpinned => holds[b] # Unpinned
  BY <1>4 DEF Modify
<1>6. Complete' /\ FreeIntact'
  BY <1>3 DEF Contract, Complete, FreeIntact
<1>7. Pinned'
  BY <1>3, <1>4, <1>5 DEF Contract, Pinned
<1>8. Counted'
  <2>1. \A j \in Frames : Holders(j)' = Holders(j)
    BY <1>4 DEF Holders
  <2> QED
    BY <1>3, <2>1 DEF Contract, Counted
<1>9. CleanFrames'
  <2> SUFFICES ASSUME NEW j \in Frames, bufTable[j].valid, ~bufTable[j].dirty,
                      bufPool'[j] # disk[bufTable[j].file][bufTable[j].pageNo]
               PROVE  \E b \in Client : holds'[b].frame = j /\ holds'[b].dirty
    BY <1>3 DEF CleanFrames
  <2>1. CASE j = holds[c].frame
    BY <1>4, <2>1
  <2>2. CASE j # holds[c].frame
    <3>1. bufPool'[j] = bufPool[j]
      BY <1>1, <1>3, <2>2 DEF Types
    <3>2. PICK b \in Client : holds[b].frame = j /\ holds[b].dirty
      BY <3>1 DEF Contract, CleanFrames
    <3> QED
      BY <1>4, <2>2, <3>2
  <2> QED
    BY <2>1, <2>2
<1> QED
  BY <1>6, <1>7, <1>8, <1>9 DEF Contract

\* What the client of a frame finds when it writes: its own page changes.
LEMMA ModifyView ==
  ASSUME IInv, Contract, NEW c \in Client, NEW v \in Value, Modify(c, v),
         NEW g \in File, NEW q \in PageNos
  PROVE  LET here == g = holds[c].file /\ q = holds[c].pageNo
         IN  /\ PageAt(g, q)' = IF here THEN v ELSE PageAt(g, q)
             /\ SavedAt(g, q)' = IF here /\ bufTable[holds[c].frame].dirty
                                 THEN v ELSE SavedAt(g, q)
<1>1. Types
  BY TypesTypeOK
<1>2. /\ holds[c].frame \in Frames /\ holds[c].file \in File /\ holds[c].pageNo \in PageNos
      /\ hashTable[holds[c].file][holds[c].pageNo] = holds[c].frame
  BY Held DEF Modify
<1>3. /\ bufPool' = [bufPool EXCEPT ![holds[c].frame] = v]
      /\ UNCHANGED <<bufTable, hashTable, disk>>
  BY DEF Modify, fileVars
<1>4. \A j \in Frames : bufPool'[j] = IF j = holds[c].frame THEN v ELSE bufPool[j]
  BY <1>1, <1>3 DEF Types
<1>5. hashTable[g][q] = holds[c].frame <=> g = holds[c].file /\ q = holds[c].pageNo
  BY <1>2, Mirror
<1> QED
  BY <1>2, <1>3, <1>4, <1>5, Mirror DEF PageAt, SavedAt

\* disposePage of a page that nobody uses.
LEMMA disposePageEffect ==
  ASSUME ~Faults, IInv, Contract, NEW f \in File, NEW p \in PageNos, disposePage(f, p)
  PROVE  /\ Disposable(f, p) /\ p \notin free[f]
         /\ \A c \in Client : ~(holds[c].file = f /\ holds[c].pageNo = p)
         /\ \A j \in Frames :
              IF j = hashTable[f][p]
              THEN ~bufTable'[j].valid /\ bufTable'[j].pinCnt = 0
              ELSE bufTable'[j] = bufTable[j]
         /\ \A g \in File, q \in PageNos :
              /\ hashTable'[g][q] = IF g = f /\ q = p THEN NoFrame ELSE hashTable[g][q]
              /\ disk'[g][q] = IF g = f /\ q = p THEN FreeMark ELSE disk[g][q]
         /\ free' = [free EXCEPT ![f] = @ \cup {p}]
         /\ \A g \in File : lost'[g] = lost[g]
         /\ UNCHANGED <<bufPool, numPages, holds>>
<1>1. Types
  BY TypesTypeOK
<1>2. /\ Disposable(f, p) /\ p \notin free[f] /\ ~InUse(f, p)
      /\ bufTable' = IF InPool(f, p)
                     THEN [bufTable EXCEPT ![hashTable[f][p]] = Clear(@)]
                     ELSE bufTable
      /\ hashTable' = Remove(hashTable, f, p)
      /\ disk' = [disk EXCEPT ![f][p] = FreeMark]
      /\ free' = [free EXCEPT ![f] = @ \cup {p}]
      /\ lost' = [lost EXCEPT ![f] = @ \/ p \in free[f]]
      /\ UNCHANGED <<bufPool, numPages, holds>>
  BY DEF disposePage
<1>3. \A c \in Client : ~(holds[c].file = f /\ holds[c].pageNo = p)
  BY <1>2 DEF InUse
<1>4. \A g \in File, q \in PageNos :
        /\ hashTable'[g][q] = IF g = f /\ q = p THEN NoFrame ELSE hashTable[g][q]
        /\ disk'[g][q] = IF g = f /\ q = p THEN FreeMark ELSE disk[g][q]
  BY <1>1, <1>2 DEF Types, Tables, Disks, Remove
<1>5. ASSUME NEW j \in Frames
      PROVE  IF j = hashTable[f][p]
             THEN ~bufTable'[j].valid /\ bufTable'[j].pinCnt = 0
             ELSE bufTable'[j] = bufTable[j]
  <2>1. CASE j = hashTable[f][p]
    <3>1. InPool(f, p)
      BY <2>1, Mirror DEF InPool
    <3>2. bufTable'[j] = Clear(bufTable[j])
      BY <1>1, <1>2, <2>1, <3>1 DEF Types
    <3>3. bufTable[j] \in BufDesc
      BY <1>1 DEF Types
    <3> QED
      BY <2>1, <3>2, <3>3 DEF Clear, BufDesc
  <2>2. CASE j # hashTable[f][p]
    BY <1>1, <1>2, <2>2 DEF Types
  <2> QED
    BY <2>1, <2>2
<1>6. \A g \in File : lost'[g] = lost[g]
  <2>1. lost \in [File -> BOOLEAN] /\ (p \in free[f] <=> FALSE)
    BY <1>1, <1>2 DEF Types
  <2> QED
    BY <1>2, <2>1
<1> QED
  BY <1>2, <1>3, <1>4, <1>5, <1>6

LEMMA disposePageContract ==
  ASSUME ~Faults, IInv, Contract, NEW f \in File, NEW p \in PageNos, disposePage(f, p)
  PROVE  Contract'
<1>1. Types
  BY TypesTypeOK
<1>2. /\ \A c \in Client : ~(holds[c].file = f /\ holds[c].pageNo = p)
      /\ \A j \in Frames :
           IF j = hashTable[f][p]
           THEN ~bufTable'[j].valid /\ bufTable'[j].pinCnt = 0
           ELSE bufTable'[j] = bufTable[j]
      /\ \A g \in File, q \in PageNos :
           /\ hashTable'[g][q] = IF g = f /\ q = p THEN NoFrame ELSE hashTable[g][q]
           /\ disk'[g][q] = IF g = f /\ q = p THEN FreeMark ELSE disk[g][q]
      /\ free' = [free EXCEPT ![f] = @ \cup {p}]
      /\ UNCHANGED <<bufPool, numPages, holds>>
  BY disposePageEffect
<1>3. \A j \in Frames : bufTable[j].valid =>
        /\ bufTable[j].file \in File /\ bufTable[j].pageNo \in PageNos
        /\ hashTable[bufTable[j].file][bufTable[j].pageNo] = j
  BY ValidFrame DEF Contract, Complete
<1>4. \A j \in Frames : bufTable'[j].valid => bufTable'[j] = bufTable[j] /\ j # hashTable[f][p]
  BY <1>2
<1>5. Complete'
  BY <1>2, <1>3, <1>4 DEF Complete
<1>6. Pinned'
  BY <1>2, Held DEF Contract, Pinned
<1>7. Counted'
  <2>1. \A j \in Frames : Holders(j)' = Holders(j)
    BY <1>2 DEF Holders
  <2>2. \A j \in Frames : j = hashTable[f][p] => Cardinality(Holders(j)) = 0
    <3> SUFFICES ASSUME NEW j \in Frames, j = hashTable[f][p] PROVE Holders(j) = {}
      BY HoldersFinite
    <3>1. ASSUME NEW c \in Client, holds[c].frame = j PROVE FALSE
      <4>0. holds[c] # Unpinned
        BY <3>1, Mirror DEF Unpinned
      <4>1. /\ holds[c].file \in File /\ holds[c].pageNo \in PageNos
            /\ hashTable[holds[c].file][holds[c].pageNo] = j
        BY <3>1, <4>0, Held
      <4> QED
        BY <1>2, <4>1, Mirror
    <3> QED
      BY <3>1 DEF Holders
  <2> QED
    BY <1>2, <2>1, <2>2 DEF Contract, Counted
<1>8. FreeIntact'
  <2> SUFFICES ASSUME NEW g \in File, NEW q \in free'[g]
               PROVE  disk'[g][q] = FreeMark /\ hashTable'[g][q] = NoFrame
    BY DEF FreeIntact
  <2>1. q \in free[g] \/ (g = f /\ q = p)
    BY <1>1, <1>2 DEF Types
  <2>2. q \in PageNos
    BY <1>1, <2>1 DEF Types
  <2> QED
    BY <1>2, <2>1, <2>2 DEF Contract, FreeIntact
<1>9. CleanFrames'
  <2> SUFFICES ASSUME NEW j \in Frames, bufTable'[j].valid, ~bufTable'[j].dirty,
                      bufPool'[j] # disk'[bufTable'[j].file][bufTable'[j].pageNo]
               PROVE  \E b \in Client : holds'[b].frame = j /\ holds'[b].dirty
    BY DEF CleanFrames
  <2>1. bufTable'[j] = bufTable[j] /\ j # hashTable[f][p]
    BY <1>4
  <2>2. disk'[bufTable[j].file][bufTable[j].pageNo] = disk[bufTable[j].file][bufTable[j].pageNo]
    BY <1>2, <1>3, <2>1
  <2> QED
    BY <1>2, <2>1, <2>2 DEF Contract, CleanFrames
<1> QED
  BY <1>5, <1>6, <1>7, <1>8, <1>9 DEF Contract

\* Each page has one frame at most, so the order of the writes does not matter.
LEMMA WrittenAt ==
  ASSUME IInv, Contract, NEW S \in SUBSET Frames, NEW g \in File, NEW q \in PageNos
  PROVE  WrittenBack(S)[g][q] =
           IF hashTable[g][q] \in S /\ bufTable[hashTable[g][q]].dirty
           THEN bufPool[hashTable[g][q]] ELSE disk[g][q]
<1> DEFINE D == DirtyFrames(S, g, q)
           i == CHOOSE i \in D : \A j \in D : j <= i
<1>1. WrittenBack(S)[g][q] = IF D = {} THEN disk[g][q] ELSE bufPool[i]
  BY DEF WrittenBack
<1>2. \A j \in Frames : bufTable[j].dirty => bufTable[j].valid
  BY DEF IInv, WriteBackSafe
<1>3. \A j \in S : bufTable[j].dirty /\ bufTable[j].file = g /\ bufTable[j].pageNo = q
        <=> bufTable[j].dirty /\ hashTable[g][q] = j
  BY <1>2, Mirror
<1>4. D \in SUBSET Frames /\ \A j : j \in D <=> j \in S /\ bufTable[j].dirty /\ hashTable[g][q] = j
  BY <1>3 DEF DirtyFrames
<1>5. D # {} => i \in D
  BY <1>4, LastFrame
<1> HIDE DEF D, i
<1> QED
  BY <1>1, <1>4, <1>5

\* The frames of S, which nobody holds, are given up after their pages have
\* been written.
Drops(S) ==
  /\ \A c \in Client : holds[c].frame \notin S
  /\ \A j \in Frames : IF j \in S THEN ~bufTable'[j].valid /\ bufTable'[j].pinCnt = 0
                                  ELSE bufTable'[j] = bufTable[j]
  /\ \A g \in File, q \in PageNos :
       /\ hashTable'[g][q] = IF hashTable[g][q] \in S THEN NoFrame ELSE hashTable[g][q]
       /\ disk'[g][q] = IF hashTable[g][q] \in S THEN bufPool[hashTable[g][q]] ELSE disk[g][q]
  /\ UNCHANGED <<bufPool, numPages, free, holds>>

LEMMA DropKeeps ==
  ASSUME IInv, Contract, NEW S \in SUBSET Frames, Drops(S)
  PROVE  Contract' /\ \A g \in File, q \in PageNos : SameView(g, q)
<1> USE DEF Drops
<1>1. free \in [File -> SUBSET PageNos]
  BY DEF IInv, TypeOK
<1>2. \A j \in Frames : bufTable[j].valid =>
        /\ bufTable[j].file \in File /\ bufTable[j].pageNo \in PageNos
        /\ hashTable[bufTable[j].file][bufTable[j].pageNo] = j
  BY ValidFrame DEF Contract, Complete
<1>3. \A j \in Frames : bufTable'[j].valid => bufTable'[j] = bufTable[j] /\ j \notin S
  OBVIOUS
<1>4. Complete'
  BY <1>2, <1>3 DEF Complete
<1>5. Pinned'
  BY Held, ZenonT(60) DEF Contract, Pinned
<1>6. Counted'
  <2>1. \A j \in Frames : Holders(j)' = Holders(j)
    BY DEF Holders
  <2>2. \A j \in S : Holders(j) = {}
    BY DEF Holders
  <2>3. \A j \in S : Cardinality(Holders(j)) = 0
    BY <2>2, FS_EmptySet
  <2> QED
    BY <2>1, <2>3 DEF Contract, Counted
<1>7. FreeIntact'
  BY <1>1, Mirror DEF Contract, FreeIntact
<1>8. CleanFrames'
  <2> SUFFICES ASSUME NEW j \in Frames, bufTable'[j].valid, ~bufTable'[j].dirty,
                      bufPool'[j] # disk'[bufTable'[j].file][bufTable'[j].pageNo]
               PROVE  \E b \in Client : holds'[b].frame = j /\ holds'[b].dirty
    BY DEF CleanFrames
  <2>1. bufTable'[j] = bufTable[j] /\ j \notin S
    BY <1>3
  <2>2. disk'[bufTable[j].file][bufTable[j].pageNo] = disk[bufTable[j].file][bufTable[j].pageNo]
    BY <1>2, <2>1
  <2> QED
    BY <2>1, <2>2 DEF Contract, CleanFrames
<1>9. ASSUME NEW g \in File, NEW q \in PageNos PROVE SameView(g, q)
  <2>1. CASE hashTable[g][q] \in S
    BY <2>1, DropView
  <2>2. CASE hashTable[g][q] \notin S
    BY <2>2, StaysView
  <2> QED
    BY <2>1, <2>2
<1> QED
  BY <1>4, <1>5, <1>6, <1>7, <1>8, <1>9 DEF Contract

\* flushFile gives up frames of the file that nobody holds.
LEMMA flushFileDrops ==
  ASSUME IInv, Contract, NEW f \in File, flushFile(f)
  PROVE  \E S \in SUBSET Frames : Drops(S)
<1>1. Types
  BY TypesTypeOK
<1>2. PICK k \in Int : flushUpTo(f, k)
  BY NumBufsAssumption DEF flushFile, Frames
<1> DEFINE S == FlushedBy(f, k)
<1>3. /\ S \in SUBSET Frames
      /\ \A i \in S : bufTable[i].file = f /\ bufTable[i].valid /\ ~(bufTable[i].pinCnt > 0)
  BY <1>2 DEF FlushedBy, flushUpTo, FlushStops
<1>4. \A i \in S : bufTable[i] \in BufDesc /\ bufTable[i].pinCnt = 0
  BY <1>1, <1>3 DEF Types, BufDesc
<1>5. \A c \in Client : holds[c].frame \notin S
  BY <1>3, <1>4, NotHeld
<1>6. /\ disk' = WrittenBack(S)
      /\ \A j \in Frames : bufTable'[j] =
           IF j \in S
           THEN [bufTable[j] EXCEPT !.file = NoFile, !.pageNo = NoPage,
                                    !.dirty = FALSE, !.valid = FALSE]
           ELSE bufTable[j]
      /\ hashTable' = [hashTable EXCEPT ![f] =
           [p \in PageNos |->
              IF \E i \in S : bufTable[i].pageNo = p THEN NoFrame ELSE hashTable[f][p]]]
      /\ UNCHANGED <<bufPool, numPages, free, holds>>
  BY <1>1, <1>2 DEF flushUpTo, Types, Tables
<1> HIDE DEF S
<1>7. \A j \in Frames : IF j \in S THEN ~bufTable'[j].valid /\ bufTable'[j].pinCnt = 0
                                   ELSE bufTable'[j] = bufTable[j]
  BY <1>4, <1>6 DEF BufDesc
<1>8. ASSUME NEW g \in File, NEW q \in PageNos
      PROVE  hashTable'[g][q] = IF hashTable[g][q] \in S THEN NoFrame ELSE hashTable[g][q]
  <2>1. hashTable[g][q] \in S <=> g = f /\ \E i \in S : bufTable[i].pageNo = q
    BY <1>3, Mirror
  <2>2. hashTable'[g][q] =
          IF g = f THEN (IF \E i \in S : bufTable[i].pageNo = q THEN NoFrame ELSE hashTable[f][q])
                   ELSE hashTable[g][q]
    BY <1>1, <1>6 DEF Types, Tables
  <2> QED
    BY <2>1, <2>2
<1>9. ASSUME NEW g \in File, NEW q \in PageNos
      PROVE  disk'[g][q] = IF hashTable[g][q] \in S THEN bufPool[hashTable[g][q]] ELSE disk[g][q]
  <2>1. disk'[g][q] = IF hashTable[g][q] \in S /\ bufTable[hashTable[g][q]].dirty
                      THEN bufPool[hashTable[g][q]] ELSE disk[g][q]
    BY <1>3, <1>6, WrittenAt
  <2>2. ASSUME NEW i \in S, i = hashTable[g][q], ~bufTable[i].dirty
        PROVE  bufPool[i] = disk[g][q]
    <3>1. bufTable[i].valid /\ bufTable[i].file = g /\ bufTable[i].pageNo = q /\ i \in Frames
      BY <1>3, <2>2, Mirror
    <3> QED
      BY <1>5, <2>2, <3>1 DEF Contract, CleanFrames
  <2> QED
    BY <2>1, <2>2
<1>10. Drops(S)
  BY <1>5, <1>6, <1>7, <1>8, <1>9 DEF Drops
<1> QED
  BY <1>3, <1>10

\* Pages of the file are written without complaint.
LEMMA NoneRefused ==
  ASSUME IInv, Contract, Resident, NEW i \in Frames, bufTable[i].valid
  PROVE  ~Refused(i)
<1>1. /\ bufTable[i].file \in File /\ bufTable[i].pageNo \in PageNos
      /\ hashTable[bufTable[i].file][bufTable[i].pageNo] = i
  BY ValidFrame DEF Contract, Complete
<1>2. bufTable[i].pageNo \in 1 .. numPages[bufTable[i].file] - 1
  BY <1>1, Mirror DEF Resident
<1> QED
  BY <1>2 DEF Refused

\* A restart without faults writes every dirty frame: what was saved is read.
LEMMA RestartContract ==
  ASSUME ~Faults, IInv, Contract, Resident, Restart
  PROVE  /\ Contract'
         /\ \A g \in File, q \in PageNos :
              PageAt(g, q)' = SavedAt(g, q) /\ SavedAt(g, q)' = SavedAt(g, q)
<1> DEFINE S == {i \in Frames : bufTable[i].valid /\ bufTable[i].dirty}
<1>1. Types
  BY TypesTypeOK
<1>2. /\ disk' = WrittenBack(S)
      /\ bufTable' = [i \in Frames |-> ZeroDesc]
      /\ hashTable' = [f \in File |-> [p \in PageNos |-> NoFrame]]
      /\ holds' = [c \in Client |-> Unpinned]
      /\ UNCHANGED <<numPages, free>>
  <2>1. S = {i \in Frames : bufTable[i].valid /\ bufTable[i].dirty /\ ~Refused(i)}
    BY NoneRefused
  <2> QED
    BY <2>1 DEF Restart
<1>3. ~ZeroDesc.valid /\ ZeroDesc.pinCnt = 0
  BY DEF ZeroDesc
<1>4. ASSUME NEW g \in File, NEW q \in PageNos
      PROVE  disk'[g][q] = SavedAt(g, q) /\ hashTable'[g][q] = NoFrame
  <2>1. disk'[g][q] = IF hashTable[g][q] \in S /\ bufTable[hashTable[g][q]].dirty
                      THEN bufPool[hashTable[g][q]] ELSE disk[g][q]
    BY <1>2, WrittenAt
  <2> QED
    BY <1>2, <2>1, Mirror DEF SavedAt
<1> HIDE DEF S
<1>5. Complete' /\ CleanFrames'
  BY <1>2, <1>3 DEF Complete, CleanFrames
<1>6. Pinned'
  BY <1>2 DEF Pinned
<1>7. Counted'
  <2>1. \A j \in Frames : Holders(j)' = {}
    BY <1>2, Mirror DEF Holders, Unpinned
  <2>2. \A j \in Frames : Cardinality(Holders(j)') = 0
    BY <2>1, FS_EmptySet
  <2>3. \A j \in Frames : bufTable'[j].pinCnt = 0
    BY <1>2, <1>3
  <2> QED
    BY <2>2, <2>3 DEF Counted
<1>8. FreeIntact'
  <2> SUFFICES ASSUME NEW g \in File, NEW q \in free'[g]
               PROVE  disk'[g][q] = FreeMark /\ hashTable'[g][q] = NoFrame
    BY DEF FreeIntact
  <2>1. q \in free[g] /\ q \in PageNos
    BY <1>1, <1>2 DEF Types
  <2>2. disk[g][q] = FreeMark /\ hashTable[g][q] = NoFrame
    BY <2>1 DEF Contract, FreeIntact
  <2> QED
    BY <1>4, <2>1, <2>2 DEF SavedAt
<1>9. \A g \in File, q \in PageNos :
        PageAt(g, q)' = SavedAt(g, q) /\ SavedAt(g, q)' = SavedAt(g, q)
  BY <1>4 DEF PageAt, SavedAt
<1> QED
  BY <1>5, <1>6, <1>7, <1>8, <1>9 DEF Contract

\* A call that finds no frame leaves the pool as it was.
LEMMA NoFrameContract ==
  ASSUME ~Faults, IInv, Contract, allocBufFails, UNCHANGED <<bufPool, holds>>,
         \A g \in File, q \in PageNos :
           hashTable[g][q] # NoFrame \/ q \in free'[g] => disk'[g][q] = disk[g][q],
         \A g \in File : free'[g] \subseteq free[g]
  PROVE  /\ Contract'
         /\ \A g \in File, q \in PageNos : disk'[g][q] = disk[g][q] => SameView(g, q)
<1>1. (\A j \in Frames : SameFrame(bufTable'[j], bufTable[j])) /\ UNCHANGED hashTable
  BY allocBufFailsEffect
<1>2. Contract'
  BY <1>1, SameKeeps
<1>3. ASSUME NEW g \in File, NEW q \in PageNos, disk'[g][q] = disk[g][q]
      PROVE  SameView(g, q)
  BY <1>1, <1>3, StaysView DEF SameFrame
<1> QED
  BY <1>2, <1>3

LEMMA allocNoFrameContract ==
  ASSUME ~Faults, IInv, Contract, Linked, Resident, NEW f \in File, NEW p \in PageNos,
         fileAllocatePage(f, p), allocNoFrame(f, p)
  PROVE  /\ Contract'
         /\ \A g \in File, q \in PageNos : ~(g = f /\ q = p) => SameView(g, q)
<1>1. Types
  BY TypesTypeOK
<1>2. /\ disk' = DiskAfterAllocate(f, p) /\ allocBufFails /\ UNCHANGED <<bufPool, holds>>
      /\ free' = [free EXCEPT ![f] = @ \ {p}]
  BY DEF allocNoFrame, fileAllocatePage
<1>3. /\ hashTable[f][p] = NoFrame
      /\ \A g \in File, q \in PageNos : ~(g = f /\ q = p) => disk'[g][q] = disk[g][q]
  BY <1>2, NewPage
<1>4. (\A g \in File : free'[g] \subseteq free[g]) /\ p \notin free'[f]
  BY <1>1, <1>2 DEF Types
<1> QED
  BY <1>2, <1>3, <1>4, NoFrameContract

\* Readers read pages that are not free, and without faults they fail only for
\* want of a frame.
LEMMA readPageContract ==
  ASSUME ~Faults, IInv, Contract, NEW c \in Client, NEW f \in File, NEW p \in PageNos,
         readPage(c, f, p)
  PROVE  Contract' /\ \A g \in File, q \in PageNos : SameView(g, q)
<1>1. p \notin free[f]
  BY DEF readPage, Allocated
<1>2. CASE holds[c] = Unpinned /\ readHit(c, f, p)
  BY <1>2, readHitContract
<1>3. ASSUME NEW n, holds[c] = Unpinned, readMiss(c, f, p, n)
      PROVE  Contract' /\ \A g \in File, q \in PageNos : SameView(g, q)
  BY <1>1, <1>3, readMissContract, readMissView
<1>4. CASE readNoFrame(f, p)
  <2>1. allocBufFails /\ UNCHANGED <<bufPool, disk, free, holds>>
    BY <1>4 DEF readNoFrame, fileVars
  <2> QED
    BY <2>1, NoFrameContract
<1>5. \A n : ~readFails(f, p, n)
  BY DEF readFails
<1> QED
  BY <1>2, <1>3, <1>4, <1>5 DEF readPage

-----------------------------------------------------------------------------
(***************************************************************************)
(* The contract holds for ever.                                            *)
(***************************************************************************)
LEMMA InitContract == Init => Contract
<1> SUFFICES ASSUME Init PROVE Contract
  OBVIOUS
<1>1. /\ bufTable = [i \in Frames |-> ZeroDesc]
      /\ hashTable = [f \in File |-> [p \in PageNos |-> NoFrame]]
      /\ free = [f \in File |-> {}]
      /\ holds = [c \in Client |-> Unpinned]
  BY DEF Init
<1>2. ~ZeroDesc.valid /\ ZeroDesc.pinCnt = 0
  BY DEF ZeroDesc
<1>3. Complete /\ CleanFrames /\ Pinned /\ FreeIntact
  BY <1>1, <1>2 DEF Complete, CleanFrames, Pinned, FreeIntact
<1>4. Counted
  <2>1. \A j \in Frames : Holders(j) = {}
    BY <1>1 DEF Holders, Unpinned, NoFrame, Frames
  <2>2. \A j \in Frames : Cardinality(Holders(j)) = 0
    BY <2>1, FS_EmptySet
  <2>3. \A j \in Frames : bufTable[j].pinCnt = 0
    BY <1>1, <1>2
  <2> QED
    BY <2>2, <2>3 DEF Counted
<1> QED
  BY <1>3, <1>4 DEF Contract

LEMMA NextContract ==
  ~Faults /\ IInv /\ Contract /\ Linked /\ Resident /\ [Next]_vars => Contract'
<1> SUFFICES ASSUME ~Faults, IInv, Contract, Linked, Resident, [Next]_vars PROVE Contract'
  OBVIOUS
<1>1. ASSUME NEW c \in Client, NEW f \in File, allocPage(c, f) PROVE Contract'
  <2>1. ~allocFileFails
    BY DEF allocFileFails
  <2> QED
    BY <1>1, <2>1, allocFrameContract, allocNoFrameContract DEF allocPage
<1>2. ASSUME NEW f \in File, flushFile(f) PROVE Contract'
  BY <1>2, flushFileDrops, DropKeeps
<1>3. \A f, p, dirty : ~unPinTwice(f, p, dirty)
  BY DEF unPinTwice
<1>4. CASE Next
  BY <1>1, <1>2, <1>3, <1>4, readPageContract, unPinPageContract, ModifyContract,
     disposePageContract, RestartContract DEF Next
<1>5. CASE UNCHANGED vars
  <2>1. \A i \in Frames : Holders(i)' = Holders(i)
    BY <1>5 DEF vars, Holders
  <2> QED
    BY <1>5, <2>1 DEF vars, Contract, Complete, Pinned, Counted, FreeIntact, CleanFrames
<1> QED
  BY <1>4, <1>5

\* No free list is ever lost: what is written back is in the pool.
LEMMA NextLinked ==
  ASSUME ~Faults, IInv, Contract, Linked, Resident, Next
  PROVE  Linked'
<1> USE DEF Linked
<1>1. ASSUME NEW c \in Client, NEW f \in File, allocPage(c, f) PROVE Linked'
  <2>1. PICK p \in PageNos :
          /\ fileAllocatePage(f, p)
          /\ \/ \E n \in 1 .. 2 * numBufs : holds[c] = Unpinned /\ allocFrame(c, f, p, n)
             \/ allocNoFrame(f, p)
    BY <1>1 DEF allocPage, allocFileFails
  <2>2. ASSUME NEW n, holds[c] = Unpinned, allocFrame(c, f, p, n) PROVE Linked'
    <3>1. PICK i \in Frames : Gives(c, f, p, i, TRUE) /\ lost' = LostAfter({i}, free')
      BY <2>1, <2>2, allocFrameGives
    <3>2. \A g \in File : free'[g] \subseteq free[g]
      BY <3>1 DEF Gives
    <3> QED
      BY <3>1, <3>2, NothingLost
  <2>3. CASE allocNoFrame(f, p)
    BY <2>3 DEF allocNoFrame
  <2> QED
    BY <2>1, <2>2, <2>3
<1>2. ASSUME NEW c \in Client, NEW f \in File, NEW p \in PageNos, readPage(c, f, p)
      PROVE  Linked'
  <2>1. p \notin free[f]
    BY <1>2 DEF readPage, Allocated
  <2>2. ASSUME NEW n, holds[c] = Unpinned, readMiss(c, f, p, n) PROVE Linked'
    <3>1. PICK i \in Frames : lost' = LostAfter({i}, free)
      BY <2>1, <2>2, readMissGives
    <3> QED
      BY <3>1, NothingLost
  <2>3. CASE readHit(c, f, p) \/ readNoFrame(f, p)
    BY <2>3 DEF readHit, readNoFrame, fileVars
  <2>4. \A n : ~readFails(f, p, n)
    BY DEF readFails
  <2> QED
    BY <1>2, <2>2, <2>3, <2>4 DEF readPage
<1>3. ASSUME NEW f \in File, NEW p \in PageNos, disposePage(f, p) PROVE Linked'
  BY <1>3, disposePageEffect
<1>4. ASSUME NEW f \in File, flushFile(f) PROVE Linked'
  <2>1. PICK k \in Int : flushUpTo(f, k)
    BY <1>4, NumBufsAssumption DEF flushFile, Frames
  <2>2. lost' = LostAfter(FlushedBy(f, k), free) /\ FlushedBy(f, k) \in SUBSET Frames
    BY <2>1 DEF flushUpTo, FlushedBy
  <2> QED
    BY <2>2, NothingLost
<1>5. CASE Restart
  <2>1. PICK S \in SUBSET Frames : lost' = LostAfter(S, free)
    BY <1>5 DEF Restart
  <2> QED
    BY <2>1, NothingLost
<1>6. ASSUME NEW c \in Client, \/ \E dirty \in BOOLEAN : unPinPage(c, dirty)
                               \/ \E v \in Value : Modify(c, v)
      PROVE  Linked'
  BY <1>6 DEF unPinPage, unPin, Modify, fileVars
<1>7. \A f, p, dirty : ~unPinTwice(f, p, dirty)
  BY DEF unPinTwice
<1> QED
  BY <1>1, <1>2, <1>3, <1>4, <1>5, <1>6, <1>7 DEF Next

\* Only pages of the file get an entry, and files do not shrink.
LEMMA StaysResident ==
  ASSUME Resident, \A g \in File : numPages[g] \in Int /\ numPages'[g] \in Int,
         \A g \in File : numPages[g] <= numPages'[g],
         \A g \in File, q \in PageNos : hashTable'[g][q] # NoFrame =>
           hashTable[g][q] # NoFrame \/ q \in 1 .. numPages'[g] - 1
  PROVE  Resident'
<1> SUFFICES ASSUME NEW g \in File, NEW q \in PageNos, hashTable'[g][q] # NoFrame
             PROVE  q \in 1 .. numPages'[g] - 1
  BY DEF Resident
<1> QED
  BY DEF Resident

LEMMA NextResident ==
  ASSUME ~Faults, IInv, IInv', Contract, Linked, Resident, Next
  PROVE  Resident'
<1>1. \A g \in File : numPages[g] \in Int /\ numPages'[g] \in Int
  BY BufMgrAssumption DEF IInv, TypeOK
<1>2. ASSUME NEW c \in Client, NEW f \in File, allocPage(c, f) PROVE Resident'
  <2>1. PICK p \in PageNos :
          /\ fileAllocatePage(f, p)
          /\ \/ \E n \in 1 .. 2 * numBufs : holds[c] = Unpinned /\ allocFrame(c, f, p, n)
             \/ allocNoFrame(f, p)
    BY <1>2 DEF allocPage, allocFileFails
  <2>2. /\ \A g \in File : numPages[g] <= numPages'[g]
        /\ p \in 1 .. numPages'[f] - 1
    <3>1. /\ \A g \in File : numPages[g] <= numPages'[g]
          /\ p < numPages'[f] /\ p # 0
      BY <2>1, fileAllocateKeeps DEF Linked
    <3> QED
      BY <1>1, <3>1 DEF PageNos
  <2>3. ASSUME NEW n, holds[c] = Unpinned, allocFrame(c, f, p, n) PROVE Resident'
    <3>1. PICK i \in Frames : Gives(c, f, p, i, TRUE)
      BY <2>1, <2>3, allocFrameGives
    <3>2. \A g \in File, q \in PageNos : hashTable'[g][q] # NoFrame =>
            hashTable[g][q] # NoFrame \/ (g = f /\ q = p)
      BY <3>1 DEF Gives
    <3> QED
      BY <1>1, <2>2, <3>2, StaysResident
  <2>4. CASE allocNoFrame(f, p)
    <3>1. hashTable' = hashTable
      BY <2>4, allocBufFailsEffect DEF allocNoFrame
    <3> QED
      BY <1>1, <2>2, <3>1, StaysResident
  <2> QED
    BY <2>1, <2>3, <2>4
<1>3. ASSUME NEW c \in Client, NEW f \in File, NEW p \in PageNos, readPage(c, f, p)
      PROVE  Resident'
  <2>1. p \notin free[f] /\ p >= 1 /\ p < numPages[f]
    BY <1>3 DEF readPage, Allocated
  <2>2. ASSUME NEW n, holds[c] = Unpinned, readMiss(c, f, p, n) PROVE Resident'
    <3>1. PICK i \in Frames : Gives(c, f, p, i, FALSE) /\ UNCHANGED numPages
      BY <2>1, <2>2, readMissGives
    <3>2. \A g \in File, q \in PageNos : hashTable'[g][q] # NoFrame =>
            hashTable[g][q] # NoFrame \/ (g = f /\ q = p)
      BY <3>1 DEF Gives
    <3>3. p \in 1 .. numPages'[f] - 1
      BY <1>1, <2>1, <3>1 DEF PageNos
    <3>4. \A g \in File : numPages[g] <= numPages'[g]
      BY <1>1, <3>1
    <3> QED
      BY <1>1, <3>2, <3>3, <3>4, StaysResident
  <2>3. CASE readHit(c, f, p) \/ readNoFrame(f, p)
    <3>1. UNCHANGED <<hashTable, numPages>>
      BY <2>3, allocBufFailsEffect DEF readHit, readNoFrame, fileVars
    <3> QED
      BY <3>1 DEF Resident
  <2>4. \A n : ~readFails(f, p, n)
    BY DEF readFails
  <2> QED
    BY <1>3, <2>2, <2>3, <2>4 DEF readPage
<1>4. CASE \/ \E f \in File, p \in PageNos : disposePage(f, p)
           \/ \E f \in File : flushFile(f)
  <2>1. /\ UNCHANGED numPages
        /\ \A g \in File, q \in PageNos : hashTable'[g][q] \in {hashTable[g][q], NoFrame}
    BY <1>4, disposePageEffect, flushFileDrops DEF Drops
  <2>2. \A g \in File : numPages[g] <= numPages'[g]
    BY <1>1, <2>1
  <2> QED
    BY <1>1, <2>1, <2>2, StaysResident
<1>5. CASE Restart
  BY <1>5 DEF Restart, Resident
<1>6. ASSUME NEW c \in Client, \/ \E dirty \in BOOLEAN : unPinPage(c, dirty)
                               \/ \E v \in Value : Modify(c, v)
      PROVE  Resident'
  <2>1. UNCHANGED <<hashTable, numPages>>
    BY <1>6 DEF unPinPage, unPin, Modify, fileVars
  <2> QED
    BY <2>1 DEF Resident
<1>7. \A f, p, dirty : ~unPinTwice(f, p, dirty)
  BY DEF unPinTwice
<1> QED
  BY <1>2, <1>3, <1>4, <1>5, <1>6, <1>7 DEF Next

\* The pool without faults, in every reachable state.
THEOREM ContractAlways == Spec => [](~Faults => Contract /\ Linked /\ Resident)
<1>1. Init => (~Faults => Contract /\ Linked /\ Resident)
  <2>1. Init => Linked /\ Resident
    BY DEF Init, Linked, Resident
  <2> QED
    BY <2>1, InitContract
<1>2. IInv /\ IInv' /\ (~Faults => Contract /\ Linked /\ Resident) /\ [Next]_vars
      => (~Faults => Contract /\ Linked /\ Resident)'
  <2> SUFFICES ASSUME ~Faults, IInv, IInv', Contract, Linked, Resident, [Next]_vars
               PROVE  Contract' /\ Linked' /\ Resident'
    OBVIOUS
  <2>1. CASE UNCHANGED vars
    BY <2>1, NextContract DEF vars, Linked, Resident
  <2> QED
    BY <2>1, NextContract, NextLinked, NextResident
<1> QED
  BY <1>1, <1>2, Invariant, PTL DEF Spec

\* Without faults a valid frame is the one that lookup gives for its page:
\* neither the clock, which removes its victim's entry by page, nor flushFile nor
\* disposePage separates a frame from its entry, and no page is in two frames.
THEOREM HashCompleteAlways == Spec => []HashComplete
<1>1. (~Faults => Contract /\ Linked /\ Resident) => HashComplete
  BY DEF Contract, Complete, HashComplete
<1> QED
  BY <1>1, ContractAlways, PTL

\* Without faults a pin count is the number of clients that hold the frame, and
\* the frame a client writes through is still that of its page: the clock never
\* takes a frame in use and no frame stays pinned for nobody.
THEOREM PinAccountAlways == Spec => []PinAccount
<1>1. IInv /\ (~Faults => Contract /\ Linked /\ Resident) => PinAccount
  <2> SUFFICES ASSUME IInv, Contract PROVE PinAccount
    BY DEF PinAccount
  <2>1. ASSUME NEW c \in Client, holds[c] # Unpinned
        PROVE  /\ InPool(holds[c].file, holds[c].pageNo)
               /\ hashTable[holds[c].file][holds[c].pageNo] = holds[c].frame
    <3>1. /\ holds[c].frame \in Frames
          /\ hashTable[holds[c].file][holds[c].pageNo] = holds[c].frame
      BY <2>1, Held
    <3>2. NoFrame \notin Frames
      BY Mirror
    <3> QED
      BY <3>1, <3>2 DEF InPool
  <2> QED
    BY <2>1 DEF Contract, Counted, PinAccount
<1> QED
  BY <1>1, Invariant, ContractAlways, PTL

\* Without faults no free list is lost: neither a late eviction nor a flush nor
\* ~BufMgr writes over the link that a free page holds, and no page is handed out
\* while an old frame of it is in the pool.
THEOREM FreePagesIntactAlways == Spec => []FreePagesIntact
<1>1. (~Faults => Contract /\ Linked /\ Resident) => FreePagesIntact
  BY DEF Contract, FreeIntact, Linked, FreePagesIntact, InPool
<1> QED
  BY <1>1, ContractAlways, PTL

-----------------------------------------------------------------------------
(***************************************************************************)
(* BufMgr implements PageStore: the refinement mapping of Store, by name.  *)
(***************************************************************************)
None == <<NoFile, NoPage>>
page == [f \in File |-> [p \in PageNos |->
           IF InPool(f, p) THEN bufPool[hashTable[f][p]] ELSE disk[f][p]]]
saved == [f \in File |-> [p \in PageNos |->
            IF InPool(f, p) /\ bufTable[hashTable[f][p]].dirty
            THEN bufPool[hashTable[f][p]] ELSE disk[f][p]]]
allocated == [f \in File |-> {p \in PageNos : Allocated(f, p)}]
writing == [c \in Client |->
              IF holds[c].dirty THEN <<holds[c].file, holds[c].pageNo>>
                                ELSE <<NoFile, NoPage>>]

\* The store's pages, one by one.
LEMMA StoreAt ==
  /\ page = [f \in File |-> [p \in PageNos |-> PageAt(f, p)]]
  /\ saved = [f \in File |-> [p \in PageNos |-> SavedAt(f, p)]]
  /\ page' = [f \in File |-> [p \in PageNos |-> PageAt(f, p)']]
  /\ saved' = [f \in File |-> [p \in PageNos |-> SavedAt(f, p)']]
BY DEF page, saved, PageAt, SavedAt, InPool

LEMMA SamePages ==
  ASSUME \A g \in File, q \in PageNos : SameView(g, q)
  PROVE  page' = page /\ saved' = saved
BY StoreAt DEF SameView

LEMMA OnePage ==
  ASSUME NEW f \in File, NEW p \in PageNos,
         \A g \in File, q \in PageNos : ~(g = f /\ q = p) => SameView(g, q)
  PROVE  /\ page' = [page EXCEPT ![f][p] = PageAt(f, p)']
         /\ saved' = [saved EXCEPT ![f][p] = SavedAt(f, p)']
<1> DEFINE v == PageAt(f, p)'
           w == SavedAt(f, p)'
<1>1. /\ page' = [g \in File |-> [q \in PageNos |-> IF g = f /\ q = p THEN v ELSE PageAt(g, q)]]
      /\ saved' = [g \in File |-> [q \in PageNos |-> IF g = f /\ q = p THEN w ELSE SavedAt(g, q)]]
  BY StoreAt DEF SameView
<1> HIDE DEF v, w
<1>2. page' = [page EXCEPT ![f][p] = v] /\ saved' = [saved EXCEPT ![f][p] = w]
  BY <1>1, StoreAt, ZenonT(60)
<1> QED
  BY <1>2 DEF v, w

\* What a page holds is a page's content.
LEMMA ContentAt ==
  ASSUME IInv, NEW f \in File, NEW p \in PageNos
  PROVE  PageAt(f, p) \in Content /\ SavedAt(f, p) \in Content
<1>1. /\ hashTable[f][p] # NoFrame => hashTable[f][p] \in Frames
      /\ disk[f][p] \in Content /\ \A i \in Frames : bufPool[i] \in Content
  BY DEF IInv, TypeOK
<1> QED
  BY <1>1 DEF PageAt, SavedAt

LEMMA InitStore == Init => Store!Init
<1> SUFFICES ASSUME Init PROVE Store!Init
  OBVIOUS
<1>1. IInv
  BY InitIInv
<1>2. /\ hashTable = [f \in File |-> [p \in PageNos |-> NoFrame]]
      /\ numPages = [f \in File |-> 1] /\ holds = [c \in Client |-> Unpinned]
  BY DEF Init
<1>3. page \in [File -> [PageNos -> Content]]
  BY <1>1, ContentAt, StoreAt
<1>4. saved = page
  BY <1>2, StoreAt DEF PageAt, SavedAt
<1>5. allocated = [f \in File |-> {}]
  <2>1. \A f \in File, p \in PageNos : ~Allocated(f, p)
    BY <1>2 DEF Allocated, PageNos
  <2> QED
    BY <2>1 DEF allocated
<1>6. writing = [c \in Client |-> None]
  <2>1. ~Unpinned.dirty
    BY DEF Unpinned
  <2> QED
    BY <1>2, <2>1 DEF writing, None
<1> QED
  BY <1>3, <1>4, <1>5, <1>6 DEF Store!Init, page, saved, allocated, writing, None

\* Steps that leave the store alone: what clients read and what is saved stays,
\* and so do the file's pages and the reports that clients owe.
LEMMA StoreStutters ==
  ASSUME \A g \in File, q \in PageNos : SameView(g, q), UNCHANGED <<numPages, free>>,
         \A c \in Client : IF holds[c].dirty
                           THEN /\ holds'[c].dirty /\ holds'[c].file = holds[c].file
                                /\ holds'[c].pageNo = holds[c].pageNo
                           ELSE ~holds'[c].dirty
  PROVE  UNCHANGED Store!vars
<1>1. page' = page /\ saved' = saved
  BY SamePages
<1>2. allocated' = allocated
  BY DEF allocated, Allocated
<1>3. writing' = writing
  BY DEF writing
<1> QED
  BY <1>1, <1>2, <1>3 DEF Store!vars, page, saved, allocated, writing

LEMMA readPageStore ==
  ASSUME ~Faults, IInv, Contract, NEW c \in Client, NEW f \in File, NEW p \in PageNos,
         readPage(c, f, p)
  PROVE  UNCHANGED Store!vars
<1>1. holds \in [Client -> Pin \cup {Unpinned}]
  BY DEF IInv, TypeOK
<1>2. \A n : ~readFails(f, p, n)
  BY DEF readFails
<1>3. UNCHANGED <<numPages, free>>
  BY <1>2 DEF readPage, readHit, readMiss, readNoFrame, fileVars
<1>4. \/ holds' = holds
      \/ holds[c] = Unpinned /\ \E i : holds' = [holds EXCEPT ![c] =
           [frame |-> i, file |-> f, pageNo |-> p, dirty |-> FALSE]]
  BY <1>2 DEF readPage, readHit, readMiss, readNoFrame
<1>5. ~Unpinned.dirty
  BY DEF Unpinned
<1>6. \A b \in Client : holds'[b] = holds[b] \/ (~holds[b].dirty /\ ~holds'[b].dirty)
  BY <1>1, <1>4, <1>5
<1> QED
  BY <1>3, <1>6, readPageContract, StoreStutters

LEMMA flushFileStore ==
  ASSUME IInv, Contract, NEW f \in File, flushFile(f)
  PROVE  UNCHANGED Store!vars
<1>1. PICK S \in SUBSET Frames : Drops(S)
  BY flushFileDrops
<1>2. UNCHANGED <<numPages, free, holds>>
  BY <1>1 DEF Drops
<1> QED
  BY <1>1, <1>2, DropKeeps, StoreStutters

\* A page in the pool belongs to the file.
LEMMA PoolAllocated ==
  ASSUME IInv, Contract, Resident, NEW f \in File, NEW p \in PageNos, hashTable[f][p] # NoFrame
  PROVE  Allocated(f, p)
<1>1. p \in 1 .. numPages[f] - 1
  BY DEF Resident
<1>2. p \notin free[f]
  BY DEF Contract, FreeIntact
<1>3. numPages[f] \in Int
  BY BufMgrAssumption DEF IInv, TypeOK
<1> QED
  BY <1>1, <1>2, <1>3 DEF Allocated, PageNos

\* A client's write through its pointer is a write of its page in the store.
LEMMA ModifyStore ==
  ASSUME IInv, Contract, Resident, NEW c \in Client, NEW v \in Value, Modify(c, v)
  PROVE  Store!Next
<1>1. Types
  BY TypesTypeOK
<1>2. /\ holds[c].frame \in Frames /\ holds[c].file \in File /\ holds[c].pageNo \in PageNos
      /\ hashTable[holds[c].file][holds[c].pageNo] = holds[c].frame
      /\ holds[c] = [frame |-> holds[c].frame, file |-> holds[c].file,
                     pageNo |-> holds[c].pageNo, dirty |-> holds[c].dirty]
  BY Held DEF Modify
<1>3. PICK f \in File, p \in PageNos : f = holds[c].file /\ p = holds[c].pageNo
  BY <1>2
<1>4. /\ holds' = [holds EXCEPT ![c].dirty = TRUE]
      /\ UNCHANGED <<numPages, free>>
  BY DEF Modify, fileVars
<1>5. \A b \in Client :
        /\ b # c => holds'[b] = holds[b]
        /\ b = c => holds'[b].dirty /\ holds'[b].file = f /\ holds'[b].pageNo = p
  BY <1>1, <1>2, <1>3, <1>4 DEF Types
<1>6. p \in allocated[f]
  <2>1. hashTable[f][p] # NoFrame
    BY <1>2, <1>3, Mirror
  <2> QED
    BY <2>1, PoolAllocated DEF allocated
<1>7. writing[c] \in {None, <<f, p>>}
  BY <1>3 DEF writing, None
<1>8. writing' = [writing EXCEPT ![c] = <<f, p>>]
  BY <1>5 DEF writing
<1>9. allocated' = allocated
  BY <1>4 DEF allocated, Allocated
<1>10. \A g \in File, q \in PageNos :
         IF g = f /\ q = p
         THEN PageAt(g, q)' = v /\ SavedAt(g, q)' \in {v, SavedAt(g, q)}
         ELSE SameView(g, q)
  BY <1>3, ModifyView DEF SameView
<1>11. page' = [page EXCEPT ![f][p] = v]
  BY <1>10, OnePage
<1>12. saved' \in {saved, [saved EXCEPT ![f][p] = v]}
  <2>1. CASE SavedAt(f, p)' = v
    BY <1>10, <2>1, OnePage
  <2>2. CASE SavedAt(f, p)' = SavedAt(f, p)
    <3>1. saved' = saved
      BY <1>10, <2>2, StoreAt DEF SameView
    <3> QED
      BY <3>1
  <2> QED
    BY <1>10, <2>1, <2>2
<1>13. Store!Write(c, f, p, v)
  BY <1>6, <1>7, <1>8, <1>9, <1>11, <1>12
  DEF Store!Write, page, saved, allocated, writing, None
<1>14. v \in Content
  BY DEF Content
<1> QED
  BY <1>13, <1>14 DEF Store!Next

\* unPinPage with dirty reports a write; without, it changes nothing.
LEMMA unPinPageStore ==
  ASSUME IInv, Contract, NEW c \in Client, NEW dirty \in BOOLEAN, unPinPage(c, dirty)
  PROVE  [Store!Next]_Store!vars
<1>1. PICK i \in Frames : Unpins(c, dirty, i)
  BY unPinPageEffect
<1>2. PICK f \in File, p \in PageNos : f = holds[c].file /\ p = holds[c].pageNo
  BY <1>1 DEF Unpins
<1>3. \A b \in Client : holds'[b] = IF b = c THEN Unpinned ELSE holds[b]
  BY <1>1 DEF Unpins, IInv, TypeOK
<1>4. ~Unpinned.dirty
  BY DEF Unpinned
<1>5. \A g \in File, q \in PageNos : hashTable[g][q] = i <=> g = f /\ q = p
  BY <1>1, <1>2, Mirror DEF Unpins
<1>6. CASE dirty
  <2>1. ASSUME NEW g \in File, NEW q \in PageNos, ~(g = f /\ q = p) PROVE SameView(g, q)
    BY <1>1, <1>5, <2>1, StaysView DEF Unpins
  <2>2. hashTable[f][p] = i /\ i # NoFrame /\ bufTable'[i].dirty
    <3>1. hashTable[f][p] = i /\ i # NoFrame
      BY <1>5, Mirror
    <3>2. bufTable'[i].dirty = (bufTable[i].dirty \/ dirty)
      BY <1>1 DEF Unpins
    <3> QED
      BY <1>6, <3>1, <3>2
  <2>3. PageAt(f, p)' = PageAt(f, p) /\ SavedAt(f, p)' = PageAt(f, p)
    BY <1>1, <2>2 DEF Unpins, PageAt, SavedAt
  <2>4. page' = page
    BY <2>1, <2>3, StoreAt DEF SameView
  <2>5. saved' = [saved EXCEPT ![f][p] = page[f][p]]
    <3>1. page[f][p] = PageAt(f, p)
      BY StoreAt
    <3> QED
      BY <2>1, <2>3, <3>1, OnePage
  <2>6. allocated' = allocated
    BY <1>1 DEF Unpins, allocated, Allocated
  <2>7. writing' = [writing EXCEPT ![c] = None]
    BY <1>3, <1>4 DEF writing, None
  <2>8. writing[c] \in {None, <<f, p>>}
    BY <1>2 DEF writing, None
  <2>9. Store!Report(c, f, p)
    BY <2>4, <2>5, <2>6, <2>7, <2>8
    DEF Store!Report, page, saved, allocated, writing, None
  <2> QED
    BY <2>9 DEF Store!Next
<1>7. CASE ~dirty
  <2>1. \A g \in File, q \in PageNos : SameView(g, q)
    <3>1. \A j \in Frames : bufTable'[j].dirty = bufTable[j].dirty
      <4>1. \A j \in Frames : bufTable[j].dirty \in BOOLEAN
        BY DEF IInv, TypeOK, BufDesc
      <4> QED
        BY <1>1, <1>7, <4>1 DEF Unpins
    <3> QED
      BY <1>1, <3>1, StaysView DEF Unpins
  <2>2. ~holds[c].dirty /\ UNCHANGED <<numPages, free>>
    BY <1>1, <1>7 DEF Unpins
  <2> QED
    BY <1>3, <1>4, <2>1, <2>2, StoreStutters
<1> QED
  BY <1>6, <1>7

\* The page that the file allocates is one that the file did not have.
LEMMA fileAllocateStore ==
  ASSUME IInv, Linked, NEW f \in File, NEW p \in PageNos, fileAllocatePage(f, p)
  PROVE  /\ p \notin allocated[f]
         /\ allocated' = [allocated EXCEPT ![f] = @ \cup {p}]
<1>1. /\ numPages \in [File -> 1 .. MaxPages + 1] /\ free \in [File -> SUBSET PageNos]
      /\ free[f] \subseteq 2 .. numPages[f] - 1
  BY DEF IInv, TypeOK, FreeInRange
<1>2. /\ p \in free[f] \/ (free[f] = {} /\ p = numPages[f])
      /\ free' = [free EXCEPT ![f] = @ \ {p}]
      /\ numPages' = [numPages EXCEPT ![f] = IF p < @ THEN @ ELSE @ + 1]
  BY DEF fileAllocatePage, FileAllocates, Linked
<1>3. numPages[f] \in Nat \ {0} /\ \A q \in PageNos : q \in Int
  BY <1>1, BufMgrAssumption DEF PageNos
<1>3a. IF p \in free[f] THEN p < numPages[f] ELSE p = numPages[f] /\ ~(p < numPages[f])
  BY <1>1, <1>2, <1>3
<1>4. ~Allocated(f, p)
  BY <1>2, <1>3 DEF Allocated
<1>5. ASSUME NEW g \in File, NEW q \in PageNos
      PROVE  Allocated(g, q)' <=> Allocated(g, q) \/ (g = f /\ q = p)
  <2>1. CASE g # f
    <3>1. free'[g] = free[g] /\ numPages'[g] = numPages[g]
      BY <1>1, <1>2, <2>1
    <3> QED
      BY <2>1, <3>1 DEF Allocated
  <2>2. CASE g = f /\ p \in free[f]
    <3>1. free'[f] = free[f] \ {p} /\ numPages'[f] = numPages[f]
      BY <1>1, <1>2, <1>3a, <2>2
    <3>2. p >= 1 /\ p < numPages[f]
      BY <1>1, <1>3, <2>2
    <3> QED
      BY <2>2, <3>1, <3>2 DEF Allocated
  <2>3. CASE g = f /\ p \notin free[f]
    <3>1. free'[f] = {} /\ free[f] = {} /\ numPages'[f] = numPages[f] + 1 /\ p = numPages[f]
      BY <1>1, <1>2, <1>3a, <2>3
    <3> QED
      BY <1>3, <2>3, <3>1 DEF Allocated
  <2> QED
    BY <2>1, <2>2, <2>3
<1>6. allocated' = [g \in File |-> {q \in PageNos : Allocated(g, q) \/ (g = f /\ q = p)}]
  BY <1>5 DEF allocated
<1>7. \A g \in File : {q \in PageNos : Allocated(g, q) \/ (g = f /\ q = p)} =
        IF g = f THEN {q \in PageNos : Allocated(g, q)} \cup {p}
                 ELSE {q \in PageNos : Allocated(g, q)}
  OBVIOUS
<1> QED
  BY <1>4, <1>6, <1>7 DEF allocated

LEMMA allocPageStore ==
  ASSUME ~Faults, IInv, IInv', Contract, Linked, Resident,
         NEW c \in Client, NEW f \in File, allocPage(c, f)
  PROVE  Store!Next
<1>1. ~allocFileFails
  BY DEF allocFileFails
<1>2. PICK p \in PageNos :
        /\ fileAllocatePage(f, p)
        /\ \/ \E n \in 1 .. 2 * numBufs : holds[c] = Unpinned /\ allocFrame(c, f, p, n)
           \/ allocNoFrame(f, p)
  BY <1>1 DEF allocPage
<1>3. p \notin allocated[f] /\ allocated' = [allocated EXCEPT ![f] = @ \cup {p}]
  BY <1>2, fileAllocateStore
<1>4. PageAt(f, p)' \in Content /\ SavedAt(f, p)' \in Content
  <2>1. /\ hashTable'[f][p] # NoFrame => hashTable'[f][p] \in Frames
        /\ disk'[f][p] \in Content /\ \A i \in Frames : bufPool'[i] \in Content
    BY DEF IInv, TypeOK
  <2> QED
    BY <2>1 DEF PageAt, SavedAt
<1>5. ASSUME NEW n, holds[c] = Unpinned, allocFrame(c, f, p, n) PROVE Store!Next
  <2>1. PICK i \in Frames : Gives(c, f, p, i, TRUE)
    BY <1>2, <1>5, allocFrameGives
  <2>2. /\ page' = [page EXCEPT ![f][p] = PageAt(f, p)']
        /\ saved' = [saved EXCEPT ![f][p] = SavedAt(f, p)']
    BY <2>1, GiveView, OnePage
  <2>3. writing[c] = None
    BY <1>5 DEF writing, None, Unpinned
  <2>4. writing' = [writing EXCEPT ![c] = <<f, p>>]
    <3>1. \A b \in Client : /\ b # c => holds'[b] = holds[b]
                            /\ b = c => /\ holds'[b].dirty /\ holds'[b].file = f
                                        /\ holds'[b].pageNo = p
      BY <2>1 DEF Gives, IInv, TypeOK
    <3> QED
      BY <3>1 DEF writing
  <2>5. Store!Allocate(c, f, p)
    BY <1>3, <1>4, <2>2, <2>3, <2>4, ZenonT(60)
    DEF Store!Allocate, page, saved, allocated, writing, None
  <2> QED
    BY <2>5 DEF Store!Next
<1>6. CASE allocNoFrame(f, p)
  <2>1. \A g \in File, q \in PageNos : ~(g = f /\ q = p) => SameView(g, q)
    BY <1>2, <1>6, allocNoFrameContract
  <2>2. /\ page' = [page EXCEPT ![f][p] = PageAt(f, p)']
        /\ saved' = [saved EXCEPT ![f][p] = SavedAt(f, p)']
    BY <2>1, OnePage
  <2>3. SavedAt(f, p)' = PageAt(f, p)'
    <3>1. hashTable[f][p] = NoFrame
      BY <1>2, NewPage
    <3>2. hashTable' = hashTable
      BY <1>6, allocBufFailsEffect DEF allocNoFrame
    <3> QED
      BY <3>1, <3>2 DEF PageAt, SavedAt
  <2>4. writing' = writing
    BY <1>6 DEF writing, allocNoFrame
  <2>5. Store!Leak(f, p)
    BY <1>3, <1>4, <2>2, <2>3, <2>4
    DEF Store!Leak, page, saved, allocated, writing, None
  <2> QED
    BY <2>5 DEF Store!Next
<1> QED
  BY <1>2, <1>5, <1>6

LEMMA disposePageStore ==
  ASSUME ~Faults, IInv, Contract, NEW f \in File, NEW p \in PageNos, disposePage(f, p)
  PROVE  Store!Next
<1>1. /\ Disposable(f, p) /\ p \notin free[f]
      /\ \A c \in Client : ~(holds[c].file = f /\ holds[c].pageNo = p)
      /\ \A j \in Frames :
           IF j = hashTable[f][p]
           THEN ~bufTable'[j].valid /\ bufTable'[j].pinCnt = 0
           ELSE bufTable'[j] = bufTable[j]
      /\ \A g \in File, q \in PageNos :
           /\ hashTable'[g][q] = IF g = f /\ q = p THEN NoFrame ELSE hashTable[g][q]
           /\ disk'[g][q] = IF g = f /\ q = p THEN FreeMark ELSE disk[g][q]
      /\ free' = [free EXCEPT ![f] = @ \cup {p}]
      /\ UNCHANGED <<bufPool, numPages, holds>>
  BY disposePageEffect
<1>2. free \in [File -> SUBSET PageNos] /\ \A q \in PageNos : q \in Int
  BY BufMgrAssumption DEF IInv, TypeOK, PageNos
<1>3. p \in allocated[f]
  BY <1>1, <1>2 DEF allocated, Allocated, Disposable
<1>4. \A c \in Client : writing[c] # <<f, p>>
  BY <1>1, BufMgrAssumption DEF writing
<1>5. allocated' = [allocated EXCEPT ![f] = @ \ {p}]
  <2>1. \A g \in File, q \in PageNos : Allocated(g, q)' <=> Allocated(g, q) /\ ~(g = f /\ q = p)
    BY <1>1, <1>2 DEF Allocated
  <2>2. allocated' = [g \in File |-> {q \in PageNos : Allocated(g, q) /\ ~(g = f /\ q = p)}]
    BY <2>1 DEF allocated
  <2>3. \A g \in File : {q \in PageNos : Allocated(g, q) /\ ~(g = f /\ q = p)} =
          IF g = f THEN {q \in PageNos : Allocated(g, q)} \ {p}
                   ELSE {q \in PageNos : Allocated(g, q)}
    OBVIOUS
  <2> QED
    BY <2>2, <2>3 DEF allocated
<1>6. ASSUME NEW g \in File, NEW q \in PageNos, ~(g = f /\ q = p) PROVE SameView(g, q)
  <2>1. \A j \in Frames : j = hashTable[g][q] => j # hashTable[f][p]
    BY <1>6, Mirror
  <2> QED
    BY <1>1, <1>6, <2>1, StaysView
<1>7. PageAt(f, p)' = FreeMark /\ SavedAt(f, p)' = FreeMark
  BY <1>1 DEF PageAt, SavedAt
<1>8. page' = [page EXCEPT ![f][p] = FreeMark] /\ saved' = [saved EXCEPT ![f][p] = FreeMark]
  BY <1>6, <1>7, OnePage
<1>9. FreeMark \in Content
  BY DEF Content
<1>10. writing' = writing
  BY <1>1 DEF writing
<1>11. Store!Free(f, p)
  BY <1>3, <1>4, <1>5, <1>8, <1>9, <1>10
  DEF Store!Free, page, saved, allocated, writing
<1> QED
  BY <1>11 DEF Store!Next

LEMMA RestartStore ==
  ASSUME ~Faults, IInv, Contract, Resident, Restart
  PROVE  Store!Next
<1>1. \A g \in File, q \in PageNos :
        PageAt(g, q)' = SavedAt(g, q) /\ SavedAt(g, q)' = SavedAt(g, q)
  BY RestartContract
<1>2. page' = saved /\ saved' = saved
  BY <1>1, StoreAt
<1>3. allocated' = allocated
  BY DEF Restart, allocated, Allocated
<1>4. writing' = [c \in Client |-> None]
  <2>1. ~Unpinned.dirty
    BY DEF Unpinned
  <2> QED
    BY <2>1 DEF Restart, writing, None
<1>5. Store!Restart
  BY <1>2, <1>3, <1>4 DEF Store!Restart, page, saved, allocated, writing, None
<1> QED
  BY <1>5 DEF Store!Next

LEMMA NextStore ==
  ~Faults /\ IInv /\ IInv' /\ Contract /\ Linked /\ Resident /\ [Next]_vars
    => [Store!Next]_Store!vars
<1> SUFFICES ASSUME ~Faults, IInv, IInv', Contract, Linked, Resident, [Next]_vars
             PROVE  [Store!Next]_Store!vars
  OBVIOUS
<1>1. \A f, p, dirty : ~unPinTwice(f, p, dirty)
  BY DEF unPinTwice
<1>2. CASE Next
  BY <1>1, <1>2, allocPageStore, readPageStore, unPinPageStore, ModifyStore,
     disposePageStore, flushFileStore, RestartStore DEF Next
<1>3. CASE UNCHANGED vars
  BY <1>3 DEF vars, Store!vars, InPool, Allocated
<1> QED
  BY <1>2, <1>3

\* Without faults the buffer manager implements PageStore: what clients read of
\* a page changes only when a client writes it, and a change reported through
\* unPinPage survives evictions, flushes and a restart.
THEOREM StoreRefinement == ~Faults => (Spec => ImplementsPageStore)
<1> SUFFICES ASSUME ~Faults PROVE Spec => ImplementsPageStore
  OBVIOUS
<1>1. Init => Store!Init
  BY InitStore
<1>2. IInv /\ IInv' /\ (~Faults => Contract /\ Linked /\ Resident) /\ [Next]_vars
      => [Store!Next]_Store!vars
  BY NextStore
<1> QED
  BY <1>1, <1>2, Invariant, ContractAlways, PTL DEF Spec, ImplementsPageStore, Store!Spec

-----------------------------------------------------------------------------
(***************************************************************************)
(* The loop of BufMgr::allocBuf does what module Clock says in closed form,*)
(* for every frame table and every position of the hand.                   *)
(***************************************************************************)
\* The variables of the loop have their types; while it runs, nothing is found.
LoopTypes ==
  /\ bufTable \in [Frames -> Desc]
  /\ table0 \in [Frames -> Desc]
  /\ clockHand \in Frames
  /\ hand0 \in Frames
  /\ numScanned \in 0 .. 2 * numBufs
  /\ found \in BOOLEAN
  /\ pc \in {"loop", "full", "frame"}
  /\ pc = "loop" => found = FALSE

\* The inductive invariant.
LoopIInv == LoopTypes /\ MatchesClosedForm

-----------------------------------------------------------------------------
(***************************************************************************)
(* Arithmetic of the hand.                                                 *)
(***************************************************************************)
\* Where the hand is after n steps of at most two rounds.
LEMMA SweepCases ==
  ASSUME NEW h \in Frames, NEW n \in 0 .. 2 * numBufs
  PROVE  /\ h + n < numBufs => Sweep(h, n) = h + n
         /\ numBufs <= h + n /\ h + n < 2 * numBufs => Sweep(h, n) = h + n - numBufs
         /\ 2 * numBufs <= h + n => Sweep(h, n) = h + n - 2 * numBufs
         /\ Sweep(h, n) \in Frames
<1>1. h \in 0 .. numBufs - 1 /\ numBufs \in Nat \ {0}
  BY NumBufsAssumption DEF Frames
<1> DEFINE a == h + n
<1>2. a \in Nat /\ a < 3 * numBufs
  BY <1>1
<1>3. Sweep(h, n) = a % numBufs
  BY DEF Sweep
<1> HIDE DEF a
<1>4. /\ a < numBufs => a % numBufs = a
      /\ numBufs <= a /\ a < 2 * numBufs => a % numBufs = a - numBufs
      /\ 2 * numBufs <= a /\ a < 3 * numBufs => a % numBufs = a - 2 * numBufs
  BY <1>1, <1>2, ModSmall
<1>5. a % numBufs \in Frames
  BY <1>1, <1>2, <1>4 DEF Frames
<1> QED
  BY <1>1, <1>2, <1>3, <1>4, <1>5 DEF a

\* The hand after one more step.
LEMMA SweepStep ==
  ASSUME NEW h \in Frames, NEW n \in 0 .. 2 * numBufs - 1
  PROVE  (Sweep(h, n) + 1) % numBufs = Sweep(h, n + 1)
<1>1. h \in 0 .. numBufs - 1 /\ numBufs \in Nat \ {0}
  BY NumBufsAssumption DEF Frames
<1>2. n \in 0 .. 2 * numBufs /\ n + 1 \in 0 .. 2 * numBufs
  BY <1>1
<1> DEFINE i == Sweep(h, n)
           j == Sweep(h, n + 1)
<1>3. /\ h + n < numBufs => i = h + n
      /\ numBufs <= h + n /\ h + n < 2 * numBufs => i = h + n - numBufs
      /\ 2 * numBufs <= h + n => i = h + n - 2 * numBufs
      /\ i \in 0 .. numBufs - 1
  BY <1>2, SweepCases DEF Frames
<1>4. /\ h + n + 1 < numBufs => j = h + n + 1
      /\ numBufs <= h + n + 1 /\ h + n + 1 < 2 * numBufs => j = h + n + 1 - numBufs
      /\ 2 * numBufs <= h + n + 1 => j = h + n + 1 - 2 * numBufs
  BY <1>1, <1>2, SweepCases
<1> HIDE DEF i, j
<1>5. /\ i + 1 < numBufs => (i + 1) % numBufs = i + 1
      /\ i + 1 = numBufs => (i + 1) % numBufs = 0
  <2> DEFINE a == i + 1
  <2>1. a \in Nat /\ a <= numBufs
    BY <1>1, <1>3
  <2> HIDE DEF a
  <2>2. /\ a < numBufs => a % numBufs = a
        /\ numBufs <= a /\ a < 2 * numBufs => a % numBufs = a - numBufs
    BY <1>1, <2>1, ModSmall
  <2>3. /\ a < numBufs => a % numBufs = a
        /\ a = numBufs => a % numBufs = 0
    BY <1>1, <2>1, <2>2
  <2> QED
    BY <2>3 DEF a
<1>6. (i + 1) % numBufs = j
  BY <1>1, <1>3, <1>4, <1>5
<1> QED
  BY <1>6 DEF i, j

\* A frame has been looked at before exactly when the second round has begun.
LEMMA SeenBefore ==
  ASSUME NEW h \in Frames, NEW n \in 0 .. 2 * numBufs - 1
  PROVE  /\ (\E m \in 1 .. n : Sweep(h, m) = Sweep(h, n + 1)) <=> n + 1 > numBufs
         /\ n + 1 > numBufs => /\ n + 1 - numBufs \in 1 .. n
                               /\ Sweep(h, n + 1 - numBufs) = Sweep(h, n + 1)
<1>1. h \in 0 .. numBufs - 1 /\ numBufs \in Nat \ {0}
  BY NumBufsAssumption DEF Frames
<1>2. n + 1 \in 0 .. 2 * numBufs
  BY <1>1
<1> DEFINE j == Sweep(h, n + 1)
<1>4. /\ h + n + 1 < numBufs => j = h + n + 1
      /\ numBufs <= h + n + 1 /\ h + n + 1 < 2 * numBufs => j = h + n + 1 - numBufs
      /\ 2 * numBufs <= h + n + 1 => j = h + n + 1 - 2 * numBufs
  BY <1>1, <1>2, SweepCases
<1> HIDE DEF j
<1>5. ASSUME n + 1 > numBufs
      PROVE  n + 1 - numBufs \in 1 .. n /\ Sweep(h, n + 1 - numBufs) = j
  <2> DEFINE k == n + 1 - numBufs
  <2>1. k \in 1 .. n /\ k \in 0 .. 2 * numBufs
    BY <1>1, <1>5
  <2>2. /\ h + k < numBufs => Sweep(h, k) = h + k
        /\ numBufs <= h + k /\ h + k < 2 * numBufs => Sweep(h, k) = h + k - numBufs
        /\ h + k < 2 * numBufs
    BY <1>1, <2>1, SweepCases
  <2>3. Sweep(h, k) = j
    BY <1>1, <1>4, <1>5, <2>1, <2>2
  <2> QED
    BY <2>1, <2>3
<1>6. ASSUME NEW m \in 1 .. n, Sweep(h, m) = j
      PROVE  n + 1 > numBufs
  <2>1. m \in 0 .. 2 * numBufs
    BY <1>1
  <2>2. /\ h + m < numBufs => Sweep(h, m) = h + m
        /\ numBufs <= h + m /\ h + m < 2 * numBufs => Sweep(h, m) = h + m - numBufs
        /\ 2 * numBufs <= h + m => Sweep(h, m) = h + m - 2 * numBufs
    BY <2>1, SweepCases
  <2> QED
    BY <1>1, <1>4, <1>6, <2>2
<1> QED
  BY <1>5, <1>6 DEF j

-----------------------------------------------------------------------------
\* Frame i in the table after n frames were passed over.
LEMMA SweptAt ==
  ASSUME NEW i \in Frames, NEW n
  PROVE  Swept(table0, hand0, n)[i] =
           IF \E m \in 1 .. n : Sweep(hand0, m) = i
           THEN [table0[i] EXCEPT !.refbit = FALSE] ELSE table0[i]
BY DEF Swept

\* Passing over one more frame clears its bit and leaves the others alone.
LEMMA SweptStep ==
  ASSUME NEW n \in Nat, table0 \in [Frames -> Desc], hand0 \in Frames
  PROVE  Swept(table0, hand0, n + 1) =
           [Swept(table0, hand0, n) EXCEPT ![Sweep(hand0, n + 1)] =
              [table0[Sweep(hand0, n + 1)] EXCEPT !.refbit = FALSE]]
<1>1. \A m : m \in 1 .. n + 1 <=> m \in 1 .. n \/ m = n + 1
  OBVIOUS
<1> QED
  BY <1>1 DEF Swept

LEMMA InitLoopIInv == LoopInit => LoopIInv
<1> SUFFICES ASSUME LoopInit PROVE LoopIInv
  OBVIOUS
<1>1. LoopTypes
  <2>1. 0 \in 0 .. 2 * numBufs
    BY NumBufsAssumption
  <2> QED
    BY <2>1 DEF LoopInit, LoopTypes
<1>2. clockHand = Sweep(hand0, 0)
  BY <1>1, SweepCases, NumBufsAssumption DEF LoopInit, LoopTypes, Frames
<1>3. bufTable = Swept(table0, hand0, 0)
  BY <1>1 DEF LoopInit, LoopTypes, Swept
<1> QED
  BY <1>1, <1>2, <1>3 DEF LoopInit, LoopIInv, MatchesClosedForm

\* What an iteration finds under the hand, in terms of the table at the call.
LEMMA UnderHand ==
  ASSUME LoopIInv, pc = "loop", numScanned < 2 * numBufs
  PROVE  LET n == numScanned
             i == advanceClock
             d == bufTable[i]
         IN  /\ i \in Frames /\ i = Sweep(hand0, n + 1)
             /\ n + 1 \in 1 .. 2 * numBufs
             /\ table0[i] \in Desc
             /\ d = IF n + 1 > numBufs THEN [table0[i] EXCEPT !.refbit = FALSE] ELSE table0[i]
             /\ d \in Desc
             /\ d.valid = table0[i].valid /\ d.pinCnt = table0[i].pinCnt
             /\ n + 1 > numBufs => d.valid
             /\ Stops(table0, hand0, n + 1) <=> ~d.valid \/ (d.pinCnt = 0 /\ ~d.refbit)
             /\ \A m \in 1 .. n : ~Stops(table0, hand0, m)
             /\ bufTable = Swept(table0, hand0, n)
<1> DEFINE n == numScanned
           i == advanceClock
           d == bufTable[i]
<1>1. /\ LoopTypes
      /\ clockHand = Sweep(hand0, n)
      /\ bufTable = Swept(table0, hand0, n)
      /\ \A m \in 1 .. n : ~Stops(table0, hand0, m)
  BY DEF LoopIInv, MatchesClosedForm
<1>2. /\ hand0 \in Frames /\ n \in 0 .. 2 * numBufs - 1
      /\ n + 1 \in 1 .. 2 * numBufs
  BY <1>1, NumBufsAssumption DEF LoopTypes
<1>3. i = Sweep(hand0, n + 1)
  BY <1>1, <1>2, SweepStep DEF advanceClock
<1>4. i \in Frames
  BY <1>2, <1>3, SweepCases
<1>5. table0[i] \in Desc
  BY <1>1, <1>4 DEF LoopTypes
<1>6. d = IF n + 1 > numBufs THEN [table0[i] EXCEPT !.refbit = FALSE] ELSE table0[i]
  BY <1>1, <1>2, <1>3, <1>4, SweptAt, SeenBefore
<1>7. d \in Desc /\ d.valid = table0[i].valid /\ d.pinCnt = table0[i].pinCnt
      /\ (n + 1 > numBufs => d.refbit = FALSE) /\ (~(n + 1 > numBufs) => d = table0[i])
  BY <1>5, <1>6 DEF Desc
<1>8. n + 1 > numBufs => d.valid
  BY <1>1, <1>2, <1>3, <1>7, SeenBefore DEF Stops
<1>9. Stops(table0, hand0, n + 1) <=> ~d.valid \/ (d.pinCnt = 0 /\ ~d.refbit)
  <2>1. Stops(table0, hand0, n + 1) <=>
          ~table0[i].valid \/ (table0[i].pinCnt = 0 /\ (~table0[i].refbit \/ n + 1 > numBufs))
    BY <1>3 DEF Stops
  <2> QED
    BY <1>7, <2>1
<1> QED
  BY <1>1, <1>2, <1>3, <1>4, <1>5, <1>6, <1>7, <1>8, <1>9

\* One iteration of the loop.
LEMMA IterateKeeps ==
  ASSUME LoopIInv, Iterate
  PROVE  LoopIInv'
<1> DEFINE n == numScanned
           i == advanceClock
           d == bufTable[i]
<1>0. pc = "loop" /\ numScanned < 2 * numBufs
  BY DEF Iterate
<1>1. /\ i \in Frames /\ i = Sweep(hand0, n + 1)
      /\ n + 1 \in 1 .. 2 * numBufs
      /\ table0[i] \in Desc
      /\ d = IF n + 1 > numBufs THEN [table0[i] EXCEPT !.refbit = FALSE] ELSE table0[i]
      /\ d \in Desc
      /\ n + 1 > numBufs => d.valid
      /\ Stops(table0, hand0, n + 1) <=> ~d.valid \/ (d.pinCnt = 0 /\ ~d.refbit)
      /\ \A m \in 1 .. n : ~Stops(table0, hand0, m)
      /\ bufTable = Swept(table0, hand0, n)
  BY <1>0, UnderHand
<1>2. LoopTypes /\ found = FALSE
  BY <1>0 DEF LoopIInv, LoopTypes
<1>3. /\ clockHand' = i /\ numScanned' = n + 1
      /\ table0' = table0 /\ hand0' = hand0
  BY DEF Iterate, Count
<1>4. /\ \A m \in 1 .. n : ~Stops(table0, hand0, m)
      /\ \A m : m \in 1 .. n + 1 <=> m \in 1 .. n \/ m = n + 1
      /\ n \in Nat
  BY <1>1, <1>2 DEF LoopTypes
<1>5. ASSUME Stops(table0, hand0, n + 1), bufTable' = bufTable, pc' = "frame", found' \in BOOLEAN
      PROVE  LoopIInv'
  <2>1. FirstStop(table0, hand0, n + 1)
    BY <1>1, <1>4, <1>5 DEF FirstStop
  <2>3. MatchesClosedForm'
    <3>1. /\ FirstStop(table0', hand0', numScanned')
          /\ clockHand' = Sweep(hand0', numScanned')
          /\ bufTable' = Swept(table0', hand0', numScanned' - 1)
      <4>1. numScanned' - 1 = n
        BY <1>3, <1>4
      <4> QED
        BY <1>1, <1>3, <1>5, <2>1, <4>1
    <3> QED
      BY <1>5, <3>1 DEF MatchesClosedForm
  <2>4. LoopTypes'
    BY <1>1, <1>2, <1>3, <1>5 DEF LoopTypes
  <2> QED
    BY <2>3, <2>4 DEF LoopIInv
<1>6. ASSUME ~Stops(table0, hand0, n + 1), d.valid,
             bufTable' = [bufTable EXCEPT ![i] = [table0[i] EXCEPT !.refbit = FALSE]],
             UNCHANGED <<found, pc>>
      PROVE  LoopIInv'
  <2>1. bufTable' = Swept(table0, hand0, n + 1)
    BY <1>1, <1>2, <1>4, <1>6, SweptStep DEF LoopTypes
  <2>2. \A m \in 1 .. n + 1 : ~Stops(table0, hand0, m)
    BY <1>4, <1>6
  <2>3. MatchesClosedForm'
    BY <1>0, <1>1, <1>3, <1>6, <2>1, <2>2 DEF MatchesClosedForm
  <2>4. [table0[i] EXCEPT !.refbit = FALSE] \in Desc
    <3>1. table0[i].valid
      BY <1>1, <1>6 DEF Desc
    <3> QED
      BY <1>1, <3>1 DEF Desc
  <2>5. LoopTypes'
    BY <1>1, <1>2, <1>3, <1>6, <2>4 DEF LoopTypes
  <2> QED
    BY <2>3, <2>5 DEF LoopIInv
<1>7. CASE ~d.valid /\ Leave(found, Count) /\ UNCHANGED <<bufTable, found>>
  <2>1. pc' = "frame"
    BY <1>1, <1>2, <1>4, <1>7, NumBufsAssumption DEF Leave, Count
  <2> QED
    BY <1>1, <1>2, <1>5, <1>7, <2>1
<1>8. CASE d.valid /\ ~d.refbit /\ d.pinCnt = 0 /\ found' = TRUE /\ Leave(TRUE, Count)
           /\ UNCHANGED bufTable
  <2>1. pc' = "frame"
    BY <1>8 DEF Leave
  <2> QED
    BY <1>1, <1>5, <1>8, <2>1
<1>9. CASE d.valid /\ ~d.refbit /\ d.pinCnt > 0 /\ UNCHANGED <<bufTable, found, pc>>
  <2>1. ~(d.pinCnt = 0)
    BY <1>1, <1>9 DEF Desc
  <2>2. [table0[i] EXCEPT !.refbit = FALSE] = d
    <3>1. d.refbit = FALSE
      BY <1>1, <1>9 DEF Desc
    <3> QED
      BY <1>1, <3>1 DEF Desc
  <2>3. bufTable' = [bufTable EXCEPT ![i] = [table0[i] EXCEPT !.refbit = FALSE]]
    BY <1>1, <1>2, <1>9, <2>2 DEF LoopTypes
  <2> QED
    BY <1>1, <1>6, <1>9, <2>1, <2>3
<1>10. CASE d.valid /\ d.refbit /\ bufTable' = [bufTable EXCEPT ![i].refbit = FALSE]
            /\ UNCHANGED <<found, pc>>
  <2>1. d = table0[i]
    BY <1>1, <1>10 DEF Desc
  <2>2. bufTable' = [bufTable EXCEPT ![i] = [table0[i] EXCEPT !.refbit = FALSE]]
    BY <1>1, <1>2, <1>10, <2>1 DEF LoopTypes
  <2> QED
    BY <1>1, <1>6, <1>10, <2>2
<1> QED
  BY <1>7, <1>8, <1>9, <1>10 DEF Iterate

\* The loop condition is false: no frame was taken in two rounds.
LEMMA EndLoopKeeps ==
  ASSUME LoopIInv, EndLoop
  PROVE  LoopIInv'
<1>1. /\ pc = "loop" /\ numScanned = 2 * numBufs /\ found = FALSE /\ LoopTypes
      /\ MatchesClosedForm
  BY NumBufsAssumption DEF LoopIInv, LoopTypes, EndLoop
<1>2. UNCHANGED <<bufTable, clockHand, numScanned, found, table0, hand0>>
  BY DEF EndLoop
<1>3. pc' = "full"
  BY <1>1 DEF EndLoop, Leave
<1>4. clockHand = hand0
  <2>1. hand0 \in 0 .. numBufs - 1
    BY <1>1 DEF LoopTypes, Frames
  <2>2. Sweep(hand0, 2 * numBufs) = hand0
    BY <1>1, <2>1, SweepCases, NumBufsAssumption DEF LoopTypes
  <2> QED
    BY <1>1, <2>2 DEF MatchesClosedForm
<1>5. MatchesClosedForm'
  BY <1>1, <1>2, <1>3, <1>4 DEF MatchesClosedForm, Exhausted
<1>6. LoopTypes'
  BY <1>1, <1>2, <1>3 DEF LoopTypes
<1> QED
  BY <1>5, <1>6 DEF LoopIInv

LEMMA NextLoopIInv == LoopIInv /\ [LoopNext]_loopVars => LoopIInv'
<1>1. ASSUME LoopIInv, UNCHANGED loopVars PROVE LoopIInv'
  BY <1>1 DEF loopVars, LoopIInv, LoopTypes, MatchesClosedForm
<1> QED
  BY <1>1, IterateKeeps, EndLoopKeeps DEF LoopNext

\* allocBuf's loop is at every iteration, and when it returns, where the closed
\* form of module Clock says: it takes the first frame that is invalid, or
\* unpinned with its reference bit off, and answers BUFFEREXCEEDED exactly when
\* two rounds have none.  BufMgr's one-step allocBuf rests on this.
THEOREM LoopMatchesClosedForm == LoopSpec => []MatchesClosedForm
<1>1. LoopIInv => MatchesClosedForm
  BY DEF LoopIInv
<1> QED
  BY <1>1, InitLoopIInv, NextLoopIInv, PTL DEF LoopSpec
=============================================================================
