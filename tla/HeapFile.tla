------------------------------ MODULE HeapFile ------------------------------
(***************************************************************************)
(* A heap file and the objects open on it (heapfile.h, heapfile.cpp):      *)
(* HeapFile, HeapFileScan and InsertFileScan.  All of them share the       *)
(* file's pages in the buffer pool; each keeps its own pin on the header   *)
(* page and on one data page, and its own dirty flags.                     *)
(*                                                                         *)
(* The buffer pool appears as BufMgr leaves it to its clients: a pin count *)
(* per page, and the rule that a change is kept once an unpin with dirty = *)
(* true has covered it (PageStore).  A data page appears as Page leaves    *)
(* it: a map from slots to records.  Frames are never short and I/O        *)
(* succeeds.                                                               *)
(***************************************************************************)
EXTENDS Integers, FiniteSets, FiniteSetsExt

CONSTANTS Scanner,      \* HeapFileScan objects, opened and closed over time
          Inserter,     \* InsertFileScan objects
          Reader,       \* plain HeapFile objects
          MaxPages,     \* bound: page numbers of the file, the header's is 1
          Val,          \* what a filter can tell about a record
          NoVal,        \* an empty slot; a scan without a filter
          Filter,       \* filters of the scans: values, or NoVal for none
          RecLen,       \* length of the relation's records
          Lens,         \* lengths callers try to insert; only RecLen ever fits
          SlotSize,     \* sizeof(slot_t)
          DataSize,     \* PAGESIZE - DPFIXED
          MaxDrift      \* bound: how far refused deletions move recCnt

ASSUME HeapFileAssumption ==
  /\ MaxPages \in Nat /\ MaxPages >= 2
  /\ RecLen \in Nat \ {0} /\ SlotSize \in Nat \ {0} /\ DataSize \in Nat
  /\ MaxDrift \in Nat
  /\ Lens \subseteq Nat /\ \A len \in Lens \ {RecLen} : len + SlotSize > DataSize
  /\ NoVal \notin Val /\ Filter \subseteq Val \cup {NoVal}
  /\ IsFiniteSet(Scanner \cup Inserter \cup Reader)
  /\ Scanner \cap Inserter = {} /\ Scanner \cap Reader = {} /\ Inserter \cap Reader = {}

Handle == Scanner \cup Inserter \cup Reader

HdrNo == 1
DataNos == 2 .. MaxPages
Nil == -1
Slots == 0 .. DataSize \div (RecLen + SlotSize)

VARIABLES hdr,          \* the FileHdrPage
          page,         \* page[p]: [rec, next] of data page p
          pinCnt,       \* pinCnt[p]: pins on page p
          unsaved,      \* pages changed since a dirty unpin last covered them
          handle,       \* handle[h]: the members of object h
          due           \* history: records scan h still has to return

pool == <<hdr, page, pinCnt, unsaved>>
vars == <<hdr, page, pinCnt, unsaved, handle, due>>

EmptyPage == [rec |-> [s \in Slots |-> NoVal], next |-> Nil]

\* An object that is not open.  Of the RIDs curRec and markedRec only the slot
\* is kept: curPageNo and markedPageNo have the page the code goes by.
Closed == [open |-> FALSE, curPage |-> FALSE, curPageNo |-> 0, curDirty |-> FALSE,
           hdrDirty |-> FALSE, curRec |-> Nil, filter |-> NoVal,
           markedPageNo |-> Nil, markedRec |-> Nil, status |-> "opened"]

\* What createHeapFile leaves: a header page and one empty data page, on disk.
Init ==
  /\ hdr = [firstPage |-> 2, lastPage |-> 2, pageCnt |-> 1, recCnt |-> 0]
  /\ page = [p \in DataNos |-> EmptyPage]
  /\ pinCnt = [p \in 1 .. MaxPages |-> 0]
  /\ unsaved = {}
  /\ handle = [h \in Handle |-> Closed]
  /\ due = [h \in Handle |-> {}]

-----------------------------------------------------------------------------
\* Records of a page, and whether one more fits (Page::insertRecord's test).
Used(p) == {s \in Slots : page[p].rec[s] # NoVal}
SlotCnt(p) == IF Used(p) = {} THEN 0 ELSE Max(Used(p)) + 1
FitsOn(used, slotCnt, len) == used * RecLen + len + (slotCnt + 1) * SlotSize <= DataSize
Fits(p, len) == FitsOn(Cardinality(Used(p)), SlotCnt(p), len)

AllRids == {[pageNo |-> p, slotNo |-> s] : p \in DataNos, s \in Slots}
Records == {r \in AllRids : page[r.pageNo].rec[r.slotNo] # NoVal}

\* matchRec, with the comparison abstracted to equality with the filter value.
matchRec(f, v) == f = NoVal \/ v = f

Matching(f) == {r \in Records : matchRec(f, page[r.pageNo].rec[r.slotNo])}

\* The pages of S are written through their pointers.
Touch(S) == unsaved' = unsaved \cup S

Open(h) == handle[h].open

-----------------------------------------------------------------------------
\* Mutants: the page left is not unpinned; it is unpinned as clean.
ReadOnly(p, flag, q) ==
  /\ pinCnt' = [x \in 1 .. MaxPages |-> pinCnt[x] + (IF x = q THEN 1 ELSE 0)]
  /\ unsaved' = IF flag THEN unsaved \ {p} ELSE unsaved

UnpinClean(p, flag, q) ==
  /\ pinCnt' = [x \in 1 .. MaxPages |->
                  pinCnt[x] + (IF x = q THEN 1 ELSE 0) - (IF x = p THEN 1 ELSE 0)]
  /\ UNCHANGED unsaved

(***************************************************************************)
(* unPinPage of page p (if there is one) with a dirty flag, then readPage  *)
(* of page q (if there is one).                                            *)
(***************************************************************************)
UnpinThenRead(p, flag, q) ==
  /\ pinCnt' = [x \in 1 .. MaxPages |->
                  pinCnt[x] + (IF x = q THEN 1 ELSE 0) - (IF x = p THEN 1 ELSE 0)]
  /\ unsaved' = IF flag THEN unsaved \ {p} ELSE unsaved

FirstPinned(h) == IF h \in Inserter THEN hdr.lastPage ELSE hdr.firstPage

\* The constructors: pin the header and the first data page; an
\* InsertFileScan goes on to the last one.
Construct(h) ==
  LET p == FirstPinned(h)
  IN  /\ ~Open(h)
      /\ pinCnt' = [pinCnt EXCEPT ![HdrNo] = @ + 1, ![p] = @ + 1]
      /\ handle' = [handle EXCEPT ![h] =
                      [Closed EXCEPT !.open = TRUE, !.curPage = TRUE, !.curPageNo = p]]
      /\ due' = [due EXCEPT ![h] = IF h \in Scanner THEN Records ELSE {}]
      /\ UNCHANGED <<hdr, page, unsaved>>

\* Mutant: the dirty flag of the data page is not passed on.
ReportedHdr(h) == IF handle[h].hdrDirty THEN {HdrNo} ELSE {}

\* The pages the destructors unpin as dirty; ~InsertFileScan always says so.
Reported(h) ==
  LET o == handle[h]
  IN  (IF o.curPage /\ (h \in Inserter \/ o.curDirty) THEN {o.curPageNo} ELSE {})
        \cup (IF o.hdrDirty THEN {HdrNo} ELSE {})

(***************************************************************************)
(* The destructors: unpin the data page, the header page, close the file.  *)
(***************************************************************************)
Destroy(h) ==
  LET o == handle[h]
  IN  /\ Open(h)
      /\ pinCnt' = [x \in 1 .. MaxPages |->
                      pinCnt[x] - (IF x = HdrNo \/ (o.curPage /\ x = o.curPageNo) THEN 1 ELSE 0)]
      /\ unsaved' = unsaved \ Reported(h)
      /\ handle' = [handle EXCEPT ![h] = Closed]
      /\ due' = [due EXCEPT ![h] = {}]
      /\ UNCHANGED <<hdr, page>>

-----------------------------------------------------------------------------
(***************************************************************************)
(* HeapFile::getRecord of a record on page p: move the pin there.  curRec, *)
(* which a plain HeapFile writes and never reads, is left out.             *)
(***************************************************************************)
getRecord(h, p) ==
  LET o == handle[h]
      moves == ~o.curPage \/ p # o.curPageNo
  IN  /\ Open(h)
      /\ p <= hdr.pageCnt + 1
      /\ IF moves
         THEN UnpinThenRead(IF o.curPage THEN o.curPageNo ELSE Nil, o.curDirty, p)
         ELSE UNCHANGED <<pinCnt, unsaved>>
      /\ handle' = [handle EXCEPT ![h] =
                      [o EXCEPT !.curPage = TRUE, !.curPageNo = p,
                                !.curDirty = IF moves THEN FALSE ELSE @]]
      /\ UNCHANGED <<hdr, page, due>>

-----------------------------------------------------------------------------
(***************************************************************************)
(* HeapFileScan                                                            *)
(***************************************************************************)
\* startScan sets the filter and no more; callers start a scan at its beginning.
startScan(h, f) ==
  /\ Open(h)
  /\ handle[h].status \in {"opened", "ended"}
  /\ handle' = [handle EXCEPT ![h].filter = f]
  /\ due' = [due EXCEPT ![h] = Matching(f)]
  /\ UNCHANGED pool

Ended(o) == [o EXCEPT !.curPage = FALSE, !.curPageNo = 0, !.curDirty = FALSE,
                      !.status = "ended"]

endScan(h) ==
  LET o == handle[h]
  IN  /\ Open(h) /\ o.curPage
      /\ UnpinThenRead(o.curPageNo, o.curDirty, Nil)
      /\ handle' = [handle EXCEPT ![h] = Ended(o)]
      /\ due' = [due EXCEPT ![h] = Matching(o.filter)]
      /\ UNCHANGED <<hdr, page>>

\* sort.cpp, the only caller, marks a scan that stands on a record.
markScan(h) ==
  LET o == handle[h]
  IN  /\ Open(h) /\ o.curPage
      /\ handle' = [handle EXCEPT ![h] = [o EXCEPT !.markedPageNo = o.curPageNo,
                                                   !.markedRec = o.curRec]]
      /\ UNCHANGED <<pool, due>>

\* The pages from p to the end of the file, in the order of their links.
Walk(p) ==
  LET hop[k \in 0 .. MaxPages] ==
        IF k = 0 THEN p ELSE IF hop[k - 1] = Nil THEN Nil ELSE page[hop[k - 1]].next
  IN  hop

\* Mutant: a new page is entered behind the slot that was left.
AheadOfSlot(hop, s, k) == {t \in Used(hop[k]) : t > s}

\* Slots a scan at slot s of Walk(p)[0] still looks at on the k-th page.
Ahead(hop, s, k) == {t \in Used(hop[k]) : k = 0 => t > s}
Hits(hop, s, k, f) == {t \in Ahead(hop, s, k) : matchRec(f, page[hop[k]].rec[t])}

\* resetScan goes back to the mark; records behind it are due again.
Behind(p, s) ==
  {r \in AllRids : \E k \in 0 .. MaxPages :
     Walk(p)[k] = r.pageNo /\ (k = 0 => r.slotNo > s)}

resetScan(h) ==
  LET o == handle[h]
      moves == o.markedPageNo # o.curPageNo
  IN  /\ Open(h) /\ o.markedPageNo # Nil
      /\ IF moves
         THEN UnpinThenRead(IF o.curPage THEN o.curPageNo ELSE Nil, o.curDirty, o.markedPageNo)
         ELSE UNCHANGED <<pinCnt, unsaved>>
      /\ handle' = [handle EXCEPT ![h] =
                      [o EXCEPT !.curPage = TRUE, !.curPageNo = o.markedPageNo,
                                !.curRec = o.markedRec, !.status = "reset",
                                !.curDirty = IF moves THEN FALSE ELSE @]]
      /\ due' = [due EXCEPT ![h] =
                   Matching(o.filter) \cap Behind(o.markedPageNo, o.markedRec)]
      /\ UNCHANGED <<hdr, page>>

\* scanNext finds a record on the k-th page from where it stands.
scanFinds(h, p, s, k) ==
  LET o == handle[h]
      hop == Walk(p)
      rid == [pageNo |-> hop[k], slotNo |-> Min(Hits(hop, s, k, o.filter))]
  IN  /\ hop[k] # Nil
      /\ Hits(hop, s, k, o.filter) # {}
      /\ \A j \in 0 .. k - 1 : Hits(hop, s, j, o.filter) = {}
      /\ IF o.curPage /\ k = 0
         THEN UNCHANGED <<pinCnt, unsaved>>
         ELSE UnpinThenRead(IF o.curPage THEN p ELSE Nil, o.curDirty, hop[k])
      /\ handle' = [handle EXCEPT ![h] =
                      [o EXCEPT !.curPage = TRUE, !.curPageNo = hop[k], !.curRec = rid.slotNo,
                                !.curDirty = @ /\ o.curPage /\ k = 0, !.status = "OK"]]
      /\ due' = [due EXCEPT ![h] = @ \ {rid}]

\* Mutant: an empty page ends the scan.
LastOrEmpty(p) == page[p].next = Nil \/ Used(p) = {}

LastPage(p) == page[p].next = Nil

\* scanNext reaches the last page and finds nothing; the page stays pinned
\* and curRec is the last record looked at (firstRecord of an empty page
\* does not set it).
scanEnds(h, p, s, k) ==
  LET o == handle[h]
      hop == Walk(p)
      seen == {j \in 0 .. k : Ahead(hop, s, j) # {}}
  IN  /\ hop[k] # Nil /\ LastPage(hop[k])
      /\ \A j \in 0 .. k : Hits(hop, s, j, o.filter) = {}
      /\ IF o.curPage /\ k = 0
         THEN UNCHANGED <<pinCnt, unsaved>>
         ELSE UnpinThenRead(IF o.curPage THEN p ELSE Nil, o.curDirty, hop[k])
      /\ handle' = [handle EXCEPT ![h] =
                      [o EXCEPT !.curPage = TRUE, !.curPageNo = hop[k],
                                !.curRec = IF seen = {} THEN @
                                           ELSE Max(Ahead(hop, s, Max(seen))),
                                !.curDirty = @ /\ o.curPage /\ k = 0, !.status = "FILEEOF"]]
      /\ UNCHANGED due

\* scanNext with no page pinned starts over from the first page, and takes
\* an empty first page for the end of the file.  curRec is then copied from a
\* RID that firstRecord did not set; it is written again before any use.
scanRestartsEmpty(h) ==
  LET o == handle[h]
  IN  /\ ~o.curPage /\ o.curPageNo >= 0
      /\ Used(hdr.firstPage) = {}
      /\ handle' = [handle EXCEPT ![h] = [o EXCEPT !.curPageNo = Nil, !.status = "FILEEOF",
                                                   !.curRec = Nil, !.curDirty = FALSE]]
      /\ UNCHANGED <<pinCnt, unsaved, due>>

\* scanNext after that: curPageNo < 0.
scanAtEof(h) ==
  /\ handle[h].curPageNo < 0
  /\ handle' = [handle EXCEPT ![h].status = "FILEEOF"]
  /\ UNCHANGED <<pinCnt, unsaved, due>>

scanNext(h) ==
  LET o == handle[h]
  IN  /\ Open(h)
      /\ \/ scanAtEof(h)
         \/ scanRestartsEmpty(h)
         \/ \E k \in 0 .. MaxPages :
              \/ /\ o.curPage
                 /\ \/ scanFinds(h, o.curPageNo, o.curRec, k)
                    \/ scanEnds(h, o.curPageNo, o.curRec, k)
              \/ /\ ~o.curPage /\ o.curPageNo >= 0
                 /\ Used(hdr.firstPage) # {}
                 /\ \/ scanFinds(h, hdr.firstPage, Nil, k)
                    \/ scanEnds(h, hdr.firstPage, Nil, k)
      /\ UNCHANGED <<hdr, page>>

\* Mutant: recCnt is left alone.
hdrUncounted == hdr

hdrCounted == [hdr EXCEPT !.recCnt = @ - 1]

\* Deletes the current record of the scan; recCnt goes down in any case.
deleteRecord(h) ==
  LET o == handle[h]
      r == [pageNo |-> o.curPageNo, slotNo |-> o.curRec]
      ok == r \in Records
  IN  /\ Open(h) /\ o.status = "OK"
      /\ ok \/ Cardinality(Records) - hdr.recCnt < MaxDrift
      /\ page' = IF ok THEN [page EXCEPT ![r.pageNo].rec[r.slotNo] = NoVal] ELSE page
      /\ hdr' = hdrCounted
      /\ handle' = [handle EXCEPT ![h] =
                      [o EXCEPT !.curDirty = TRUE, !.hdrDirty = TRUE,
                                !.status = IF ok THEN "deleted" ELSE "INVALIDSLOTNO"]]
      /\ Touch({HdrNo, o.curPageNo})
      /\ due' = [g \in Handle |-> due[g] \ {r}]
      /\ UNCHANGED pinCnt

\* A client overwrites the current record in place and calls markDirty.
updateRecord(h, v) ==
  LET o == handle[h]
      r == [pageNo |-> o.curPageNo, slotNo |-> o.curRec]
  IN  /\ Open(h) /\ o.status = "OK" /\ r \in Records
      /\ page' = [page EXCEPT ![r.pageNo].rec[r.slotNo] = v]
      /\ handle' = [handle EXCEPT ![h].curDirty = TRUE]
      /\ Touch({o.curPageNo})
      /\ due' = [g \in Handle |-> IF matchRec(handle[g].filter, v) THEN due[g] ELSE due[g] \ {r}]
      /\ UNCHANGED <<hdr, pinCnt>>

-----------------------------------------------------------------------------
(***************************************************************************)
(* InsertFileScan::insertRecord.  What it returns (OK, INVALIDRECLEN, or   *)
(* NOSPACE after a new page was linked in vain) is not recorded.           *)
(***************************************************************************)
insertRejected(h, len) ==
  /\ len > DataSize
  /\ UNCHANGED vars

\* The first empty slot, at most one behind the last used one.
FreeSlot(p) == Min(Slots \ Used(p))

insertHere(h, v, len) ==
  LET p == handle[h].curPageNo
  IN  /\ len <= DataSize /\ Fits(p, len)
      /\ page' = [page EXCEPT ![p].rec[FreeSlot(p)] = v]
      /\ hdr' = [hdr EXCEPT !.recCnt = @ + 1]
      /\ handle' = [handle EXCEPT ![h].curDirty = TRUE, ![h].hdrDirty = TRUE]
      /\ Touch({HdrNo, p})
      /\ UNCHANGED <<pinCnt, due>>

\* Mutant: the full page is not linked to the new one.
NewPage(p, q, new) == [page EXCEPT ![q] = new]

LinkedPage(p, q, new) == [page EXCEPT ![p].next = q, ![q] = new]

\* The page has no room: a new last page is allocated, linked and pinned, and the
\* record goes there if it fits on an empty page.
insertOnNewPage(h, v, len) ==
  LET o == handle[h]
      p == o.curPageNo
      q == hdr.pageCnt + 2
      ok == FitsOn(0, 0, len)
  IN  /\ len <= DataSize /\ ~Fits(p, len)
      /\ q <= MaxPages
      /\ page' = LinkedPage(p, q, IF ok THEN [EmptyPage EXCEPT !.rec[0] = v] ELSE EmptyPage)
      /\ hdr' = [hdr EXCEPT !.lastPage = q, !.pageCnt = @ + 1,
                            !.recCnt = IF ok THEN @ + 1 ELSE @]
      /\ pinCnt' = [pinCnt EXCEPT ![p] = @ - 1, ![q] = @ + 1]
      /\ unsaved' = (unsaved \ {p}) \cup {q, HdrNo}
      /\ handle' = [handle EXCEPT ![h] =
                      [o EXCEPT !.curPageNo = q, !.curDirty = @ \/ ok, !.hdrDirty = TRUE]]
      /\ UNCHANGED due

insertRecord(h, v, len) ==
  /\ Open(h)
  /\ insertRejected(h, len) \/ insertHere(h, v, len) \/ insertOnNewPage(h, v, len)

Next ==
  \/ \E h \in Handle : Construct(h) \/ Destroy(h)
  \/ \E h \in Reader, p \in DataNos : getRecord(h, p)
  \/ \E h \in Scanner :
       \/ \E f \in Filter : startScan(h, f)
       \/ endScan(h) \/ markScan(h) \/ resetScan(h) \/ scanNext(h) \/ deleteRecord(h)
       \/ \E v \in Val : updateRecord(h, v)
  \/ \E h \in Inserter, v \in Val, len \in Lens : insertRecord(h, v, len)

Spec == Init /\ [][Next]_vars

-----------------------------------------------------------------------------
Statuses == {"opened", "ended", "reset", "deleted", "OK", "FILEEOF", "INVALIDSLOTNO"}

\* Every page of the file and every member of an open object has its type.
TypeOK ==
  /\ hdr \in [firstPage : DataNos, lastPage : DataNos, pageCnt : 1 .. MaxPages - 1,
              recCnt : Int]
  /\ page \in [DataNos -> [rec : [Slots -> Val \cup {NoVal}], next : DataNos \cup {Nil}]]
  /\ pinCnt \in [1 .. MaxPages -> Nat]
  /\ unsaved \subseteq 1 .. MaxPages
  /\ handle \in [Handle ->
       [open : BOOLEAN, curPage : BOOLEAN,
        curPageNo : DataNos \cup {0, Nil}, curDirty : BOOLEAN, hdrDirty : BOOLEAN,
        curRec : Slots \cup {Nil}, filter : Val \cup {NoVal}, markedPageNo : DataNos \cup {Nil},
        markedRec : Slots \cup {Nil}, status : Statuses]]
  /\ due \in [Handle -> SUBSET AllRids]

\* The pins on a page are those of the objects that stand on it, and those on
\* the header page are the open objects': every move, end, reset and close of
\* a scan gives back exactly the pin it had, so the last close can flush.
PinsBalanced ==
  /\ \A p \in DataNos :
       pinCnt[p] = Cardinality({h \in Handle : handle[h].curPage /\ handle[h].curPageNo = p})
  /\ pinCnt[HdrNo] = Cardinality({h \in Handle : Open(h)})

\* Each change to a page that the pool does not know to be dirty will be
\* reported by an object that still has the page pinned: no scan moves on,
\* resets or closes and leaves a change that the clock would throw away.
ChangesReported ==
  \A p \in unsaved : \E h \in Handle :
    \/ p = HdrNo /\ handle[h].hdrDirty
    \/ /\ handle[h].curPage /\ handle[h].curPageNo = p
       /\ handle[h].curDirty \/ h \in Inserter

\* The links lead from firstPage through every page of the file to lastPage:
\* insertRecord never leaves a page that scans cannot reach.
ChainComplete ==
  /\ {Walk(hdr.firstPage)[k] : k \in 0 .. MaxPages} \ {Nil} = 2 .. hdr.pageCnt + 1
  /\ page[hdr.lastPage].next = Nil

\* A scan that runs into FILEEOF has returned every record that matched its
\* filter from its start (or its mark) to its end, whatever other objects
\* inserted, deleted or updated meanwhile; except that a scan started over
\* after endScan stops at an empty first page, which sets curPageNo to -1.
ScanComplete ==
  \A h \in Handle :
    handle[h].status = "FILEEOF" /\ handle[h].curPageNo # Nil => due[h] = {}

\* getRecCnt never counts records that are not there.
RecCntBound == hdr.recCnt <= Cardinality(Records)
=============================================================================
