------------------------------- MODULE BufMgr -------------------------------
(***************************************************************************)
(* The buffer manager of buf.h, buf.cpp and bufHash.cpp, with the clients  *)
(* that pin pages and write through the pointers they get.                 *)
(*                                                                         *)
(* The file layer under it (db.cpp) appears as what the buffer manager can *)
(* see of it: the page contents on disk, the number of pages and the set   *)
(* of free pages.  DbFile models its header page and its free list, also   *)
(* for calls that fail between two writes; here a call of File that fails  *)
(* leaves the file as it was.                                              *)
(*                                                                         *)
(* The free list is linked through the bytes of the free pages, which the  *)
(* buffer manager can write.  Once it has (or a page was disposed of       *)
(* twice) the list is lost: nextFree may then be any number, page 0 and    *)
(* pages in use among them, and stays so.                                  *)
(*                                                                         *)
(* Faults = FALSE: the operating system completes every read and write,    *)
(* and clients use the interface as heapfile.cpp means to use it (pages    *)
(* that exist, one unpin per pin, no disposal of a page in use, of a free  *)
(* page or of the first page).  Faults = TRUE lifts these restrictions.    *)
(***************************************************************************)
EXTENDS Clock, FiniteSets

CONSTANTS File,         \* the open File objects
          MaxPages,     \* bound: user pages per file
          Value,        \* page contents a client may store
          Client,       \* callers; each holds at most one pin at a time, and may
                        \* ask in vain for more
          NoFile,       \* the NULL File pointer
          Zero,         \* a page of zero bytes
          FreeMark,     \* a page that File::disposePage overwrote
          Faults        \* may I/O fail and clients break the rules?

ASSUME BufMgrAssumption ==
  /\ MaxPages \in Nat \ {0}
  /\ NoFile \notin File
  /\ IsFiniteSet(Client)
  /\ Faults \in BOOLEAN

PageNos == 0 .. MaxPages
Content == Value \cup {Zero, FreeMark}

NoFrame == -1           \* lookup answered HASHNOTFOUND
NoPage  == -1           \* BufDesc::pageNo after Clear()

Statuses == {"OK", "UNIXERR", "BADPAGENO", "BUFFEREXCEEDED", "HASHNOTFOUND",
             "HASHTBLERROR", "PAGENOTPINNED", "PAGEPINNED", "BADBUFFER"}

VARIABLES bufPool,      \* bufPool[i]: the page in frame i
          hashTable,    \* hashTable[f][p]: the frame of (f, p), or NoFrame
          disk,         \* disk[f][p]: the page in the Unix file
          numPages,     \* numPages[f]: pages of the file, header included
          free,         \* free[f]: pages on the file's free list
          lost,         \* lost[f]: the links of the free list are overwritten
          holds,        \* holds[c]: the pin client c has and must give back
          status        \* what the last operation returned

fileVars == <<disk, numPages, free, lost>>
vars == <<bufTable, bufPool, hashTable, clockHand, disk, numPages, free,
          lost, holds, status>>

BufDesc == [file : File \cup {NoFile}, pageNo : PageNos \cup {NoPage},
            pinCnt : Nat, dirty : BOOLEAN, valid : BOOLEAN, refbit : BOOLEAN]

\* What a client remembers of a page it has pinned; dirty: it wrote the page.
Pin == [frame : Frames, file : File, pageNo : PageNos, dirty : BOOLEAN]

\* A client that holds no page.
Unpinned == [frame |-> NoFrame, file |-> NoFile, pageNo |-> NoPage, dirty |-> FALSE]

\* A frame as the constructor's memset leaves it.
ZeroDesc == [file |-> NoFile, pageNo |-> 0, pinCnt |-> 0, dirty |-> FALSE,
             valid |-> FALSE, refbit |-> FALSE]

\* Mutant: Clear forgets the file.
ClearKeepsFile(d) == [d EXCEPT !.pinCnt = 0, !.pageNo = NoPage, !.dirty = FALSE,
                               !.valid = FALSE]

\* BufDesc::Clear (the reference bit stays).
Clear(d) == [d EXCEPT !.pinCnt = 0, !.file = NoFile, !.pageNo = NoPage,
                      !.dirty = FALSE, !.valid = FALSE]

\* BufDesc::Set.
Set(f, p) == [file |-> f, pageNo |-> p, pinCnt |-> 1, dirty |-> FALSE,
              valid |-> TRUE, refbit |-> TRUE]

-----------------------------------------------------------------------------
\* Mutants: insert and remove do nothing.
InsertNothing(tbl, f, p, i) == tbl
RemoveNothing(tbl, f, p) == tbl

\* BufHashTbl::lookup, insert and remove; remove of an absent key changes nothing.
InPool(f, p) == hashTable[f][p] # NoFrame
Insert(tbl, f, p, i) == [tbl EXCEPT ![f][p] = i]
Remove(tbl, f, p) == [tbl EXCEPT ![f][p] = NoFrame]

Allocated(f, p) == p >= 1 /\ p < numPages[f] /\ p \notin free[f]

InUse(f, p) == \E c \in Client : holds[c].file = f /\ holds[c].pageNo = p

Init ==
  /\ bufTable = [i \in Frames |-> ZeroDesc]
  /\ bufPool = [i \in Frames |-> Zero]
  /\ hashTable = [f \in File |-> [p \in PageNos |-> NoFrame]]
  /\ clockHand = numBufs - 1
  /\ disk = [f \in File |-> [p \in PageNos |-> Zero]]
  /\ numPages = [f \in File |-> 1]
  /\ free = [f \in File |-> {}]
  /\ lost = [f \in File |-> FALSE]
  /\ holds = [c \in Client |-> Unpinned]
  /\ status = "OK"

-----------------------------------------------------------------------------
(***************************************************************************)
(* allocBuf.  When the loop stops at a valid frame, that frame's hash      *)
(* entry is removed and the page is written back if it is dirty.  A failed *)
(* write returns at once: the entry is gone, the frame is still valid.     *)
(***************************************************************************)
\* Mutant: the victim's entry stays.
HashKept(i) == hashTable

HashAfterEvict(i) ==
  IF bufTable[i].valid
  THEN Remove(hashTable, bufTable[i].file, bufTable[i].pageNo)
  ELSE hashTable

\* Mutant: a dirty victim is not written back.
DiskKept(i, d) == d

DiskAfterEvict(i, d) ==
  IF bufTable[i].dirty
  THEN [d EXCEPT ![bufTable[i].file][bufTable[i].pageNo] = bufPool[i]]
  ELSE d

\* File::writePage refuses the header page.
Refused(i) == bufTable[i].dirty /\ bufTable[i].pageNo < 1

\* The free lists fr that are lost once the dirty frames of S are written back.
LostAfter(S, fr) ==
  [f \in File |->
     lost[f] \/ \E i \in S : /\ bufTable[i].dirty /\ bufTable[i].file = f
                            /\ bufTable[i].pageNo \in fr[f]]

\* allocBuf gives no frame: every frame is pinned, or the write-back fails.
allocBufFails ==
  \/ /\ Exhausted(bufTable, clockHand)
     /\ bufTable' = Swept(bufTable, clockHand, 2 * numBufs)
     /\ status' = "BUFFEREXCEEDED"
     /\ UNCHANGED <<hashTable, clockHand>>
  \/ \E n \in 1 .. 2 * numBufs :
       LET i == Sweep(clockHand, n)
       IN  /\ FirstStop(bufTable, clockHand, n)
           /\ Faults /\ bufTable[i].dirty
           /\ bufTable' = Swept(bufTable, clockHand, n - 1)
           /\ hashTable' = HashAfterEvict(i)
           /\ clockHand' = i
           /\ status' = IF Refused(i) THEN "BADPAGENO" ELSE "UNIXERR"

-----------------------------------------------------------------------------
(***************************************************************************)
(* readPage                                                                *)
(***************************************************************************)
readHit(c, f, p) ==
  LET i == hashTable[f][p]
  IN  /\ InPool(f, p)
      /\ bufTable' = [bufTable EXCEPT ![i].refbit = TRUE, ![i].pinCnt = @ + 1]
      /\ holds' = [holds EXCEPT ![c] =
                     [frame |-> i, file |-> f, pageNo |-> p, dirty |-> FALSE]]
      /\ status' = "OK"
      /\ UNCHANGED <<bufPool, hashTable, clockHand, fileVars>>

readMiss(c, f, p, n) ==
  LET i == Sweep(clockHand, n)
  IN  /\ ~InPool(f, p)
      /\ FirstStop(bufTable, clockHand, n) /\ ~Refused(i)
      /\ p >= 1 /\ p < numPages[f]
      /\ disk' = DiskAfterEvict(i, disk)
      /\ lost' = LostAfter({i}, free)
      /\ bufPool' = [bufPool EXCEPT ![i] = disk'[f][p]]
      /\ bufTable' = [Swept(bufTable, clockHand, n - 1) EXCEPT ![i] = Set(f, p)]
      /\ hashTable' = Insert(HashAfterEvict(i), f, p, i)
      /\ clockHand' = i
      /\ holds' = [holds EXCEPT ![c] =
                     [frame |-> i, file |-> f, pageNo |-> p, dirty |-> FALSE]]
      /\ status' = "OK"
      /\ UNCHANGED <<numPages, free>>

readNoFrame(f, p) ==
  /\ ~InPool(f, p)
  /\ allocBufFails
  /\ UNCHANGED <<bufPool, fileVars, holds>>

\* File::readPage fails after allocBuf has taken the frame.
readFails(f, p, n) ==
  LET i == Sweep(clockHand, n)
  IN  /\ Faults
      /\ ~InPool(f, p)
      /\ FirstStop(bufTable, clockHand, n) /\ ~Refused(i)
      /\ disk' = DiskAfterEvict(i, disk)
      /\ lost' = LostAfter({i}, free)
      /\ bufTable' = Swept(bufTable, clockHand, n - 1)
      /\ hashTable' = HashAfterEvict(i)
      /\ clockHand' = i
      /\ status' = IF p < 1 THEN "BADPAGENO" ELSE "UNIXERR"
      /\ UNCHANGED <<bufPool, numPages, free, holds>>

readPage(c, f, p) ==
  /\ Faults \/ Allocated(f, p)
  /\ \/ holds[c] = Unpinned /\ readHit(c, f, p)
     \/ \E n \in 1 .. 2 * numBufs : holds[c] = Unpinned /\ readMiss(c, f, p, n)
     \/ readNoFrame(f, p)
     \/ \E n \in 1 .. 2 * numBufs : readFails(f, p, n)

-----------------------------------------------------------------------------
\* Mutant: the pin count is not tested.
unPinUnchecked(f, p, dirty) ==
  /\ InPool(f, p)
  /\ bufTable' = [bufTable EXCEPT ![hashTable[f][p]].dirty = @ \/ dirty,
                                  ![hashTable[f][p]].pinCnt = @ - 1]
  /\ status' = "OK"
  /\ UNCHANGED <<bufPool, hashTable, clockHand, fileVars>>

(***************************************************************************)
(* unPinPage.  The dirty flag is recorded before the pin count is tested.  *)
(***************************************************************************)
unPin(f, p, dirty) ==
  LET i == hashTable[f][p]
  IN  /\ IF ~InPool(f, p)
         THEN status' = "HASHNOTFOUND" /\ UNCHANGED bufTable
         ELSE /\ bufTable' = [bufTable EXCEPT
                                ![i].dirty = @ \/ dirty,
                                ![i].pinCnt = IF @ = 0 THEN 0 ELSE @ - 1]
              /\ status' = IF bufTable[i].pinCnt = 0 THEN "PAGENOTPINNED" ELSE "OK"
      /\ UNCHANGED <<bufPool, hashTable, clockHand, fileVars>>

\* A client gives its pin back; one that wrote the page says so.
unPinPage(c, dirty) ==
  /\ holds[c] # Unpinned
  /\ holds[c].dirty => dirty
  /\ unPin(holds[c].file, holds[c].pageNo, dirty)
  /\ holds' = [holds EXCEPT ![c] = Unpinned]

\* A second unpin of the same page, as an error path may issue.
unPinTwice(f, p, dirty) ==
  /\ Faults
  /\ unPin(f, p, dirty)
  /\ UNCHANGED holds

\* A client writes through its Page pointer: no call, no check.
Modify(c, v) ==
  /\ holds[c] # Unpinned
  /\ bufPool' = [bufPool EXCEPT ![holds[c].frame] = v]
  /\ holds' = [holds EXCEPT ![c].dirty = TRUE]
  /\ status' = "OK"
  /\ UNCHANGED <<bufTable, hashTable, clockHand, fileVars>>

-----------------------------------------------------------------------------
(***************************************************************************)
(* allocPage.  The file allocates first: a page from its free list, or one *)
(* more page of zeros at its end.  The frame keeps its old bytes.          *)
(* A list that is lost gives any page of the file, or says it is empty.    *)
(***************************************************************************)
FileAllocates(f, p) ==
  \/ p \in free[f]
  \/ free[f] = {} /\ p = numPages[f]
  \/ lost[f] /\ p <= numPages[f]

DiskAfterAllocate(f, p) ==
  IF p < numPages[f] THEN disk ELSE [disk EXCEPT ![f][p] = Zero]

fileAllocatePage(f, p) ==
  /\ FileAllocates(f, p)
  /\ free' = [free EXCEPT ![f] = @ \ {p}]
  /\ numPages' = [numPages EXCEPT ![f] = IF p < @ THEN @ ELSE @ + 1]

\* The frame is set up; insert fails if the table already has the page.
allocFrame(c, f, p, n) ==
  LET i == Sweep(clockHand, n)
      h == HashAfterEvict(i)
  IN  /\ FirstStop(bufTable, clockHand, n) /\ ~Refused(i)
      /\ disk' = DiskAfterEvict(i, DiskAfterAllocate(f, p))
      /\ lost' = LostAfter({i}, free')
      /\ bufTable' = [Swept(bufTable, clockHand, n - 1) EXCEPT ![i] = Set(f, p)]
      /\ clockHand' = i
      /\ IF h[f][p] # NoFrame
         THEN hashTable' = h /\ status' = "HASHTBLERROR" /\ UNCHANGED holds
         ELSE /\ hashTable' = Insert(h, f, p, i)
              /\ holds' = [holds EXCEPT ![c] =
                             [frame |-> i, file |-> f, pageNo |-> p, dirty |-> TRUE]]
              /\ status' = "OK"
      /\ UNCHANGED bufPool

\* allocBuf fails: the page stays allocated in the file and nobody has it.
allocNoFrame(f, p) ==
  /\ disk' = DiskAfterAllocate(f, p)
  /\ allocBufFails
  /\ UNCHANGED <<bufPool, lost, holds>>

\* File::allocatePage fails before a frame is looked for.
allocFileFails ==
  /\ Faults
  /\ status' = "UNIXERR"
  /\ UNCHANGED <<bufTable, bufPool, hashTable, clockHand, fileVars, holds>>

allocPage(c, f) ==
  \/ \E p \in PageNos :
       /\ fileAllocatePage(f, p)
       /\ \/ \E n \in 1 .. 2 * numBufs : holds[c] = Unpinned /\ allocFrame(c, f, p, n)
          \/ allocNoFrame(f, p)
  \/ allocFileFails

-----------------------------------------------------------------------------
(***************************************************************************)
(* disposePage.  The frame is cleared, dirty or pinned, before the file    *)
(* has agreed to the disposal; the result of the file's call is returned.  *)
(***************************************************************************)
Disposable(f, p) == p > 1 /\ p < numPages[f]

disposePage(f, p) ==
  /\ Faults \/ (Disposable(f, p) /\ ~InUse(f, p) /\ p \notin free[f])
  /\ bufTable' = IF InPool(f, p)
                 THEN [bufTable EXCEPT ![hashTable[f][p]] = Clear(@)]
                 ELSE bufTable
  /\ hashTable' = Remove(hashTable, f, p)
  /\ \/ /\ Disposable(f, p)
        /\ disk' = [disk EXCEPT ![f][p] = FreeMark]
        /\ free' = [free EXCEPT ![f] = @ \cup {p}]
        /\ lost' = [lost EXCEPT ![f] = @ \/ p \in free[f]]
        /\ status' = "OK"
     \/ /\ ~Disposable(f, p) \/ Faults
        /\ status' = IF Disposable(f, p) THEN "UNIXERR" ELSE "BADPAGENO"
        /\ UNCHANGED <<disk, free, lost>>
  /\ UNCHANGED <<bufPool, clockHand, numPages, holds>>

-----------------------------------------------------------------------------
(***************************************************************************)
(* flushFile walks the frames in order and returns at the first one it     *)
(* cannot flush: a pinned one, an invalid one that still names the file,   *)
(* or one whose write is refused or fails.  Frames before it are flushed.  *)
(***************************************************************************)
FlushStops(f, i) ==
  bufTable[i].file = f /\ (bufTable[i].pinCnt > 0 \/ ~bufTable[i].valid \/ Refused(i))

FlushFails(f, i) == Faults /\ bufTable[i].file = f /\ bufTable[i].dirty

\* The frames of f below frame k.
FlushedBy(f, k) == {i \in Frames : i < k /\ bufTable[i].file = f /\ bufTable[i].valid}

DirtyFrames(S, f, p) ==
  {i \in S : bufTable[i].dirty /\ bufTable[i].file = f /\ bufTable[i].pageNo = p}

\* The file contents after the dirty frames of S are written in frame order.
WrittenBack(S) ==
  [f \in File |-> [p \in PageNos |->
     LET D == DirtyFrames(S, f, p)
     IN  IF D = {} THEN disk[f][p]
         ELSE bufPool[CHOOSE i \in D : \A j \in D : j <= i]]]

flushUpTo(f, k) ==
  LET S == FlushedBy(f, k)
  IN  /\ \A i \in Frames : i < k => ~FlushStops(f, i)
      /\ disk' = WrittenBack(S)
      /\ lost' = LostAfter(S, free)
      /\ bufTable' = [i \in Frames |->
           IF i \in S
           THEN [bufTable[i] EXCEPT !.file = NoFile, !.pageNo = NoPage,
                                    !.dirty = FALSE, !.valid = FALSE]
           ELSE bufTable[i]]
      /\ hashTable' = [hashTable EXCEPT ![f] =
           [p \in PageNos |->
              IF \E i \in S : bufTable[i].pageNo = p THEN NoFrame ELSE @[p]]]
      /\ UNCHANGED <<bufPool, clockHand, numPages, free, holds>>

flushFile(f) ==
  \/ flushUpTo(f, numBufs) /\ status' = "OK"
  \/ \E k \in Frames :
       /\ flushUpTo(f, k)
       /\ \/ /\ FlushStops(f, k)
             /\ status' = CASE ~bufTable[k].valid -> "BADBUFFER"
                            [] bufTable[k].pinCnt > 0 -> "PAGEPINNED"
                            [] OTHER -> "BADPAGENO"
          \/ /\ FlushFails(f, k) /\ ~FlushStops(f, k)
             /\ status' = "UNIXERR"

-----------------------------------------------------------------------------
(***************************************************************************)
(* ~BufMgr at the end of the program, and the constructor of the next run. *)
(* The destructor ignores the result of its writes.                        *)
(***************************************************************************)
Restart ==
  /\ LET D == {i \in Frames : bufTable[i].valid /\ bufTable[i].dirty /\ ~Refused(i)}
     IN  \E S \in SUBSET D :
           /\ Faults \/ S = D
           /\ disk' = WrittenBack(S)
           /\ lost' = LostAfter(S, free)
  /\ bufTable' = [i \in Frames |-> ZeroDesc]
  /\ bufPool' = [i \in Frames |-> Zero]
  /\ hashTable' = [f \in File |-> [p \in PageNos |-> NoFrame]]
  /\ clockHand' = numBufs - 1
  /\ holds' = [c \in Client |-> Unpinned]
  /\ status' = "OK"
  /\ UNCHANGED <<numPages, free>>

Next ==
  \/ \E c \in Client :
       \/ \E f \in File : allocPage(c, f)
       \/ \E f \in File, p \in PageNos : readPage(c, f, p)
       \/ \E dirty \in BOOLEAN : unPinPage(c, dirty)
       \/ \E v \in Value : Modify(c, v)
  \/ \E f \in File, p \in PageNos :
       \/ disposePage(f, p)
       \/ \E dirty \in BOOLEAN : unPinTwice(f, p, dirty)
  \/ \E f \in File : flushFile(f)
  \/ Restart

Spec == Init /\ [][Next]_vars

-----------------------------------------------------------------------------
(***************************************************************************)
(* Properties                                                              *)
(***************************************************************************)

\* Every variable of the buffer manager and its clients has its type.
TypeOK ==
  /\ bufTable \in [Frames -> BufDesc]
  /\ bufPool \in [Frames -> Content]
  /\ hashTable \in [File -> [PageNos -> Frames \cup {NoFrame}]]
  /\ clockHand \in Frames
  /\ disk \in [File -> [PageNos -> Content]]
  /\ numPages \in [File -> 1 .. MaxPages + 1]
  /\ free \in [File -> SUBSET PageNos]
  /\ lost \in [File -> BOOLEAN]
  /\ holds \in [Client -> Pin \cup {Unpinned}]
  /\ status \in Statuses

\* The frame the hash table gives for a page is valid and holds that page,
\* whatever I/O failed and whichever call returned early: readPage and
\* unPinPage index bufTable with the answer of lookup and test nothing else.
HashSound ==
  \A f \in File, p \in PageNos :
    InPool(f, p) =>
      LET d == bufTable[hashTable[f][p]]
      IN  d.valid /\ d.file = f /\ d.pageNo = p

\* A frame that allocBuf, flushFile or ~BufMgr would write back names an open
\* file, and a page that File::writePage accepts unless that file's free list is
\* lost; a frame that is not valid names no file and has neither pins nor changes,
\* so flushFile never finds the BADBUFFER case and allocBuf never calls writePage
\* on a NULL file.  This holds whichever reads and writes fail and whatever is
\* pinned, unpinned and disposed of in the wrong order.
WriteBackSafe ==
  \A i \in Frames :
    LET d == bufTable[i]
    IN  IF d.valid
        THEN d.file \in File /\ d.pageNo \in PageNos /\ (d.pageNo = 0 => lost[d.file])
        ELSE d.file = NoFile /\ ~d.dirty /\ d.pinCnt = 0

\* Without faults the buffer pool is what the hash table says it is (buf.h:34: a
\* page is "in the buffer pool (ie. in the hash table)"): a valid frame is the
\* one that lookup gives for its page, so no page is ever in two frames.  Neither
\* the clock, which removes the entry of its victim by page and not by frame, nor
\* flushFile separates a frame from its entry; a failed read does.
HashComplete ==
  ~Faults => \A i \in Frames :
    bufTable[i].valid => hashTable[bufTable[i].file][bufTable[i].pageNo] = i

Holders(i) == {c \in Client : holds[c].frame = i}

\* Without faults the frame a client writes through still holds the client's
\* page, and a frame's pin count is the number of clients that hold it: the
\* clock never recycles a frame in use, and no frame stays pinned for nobody.
PinAccount ==
  ~Faults =>
    /\ \A c \in Client : holds[c] # Unpinned =>
         InPool(holds[c].file, holds[c].pageNo)
           /\ hashTable[holds[c].file][holds[c].pageNo] = holds[c].frame
    /\ \A i \in Frames : bufTable[i].pinCnt = Cardinality(Holders(i))

\* Without faults no write-back lands on a free page, whose bytes hold the link
\* that File::allocatePage follows, and no free page is in the pool, so the free
\* list is never lost: neither a late eviction nor a flush nor ~BufMgr has a frame
\* of a page that was disposed of.
FreePagesIntact ==
  ~Faults => \A f \in File :
    /\ ~lost[f]
    /\ \A p \in free[f] : disk[f][p] = FreeMark /\ ~InPool(f, p)

\* BUFFEREXCEEDED is returned only when each frame is pinned, however the
\* reference bits and the hand stood; contents and pins are then untouched.
ExceededOnlyWhenPinned ==
  [][status' = "BUFFEREXCEEDED" =>
       /\ \A i \in Frames : bufTable[i].pinCnt > 0
       /\ UNCHANGED <<bufPool, holds, hashTable>>]_vars

\* Without faults the buffer manager implements PageStore: what a client
\* reads of a page changes only when a client writes it, and every change
\* reported through unPinPage survives evictions, flushes and a restart.
Store ==
  INSTANCE PageStore WITH
    None <- <<NoFile, NoPage>>,
    page <- [f \in File |-> [p \in PageNos |->
               IF InPool(f, p) THEN bufPool[hashTable[f][p]] ELSE disk[f][p]]],
    saved <- [f \in File |-> [p \in PageNos |->
                IF InPool(f, p) /\ bufTable[hashTable[f][p]].dirty
                THEN bufPool[hashTable[f][p]] ELSE disk[f][p]]],
    allocated <- [f \in File |-> {p \in PageNos : Allocated(f, p)}],
    writing <- [c \in Client |->
                  IF holds[c].dirty THEN <<holds[c].file, holds[c].pageNo>>
                                    ELSE <<NoFile, NoPage>>]

ImplementsPageStore == Store!Spec
=============================================================================
