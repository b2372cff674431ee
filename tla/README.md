# Minirel: TLA+ models, checks and proofs

Minirel is a small single-user relational database in C++: a page file layer,
a buffer manager with clock replacement, slotted pages, heap files with scans,
two catalogs kept in heap files, a handful of commands (create, destroy,
load, print, help, quit), an external sort and the beginnings of a query layer.  This
directory holds TLA+ models of it, the TLC configurations that check them, and TLAPS
proofs about every part.

The program is sequential ("Assumes non-concurrent access to buffer manager",
buf.cpp:71).  What makes it hard is not threads but sharing: several objects are open
on one file at a time, each with its own pins and dirty flags on shared pages; calls
return early in the middle of an update; and nothing is kept unless somebody
reports it before the program ends.

## 1. The system and its parts

| part | state | operations | used by |
|---|---|---|---|
| `File` (db.cpp) | header page: nextFree, firstPage, numPages; free list in page bytes | create, allocatePage, disposePage, readPage, writePage, getFirstPage | buffer manager |
| `DB`, `OpenFileHashTbl` (db.cpp) | name -> File, open counts | createFile, destroyFile, openFile, closeFile | heap files |
| `BufMgr`, `BufDesc` (buf.cpp) | frames: file, pageNo, pinCnt, dirty, valid, refbit; bufPool; clockHand | readPage, unPinPage, allocPage, disposePage, flushFile, ~BufMgr | heap files, File::close |
| `BufHashTbl` (bufHash.cpp) | (file, page) -> frame | lookup, insert, remove | buffer manager |
| `Page` (page.cpp) | slot directory, freePtr, freeSpace, data bytes | init, insertRecord, deleteRecord, getRecord, firstRecord, nextRecord | heap files |
| `HeapFile`, `HeapFileScan`, `InsertFileScan` (heapfile.cpp) | pinned header page, one pinned data page, dirty flags, current and marked record | construct, destroy, getRecord, startScan, scanNext, endScan, markScan, resetScan, deleteRecord, markDirty, insertRecord | catalogs, commands |
| `RelCatalog`, `AttrCatalog` (catalog.cpp, create.cpp, destroy.cpp) | heap files relcat, attrcat, open for a whole run | getInfo, addInfo, removeInfo, getRelInfo, dropRelation, createRel, destroyRel | commands |
| commands (load.cpp, print.cpp, help.cpp, quit.cpp) | none | UT_Load, UT_Print, help, UT_Quit | minirel |
| `SortedFile` (sort.cpp) | runs, one temporary heap file each, with scan, valid bit and mark | construct (sortFile, generateRun, startScans), next, setMark, gotoMark, destroy | nothing yet (meant for the sort-merge join) |
| queries (select.cpp, join.cpp) | none | QU_Select, QU_Join: nested loops; sort-merge and hash join are stubs | minirel's parser, which is not in the repository |
| `joinHashTbl`, `Partition` (joinHT.cpp, partition.cpp) | chains with counts; partition files | insert, lookup; construct, destroy | nothing yet (meant for the hash join) |

How they interact: a command opens scans; a scan pins pages through `BufMgr`
and writes records through the raw pointers it gets; the changes reach the file only if the
page is later unpinned with dirty = true and then evicted, flushed by the last
close of its file, or written by `~BufMgr`.

The behaviours that are hard to test are listed under `hazards` in
PROJECT.json.  They fall into six groups:

* a failed read, write or allocation in the middle of an operation (buf.cpp, db.cpp, destroy.cpp);
* pins and dirty flags of several objects on one page (buf.cpp, heapfile.cpp);
* two structures that must agree: hash table and frames, free list and
  ownership, slot directory and bytes, page chain and header, relcat and attrcat and files;
* limits: the pool with every frame pinned, a page full to the last byte, the last slot, the first page;
* what is left after a quit: unreported changes are lost, reported ones are kept;
* results computed by loops with a twist: turned operators, arrays filled from
  the end, marks in a merge, an index that depends on bytes behind the value.

What makes each part correct: a page is in use or free and never both (`File`);
a client reads what was last written and keeps what it reported (`BufMgr`); no insert or
delete disturbs another record (`Page`); scans return everything, pins balance
and no change goes unreported (`HeapFile`); the catalogs describe files that exist (`Session`);
a cached page's `File` is there as long as the page is (`OpenFiles`); a sort
returns every record in order and goes back to its mark (`SortedFile`); lookups,
joins and partitions return exactly what their reference definitions say (`Query`).

## 2. Modules

| module | models | abstract specification |
|---|---|---|
| `Clock` | the clock loop of `allocBuf` in closed form: which step stops it, what it has swept | |
| `ClockSweep` | the same loop, one iteration per step, from every frame table | (shown equal to `Clock`) |
| `BufMgr`, `MCBufMgr` | buffer manager, hash table, clients | `PageStore` |
| `DbFile` | page allocation on the header page and the links in free pages | `FilePages` |
| `Page` | slotted page, down to its bytes | `RecordMap` |
| `HeapFile`, `MCHeapFile` | all objects open on one heap file | |
| `Session` | catalogs, files, open counts and commands over several runs of the program | |
| `OpenFiles`, `MCOpenFiles` | `DB`, the table of open files and File objects, under heap file objects and over the frames that name them | |
| `SortedFile`, `MCSortedFile` | external sort: run files, merge, marks | `SortCursor` |
| `JoinHT` | the join hash table, as operators | |
| `Query`, `MCQuery` | lookups in attrcat, QU_Select, QU_Join, joinHashTbl, Partition: one call at a time | reference definitions in the properties |
| `BufMgrProofs`, `DbFileProofs`, `PageProofs`, `HeapFileProofs`, `SessionProofs`, `OpenFilesProofs`, `SortedFileProofs`, `QueryProofs` | proofs about the module of that name; `BufMgrProofs` also has those about `ClockSweep` | |

The layers are linked through their abstract specifications: `BufMgr` sees a
file as a set of free pages and page contents, which is what `DbFile` is shown to implement
(`FilePages`), as long as nobody writes a page that is free: `DbFile` lets only the owner of
a page write it.  That the buffer manager keeps to this without faults is
`FreePagesIntact`; when it does not, `BufMgr` says that the list is `lost`.  `HeapFile` sees the pool as pin counts plus the rule that a
reported change is kept, which is `PageStore`, and a page as a map from slots
to records, which is `RecordMap`; `Session` sees a file as its set of records,
with the pages that some unpin reported and those that none did.  `OpenFiles`
joins the table of open files to the pool: `BufMgr` takes a file's identity for
granted, and `OpenFiles` shows that it may, although a frame names its file by the
address of an object that is deleted and whose address is used again.
`SortedFile` and `Query` see a scan as the sequence of the file's records, which
`ScanComplete` justifies.

Operators labelled "Mutant" are variants of the definition that follows them, each a
plausible slip in that code.  No specification uses them.  Put in the place of that
definition, each makes TLC report the property PROJECT.json pairs it with; they
show that no property holds vacuously.

### BufMgr

`bufTable`, `bufPool`, `hashTable`, `clockHand` are the members of the class;
`disk`, `numPages`, `free`, `lost` are the file layer; `holds[c]` is the pin
a client has, and whether it wrote the page.  One action per call, split by
outcome: `readHit`, `readMiss`, `readNoFrame`, `readFails`; `allocFrame`,
`allocNoFrame`, `allocFileFails`; `unPinPage`; `disposePage`; `flushFile`, which
stops at the first pinned frame or failed write with the earlier frames already
flushed; `Restart`, which is `~BufMgr` and the next start.  A call to `allocBuf`
inside them uses `Clock`; a failed write-back leaves the victim without its hash
entry, as buf.cpp:96-124 does.  `Modify` is a client writing through its pointer.

`Faults` is a constant.  With FALSE the operating system completes its calls and clients
keep to the rules that heapfile.cpp keeps to.  With TRUE every read and write may fail, clients may
unpin what they do not hold (`unPinTwice`), ask for pages that do not exist and
dispose of pages that are in use or free already.

The links of the free list are bytes of the free pages, and `File::allocatePage` follows
whatever it finds there (db.cpp:249-258).  `lost[f]` is set when a frame of a free page is
written back (a client read a page it had disposed of, or a failed read left a frame that no
hash entry leads to) and when a page is disposed of twice, which links it to itself.  From
then on `allocatePage` may hand out any page of the file, page 0 and pages in use among
them.  A dirty frame of page 0 cannot be written back: `writePage` answers BADPAGENO
(`Refused`) and the frame stays.
A call of `File` is all or nothing here; calls that are cut short between two writes
are the subject of `DbFile`.

### DbFile, Page, HeapFile, Session

`DbFile` keeps the first word of every page, because a free page's link is stored where a
page in use has data.  A step is a whole call, cut short after any of its
writes (`allocateTorn`, `disposeTorn`, `FailsEarly`).  A write of one page is all or nothing.

`Page` keeps offsets, lengths and the bytes of `data[]`, so that compaction is
modelled by what it moves.  Slot numbers are positive where the code uses
negative indices.

`HeapFile` has any number of scans, at most one insert scan in the runs, and plain
readers on one file.  `handle[h]` has the members of the object; `unsaved` is the set of
pages changed since a dirty unpin covered them; `due[h]` is a history variable, the
records a scan still owes its caller.  `scanNext` is one action: its loop over pages is
`Walk`, its outcomes are `scanFinds`, `scanEnds`, `scanRestartsEmpty` and `scanAtEof`.
`matchRec` is reduced to equality with a filter value.  Callers delete or update only a
record that scanNext returned.

`Session` has one action per command.  `OrphansAnnounced` says which command may leave
a file that relcat does not know.  Scans given back with `free()` instead
of `delete` leave their file open and their changes unreported, and the model says
so for each call site.  `RelCatalog::removeInfo` tests a Status it never set
and may fall off its end; both values are free choices in `destroyRel`.

### OpenFiles

`files[a]` is the File object at address a, `openFiles` the hash table, `frames` the
frame table as far as it names Files, `objs` the heap file objects of one run.  Opening
a name that is in the table counts (`openFound`), opening another one makes an
object at any free address (`openNew`).  `closeFile` is `~HeapFile`: the pin is given back,
`File::close` counts down, and with the last open flushes up to the first pinned frame,
whose status it ignores, then the object is deleted.  `leak` is `free()` of an
object, with its pin; `exit` is `~BufMgr` and the next start.  What the
static destructor does afterwards through the deleted buffer manager is undefined; the
model goes on as if it changed nothing in the files.  `frames[f].of` and `owed`
are history: the file a frame was filled from, and the reported changes not yet written.

### SortedFile

`tmp[k]` is the run file with number k; all objects that sort the same source share these names.
`generateRun` takes the next `MaxItems` records, in any order that the
comparison allows (qsort is not stable), and refuses a file that exists.  The constructor may fail at any
of its calls: at the source file (`sourceFails`), while a run is written, and when the
runs are opened (`startScans`; `scans` is the number that are open).  A generateRun that returns
at sort.cpp:246-261 leaves its outFile open for good; `held` has these run files, for which `destroyFile`
answers FILEOPEN in the destructor.  A scan is the index of
its record; `valid`, `rid`, `mark` are the members of RUN.  `destroy` is the
destructor, which also runs for an object that failed; since that one deletes pointers that
were never set, `crash` may end the program at any point of it, and `exit` ends it at
any other time.  `left` is history: run files that a program left when it ended.

`creates` is FALSE for the code as it stands: generateRun creates and destroys the
run file to see whether the name is free, and then opens it with an InsertFileScan, of which
sort.cpp:242 says "This will also create the temporary file."  It does not, since
`File::open` (db.cpp:199) has no O_CREAT, so that every sort of a file with records fails.  With
TRUE the model is that of the sort as it was written to work.  The
properties hold for both.

### Query

`call` holds the current call and its arguments, `pos` the positions of its loops,
`out` what it has produced.  The scans of `getInfo` and `getRelInfo` take one tuple
per step; `removeInfo` looks at the first tuple only, for ever if need be.  Both kinds of query look up
their projections, the join its two attributes too (`joinAttrs`), in attrcat, and answer ATTRNOTFOUND; opening
the result, outer or inner file may fail.  `QU_Select`
starts its loop at an index that was never set.  The nested loops
join takes one inner record per step; ints, from `-INT_MAX - 1` to `INT_MAX`, are compared by
a difference that wraps.  The join hash table is built from R and looked up for
every record of S with every hash function; `Partition` opens its files, which it
expects InsertFileScan to create, and distributes the records of R that the scan it is given has
left: startScan does not rewind a scan that has moved (`from`).  `out` has the records this call
appends; what the files held before is not looked at.

## 3. Runs

| run | instance | shows |
|---|---|---|
| `buf_contract` | 2 frames, 1 file, 3 pages, 2 clients, no faults | hash table and frames agree; pins are accounted for; BUFFEREXCEEDED only when all is pinned; refinement of `PageStore` |
| `buf_faults` | 2 frames, 3 pages, 1 client, faults | types, `HashSound`, `WriteBackSafe`, also with free lists that are lost |
| `clock_sweep` | 3 frames, pin counts to 2, every table and hand | the loop ends and equals the closed form |
| `page` | 10 bytes, slots of 2, records of 1 to 3, two tags | space adds up, no holes or overlaps, refinement of `RecordMap` |
| `db_file` | 5 pages | free list well-formed after torn calls, refinement of `FilePages` |
| `heap` | 1 scan with filter, 1 inserter, 1 reader, 2 data pages of 2 records | pins, reports, chain, completeness of scans, record count |
| `heap_shared` | 2 scans, 1 inserter, 2 data pages of 1 record | the same where scans delete and update under each other |
| `session` | 2 relations, 2 data files, 2 opens | catalogs and files fit each other across runs of the program; only a destroy that answers FILEOPEN leaves a file outside relcat |
| `open_files` | 2 names, 2 addresses, 3 objects, 3 frames, 2 pages | open counts are exact, frames name live Files of the right name, reported changes are kept, no open file is destroyed |
| `sort` | 2 objects, up to 5 records of 3 keys and 2 identities, runs of 2 | refinement of `SortCursor`; run files are kept while in use and left behind only by a generateRun that failed half way or by the program's end |
| `query` | catalog of 3 tuples, relations of up to 2 records, ints of 3 bits, 2 chains, 2 partitions | lookups, joins, hash lookups and partitions against their references; every call but one returns |

Why these bounds are enough for the cases of interest.  Two frames against
three pages force evictions with one frame pinned and with both; two clients
share a page or compete for the last frame; three pages give a free list
of two next to the protected first page.  The fault run has
one client and does not tell contents apart (Value is empty, FreeMark equals Zero), because its
invariant says nothing of who holds a pin or what a page contains, nothing in the
model depends on contents, and the proof covers all sizes.  Three frames and pin counts to 2 contain every
order of invalid, pinned, referenced and free frames around the hand.  Ten
bytes hold three records of length 1 to 3 with slots, enough for a hole with
records on both sides, and for a reused slot whose record lies behind that of
a higher slot.  Five file pages give free lists of length four.  Two data pages with
one or two records are a first page, a link and a last page; lengths 6 and 7
with 6 data bytes are the record that passes insertRecord's length test and fits nowhere, and
the one it rejects.  `MaxDrift` bounds how far refused deletions may pull
`recCnt` below the number of records, `MaxOpen` the open count of a file: opens beyond the
second change nothing that a command looks at.  Two names and two addresses let a File come back
at the address of another file; three objects are two users of one
file and one that was freed, and three frames leave a pinned frame before and
behind an unpinned one.  Five records in runs of two are three runs, the last of them
shorter, so that runs end at different times, with equal keys within and across runs;
two objects are enough for every conflict over a name.  Three catalog tuples put
one of another relation before, between and behind those of R, and removals leave holes
in front of them.  In `query` -4 and 3 are the ends of an int, so that differences
overflow, and 3 is a string without a NUL; a missing attribute, a join with itself
and a projection of a relation that is not joined are among the calls.

`SYMMETRY` is used for values, clients and objects, only in runs without
temporal properties other than action properties and refinements of `[][Next]_v`.
`CHECK_DEADLOCK FALSE` is set for `clock_sweep` alone: the loop ends.

## 4. Fairness

`ClockSweep` assumes weak fairness of `LoopNext`, and `Query` weak fairness of `Step`, the
iterations of the call that is running: both are sequential loops in which nothing
blocks.  Neither assumes that anybody makes a call.  The other specifications are safety
specifications.

## 5. Findings and known deviations

The run `session_quit` shows that what load stored is dropped by quit (load.cpp:105), and so
is a removal from relcat (catalog.cpp:233), against quit.cpp:30.

Other places where the code does not do what it or its comments say.  The models follow the
code, and the properties name the exception:

* A read that fails after `allocBuf` took a victim leaves a valid frame that is in
  no hash entry (buf.cpp:156), against buf.h:34; `HashComplete` is stated without faults.
* A page that is written after it was disposed of loses the free list (db.cpp:249-258), and a frame may
  then name page 0, which is never written back; `WriteBackSafe` excepts files whose list is lost.
* A generateRun that fails half way leaves its run file open and on disk (sort.cpp:246-261);
  `RunFilesOwned` excepts it.
* After create and load, a destroy in the same run takes the relation out of both catalogs before it answers
  FILEOPEN (destroy.cpp:40), and the next create enters it again, answers FILEEXISTS and leaves it with
  the records of the old file (heapfile.cpp:15), against heapfile.cpp:14.  `OrphansAnnounced` says
  that there is no other way to such a file.
* A second scan that deletes a record already gone counts it again (heapfile.cpp:405), so that
  getRecCnt (heapfile.h:56) is too small; `RecCntBound` says only that it is never too large.
* A scan restarted after endScan takes an empty first page for the end of the
  file and misses the records behind it (heapfile.cpp:318), against heapfile.h:83; `ScanComplete` excepts it.
* After any command that freed a catalog scan, the catalog files are still open when quit is
  done (catalog.cpp:86), against quit.cpp:18; in `OpenFiles` these are the leaked objects.
* `AttrCatalog::removeInfo` does not end when the attribute is not the first of
  its relation (catalog.cpp:510), against catalog.cpp:473; `CallsEnd` excepts it.
* Runs and partitions are opened in files that nobody created (sort.cpp:242, partition.cpp:50).
* A mark set before the first next() is the end of the file (sort.cpp:403); `SortCursor` says so.
* `QU_Select` uses a loop index it never set, refuses a NULL attribute although the
  comment at select.cpp:40 asks for an unconditional scan, and `ScanSelect` is empty.
* The hash of a string that fills its attribute reads on into the next one (joinHT.cpp:43), so that
  lookup misses records with an equal value, against joinHT.h:37; `HashLookupExact` does not demand that such
  records are found, only that none is found wrongly or twice.
* Comparisons by difference are wrong for ints that are far apart (heapfile.cpp:439, sort.cpp:30);
  `JoinExact` excepts them for the four operators they matter to, and
  `SortedFile` assumes keys without them.

The passing runs state what does hold nevertheless: after a failed read every entry of
the hash table still leads to the right frame (`HashSound`); a scan that was not
restarted onto an empty page is complete (`ScanComplete`); after a quit that
undoes half of a destroy, attribute tuples never outlive their relation
(`AttrsHaveRelation`), a relation with attribute tuples has its file
(`DescribedIsOpenable`), and no file outside relcat has come to be there (`OrphansAnnounced`).

## 6. Proofs

A run checks a small instance; the theorems hold for every value of the constants.  Each
component has an inductive invariant, `IInv` (`Query` one for each kind of call), a lemma per
action (per outcome where an action has several) and then the theorems.  The same names mean the
same things everywhere: `InitIInv`, `NextIInv`, `Invariant` (`Spec => []IInv`), `TypeCorrect`, and
`PAlways` for a property `P` that a run checks.  Every invariant, action property and refinement
that a passing run checks is stated by a theorem.

| module | theorems | inductive invariant |
|---|---|---|
| `BufMgrProofs` | `HashSoundAlways`, `WriteBackSafeAlways`, `ExceededOnlyWhenPinnedAlways`, with faults and without | TypeOK, HashSound, WriteBackSafe, FreeInRange |
| | `ContractAlways`, `HashCompleteAlways`, `PinAccountAlways`, `FreePagesIntactAlways`; `StoreRefinement`: without faults `BufMgr` implements `PageStore` | the above and, without faults, Complete, Pinned, Counted, FreeIntact, CleanFrames (together `Contract`), Linked, Resident |
| | of `ClockSweep`: `LoopMatchesClosedForm` | LoopTypes and MatchesClosedForm |
| `DbFileProofs` | `FreeListEndsAlways`, `OwnedOrFreeAlways`; `FilePagesRefinement` | TypeOK, Header, FreeList |
| `PageProofs` | `SpaceAddsAlways`, `CompactAlways`; `RecordMapRefinement` | TypeOK, SpaceAdds, SlotsSet, Disjoint, Filled, Spelt |
| `HeapFileProofs` | `PinsBalancedAlways`, `ChangesReportedAlways`, `RecCntBoundAlways` | TypeOK, Positions, PinsBalanced, ChangesReported, RecCntBound |
| | with at most one inserter `ChainCompleteAlways`, `ScanCompleteAlways` | the above, Linked and Scanning |
| `SessionProofs` | `AttrsHaveRelationAlways`, `DescribedIsOpenableAlways`, `DestroyedIsGoneAlways`, `OrphansAnnouncedAlways` | types, CleanCatalogs, OpenExists, AttrsHaveRelation, DescribedIsOpenable |
| `OpenFilesProofs` | `OpenCntExactAlways`, `FramesNameTheirFileAlways`, `ReportedKeptAlways`, `OpenFileExistsAlways` | types, Table, Pins, FramesNameTheirFile, ReportedKept |
| `SortedFileProofs` | `RunFilesKeptAlways`, `RunFilesOwnedAlways`; `SortCursorRefinement`: the merge implements `SortCursor` | Types, OneBuilder, SorterOK of every object, RunFilesOwned |
| `QueryProofs` | `DataInvariant` | DataOK |
| | `LookupsExactAlways` | DataOK, getInfoOK, getRelInfoOK |
| | `JoinExactAlways` | DataOK, JoinOK |
| | `HashLookupExactAlways` | DataOK, HashOK |
| | `PartitionExactAlways` | DataOK, PartitionOK |

Why the strengthenings are needed, and along which argument each proof goes:

* `BufMgr`, with faults.  When the clock takes a victim, it removes the hash entry of the
  page the frame names.  That no other entry leads to that frame is `HashSound` itself; that
  the frame names an open file and an existing page, so that there is an entry to remove at
  all, is `WriteBackSafe`.  Nothing is assumed of a free list that is lost: `allocatePage` may give any
  page of the file, and a frame of page 0 is excepted for such a file only.  That a list which is
  not lost never gives page 0 is `FreeInRange`.  `flushFile`'s last frame is the least one that stops it.
  `ExceededOnlyWhenPinned` follows from the closed form of the clock alone: in two rounds
  every unpinned frame is met once with its reference bit off.
* `BufMgr`, without faults.  Lookup and frame table are inverse (`Mirror`, from HashSound and
  Complete), so that what an eviction or flush does can be said per page.  The pin counts are
  cardinalities, each step of a client adding or removing one element.  `CleanFrames` is what
  the refinement needs beyond the properties: a frame that is dropped without being written
  equals its page on disk, unless a client wrote it and has not reported that yet.  No
  list is lost (`Linked`): what is written back is a page in the pool, `FreeIntact` says
  that such a page is not free, and only a page in use by the caller is disposed of.  `Resident`
  keeps the pool inside the file, so that a page newly appended to it is not in the pool.  The
  refinement has one lemma per action of `BufMgr`, naming the step of `PageStore` it is.
* `ClockSweep`.  The closed form is itself inductive over the iterations; the work is the
  arithmetic of the hand modulo the number of frames, for at most two rounds.
* `DbFile`.  The properties speak of `Chain`, which follows the links.  `FreeList` says instead
  that some finite sequence of distinct pages, none of them owned, has these links; a call,
  complete or torn, takes its head off, puts one in front, or leaves it.  `ChainIs` then shows,
  by the least place where they could differ, that `Chain` computes that sequence.
* `Page`.  `Compact` counts records per byte; `deleteRecord` moves all offsets behind a hole,
  for which intervals are needed: `Disjoint` and `Filled`.  `Spelt` says that the bytes of a
  slot are those of one record, so that the refinement mapping is well defined.
* `HeapFile`.  `Positions` ties `curPage` to `curPageNo` for every object, and says that pages
  beyond `pageCnt` are untouched and links stay in the file.  An action is seen as a turn of
  one object (`Turns`): it exchanges its old pins for its new ones, and what it no longer
  reports is not unsaved.  That `insertRecord` finds a free slot when `Fits` says so is counted
  in `SlotLeft`.  For scans, `Linked` says that pages are linked in the order of their
  numbers, so that `Walk` can be computed (`WalkIs`), and `Scanning` that each record due
  matches the filter and lies ahead of the scan; then it is a hit on a page that `scanNext`
  comes to (`DueIsHit`), and the end of the file is reached with nothing due.
* `Session`.  The properties speak of what a quit would restore; `CleanCatalogs` says how the
  catalogs in memory and on disk are related while their pages are not reported as dirty.
* `OpenFiles`.  `closeFile` ignores what `flushFile` returns.  At the last close this is
  harmless because nobody then has a page of the file pinned, which the exact pin counts of
  `Pins` say; hence no frame keeps the address of the deleted File.
* `SortedFile`.  `IsRun` says which stretch of the source a run file holds, in which order; run
  k of every object that sorts the file is therefore about the same stretch, and two
  objects can never both have it, because the second finds the file there.  `BuildingOK` says that a constructor has
  read exactly what its runs hold, so that at its end they hold everything (`RunFilesKept`).
  For the refinement, `RunOK` ties position, RID, mark and valid bit of a run to each other:
  what is still to come of a sorted run begins at its current record, the least of these records is
  the least of all that remain, and after `gotoMark` the runs stand where `setMark` saw them.
* `Query`.  What one call leaves behind is nothing (`DataOK`), so that each kind of call has an
  invariant of its own over the positions of its loops, and a lemma (`getInfoSteps`, ...) that says
  which steps concern it.
  `getRelInfo` writes every tuple to the same place until one is the relation's: the places behind
  `amount` hold the relation's tuples among the slots passed, and as many as there are.
  The join has counted, for each output record, the satisfying pairs that its scans have reached
  (`Counted`, `Reached`); `MatchExact` shows that turning the operator round and comparing
  a wrapped difference with 0 decides the comparison asked for.
  A chain of the hash table holds exactly the records read so far with its hash (`ChainOK`), and
  `lookup`, a recursive function, is evaluated by the least place where it could go
  wrong (`SomeCollects`, `CollectsGot`).  A partition is described as a chain is.

Hypotheses.  `StoreRefinement` and the properties of a pool without faults are under
`~Faults`.  `ChainCompleteAlways` and `ScanCompleteAlways` are under `OneInserter`, at most one
InsertFileScan on the file: two of them on the same full page would each link
a new page to it, and the second link would hide the first page.  No code of the program
inserts through two at a time (section 8).

Assumptions on the constants, each checked by TLC on every run that uses it: at least one frame and
one page; the values that stand for nothing (`NoFile`, `NULL`, `NoRecord`, `NoVal`) are none of
the things they stand against; there are finitely many clients (`BufMgrAssumption`)
and objects (`OpenFilesAssumption`, `HeapFileAssumption`), since pins are counted; in `HeapFile`
an object has one class, and a record of another length than the relation's does not fit on a page.
In `SortedFile` a run has at least two records (`MaxItems >= 2`, which sort.cpp:116 demands), keys
differ by at most `INT_MAX`, since with others the comparison is no order, and `NoRun` and `NoMark` are no runs and
no marks (`AbsentAssumption`).  In `Query` (`QueryAssumption`) keys are ints and names in catalog and
projections are attributes of R and S.

The inductive invariants of `OpenFiles` and `HeapFile` were first checked with TLC on the instances of
their runs.

## 7. Only model-checked

* `Returns` and `CallsEnd`: liveness is out of the prover's reach.
  What they rest on is proved: `LoopMatchesClosedForm` bounds the loop of `allocBuf` by two rounds,
  and the positions in the invariants of `Query` stay within their relations.

Nothing else: every safety property of a passing run is also a theorem.  `session_quit` shows a
violation, which only a run can.

## 8. Not modelled

* Chains and hash functions of `BufHashTbl` and `OpenFileHashTbl`: they appear as functions.  The pointer
  cast in `BufHashTbl::hash` is implementation defined.
* Calls that fail inside heap file operations, and in the sort's `next` and `gotoMark`: the constructor answers OK after a failed
  read (heapfile.cpp:111) and uses a pointer it never set, so that what follows is undefined.
* A call of `File` cut short between two writes, seen by the buffer manager: `DbFile` and `BufMgr` are
  not composed.
* Two insert scans on one file at a time; no code has two that it still inserts through.
* What `~OpenFileHashTbl` does through the buffer manager that quit deleted (db.cpp:33).
* `QU_Insert` and `QU_Delete`, which only return OK; join.cpp's `matchRec`, which has no caller;
  `~Partition`; a sort with invalid parameters.
* Float and string keys in sorts and joins; NaN makes neither comparison an order.
* The end of minirel's input without quit, after which nothing is written back.
* Partial writes of a page, printing, statistics, error messages, the parser
  (not in the repository), dbdestroy.

## 9. Plan

1. Done: all modules of section 2, and the proofs of section 6.
2. What is left is in section 8; of it, failing I/O inside heap file operations would say most, once the
   constructor of HeapFile reports a failed read instead of going on with a pointer it never set.
