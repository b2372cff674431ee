----------------------------- MODULE OpenFiles -----------------------------
(***************************************************************************)
(* The table of open files (db.h, db.cpp: DB, OpenFileHashTbl, File::open, *)
(* File::close) under the objects that use it (heapfile.cpp) and over the  *)
(* buffer pool, whose frames name the File a page belongs to by the        *)
(* address of its File object.                                             *)
(*                                                                         *)
(* A File object is created by the first openFile of a name and deleted by *)
(* the last closeFile; new may then put another file's object at the same  *)
(* address.  Catalog and query code gives many of its scans back with      *)
(* free(), so that they are never closed.                                  *)
(*                                                                         *)
(* Of the two pins of a heap file object (header and data page) the model  *)
(* keeps one.  The name-to-bucket hash is abstracted to a function.  Reads *)
(* and writes succeed, and objects are used only while a frame is free.    *)
(***************************************************************************)
EXTENDS Integers, FiniteSets, FiniteSetsExt

CONSTANTS Name,         \* file names
          Addr,         \* addresses that new File can return
          NULL,         \* the null pointer
          Obj,          \* heap file objects of one run of the program
          NumFrames,    \* frames of the buffer pool
          PageNo        \* pages of a file that objects pin

ASSUME OpenFilesAssumption ==
  /\ NULL \notin Addr /\ NumFrames \in Nat \ {0}
  /\ IsFiniteSet(Obj) /\ PageNo \subseteq Nat \ {0}

Frame == 1 .. NumFrames
NoPage == 0

VARIABLES unix,         \* names of the Unix files that exist
          files,        \* files[a]: the File object at address a; openCnt 0: none
          openFiles,    \* openFiles[n]: the File in the hash table, or NULL
          frames,       \* frames[f]: the BufDesc of frame f; file NULL: not valid
          objs,         \* objs[o]: [file, page, state]
          owed          \* history: pages with reported changes not yet written

vars == <<unix, files, openFiles, frames, objs, owed>>

NoFile == [name |-> NULL, openCnt |-> 0]
NoFrame == [file |-> NULL, page |-> NoPage, pinCnt |-> 0, dirty |-> FALSE, of |-> NULL]
NoObj == [file |-> NULL, page |-> NoPage, state |-> "none"]

Init ==
  /\ unix = {}
  /\ files = [a \in Addr |-> NoFile]
  /\ openFiles = [n \in Name |-> NULL]
  /\ frames = [f \in Frame |-> NoFrame]
  /\ objs = [o \in Obj |-> NoObj]
  /\ owed = {}

-----------------------------------------------------------------------------
(***************************************************************************)
(* The buffer pool, as far as it looks at File pointers.  frames[f].of is  *)
(* history: the name of the file whose page the frame was filled with.     *)
(***************************************************************************)
\* The pages that writing frames F puts in their place: a frame is written
\* through the File at its address, whatever file that is by now.
WrittenBy(F) ==
  {[name |-> files[frames[f].file].name, page |-> frames[f].page] :
     f \in {g \in F : frames[g].dirty /\ files[frames[g].file].name = frames[g].of}}

\* BufHashTbl::lookup of page p of the File at address a.
Cached(a, p) == {f \in Frame : frames[f].file = a /\ frames[f].page = p}

\* readPage of page p into a frame; a victim is written back if it is dirty.
readPage(o, p) ==
  LET a == objs[o].file
  IN  /\ objs[o].state = "open" /\ objs[o].page = NoPage
      /\ objs' = [objs EXCEPT ![o].page = p]
      /\ \/ \E f \in Cached(a, p) :
              /\ frames' = [frames EXCEPT ![f].pinCnt = @ + 1]
              /\ UNCHANGED owed
         \/ \E f \in Frame :
              /\ Cached(a, p) = {} /\ frames[f].pinCnt = 0
              /\ owed' = owed \ WrittenBy({f})
              /\ frames' = [frames EXCEPT ![f] =
                              [file |-> a, page |-> p, pinCnt |-> 1, dirty |-> FALSE,
                               of |-> files[a].name]]
      /\ UNCHANGED <<unix, files, openFiles>>

\* The frames after o gave back the pin it has, if any, with a dirty flag.
UnPinned(o, dirty) ==
  LET c == Cached(objs[o].file, objs[o].page)
  IN  [f \in Frame |-> IF f \in c
                       THEN [frames[f] EXCEPT !.pinCnt = @ - 1, !.dirty = @ \/ dirty]
                       ELSE frames[f]]

Reports(o, dirty) ==
  IF dirty /\ objs[o].page # NoPage
  THEN {[name |-> files[objs[o].file].name, page |-> objs[o].page]} ELSE {}

\* A scan moves on or ends: unPinPage, with the scan's dirty flag.
unPinPage(o, dirty) ==
  /\ objs[o].state = "open" /\ objs[o].page # NoPage
  /\ frames' = UnPinned(o, dirty)
  /\ owed' = owed \cup Reports(o, dirty)
  /\ objs' = [objs EXCEPT ![o].page = NoPage]
  /\ UNCHANGED <<unix, files, openFiles>>

\* Mutant: nothing is flushed.
FlushesNone(a, fr) == {}

\* flushFile writes and clears the frames of the File at address a, up to the
\* first one that is pinned.  fr: the frames it finds.
Flushes(a, fr) ==
  LET mine == {f \in Frame : fr[f].file = a}
      pinned == {f \in mine : fr[f].pinCnt > 0}
  IN  {f \in mine : \A g \in pinned : f < g}

-----------------------------------------------------------------------------
\* DB::createFile: refused (FILEEXISTS) for a file that is open or exists.
createFile(n) ==
  /\ openFiles[n] = NULL /\ n \notin unix
  /\ unix' = unix \cup {n}
  /\ UNCHANGED <<files, openFiles, frames, objs, owed>>

\* Mutant: the file may be open.
mayDestroyAny(n) == TRUE

mayDestroy(n) == openFiles[n] = NULL

\* DB::destroyFile: refused (FILEOPEN) for an open file.
destroyFile(n) ==
  /\ mayDestroy(n) /\ n \in unix
  /\ unix' = unix \ {n}
  /\ UNCHANGED <<files, openFiles, frames, objs, owed>>

\* Mutant: an open File is not counted again.
openUncounted(n, a) == a = openFiles[n] /\ UNCHANGED <<files, openFiles>>

\* DB::openFile of a file in the table.
openFound(n, a) ==
  /\ a = openFiles[n]
  /\ files' = [files EXCEPT ![a].openCnt = @ + 1]
  /\ UNCHANGED openFiles

\* DB::openFile of another file: a new File object, on an existing Unix file.
openNew(n, a) ==
  /\ openFiles[n] = NULL
  /\ files[a].openCnt = 0 /\ n \in unix
  /\ files' = [files EXCEPT ![a] = [name |-> n, openCnt |-> 1]]
  /\ openFiles' = [openFiles EXCEPT ![n] = a]

\* A heap file object is constructed.
openFile(o, n) ==
  /\ objs[o].state = "none"
  /\ \E a \in Addr :
       /\ openFound(n, a) \/ openNew(n, a)
       /\ objs' = [objs EXCEPT ![o] = [file |-> a, page |-> NoPage, state |-> "open"]]
  /\ UNCHANGED <<unix, frames, owed>>

\* Mutant: ~HeapFile closes the file and then unpins its page.
PinnedStill(o, dirty) == frames

\* The frames closeFile finds: ~HeapFile has given back its pin.
BeforeClose(o, dirty) == UnPinned(o, dirty)

\* File::close counts down; with the last open the File is deleted.
closed(a) ==
  [files EXCEPT ![a] = IF @.openCnt > 1
                       THEN [name |-> @.name, openCnt |-> @.openCnt - 1] ELSE NoFile]

erased(n) == [openFiles EXCEPT ![n] = NULL]

(***************************************************************************)
(* ~HeapFile: unPinPage, then DB::closeFile, which deletes the File with   *)
(* its last open.  The status of flushFile is ignored.                     *)
(***************************************************************************)
closeFile(o, dirty) ==
  LET a == objs[o].file
      n == files[a].name
      fr == BeforeClose(o, dirty)
      flushed == Flushes(a, fr)
      reported == owed \cup Reports(o, dirty)
  IN  /\ objs[o].state = "open"
      /\ objs' = [objs EXCEPT ![o] = NoObj]
      /\ files' = closed(a)
      /\ \/ /\ files[a].openCnt > 1
            /\ frames' = fr
            /\ owed' = reported
            /\ UNCHANGED openFiles
         \/ /\ files[a].openCnt = 1
            /\ frames' = [f \in Frame |-> IF f \in flushed THEN NoFrame ELSE fr[f]]
            /\ owed' = reported \ {[name |-> n, page |-> fr[f].page] :
                                     f \in {g \in flushed : fr[g].dirty /\ fr[g].of = n}}
            /\ openFiles' = erased(n)
      /\ UNCHANGED unix

\* free() of an object, with or without a page pinned: no destructor runs.
leak(o) ==
  /\ objs[o].state = "open"
  /\ objs' = [objs EXCEPT ![o].state = "leaked"]
  /\ UNCHANGED <<unix, files, openFiles, frames, owed>>

\* The end of a run, and the next one: ~BufMgr writes every dirty frame, pinned
\* or not.  The files still in the table are closed after it, with calls of a
\* bufMgr that was deleted: that is undefined, and here it has no effect.
exit ==
  /\ \A o \in Obj : objs[o].state # "open"
  /\ owed' = owed \ WrittenBy(Frame)
  /\ files' = [a \in Addr |-> NoFile]
  /\ openFiles' = [n \in Name |-> NULL]
  /\ frames' = [f \in Frame |-> NoFrame]
  /\ objs' = [o \in Obj |-> NoObj]
  /\ UNCHANGED unix

Next ==
  \/ \E n \in Name : createFile(n) \/ destroyFile(n) \/ \E o \in Obj : openFile(o, n)
  \/ \E o \in Obj :
       \/ \E p \in PageNo : readPage(o, p)
       \/ \E dirty \in BOOLEAN : unPinPage(o, dirty) \/ closeFile(o, dirty)
       \/ leak(o)
  \/ exit

Spec == Init /\ [][Next]_vars

-----------------------------------------------------------------------------
Live == {a \in Addr : files[a].openCnt > 0}
OpenOn(a) == {o \in Obj : objs[o].state # "none" /\ objs[o].file = a}

\* The open count of a File is the number of objects, leaked ones included, that
\* opened it, and each open Unix file has exactly one File object, the one in
\* openFiles: closeFile deletes no File that an object still uses, and no page is
\* cached under two addresses.
OpenCntExact ==
  /\ \A a \in Addr : files[a].openCnt = Cardinality(OpenOn(a))
  /\ \A a \in Live : openFiles[files[a].name] = a
  /\ \A n \in Name : openFiles[n] # NULL => openFiles[n] \in Live /\ files[openFiles[n]].name = n

\* A valid frame names a File that is still there and is the file its page
\* was read from, although File::close ignores what flushFile returns and
\* addresses are used again: no write-back goes through a deleted File or
\* into another file.
FramesNameTheirFile ==
  \A f \in Frame : frames[f].file # NULL =>
    frames[f].file \in Live /\ files[frames[f].file].name = frames[f].of

\* A change that some unpin reported is in the Unix file or in a dirty frame of
\* an open file, through closes, reopens, evictions and exits: the last close
\* loses nothing, and a file is not removed under its cached changes.
ReportedKept ==
  \A x \in owed : x.name \in unix /\
    \E f \in Frame : frames[f].dirty /\ frames[f].of = x.name /\ frames[f].page = x.page

\* A file that is open exists: destroyFile removes no file under its users, so
\* that what they write is found by the next open of that name.
OpenFileExists == \A a \in Live : files[a].name \in unix
=============================================================================
