-------------------------- MODULE OpenFilesProofs --------------------------
(***************************************************************************)
(* Invariance proofs about OpenFiles, for any set of names, addresses,     *)
(* objects, frames and pages.                                              *)
(***************************************************************************)
EXTENDS OpenFiles, FiniteSetTheorems, TLAPS

Typed ==
  /\ unix \subseteq Name
  /\ files \in [Addr -> [name : Name \cup {NULL}, openCnt : Nat]]
  /\ openFiles \in [Name -> Addr \cup {NULL}]
  /\ frames \in [Frame -> [file : Addr \cup {NULL}, page : PageNo \cup {NoPage},
                           pinCnt : Int, dirty : BOOLEAN, of : Name \cup {NULL}]]
  /\ objs \in [Obj -> [file : Addr \cup {NULL}, page : PageNo \cup {NoPage},
                       state : {"none", "open", "leaked"}]]
  /\ owed \subseteq [name : Name, page : PageNo]

\* The table of open files, and the objects that count in it.
Table ==
  /\ OpenCntExact
  /\ OpenFileExists
  /\ \A a \in Live : files[a].name \in Name
  /\ \A o \in Obj : objs[o].state # "none" => objs[o].file \in Addr

\* The objects, leaked ones included, that have page p of the File at a pinned.
PinOn(a, p) == {o \in Obj : objs[o].state # "none" /\ objs[o].file = a /\ objs[o].page = p}

\* The pin counts of the frames are exact, a pinned page is in the pool, and no
\* page is there twice.  closeFile ignores what flushFile returns; that this is
\* harmless at the last close rests on these counts.
Pins ==
  /\ \A f \in Frame :
       IF frames[f].file = NULL THEN ~frames[f].dirty /\ frames[f].pinCnt = 0
       ELSE /\ frames[f].page \in PageNo
            /\ frames[f].pinCnt = Cardinality(PinOn(frames[f].file, frames[f].page))
  /\ \A f, g \in Frame :
       /\ frames[f].file # NULL
       /\ frames[f].file = frames[g].file /\ frames[f].page = frames[g].page
       => f = g
  /\ \A o \in Obj : objs[o].state # "none" /\ objs[o].page # NoPage =>
       \E f \in Frame : frames[f].file = objs[o].file /\ frames[f].page = objs[o].page

\* The inductive invariant.
IInv == Typed /\ Table /\ Pins /\ FramesNameTheirFile /\ ReportedKept

-----------------------------------------------------------------------------
\* Counting objects.
LEMMA ObjSets ==
  ASSUME NEW T \in SUBSET Obj
  PROVE  /\ IsFiniteSet(T) /\ Cardinality(T) \in Nat
         /\ \A x : x \notin T => Cardinality(T \cup {x}) = Cardinality(T) + 1
         /\ \A x : x \in T => Cardinality(T \ {x}) = Cardinality(T) - 1
<1>1. IsFiniteSet(T)
  BY OpenFilesAssumption, FS_Subset
<1> QED
  BY <1>1, FS_CardinalityType, FS_AddElement, FS_RemoveElement

LEMMA EmptyCount == Cardinality({}) = 0 /\ \A T \in SUBSET Obj : Cardinality(T) = 0 => T = {}
<1>1. \A T \in SUBSET Obj : IsFiniteSet(T)
  BY ObjSets
<1> QED
  BY <1>1, FS_EmptySet

LEMMA Nulls == NULL \notin Addr /\ NoPage \notin PageNo /\ NumFrames \in Nat
BY OpenFilesAssumption DEF NoPage

LEMMA InitIInv == Init => IInv
<1> SUFFICES ASSUME Init PROVE IInv
  OBVIOUS
<1>1. Typed
  BY DEF Init, Typed, NoFile, NoFrame, NoObj
<1>2. Live = {} /\ \A a \in Addr : OpenOn(a) = {}
  BY DEF Init, Live, OpenOn, NoFile, NoObj
<1>3. \A a \in Addr : files[a].openCnt = Cardinality(OpenOn(a))
  BY <1>2, EmptyCount DEF Init, NoFile
<1>4. Table
  BY <1>2, <1>3 DEF Init, Table, OpenCntExact, OpenFileExists, NoObj
<1>5. Pins
  BY DEF Init, Pins, NoFrame, NoObj
<1> QED
  BY <1>1, <1>4, <1>5 DEF Init, IInv, FramesNameTheirFile, ReportedKept, NoFrame

-----------------------------------------------------------------------------
\* What the invariant says of one object, one File and one frame.
LEMMA LiveIsOpen ==
  ASSUME IInv, NEW a \in Live
  PROVE  a \in Addr /\ files[a].name \in unix /\ files[a].name \in Name
         /\ openFiles[files[a].name] = a
BY DEF IInv, Table, OpenCntExact, OpenFileExists, Live

LEMMA ObjIsLive ==
  ASSUME IInv, NEW o \in Obj, objs[o].state # "none"
  PROVE  objs[o].file \in Live /\ o \in OpenOn(objs[o].file)
<1>1. objs[o].file \in Addr
  BY DEF IInv, Table
<1>2. PICK a \in Addr : a = objs[o].file
  BY <1>1
<1>3. o \in OpenOn(a) /\ OpenOn(a) \in SUBSET Obj
  BY <1>2 DEF OpenOn
<1>4. files[a].openCnt = Cardinality(OpenOn(a)) /\ files[a].openCnt \in Nat
  BY <1>2 DEF IInv, Table, OpenCntExact, Typed
<1>5. Cardinality(OpenOn(a)) # 0
  BY <1>3, EmptyCount
<1> QED
  BY <1>2, <1>3, <1>4, <1>5 DEF Live

\* A step of the table that opens, closes and reopens nothing.
Keeps ==
  /\ UNCHANGED <<files, openFiles>>
  /\ \A o \in Obj : /\ objs'[o].state = "none" <=> objs[o].state = "none"
                    /\ objs'[o].file = objs[o].file

LEMMA KeepsTable ==
  ASSUME IInv, Keeps, \A a \in Live : files[a].name \in unix'
  PROVE  Table'
<1>1. \A a \in Addr : OpenOn(a)' = OpenOn(a)
  BY DEF Keeps, OpenOn
<1>2. Live' = Live
  BY DEF Keeps, Live
<1>3. OpenCntExact'
  BY <1>1, <1>2 DEF Keeps, IInv, Table, OpenCntExact
<1>4. OpenFileExists' /\ \A a \in Live' : files'[a].name \in Name
  BY <1>2 DEF Keeps, IInv, Table, OpenFileExists
<1>5. \A o \in Obj : objs'[o].state # "none" => objs'[o].file \in Addr
  BY DEF Keeps, IInv, Table
<1> QED
  BY <1>3, <1>4, <1>5 DEF Table

\* Steps that leave pool and objects alone.
LEMMA SamePool ==
  ASSUME IInv, UNCHANGED <<files, frames, objs>>
  PROVE  Pins' /\ FramesNameTheirFile'
<1>1. \A a, p : PinOn(a, p)' = PinOn(a, p)
  BY DEF PinOn
<1>2. Pins'
  BY <1>1 DEF IInv, Pins
<1> QED
  BY <1>2 DEF IInv, FramesNameTheirFile, Live

LEMMA createFileIInv == ASSUME IInv, NEW n \in Name, createFile(n) PROVE IInv'
<1>1. unix' = unix \cup {n} /\ UNCHANGED <<files, openFiles, frames, objs, owed>>
  BY DEF createFile
<1>2. Table'
  <2>1. Keeps
    BY <1>1 DEF Keeps
  <2>2. \A a \in Live : files[a].name \in unix'
    BY <1>1, LiveIsOpen
  <2> QED
    BY <2>1, <2>2, KeepsTable
<1>3. Pins' /\ FramesNameTheirFile'
  BY <1>1, SamePool
<1>4. Typed' /\ ReportedKept'
  BY <1>1 DEF IInv, Typed, ReportedKept
<1> QED
  BY <1>2, <1>3, <1>4 DEF IInv

\* destroyFile: a file with reported changes in the pool is open.
LEMMA destroyFileIInv == ASSUME IInv, NEW n \in Name, destroyFile(n) PROVE IInv'
<1>1. openFiles[n] = NULL /\ unix' = unix \ {n}
      /\ UNCHANGED <<files, openFiles, frames, objs, owed>>
  BY DEF destroyFile, mayDestroy
<1>2. \A a \in Live : files[a].name \in unix'
  BY <1>1, LiveIsOpen, Nulls
<1>3. Table'
  BY <1>1, <1>2, KeepsTable DEF Keeps
<1>4. ReportedKept'
  <2>1. ASSUME NEW x \in owed PROVE x.name # n
    <3>1. PICK f \in Frame : frames[f].dirty /\ frames[f].of = x.name
      BY <2>1 DEF IInv, ReportedKept
    <3>2. frames[f].file # NULL
      BY <3>1 DEF IInv, Pins
    <3>3. frames[f].file \in Live /\ files[frames[f].file].name = x.name
      BY <3>1, <3>2 DEF IInv, FramesNameTheirFile
    <3> QED
      BY <1>1, <1>2, <3>3
  <2> QED
    BY <1>1, <2>1 DEF IInv, ReportedKept
<1>5. Pins' /\ FramesNameTheirFile'
  BY <1>1, SamePool
<1>6. Typed'
  BY <1>1 DEF IInv, Typed
<1> QED
  BY <1>3, <1>4, <1>5, <1>6 DEF IInv

LEMMA leakIInv == ASSUME IInv, NEW o \in Obj, leak(o) PROVE IInv'
<1>1. /\ objs' = [objs EXCEPT ![o].state = "leaked"] /\ objs[o].state = "open"
      /\ UNCHANGED <<unix, files, openFiles, frames, owed>>
  BY DEF leak
<1>2. \A q \in Obj : /\ objs'[q].state = "none" <=> objs[q].state = "none"
                     /\ objs'[q].file = objs[q].file /\ objs'[q].page = objs[q].page
  BY <1>1 DEF IInv, Typed
<1>3. Table'
  BY <1>1, <1>2, LiveIsOpen, KeepsTable DEF Keeps
<1>4. \A a, p : PinOn(a, p)' = PinOn(a, p)
  BY <1>2 DEF PinOn
<1>5. Pins'
  BY <1>1, <1>2, <1>4 DEF IInv, Pins
<1>6. Typed'
  BY <1>1 DEF IInv, Typed
<1>7. FramesNameTheirFile' /\ ReportedKept'
  BY <1>1 DEF IInv, FramesNameTheirFile, ReportedKept, Live
<1> QED
  BY <1>3, <1>5, <1>6, <1>7 DEF IInv

-----------------------------------------------------------------------------
(***************************************************************************)
(* openFile.                                                               *)
(***************************************************************************)

\* One more object on the File at a.
LEMMA Counts ==
  ASSUME NEW o \in Obj, NEW a \in Addr, IInv, objs[o].state = "none",
         objs' = [objs EXCEPT ![o] = [file |-> a, page |-> NoPage, state |-> "open"]]
  PROVE  /\ Cardinality(OpenOn(a)') = files[a].openCnt + 1
         /\ \A b \in Addr : b # a => Cardinality(OpenOn(b)') = files[b].openCnt
         /\ \A b : \A p \in PageNo : PinOn(b, p)' = PinOn(b, p)
         /\ \A q \in Obj : objs'[q] = IF q = o THEN [file |-> a, page |-> NoPage, state |-> "open"]
                                      ELSE objs[q]
<1>1. \A q \in Obj : objs'[q] = IF q = o THEN [file |-> a, page |-> NoPage, state |-> "open"]
                                ELSE objs[q]
  BY DEF IInv, Typed
<1>2. OpenOn(a)' = OpenOn(a) \cup {o} /\ o \notin OpenOn(a) /\ OpenOn(a) \in SUBSET Obj
  BY <1>1 DEF OpenOn
<1>3. \A b \in Addr : files[b].openCnt = Cardinality(OpenOn(b))
  BY DEF IInv, Table, OpenCntExact
<1>4. \A b \in Addr : b # a => OpenOn(b)' = OpenOn(b)
  BY <1>1 DEF OpenOn
<1>5. \A b : \A p \in PageNo : PinOn(b, p)' = PinOn(b, p)
  BY <1>1, Nulls DEF PinOn
<1>6. Cardinality(OpenOn(a) \cup {o}) = Cardinality(OpenOn(a)) + 1
  BY <1>2, ObjSets
<1> QED
  BY <1>1, <1>2, <1>3, <1>4, <1>5, <1>6

LEMMA openFileIInv == ASSUME IInv, NEW o \in Obj, NEW n \in Name, openFile(o, n) PROVE IInv'
<1>1. PICK a \in Addr :
        /\ openFound(n, a) \/ openNew(n, a)
        /\ objs' = [objs EXCEPT ![o] = [file |-> a, page |-> NoPage, state |-> "open"]]
  BY DEF openFile
<1>2. objs[o].state = "none" /\ UNCHANGED <<unix, frames, owed>>
  BY DEF openFile
<1>3. /\ Cardinality(OpenOn(a)') = files[a].openCnt + 1
      /\ \A b \in Addr : b # a => Cardinality(OpenOn(b)') = files[b].openCnt
      /\ \A b : \A p \in PageNo : PinOn(b, p)' = PinOn(b, p)
      /\ \A q \in Obj : objs'[q] = IF q = o THEN [file |-> a, page |-> NoPage, state |-> "open"]
                                   ELSE objs[q]
  BY <1>1, <1>2, Counts
<1>4. Pins'
  BY <1>2, <1>3 DEF IInv, Pins
<1>5. ReportedKept'
  BY <1>2 DEF IInv, ReportedKept
<1>6. files \in [Addr -> [name : Name \cup {NULL}, openCnt : Nat]] /\ openFiles \in [Name -> Addr \cup {NULL}]
  BY DEF IInv, Typed
<1>7. \A q \in Obj : objs'[q].state # "none" => objs'[q].file \in Addr
  BY <1>3 DEF IInv, Table
<1>8. /\ \A b \in Addr : files[b].openCnt = Cardinality(OpenOn(b))
      /\ \A b \in Live : openFiles[files[b].name] = b /\ files[b].name \in unix
                         /\ files[b].name \in Name
      /\ \A m \in Name : openFiles[m] # NULL =>
           openFiles[m] \in Live /\ files[openFiles[m]].name = m
  BY DEF IInv, Table, OpenCntExact, OpenFileExists
<1>9. CASE openFound(n, a)
  <2>1. a = openFiles[n] /\ files' = [files EXCEPT ![a].openCnt = @ + 1] /\ openFiles' = openFiles
    BY <1>9 DEF openFound
  <2>2. \A b \in Addr : /\ files'[b].name = files[b].name
                        /\ files'[b].openCnt = IF b = a THEN files[b].openCnt + 1 ELSE files[b].openCnt
    BY <1>6, <2>1
  <2>3. a \in Live
    BY <1>8, <2>1, Nulls
  <2>4. Live' = Live
    BY <1>6, <2>2, <2>3 DEF Live
  <2>5. OpenCntExact'
    BY <1>3, <1>8, <2>1, <2>2, <2>4, Nulls DEF OpenCntExact, Live
  <2>6. Table'
    BY <1>2, <1>7, <1>8, <2>2, <2>4, <2>5 DEF Table, OpenFileExists, Live
  <2>7. FramesNameTheirFile'
    BY <1>2, <2>2, <2>4 DEF IInv, FramesNameTheirFile, Live
  <2>8. Typed'
    BY <1>1, <1>2, <2>1 DEF IInv, Typed
  <2> QED
    BY <1>4, <1>5, <2>6, <2>7, <2>8 DEF IInv
<1>10. CASE openNew(n, a)
  <2>1. /\ openFiles[n] = NULL /\ files[a].openCnt = 0 /\ n \in unix
        /\ files' = [files EXCEPT ![a] = [name |-> n, openCnt |-> 1]]
        /\ openFiles' = [openFiles EXCEPT ![n] = a]
    BY <1>10 DEF openNew
  <2>2. \A b \in Addr : files'[b] = IF b = a THEN [name |-> n, openCnt |-> 1] ELSE files[b]
    BY <1>6, <2>1
  <2>3. a \notin Live
    BY <2>1 DEF Live
  <2>4. Live' = Live \cup {a} /\ Live \subseteq Addr
    BY <2>2 DEF Live
  <2>5. \A m \in Name : openFiles'[m] = IF m = n THEN a ELSE openFiles[m]
    BY <1>6, <2>1
  <2>6. \A b \in Addr : files'[b].openCnt = Cardinality(OpenOn(b)')
    BY <1>3, <2>1, <2>2
  <2>7. \A b \in Live' : /\ openFiles'[files'[b].name] = b /\ files'[b].name \in unix'
                         /\ files'[b].name \in Name
    <3>1. \A b \in Live : files[b].name # n
      BY <1>8, <2>1, <2>4, Nulls
    <3> QED
      BY <1>2, <1>8, <2>1, <2>2, <2>3, <2>4, <2>5, <3>1
  <2>8. \A m \in Name : openFiles'[m] # NULL =>
          openFiles'[m] \in Live' /\ files'[openFiles'[m]].name = m
    BY <1>8, <2>2, <2>3, <2>4, <2>5
  <2>9. Table'
    BY <1>7, <2>6, <2>7, <2>8 DEF Table, OpenCntExact, OpenFileExists
  <2>10. FramesNameTheirFile'
    <3>1. \A f \in Frame : frames[f].file # NULL =>
            frames[f].file \in Live /\ files[frames[f].file].name = frames[f].of
      BY DEF IInv, FramesNameTheirFile
    <3> QED
      BY <1>2, <2>2, <2>3, <2>4, <3>1 DEF FramesNameTheirFile
  <2>11. Typed'
    BY <1>1, <1>2, <2>1 DEF IInv, Typed
  <2> QED
    BY <1>4, <1>5, <2>9, <2>10, <2>11 DEF IInv
<1> QED
  BY <1>1, <1>9, <1>10

-----------------------------------------------------------------------------
(***************************************************************************)
(* readPage.                                                               *)
(***************************************************************************)
FrameRec == [file : Addr \cup {NULL}, page : PageNo \cup {NoPage}, pinCnt : Int,
             dirty : BOOLEAN, of : Name \cup {NULL}]

LEMMA readPageIInv == ASSUME IInv, NEW o \in Obj, NEW p \in PageNo, readPage(o, p) PROVE IInv'
<1>1. PICK a : a = objs[o].file
  OBVIOUS
<1>2. /\ objs[o].state = "open" /\ objs[o].page = NoPage
      /\ objs' = [objs EXCEPT ![o].page = p]
      /\ UNCHANGED <<unix, files, openFiles>>
  BY DEF readPage
<1>3. a \in Live /\ a \in Addr
  BY <1>1, <1>2, ObjIsLive, LiveIsOpen
<1>4. \A q \in Obj : /\ objs'[q].state = objs[q].state /\ objs'[q].file = objs[q].file
                     /\ objs'[q].page = IF q = o THEN p ELSE objs[q].page
  BY <1>2 DEF IInv, Typed
<1>5. Table'
  BY <1>2, <1>4, LiveIsOpen, KeepsTable DEF Keeps
<1>6. /\ PinOn(a, p)' = PinOn(a, p) \cup {o} /\ o \notin PinOn(a, p)
      /\ \A b : \A q \in PageNo : b # a \/ q # p => PinOn(b, q)' = PinOn(b, q)
  BY <1>1, <1>2, <1>4, Nulls DEF PinOn
<1>7. Cardinality(PinOn(a, p)') = Cardinality(PinOn(a, p)) + 1 /\ PinOn(a, p) \in SUBSET Obj
  <2>1. PinOn(a, p) \in SUBSET Obj
    BY DEF PinOn
  <2> QED
    BY <1>6, <2>1, ObjSets
<1>8. /\ \A f \in Frame : IF frames[f].file = NULL THEN ~frames[f].dirty /\ frames[f].pinCnt = 0
         ELSE /\ frames[f].page \in PageNo
              /\ frames[f].pinCnt = Cardinality(PinOn(frames[f].file, frames[f].page))
      /\ \A f, g \in Frame : frames[f].file # NULL /\ frames[f].file = frames[g].file
                             /\ frames[f].page = frames[g].page => f = g
      /\ \A q \in Obj : objs[q].state # "none" /\ objs[q].page # NoPage =>
           \E f \in Frame : frames[f].file = objs[q].file /\ frames[f].page = objs[q].page
  BY DEF IInv, Pins
<1>9. frames \in [Frame -> FrameRec]
  BY DEF IInv, Typed, FrameRec
<1>10. objs' \in [Obj -> [file : Addr \cup {NULL}, page : PageNo \cup {NoPage},
                          state : {"none", "open", "leaked"}]]
  BY <1>2 DEF IInv, Typed
<1>11. ASSUME NEW f \in Cached(a, p), frames' = [frames EXCEPT ![f].pinCnt = @ + 1],
              UNCHANGED owed
       PROVE  IInv'
  <2>1. f \in Frame /\ frames[f].file = a /\ frames[f].page = p
    BY DEF Cached
  <2>2. \A g \in Frame : /\ frames'[g].file = frames[g].file /\ frames'[g].page = frames[g].page
                         /\ frames'[g].dirty = frames[g].dirty /\ frames'[g].of = frames[g].of
                         /\ frames'[g].pinCnt = IF g = f THEN frames[g].pinCnt + 1
                                                ELSE frames[g].pinCnt
    BY <1>9, <1>11 DEF FrameRec
  <2>3. frames' \in [Frame -> FrameRec]
    <3>1. PICK n \in Int : n = frames[f].pinCnt + 1
      BY <1>9, <2>1 DEF FrameRec
    <3>2. frames' = [frames EXCEPT ![f] = [frames[f] EXCEPT !.pinCnt = n]]
      BY <1>11, <3>1
    <3>3. [frames[f] EXCEPT !.pinCnt = n] \in FrameRec
      BY <1>9, <2>1 DEF FrameRec
    <3> QED
      BY <1>9, <3>2, <3>3
  <2>4. ASSUME NEW g \in Frame
        PROVE  IF frames'[g].file = NULL THEN ~frames'[g].dirty /\ frames'[g].pinCnt = 0
               ELSE /\ frames'[g].page \in PageNo
                    /\ frames'[g].pinCnt = Cardinality(PinOn(frames[g].file, frames[g].page)')
    <3>1. CASE g = f
      BY <1>3, <1>7, <1>8, <2>1, <2>2, <3>1, Nulls
    <3>2. CASE g # f
      <4>1. frames[g].file # NULL => frames[g].file # a \/ frames[g].page # p
        BY <1>8, <2>1, <3>2
      <4> QED
        BY <1>6, <1>8, <2>2, <3>2, <4>1
    <3> QED
      BY <3>1, <3>2
  <2>5. \A q \in Obj : objs'[q].state # "none" /\ objs'[q].page # NoPage =>
          \E g \in Frame : frames'[g].file = objs'[q].file /\ frames'[g].page = objs'[q].page
    BY <1>1, <1>4, <1>8, <2>1, <2>2
  <2>6. Pins'
    BY <1>8, <2>2, <2>4, <2>5 DEF Pins
  <2>7. FramesNameTheirFile'
    BY <1>2, <2>2 DEF IInv, FramesNameTheirFile, Live
  <2>8. ReportedKept'
    BY <1>2, <1>11, <2>2 DEF IInv, ReportedKept
  <2>9. Typed'
    BY <1>2, <1>10, <1>11, <2>3 DEF IInv, Typed, FrameRec
  <2> QED
    BY <1>5, <2>6, <2>7, <2>8, <2>9 DEF IInv
<1>12. ASSUME NEW f \in Frame, Cached(a, p) = {}, frames[f].pinCnt = 0,
              owed' = owed \ WrittenBy({f}),
              frames' = [frames EXCEPT ![f] = [file |-> a, page |-> p, pinCnt |-> 1,
                                               dirty |-> FALSE, of |-> files[a].name]]
       PROVE  IInv'
  <2>1. \A g \in Frame : frames'[g] = IF g = f THEN [file |-> a, page |-> p, pinCnt |-> 1,
                                                     dirty |-> FALSE, of |-> files[a].name]
                                      ELSE frames[g]
    BY <1>9, <1>12
  <2>2. \A g \in Frame : frames[g].file # a \/ frames[g].page # p
    BY <1>12 DEF Cached
  <2>3. PinOn(a, p) = {}
    BY <1>8, <2>2, Nulls DEF PinOn
  <2>4. Cardinality(PinOn(a, p)') = 1
    BY <1>7, <2>3, EmptyCount
  <2>5. ASSUME NEW g \in Frame
        PROVE  IF frames'[g].file = NULL THEN ~frames'[g].dirty /\ frames'[g].pinCnt = 0
               ELSE /\ frames'[g].page \in PageNo
                    /\ frames'[g].pinCnt = Cardinality(PinOn(frames[g].file, frames[g].page))'
    <3>1. CASE g = f
      <4>1. frames'[g].file = a /\ frames'[g].page = p /\ frames'[g].pinCnt = 1
        BY <2>1, <3>1
      <4>2. PinOn(frames[g].file, frames[g].page)' = PinOn(a, p)'
        BY <4>1 DEF PinOn
      <4> QED
        BY <1>3, <2>4, <4>1, <4>2, Nulls
    <3>2. CASE g # f
      <4>1. frames'[g] = frames[g]
        BY <2>1, <3>2
      <4>2. PICK b, q : b = frames[g].file /\ q = frames[g].page
        OBVIOUS
      <4>3. PinOn(frames[g].file, frames[g].page)' = PinOn(b, q)'
        BY <4>1, <4>2 DEF PinOn
      <4>4. b # NULL => q \in PageNo /\ PinOn(b, q)' = PinOn(b, q)
        BY <1>6, <1>8, <2>2, <4>2
      <4> QED
        BY <1>8, <4>1, <4>2, <4>3, <4>4
    <3> QED
      BY <3>1, <3>2
  <2>6. \A g, i \in Frame : frames'[g].file # NULL /\ frames'[g].file = frames'[i].file
                            /\ frames'[g].page = frames'[i].page => g = i
    BY <1>8, <2>1, <2>2
  <2>7. ASSUME NEW q \in Obj, objs'[q].state # "none", objs'[q].page # NoPage
        PROVE  \E g \in Frame : frames'[g].file = objs'[q].file /\ frames'[g].page = objs'[q].page
    <3>1. CASE q = o
      BY <1>1, <1>4, <2>1, <3>1
    <3>2. CASE q # o
      <4>1. PICK g \in Frame : frames[g].file = objs[q].file /\ frames[g].page = objs[q].page
        BY <1>4, <1>8, <2>7, <3>2
      <4>2. objs[q].file # NULL
        BY <1>4, <2>7, Nulls DEF IInv, Table
      <4>3. q \in PinOn(frames[g].file, frames[g].page)
        BY <1>4, <2>7, <4>1 DEF PinOn
      <4>4. PinOn(frames[g].file, frames[g].page) \in SUBSET Obj
        BY DEF PinOn
      <4>5. frames[g].pinCnt # 0
        BY <1>8, <4>1, <4>2, <4>3, <4>4, EmptyCount
      <4>6. frames'[g] = frames[g]
        BY <1>12, <2>1, <4>5
      <4> QED
        BY <1>4, <3>2, <4>1, <4>6
    <3> QED
      BY <3>1, <3>2
  <2>8. Pins'
    BY <2>5, <2>6, <2>7 DEF Pins
  <2>9. FramesNameTheirFile'
    BY <1>2, <1>3, <2>1 DEF IInv, FramesNameTheirFile, Live
  <2>10. ReportedKept'
    <3> SUFFICES ASSUME NEW x \in owed, x \notin WrittenBy({f})
                 PROVE  /\ x.name \in unix
                        /\ \E g \in Frame : /\ frames'[g].dirty /\ frames'[g].of = x.name
                                            /\ frames'[g].page = x.page
      BY <1>2, <1>12 DEF ReportedKept
    <3>1. PICK g \in Frame : frames[g].dirty /\ frames[g].of = x.name /\ frames[g].page = x.page
      BY DEF IInv, ReportedKept
    <3>2. frames[g].file # NULL
      BY <1>8, <3>1
    <3>3. files[frames[g].file].name = frames[g].of
      BY <3>2 DEF IInv, FramesNameTheirFile
    <3>4. g # f
      <4> SUFFICES ASSUME g = f PROVE x \in WrittenBy({f})
        OBVIOUS
      <4>1. x \in [name : Name, page : PageNo]
        BY DEF IInv, Typed
      <4>2. x = [name |-> files[frames[f].file].name, page |-> frames[f].page]
        BY <3>1, <3>3, <4>1
      <4> QED
        BY <3>1, <3>3, <4>2 DEF WrittenBy
    <3> QED
      BY <2>1, <3>1, <3>4 DEF IInv, ReportedKept
  <2>11. frames' \in [Frame -> FrameRec]
    <3>1. files[a].name \in Name
      BY <1>3, LiveIsOpen
    <3> QED
      BY <1>3, <1>9, <1>12, <3>1 DEF FrameRec
  <2>12. Typed'
    BY <1>2, <1>10, <1>12, <2>11 DEF IInv, Typed, FrameRec
  <2> QED
    BY <1>5, <2>8, <2>9, <2>10, <2>12 DEF IInv
<1>13. \/ \E f \in Cached(a, p) : frames' = [frames EXCEPT ![f].pinCnt = @ + 1] /\ UNCHANGED owed
       \/ \E f \in Frame :
              /\ Cached(a, p) = {} /\ frames[f].pinCnt = 0
              /\ owed' = owed \ WrittenBy({f})
              /\ frames' = [frames EXCEPT ![f] =
                              [file |-> a, page |-> p, pinCnt |-> 1, dirty |-> FALSE,
                               of |-> files[a].name]]
  BY <1>1 DEF readPage
<1> QED
  BY <1>11, <1>12, <1>13

-----------------------------------------------------------------------------
(***************************************************************************)
(* unPinPage and closeFile.                                                *)
(***************************************************************************)

\* The frames fr are those of the pool after object o gave back its pin, if it
\* had one, and reported its changes.
GivesBack(o, dirty, fr) ==
  /\ fr \in [Frame -> FrameRec]
  /\ \A f \in Frame : /\ fr[f].file = frames[f].file /\ fr[f].page = frames[f].page
                      /\ fr[f].of = frames[f].of
                      /\ IF fr[f].file = NULL THEN ~fr[f].dirty /\ fr[f].pinCnt = 0
                         ELSE /\ fr[f].page \in PageNo
                              /\ fr[f].pinCnt =
                                   Cardinality(PinOn(fr[f].file, fr[f].page) \ {o})
  /\ \A x \in owed \cup Reports(o, dirty) :
       /\ x \in [name : Name, page : PageNo] /\ x.name \in unix
       /\ \E f \in Frame : fr[f].dirty /\ fr[f].of = x.name /\ fr[f].page = x.page

LEMMA UnPinnedGivesBack ==
  ASSUME IInv, NEW o \in Obj, NEW dirty \in BOOLEAN, objs[o].state = "open"
  PROVE  GivesBack(o, dirty, UnPinned(o, dirty))
<1>1. PICK a, p : a = objs[o].file /\ p = objs[o].page
  OBVIOUS
<1>2. PICK fr : fr = UnPinned(o, dirty)
  OBVIOUS
<1>3. a \in Live /\ a \in Addr /\ files[a].name \in Name /\ files[a].name \in unix
  BY <1>1, ObjIsLive, LiveIsOpen
<1>4. fr = [f \in Frame |-> IF f \in Cached(a, p)
                            THEN [frames[f] EXCEPT !.pinCnt = @ - 1, !.dirty = @ \/ dirty]
                            ELSE frames[f]]
  BY <1>1, <1>2 DEF UnPinned
<1>5. frames \in [Frame -> FrameRec]
  BY DEF IInv, Typed, FrameRec
<1>6. ASSUME NEW f \in Frame PROVE fr[f] \in FrameRec
  <2>1. frames[f] \in FrameRec /\ frames[f].pinCnt - 1 \in Int
        /\ frames[f].dirty \in BOOLEAN
    BY <1>5 DEF FrameRec
  <2>2. PICK n \in Int : n = frames[f].pinCnt - 1
    BY <2>1
  <2>3. PICK d \in BOOLEAN : d = (frames[f].dirty \/ dirty)
    BY <2>1
  <2>4. fr[f] = IF f \in Cached(a, p) THEN [frames[f] EXCEPT !.pinCnt = n, !.dirty = d]
                ELSE frames[f]
    BY <1>4, <2>2, <2>3
  <2> QED
    BY <2>1, <2>4 DEF FrameRec
<1>7. \A f \in Frame :
        /\ fr[f].file = frames[f].file /\ fr[f].page = frames[f].page /\ fr[f].of = frames[f].of
        /\ fr[f].pinCnt = IF f \in Cached(a, p) THEN frames[f].pinCnt - 1 ELSE frames[f].pinCnt
  BY <1>4, <1>5 DEF FrameRec
<1>8. \A f \in Frame : fr[f].dirty <=> frames[f].dirty \/ (f \in Cached(a, p) /\ dirty)
  <2> SUFFICES ASSUME NEW f \in Frame
               PROVE  fr[f].dirty <=> frames[f].dirty \/ (f \in Cached(a, p) /\ dirty)
    OBVIOUS
  <2>1. frames[f] \in FrameRec
    BY <1>5
  <2>2. CASE f \in Cached(a, p)
    <3>1. fr[f].dirty = (frames[f].dirty \/ dirty)
      BY <1>4, <2>1, <2>2 DEF FrameRec
    <3> QED
      BY <2>2, <3>1
  <2>3. CASE f \notin Cached(a, p)
    BY <1>4, <2>3
  <2> QED
    BY <2>2, <2>3
<1>9. ASSUME NEW f \in Frame
      PROVE  IF fr[f].file = NULL THEN ~fr[f].dirty /\ fr[f].pinCnt = 0
             ELSE /\ fr[f].page \in PageNo
                  /\ fr[f].pinCnt = Cardinality(PinOn(fr[f].file, fr[f].page) \ {o})
  <2>1. IF frames[f].file = NULL THEN ~frames[f].dirty /\ frames[f].pinCnt = 0
        ELSE /\ frames[f].page \in PageNo
             /\ frames[f].pinCnt = Cardinality(PinOn(frames[f].file, frames[f].page))
    BY DEF IInv, Pins
  <2>2. CASE f \in Cached(a, p)
    <3>1. frames[f].file = a /\ frames[f].page = p
      BY <2>2 DEF Cached
    <3>2. o \in PinOn(a, p) /\ PinOn(a, p) \in SUBSET Obj
      BY <1>1 DEF PinOn
    <3>3. Cardinality(PinOn(a, p) \ {o}) = Cardinality(PinOn(a, p)) - 1
      BY <3>2, ObjSets
    <3> QED
      BY <1>3, <1>7, <2>1, <2>2, <3>1, <3>3, Nulls
  <2>3. CASE f \notin Cached(a, p)
    <3>1. o \notin PinOn(frames[f].file, frames[f].page)
      BY <1>1, <2>3 DEF PinOn, Cached
    <3>2. PinOn(frames[f].file, frames[f].page) \ {o} = PinOn(frames[f].file, frames[f].page)
      BY <3>1
    <3> QED
      BY <1>7, <1>8, <2>1, <2>3, <3>2
  <2> QED
    BY <2>2, <2>3
<1>10. ASSUME NEW x \in owed \cup Reports(o, dirty)
       PROVE  /\ x \in [name : Name, page : PageNo] /\ x.name \in unix
              /\ \E f \in Frame : fr[f].dirty /\ fr[f].of = x.name /\ fr[f].page = x.page
  <2>1. CASE x \in owed
    <3>1. x \in [name : Name, page : PageNo]
      BY <2>1 DEF IInv, Typed
    <3>2. x.name \in unix /\ \E f \in Frame : /\ frames[f].dirty /\ frames[f].of = x.name
                                              /\ frames[f].page = x.page
      BY <2>1 DEF IInv, ReportedKept
    <3> QED
      BY <1>7, <1>8, <3>1, <3>2
  <2>2. CASE x \in Reports(o, dirty)
    <3>1. dirty /\ p # NoPage /\ x = [name |-> files[a].name, page |-> p]
      BY <1>1, <2>2 DEF Reports
    <3>2. p \in PageNo
      BY <1>1, <3>1 DEF IInv, Typed
    <3>3. PICK f \in Frame : frames[f].file = a /\ frames[f].page = p
      BY <1>1, <3>1 DEF IInv, Pins
    <3>4. frames[f].of = files[a].name
      BY <1>3, <3>3, Nulls DEF IInv, FramesNameTheirFile
    <3>5. f \in Cached(a, p)
      BY <3>3 DEF Cached
    <3>6. fr[f].dirty /\ fr[f].of = x.name /\ fr[f].page = x.page
      BY <1>7, <1>8, <3>1, <3>3, <3>4, <3>5
    <3> QED
      BY <1>3, <3>1, <3>2, <3>6
  <2> QED
    BY <2>1, <2>2
<1>11. fr \in [Frame -> FrameRec]
  BY <1>4, <1>6
<1> QED
  BY <1>2, <1>7, <1>9, <1>10, <1>11 DEF GivesBack

\* A frame of a pool from which o withdrew counts the pins that are left.
LEMMA PinsLeft ==
  ASSUME NEW o, NEW dirty, NEW fr, GivesBack(o, dirty, fr), NEW f \in Frame,
         frames'[f] = fr[f], \A b : \A q \in PageNo : PinOn(b, q)' = PinOn(b, q) \ {o}
  PROVE  IF frames'[f].file = NULL THEN ~frames'[f].dirty /\ frames'[f].pinCnt = 0
         ELSE /\ frames'[f].page \in PageNo
              /\ frames'[f].pinCnt = Cardinality(PinOn(frames[f].file, frames[f].page))'
<1>1. PICK b, q : b = fr[f].file /\ q = fr[f].page
  OBVIOUS
<1>2. PinOn(frames[f].file, frames[f].page)' = PinOn(b, q)'
  BY <1>1 DEF PinOn
<1>3. IF fr[f].file = NULL THEN ~fr[f].dirty /\ fr[f].pinCnt = 0
      ELSE /\ fr[f].page \in PageNo
           /\ fr[f].pinCnt = Cardinality(PinOn(b, q) \ {o})
  BY <1>1 DEF GivesBack
<1> QED
  BY <1>1, <1>2, <1>3

LEMMA unPinPageIInv ==
  ASSUME IInv, NEW o \in Obj, NEW dirty \in BOOLEAN, unPinPage(o, dirty) PROVE IInv'
<1>1. /\ objs[o].state = "open" /\ owed' = owed \cup Reports(o, dirty)
      /\ objs' = [objs EXCEPT ![o].page = NoPage] /\ UNCHANGED <<unix, files, openFiles>>
  BY DEF unPinPage
<1>2. PICK fr : fr = UnPinned(o, dirty) /\ frames' = fr
  BY DEF unPinPage
<1>3. GivesBack(o, dirty, fr)
  BY <1>1, <1>2, UnPinnedGivesBack
<1>4. \A q \in Obj : /\ objs'[q].state = objs[q].state /\ objs'[q].file = objs[q].file
                     /\ objs'[q].page = IF q = o THEN NoPage ELSE objs[q].page
  BY <1>1 DEF IInv, Typed
<1>5. Table'
  BY <1>1, <1>4, LiveIsOpen, KeepsTable DEF Keeps
<1>6. \A b : \A q \in PageNo : PinOn(b, q)' = PinOn(b, q) \ {o}
  BY <1>4, Nulls DEF PinOn
<1>7. \A f \in Frame : /\ frames'[f].file = frames[f].file /\ frames'[f].page = frames[f].page
                       /\ frames'[f].of = frames[f].of
  BY <1>2, <1>3 DEF GivesBack
<1>8. \A f \in Frame :
         IF frames'[f].file = NULL THEN ~frames'[f].dirty /\ frames'[f].pinCnt = 0
         ELSE /\ frames'[f].page \in PageNo
              /\ frames'[f].pinCnt = Cardinality(PinOn(frames[f].file, frames[f].page))'
  BY <1>2, <1>3, <1>6, PinsLeft
<1>9. \A q \in Obj : objs'[q].state # "none" /\ objs'[q].page # NoPage =>
        \E f \in Frame : frames'[f].file = objs'[q].file /\ frames'[f].page = objs'[q].page
  BY <1>4, <1>7 DEF IInv, Pins
<1>10. Pins'
  BY <1>7, <1>8, <1>9 DEF IInv, Pins
<1>11. FramesNameTheirFile'
  BY <1>1, <1>7 DEF IInv, FramesNameTheirFile, Live
<1>12. ReportedKept'
  BY <1>1, <1>2, <1>3 DEF ReportedKept, GivesBack
<1>13. objs' \in [Obj -> [file : Addr \cup {NULL}, page : PageNo \cup {NoPage},
                          state : {"none", "open", "leaked"}]]
  BY <1>1 DEF IInv, Typed
<1>14. owed' \subseteq [name : Name, page : PageNo] /\ frames' \in [Frame -> FrameRec]
  BY <1>1, <1>2, <1>3 DEF GivesBack
<1>15. Typed'
  BY <1>1, <1>13, <1>14 DEF IInv, Typed, FrameRec
<1> QED
  BY <1>5, <1>10, <1>11, <1>12, <1>15 DEF IInv

\* One object less on the File at a; with the last one the File goes.
LEMMA closeFileTable ==
  ASSUME IInv, NEW o \in Obj, NEW dirty \in BOOLEAN, closeFile(o, dirty), NEW a, a = objs[o].file
  PROVE  /\ Table' /\ a \in Live
         /\ \A q \in Obj : objs'[q] = IF q = o THEN NoObj ELSE objs[q]
         /\ files[a].openCnt = 1 =>
              /\ OpenOn(a) = {o} /\ Live' = Live \ {a}
              /\ \A b \in Addr : b # a => files'[b] = files[b]
         /\ files[a].openCnt > 1 =>
              Live' = Live /\ \A b \in Addr : files'[b].name = files[b].name
         /\ files' \in [Addr -> [name : Name \cup {NULL}, openCnt : Nat]]
         /\ openFiles' \in [Name -> Addr \cup {NULL}]
<1>1. /\ objs[o].state = "open" /\ objs' = [objs EXCEPT ![o] = NoObj]
      /\ files' = closed(a) /\ unix' = unix
      /\ \/ files[a].openCnt > 1 /\ openFiles' = openFiles
         \/ files[a].openCnt = 1 /\ openFiles' = erased(files[a].name)
  BY DEF closeFile
<1>2. a \in Live /\ a \in Addr /\ o \in OpenOn(a) /\ OpenOn(a) \in SUBSET Obj
  BY <1>1, ObjIsLive, LiveIsOpen DEF OpenOn
<1>3. files \in [Addr -> [name : Name \cup {NULL}, openCnt : Nat]]
      /\ openFiles \in [Name -> Addr \cup {NULL}]
  BY DEF IInv, Typed
<1>4. \A q \in Obj : objs'[q] = IF q = o THEN NoObj ELSE objs[q]
  BY <1>1 DEF IInv, Typed
<1>5. OpenOn(a)' = OpenOn(a) \ {o} /\ \A b \in Addr : b # a => OpenOn(b)' = OpenOn(b)
  BY <1>4 DEF OpenOn, NoObj
<1>6. /\ \A b \in Addr : files[b].openCnt = Cardinality(OpenOn(b))
      /\ \A b \in Live : openFiles[files[b].name] = b /\ files[b].name \in unix
                         /\ files[b].name \in Name
      /\ \A m \in Name : openFiles[m] # NULL =>
           openFiles[m] \in Live /\ files[openFiles[m]].name = m
  BY DEF IInv, Table, OpenCntExact, OpenFileExists
<1>7. Cardinality(OpenOn(a)') = files[a].openCnt - 1
  BY <1>2, <1>5, <1>6, ObjSets
<1>8. \A q \in Obj : objs'[q].state # "none" => objs'[q].file \in Addr
  BY <1>4 DEF IInv, Table, NoObj
<1>9. CASE files[a].openCnt > 1 /\ openFiles' = openFiles
  <2>1. PICK n : n = files[a].openCnt - 1
    OBVIOUS
  <2>2. n \in Nat /\ n > 0
    BY <1>2, <1>3, <1>9, <2>1
  <2>3. files' = [files EXCEPT ![a] = [name |-> files[a].name, openCnt |-> n]]
    <3>1. files' = [files EXCEPT ![a] = IF files[a].openCnt > 1
                                        THEN [name |-> files[a].name, openCnt |-> files[a].openCnt - 1]
                                        ELSE NoFile]
      BY <1>1 DEF closed
    <3>2. (IF files[a].openCnt > 1 THEN [name |-> files[a].name, openCnt |-> files[a].openCnt - 1]
           ELSE NoFile) = [name |-> files[a].name, openCnt |-> n]
      BY <1>9, <2>1
    <3> QED
      BY <3>1, <3>2
  <2>4. \A b \in Addr : /\ files'[b].name = files[b].name
                        /\ files'[b].openCnt = IF b = a THEN n ELSE files[b].openCnt
    BY <1>3, <2>3
  <2>5. Live' = Live
    BY <1>2, <1>3, <1>9, <2>2, <2>4 DEF Live
  <2>6. ASSUME NEW b \in Addr PROVE files'[b].openCnt = Cardinality(OpenOn(b)')
    <3>1. CASE b = a
      BY <1>7, <2>1, <2>4, <3>1
    <3>2. CASE b # a
      BY <1>5, <1>6, <2>4, <3>2
    <3> QED
      BY <3>1, <3>2
  <2>7. OpenCntExact'
    BY <1>6, <1>9, <2>4, <2>5, <2>6 DEF OpenCntExact, Live
  <2>8. Table'
    BY <1>1, <1>6, <1>8, <2>4, <2>5, <2>7 DEF Table, OpenFileExists, Live
  <2>9. files' \in [Addr -> [name : Name \cup {NULL}, openCnt : Nat]]
    BY <1>3, <2>2, <2>3
  <2> QED
    BY <1>2, <1>3, <1>4, <1>9, <2>4, <2>5, <2>8, <2>9
<1>10. CASE files[a].openCnt = 1 /\ openFiles' = erased(files[a].name)
  <2>1. PICK n \in Name : n = files[a].name
    BY <1>2, <1>6
  <2>2. files' = [files EXCEPT ![a] = NoFile]
    BY <1>1, <1>10 DEF closed
  <2>3. \A b \in Addr : files'[b] = IF b = a THEN NoFile ELSE files[b]
    BY <1>3, <2>2
  <2>4. \A m \in Name : openFiles'[m] = IF m = n THEN NULL ELSE openFiles[m]
    BY <1>3, <1>10, <2>1 DEF erased
  <2>5. Live' = Live \ {a} /\ Live \subseteq Addr
    BY <2>3 DEF Live, NoFile
  <2>6. OpenOn(a)' = {}
    <3>1. OpenOn(a)' \in SUBSET Obj
      BY <1>2, <1>5
    <3>2. Cardinality(OpenOn(a)') = 0
      BY <1>7, <1>10
    <3> QED
      BY <3>1, <3>2, EmptyCount
  <2>7. OpenOn(a) = {o}
    BY <1>2, <1>5, <2>6
  <2>8. ASSUME NEW b \in Addr PROVE files'[b].openCnt = Cardinality(OpenOn(b)')
    <3>1. CASE b = a
      BY <2>3, <2>6, <3>1, EmptyCount DEF NoFile
    <3>2. CASE b # a
      BY <1>5, <1>6, <2>3, <3>2
    <3> QED
      BY <3>1, <3>2
  <2>9. \A b \in Live' : /\ openFiles'[files'[b].name] = b /\ files'[b].name \in unix
                         /\ files'[b].name \in Name
    <3>1. \A b \in Live : b # a => files[b].name # n
      BY <1>2, <1>6, <2>1
    <3> QED
      BY <1>6, <2>3, <2>4, <2>5, <3>1
  <2>10. \A m \in Name : openFiles'[m] # NULL =>
           openFiles'[m] \in Live' /\ files'[openFiles'[m]].name = m
    <3> SUFFICES ASSUME NEW m \in Name, openFiles'[m] # NULL
                 PROVE  openFiles'[m] \in Live' /\ files'[openFiles'[m]].name = m
      OBVIOUS
    <3>1. m # n /\ openFiles'[m] = openFiles[m]
      BY <2>4
    <3>2. openFiles[m] \in Live /\ files[openFiles[m]].name = m
      BY <1>6, <3>1
    <3>3. openFiles[m] # a
      BY <2>1, <3>1, <3>2
    <3> QED
      BY <2>3, <2>5, <3>1, <3>2, <3>3
  <2>11. Table'
    BY <1>1, <1>8, <2>8, <2>9, <2>10 DEF Table, OpenCntExact, OpenFileExists
  <2>12. files' \in [Addr -> [name : Name \cup {NULL}, openCnt : Nat]]
         /\ openFiles' \in [Name -> Addr \cup {NULL}]
    BY <1>3, <1>10, <2>2 DEF NoFile, erased
  <2> QED
    BY <1>2, <1>4, <1>10, <2>3, <2>5, <2>7, <2>11, <2>12
<1> QED
  BY <1>1, <1>9, <1>10

\* closeFile.  At the last close of a File no other object has a page of it
\* pinned, so that flushFile does not stop early.
LEMMA closeFileIInv ==
  ASSUME IInv, NEW o \in Obj, NEW dirty \in BOOLEAN, closeFile(o, dirty) PROVE IInv'
<1>1. PICK a : a = objs[o].file
  OBVIOUS
<1>2. PICK fr : fr = UnPinned(o, dirty)
  OBVIOUS
<1>3. /\ Table' /\ a \in Live
      /\ \A q \in Obj : objs'[q] = IF q = o THEN NoObj ELSE objs[q]
      /\ files[a].openCnt = 1 =>
           /\ OpenOn(a) = {o} /\ Live' = Live \ {a}
           /\ \A b \in Addr : b # a => files'[b] = files[b]
      /\ files[a].openCnt > 1 =>
           Live' = Live /\ \A b \in Addr : files'[b].name = files[b].name
      /\ files' \in [Addr -> [name : Name \cup {NULL}, openCnt : Nat]]
      /\ openFiles' \in [Name -> Addr \cup {NULL}]
  BY <1>1, closeFileTable
<1>4. objs[o].state = "open" /\ unix' = unix
  BY DEF closeFile
<1>5. GivesBack(o, dirty, fr)
  BY <1>2, <1>4, UnPinnedGivesBack
<1>6. a \in Addr /\ files[a].name \in Name
  BY <1>3, LiveIsOpen
<1>7. \A b : \A q \in PageNo : PinOn(b, q)' = PinOn(b, q) \ {o}
  BY <1>3, Nulls DEF PinOn, NoObj
<1>8. /\ \A f \in Frame : /\ fr[f].file = frames[f].file /\ fr[f].page = frames[f].page
                          /\ fr[f].of = frames[f].of
      /\ \A x \in owed \cup Reports(o, dirty) :
           /\ x \in [name : Name, page : PageNo] /\ x.name \in unix
           /\ \E f \in Frame : fr[f].dirty /\ fr[f].of = x.name /\ fr[f].page = x.page
      /\ fr \in [Frame -> FrameRec]
  BY <1>5 DEF GivesBack
<1>9. /\ \A f, g \in Frame : frames[f].file # NULL /\ frames[f].file = frames[g].file
                             /\ frames[f].page = frames[g].page => f = g
      /\ \A q \in Obj : objs[q].state # "none" /\ objs[q].page # NoPage =>
           \E f \in Frame : frames[f].file = objs[q].file /\ frames[f].page = objs[q].page
      /\ \A f \in Frame : frames[f].file # NULL =>
           frames[f].file \in Live /\ files[frames[f].file].name = frames[f].of
  BY DEF IInv, Pins, FramesNameTheirFile
<1>10. objs' \in [Obj -> [file : Addr \cup {NULL}, page : PageNo \cup {NoPage},
                          state : {"none", "open", "leaked"}]]
  BY DEF IInv, Typed, closeFile, NoObj
<1>11. Live \subseteq Addr
  BY DEF Live
<1>12. CASE files[a].openCnt > 1
  <2>1. frames' = fr /\ owed' = owed \cup Reports(o, dirty)
    BY <1>1, <1>2, <1>12 DEF closeFile, BeforeClose
  <2>2. \A f \in Frame :
          IF frames'[f].file = NULL THEN ~frames'[f].dirty /\ frames'[f].pinCnt = 0
          ELSE /\ frames'[f].page \in PageNo
               /\ frames'[f].pinCnt = Cardinality(PinOn(frames[f].file, frames[f].page))'
    BY <1>5, <1>7, <2>1, PinsLeft
  <2>3. \A q \in Obj : objs'[q].state # "none" /\ objs'[q].page # NoPage =>
          \E f \in Frame : frames'[f].file = objs'[q].file /\ frames'[f].page = objs'[q].page
    BY <1>3, <1>8, <1>9, <2>1 DEF NoObj
  <2>4. Pins'
    BY <1>8, <1>9, <2>1, <2>2, <2>3 DEF Pins
  <2>5. FramesNameTheirFile'
    BY <1>3, <1>8, <1>9, <1>11, <1>12, <2>1 DEF FramesNameTheirFile
  <2>6. ReportedKept'
    BY <1>4, <1>8, <2>1 DEF ReportedKept
  <2>7. owed' \subseteq [name : Name, page : PageNo]
    BY <1>8, <2>1
  <2>8. Typed'
    BY <1>3, <1>4, <1>8, <1>10, <2>1, <2>7 DEF IInv, Typed, FrameRec
  <2> QED
    BY <1>3, <2>4, <2>5, <2>6, <2>8 DEF IInv
<1>13. CASE files[a].openCnt = 1
  <2>1. PICK n : n = files[a].name
    OBVIOUS
  <2>2. /\ frames' = [f \in Frame |-> IF f \in Flushes(a, fr) THEN NoFrame ELSE fr[f]]
        /\ owed' = (owed \cup Reports(o, dirty))
                     \ {[name |-> n, page |-> fr[f].page] :
                          f \in {g \in Flushes(a, fr) : fr[g].dirty /\ fr[g].of = n}}
    BY <1>1, <1>2, <1>13, <2>1 DEF closeFile, BeforeClose
  <2>3. \A f \in Frame : fr[f].file = a => fr[f].pinCnt = 0
    <3> SUFFICES ASSUME NEW f \in Frame, fr[f].file = a PROVE fr[f].pinCnt = 0
      OBVIOUS
    <3>1. fr[f].pinCnt = Cardinality(PinOn(a, fr[f].page) \ {o})
      BY <1>5, <1>6, Nulls DEF GivesBack
    <3>2. PinOn(a, fr[f].page) \subseteq OpenOn(a)
      BY DEF PinOn, OpenOn
    <3>3. PinOn(a, fr[f].page) \ {o} = {}
      BY <1>3, <1>13, <3>2
    <3> QED
      BY <3>1, <3>3, EmptyCount
  <2>4. Flushes(a, fr) = {f \in Frame : fr[f].file = a}
    <3>1. {f \in {g \in Frame : fr[g].file = a} : fr[f].pinCnt > 0} = {}
      BY <2>3
    <3> QED
      BY <3>1 DEF Flushes
  <2>5. \A f \in Frame : frames'[f] = IF fr[f].file = a THEN NoFrame ELSE fr[f]
    BY <2>2, <2>4
  <2>6. \A f \in Frame :
          IF frames'[f].file = NULL THEN ~frames'[f].dirty /\ frames'[f].pinCnt = 0
          ELSE /\ frames'[f].page \in PageNo
               /\ frames'[f].pinCnt = Cardinality(PinOn(frames[f].file, frames[f].page))'
    <3> SUFFICES ASSUME NEW f \in Frame
                 PROVE  IF frames'[f].file = NULL THEN ~frames'[f].dirty /\ frames'[f].pinCnt = 0
                        ELSE /\ frames'[f].page \in PageNo
                             /\ frames'[f].pinCnt =
                                  Cardinality(PinOn(frames[f].file, frames[f].page))'
      OBVIOUS
    <3>1. CASE fr[f].file = a
      BY <2>5, <3>1 DEF NoFrame
    <3>2. CASE fr[f].file # a
      <4>1. frames'[f] = fr[f]
        BY <2>5, <3>2
      <4> QED
        BY <1>5, <1>7, <4>1, PinsLeft
    <3> QED
      BY <3>1, <3>2
  <2>7. ASSUME NEW q \in Obj, objs'[q].state # "none", objs'[q].page # NoPage
        PROVE  \E f \in Frame : frames'[f].file = objs'[q].file /\ frames'[f].page = objs'[q].page
    <3>1. q # o /\ objs'[q] = objs[q]
      BY <1>3, <2>7 DEF NoObj
    <3>2. objs[q].file # a
      BY <1>3, <1>13, <2>7, <3>1 DEF OpenOn
    <3>3. PICK f \in Frame : frames[f].file = objs[q].file /\ frames[f].page = objs[q].page
      BY <1>9, <2>7, <3>1
    <3>4. frames'[f] = fr[f]
      BY <1>8, <2>5, <3>2, <3>3
    <3> QED
      BY <1>8, <3>1, <3>3, <3>4
  <2>8. \A f, g \in Frame : frames'[f].file # NULL /\ frames'[f].file = frames'[g].file
                            /\ frames'[f].page = frames'[g].page => f = g
    <3>1. \A f \in Frame : frames'[f].file # NULL =>
            frames'[f].file = frames[f].file /\ frames'[f].page = frames[f].page
      BY <1>8, <2>5 DEF NoFrame
    <3> QED
      BY <1>9, <3>1
  <2>9. Pins'
    BY <2>6, <2>7, <2>8 DEF Pins
  <2>10. FramesNameTheirFile'
    <3> SUFFICES ASSUME NEW f \in Frame, frames'[f].file # NULL
                 PROVE  /\ frames'[f].file \in Live'
                        /\ files'[frames'[f].file].name = frames'[f].of
      BY DEF FramesNameTheirFile
    <3>1. fr[f].file # a /\ frames'[f] = fr[f]
      BY <2>5 DEF NoFrame
    <3>2. frames[f].file \in Live /\ files[frames[f].file].name = frames[f].of
      BY <1>8, <1>9, <3>1
    <3> QED
      BY <1>3, <1>8, <1>11, <1>13, <3>1, <3>2
  <2>11. ReportedKept'
    <3> SUFFICES ASSUME NEW x \in owed'
                 PROVE  /\ x.name \in unix
                        /\ \E f \in Frame : /\ frames'[f].dirty /\ frames'[f].of = x.name
                                            /\ frames'[f].page = x.page
      BY <1>4 DEF ReportedKept
    <3>1. x \in owed \cup Reports(o, dirty)
      BY <2>2
    <3>2. x \in [name : Name, page : PageNo] /\ x.name \in unix
      BY <1>8, <3>1
    <3>3. PICK f \in Frame : fr[f].dirty /\ fr[f].of = x.name /\ fr[f].page = x.page
      BY <1>8, <3>1
    <3>4. fr[f].file # a
      <4> SUFFICES ASSUME fr[f].file = a PROVE FALSE
        OBVIOUS
      <4>1. fr[f].of = n
        BY <1>6, <1>8, <1>9, <2>1, Nulls
      <4>2. x = [name |-> n, page |-> fr[f].page]
        BY <3>2, <3>3, <4>1
      <4>3. f \in {g \in Flushes(a, fr) : fr[g].dirty /\ fr[g].of = n}
        BY <2>4, <3>3, <4>1
      <4> QED
        BY <2>2, <4>2, <4>3
    <3>5. frames'[f] = fr[f]
      BY <2>5, <3>4
    <3> QED
      BY <3>2, <3>3, <3>5
  <2>12. frames' \in [Frame -> FrameRec]
    BY <1>8, <2>2 DEF FrameRec, NoFrame
  <2>13. owed' \subseteq [name : Name, page : PageNo]
    BY <1>8, <2>2
  <2>14. Typed'
    BY <1>3, <1>4, <1>10, <2>12, <2>13 DEF IInv, Typed, FrameRec
  <2> QED
    BY <1>3, <2>9, <2>10, <2>11, <2>14 DEF IInv
<1>14. files[a].openCnt > 1 \/ files[a].openCnt = 1
  BY <1>1 DEF closeFile
<1> QED
  BY <1>12, <1>13, <1>14

-----------------------------------------------------------------------------
\* The end of a run leaves nothing owed: every dirty frame names its file.
LEMMA exitIInv == ASSUME IInv, exit PROVE IInv'
<1>1. /\ owed' = owed \ WrittenBy(Frame) /\ unix' = unix
      /\ files' = [a \in Addr |-> NoFile] /\ openFiles' = [n \in Name |-> NULL]
      /\ frames' = [f \in Frame |-> NoFrame] /\ objs' = [o \in Obj |-> NoObj]
  BY DEF exit
<1>2. owed' = {}
  <2> SUFFICES ASSUME NEW x \in owed PROVE x \in WrittenBy(Frame)
    BY <1>1
  <2>1. PICK f \in Frame : frames[f].dirty /\ frames[f].of = x.name /\ frames[f].page = x.page
    BY DEF IInv, ReportedKept
  <2>2. frames[f].file # NULL
    BY <2>1 DEF IInv, Pins
  <2>3. files[frames[f].file].name = frames[f].of
    BY <2>2 DEF IInv, FramesNameTheirFile
  <2>4. x \in [name : Name, page : PageNo]
    BY DEF IInv, Typed
  <2>5. x = [name |-> files[frames[f].file].name, page |-> frames[f].page]
    BY <2>1, <2>3, <2>4
  <2> QED
    BY <2>1, <2>3, <2>5 DEF WrittenBy
<1>3. Typed'
  BY <1>1, <1>2 DEF IInv, Typed, NoFile, NoFrame, NoObj
<1>4. Live' = {} /\ \A a \in Addr : OpenOn(a)' = {}
  BY <1>1 DEF Live, OpenOn, NoFile, NoObj
<1>5. \A a \in Addr : files'[a].openCnt = Cardinality(OpenOn(a)')
  BY <1>1, <1>4, EmptyCount DEF NoFile
<1>6. Table'
  BY <1>1, <1>4, <1>5 DEF Table, OpenCntExact, OpenFileExists, NoObj
<1>7. Pins'
  BY <1>1 DEF Pins, NoFrame, NoObj
<1> QED
  BY <1>1, <1>2, <1>3, <1>6, <1>7 DEF IInv, FramesNameTheirFile, ReportedKept, NoFrame

LEMMA NextIInv == IInv /\ [Next]_vars => IInv'
<1> SUFFICES ASSUME IInv, [Next]_vars PROVE IInv'
  OBVIOUS
<1>1. CASE UNCHANGED vars
  <2>1. Typed' /\ ReportedKept'
    BY <1>1 DEF vars, IInv, Typed, ReportedKept
  <2>2. Pins' /\ FramesNameTheirFile'
    BY <1>1, SamePool DEF vars
  <2>3. Table'
    BY <1>1, LiveIsOpen, KeepsTable DEF vars, Keeps
  <2> QED
    BY <2>1, <2>2, <2>3 DEF IInv
<1>2. CASE Next
  BY <1>2, createFileIInv, destroyFileIInv, openFileIInv, readPageIInv, unPinPageIInv,
     closeFileIInv, leakIInv, exitIInv DEF Next
<1> QED
  BY <1>1, <1>2

-----------------------------------------------------------------------------
(***************************************************************************)
(* The theorems.                                                           *)
(***************************************************************************)

\* Open counts, pin counts, frames and reported changes always agree.
THEOREM Invariant == Spec => []IInv
BY InitIInv, NextIInv, PTL DEF Spec

\* File::close deletes a File with the last of its users, and not before; a name
\* never has two File objects.
THEOREM OpenCntExactAlways == Spec => []OpenCntExact
<1>1. IInv => OpenCntExact
  BY DEF IInv, Table
<1> QED
  BY <1>1, Invariant, PTL

\* No frame is written through a deleted File or into another file, although
\* closeFile ignores what flushFile returns and addresses are used again.
THEOREM FramesNameTheirFileAlways == Spec => []FramesNameTheirFile
<1>1. IInv => FramesNameTheirFile
  BY DEF IInv
<1> QED
  BY <1>1, Invariant, PTL

\* Closes, evictions and exits lose no change that an unpin reported.
THEOREM ReportedKeptAlways == Spec => []ReportedKept
<1>1. IInv => ReportedKept
  BY DEF IInv
<1> QED
  BY <1>1, Invariant, PTL

\* destroyFile removes no file that is open.
THEOREM OpenFileExistsAlways == Spec => []OpenFileExists
<1>1. IInv => OpenFileExists
  BY DEF IInv, Table
<1> QED
  BY <1>1, Invariant, PTL
=============================================================================
