----------------------------- MODULE SortedFile -----------------------------
(***************************************************************************)
(* External sort (sort.h, sort.cpp): SortedFile splits a heap file into    *)
(* sorted runs, one temporary heap file each, and merges them on the fly.  *)
(*                                                                         *)
(* Several SortedFile objects can exist at a time; all that sort the same  *)
(* file use the same names for their runs.  A constructor runs to its end  *)
(* before another call is made.  A scan of a run is the index of its       *)
(* current record (HeapFile shows what a scan does), 0 for NULLRID.        *)
(*                                                                         *)
(* generateRun expects the InsertFileScan constructor to create the file   *)
(* ("This will also create the temporary file.", sort.cpp:242).  In this   *)
(* repository it does not: File::open has no O_CREAT.  The variable        *)
(* creates is FALSE for the code as it stands, TRUE for what sort.cpp      *)
(* relies on, and never changes.                                           *)
(*                                                                         *)
(* A constructor can fail at any of its calls.  ~SortedFile closes the     *)
(* inFile of each run but no outFile: a run that generateRun left half     *)
(* written stays open, and on disk, until the program ends.                *)
(*                                                                         *)
(* Bounds: sort parameters are valid, memory suffices, the calls made by   *)
(* next() and gotoMark() succeed, and keys are integers that differ by     *)
(* less than half the range of an int.  The HeapFile constructor answers   *)
(* OK after a failed read (heapfile.cpp:111) and leaves pointers unset;    *)
(* what happens then is not modelled.                                      *)
(***************************************************************************)
EXTENDS Integers, Sequences, FiniteSets, SequencesExt

CONSTANTS Sorter,       \* SortedFile objects on one source file
          KeyVal,       \* values of the sort attribute
          Id,           \* tells records with equal keys apart
          MaxRecs,      \* bound: records of the source file
          MaxItems,     \* records per run (maxItems)
          INT_MAX,      \* the greatest int; the least is -INT_MAX - 1
          NoRun,        \* a run file that does not exist
          NoMark,       \* no mark was set
          MaxOpen       \* bound: scans open on the source file

ASSUME SortedFileAssumption ==
  /\ MaxRecs \in Nat /\ MaxItems \in Nat /\ MaxItems >= 2 /\ INT_MAX \in Nat
  /\ KeyVal \subseteq Int /\ \A a, b \in KeyVal : a - b <= INT_MAX

MaxRuns == (MaxRecs + MaxItems - 1) \div MaxItems
Rec == [key : KeyVal, id : Id]

ASSUME AbsentAssumption ==
  /\ \A n \in 0 .. MaxItems : \A run \in [1 .. n -> Rec] : run # NoRun
  /\ \A recs \in SUBSET Rec : recs # NoMark

VARIABLES file,         \* records of the source file, in file order
          creates,      \* InsertFileScan creates its file
          tmp,          \* tmp[k]: contents of run file k, or NoRun
          left,         \* run files left behind by a program that ended
          held,         \* run files that an outFile nobody deletes has open
          hfsOpen,      \* scans on the source file that are open
          sf            \* sf[s]: the members of object s

vars == <<file, creates, tmp, left, held, hfsOpen, sf>>

(***************************************************************************)
(* phase: "none", "building", "open" or "failed".  pos: records read by    *)
(* sortFile.  scans: runs whose inFile is open.  started is history:       *)
(* next() was called.  status is what the constructor or next() returned.  *)
(***************************************************************************)
NoSorter == [phase |-> "none", pos |-> 0, runs |-> <<>>, scans |-> 0,
             marked |-> FALSE, started |-> FALSE, status |-> "none"]

\* A RUN after startScans: rid and mark are 0 where the code has pageNo -1.
NewRUN == [cur |-> 0, valid |-> FALSE, rid |-> 0, mark |-> 0, scanMark |-> 0]

Sources == {t \in UNION {[1 .. n -> Rec] : n \in 0 .. MaxRecs} : IsInjective(t)}

Init ==
  /\ file \in Sources
  /\ creates \in BOOLEAN
  /\ tmp = [k \in 1 .. MaxRuns |-> NoRun]
  /\ left = {} /\ held = {}
  /\ hfsOpen = 0
  /\ sf = [s \in Sorter |-> NoSorter]

-----------------------------------------------------------------------------
\* A difference of two ints, computed as an int.
Wrap(x) == ((x + INT_MAX + 1) % (2 * INT_MAX + 2)) - INT_MAX - 1

\* reccmp: negative, zero or positive.
reccmp(r, q) == Wrap(r.key - q.key)

\* What qsort can leave of the records t: it need not keep equal ones in order.
Qsorted(t) ==
  {u \in [DOMAIN t -> {t[i] : i \in DOMAIN t}] :
     /\ IsInjective(u)
     /\ \A i, j \in DOMAIN u : i < j => reccmp(u[i], u[j]) <= 0}

Building == \E s \in Sorter : sf[s].phase = "building"

-----------------------------------------------------------------------------
\* The constructor and sortFile up to its loop: a scan on the source is opened.
construct(s) ==
  /\ sf[s].phase = "none" /\ hfsOpen < MaxOpen
  /\ \/ /\ sf' = [sf EXCEPT ![s].phase = "building"]
        /\ hfsOpen' = hfsOpen + 1
     \/ /\ sf' = [sf EXCEPT ![s].phase = "failed"]
        /\ UNCHANGED hfsOpen
  /\ UNCHANGED <<file, creates, tmp, left, held>>

\* A record of the source cannot be read.
sourceFails(s) ==
  /\ sf[s].phase = "building"
  /\ sf' = [sf EXCEPT ![s].phase = "failed"]
  /\ UNCHANGED <<file, creates, tmp, left, held, hfsOpen>>

\* The records that one round of sortFile's loop collects.
chunk(s) == SubSeq(file, sf[s].pos + 1, Min({Len(file), sf[s].pos + MaxItems}))

\* db.createFile of a run file refuses an existing one.
taken(k) == tmp[k] # NoRun

\* generateRun: name the run, check that nobody has a file of that name, and
\* write the sorted records to it.  It may fail before there is a file, or when
\* it has written some of the records; the outFile then stays open.
generateRun(s) ==
  LET k == Len(sf[s].runs) + 1
  IN  /\ sf[s].phase = "building" /\ sf[s].pos < Len(file)
      /\ \/ /\ sf' = [sf EXCEPT ![s].phase = "failed", ![s].runs = Append(@, NewRUN)]
            /\ UNCHANGED <<tmp, held>>
         \/ /\ ~taken(k) /\ creates
            /\ \E u \in Qsorted(chunk(s)), n \in 0 .. Len(chunk(s)) - 1 :
                 tmp' = [tmp EXCEPT ![k] = SubSeq(u, 1, n)]
            /\ held' = held \cup {k}
            /\ sf' = [sf EXCEPT ![s].phase = "failed", ![s].runs = Append(@, NewRUN)]
         \/ /\ ~taken(k) /\ creates
            /\ \E u \in Qsorted(chunk(s)) : tmp' = [tmp EXCEPT ![k] = u]
            /\ sf' = [sf EXCEPT ![s].pos = @ + MaxItems, ![s].runs = Append(@, NewRUN)]
            /\ UNCHANGED held
      /\ UNCHANGED <<file, creates, left, hfsOpen>>

\* The end of sortFile: close the source, startScans, which fails at the first
\* run that cannot be opened.
startScans(s) ==
  /\ sf[s].phase = "building" /\ sf[s].pos >= Len(file)
  /\ \/ sf' = [sf EXCEPT ![s].phase = "open", ![s].status = "opened",
                         ![s].scans = Len(sf[s].runs)]
     \/ \E j \in 0 .. Len(sf[s].runs) - 1 :
          sf' = [sf EXCEPT ![s].phase = "failed", ![s].scans = j]
  /\ hfsOpen' = hfsOpen - 1
  /\ UNCHANGED <<file, creates, tmp, left, held>>

-----------------------------------------------------------------------------
\* next() fetches a record from each run that has none in memory.
Fetched(run, k) ==
  CASE run.valid -> run
    [] ~run.valid /\ run.cur < Len(tmp[k]) ->
         [run EXCEPT !.cur = @ + 1, !.rid = run.cur + 1, !.valid = TRUE]
    [] OTHER -> [run EXCEPT !.rid = 0, !.valid = TRUE]

\* The run with the smallest record, the first of several.
Smallest(rec) ==
  CHOOSE k \in DOMAIN rec : \A j \in DOMAIN rec :
    /\ reccmp(rec[k], rec[j]) <= 0
    /\ j < k => reccmp(rec[j], rec[k]) > 0

TakenFrom(runs, k) == [runs EXCEPT ![k].valid = FALSE]

next(s) ==
  LET runs == [k \in DOMAIN sf[s].runs |-> Fetched(sf[s].runs[k], k)]
      live == {k \in DOMAIN runs : runs[k].rid > 0}
      rec == [k \in live |-> tmp[k][runs[k].cur]]
      k0 == Smallest(rec)
  IN  /\ sf[s].phase = "open"
      /\ \/ /\ live = {}
            /\ sf' = [sf EXCEPT ![s].runs = runs, ![s].started = TRUE, ![s].status = "FILEEOF"]
         \/ /\ live # {}
            /\ sf' = [sf EXCEPT ![s].runs = TakenFrom(runs, k0), ![s].started = TRUE,
                                ![s].status = "OK"]
      /\ UNCHANGED <<file, creates, tmp, left, held, hfsOpen>>

\* Mutant: the run's rid is not remembered.
MarkedScan(run) == [run EXCEPT !.scanMark = run.cur]

Marked(run) == [run EXCEPT !.mark = run.rid, !.scanMark = run.cur]

setMark(s) ==
  /\ sf[s].phase = "open"
  /\ sf' = [sf EXCEPT ![s].marked = TRUE, ![s].runs = [k \in DOMAIN @ |-> Marked(@[k])]]
  /\ UNCHANGED <<file, creates, tmp, left, held, hfsOpen>>

\* gotoMark: resetScan, and the marked record is in memory again.
Reset(run) == [run EXCEPT !.cur = run.scanMark, !.rid = run.mark, !.valid = TRUE]

gotoMark(s) ==
  /\ sf[s].phase = "open" /\ sf[s].marked
  /\ sf' = [sf EXCEPT ![s].runs = [k \in DOMAIN @ |-> Reset(@[k])]]
  /\ UNCHANGED <<file, creates, tmp, left, held, hfsOpen>>

-----------------------------------------------------------------------------
\* Mutant: destroyFile removes open files.
removableAny(s, k) == TRUE

\* db.destroyFile refuses a run file that an outFile or another object has open.
removable(s, k) ==
  /\ k \notin held
  /\ \A q \in Sorter \ {s} : k > sf[q].scans

\* Mutant: the last run file is left.
WithoutLast(s, n) == [k \in 1 .. MaxRuns |-> IF k < n /\ removable(s, k) THEN NoRun ELSE tmp[k]]

\* The run files without the first n of s.
Without(s, n) == [k \in 1 .. MaxRuns |-> IF k <= n /\ removable(s, k) THEN NoRun ELSE tmp[k]]

\* ~SortedFile closes the inFile of each run and destroys its file, those of
\* an object that failed included.  Its scan on the source stays open.
destroy(s) ==
  /\ sf[s].phase \in {"open", "failed"}
  /\ tmp' = Without(s, Len(sf[s].runs))
  /\ left' = {k \in left : tmp'[k] # NoRun}
  /\ sf' = [sf EXCEPT ![s] = NoSorter]
  /\ UNCHANGED <<file, creates, held, hfsOpen>>

\* The program ends without the destructors; the next one finds its run files.
ends(files) ==
  /\ tmp' = files
  /\ left' = {k \in 1 .. MaxRuns : files[k] # NoRun}
  /\ held' = {}
  /\ hfsOpen' = 0
  /\ sf' = [s \in Sorter |-> NoSorter]
  /\ UNCHANGED <<file, creates>>

exit == ends(tmp)

\* ~SortedFile of an object that failed deletes pointers that were never set,
\* which may end the program after some of the files have been destroyed (or
\* before: InsertFileScan's constructor tests a curPage that a failed open left unset).
crash(s) ==
  /\ sf[s].phase = "failed"
  /\ \E n \in 0 .. Len(sf[s].runs) - 1 : ends(Without(s, n))

Next ==
  \E s \in Sorter :
    \/ sourceFails(s) \/ generateRun(s) \/ startScans(s)
    \/ /\ ~Building
       /\ \/ construct(s) \/ next(s) \/ setMark(s) \/ gotoMark(s)
          \/ destroy(s) \/ crash(s) \/ exit

Spec == Init /\ [][Next]_vars

-----------------------------------------------------------------------------
\* Records of the runs of s from the index first(run) of each run on.
From(s, first(_)) ==
  UNION {{tmp[k][i] : i \in first(sf[s].runs[k]) .. Len(tmp[k])} : k \in DOMAIN sf[s].runs}

Far == MaxItems + 1
Upcoming(run) ==
  IF run.valid THEN IF run.rid = 0 THEN Far ELSE run.cur ELSE run.cur + 1
AtMark(run) == IF run.mark = 0 THEN Far ELSE run.scanMark

Cursor == INSTANCE SortCursor WITH
  source <- {file[i] : i \in DOMAIN file},
  rest <- [s \in Sorter |-> IF sf[s].phase = "open" THEN From(s, Upcoming) ELSE {}],
  last <- [s \in Sorter |->
             IF sf[s].phase # "open" THEN {}
             ELSE {tmp[k][sf[s].runs[k].cur] :
                     k \in {j \in DOMAIN sf[s].runs :
                              ~sf[s].runs[j].valid /\ sf[s].runs[j].rid > 0}}],
  started <- [s \in Sorter |-> sf[s].started],
  mark <- [s \in Sorter |-> IF sf[s].marked THEN From(s, AtMark) ELSE NoMark],
  status <- [s \in Sorter |-> sf[s].status]

\* next() returns the records of the source file in ascending order, and
\* gotoMark goes back to the record that setMark marked, however calls of next,
\* setMark and gotoMark follow each other, runs end at different times and other
\* objects sort the same file: the merge with its valid bits and
\* marks implements SortCursor.
ImplementsSortCursor == Cursor!Spec

\* While a SortedFile is open its run files hold the records of the source
\* file, each record once: no object that uses the same names
\* overwrites or destroys them, neither when it fails nor when it is destroyed.
RunFilesKept ==
  \A s \in Sorter : sf[s].phase = "open" =>
    LET K == DOMAIN sf[s].runs
    IN  /\ \A k \in K : tmp[k] # NoRun
        /\ UNION {ToSet(tmp[k]) : k \in K} = ToSet(file)
        /\ \A k, j \in K : \A m \in DOMAIN tmp[k], n \in DOMAIN tmp[j] :
             tmp[k][m] = tmp[j][n] => k = j /\ m = n

\* A run file that exists belongs to an object that will destroy it, was left by
\* a program that ended, or is one that generateRun could not finish, whose outFile
\* is never deleted: no other failure of the constructor leaves a temporary file
\* behind, and ~SortedFile leaves one only if it cannot be removed.
RunFilesOwned ==
  \A k \in 1 .. MaxRuns : tmp[k] # NoRun /\ k \notin left \cup held =>
    \E s \in Sorter : k \in DOMAIN sf[s].runs
=============================================================================
