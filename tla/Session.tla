------------------------------ MODULE Session ------------------------------
(***************************************************************************)
(* A database over several runs of minirel: the catalogs (catalog.cpp),    *)
(* the commands that change them (create.cpp, destroy.cpp, load.cpp,       *)
(* print.cpp, help.cpp), the table of open files (db.cpp) and the end of a *)
(* run (quit.cpp).  One action is one command.                             *)
(*                                                                         *)
(* relCat and attrCat hold a pin on their catalog's page for a whole run,  *)
(* so the page never leaves the buffer pool before ~BufMgr, which writes   *)
(* it if some unPinPage said dirty.  Most scans of the catalogs are given  *)
(* back with free() instead of delete: no destructor runs, the file stays  *)
(* open, and a change that only the destructor would report is not kept.   *)
(*                                                                         *)
(* Bounds: a catalog fits on one page, and so does what is loaded into a   *)
(* relation.  I/O succeeds.                                                *)
(***************************************************************************)
EXTENDS Integers

CONSTANTS Rel,          \* names of user relations
          Rec,          \* data files that load can read
          MaxOpen       \* bound: open count of a relation's file

ASSUME SessionAssumption == MaxOpen \in Nat \ {0}

Catalogs == {"relcat", "attrcat"}

VARIABLES cat,          \* cat[k]: user relations with tuples in catalog k
          catSaved,     \* the same in the Unix file
          catDirty,     \* catDirty[k]: the page of catalog k was unpinned dirty
          file,         \* relations whose Unix file exists
          openCnt,      \* openCnt[r]: File::openCnt; 0 when not in openFiles
          stored,       \* stored[r]: what a scan of the file finds
          saved,        \* saved[r]: the same in the Unix file
          last          \* the last command: [op, rel, status]

catVars == <<cat, catSaved, catDirty>>
fileVars == <<file, openCnt, stored, saved>>
vars == <<catVars, fileVars, last>>

\* What dbcreate leaves, as the first run finds it.
Init ==
  /\ cat = [k \in Catalogs |-> {}]
  /\ catSaved = cat
  /\ catDirty = [k \in Catalogs |-> FALSE]
  /\ file = {}
  /\ openCnt = [r \in Rel |-> 0]
  /\ stored = [r \in Rel |-> {}]
  /\ saved = stored
  /\ last = [op |-> "start", rel |-> "", status |-> "OK"]

Answer(op, r, status) == last' = [op |-> op, rel |-> r, status |-> status]

\* DB::openFile: the entry in openFiles, or a new File on an existing Unix file.
CanOpen(r) == openCnt[r] > 0 \/ r \in file

\* RelCatalog::getInfo; what its scan leaves open is in OpenFiles.
getInfo(r) == r \in cat["relcat"]

-----------------------------------------------------------------------------
\* createHeapFile creates the file only if it cannot be opened.  A file that
\* can be opened stays open (FILEEXISTS).
createHeapFile(r) ==
  IF CanOpen(r)
  THEN /\ openCnt[r] < MaxOpen
       /\ openCnt' = [openCnt EXCEPT ![r] = @ + 1]
       /\ UNCHANGED <<file, stored, saved>>
  ELSE /\ file' = file \cup {r}
       /\ stored' = [stored EXCEPT ![r] = {}]
       /\ saved' = [saved EXCEPT ![r] = {}]
       /\ UNCHANGED openCnt

\* Mutant: RelCatalog::addInfo does not delete its InsertFileScan.
addedOnlyAttrcat == {"attrcat"}

\* The catalogs whose addInfo deletes its InsertFileScan, which reports the
\* page as dirty: both.
addReports == Catalogs

\* RelCatalog::createRel.
createRel(r) ==
  \/ /\ getInfo(r)
     /\ Answer("create", r, "RELEXISTS")
     /\ UNCHANGED <<catVars, fileVars>>
  \/ /\ ~getInfo(r)
     /\ cat' = [k \in Catalogs |-> cat[k] \cup {r}]
     /\ catDirty' = [k \in Catalogs |-> catDirty[k] \/ k \in addReports]
     /\ createHeapFile(r)
     /\ Answer("create", r, IF CanOpen(r) THEN "FILEEXISTS" ELSE "OK")
     /\ UNCHANGED catSaved

-----------------------------------------------------------------------------
(***************************************************************************)
(* RelCatalog::removeInfo tests a Status it never set, and falls off its   *)
(* end if it does not find the tuple.  "begins": the garbage tested is OK; *)
(* "falls": the garbage returned is OK.                                    *)
(***************************************************************************)
removeInfo(r, begins) ==
  IF begins THEN [cat EXCEPT !["relcat"] = @ \ {r}] ELSE cat

removeInfoOK(r, begins, falls) == ~begins \/ r \in cat["relcat"] \/ falls

\* Mutants: dropRelation scans only relcat, or only attrcat, or omits the
\* endScan that reports the deletions from attrcat.
dropFromRelcat(r, t) == [t EXCEPT !["relcat"] = @ \ {r}]
dropFromAttrcat(r, t) == [t EXCEPT !["attrcat"] = @ \ {r}]
reportsRelcat(r, t) == {k \in {"relcat"} : r \in t[k]}

\* AttrCatalog::dropRelation scans both catalogs, t, for the relation's tuples;
\* endScan reports the pages it deleted from.
dropRelation(r, t) == [k \in Catalogs |-> t[k] \ {r}]
dropReports(r, t) == {k \in Catalogs : r \in t[k]}

\* DB::destroyFile.
destroyHeapFile(r) ==
  /\ file' = IF openCnt[r] > 0 THEN file ELSE file \ {r}
  /\ stored' = [stored EXCEPT ![r] = IF openCnt[r] > 0 THEN @ ELSE {}]
  /\ saved' = [saved EXCEPT ![r] = IF openCnt[r] > 0 THEN @ ELSE {}]
  /\ Answer("destroy", r, CASE openCnt[r] > 0 -> "FILEOPEN"
                            [] openCnt[r] = 0 /\ r \in file -> "OK"
                            [] OTHER -> "UNIXERR")
  /\ UNCHANGED openCnt

\* RelCatalog::destroyRel.
destroyRel(r) ==
  \E begins, falls \in BOOLEAN :
    LET t == removeInfo(r, begins)
    IN  \/ /\ removeInfoOK(r, begins, falls)
           /\ cat' = dropRelation(r, t)
           /\ catDirty' = [k \in Catalogs |-> catDirty[k] \/ k \in dropReports(r, t)]
           /\ destroyHeapFile(r)
           /\ UNCHANGED catSaved
        \/ /\ ~removeInfoOK(r, begins, falls)
           /\ Answer("destroy", r, "garbage")
           /\ UNCHANGED <<catVars, fileVars>>

-----------------------------------------------------------------------------
(***************************************************************************)
(* UT_Load of a data file.  The InsertFileScan is never deleted: the file  *)
(* stays open, and neither its page nor its header is ever reported.       *)
(* Without attribute tuples getRelInfo answers OK with a garbage width,    *)
(* and no record, or some, may be read with it.                            *)
(***************************************************************************)
load(r, d) ==
  \/ /\ ~getInfo(r)
     /\ Answer("load", r, "RELNOTFOUND")
     /\ UNCHANGED <<catVars, fileVars>>
  \/ /\ getInfo(r)
     /\ \/ /\ ~CanOpen(r)
           /\ Answer("load", r, "UNIXERR")
           /\ UNCHANGED fileVars
        \/ /\ CanOpen(r)
           /\ openCnt[r] < MaxOpen
           /\ openCnt' = [openCnt EXCEPT ![r] = @ + 1]
           /\ \/ stored' = [stored EXCEPT ![r] = @ \cup {d}]
              \/ r \notin cat["attrcat"] /\ UNCHANGED stored
           /\ Answer("load", r, "OK")
           /\ UNCHANGED <<file, saved>>
     /\ UNCHANGED catVars

\* UT_Print: the scan of the relation is deleted, and with it the file closed;
\* the pages of a file that nobody else has open are then flushed.  They are
\* clean: a change in the pool belongs to a file that load has left open.
print(r) ==
  /\ Answer("print", r, CASE ~getInfo(r) -> "RELNOTFOUND"
                          [] getInfo(r) /\ ~CanOpen(r) -> "UNIXERR"
                          [] OTHER -> "OK")
  /\ UNCHANGED <<catVars, fileVars>>

\* RelCatalog::help of a relation.
help(r) ==
  /\ Answer("help", r, IF getInfo(r) THEN "OK" ELSE "RELNOTFOUND")
  /\ UNCHANGED <<catVars, fileVars>>

\* UT_Quit, and main of the next run.  ~BufMgr writes the pages that were
\* reported as dirty.
quit ==
  /\ catSaved' = [k \in Catalogs |-> IF catDirty[k] THEN cat[k] ELSE catSaved[k]]
  /\ cat' = catSaved'
  /\ catDirty' = [k \in Catalogs |-> FALSE]
  /\ openCnt' = [r \in Rel |-> 0]
  /\ stored' = saved
  /\ Answer("quit", "", "OK")
  /\ UNCHANGED <<file, saved>>

Next ==
  \/ \E r \in Rel :
       \/ createRel(r) \/ destroyRel(r) \/ print(r) \/ help(r)
       \/ \E d \in Rec : load(r, d)
  \/ quit

Spec == Init /\ [][Next]_vars

-----------------------------------------------------------------------------
\* No attribute tuples are left of a relation that relcat does not know, not
\* even across a quit, which may undo the deletion from relcat: createRel, which
\* asks relcat alone, never adds a relation's attributes a second time.
AttrsHaveRelation ==
  cat["attrcat"] \subseteq cat["relcat"] /\ catSaved["attrcat"] \subseteq catSaved["relcat"]

\* A relation with its attributes in attrcat has a file: load and print of a
\* relation that the catalogs describe in full never fail to open it.
DescribedIsOpenable == cat["attrcat"] \subseteq file

\* A file that relcat does not know is left by nothing but a destroyRel that
\* says so with FILEOPEN: no quit, which may undo what commands did to the
\* catalogs, and no other status of a command leaves one.
Orphans == file \ cat["relcat"]

OrphansAnnounced ==
  [][Orphans' \subseteq Orphans \cup
       {r \in Rel : last' = [op |-> "destroy", rel |-> r, status |-> "FILEOPEN"]}]_vars

\* destroyRel answers OK only when nothing of the relation is left, whichever
\* way removeInfo's uninitialised values fall.
DestroyedIsGone ==
  last.op = "destroy" /\ last.status = "OK" =>
    /\ \A k \in Catalogs : last.rel \notin cat[k]
    /\ last.rel \notin file

\* "delete bufMgr to flush out all dirty pages" (quit.cpp:30): a quit changes
\* neither what the catalogs say nor what a scan of a relation finds.
QuitKeepsAll ==
  [][last'.op = "quit" => cat' = cat /\ stored' = stored]_vars
=============================================================================
