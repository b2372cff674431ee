--------------------------- MODULE SessionProofs ---------------------------
(***************************************************************************)
(* Invariance proofs about Session, for every set of relations and data    *)
(* files and every bound on the open counts.                               *)
(***************************************************************************)
EXTENDS Session, TLAPS

\* The variables of the catalogs and files have their types.
Types ==
  /\ cat \in [Catalogs -> SUBSET Rel]
  /\ catSaved \in [Catalogs -> SUBSET Rel]
  /\ catDirty \in [Catalogs -> BOOLEAN]
  /\ file \in SUBSET Rel
  /\ openCnt \in [Rel -> Nat]
  /\ stored \in [Rel -> SUBSET Rec]
  /\ saved \in [Rel -> SUBSET Rec]

\* What a quit brings back of a catalog whose page nobody reported: relcat may
\* have lost tuples that come back, attrcat is the same.
CleanCatalogs ==
  /\ ~catDirty["relcat"] => cat["relcat"] \subseteq catSaved["relcat"]
  /\ ~catDirty["attrcat"] => cat["attrcat"] = catSaved["attrcat"]

\* A file that is open exists.
OpenExists == \A r \in Rel : openCnt[r] > 0 => r \in file

\* The inductive invariant.  AttrsHaveRelation and DescribedIsOpenable speak of
\* what a quit restores, for which CleanCatalogs is needed; that createRel adds
\* attributes only to a relation with a file needs OpenExists.
IInv ==
  /\ Types
  /\ CleanCatalogs
  /\ OpenExists
  /\ AttrsHaveRelation
  /\ DescribedIsOpenable

-----------------------------------------------------------------------------
LEMMA InitIInv == Init => IInv
<1> SUFFICES ASSUME Init PROVE IInv
  OBVIOUS
<1>1. Types
  BY DEF Init, Types
<1>2. CleanCatalogs /\ AttrsHaveRelation /\ DescribedIsOpenable
  BY DEF Init, CleanCatalogs, AttrsHaveRelation, DescribedIsOpenable, Catalogs
<1>3. OpenExists
  <2>1. openCnt = [r \in Rel |-> 0]
    BY DEF Init
  <2> QED
    BY <2>1 DEF OpenExists
<1> QED
  BY <1>1, <1>2, <1>3 DEF IInv

\* createRel adds the relation to both catalogs, and it has a file then.
LEMMA createRelKeeps ==
  ASSUME IInv, NEW r \in Rel, createRel(r)
  PROVE  IInv'
<1>1. CASE UNCHANGED <<catVars, fileVars>>
  BY <1>1 DEF catVars, fileVars, IInv, Types, CleanCatalogs, OpenExists,
              AttrsHaveRelation, DescribedIsOpenable
<1>2. CASE /\ cat' = [k \in Catalogs |-> cat[k] \cup {r}]
           /\ catDirty' = [k \in Catalogs |-> catDirty[k] \/ k \in addReports]
           /\ createHeapFile(r)
           /\ UNCHANGED catSaved
  <2>1. /\ file' \in SUBSET Rel /\ file \subseteq file' /\ r \in file'
        /\ openCnt' \in [Rel -> Nat]
        /\ \A q \in Rel : openCnt'[q] > 0 => q \in file'
        /\ stored' \in [Rel -> SUBSET Rec] /\ saved' \in [Rel -> SUBSET Rec]
    <3>1. CASE CanOpen(r)
      <4>1. /\ openCnt' = [openCnt EXCEPT ![r] = @ + 1]
            /\ UNCHANGED <<file, stored, saved>>
        BY <1>2, <3>1 DEF createHeapFile
      <4>2. r \in file
        BY <3>1 DEF CanOpen, IInv, OpenExists
      <4> QED
        BY <4>1, <4>2 DEF IInv, Types, OpenExists
    <3>2. CASE ~CanOpen(r)
      BY <1>2, <3>2 DEF createHeapFile, IInv, Types, OpenExists
    <3> QED
      BY <3>1, <3>2
  <2>2. cat' \in [Catalogs -> SUBSET Rel] /\ catDirty' \in [Catalogs -> BOOLEAN]
    BY <1>2 DEF IInv, Types
  <2>3. Types'
    BY <1>2, <2>1, <2>2 DEF IInv, Types
  <2>4. AttrsHaveRelation' /\ DescribedIsOpenable' /\ CleanCatalogs'
    BY <1>2, <2>1 DEF IInv, Types, AttrsHaveRelation, DescribedIsOpenable, CleanCatalogs, Catalogs, addReports
  <2> QED
    BY <2>1, <2>3, <2>4 DEF IInv, OpenExists
<1> QED
  BY <1>1, <1>2 DEF createRel

\* destroyRel takes the relation out of both catalogs before its file goes.
LEMMA destroyRelKeeps ==
  ASSUME IInv, NEW r \in Rel, destroyRel(r)
  PROVE  IInv'
<1>1. CASE UNCHANGED <<catVars, fileVars>>
  BY <1>1 DEF catVars, fileVars, IInv, Types, CleanCatalogs, OpenExists,
              AttrsHaveRelation, DescribedIsOpenable
<1>2. ASSUME NEW t,
             t = cat \/ t = [cat EXCEPT !["relcat"] = @ \ {r}],
             cat' = dropRelation(r, t),
             catDirty' = [k \in Catalogs |-> catDirty[k] \/ k \in dropReports(r, t)],
             destroyHeapFile(r),
             UNCHANGED catSaved
      PROVE  IInv'
  <2>1. cat' = [k \in Catalogs |-> cat[k] \ {r}]
    BY <1>2 DEF dropRelation, IInv, Types, Catalogs
  <2>2. t["attrcat"] = cat["attrcat"]
    BY <1>2 DEF IInv, Types, Catalogs
  <2>3. catDirty' \in [Catalogs -> BOOLEAN]
    BY <1>2
  <2>4. CleanCatalogs'
    <3>1. ~catDirty'["attrcat"] => ~catDirty["attrcat"] /\ r \notin cat["attrcat"]
      BY <1>2, <2>2 DEF dropReports, Catalogs
    <3>2. ~catDirty'["relcat"] => ~catDirty["relcat"]
      BY <1>2 DEF Catalogs
    <3> QED
      BY <1>2, <2>1, <3>1, <3>2 DEF IInv, CleanCatalogs, Types, Catalogs
  <2>5. /\ file' = IF openCnt[r] > 0 THEN file ELSE file \ {r}
        /\ openCnt' = openCnt
        /\ stored' \in [Rel -> SUBSET Rec] /\ saved' \in [Rel -> SUBSET Rec]
    BY <1>2 DEF destroyHeapFile, IInv, Types
  <2>6. Types'
    BY <1>2, <2>1, <2>3, <2>5 DEF IInv, Types
  <2>7. AttrsHaveRelation' /\ DescribedIsOpenable' /\ OpenExists'
    BY <1>2, <2>1, <2>5 DEF IInv, Types, AttrsHaveRelation, DescribedIsOpenable, OpenExists, Catalogs
  <2> QED
    BY <2>4, <2>6, <2>7 DEF IInv
<1> QED
  BY <1>1, <1>2 DEF destroyRel, removeInfo

\* load opens a file that exists and changes no catalog.
LEMMA loadKeeps ==
  ASSUME IInv, NEW r \in Rel, NEW d \in Rec, load(r, d)
  PROVE  IInv'
<1>1. UNCHANGED catVars
  BY DEF load
<1>2. CASE UNCHANGED fileVars
  BY <1>1, <1>2 DEF catVars, fileVars, IInv, Types, CleanCatalogs, OpenExists,
                    AttrsHaveRelation, DescribedIsOpenable
<1>3. CASE /\ CanOpen(r)
           /\ openCnt' = [openCnt EXCEPT ![r] = @ + 1]
           /\ stored' = [stored EXCEPT ![r] = @ \cup {d}] \/ UNCHANGED stored
           /\ UNCHANGED <<file, saved>>
  <2>1. r \in file
    BY <1>3 DEF CanOpen, IInv, OpenExists
  <2>2. Types' /\ OpenExists'
    BY <1>1, <1>3, <2>1 DEF catVars, IInv, Types, OpenExists
  <2> QED
    BY <1>1, <1>3, <2>2 DEF catVars, IInv, CleanCatalogs, AttrsHaveRelation, DescribedIsOpenable
<1> QED
  BY <1>2, <1>3 DEF load

\* quit brings back what was reported, and what was there before otherwise.
LEMMA quitKeeps ==
  ASSUME IInv, quit
  PROVE  IInv'
<1>1. /\ cat' = [k \in Catalogs |-> IF catDirty[k] THEN cat[k] ELSE catSaved[k]]
      /\ catSaved' = cat'
      /\ catDirty' = [k \in Catalogs |-> FALSE]
      /\ openCnt' = [r \in Rel |-> 0]
      /\ stored' = saved
      /\ UNCHANGED <<file, saved>>
  BY DEF quit
<1>2. Types'
  BY <1>1 DEF IInv, Types
<1>3. CleanCatalogs' /\ OpenExists'
  BY <1>1 DEF CleanCatalogs, OpenExists
<1>4. cat'["attrcat"] = cat["attrcat"]
  BY <1>1 DEF IInv, CleanCatalogs, Catalogs
<1>5. cat["relcat"] \subseteq cat'["relcat"]
  BY <1>1 DEF IInv, CleanCatalogs, Catalogs
<1> QED
  BY <1>1, <1>2, <1>3, <1>4, <1>5 DEF IInv, AttrsHaveRelation, DescribedIsOpenable

LEMMA NextIInv == IInv /\ [Next]_vars => IInv'
<1> SUFFICES ASSUME IInv, [Next]_vars PROVE IInv'
  OBVIOUS
<1>1. ASSUME NEW r \in Rel, print(r) \/ help(r) PROVE IInv'
  BY <1>1 DEF print, help, catVars, fileVars, IInv, Types, CleanCatalogs, OpenExists,
              AttrsHaveRelation, DescribedIsOpenable
<1>2. CASE UNCHANGED vars
  BY <1>2 DEF vars, catVars, fileVars, IInv, Types, CleanCatalogs, OpenExists,
              AttrsHaveRelation, DescribedIsOpenable
<1> QED
  BY <1>1, <1>2, createRelKeeps, destroyRelKeeps, loadKeeps, quitKeeps DEF Next

\* The inductive invariant holds in every reachable state.
THEOREM Invariant == Spec => []IInv
BY InitIInv, NextIInv, PTL DEF Spec

\* Whatever was created, destroyed and lost in earlier runs of minirel, relcat
\* knows each relation whose attributes are in attrcat, now and after a quit.
THEOREM AttrsHaveRelationAlways == Spec => []AttrsHaveRelation
<1>1. IInv => AttrsHaveRelation
  BY DEF IInv
<1> QED
  BY <1>1, Invariant, PTL

\* A relation whose attributes attrcat has can be opened by load and print.
THEOREM DescribedIsOpenableAlways == Spec => []DescribedIsOpenable
<1>1. IInv => DescribedIsOpenable
  BY DEF IInv
<1> QED
  BY <1>1, Invariant, PTL

-----------------------------------------------------------------------------
\* destroyRel answers OK only after it has taken the relation out of both
\* catalogs and removed its file, however the values that removeInfo never set
\* turn out.
THEOREM DestroyedIsGoneAlways == Spec => []DestroyedIsGone
<1>1. Init => DestroyedIsGone
  BY DEF Init, DestroyedIsGone
<1>2. IInv /\ DestroyedIsGone /\ [Next]_vars => DestroyedIsGone'
  <2> SUFFICES ASSUME IInv, DestroyedIsGone, [Next]_vars PROVE DestroyedIsGone'
    OBVIOUS
  <2>1. ASSUME NEW r \in Rel, createRel(r) \/ print(r) \/ help(r) PROVE DestroyedIsGone'
    BY <2>1 DEF createRel, print, help, Answer, DestroyedIsGone
  <2>2. ASSUME NEW r \in Rel, NEW d \in Rec, load(r, d) PROVE DestroyedIsGone'
    BY <2>2 DEF load, Answer, DestroyedIsGone
  <2>3. CASE quit
    BY <2>3 DEF quit, Answer, DestroyedIsGone
  <2>4. ASSUME NEW r \in Rel, destroyRel(r) PROVE DestroyedIsGone'
    <3>1. CASE last' = [op |-> "destroy", rel |-> r, status |-> "garbage"]
      BY <3>1 DEF DestroyedIsGone
    <3>2. ASSUME NEW t, cat' = dropRelation(r, t), destroyHeapFile(r)
          PROVE  DestroyedIsGone'
      <4>1. last'.rel = r /\ last'.op = "destroy" /\ (last'.status = "OK" => r \notin file')
        BY <3>2 DEF destroyHeapFile, Answer, IInv, Types
      <4>2. \A k \in Catalogs : r \notin cat'[k]
        BY <3>2 DEF dropRelation
      <4> QED
        BY <4>1, <4>2 DEF DestroyedIsGone
    <3> QED
      BY <2>4, <3>1, <3>2 DEF destroyRel, Answer
  <2>5. CASE UNCHANGED vars
    BY <2>5 DEF vars, catVars, fileVars, DestroyedIsGone
  <2> QED
    BY <2>1, <2>2, <2>3, <2>4, <2>5 DEF Next
<1> QED
  BY <1>1, <1>2, Invariant, PTL DEF Spec

\* A file that relcat does not know arises only from a destroyRel that answered
\* FILEOPEN, over any number of commands and quits.
THEOREM OrphansAnnouncedAlways == Spec => OrphansAnnounced
<1> DEFINE Announced == {r \in Rel : last' = [op |-> "destroy", rel |-> r, status |-> "FILEOPEN"]}
           A == Orphans' \subseteq Orphans \cup Announced
<1>1. IInv /\ [Next]_vars => [A]_vars
  <2> SUFFICES ASSUME IInv, Next PROVE A
    OBVIOUS
  <2> USE DEF Orphans
  <2>1. ASSUME NEW r \in Rel, createRel(r) PROVE A
    <3>1. CASE UNCHANGED <<catVars, fileVars>>
      BY <3>1 DEF catVars, fileVars
    <3>2. CASE cat' = [k \in Catalogs |-> cat[k] \cup {r}] /\ createHeapFile(r)
      <4>1. cat'["relcat"] = cat["relcat"] \cup {r}
        BY <3>2 DEF Catalogs
      <4>2. file' \subseteq file \cup {r}
        BY <3>2 DEF createHeapFile
      <4> QED
        BY <4>1, <4>2
    <3> QED
      BY <2>1, <3>1, <3>2 DEF createRel
  <2>2. ASSUME NEW r \in Rel, destroyRel(r) PROVE A
    <3>1. CASE UNCHANGED <<catVars, fileVars>>
      BY <3>1 DEF catVars, fileVars
    <3>2. ASSUME NEW begins \in BOOLEAN,
                 cat' = dropRelation(r, removeInfo(r, begins)), destroyHeapFile(r)
          PROVE  A
      <4>1. cat["relcat"] \ {r} \subseteq cat'["relcat"]
        BY <3>2 DEF dropRelation, removeInfo, Catalogs, IInv, Types
      <4>2. file' \subseteq file /\ (r \in file' => openCnt[r] > 0)
        BY <3>2 DEF destroyHeapFile
      <4>3. openCnt[r] > 0 => r \in Announced
        BY <3>2 DEF destroyHeapFile, Answer
      <4> QED
        BY <4>1, <4>2, <4>3
    <3> QED
      BY <2>2, <3>1, <3>2 DEF destroyRel
  <2>3. ASSUME NEW r \in Rel, print(r) \/ help(r) PROVE A
    BY <2>3 DEF print, help, catVars, fileVars
  <2>4. ASSUME NEW r \in Rel, NEW d \in Rec, load(r, d) PROVE A
    BY <2>4 DEF load, catVars, fileVars
  <2>5. CASE quit
    <3>1. cat'["relcat"] = IF catDirty["relcat"] THEN cat["relcat"] ELSE catSaved["relcat"]
      BY <2>5 DEF quit, Catalogs
    <3>2. cat["relcat"] \subseteq cat'["relcat"] /\ file' = file
      BY <2>5, <3>1 DEF quit, IInv, CleanCatalogs
    <3> QED
      BY <3>2
  <2> QED
    BY <2>1, <2>2, <2>3, <2>4, <2>5 DEF Next
<1> QED
  BY <1>1, Invariant, PTL DEF Spec, OrphansAnnounced
=============================================================================
