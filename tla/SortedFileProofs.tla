-------------------------- MODULE SortedFileProofs --------------------------
(***************************************************************************)
(* Proofs about SortedFile, for every source file, number of records per   *)
(* run and set of SortedFile objects: the run files of an open object are  *)
(* kept, no run file is orphaned, and the merge implements SortCursor.     *)
(***************************************************************************)
EXTENDS SortedFile, FiniteSetTheorems, WellFoundedInduction, TLAPS

RUN == [cur : Nat, valid : BOOLEAN, rid : Nat, mark : Nat, scanMark : Nat]

Sorters == [phase : {"none", "building", "open", "failed"}, pos : Nat,
            runs : Seq(RUN), scans : Nat, marked : BOOLEAN, started : BOOLEAN,
            status : {"none", "opened", "OK", "FILEEOF"}]

\* The variables have their types.
Types ==
  /\ file \in Seq(Rec) /\ IsInjective(file) /\ Len(file) <= MaxRecs
  /\ creates \in BOOLEAN
  /\ DOMAIN tmp = 1 .. MaxRuns
  /\ sf \in [Sorter -> Sorters]

\* The records of the source file that go to run k.
Lo(k) == (k - 1) * MaxItems + 1
Hi(k) == IF Len(file) < k * MaxItems THEN Len(file) ELSE k * MaxItems

\* What generateRun leaves in run file k: these records, each once, in the order
\* of their keys.
IsRun(u, k) ==
  /\ u \in [1 .. Hi(k) - Lo(k) + 1 -> Rec]
  /\ IsInjective(u)
  /\ \A r : r \in ToSet(u) <=> \E i \in Lo(k) .. Hi(k) : r = file[i]
  /\ \A i, j \in DOMAIN u : i < j => u[i].key <= u[j].key

\* The run files of s are those of the first n runs.
HasRuns(s) ==
  \A k \in DOMAIN sf[s].runs :
    /\ k \in 1 .. MaxRuns /\ Lo(k) <= Len(file)
    /\ IsRun(tmp[k], k)

\* The position and the mark of a run of n records.  A record in memory is the
\* current one; a run that nothing was fetched from has not begun.
RunOK(run, n, started) ==
  /\ run.cur \in 0 .. n /\ run.rid \in {0, run.cur}
  /\ run.scanMark \in 0 .. n /\ run.mark \in {0, run.scanMark}
  /\ ~run.valid /\ run.rid = 0 => run.cur = 0 /\ ~started
  /\ ~started => run.rid = 0 /\ run.mark = 0

\* A constructor has read exactly what its runs hold.
BuildingOK(s) ==
  /\ HasRuns(s)
  /\ sf[s].pos = Len(sf[s].runs) * MaxItems
  /\ \A k \in DOMAIN sf[s].runs : sf[s].runs[k] = NewRUN

\* An open object has the runs of the whole file.
OpenOK(s) ==
  /\ HasRuns(s)
  /\ Len(file) <= Len(sf[s].runs) * MaxItems
  /\ sf[s].scans = Len(sf[s].runs)
  /\ sf[s].status # "none"
  /\ \A k \in DOMAIN sf[s].runs : RunOK(sf[s].runs[k], Len(tmp[k]), sf[s].started)

\* An object that is not open has returned nothing.
SorterOK(s) ==
  /\ sf[s].phase = "building" => BuildingOK(s)
  /\ sf[s].phase = "open" => OpenOK(s)
  /\ sf[s].phase # "open" => ~sf[s].marked /\ ~sf[s].started /\ sf[s].status = "none"
  /\ sf[s].phase = "none" => sf[s] = NoSorter
  /\ sf[s].scans <= Len(sf[s].runs)

OneBuilder ==
  \A s, q \in Sorter : sf[s].phase = "building" /\ sf[q].phase = "building" => s = q

\* The inductive invariant.  That run files are kept rests on what a constructor
\* has done when it ends (BuildingOK); RunOK is what the refinement needs.
IInv == Types /\ OneBuilder /\ (\A s \in Sorter : SorterOK(s)) /\ RunFilesOwned

-----------------------------------------------------------------------------
(***************************************************************************)
(* Numbers, and the order of keys.                                         *)
(***************************************************************************)
LEMMA Times ==
  ASSUME NEW a \in Nat, NEW M \in Nat
  PROVE  (a + 1) * M = a * M + M /\ a * M \in Nat
OBVIOUS

LEMMA TimesMonotonic ==
  ASSUME NEW a \in Nat, NEW b \in Nat, a <= b, NEW M \in Nat
  PROVE  a * M <= b * M
OBVIOUS

LEMMA AsSequence ==
  ASSUME NEW T, NEW n \in Nat, NEW u \in [1 .. n -> T]
  PROVE  u \in Seq(T) /\ Len(u) = n /\ DOMAIN u = 1 .. n
OBVIOUS

LEMMA Division ==
  ASSUME NEW k \in Nat, NEW R \in Nat, NEW M \in Nat \ {0}, k * M < R
  PROVE  k + 1 <= (R + M - 1) \div M
OBVIOUS

\* Every position is in the run that its number divided by M gives.
LEMMA Quotient ==
  ASSUME NEW i \in Nat \ {0}, NEW M \in Nat \ {0}
  PROVE  \E k \in Nat : k * M < i /\ i <= k * M + M
<1>1. (i - 1) \div M \in Nat
  OBVIOUS
<1>2. ((i - 1) \div M) * M <= i - 1 /\ i - 1 < ((i - 1) \div M) * M + M
  OBVIOUS
<1>3. PICK d \in Nat : d = (i - 1) \div M
  BY <1>1
<1>4. d * M <= i - 1 /\ i - 1 < d * M + M
  BY <1>2, <1>3
<1> QED
  BY <1>4

LEMMA ModSmall ==
  ASSUME NEW a \in Nat, NEW M \in Nat \ {0}, a < M
  PROVE  a % M = a
OBVIOUS

\* A non-empty set of naturals has a least element.
LEMMA Least ==
  ASSUME NEW S \in SUBSET Nat, S # {}
  PROVE  \E m \in S : \A y \in S : m <= y
<1>1. PICK m \in S : \A y \in S : <<y, m>> \notin OpToRel(<, Nat)
  BY NatLessThanWellFounded, WFMin
<1>2. \A y \in S : ~(y < m)
  BY <1>1 DEF OpToRel
<1> QED
  BY <1>2

LEMMA MinOfTwo ==
  ASSUME NEW a \in Nat, NEW b \in Nat
  PROVE  Min({a, b}) = IF a < b THEN a ELSE b
BY DEF Min

\* The difference of two keys does not overflow.
LEMMA Keys ==
  ASSUME NEW r \in Rec, NEW q \in Rec
  PROVE  r.key \in Int /\ q.key \in Int /\ reccmp(r, q) = r.key - q.key
<1>1. /\ r.key \in Int /\ q.key \in Int /\ INT_MAX \in Nat
      /\ r.key - q.key <= INT_MAX /\ q.key - r.key <= INT_MAX
  BY SortedFileAssumption DEF Rec
<1> DEFINE a == r.key - q.key + INT_MAX + 1
           M == 2 * INT_MAX + 2
<1>2. a \in Nat /\ M \in Nat \ {0} /\ a < M
  BY <1>1
<1> HIDE DEF M, a
<1>3. a % M = a
  BY <1>2, ModSmall
<1> QED
  BY <1>1, <1>3 DEF reccmp, Wrap, a, M

-----------------------------------------------------------------------------
(***************************************************************************)
(* How sortFile cuts the source file into runs.                            *)
(***************************************************************************)
LEMMA Bounds ==
  ASSUME Types, NEW k \in Nat \ {0}, Lo(k) <= Len(file)
  PROVE  /\ Lo(k) \in Nat /\ Hi(k) \in Nat /\ Len(file) \in Nat
         /\ 1 <= Lo(k) /\ Lo(k) <= Hi(k) /\ Hi(k) <= Len(file)
         /\ Hi(k) - Lo(k) + 1 \in 1 .. MaxItems
         /\ k \in 1 .. MaxRuns
<1>1. /\ MaxItems \in Nat \ {0} /\ MaxRecs \in Nat
      /\ Len(file) \in Nat /\ Len(file) <= MaxRecs
  BY SortedFileAssumption DEF Types
<1>2. PICK n \in Nat : k = n + 1
  <2>1. k - 1 \in Nat /\ k = (k - 1) + 1
    OBVIOUS
  <2> QED
    BY <2>1
<1>3. n * MaxItems \in Nat /\ k * MaxItems = n * MaxItems + MaxItems
  BY <1>1, <1>2, Times
<1>4. Lo(k) = n * MaxItems + 1
  <2>1. k - 1 = n
    BY <1>2
  <2> QED
    BY <2>1 DEF Lo
<1> DEFINE x == n * MaxItems
<1>5. /\ x \in Nat /\ k * MaxItems = x + MaxItems /\ Lo(k) = x + 1 /\ x < Len(file)
      /\ Hi(k) = IF Len(file) < x + MaxItems THEN Len(file) ELSE x + MaxItems
  <2>1. Hi(k) = IF Len(file) < k * MaxItems THEN Len(file) ELSE k * MaxItems
    BY DEF Hi
  <2>2. x < Len(file)
    BY <1>1, <1>3, <1>4
  <2> QED
    BY <1>3, <1>4, <2>1, <2>2
<1>6. n + 1 <= MaxRuns
  <2>1. n * MaxItems < MaxRecs
    BY <1>1, <1>5
  <2> QED
    BY <1>1, <2>1, Division DEF MaxRuns
<1> HIDE DEF x
<1>7. k \in 1 .. MaxRuns
  BY <1>1, <1>2, <1>6 DEF MaxRuns
<1> QED
  BY <1>1, <1>5, <1>7

\* Runs have no position in common.
LEMMA Apart ==
  ASSUME Types, NEW k \in Nat \ {0}, NEW j \in Nat \ {0}, k < j, Lo(j) <= Len(file)
  PROVE  Hi(k) < Lo(j)
<1>1. MaxItems \in Nat /\ Len(file) \in Nat
  BY SortedFileAssumption DEF Types
<1>2. PICK n \in Nat : n = j - 1 /\ k <= n
  OBVIOUS
<1>3. k * MaxItems <= n * MaxItems /\ k * MaxItems \in Nat /\ n * MaxItems \in Nat
  BY <1>1, <1>2, TimesMonotonic, Times
<1>4. Lo(j) = n * MaxItems + 1
  BY <1>2 DEF Lo
<1>5. Hi(k) <= k * MaxItems
  BY <1>1, <1>3 DEF Hi
<1>6. Hi(k) \in Nat
  BY <1>1, <1>3 DEF Hi
<1> QED
  BY <1>3, <1>4, <1>5, <1>6

\* Every position is in a run.
LEMMA Covered ==
  ASSUME Types, NEW n \in Nat, Len(file) <= n * MaxItems, NEW i \in 1 .. Len(file)
  PROVE  \E k \in 1 .. n : i \in Lo(k) .. Hi(k)
<1>1. MaxItems \in Nat \ {0} /\ Len(file) \in Nat /\ i \in Nat \ {0} /\ i <= Len(file)
  BY SortedFileAssumption DEF Types
<1>2. PICK m \in Nat : m * MaxItems < i /\ i <= m * MaxItems + MaxItems
  BY <1>1, Quotient
<1>3. m * MaxItems \in Nat /\ (m + 1) * MaxItems = m * MaxItems + MaxItems /\ n * MaxItems \in Nat
  BY <1>1, Times
<1>4. m < n
  <2> SUFFICES ASSUME n <= m PROVE FALSE
    OBVIOUS
  <2>1. n * MaxItems <= m * MaxItems
    BY <1>1, TimesMonotonic
  <2> QED
    BY <1>1, <1>2, <1>3, <2>1
<1>5. m + 1 \in 1 .. n
  BY <1>4
<1>6. Lo(m + 1) = m * MaxItems + 1
  <2>1. (m + 1) - 1 = m
    OBVIOUS
  <2> QED
    BY <2>1 DEF Lo
<1>7. Hi(m + 1) \in Nat /\ i <= Hi(m + 1)
  BY <1>1, <1>2, <1>3 DEF Hi
<1>8. i \in Lo(m + 1) .. Hi(m + 1)
  BY <1>1, <1>2, <1>3, <1>6, <1>7
<1> QED
  BY <1>5, <1>8

\* The records that sortFile collects for run k.
LEMMA Chunk ==
  ASSUME Types, NEW s \in Sorter, NEW k \in Nat \ {0}, Lo(k) <= Len(file),
         sf[s].pos = (k - 1) * MaxItems
  PROVE  /\ DOMAIN chunk(s) = 1 .. Hi(k) - Lo(k) + 1
         /\ \A i \in DOMAIN chunk(s) : chunk(s)[i] = file[Lo(k) + i - 1]
<1>1. /\ Lo(k) \in Nat /\ Hi(k) \in Nat /\ Len(file) \in Nat
      /\ 1 <= Lo(k) /\ Lo(k) <= Hi(k) /\ Hi(k) <= Len(file)
      /\ file \in Seq(Rec) /\ MaxItems \in Nat
  BY Bounds, SortedFileAssumption DEF Types
<1>2. sf[s].pos + 1 = Lo(k)
  BY DEF Lo
<1>3. sf[s].pos + MaxItems = k * MaxItems /\ k * MaxItems \in Nat
  <2>1. k - 1 \in Nat /\ (k - 1) + 1 = k
    OBVIOUS
  <2> QED
    BY <1>1, <2>1, Times
<1>4. Min({Len(file), sf[s].pos + MaxItems}) = Hi(k)
  BY <1>1, <1>3, MinOfTwo DEF Hi
<1>5. chunk(s) = SubSeq(file, Lo(k), Hi(k))
  BY <1>2, <1>4 DEF chunk
<1> QED
  BY <1>1, <1>5

\* A sorted permutation of these is run k.
LEMMA SortedIsRun ==
  ASSUME Types, NEW s \in Sorter, NEW k \in Nat \ {0}, Lo(k) <= Len(file),
         sf[s].pos = (k - 1) * MaxItems, NEW u \in Qsorted(chunk(s))
  PROVE  IsRun(u, k)
<1> DEFINE t == chunk(s)
           n == Hi(k) - Lo(k) + 1
           R == {t[i] : i \in DOMAIN t}
<1>1. /\ Lo(k) \in Nat /\ Hi(k) \in Nat /\ Len(file) \in Nat
      /\ 1 <= Lo(k) /\ Lo(k) <= Hi(k) /\ Hi(k) <= Len(file)
      /\ n \in Nat
  BY Bounds
<1>2. DOMAIN t = 1 .. n /\ \A i \in 1 .. n : t[i] = file[Lo(k) + i - 1]
  BY Chunk
<1>3. \A i \in 1 .. n : Lo(k) + i - 1 \in Lo(k) .. Hi(k) /\ Lo(k) + i - 1 \in 1 .. Len(file)
  BY <1>1
<1>4. \A r : r \in R <=> \E i \in Lo(k) .. Hi(k) : r = file[i]
  <2>1. \A i \in Lo(k) .. Hi(k) : i - Lo(k) + 1 \in 1 .. n /\ Lo(k) + (i - Lo(k) + 1) - 1 = i
    BY <1>1
  <2> QED
    BY <1>2, <1>3, <2>1
<1>5. file \in [1 .. Len(file) -> Rec] /\ IsInjective(file)
  BY DEF Types
<1>6. R \subseteq Rec
  BY <1>2, <1>3, <1>5
<1>7. \A i, j \in 1 .. n : t[i] = t[j] => i = j
  <2> SUFFICES ASSUME NEW i \in 1 .. n, NEW j \in 1 .. n, t[i] = t[j] PROVE i = j
    OBVIOUS
  <2>1. Lo(k) + i - 1 = Lo(k) + j - 1
    BY <1>2, <1>3, <1>5 DEF IsInjective
  <2> QED
    BY <1>1, <2>1
<1>8. /\ u \in [1 .. n -> R] /\ IsInjective(u)
      /\ \A i, j \in 1 .. n : i < j => reccmp(u[i], u[j]) <= 0
  BY <1>2 DEF Qsorted
<1> HIDE DEF n, t, R
<1>9. \A r \in R : \E i \in 1 .. n : u[i] = r
  <2> DEFINE f == [i \in 1 .. n |-> t[i]]
  <2>1. f \in Injection(1 .. n, R) /\ f \in Surjection(1 .. n, R)
    BY <1>2, <1>7 DEF Injection, Surjection, IsInjective, R
  <2>2. IsFiniteSet(1 .. n)
    BY <1>1, FS_Interval
  <2>3. IsFiniteSet(R) /\ Cardinality(R) = Cardinality(1 .. n)
    BY <2>1, <2>2, FS_Surjection
  <2>4. u \in Injection(1 .. n, R)
    BY <1>8 DEF Injection
  <2>5. u \in Surjection(1 .. n, R)
    BY <2>3, <2>4, FS_Injection
  <2> QED
    BY <2>5 DEF Surjection
<1>10. \A r : r \in ToSet(u) <=> r \in R
  BY <1>8, <1>9 DEF ToSet
<1>11. \A i, j \in 1 .. n : i < j => u[i].key <= u[j].key
  <2> SUFFICES ASSUME NEW i \in 1 .. n, NEW j \in 1 .. n, i < j PROVE u[i].key <= u[j].key
    OBVIOUS
  <2>1. u[i] \in Rec /\ u[j] \in Rec
    BY <1>6, <1>8
  <2> QED
    BY <1>8, <2>1, Keys
<1>12. u \in [1 .. n -> Rec]
  BY <1>6, <1>8
<1> QED
  BY <1>4, <1>8, <1>10, <1>11, <1>12 DEF IsRun, n

\* A run file holds a sequence of at most MaxItems records.
LEMMA RunFacts ==
  ASSUME Types, NEW k \in Nat \ {0}, Lo(k) <= Len(file), NEW u, IsRun(u, k)
  PROVE  /\ u \in Seq(Rec) /\ Len(u) = Hi(k) - Lo(k) + 1 /\ DOMAIN u = 1 .. Len(u)
         /\ Len(u) \in 1 .. MaxItems /\ u # NoRun
<1>1. Hi(k) - Lo(k) + 1 \in 1 .. MaxItems /\ MaxItems \in Nat
  BY Bounds, SortedFileAssumption
<1>2. u \in [1 .. Hi(k) - Lo(k) + 1 -> Rec]
  BY DEF IsRun
<1> DEFINE n == Hi(k) - Lo(k) + 1
<1>3. n \in 1 .. MaxItems /\ u \in [1 .. n -> Rec]
  BY <1>1, <1>2
<1>4. u # NoRun
  BY <1>1, <1>3, AbsentAssumption
<1> HIDE DEF n
<1>5. u \in Seq(Rec) /\ Len(u) = n /\ DOMAIN u = 1 .. n
  BY <1>1, <1>3
<1> QED
  BY <1>3, <1>4, <1>5 DEF n

-----------------------------------------------------------------------------
(***************************************************************************)
(* Steps.                                                                  *)
(***************************************************************************)
LEMMA InitIInv == Init => IInv
<1> SUFFICES ASSUME Init PROVE IInv
  OBVIOUS
<1>1. file \in Seq(Rec) /\ IsInjective(file) /\ Len(file) <= MaxRecs
  <2>1. PICK n \in 0 .. MaxRecs : file \in [1 .. n -> Rec]
    BY DEF Init, Sources
  <2>2. n \in Nat /\ n <= MaxRecs
    BY <2>1, SortedFileAssumption
  <2> QED
    BY <2>1, <2>2 DEF Init, Sources
<1>2. NoSorter \in Sorters
  BY DEF NoSorter, Sorters
<1>3. \A s \in Sorter : sf[s] = NoSorter
  BY DEF Init
<1>4. Types
  BY <1>1, <1>2 DEF Init, Types, Sorters
<1>5. \A s \in Sorter : SorterOK(s)
  BY <1>3 DEF SorterOK, NoSorter
<1>6. OneBuilder
  BY <1>3 DEF OneBuilder, NoSorter
<1>7. RunFilesOwned
  BY DEF Init, RunFilesOwned
<1> QED
  BY <1>4, <1>5, <1>6, <1>7 DEF IInv

LEMMA SameRun ==
  ASSUME NEW k \in Nat, NEW u, IsRun(u, k), tmp'[k] = u, file' = file
  PROVE  IsRun(tmp[k], k)'
<1>1. Hi(k)' = Hi(k)
  BY DEF Hi
<1>2. (\A r : r \in ToSet(tmp[k]) <=> \E i \in Lo(k) .. Hi(k) : r = file[i])'
  <2>1. ToSet(tmp[k])' = ToSet(u)
    BY DEF ToSet
  <2> QED
    BY <1>1, <2>1 DEF IsRun, Lo
<1>3. IsInjective(tmp[k])'
  BY DEF IsRun, IsInjective
<1>4. (tmp[k] \in [1 .. Hi(k) - Lo(k) + 1 -> Rec])'
  BY <1>1 DEF IsRun, Lo
<1>5. (\A i, j \in DOMAIN tmp[k] : i < j => tmp[k][i].key <= tmp[k][j].key)'
  BY DEF IsRun
<1> QED
  BY <1>2, <1>3, <1>4, <1>5 DEF IsRun

\* The run files of an object are still there.
LEMMA SameRuns ==
  ASSUME NEW s \in Sorter, HasRuns(s), file' = file, sf'[s].runs = sf[s].runs,
         \A k \in DOMAIN sf[s].runs : tmp'[k] = tmp[k]
  PROVE  HasRuns(s)'
<1> SUFFICES ASSUME NEW k \in DOMAIN sf'[s].runs
             PROVE  k \in 1 .. MaxRuns /\ Lo(k) <= Len(file') /\ IsRun(tmp[k], k)'
  BY DEF HasRuns, Lo
<1>1. k \in 1 .. MaxRuns /\ Lo(k) <= Len(file) /\ IsRun(tmp[k], k) /\ tmp'[k] = tmp[k]
  BY DEF HasRuns
<1>2. k \in Nat
  BY <1>1
<1>3. PICK u : u = tmp[k]
  OBVIOUS
<1> QED
  BY <1>1, <1>2, <1>3, SameRun

LEMMA NoNewBuilder ==
  ASSUME OneBuilder, \A q \in Sorter : sf'[q].phase = "building" => sf[q].phase = "building"
  PROVE  OneBuilder'
BY DEF OneBuilder

\* A step of one object.
LEMMA OneStep ==
  ASSUME Types, NEW s \in Sorter, NEW v \in Sorters, sf' = [sf EXCEPT ![s] = v],
         UNCHANGED <<file, creates>>, DOMAIN tmp' = DOMAIN tmp
  PROVE  Types' /\ sf'[s] = v /\ \A q \in Sorter : q # s => sf'[q] = sf[q]
BY DEF Types

\* An object keeps its invariant while it and its run files stay the same.
LEMMA Untouched ==
  ASSUME NEW q \in Sorter, SorterOK(q), file' = file, sf'[q] = sf[q],
         sf[q].phase \in {"building", "open"} =>
           \A k \in DOMAIN sf[q].runs : tmp'[k] = tmp[k]
  PROVE  SorterOK(q)'
<1>1. ASSUME HasRuns(q), \A k \in DOMAIN sf[q].runs : tmp'[k] = tmp[k] PROVE HasRuns(q)'
  BY <1>1, SameRuns
<1>2. CASE sf[q].phase = "building"
  BY <1>1, <1>2 DEF SorterOK, BuildingOK
<1>3. CASE sf[q].phase = "open"
  BY <1>1, <1>3 DEF SorterOK, OpenOK
<1> QED
  BY <1>2, <1>3 DEF SorterOK

\* The constructor fails, or has opened the source.
LEMMA constructKeeps ==
  ASSUME IInv, NEW s \in Sorter, ~Building, construct(s)
  PROVE  IInv'
<1>1. /\ sf[s].phase = "none" /\ sf[s] = NoSorter /\ sf \in [Sorter -> Sorters]
      /\ UNCHANGED <<file, creates, tmp, left, held>>
  BY DEF construct, IInv, SorterOK, Types, Sorters
<1>2. PICK p \in {"building", "failed"} : sf' = [sf EXCEPT ![s].phase = p]
  BY DEF construct
<1>3. sf'[s] = [NoSorter EXCEPT !.phase = p] /\ \A q \in Sorter \ {s} : sf'[q] = sf[q]
  BY <1>1, <1>2
<1>4. Types'
  BY <1>1, <1>2, ZenonT(60) DEF IInv, Types, Sorters
<1>5. SorterOK(s)'
  <2>1. /\ sf'[s].runs = <<>> /\ sf'[s].pos = 0 /\ sf'[s].phase = p /\ sf'[s].scans = 0
        /\ ~sf'[s].marked /\ ~sf'[s].started /\ sf'[s].status = "none"
    BY <1>3 DEF NoSorter
  <2>2. BuildingOK(s)'
    BY <2>1, SortedFileAssumption DEF BuildingOK, HasRuns
  <2> QED
    BY <2>1, <2>2 DEF SorterOK
<1>6. ASSUME NEW q \in Sorter \ {s} PROVE SorterOK(q)'
  BY <1>1, <1>3, Untouched DEF IInv
<1>7. OneBuilder'
  BY <1>3 DEF OneBuilder, Building
<1>8. RunFilesOwned'
  <2>1. \A q \in Sorter : sf'[q].runs = sf[q].runs
    BY <1>2
  <2> QED
    BY <1>1, <2>1 DEF IInv, RunFilesOwned
<1> QED
  BY <1>4, <1>5, <1>6, <1>7, <1>8 DEF IInv

\* A constructor fails: its runs are still listed.
LEMMA Failing ==
  ASSUME IInv, NEW s \in Sorter, sf[s].phase = "building", NEW j \in Nat,
         j <= Len(sf[s].runs),
         sf' = [sf EXCEPT ![s].phase = "failed", ![s].scans = j],
         UNCHANGED <<file, creates, tmp, left, held>>
  PROVE  IInv'
<1>1. sf \in [Sorter -> Sorters] /\ sf[s] \in Sorters
  BY DEF IInv, Types
<1> DEFINE v == [sf[s] EXCEPT !.phase = "failed", !.scans = j]
<1>2. v \in Sorters /\ sf' = [sf EXCEPT ![s] = v]
  BY <1>1 DEF Sorters
<1>3. Types' /\ sf'[s] = v /\ \A q \in Sorter : q # s => sf'[q] = sf[q]
  BY <1>2, OneStep DEF IInv
<1>4. /\ sf'[s].runs = sf[s].runs /\ sf'[s].phase = "failed" /\ sf'[s].scans = j
      /\ sf'[s].started = sf[s].started /\ sf'[s].marked = sf[s].marked
      /\ sf'[s].status = sf[s].status
  BY <1>1, <1>3 DEF Sorters
<1>5. SorterOK(s)'
  BY <1>4 DEF IInv, SorterOK
<1>6. ASSUME NEW q \in Sorter, q # s PROVE SorterOK(q)'
  BY <1>3, <1>6, Untouched DEF IInv
<1>7. OneBuilder'
  <2>1. \A q \in Sorter : sf'[q].phase = "building" => sf[q].phase = "building"
    BY <1>3, <1>4
  <2> QED
    BY <2>1, NoNewBuilder DEF IInv
<1>8. RunFilesOwned'
  <2>1. \A q \in Sorter : sf'[q].runs = sf[q].runs
    BY <1>3, <1>4
  <2> QED
    BY <2>1 DEF IInv, RunFilesOwned
<1> QED
  BY <1>3, <1>5, <1>6, <1>7, <1>8 DEF IInv

LEMMA sourceFailsKeeps ==
  ASSUME IInv, NEW s \in Sorter, sourceFails(s)
  PROVE  IInv'
<1>1. /\ sf[s].phase = "building" /\ sf \in [Sorter -> Sorters] /\ sf[s] \in Sorters
      /\ sf' = [sf EXCEPT ![s].phase = "failed"]
      /\ UNCHANGED <<file, creates, tmp, left, held>>
  BY DEF sourceFails, IInv, Types
<1>2. PICK j : j = sf[s].scans
  OBVIOUS
<1>3. j \in Nat /\ j <= Len(sf[s].runs)
  BY <1>1, <1>2 DEF IInv, SorterOK, Sorters
<1>4. sf' = [sf EXCEPT ![s].phase = "failed", ![s].scans = j]
  BY <1>1, <1>2 DEF Sorters
<1> QED
  BY <1>1, <1>3, <1>4, Failing

\* Every run can be scanned.
LEMMA opensKeeps ==
  ASSUME IInv, NEW s \in Sorter, sf[s].phase = "building", sf[s].pos >= Len(file),
         sf' = [sf EXCEPT ![s].phase = "open", ![s].status = "opened",
                          ![s].scans = Len(sf[s].runs)],
         UNCHANGED <<file, creates, tmp, left, held>>
  PROVE  IInv'
<1>1. sf \in [Sorter -> Sorters] /\ sf[s] \in Sorters /\ Len(sf[s].runs) \in Nat
  BY DEF IInv, Types, Sorters
<1> DEFINE v == [sf[s] EXCEPT !.phase = "open", !.status = "opened",
                              !.scans = Len(sf[s].runs)]
<1>2. v \in Sorters /\ sf' = [sf EXCEPT ![s] = v]
  BY <1>1 DEF Sorters
<1>3. Types' /\ sf'[s] = v /\ \A q \in Sorter : q # s => sf'[q] = sf[q]
  BY <1>1, <1>2, OneStep DEF IInv
<1>4. BuildingOK(s) /\ sf[s].started = FALSE
  BY <1>1 DEF IInv, SorterOK, Types
<1>5. /\ sf'[s].runs = sf[s].runs /\ sf'[s].phase = "open" /\ sf'[s].status = "opened"
      /\ sf'[s].started = FALSE /\ sf'[s].scans = Len(sf[s].runs)
  BY <1>1, <1>3, <1>4 DEF Sorters
<1>6. HasRuns(s)'
  BY <1>1, <1>4, <1>5, SameRuns DEF BuildingOK
<1>7. ASSUME NEW k \in DOMAIN sf[s].runs
      PROVE  RunOK(sf'[s].runs[k], Len(tmp'[k]), sf'[s].started)
  <2>1. sf'[s].runs[k] = NewRUN
    BY <1>4, <1>5, <1>7 DEF BuildingOK
  <2>2. k \in Nat \ {0} /\ Lo(k) <= Len(file) /\ IsRun(tmp[k], k)
    BY <1>4, <1>7 DEF BuildingOK, HasRuns
  <2>3. Len(tmp[k]) \in Nat
    BY <2>2, RunFacts, SortedFileAssumption DEF IInv
  <2> QED
    BY <1>1, <1>5, <2>1, <2>3 DEF RunOK, NewRUN
<1>8. OpenOK(s)'
  BY <1>1, <1>4, <1>5, <1>6, <1>7, SortedFileAssumption DEF OpenOK, BuildingOK, IInv, Types, Sorters
<1>9. SorterOK(s)'
  BY <1>1, <1>5, <1>8 DEF SorterOK
<1>10. ASSUME NEW q \in Sorter, q # s PROVE SorterOK(q)'
  BY <1>1, <1>3, <1>10, Untouched DEF IInv
<1>11. OneBuilder'
  <2>1. \A q \in Sorter : sf'[q].phase = "building" => sf[q].phase = "building"
    BY <1>3, <1>5
  <2> QED
    BY <2>1, NoNewBuilder DEF IInv
<1>12. RunFilesOwned'
  <2>1. \A q \in Sorter : sf'[q].runs = sf[q].runs
    BY <1>3, <1>5
  <2> QED
    BY <1>1, <2>1 DEF IInv, RunFilesOwned
<1> QED
  BY <1>3, <1>9, <1>10, <1>11, <1>12 DEF IInv

LEMMA startScansKeeps ==
  ASSUME IInv, NEW s \in Sorter, startScans(s)
  PROVE  IInv'
<1>1. /\ sf[s].phase = "building" /\ sf[s].pos >= Len(file)
      /\ UNCHANGED <<file, creates, tmp, left, held>>
  BY DEF startScans
<1>2. CASE sf' = [sf EXCEPT ![s].phase = "open", ![s].status = "opened",
                            ![s].scans = Len(sf[s].runs)]
  BY <1>1, <1>2, opensKeeps
<1>3. CASE \E j \in 0 .. Len(sf[s].runs) - 1 :
             sf' = [sf EXCEPT ![s].phase = "failed", ![s].scans = j]
  <2>1. PICK j \in 0 .. Len(sf[s].runs) - 1 :
               sf' = [sf EXCEPT ![s].phase = "failed", ![s].scans = j]
    BY <1>3
  <2>2. j \in Nat /\ j <= Len(sf[s].runs)
    BY DEF IInv, Types, Sorters
  <2> QED
    BY <1>1, <2>1, <2>2, Failing
<1> QED
  BY <1>2, <1>3 DEF startScans

\* A run is written to a file that nobody has, so the runs of others stay.
LEMMA generateRunKeeps ==
  ASSUME IInv, NEW s \in Sorter, generateRun(s)
  PROVE  IInv'
<1>1. PICK n : n = Len(sf[s].runs)
  OBVIOUS
<1> DEFINE k == n + 1
           runs2 == Append(sf[s].runs, NewRUN)
<1>2. /\ sf[s].phase = "building" /\ sf[s].pos < Len(file)
      /\ sf \in [Sorter -> Sorters] /\ sf[s] \in Sorters
      /\ UNCHANGED <<file, creates, left>>
  BY DEF generateRun, IInv, Types
<1>3. BuildingOK(s) /\ sf[s].started = FALSE /\ sf[s].marked = FALSE /\ sf[s].status = "none"
  BY <1>2 DEF IInv, SorterOK, Sorters
<1>4. /\ sf[s].runs \in Seq(RUN) /\ NewRUN \in RUN /\ n \in Nat
      /\ sf[s].pos = n * MaxItems /\ MaxItems \in Nat /\ n * MaxItems \in Nat
      /\ Len(file) \in Nat
  BY <1>1, <1>2, <1>3, SortedFileAssumption DEF BuildingOK, Sorters, NewRUN, RUN, IInv, Types
<1>5. /\ runs2 \in Seq(RUN) /\ Len(runs2) = k /\ DOMAIN runs2 = 1 .. k
      /\ DOMAIN sf[s].runs = 1 .. n
      /\ \A j \in 1 .. n : runs2[j] = sf[s].runs[j]
      /\ runs2[k] = NewRUN
  BY <1>1, <1>4
<1>6. /\ k \in Nat \ {0} /\ k - 1 = n /\ Lo(k) = n * MaxItems + 1 /\ Lo(k) <= Len(file)
  BY <1>2, <1>4 DEF Lo
<1>7. k \in 1 .. MaxRuns
  BY <1>6, Bounds DEF IInv
<1> HIDE DEF runs2
<1>8. ASSUME NEW v \in Sorters, sf' = [sf EXCEPT ![s] = v], v.runs = runs2,
             DOMAIN tmp' = DOMAIN tmp,
             \A j \in DOMAIN tmp : j # k => tmp'[j] = tmp[j],
             taken(k) => tmp'[k] = tmp[k], held \subseteq held', SorterOK(s)'
      PROVE  IInv'
  <2>1. Types' /\ sf'[s] = v /\ \A q \in Sorter : q # s => sf'[q] = sf[q]
    BY <1>2, <1>8, OneStep DEF IInv
  <2>2. ASSUME NEW q \in Sorter, q # s PROVE SorterOK(q)'
    <3>1. SorterOK(q) /\ sf'[q] = sf[q] /\ sf[q].phase # "building"
      BY <1>2, <2>1, <2>2 DEF IInv, OneBuilder
    <3>2. ASSUME sf[q].phase = "open", NEW j \in DOMAIN sf[q].runs PROVE tmp'[j] = tmp[j]
      <4>1. j \in 1 .. MaxRuns /\ Lo(j) <= Len(file) /\ IsRun(tmp[j], j)
        BY <3>1, <3>2 DEF SorterOK, OpenOK, HasRuns
      <4>2. j \in Nat \ {0}
        BY <4>1
      <4>3. tmp[j] # NoRun
        BY <4>1, <4>2, RunFacts DEF IInv
      <4> QED
        BY <1>8, <4>1, <4>3 DEF taken, IInv, Types
    <3> QED
      BY <1>2, <3>1, <3>2, Untouched
  <2>3. OneBuilder'
    <3>1. \A q \in Sorter : sf'[q].phase = "building" => sf[q].phase = "building"
      BY <1>2, <2>1
    <3> QED
      BY <3>1, NoNewBuilder DEF IInv
  <2>4. RunFilesOwned'
    <3> SUFFICES ASSUME NEW j \in 1 .. MaxRuns, tmp'[j] # NoRun, j \notin left \cup held
                 PROVE  \E q \in Sorter : j \in DOMAIN sf'[q].runs
      BY <1>2, <1>8 DEF RunFilesOwned
    <3>1. CASE j = k
      BY <1>5, <1>6, <1>8, <2>1, <3>1
    <3>2. CASE j # k
      <4>1. tmp'[j] = tmp[j]
        BY <1>8, <3>2 DEF IInv, Types
      <4>2. PICK q \in Sorter : j \in DOMAIN sf[q].runs
        BY <4>1 DEF IInv, RunFilesOwned
      <4>3. j \in DOMAIN sf'[q].runs
        <5>1. CASE q = s
          <6>1. j \in 1 .. n
            BY <1>5, <4>2, <5>1
          <6>2. j \in 1 .. k
            BY <1>4, <6>1
          <6> QED
            BY <1>5, <1>8, <2>1, <5>1, <6>2
        <5>2. CASE q # s
          BY <2>1, <4>2, <5>2
        <5> QED
          BY <5>1, <5>2
      <4> QED
        BY <4>3
    <3> QED
      BY <3>1, <3>2
  <2> QED
    BY <1>8, <2>1, <2>2, <2>3, <2>4 DEF IInv
<1>9. sf[s].scans <= Len(runs2)
  <2>1. sf[s].scans \in Nat /\ sf[s].scans <= n
    BY <1>1, <1>2 DEF IInv, SorterOK, Sorters
  <2> QED
    BY <1>4, <1>5, <2>1
<1>10. CASE /\ sf' = [sf EXCEPT ![s].phase = "failed", ![s].runs = Append(@, NewRUN)]
           /\ \/ UNCHANGED tmp /\ UNCHANGED held
              \/ /\ ~taken(k)
                 /\ \E x : tmp' = [tmp EXCEPT ![k] = x]
                 /\ held' = held \cup {k}
  <2> DEFINE v == [sf[s] EXCEPT !.phase = "failed", !.runs = runs2]
  <2>1. v \in Sorters /\ sf' = [sf EXCEPT ![s] = v]
    BY <1>2, <1>5, <1>10 DEF Sorters, runs2
  <2>2. /\ v.phase = "failed" /\ v.started = FALSE /\ v.marked = FALSE
        /\ v.status = "none" /\ v.runs = runs2 /\ v.scans = sf[s].scans
    BY <1>2, <1>3 DEF Sorters
  <2>3. sf'[s] = v
    BY <1>2, <2>1
  <2>4. SorterOK(s)'
    BY <1>9, <2>2, <2>3 DEF SorterOK
  <2>5. /\ DOMAIN tmp' = DOMAIN tmp
        /\ \A j \in DOMAIN tmp : j # k => tmp'[j] = tmp[j]
        /\ taken(k) => tmp'[k] = tmp[k]
        /\ held \subseteq held'
    BY <1>10
  <2> QED
    BY <1>8, <2>1, <2>2, <2>4, <2>5
<1>11. CASE /\ ~taken(k)
           /\ \E u \in Qsorted(chunk(s)) : tmp' = [tmp EXCEPT ![k] = u]
           /\ sf' = [sf EXCEPT ![s].pos = @ + MaxItems, ![s].runs = Append(@, NewRUN)]
           /\ UNCHANGED held
  <2> DEFINE v == [sf[s] EXCEPT !.pos = sf[s].pos + MaxItems, !.runs = runs2]
  <2>1. v \in Sorters /\ sf' = [sf EXCEPT ![s] = v]
    <3>1. sf[s].pos + MaxItems \in Nat
      BY <1>4
    <3>2. v \in Sorters
      BY <1>2, <1>5, <3>1 DEF Sorters
    <3>3. sf' = [sf EXCEPT ![s] = v]
      BY <1>2, <1>11 DEF Sorters, runs2
    <3> QED
      BY <3>2, <3>3
  <2>2. /\ v.phase = "building" /\ v.started = FALSE /\ v.marked = FALSE
        /\ v.status = "none" /\ v.runs = runs2 /\ v.pos = n * MaxItems + MaxItems
        /\ v.scans = sf[s].scans
    BY <1>2, <1>3, <1>4 DEF Sorters
  <2>3. sf'[s] = v
    BY <1>2, <2>1
  <2>4. PICK u \in Qsorted(chunk(s)) : tmp' = [tmp EXCEPT ![k] = u]
    BY <1>11
  <2>5. DOMAIN tmp' = DOMAIN tmp /\ k \in DOMAIN tmp /\ tmp'[k] = u
        /\ \A j \in DOMAIN tmp : j # k => tmp'[j] = tmp[j]
    BY <1>7, <2>4 DEF IInv, Types
  <2>6. IsRun(u, k)
    BY <1>4, <1>6, SortedIsRun DEF IInv
  <2>7. ASSUME NEW j \in 1 .. k
        PROVE  j \in 1 .. MaxRuns /\ Lo(j) <= Len(file') /\ IsRun(tmp[j], j)'
    <3>1. CASE j = k
      <4>1. j \in Nat /\ j \in 1 .. MaxRuns /\ Lo(j) <= Len(file') /\ IsRun(u, j) /\ tmp'[j] = u
        BY <1>2, <1>6, <1>7, <2>5, <2>6, <3>1
      <4> QED
        BY <1>2, <4>1, SameRun
    <3>2. CASE j # k
      <4>1. j \in 1 .. n /\ j \in Nat
        BY <1>4, <3>2
      <4>2. j \in 1 .. MaxRuns /\ Lo(j) <= Len(file) /\ IsRun(tmp[j], j)
        BY <1>3, <1>5, <4>1 DEF BuildingOK, HasRuns
      <4>3. tmp'[j] = tmp[j]
        BY <2>5, <3>2, <4>2 DEF IInv, Types
      <4>4. PICK w : w = tmp[j]
        OBVIOUS
      <4> QED
        BY <1>2, <4>1, <4>2, <4>3, <4>4, SameRun
    <3> QED
      BY <3>1, <3>2
  <2>8. HasRuns(s)'
    BY <1>5, <2>2, <2>3, <2>7 DEF HasRuns, Lo
  <2>9. BuildingOK(s)'
    <3>1. sf'[s].pos = Len(sf'[s].runs) * MaxItems
      <4>1. k * MaxItems = n * MaxItems + MaxItems
        BY <1>4, Times
      <4> QED
        BY <1>5, <2>2, <2>3, <4>1
    <3>2. \A j \in DOMAIN sf'[s].runs : sf'[s].runs[j] = NewRUN
      <4> SUFFICES ASSUME NEW j \in 1 .. k PROVE runs2[j] = NewRUN
        BY <1>5, <2>2, <2>3
      <4>1. j = k \/ j \in 1 .. n
        BY <1>4
      <4> QED
        BY <1>3, <1>5, <4>1 DEF BuildingOK
    <3> QED
      BY <2>8, <3>1, <3>2 DEF BuildingOK
  <2>10. SorterOK(s)'
    BY <1>9, <2>2, <2>3, <2>9 DEF SorterOK
  <2>11. held \subseteq held' /\ (taken(k) => tmp'[k] = tmp[k])
    BY <1>11
  <2> QED
    BY <1>8, <2>1, <2>2, <2>5, <2>10, <2>11
<1> HIDE DEF k
<1>12. k = Len(sf[s].runs) + 1
  BY <1>1 DEF k
<1> QED
  BY <1>10, <1>11, <1>12 DEF generateRun

-----------------------------------------------------------------------------
(***************************************************************************)
(* The merge.                                                              *)
(***************************************************************************)
\* next() finds a smallest record among those in memory, the first of them.
LEMMA SmallestIsLeast ==
  ASSUME NEW live \in SUBSET Nat, live # {}, NEW rec \in [live -> Rec]
  PROVE  Smallest(rec) \in live /\ \A j \in live : rec[Smallest(rec)].key <= rec[j].key
<1>1. PICK a \in live : TRUE
  OBVIOUS
<1>2. INT_MAX \in Nat /\ \A k \in live : rec[k] \in Rec /\ rec[k].key \in KeyVal /\ rec[k].key \in Int
  BY SortedFileAssumption DEF Rec
<1>3. \A k \in live : rec[k].key - rec[a].key + INT_MAX \in Nat
  <2> SUFFICES ASSUME NEW k \in live PROVE rec[k].key - rec[a].key + INT_MAX \in Nat
    OBVIOUS
  <2>1. rec[a].key - rec[k].key <= INT_MAX
    BY <1>2, SortedFileAssumption
  <2> QED
    BY <1>2, <2>1
<1> DEFINE S == {rec[k].key - rec[a].key + INT_MAX : k \in live}
<1>4. PICK m \in S : \A y \in S : m <= y
  <2>1. S \in SUBSET Nat /\ S # {}
    BY <1>1, <1>3
  <2> HIDE DEF S
  <2> QED
    BY <2>1, Least
<1>5. PICK b \in live : m = rec[b].key - rec[a].key + INT_MAX
  BY <1>4
<1>6. \A k \in live : rec[b].key <= rec[k].key
  <2> SUFFICES ASSUME NEW k \in live PROVE rec[b].key <= rec[k].key
    OBVIOUS
  <2>1. rec[b].key - rec[a].key + INT_MAX <= rec[k].key - rec[a].key + INT_MAX
    BY <1>4, <1>5
  <2> QED
    BY <1>2, <2>1
<1> DEFINE T == {k \in live : rec[k].key = rec[b].key}
<1>7. PICK c \in T : \A y \in T : c <= y
  <2>1. T \in SUBSET Nat /\ T # {}
    OBVIOUS
  <2> HIDE DEF T
  <2> QED
    BY <2>1, Least
<1>8. \A j \in live : /\ reccmp(rec[c], rec[j]) <= 0
                      /\ j < c => reccmp(rec[j], rec[c]) > 0
  <2> SUFFICES ASSUME NEW j \in live
               PROVE  reccmp(rec[c], rec[j]) <= 0 /\ (j < c => reccmp(rec[j], rec[c]) > 0)
    OBVIOUS
  <2>1. /\ reccmp(rec[c], rec[j]) = rec[c].key - rec[j].key
        /\ reccmp(rec[j], rec[c]) = rec[j].key - rec[c].key
    BY <1>2, <1>7, Keys
  <2>2. rec[c].key = rec[b].key /\ rec[b].key <= rec[j].key /\ c \in Nat /\ j \in Nat
    BY <1>6, <1>7
  <2>3. j < c => rec[j].key # rec[b].key
    BY <1>7, <2>2
  <2> QED
    BY <1>2, <2>1, <2>2, <2>3
<1>9. DOMAIN rec = live /\ c \in live
  BY <1>7
<1> DEFINE d == Smallest(rec)
<1>10. d \in live /\ \A j \in live : reccmp(rec[d], rec[j]) <= 0
  BY <1>8, <1>9 DEF Smallest
<1> HIDE DEF d
<1>11. ASSUME NEW j \in live PROVE rec[d].key <= rec[j].key
  <2>1. reccmp(rec[d], rec[j]) <= 0 /\ reccmp(rec[d], rec[j]) = rec[d].key - rec[j].key
    BY <1>2, <1>10, Keys
  <2> QED
    BY <1>2, <1>10, <2>1
<1> QED
  BY <1>10, <1>11 DEF d

\* Fetching a record moves no record of the run out of what is to come.
Fetches(f, run, n) ==
  /\ f \in RUN /\ f.valid = TRUE /\ RunOK(f, n, TRUE)
  /\ f.mark = run.mark /\ f.scanMark = run.scanMark
  /\ Upcoming(f) \in Nat \ {0} /\ Upcoming(run) \in Nat \ {0}
  /\ \A i \in 1 .. n : Upcoming(f) <= i <=> Upcoming(run) <= i
  /\ f.rid > 0 => f.cur \in 1 .. n /\ Upcoming(f) = f.cur
  /\ f.rid = 0 => Upcoming(f) = MaxItems + 1

LEMMA Fetching ==
  ASSUME NEW run \in RUN, NEW k, NEW n \in 0 .. MaxItems, n = Len(tmp[k]),
         NEW started \in BOOLEAN, RunOK(run, n, started)
  PROVE  Fetches(Fetched(run, k), run, n)
<1> DEFINE f == Fetched(run, k)
<1>1. /\ MaxItems \in Nat /\ n \in Nat /\ n <= MaxItems
      /\ run.cur \in Nat /\ run.rid \in Nat /\ run.mark \in Nat /\ run.scanMark \in Nat
  BY SortedFileAssumption DEF RUN
<1>2. CASE run.valid
  <2>1. f = run /\ run.valid = TRUE
    BY <1>2 DEF Fetched, RUN
  <2> HIDE DEF f
  <2>2. RunOK(run, n, TRUE)
    BY <1>2 DEF RunOK
  <2>3. run.rid = 0 => Upcoming(run) = MaxItems + 1
    BY <2>1 DEF Upcoming, Far
  <2>4. run.rid > 0 => run.cur \in 1 .. n /\ Upcoming(run) = run.cur
    BY <1>1, <2>1 DEF Upcoming, RunOK
  <2>5. Fetches(f, run, n)
    <3>1. f \in RUN /\ f.valid = TRUE /\ RunOK(f, n, TRUE)
      BY <2>1, <2>2
    <3>2. f.mark = run.mark /\ f.scanMark = run.scanMark
      BY <2>1
    <3>3. Upcoming(f) \in Nat \ {0} /\ Upcoming(run) \in Nat \ {0}
      BY <1>1, <2>1 DEF Upcoming, Far, RunOK
    <3>4. \A i \in 1 .. n : Upcoming(f) <= i <=> Upcoming(run) <= i
      BY <2>1
    <3>5. f.rid > 0 => f.cur \in 1 .. n /\ Upcoming(f) = f.cur
      BY <2>1, <2>4
    <3>6. f.rid = 0 => Upcoming(f) = MaxItems + 1
      BY <2>1, <2>3
    <3> QED
      BY <3>1, <3>2, <3>3, <3>4, <3>5, <3>6 DEF Fetches
  <2> QED
    BY <2>5 DEF f
<1>3. CASE ~run.valid /\ run.cur < n
  <2>1. f = [run EXCEPT !.cur = run.cur + 1, !.rid = run.cur + 1, !.valid = TRUE]
    BY <1>3 DEF Fetched, RUN
  <2> HIDE DEF f
  <2>2. f = [cur |-> run.cur + 1, valid |-> TRUE, rid |-> run.cur + 1, mark |-> run.mark,
             scanMark |-> run.scanMark]
    BY <2>1 DEF RUN
  <2>3. /\ f.cur = run.cur + 1 /\ f.rid = run.cur + 1 /\ f.valid = TRUE
        /\ f.mark = run.mark /\ f.scanMark = run.scanMark
    BY <2>2
  <2>4. f \in RUN
    BY <1>1, <2>2 DEF RUN
  <2>5. RunOK(f, n, TRUE)
    BY <1>1, <1>3, <2>3 DEF RunOK
  <2>6. Upcoming(f) = run.cur + 1 /\ Upcoming(run) = run.cur + 1
    BY <1>1, <1>3, <2>3 DEF Upcoming
  <2>7. Fetches(f, run, n)
    <3>1. f \in RUN /\ f.valid = TRUE /\ RunOK(f, n, TRUE)
      BY <2>3, <2>4, <2>5
    <3>2. f.mark = run.mark /\ f.scanMark = run.scanMark
      BY <2>3
    <3>3. Upcoming(f) \in Nat \ {0} /\ Upcoming(run) \in Nat \ {0}
      BY <1>1, <2>6
    <3>4. \A i \in 1 .. n : Upcoming(f) <= i <=> Upcoming(run) <= i
      BY <2>6
    <3>5. f.rid > 0 => f.cur \in 1 .. n /\ Upcoming(f) = f.cur
      BY <1>1, <1>3, <2>3, <2>6
    <3>6. f.rid = 0 => Upcoming(f) = MaxItems + 1
      BY <1>1, <2>3
    <3> QED
      BY <3>1, <3>2, <3>3, <3>4, <3>5, <3>6 DEF Fetches
  <2> QED
    BY <2>7 DEF f
<1>4. CASE ~run.valid /\ ~(run.cur < n)
  <2>1. f = [run EXCEPT !.rid = 0, !.valid = TRUE]
    BY <1>4 DEF Fetched
  <2> HIDE DEF f
  <2>2. f = [cur |-> run.cur, valid |-> TRUE, rid |-> 0, mark |-> run.mark,
             scanMark |-> run.scanMark]
    BY <2>1 DEF RUN
  <2>3. /\ f.cur = run.cur /\ f.rid = 0 /\ f.valid = TRUE
        /\ f.mark = run.mark /\ f.scanMark = run.scanMark
    BY <2>2
  <2>4. f \in RUN
    BY <1>1, <2>2 DEF RUN
  <2>5. run.cur = n
    BY <1>1, <1>4 DEF RunOK
  <2>6. RunOK(f, n, TRUE)
    BY <1>1, <2>3, <2>5 DEF RunOK
  <2>7. Upcoming(f) = MaxItems + 1 /\ Upcoming(run) = n + 1
    BY <1>4, <2>3, <2>5 DEF Upcoming, Far
  <2>8. \A i \in 1 .. n : ~(MaxItems + 1 <= i) /\ ~(n + 1 <= i)
    BY <1>1
  <2>9. Fetches(f, run, n)
    <3>1. f \in RUN /\ f.valid = TRUE /\ RunOK(f, n, TRUE)
      BY <2>3, <2>4, <2>6
    <3>2. f.mark = run.mark /\ f.scanMark = run.scanMark
      BY <2>3
    <3>3. Upcoming(f) \in Nat \ {0} /\ Upcoming(run) \in Nat \ {0}
      BY <1>1, <2>7
    <3>4. \A i \in 1 .. n : Upcoming(f) <= i <=> Upcoming(run) <= i
      BY <2>7, <2>8
    <3>5. f.rid > 0 => f.cur \in 1 .. n /\ Upcoming(f) = f.cur
      BY <2>3
    <3>6. f.rid = 0 => Upcoming(f) = MaxItems + 1
      BY <2>7
    <3> QED
      BY <3>1, <3>2, <3>3, <3>4, <3>5, <3>6 DEF Fetches
  <2> QED
    BY <2>9 DEF f
<1> QED
  BY <1>2, <1>3, <1>4

\* A call of next, setMark or gotoMark touches the members of its object only.
LEMMA MergeStep ==
  ASSUME IInv, NEW s \in Sorter, sf[s].phase = "open", NEW v \in Sorters,
         sf' = [sf EXCEPT ![s] = v], v.phase = "open", v.status # "none",
         Len(v.runs) = Len(sf[s].runs), v.scans = sf[s].scans,
         \A k \in DOMAIN v.runs : RunOK(v.runs[k], Len(tmp[k]), v.started),
         UNCHANGED <<file, creates, tmp, left, held>>
  PROVE  IInv'
<1>1. Types' /\ sf'[s] = v /\ \A q \in Sorter : q # s => sf'[q] = sf[q]
  BY OneStep DEF IInv
<1>2. OpenOK(s) /\ sf[s] \in Sorters
  BY DEF IInv, SorterOK, Types
<1>3. v.runs \in Seq(RUN) /\ sf[s].runs \in Seq(RUN)
  BY <1>2 DEF Sorters
<1>4. DOMAIN v.runs = DOMAIN sf[s].runs
  BY <1>3
<1>5. HasRuns(s)'
  <2> SUFFICES ASSUME NEW k \in DOMAIN v.runs
               PROVE  k \in 1 .. MaxRuns /\ Lo(k) <= Len(file') /\ IsRun(tmp[k], k)'
    BY <1>1 DEF HasRuns, Lo
  <2>1. k \in 1 .. MaxRuns /\ Lo(k) <= Len(file) /\ IsRun(tmp[k], k) /\ tmp'[k] = tmp[k]
    BY <1>2, <1>4 DEF OpenOK, HasRuns
  <2>2. k \in Nat
    BY <2>1
  <2>3. PICK u : u = tmp[k]
    OBVIOUS
  <2> QED
    BY <2>1, <2>2, <2>3, SameRun
<1>6. OpenOK(s)'
  BY <1>1, <1>2, <1>5 DEF OpenOK
<1>7. SorterOK(s)'
  BY <1>1, <1>6 DEF IInv, SorterOK
<1>8. ASSUME NEW q \in Sorter, q # s PROVE SorterOK(q)'
  BY <1>1, <1>8, Untouched DEF IInv
<1>9. OneBuilder'
  <2>1. \A q \in Sorter : sf'[q].phase = "building" => sf[q].phase = "building"
    BY <1>1
  <2> QED
    BY <2>1, NoNewBuilder DEF IInv
<1>10. RunFilesOwned'
  <2>1. \A q \in Sorter : DOMAIN sf'[q].runs = DOMAIN sf[q].runs
    BY <1>1, <1>4
  <2> QED
    BY <2>1 DEF IInv, RunFilesOwned
<1> QED
  BY <1>1, <1>7, <1>8, <1>9, <1>10 DEF IInv

\* What next() knows after it has fetched: runs, the live ones and their records.
FetchedRuns(s) == [k \in DOMAIN sf[s].runs |-> Fetched(sf[s].runs[k], k)]
Live(s) == {k \in DOMAIN FetchedRuns(s) : FetchedRuns(s)[k].rid > 0}
LiveRec(s) == [k \in Live(s) |-> tmp[k][FetchedRuns(s)[k].cur]]

LEMMA OpenRuns ==
  ASSUME IInv, NEW s \in Sorter, sf[s].phase = "open"
  PROVE  /\ sf[s] \in Sorters /\ sf[s].runs \in Seq(RUN) /\ OpenOK(s)
         /\ sf[s].started \in BOOLEAN
         /\ DOMAIN sf[s].runs = 1 .. Len(sf[s].runs) /\ Len(sf[s].runs) \in Nat
         /\ \A k \in DOMAIN sf[s].runs :
              /\ k \in Nat \ {0} /\ k \in 1 .. MaxRuns /\ Lo(k) <= Len(file)
              /\ IsRun(tmp[k], k)
              /\ tmp[k] \in Seq(Rec) /\ Len(tmp[k]) \in 0 .. MaxItems
              /\ DOMAIN tmp[k] = 1 .. Len(tmp[k]) /\ tmp[k] # NoRun
              /\ sf[s].runs[k] \in RUN
              /\ RunOK(sf[s].runs[k], Len(tmp[k]), sf[s].started)
<1>1. sf[s] \in Sorters /\ OpenOK(s) /\ Types
  BY DEF IInv, SorterOK, Types
<1>2. sf[s].runs \in Seq(RUN) /\ sf[s].started \in BOOLEAN
  BY <1>1 DEF Sorters
<1>3. ASSUME NEW k \in DOMAIN sf[s].runs
      PROVE  /\ k \in Nat \ {0} /\ k \in 1 .. MaxRuns /\ Lo(k) <= Len(file)
             /\ IsRun(tmp[k], k)
             /\ tmp[k] \in Seq(Rec) /\ Len(tmp[k]) \in 0 .. MaxItems
             /\ DOMAIN tmp[k] = 1 .. Len(tmp[k]) /\ tmp[k] # NoRun
             /\ sf[s].runs[k] \in RUN
             /\ RunOK(sf[s].runs[k], Len(tmp[k]), sf[s].started)
  <2>1. k \in 1 .. MaxRuns /\ Lo(k) <= Len(file) /\ IsRun(tmp[k], k)
        /\ RunOK(sf[s].runs[k], Len(tmp[k]), sf[s].started)
    BY <1>1 DEF OpenOK, HasRuns
  <2>2. k \in Nat \ {0}
    BY <2>1
  <2>3. PICK u : u = tmp[k]
    OBVIOUS
  <2>4. u \in Seq(Rec) /\ Len(u) \in 1 .. MaxItems /\ DOMAIN u = 1 .. Len(u) /\ u # NoRun
    BY <1>1, <2>1, <2>2, <2>3, RunFacts
  <2>5. sf[s].runs[k] \in RUN
    BY <1>2
  <2> QED
    BY <2>1, <2>2, <2>3, <2>4, <2>5, SortedFileAssumption
<1> QED
  BY <1>1, <1>2, <1>3

\* next() fetches into every run, and a live run is at the first of its records
\* that are still to come.
LEMMA AfterFetch ==
  ASSUME IInv, NEW s \in Sorter, sf[s].phase = "open"
  PROVE  /\ FetchedRuns(s) \in Seq(RUN) /\ Len(FetchedRuns(s)) = Len(sf[s].runs)
         /\ DOMAIN FetchedRuns(s) = DOMAIN sf[s].runs
         /\ \A k \in DOMAIN sf[s].runs :
              Fetches(FetchedRuns(s)[k], sf[s].runs[k], Len(tmp[k]))
         /\ Live(s) \in SUBSET Nat /\ LiveRec(s) \in [Live(s) -> Rec]
         /\ Live(s) # {} =>
              /\ Smallest(LiveRec(s)) \in Live(s)
              /\ \A j \in Live(s) : LiveRec(s)[Smallest(LiveRec(s))].key <= LiveRec(s)[j].key
<1>1. /\ sf[s].runs \in Seq(RUN) /\ sf[s].started \in BOOLEAN
      /\ DOMAIN sf[s].runs = 1 .. Len(sf[s].runs) /\ Len(sf[s].runs) \in Nat
      /\ \A k \in DOMAIN sf[s].runs :
           /\ k \in Nat \ {0} /\ tmp[k] \in Seq(Rec) /\ Len(tmp[k]) \in 0 .. MaxItems
           /\ DOMAIN tmp[k] = 1 .. Len(tmp[k])
           /\ sf[s].runs[k] \in RUN
           /\ RunOK(sf[s].runs[k], Len(tmp[k]), sf[s].started)
  BY OpenRuns
<1>2. ASSUME NEW k \in DOMAIN sf[s].runs
      PROVE  Fetches(FetchedRuns(s)[k], sf[s].runs[k], Len(tmp[k]))
  <2>1. PICK run, n, st : run = sf[s].runs[k] /\ n = Len(tmp[k]) /\ st = sf[s].started
    OBVIOUS
  <2>2. run \in RUN /\ n \in 0 .. MaxItems /\ st \in BOOLEAN /\ RunOK(run, n, st)
    BY <1>1, <1>2, <2>1
  <2>3. Fetches(Fetched(run, k), run, n)
    BY <2>1, <2>2, Fetching
  <2>4. FetchedRuns(s)[k] = Fetched(run, k)
    BY <1>2, <2>1 DEF FetchedRuns
  <2> QED
    BY <2>1, <2>3, <2>4
<1>3. DOMAIN FetchedRuns(s) = DOMAIN sf[s].runs
  BY DEF FetchedRuns
<1>4. FetchedRuns(s) \in Seq(RUN) /\ Len(FetchedRuns(s)) = Len(sf[s].runs)
  <2>1. \A k \in DOMAIN sf[s].runs : FetchedRuns(s)[k] \in RUN
    BY <1>2 DEF Fetches
  <2>2. FetchedRuns(s) \in [1 .. Len(sf[s].runs) -> RUN]
    BY <1>1, <2>1 DEF FetchedRuns
  <2>3. PICK u, n : u = FetchedRuns(s) /\ n = Len(sf[s].runs)
    OBVIOUS
  <2>4. u \in Seq(RUN) /\ Len(u) = n
    BY <1>1, <2>2, <2>3, AsSequence
  <2> QED
    BY <2>3, <2>4
<1>5. Live(s) \in SUBSET Nat /\ Live(s) \subseteq DOMAIN sf[s].runs
  BY <1>1, <1>3 DEF Live
<1>6. LiveRec(s) \in [Live(s) -> Rec]
  <2>1. ASSUME NEW k \in Live(s) PROVE tmp[k][FetchedRuns(s)[k].cur] \in Rec
    <3>1. k \in DOMAIN sf[s].runs /\ FetchedRuns(s)[k].rid > 0
      BY <1>5, <2>1 DEF Live
    <3>2. FetchedRuns(s)[k].cur \in 1 .. Len(tmp[k]) /\ tmp[k] \in Seq(Rec)
      BY <1>1, <1>2, <3>1 DEF Fetches
    <3> QED
      BY <3>2
  <2> QED
    BY <2>1 DEF LiveRec
<1>7. PICK L, r : L = Live(s) /\ r = LiveRec(s)
  OBVIOUS
<1>8. L # {} => Smallest(r) \in L /\ \A j \in L : r[Smallest(r)].key <= r[j].key
  BY <1>5, <1>6, <1>7, SmallestIsLeast
<1> QED
  BY <1>2, <1>3, <1>4, <1>5, <1>6, <1>7, <1>8

\* The run that the record was taken from has no record in memory any more.
LEMMA AfterTaking ==
  ASSUME IInv, NEW s \in Sorter, sf[s].phase = "open", NEW k0 \in Live(s),
         NEW runs, runs = TakenFrom(FetchedRuns(s), k0)
  PROVE  /\ runs \in Seq(RUN) /\ Len(runs) = Len(sf[s].runs)
         /\ DOMAIN runs = DOMAIN sf[s].runs
         /\ \A k \in DOMAIN runs : RunOK(runs[k], Len(tmp[k]), TRUE)
         /\ \A k \in DOMAIN runs : k # k0 => runs[k] = FetchedRuns(s)[k]
         /\ runs[k0].valid = FALSE
         /\ runs[k0].cur = FetchedRuns(s)[k0].cur /\ runs[k0].rid = FetchedRuns(s)[k0].rid
         /\ runs[k0].mark = FetchedRuns(s)[k0].mark
         /\ runs[k0].scanMark = FetchedRuns(s)[k0].scanMark
<1>1. PICK F, n : F = FetchedRuns(s) /\ n = Len(sf[s].runs)
  OBVIOUS
<1>2. /\ F \in Seq(RUN) /\ Len(F) = n /\ DOMAIN F = DOMAIN sf[s].runs /\ n \in Nat
      /\ \A k \in DOMAIN F : Fetches(F[k], sf[s].runs[k], Len(tmp[k]))
      /\ DOMAIN F = 1 .. n
  BY <1>1, AfterFetch, OpenRuns
<1>3. k0 \in DOMAIN F /\ F[k0].rid > 0
  BY <1>1 DEF Live
<1>4. runs = [F EXCEPT ![k0] = [F[k0] EXCEPT !.valid = FALSE]]
  BY <1>1 DEF TakenFrom
<1> DEFINE v == [F[k0] EXCEPT !.valid = FALSE]
<1>5. F[k0] \in RUN
  BY <1>2, <1>3
<1>6. v \in RUN /\ v.cur = F[k0].cur /\ v.rid = F[k0].rid /\ v.mark = F[k0].mark
      /\ v.scanMark = F[k0].scanMark /\ v.valid = FALSE
  BY <1>5 DEF RUN
<1>7. RunOK(v, Len(tmp[k0]), TRUE)
  <2>1. RunOK(F[k0], Len(tmp[k0]), TRUE) /\ F[k0].rid \in Nat
    BY <1>2, <1>3, <1>5 DEF Fetches, RUN
  <2> HIDE DEF v
  <2> QED
    BY <1>3, <1>6, <2>1 DEF RunOK
<1> HIDE DEF v
<1>8. runs = [F EXCEPT ![k0] = v]
  BY <1>4 DEF v
<1>9. runs \in [1 .. n -> RUN] /\ runs[k0] = v /\ \A k \in 1 .. n : k # k0 => runs[k] = F[k]
  BY <1>2, <1>3, <1>6, <1>8
<1>10. runs \in Seq(RUN) /\ Len(runs) = n /\ DOMAIN runs = 1 .. n
  BY <1>2, <1>9
<1>11. \A k \in 1 .. n : RunOK(runs[k], Len(tmp[k]), TRUE)
  BY <1>2, <1>7, <1>9 DEF Fetches
<1> QED
  BY <1>1, <1>2, <1>6, <1>9, <1>10, <1>11

\* next, in the terms above.
LEMMA nextStep ==
  ASSUME IInv, NEW s \in Sorter, next(s)
  PROVE  \E runs, st :
           /\ \/ Live(s) = {} /\ runs = FetchedRuns(s) /\ st = "FILEEOF"
              \/ /\ Live(s) # {} /\ st = "OK"
                 /\ runs = TakenFrom(FetchedRuns(s), Smallest(LiveRec(s)))
           /\ runs \in Seq(RUN) /\ Len(runs) = Len(sf[s].runs)
           /\ \A k \in DOMAIN runs : RunOK(runs[k], Len(tmp[k]), TRUE)
           /\ sf' = [sf EXCEPT ![s] = [sf[s] EXCEPT !.runs = runs, !.started = TRUE, !.status = st]]
<1>1. sf[s].phase = "open" /\ sf \in [Sorter -> Sorters]
  BY DEF next, IInv, Types
<1>2. CASE /\ Live(s) = {}
           /\ sf' = [sf EXCEPT ![s].runs = FetchedRuns(s), ![s].started = TRUE,
                               ![s].status = "FILEEOF"]
  <2>1. PICK runs : runs = FetchedRuns(s)
    OBVIOUS
  <2>2. /\ runs \in Seq(RUN) /\ Len(runs) = Len(sf[s].runs)
        /\ \A k \in DOMAIN runs : RunOK(runs[k], Len(tmp[k]), TRUE)
    BY <1>1, <2>1, AfterFetch DEF Fetches
  <2>3. sf' = [sf EXCEPT ![s] = [sf[s] EXCEPT !.runs = runs, !.started = TRUE,
                                              !.status = "FILEEOF"]]
    BY <1>1, <1>2, <2>1
  <2> QED
    BY <1>2, <2>1, <2>2, <2>3
<1>3. CASE /\ Live(s) # {}
           /\ sf' = [sf EXCEPT ![s].runs = TakenFrom(FetchedRuns(s), Smallest(LiveRec(s))),
                               ![s].started = TRUE, ![s].status = "OK"]
  <2>1. PICK runs : runs = TakenFrom(FetchedRuns(s), Smallest(LiveRec(s)))
    OBVIOUS
  <2>2. /\ runs \in Seq(RUN) /\ Len(runs) = Len(sf[s].runs)
        /\ \A k \in DOMAIN runs : RunOK(runs[k], Len(tmp[k]), TRUE)
    <3>1. PICK k0 : k0 = Smallest(LiveRec(s)) /\ k0 \in Live(s)
      BY <1>1, <1>3, AfterFetch
    <3>2. runs = TakenFrom(FetchedRuns(s), k0)
      BY <2>1, <3>1
    <3>3. k0 \in Live(s)
      BY <3>1
    <3> QED
      BY <1>1, <3>2, <3>3, AfterTaking
  <2>3. sf' = [sf EXCEPT ![s] = [sf[s] EXCEPT !.runs = runs, !.started = TRUE,
                                              !.status = "OK"]]
    BY <1>1, <1>3, <2>1
  <2> QED
    BY <1>3, <2>1, <2>2, <2>3
<1> QED
  BY <1>2, <1>3 DEF next, FetchedRuns, Live, LiveRec

LEMMA nextKeeps ==
  ASSUME IInv, NEW s \in Sorter, next(s)
  PROVE  IInv'
<1>1. /\ sf[s].phase = "open" /\ sf[s] \in Sorters
      /\ UNCHANGED <<file, creates, tmp, left, held>>
  BY DEF next, IInv, Types
<1>2. PICK runs, st :
        /\ st \in {"OK", "FILEEOF"} /\ runs \in Seq(RUN) /\ Len(runs) = Len(sf[s].runs)
        /\ \A k \in DOMAIN runs : RunOK(runs[k], Len(tmp[k]), TRUE)
        /\ sf' = [sf EXCEPT ![s] = [sf[s] EXCEPT !.runs = runs, !.started = TRUE, !.status = st]]
  BY nextStep, ZenonT(60)
<1>3. PICK v : v = [sf[s] EXCEPT !.runs = runs, !.started = TRUE, !.status = st]
  OBVIOUS
<1>4. /\ v \in Sorters /\ v.phase = "open" /\ v.status = st /\ v.runs = runs
      /\ v.started = TRUE /\ v.scans = sf[s].scans /\ sf' = [sf EXCEPT ![s] = v]
  BY <1>1, <1>2, <1>3 DEF Sorters
<1> QED
  BY <1>1, <1>2, <1>4, MergeStep

\* setMark and gotoMark keep the marks and the positions in the runs.
LEMMA Marking ==
  ASSUME NEW run \in RUN, NEW n \in Nat, NEW started \in BOOLEAN, RunOK(run, n, started)
  PROVE  /\ Marked(run) \in RUN /\ RunOK(Marked(run), n, started)
         /\ Reset(run) \in RUN /\ RunOK(Reset(run), n, started)
<1>1. run.cur \in Nat /\ run.rid \in Nat /\ run.mark \in Nat /\ run.scanMark \in Nat
  BY DEF RUN
<1>2. PICK f : f = Marked(run)
  OBVIOUS
<1>3. f = [cur |-> run.cur, valid |-> run.valid, rid |-> run.rid, mark |-> run.rid,
           scanMark |-> run.cur]
  BY <1>2 DEF Marked, RUN
<1>4. f \in RUN
  BY <1>1, <1>3 DEF RUN
<1>5. RunOK(f, n, started)
  BY <1>3 DEF RunOK
<1>6. PICK g : g = Reset(run)
  OBVIOUS
<1>7. g = [cur |-> run.scanMark, valid |-> TRUE, rid |-> run.mark, mark |-> run.mark,
           scanMark |-> run.scanMark]
  BY <1>6 DEF Reset, RUN
<1>8. g \in RUN
  BY <1>1, <1>7 DEF RUN
<1>9. RunOK(g, n, started)
  BY <1>7 DEF RunOK
<1> QED
  BY <1>2, <1>4, <1>5, <1>6, <1>8, <1>9

MarkedRuns(s) == [k \in DOMAIN sf[s].runs |-> Marked(sf[s].runs[k])]
ResetRuns(s) == [k \in DOMAIN sf[s].runs |-> Reset(sf[s].runs[k])]

LEMMA AfterMarking ==
  ASSUME IInv, NEW s \in Sorter, sf[s].phase = "open"
  PROVE  /\ MarkedRuns(s) \in Seq(RUN) /\ Len(MarkedRuns(s)) = Len(sf[s].runs)
         /\ DOMAIN MarkedRuns(s) = DOMAIN sf[s].runs
         /\ \A k \in DOMAIN sf[s].runs : RunOK(MarkedRuns(s)[k], Len(tmp[k]), sf[s].started)
         /\ ResetRuns(s) \in Seq(RUN) /\ Len(ResetRuns(s)) = Len(sf[s].runs)
         /\ DOMAIN ResetRuns(s) = DOMAIN sf[s].runs
         /\ \A k \in DOMAIN sf[s].runs : RunOK(ResetRuns(s)[k], Len(tmp[k]), sf[s].started)
<1>1. /\ sf[s].runs \in Seq(RUN) /\ sf[s].started \in BOOLEAN
      /\ DOMAIN sf[s].runs = 1 .. Len(sf[s].runs) /\ Len(sf[s].runs) \in Nat
  BY OpenRuns
<1>2. ASSUME NEW k \in DOMAIN sf[s].runs
      PROVE  /\ MarkedRuns(s)[k] \in RUN /\ RunOK(MarkedRuns(s)[k], Len(tmp[k]), sf[s].started)
             /\ ResetRuns(s)[k] \in RUN /\ RunOK(ResetRuns(s)[k], Len(tmp[k]), sf[s].started)
  <2>1. PICK run, n, st : run = sf[s].runs[k] /\ n = Len(tmp[k]) /\ st = sf[s].started
    OBVIOUS
  <2>2. run \in RUN /\ n \in Nat /\ st \in BOOLEAN /\ RunOK(run, n, st)
    BY <1>2, <2>1, OpenRuns
  <2>3. MarkedRuns(s)[k] = Marked(run) /\ ResetRuns(s)[k] = Reset(run)
    BY <1>2, <2>1 DEF MarkedRuns, ResetRuns
  <2> QED
    BY <2>1, <2>2, <2>3, Marking
<1>3. PICK n : n = Len(sf[s].runs)
  OBVIOUS
<1>4. MarkedRuns(s) \in [1 .. n -> RUN] /\ ResetRuns(s) \in [1 .. n -> RUN]
  BY <1>1, <1>2, <1>3 DEF MarkedRuns, ResetRuns
<1>5. PICK u, v : u = MarkedRuns(s) /\ v = ResetRuns(s)
  OBVIOUS
<1>6. n \in Nat /\ u \in [1 .. n -> RUN] /\ v \in [1 .. n -> RUN]
  BY <1>1, <1>3, <1>4, <1>5
<1>7. u \in Seq(RUN) /\ Len(u) = n /\ DOMAIN u = 1 .. n
  BY <1>6, AsSequence
<1>8. v \in Seq(RUN) /\ Len(v) = n /\ DOMAIN v = 1 .. n
  BY <1>6, AsSequence
<1> QED
  BY <1>1, <1>2, <1>3, <1>5, <1>7, <1>8

LEMMA setMarkKeeps ==
  ASSUME IInv, NEW s \in Sorter, setMark(s)
  PROVE  IInv'
<1>1. /\ sf[s].phase = "open" /\ sf \in [Sorter -> Sorters] /\ sf[s] \in Sorters
      /\ UNCHANGED <<file, creates, tmp, left, held>>
  BY DEF setMark, IInv, Types
<1>2. PICK v : v = [sf[s] EXCEPT !.marked = TRUE, !.runs = MarkedRuns(s)]
  OBVIOUS
<1>3. sf' = [sf EXCEPT ![s] = v]
  BY <1>1, <1>2 DEF setMark, MarkedRuns, Sorters
<1>4. /\ v \in Sorters /\ v.phase = "open" /\ v.status = sf[s].status
      /\ v.runs = MarkedRuns(s) /\ v.started = sf[s].started
      /\ v.scans = sf[s].scans
  BY <1>1, <1>2, AfterMarking DEF Sorters
<1>5. v.status # "none"
  BY <1>1, <1>4, OpenRuns DEF OpenOK
<1> QED
  BY <1>1, <1>3, <1>4, <1>5, AfterMarking, MergeStep

LEMMA gotoMarkKeeps ==
  ASSUME IInv, NEW s \in Sorter, gotoMark(s)
  PROVE  IInv'
<1>1. /\ sf[s].phase = "open" /\ sf \in [Sorter -> Sorters] /\ sf[s] \in Sorters
      /\ UNCHANGED <<file, creates, tmp, left, held>>
  BY DEF gotoMark, IInv, Types
<1>2. PICK v : v = [sf[s] EXCEPT !.runs = ResetRuns(s)]
  OBVIOUS
<1>3. sf' = [sf EXCEPT ![s] = v]
  BY <1>1, <1>2 DEF gotoMark, ResetRuns, Sorters
<1>4. /\ v \in Sorters /\ v.phase = "open" /\ v.status = sf[s].status
      /\ v.runs = ResetRuns(s) /\ v.started = sf[s].started
      /\ v.scans = sf[s].scans
  BY <1>1, <1>2, AfterMarking DEF Sorters
<1>5. v.status # "none"
  BY <1>1, <1>4, OpenRuns DEF OpenOK
<1> QED
  BY <1>1, <1>3, <1>4, <1>5, AfterMarking, MergeStep

-----------------------------------------------------------------------------
(***************************************************************************)
(* Run files are destroyed.                                                *)
(***************************************************************************)
LEMMA WithoutFacts ==
  ASSUME NEW s \in Sorter, NEW n
  PROVE  /\ DOMAIN Without(s, n) = 1 .. MaxRuns
         /\ \A k \in 1 .. MaxRuns : Without(s, n)[k] \in {NoRun, tmp[k]}
         /\ \A k \in 1 .. MaxRuns : ~removable(s, k) => Without(s, n)[k] = tmp[k]
         /\ \A k \in 1 .. MaxRuns : k <= n /\ removable(s, k) => Without(s, n)[k] = NoRun
BY DEF Without

LEMMA destroyKeeps ==
  ASSUME IInv, NEW s \in Sorter, ~Building, destroy(s)
  PROVE  IInv'
<1>1. /\ sf \in [Sorter -> Sorters] /\ sf[s] \in Sorters /\ sf' = [sf EXCEPT ![s] = NoSorter]
      /\ UNCHANGED <<file, creates, held>> /\ DOMAIN tmp = 1 .. MaxRuns
      /\ left' = {k \in left : tmp'[k] # NoRun}
  BY DEF destroy, IInv, Types
<1>2. PICK n : n = Len(sf[s].runs) /\ tmp' = Without(s, n)
  BY DEF destroy
<1>3. n \in Nat /\ DOMAIN sf[s].runs = 1 .. n
  BY <1>1, <1>2 DEF Sorters
<1>4. /\ DOMAIN tmp' = 1 .. MaxRuns
      /\ \A k \in 1 .. MaxRuns : tmp'[k] \in {NoRun, tmp[k]}
      /\ \A k \in 1 .. MaxRuns : ~removable(s, k) => tmp'[k] = tmp[k]
      /\ \A k \in 1 .. MaxRuns : k <= n /\ removable(s, k) => tmp'[k] = NoRun
  BY <1>2, WithoutFacts
<1>5. NoSorter \in Sorters
  BY DEF NoSorter, Sorters
<1>6. Types' /\ sf'[s] = NoSorter /\ \A q \in Sorter : q # s => sf'[q] = sf[q]
  BY <1>1, <1>4, <1>5, OneStep DEF IInv
<1>7. SorterOK(s)'
  BY <1>6 DEF SorterOK, NoSorter
<1>8. ASSUME NEW q \in Sorter, q # s PROVE SorterOK(q)'
  <2>1. SorterOK(q) /\ sf'[q] = sf[q] /\ sf[q].phase # "building"
    BY <1>6, <1>8 DEF IInv, Building
  <2>2. ASSUME sf[q].phase = "open", NEW k \in DOMAIN sf[q].runs PROVE tmp'[k] = tmp[k]
    <3>1. k \in 1 .. MaxRuns /\ k <= sf[q].scans
      BY <2>2, OpenRuns DEF OpenOK
    <3>2. ~removable(s, k)
      <4>1. k \in Nat /\ sf[q].scans \in Nat
        BY <1>1, <3>1 DEF Sorters
      <4> QED
        BY <1>8, <3>1, <4>1 DEF removable
    <3> QED
      BY <1>4, <3>1, <3>2
  <2> QED
    BY <1>1, <2>1, <2>2, Untouched
<1>9. OneBuilder'
  <2>1. \A q \in Sorter : sf'[q].phase = "building" => sf[q].phase = "building"
    BY <1>6 DEF NoSorter
  <2> QED
    BY <2>1, NoNewBuilder DEF IInv
<1>10. RunFilesOwned'
  <2> SUFFICES ASSUME NEW k \in 1 .. MaxRuns, tmp'[k] # NoRun, k \notin left' \cup held'
               PROVE  \E q \in Sorter : k \in DOMAIN sf'[q].runs
    BY DEF RunFilesOwned
  <2>1. tmp[k] # NoRun /\ k \notin left \cup held
    BY <1>1, <1>4
  <2>2. PICK q \in Sorter : k \in DOMAIN sf[q].runs
    BY <2>1 DEF IInv, RunFilesOwned
  <2>3. CASE q # s
    BY <1>6, <2>2, <2>3
  <2>4. CASE q = s
    <3>1. k <= n
      BY <1>3, <2>2, <2>4
    <3>2. ~removable(s, k)
      BY <1>4, <3>1
    <3>3. PICK p \in Sorter \ {s} : ~(k > sf[p].scans)
      BY <2>1, <3>2 DEF removable
    <3>4. k \in DOMAIN sf[p].runs
      <4>1. /\ sf[p].scans \in Nat /\ sf[p].scans <= Len(sf[p].runs)
            /\ Len(sf[p].runs) \in Nat /\ DOMAIN sf[p].runs = 1 .. Len(sf[p].runs)
        BY <1>1 DEF IInv, SorterOK, Sorters
      <4> QED
        BY <3>3, <4>1
    <3> QED
      BY <1>6, <3>3, <3>4
  <2> QED
    BY <2>3, <2>4
<1> QED
  BY <1>6, <1>7, <1>8, <1>9, <1>10 DEF IInv

LEMMA endsKeeps ==
  ASSUME IInv, NEW files, DOMAIN files = 1 .. MaxRuns, ends(files)
  PROVE  IInv'
<1>1. NoSorter \in Sorters
  BY DEF NoSorter, Sorters
<1>2. \A s \in Sorter : sf'[s] = NoSorter
  BY DEF ends
<1>3. Types'
  BY <1>1 DEF ends, IInv, Types
<1>4. \A s \in Sorter : SorterOK(s)'
  BY <1>2 DEF SorterOK, NoSorter
<1>5. OneBuilder'
  BY <1>2 DEF OneBuilder, NoSorter
<1>6. RunFilesOwned'
  BY DEF ends, RunFilesOwned
<1> QED
  BY <1>3, <1>4, <1>5, <1>6 DEF IInv

LEMMA NextIInv == IInv /\ [Next]_vars => IInv'
<1> SUFFICES ASSUME IInv, [Next]_vars PROVE IInv'
  OBVIOUS
<1>1. CASE UNCHANGED vars
  <2>1. UNCHANGED <<file, creates, tmp, left, held, sf>>
    BY <1>1 DEF vars
  <2>2. Types' /\ OneBuilder' /\ RunFilesOwned'
    BY <2>1 DEF IInv, Types, OneBuilder, RunFilesOwned
  <2>3. \A s \in Sorter : SorterOK(s)'
    BY <2>1, Untouched DEF IInv
  <2> QED
    BY <2>2, <2>3 DEF IInv
<1>2. ASSUME NEW s \in Sorter, generateRun(s) PROVE IInv'
  BY <1>2, generateRunKeeps
<1>3. ASSUME NEW s \in Sorter, startScans(s) PROVE IInv'
  BY <1>3, startScansKeeps
<1>4. ASSUME NEW s \in Sorter, ~Building, construct(s) PROVE IInv'
  BY <1>4, constructKeeps
<1>5. ASSUME NEW s \in Sorter, next(s) PROVE IInv'
  BY <1>5, nextKeeps
<1>6. ASSUME NEW s \in Sorter, setMark(s) PROVE IInv'
  BY <1>6, setMarkKeeps
<1>7. ASSUME NEW s \in Sorter, gotoMark(s) PROVE IInv'
  BY <1>7, gotoMarkKeeps
<1>8. ASSUME NEW s \in Sorter, ~Building, destroy(s) PROVE IInv'
  BY <1>8, destroyKeeps
<1>9. ASSUME NEW s \in Sorter, crash(s) PROVE IInv'
  <2>1. PICK n : ends(Without(s, n))
    BY <1>9 DEF crash
  <2> QED
    BY <2>1, WithoutFacts, endsKeeps
<1>10. ASSUME exit PROVE IInv'
  BY <1>10, endsKeeps DEF exit, IInv, Types
<1>11. ASSUME NEW s \in Sorter, sourceFails(s) PROVE IInv'
  BY <1>11, sourceFailsKeeps
<1> QED
  BY <1>1, <1>2, <1>3, <1>4, <1>5, <1>6, <1>7, <1>8, <1>9, <1>10, <1>11 DEF Next

-----------------------------------------------------------------------------
(***************************************************************************)
(* The results.                                                            *)
(***************************************************************************)
\* The inductive invariant holds throughout, with the types of the variables.
THEOREM Invariant == Spec => []IInv
<1>1. Init => IInv
  BY InitIInv
<1>2. IInv /\ [Next]_vars => IInv'
  BY NextIInv
<1> QED
  BY <1>1, <1>2, PTL DEF Spec

\* Two positions of the runs of an open object hold different records.
LEMMA RunsDisjoint ==
  ASSUME IInv, NEW s \in Sorter, sf[s].phase = "open",
         NEW k \in DOMAIN sf[s].runs, NEW j \in DOMAIN sf[s].runs,
         NEW m \in DOMAIN tmp[k], NEW n \in DOMAIN tmp[j], tmp[k][m] = tmp[j][n]
  PROVE  k = j /\ m = n
<1>1. /\ Types
      /\ k \in Nat \ {0} /\ Lo(k) <= Len(file) /\ IsRun(tmp[k], k)
      /\ j \in Nat \ {0} /\ Lo(j) <= Len(file) /\ IsRun(tmp[j], j)
  BY OpenRuns DEF IInv
<1>2. PICK a \in Lo(k) .. Hi(k) : tmp[k][m] = file[a]
  BY <1>1 DEF IsRun, ToSet
<1>3. PICK b \in Lo(j) .. Hi(j) : tmp[j][n] = file[b]
  BY <1>1 DEF IsRun, ToSet
<1>4. /\ Lo(k) \in Nat /\ Hi(k) \in Nat /\ 1 <= Lo(k) /\ Hi(k) <= Len(file) /\ Len(file) \in Nat
      /\ Lo(j) \in Nat /\ Hi(j) \in Nat /\ 1 <= Lo(j) /\ Hi(j) <= Len(file)
  BY <1>1, Bounds
<1>5. a \in 1 .. Len(file) /\ b \in 1 .. Len(file)
  BY <1>4
<1>6. a = b
  <2>1. DOMAIN file = 1 .. Len(file) /\ IsInjective(file)
    BY <1>1 DEF Types
  <2> QED
    BY <1>2, <1>3, <1>5, <2>1 DEF IsInjective
<1>7. k = j
  <2>1. ~(k < j)
    BY <1>1, <1>4, <1>6, Apart
  <2>2. ~(j < k)
    BY <1>1, <1>4, <1>6, Apart
  <2> QED
    BY <1>1, <2>1, <2>2
<1>8. m = n
  BY <1>1, <1>7 DEF IsRun, IsInjective
<1> QED
  BY <1>7, <1>8

\* A record is in a run of an object that has read the whole file just when it is
\* in the file.
LEMMA RunsCover ==
  ASSUME Types, NEW s \in Sorter, HasRuns(s), Len(file) <= Len(sf[s].runs) * MaxItems
  PROVE  \A r : (\E k \in DOMAIN sf[s].runs : \E m \in DOMAIN tmp[k] : r = tmp[k][m])
               <=> \E i \in DOMAIN file : r = file[i]
<1> SUFFICES ASSUME NEW r
             PROVE  (\E k \in DOMAIN sf[s].runs : \E m \in DOMAIN tmp[k] : r = tmp[k][m])
                      <=> \E i \in DOMAIN file : r = file[i]
  OBVIOUS
<1>1. Len(sf[s].runs) \in Nat /\ DOMAIN sf[s].runs = 1 .. Len(sf[s].runs)
  BY DEF Types, Sorters
<1>2. DOMAIN file = 1 .. Len(file) /\ Len(file) \in Nat
  BY DEF Types
<1>3. ASSUME NEW k \in DOMAIN sf[s].runs, NEW m \in DOMAIN tmp[k], r = tmp[k][m]
      PROVE  \E i \in DOMAIN file : r = file[i]
  <2>1. k \in Nat \ {0} /\ Lo(k) <= Len(file) /\ IsRun(tmp[k], k)
    BY <1>3 DEF HasRuns
  <2>2. PICK i \in Lo(k) .. Hi(k) : r = file[i]
    BY <1>3, <2>1 DEF IsRun, ToSet
  <2>3. Lo(k) \in Nat /\ Hi(k) \in Nat /\ 1 <= Lo(k) /\ Hi(k) <= Len(file)
    BY <2>1, Bounds
  <2> QED
    BY <1>2, <2>2, <2>3
<1>4. ASSUME NEW i \in DOMAIN file, r = file[i]
      PROVE  \E k \in DOMAIN sf[s].runs : \E m \in DOMAIN tmp[k] : r = tmp[k][m]
  <2>1. PICK n : n = Len(sf[s].runs)
    OBVIOUS
  <2>2. PICK k \in 1 .. n : i \in Lo(k) .. Hi(k)
    BY <1>1, <1>2, <2>1, Covered
  <2>3. k \in DOMAIN sf[s].runs /\ IsRun(tmp[k], k)
    BY <1>1, <2>1 DEF HasRuns
  <2>4. r \in ToSet(tmp[k])
    BY <1>4, <2>2, <2>3 DEF IsRun
  <2> QED
    BY <2>3, <2>4 DEF ToSet
<1> QED
  BY <1>3, <1>4

LEMMA RunFilesKeptNow == IInv => RunFilesKept
<1> SUFFICES ASSUME IInv, NEW s \in Sorter, sf[s].phase = "open"
             PROVE  LET K == DOMAIN sf[s].runs
                    IN  /\ \A k \in K : tmp[k] # NoRun
                        /\ UNION {ToSet(tmp[k]) : k \in K} = ToSet(file)
                        /\ \A k, j \in K : \A m \in DOMAIN tmp[k], n \in DOMAIN tmp[j] :
                             tmp[k][m] = tmp[j][n] => k = j /\ m = n
  BY DEF RunFilesKept
<1> DEFINE K == DOMAIN sf[s].runs
<1>1. \A k \in K : tmp[k] # NoRun
  BY OpenRuns
<1>2. UNION {ToSet(tmp[k]) : k \in K} = ToSet(file)
  <2>0. \A r : (\E k \in DOMAIN sf[s].runs : \E m \in DOMAIN tmp[k] : r = tmp[k][m])
               <=> \E i \in DOMAIN file : r = file[i]
    BY OpenRuns, RunsCover DEF IInv, OpenOK
  <2> SUFFICES ASSUME NEW r
               PROVE  r \in UNION {ToSet(tmp[k]) : k \in K} <=> r \in ToSet(file)
    OBVIOUS
  <2>1. r \in UNION {ToSet(tmp[k]) : k \in K} <=> \E k \in K : \E m \in DOMAIN tmp[k] : r = tmp[k][m]
    BY DEF ToSet
  <2>2. r \in ToSet(file) <=> \E i \in DOMAIN file : r = file[i]
    BY DEF ToSet
  <2>3. (\E k \in DOMAIN sf[s].runs : \E m \in DOMAIN tmp[k] : r = tmp[k][m])
          <=> \E i \in DOMAIN file : r = file[i]
    BY <2>0
  <2> QED
    BY <2>1, <2>2, <2>3
<1>3. \A k, j \in K : \A m \in DOMAIN tmp[k], n \in DOMAIN tmp[j] :
        tmp[k][m] = tmp[j][n] => k = j /\ m = n
  BY RunsDisjoint
<1> QED
  BY <1>1, <1>2, <1>3

\* While a SortedFile is open its run files hold the records of the source file,
\* each record once, whatever other objects with the same run names do.
THEOREM RunFilesKeptAlways == Spec => []RunFilesKept
<1>1. IInv => RunFilesKept
  BY RunFilesKeptNow
<1> QED
  BY <1>1, Invariant, PTL

\* A run file that exists belongs to an object that will destroy it, unless a
\* program that ended left it behind or generateRun could not finish it: then the
\* outFile that nobody deletes has it open.  A constructor that fails anywhere else,
\* while others share its run names, leaves no temporary file.
THEOREM RunFilesOwnedAlways == Spec => []RunFilesOwned
<1>1. IInv => RunFilesOwned
  BY DEF IInv
<1> QED
  BY <1>1, Invariant, PTL

-----------------------------------------------------------------------------
(***************************************************************************)
(* The merge implements SortCursor.  The variables of SortCursor:          *)
(***************************************************************************)
ToCome(s) ==
  IF sf[s].phase = "open"
  THEN UNION {{tmp[k][i] : i \in Upcoming(sf[s].runs[k]) .. Len(tmp[k])} : k \in DOMAIN sf[s].runs}
  ELSE {}

Returned(s) ==
  IF sf[s].phase # "open" THEN {}
  ELSE {tmp[k][sf[s].runs[k].cur] :
          k \in {j \in DOMAIN sf[s].runs : ~sf[s].runs[j].valid /\ sf[s].runs[j].rid > 0}}

FromMark(s) ==
  IF sf[s].marked
  THEN UNION {{tmp[k][i] : i \in AtMark(sf[s].runs[k]) .. Len(tmp[k])} : k \in DOMAIN sf[s].runs}
  ELSE NoMark

AbsSource == {file[i] : i \in DOMAIN file}
AbsRest == [s \in Sorter |-> ToCome(s)]
AbsLast == [s \in Sorter |-> Returned(s)]
AbsStarted == [s \in Sorter |-> sf[s].started]
AbsMark == [s \in Sorter |-> FromMark(s)]
AbsStatus == [s \in Sorter |-> sf[s].status]

\* SortCursor's steps and initial states, in these terms.
LEMMA CursorOpen ==
  ASSUME NEW s \in Sorter, AbsStatus[s] = "none", AbsRest' = [AbsRest EXCEPT ![s] = AbsSource],
         AbsStatus' = [AbsStatus EXCEPT ![s] = "opened"],
         UNCHANGED <<AbsSource, AbsLast, AbsStarted, AbsMark>>
  PROVE  Cursor!Open(s)
BY DEF Cursor!Open, AbsSource, AbsRest, AbsLast, AbsStarted, AbsMark, AbsStatus,
       ToCome, Returned, FromMark, From

LEMMA CursorNext ==
  ASSUME NEW s \in Sorter, AbsStatus[s] # "none",
         AbsStarted' = [AbsStarted EXCEPT ![s] = TRUE], UNCHANGED <<AbsSource, AbsMark>>,
         \/ \E r \in AbsRest[s] :
              /\ \A q \in AbsRest[s] : r.key <= q.key
              /\ AbsRest' = [AbsRest EXCEPT ![s] = @ \ {r}]
              /\ AbsLast' = [AbsLast EXCEPT ![s] = {r}]
              /\ AbsStatus' = [AbsStatus EXCEPT ![s] = "OK"]
         \/ /\ AbsRest[s] = {} /\ UNCHANGED AbsRest
            /\ AbsLast' = [AbsLast EXCEPT ![s] = {}]
            /\ AbsStatus' = [AbsStatus EXCEPT ![s] = "FILEEOF"]
  PROVE  Cursor!Next(s)
BY DEF Cursor!Next, Cursor!NextRecord, Cursor!NextAtEnd, AbsSource, AbsRest, AbsLast,
       AbsStarted, AbsMark, AbsStatus, ToCome, Returned, FromMark, From

LEMMA CursorSetMark ==
  ASSUME NEW s \in Sorter, AbsStatus[s] # "none",
         AbsMark' = [AbsMark EXCEPT ![s] = IF AbsStarted[s] THEN AbsRest[s] \cup AbsLast[s] ELSE {}],
         UNCHANGED <<AbsSource, AbsRest, AbsLast, AbsStarted, AbsStatus>>
  PROVE  Cursor!SetMark(s)
BY DEF Cursor!SetMark, AbsSource, AbsRest, AbsLast, AbsStarted, AbsMark, AbsStatus,
       ToCome, Returned, FromMark, From

LEMMA CursorGotoMark ==
  ASSUME NEW s \in Sorter, AbsStatus[s] # "none", AbsMark[s] # NoMark,
         AbsRest' = [AbsRest EXCEPT ![s] = AbsMark[s]], AbsLast' = [AbsLast EXCEPT ![s] = {}],
         UNCHANGED <<AbsSource, AbsStarted, AbsMark, AbsStatus>>
  PROVE  Cursor!GotoMark(s)
BY DEF Cursor!GotoMark, AbsSource, AbsRest, AbsLast, AbsStarted, AbsMark, AbsStatus,
       ToCome, Returned, FromMark, From

LEMMA CursorClose ==
  ASSUME NEW s \in Sorter,
         AbsRest' = [AbsRest EXCEPT ![s] = {}], AbsLast' = [AbsLast EXCEPT ![s] = {}],
         AbsStarted' = [AbsStarted EXCEPT ![s] = FALSE],
         AbsMark' = [AbsMark EXCEPT ![s] = NoMark],
         AbsStatus' = [AbsStatus EXCEPT ![s] = "none"], UNCHANGED AbsSource
  PROVE  Cursor!Close(s)
BY DEF Cursor!Close, AbsSource, AbsRest, AbsLast, AbsStarted, AbsMark, AbsStatus,
       ToCome, Returned, FromMark, From

\* An object that is not open looks the same to SortCursor, whatever it does.
LEMMA NotOpen ==
  ASSUME NEW q \in Sorter, SorterOK(q), sf[q].phase # "open"
  PROVE  ToCome(q) = {} /\ Returned(q) = {} /\ FromMark(q) = NoMark
         /\ sf[q].started = FALSE /\ sf[q].status = "none"
BY DEF SorterOK, ToCome, Returned, FromMark

\* The object q looks the same to SortCursor before and after a step.
Same(q) ==
  /\ ToCome(q)' = ToCome(q) /\ Returned(q)' = Returned(q) /\ FromMark(q)' = FromMark(q)
  /\ sf'[q].started = sf[q].started /\ sf'[q].status = sf[q].status

LEMMA SameObject ==
  ASSUME NEW q \in Sorter, SorterOK(q), sf'[q] = sf[q],
         sf[q].phase = "open" => \A k \in DOMAIN sf[q].runs : tmp'[k] = tmp[k]
  PROVE  Same(q)
<1>1. CASE sf[q].phase = "open"
  <2>1. DOMAIN sf'[q].runs = DOMAIN sf[q].runs
    OBVIOUS
  <2>2. ToCome(q)' = ToCome(q)
    BY <1>1, <2>1 DEF ToCome, Upcoming, Far
  <2>3. Returned(q)' = Returned(q)
    BY <1>1, <2>1 DEF Returned
  <2>4. FromMark(q)' = FromMark(q)
    <3>1. CASE sf[q].marked
      <4>1. FromMark(q) = UNION {{tmp[k][i] : i \in AtMark(sf[q].runs[k]) .. Len(tmp[k])} :
                                   k \in DOMAIN sf[q].runs}
        BY <3>1 DEF FromMark
      <4>2. FromMark(q)' = UNION {{tmp'[k][i] : i \in AtMark(sf[q].runs[k]) .. Len(tmp'[k])} :
                                    k \in DOMAIN sf[q].runs}
        BY <3>1 DEF FromMark, AtMark, Far
      <4> QED
        BY <1>1, <4>1, <4>2
    <3>2. CASE ~sf[q].marked
      BY <3>2 DEF FromMark
    <3> QED
      BY <3>1, <3>2
  <2> QED
    BY <2>2, <2>3, <2>4 DEF Same
<1>2. CASE sf[q].phase # "open"
  BY <1>2 DEF SorterOK, ToCome, Returned, FromMark, Same
<1> QED
  BY <1>1, <1>2

\* A step of s alone.
LEMMA Update ==
  ASSUME NEW s \in Sorter, \A q \in Sorter \ {s} : Same(q)
  PROVE  /\ AbsRest' = [AbsRest EXCEPT ![s] = ToCome(s)']
         /\ AbsLast' = [AbsLast EXCEPT ![s] = Returned(s)']
         /\ AbsMark' = [AbsMark EXCEPT ![s] = FromMark(s)']
         /\ AbsStarted' = [AbsStarted EXCEPT ![s] = sf'[s].started]
         /\ AbsStatus' = [AbsStatus EXCEPT ![s] = sf'[s].status]
BY DEF Same, AbsRest, AbsLast, AbsMark, AbsStarted, AbsStatus

\* A step that SortCursor does not see.
LEMMA Stutter ==
  ASSUME UNCHANGED file, \A q \in Sorter : Same(q)
  PROVE  UNCHANGED Cursor!vars
<1>1. /\ AbsSource' = AbsSource /\ AbsRest' = AbsRest /\ AbsLast' = AbsLast
      /\ AbsMark' = AbsMark /\ AbsStarted' = AbsStarted /\ AbsStatus' = AbsStatus
  BY DEF Same, AbsSource, AbsRest, AbsLast, AbsMark, AbsStarted, AbsStatus
<1> QED
  BY <1>1 DEF Cursor!vars, AbsSource, AbsRest, AbsLast, AbsStarted, AbsMark, AbsStatus,
       ToCome, Returned, FromMark, From

LEMMA InitRefines == Init => Cursor!Init
<1> SUFFICES ASSUME Init PROVE Cursor!Init
  OBVIOUS
<1>1. \A s \in Sorter : sf[s] = NoSorter
  BY DEF Init
<1>2. /\ AbsRest = [s \in Sorter |-> {}] /\ AbsLast = [s \in Sorter |-> {}]
      /\ AbsStarted = [s \in Sorter |-> FALSE] /\ AbsMark = [s \in Sorter |-> NoMark]
      /\ AbsStatus = [s \in Sorter |-> "none"]
  <2>1. \A s \in Sorter :
          /\ ToCome(s) = {} /\ Returned(s) = {} /\ FromMark(s) = NoMark
          /\ sf[s].started = FALSE /\ sf[s].status = "none"
    BY <1>1 DEF NoSorter, ToCome, Returned, FromMark
  <2> QED
    BY <2>1 DEF AbsRest, AbsLast, AbsStarted, AbsMark, AbsStatus
<1> QED
  BY <1>2 DEF Cursor!Init, AbsRest, AbsLast, AbsStarted, AbsMark, AbsStatus,
       ToCome, Returned, FromMark, From

\* A constructor that is not done, or has failed, is not seen.
LEMMA NotYetOpen ==
  ASSUME IInv, NEW s \in Sorter, sf[s].phase \in {"none", "building"},
         NEW p \in {"building", "failed"}, sf'[s].phase = p,
         sf'[s].marked = sf[s].marked, sf'[s].started = sf[s].started,
         sf'[s].status = sf[s].status, \A q \in Sorter \ {s} : sf'[q] = sf[q],
         UNCHANGED <<file, tmp>>
  PROVE  UNCHANGED Cursor!vars
<1>1. SorterOK(s)
  BY DEF IInv
<1>2. Same(s)
  BY <1>1 DEF SorterOK, Same, ToCome, Returned, FromMark
<1>3. ASSUME NEW q \in Sorter \ {s} PROVE Same(q)
  BY SameObject DEF IInv
<1> QED
  BY <1>2, <1>3, Stutter

LEMMA constructRefines ==
  ASSUME IInv, NEW s \in Sorter, construct(s)
  PROVE  UNCHANGED Cursor!vars
<1>1. /\ sf[s].phase = "none" /\ sf \in [Sorter -> Sorters] /\ sf[s] \in Sorters
      /\ UNCHANGED <<file, tmp>>
  BY DEF construct, IInv, Types
<1>2. PICK p \in {"building", "failed"} : sf' = [sf EXCEPT ![s].phase = p]
  BY DEF construct
<1>3. /\ sf'[s].phase = p /\ sf'[s].marked = sf[s].marked
      /\ sf'[s].started = sf[s].started /\ sf'[s].status = sf[s].status
      /\ \A q \in Sorter \ {s} : sf'[q] = sf[q]
  BY <1>1, <1>2 DEF Sorters
<1> QED
  BY <1>1, <1>3, NotYetOpen

LEMMA sourceFailsRefines ==
  ASSUME IInv, NEW s \in Sorter, sourceFails(s)
  PROVE  UNCHANGED Cursor!vars
<1>1. /\ sf[s].phase = "building" /\ sf \in [Sorter -> Sorters] /\ sf[s] \in Sorters
      /\ sf' = [sf EXCEPT ![s].phase = "failed"] /\ UNCHANGED <<file, tmp>>
  BY DEF sourceFails, IInv, Types
<1>2. /\ sf'[s].phase = "failed" /\ sf'[s].marked = sf[s].marked
      /\ sf'[s].started = sf[s].started /\ sf'[s].status = sf[s].status
      /\ \A q \in Sorter \ {s} : sf'[q] = sf[q]
  BY <1>1 DEF Sorters
<1> QED
  BY <1>1, <1>2, NotYetOpen

LEMMA generateRunRefines ==
  ASSUME IInv, NEW s \in Sorter, generateRun(s)
  PROVE  UNCHANGED Cursor!vars
<1>0. PICK k : k = Len(sf[s].runs) + 1
  OBVIOUS
<1>1. /\ sf[s].phase = "building" /\ sf \in [Sorter -> Sorters] /\ SorterOK(s) /\ UNCHANGED file
      /\ DOMAIN tmp = 1 .. MaxRuns
  BY DEF generateRun, IInv, Types
<1>2. /\ sf'[s].phase \in {"building", "failed"} /\ sf'[s].marked = sf[s].marked
      /\ sf'[s].started = sf[s].started /\ sf'[s].status = sf[s].status
      /\ sf[s].marked = FALSE /\ \A q \in Sorter \ {s} : sf'[q] = sf[q]
  BY <1>1 DEF generateRun, Sorters, SorterOK
<1>3. Same(s)
  BY <1>1, <1>2 DEF Same, ToCome, Returned, FromMark
<1>4. \A j \in 1 .. MaxRuns : tmp[j] # NoRun => tmp'[j] = tmp[j]
  <2>1. \/ UNCHANGED tmp
        \/ tmp[k] = NoRun /\ \E u : tmp' = [tmp EXCEPT ![k] = u]
    BY <1>0 DEF generateRun, taken
  <2> QED
    BY <1>1, <2>1
<1>5. ASSUME NEW q \in Sorter \ {s} PROVE Same(q)
  <2>1. ASSUME sf[q].phase = "open", NEW j \in DOMAIN sf[q].runs PROVE tmp'[j] = tmp[j]
    BY <1>4, <2>1, OpenRuns
  <2> QED
    BY <1>2, <2>1, SameObject DEF IInv
<1> QED
  BY <1>1, <1>3, <1>5, Stutter

\* Every run of s can be scanned.
Opens(s) ==
  /\ sf[s].phase = "building" /\ sf[s].pos >= Len(file)
  /\ sf' = [sf EXCEPT ![s].phase = "open", ![s].status = "opened",
                      ![s].scans = Len(sf[s].runs)]
  /\ UNCHANGED <<file, tmp>>

LEMMA opensRefines ==
  ASSUME IInv, NEW s \in Sorter, Opens(s)
  PROVE  Cursor!Open(s)
<1>1. /\ sf[s].phase = "building" /\ sf[s].pos >= Len(file) /\ sf \in [Sorter -> Sorters]
      /\ sf' = [sf EXCEPT ![s].phase = "open", ![s].status = "opened",
                          ![s].scans = Len(sf[s].runs)]
      /\ UNCHANGED <<file, tmp>> /\ Types /\ SorterOK(s) /\ sf[s] \in Sorters
  BY DEF Opens, IInv, Types
<1>2. /\ sf'[s].phase = "open" /\ sf'[s].marked = sf[s].marked /\ sf'[s].runs = sf[s].runs
      /\ sf'[s].started = sf[s].started /\ sf'[s].status = "opened"
      /\ \A q \in Sorter \ {s} : sf'[q] = sf[q]
  BY <1>1 DEF Sorters
<1>3. BuildingOK(s) /\ sf[s].marked = FALSE /\ sf[s].status = "none"
  BY <1>1 DEF SorterOK, Sorters
<1>4. ASSUME NEW k \in DOMAIN sf[s].runs
      PROVE  sf'[s].runs[k] = NewRUN /\ Upcoming(sf'[s].runs[k]) = 1 /\ DOMAIN tmp[k] = 1 .. Len(tmp[k])
  <2>1. sf'[s].runs[k] = NewRUN
    BY <1>2, <1>3, <1>4 DEF BuildingOK
  <2>2. Upcoming(NewRUN) = 1
    BY DEF Upcoming, NewRUN
  <2>3. k \in Nat \ {0} /\ Lo(k) <= Len(file) /\ IsRun(tmp[k], k)
    BY <1>3, <1>4 DEF BuildingOK, HasRuns
  <2>4. PICK u : u = tmp[k]
    OBVIOUS
  <2>5. DOMAIN u = 1 .. Len(u)
    BY <1>1, <2>3, <2>4, RunFacts
  <2> QED
    BY <2>1, <2>2, <2>4, <2>5
<1>5. ToCome(s)' = AbsSource
  <2>1. \A r : (\E k \in DOMAIN sf[s].runs : \E m \in DOMAIN tmp[k] : r = tmp[k][m])
             <=> \E i \in DOMAIN file : r = file[i]
    BY <1>1, <1>3, RunsCover DEF BuildingOK
  <2> SUFFICES ASSUME NEW r PROVE r \in ToCome(s)' <=> r \in AbsSource
    OBVIOUS
  <2>2. r \in ToCome(s)' <=> \E k \in DOMAIN sf[s].runs : \E m \in DOMAIN tmp[k] : r = tmp[k][m]
    <3>1. r \in ToCome(s)' <=> \E k \in DOMAIN sf'[s].runs :
            \E m \in Upcoming(sf'[s].runs[k]) .. Len(tmp'[k]) : r = tmp'[k][m]
      BY <1>2 DEF ToCome, Upcoming, Far
    <3> QED
      BY <1>1, <1>2, <1>4, <3>1
  <2>3. r \in AbsSource <=> \E i \in DOMAIN file : r = file[i]
    BY DEF AbsSource
  <2> QED
    BY <2>1, <2>2, <2>3
<1>6. Returned(s)' = {} /\ Returned(s) = {}
  <2>1. NewRUN.rid = 0
    BY DEF NewRUN
  <2> QED
    BY <1>1, <1>2, <1>4, <2>1 DEF Returned
<1>7. FromMark(s)' = NoMark /\ FromMark(s) = NoMark
  BY <1>2, <1>3 DEF FromMark
<1>8. \A q \in Sorter \ {s} : Same(q)
  BY <1>1, <1>2, SameObject DEF IInv
<1>9. /\ AbsRest' = [AbsRest EXCEPT ![s] = AbsSource]
      /\ AbsStatus' = [AbsStatus EXCEPT ![s] = "opened"] /\ AbsStatus[s] = "none"
  BY <1>2, <1>3, <1>5, <1>8, Update DEF AbsStatus
<1>10. UNCHANGED <<AbsSource, AbsLast, AbsStarted, AbsMark>>
  <2>1. \A q \in Sorter : /\ Returned(q)' = Returned(q) /\ FromMark(q)' = FromMark(q)
                          /\ sf'[q].started = sf[q].started
    BY <1>2, <1>6, <1>7, <1>8 DEF Same
  <2>2. AbsSource' = AbsSource
    BY <1>1 DEF AbsSource
  <2>3. AbsLast' = AbsLast /\ AbsStarted' = AbsStarted /\ AbsMark' = AbsMark
    BY <2>1 DEF AbsLast, AbsStarted, AbsMark
  <2> QED
    BY <2>2, <2>3
<1> QED
  BY <1>9, <1>10, CursorOpen

LEMMA startScansRefines ==
  ASSUME IInv, NEW s \in Sorter, startScans(s)
  PROVE  Cursor!Open(s) \/ UNCHANGED Cursor!vars
<1>1. /\ sf[s].phase = "building" /\ sf[s].pos >= Len(file) /\ UNCHANGED <<file, tmp>>
      /\ sf \in [Sorter -> Sorters] /\ sf[s] \in Sorters
  BY DEF startScans, IInv, Types
<1>2. CASE sf' = [sf EXCEPT ![s].phase = "open", ![s].status = "opened",
                            ![s].scans = Len(sf[s].runs)]
  BY <1>1, <1>2, opensRefines DEF Opens
<1>3. CASE \E j \in 0 .. Len(sf[s].runs) - 1 :
             sf' = [sf EXCEPT ![s].phase = "failed", ![s].scans = j]
  <2>1. /\ sf'[s].phase = "failed" /\ sf'[s].marked = sf[s].marked
        /\ sf'[s].started = sf[s].started /\ sf'[s].status = sf[s].status
        /\ \A q \in Sorter \ {s} : sf'[q] = sf[q]
    BY <1>1, <1>3 DEF Sorters
  <2> QED
    BY <1>1, <2>1, NotYetOpen
<1> QED
  BY <1>2, <1>3 DEF startScans

LEMMA destroyRefines ==
  ASSUME IInv, NEW s \in Sorter, destroy(s)
  PROVE  Cursor!Close(s)
<1>1. /\ sf \in [Sorter -> Sorters] /\ sf' = [sf EXCEPT ![s] = NoSorter] /\ UNCHANGED file
      /\ tmp' = Without(s, Len(sf[s].runs))
  BY DEF destroy, IInv, Types
<1>2. ASSUME NEW q \in Sorter \ {s} PROVE Same(q)
  <2>1. ASSUME sf[q].phase = "open", NEW k \in DOMAIN sf[q].runs PROVE tmp'[k] = tmp[k]
    <3>1. k \in 1 .. MaxRuns /\ k <= sf[q].scans
      BY <2>1, OpenRuns DEF OpenOK
    <3>2. ~removable(s, k)
      <4>1. k \in Nat /\ sf[q].scans \in Nat
        BY <1>1, <3>1 DEF Sorters
      <4> QED
        BY <3>1, <4>1 DEF removable
    <3> QED
      BY <1>1, <3>1, <3>2, WithoutFacts
  <2> QED
    BY <1>1, <2>1, SameObject DEF IInv
<1>3. sf'[s] = NoSorter
  BY <1>1
<1>4. /\ ToCome(s)' = {} /\ Returned(s)' = {} /\ FromMark(s)' = NoMark
      /\ sf'[s].started = FALSE /\ sf'[s].status = "none"
  BY <1>3 DEF NoSorter, ToCome, Returned, FromMark
<1>5. UNCHANGED AbsSource
  BY <1>1 DEF AbsSource
<1>6. /\ AbsRest' = [AbsRest EXCEPT ![s] = {}] /\ AbsLast' = [AbsLast EXCEPT ![s] = {}]
      /\ AbsStarted' = [AbsStarted EXCEPT ![s] = FALSE]
      /\ AbsMark' = [AbsMark EXCEPT ![s] = NoMark]
      /\ AbsStatus' = [AbsStatus EXCEPT ![s] = "none"]
  BY <1>2, <1>4, Update
<1> QED
  BY <1>5, <1>6, CursorClose

LEMMA endsRefines ==
  ASSUME NEW files, ends(files)
  PROVE  Cursor!CloseAll
<1>1. \A s \in Sorter : sf'[s] = NoSorter
  BY DEF ends
<1>2. /\ AbsRest' = [s \in Sorter |-> {}] /\ AbsLast' = [s \in Sorter |-> {}]
      /\ AbsStarted' = [s \in Sorter |-> FALSE] /\ AbsMark' = [s \in Sorter |-> NoMark]
      /\ AbsStatus' = [s \in Sorter |-> "none"]
  <2>1. \A s \in Sorter :
          /\ ToCome(s)' = {} /\ Returned(s)' = {} /\ FromMark(s)' = NoMark
          /\ sf'[s].started = FALSE /\ sf'[s].status = "none"
    BY <1>1 DEF NoSorter, ToCome, Returned, FromMark
  <2> QED
    BY <2>1 DEF AbsRest, AbsLast, AbsStarted, AbsMark, AbsStatus
<1>3. AbsSource' = AbsSource
  BY DEF ends, AbsSource
<1> QED
  BY <1>2, <1>3 DEF Cursor!CloseAll, Cursor!Init, AbsSource, AbsRest, AbsLast, AbsStarted,
       AbsMark, AbsStatus, ToCome, Returned, FromMark, From

\* What runs in these positions have to come, have returned and have marked.
RestOf(runs) == UNION {{tmp[k][i] : i \in Upcoming(runs[k]) .. Len(tmp[k])} : k \in DOMAIN runs}
LastOf(runs) ==
  {tmp[k][runs[k].cur] : k \in {j \in DOMAIN runs : ~runs[j].valid /\ runs[j].rid > 0}}
MarkOf(runs) == UNION {{tmp[k][i] : i \in AtMark(runs[k]) .. Len(tmp[k])} : k \in DOMAIN runs}

\* A call of next, setMark or gotoMark, as SortCursor sees it.
LEMMA MergeUpdate ==
  ASSUME IInv, NEW s \in Sorter, sf[s].phase = "open", NEW v \in Sorters,
         sf' = [sf EXCEPT ![s] = v], v.phase = "open", UNCHANGED <<file, tmp>>
  PROVE  /\ AbsSource' = AbsSource
         /\ AbsRest' = [AbsRest EXCEPT ![s] = RestOf(v.runs)]
         /\ AbsRest[s] = RestOf(sf[s].runs)
         /\ AbsLast' = [AbsLast EXCEPT ![s] = LastOf(v.runs)]
         /\ AbsLast[s] = LastOf(sf[s].runs)
         /\ AbsMark' = [AbsMark EXCEPT ![s] = IF v.marked THEN MarkOf(v.runs) ELSE NoMark]
         /\ AbsMark[s] = IF sf[s].marked THEN MarkOf(sf[s].runs) ELSE NoMark
         /\ AbsStarted' = [AbsStarted EXCEPT ![s] = v.started] /\ AbsStarted[s] = sf[s].started
         /\ AbsStatus' = [AbsStatus EXCEPT ![s] = v.status] /\ AbsStatus[s] = sf[s].status
         /\ AbsStatus[s] # "none"
<1>1. sf \in [Sorter -> Sorters]
  BY DEF IInv, Types
<1>2. sf'[s] = v /\ \A q \in Sorter \ {s} : sf'[q] = sf[q]
  BY <1>1
<1>3. \A q \in Sorter \ {s} : Same(q)
  BY <1>2, SameObject DEF IInv
<1>4. ToCome(s)' = RestOf(v.runs) /\ ToCome(s) = RestOf(sf[s].runs)
  BY <1>2 DEF ToCome, RestOf, Upcoming, Far
<1>5. Returned(s)' = LastOf(v.runs) /\ Returned(s) = LastOf(sf[s].runs)
  BY <1>2 DEF Returned, LastOf
<1>6. FromMark(s)' = IF v.marked THEN MarkOf(v.runs) ELSE NoMark
  <2>1. CASE v.marked
    BY <1>2, <2>1 DEF FromMark, MarkOf, AtMark, Far
  <2>2. CASE ~v.marked
    BY <1>2, <2>2 DEF FromMark
  <2> QED
    BY <2>1, <2>2
<1>7. FromMark(s) = IF sf[s].marked THEN MarkOf(sf[s].runs) ELSE NoMark
  BY DEF FromMark, MarkOf
<1>8. AbsSource' = AbsSource
  BY DEF AbsSource
<1>9. sf[s].status # "none"
  BY OpenRuns DEF OpenOK
<1>10. /\ AbsRest[s] = ToCome(s) /\ AbsLast[s] = Returned(s) /\ AbsMark[s] = FromMark(s)
       /\ AbsStarted[s] = sf[s].started /\ AbsStatus[s] = sf[s].status
  BY DEF AbsRest, AbsLast, AbsMark, AbsStarted, AbsStatus
<1>11. /\ AbsRest' = [AbsRest EXCEPT ![s] = RestOf(v.runs)]
       /\ AbsLast' = [AbsLast EXCEPT ![s] = LastOf(v.runs)]
  BY <1>3, <1>4, <1>5, Update
<1>12. AbsMark' = [AbsMark EXCEPT ![s] = IF v.marked THEN MarkOf(v.runs) ELSE NoMark]
  BY <1>3, <1>6, Update
<1>13. /\ AbsStarted' = [AbsStarted EXCEPT ![s] = v.started]
       /\ AbsStatus' = [AbsStatus EXCEPT ![s] = v.status]
  BY <1>2, <1>3, Update
<1> QED
  BY <1>4, <1>5, <1>7, <1>8, <1>9, <1>10, <1>11, <1>12, <1>13

\* Nothing is assigned when the value is the old one.
LEMMA NoUpdate ==
  ASSUME NEW s \in Sorter
  PROVE  /\ [AbsRest EXCEPT ![s] = AbsRest[s]] = AbsRest
         /\ [AbsLast EXCEPT ![s] = AbsLast[s]] = AbsLast
         /\ [AbsMark EXCEPT ![s] = AbsMark[s]] = AbsMark
         /\ [AbsStarted EXCEPT ![s] = AbsStarted[s]] = AbsStarted
         /\ [AbsStatus EXCEPT ![s] = AbsStatus[s]] = AbsStatus
BY DEF AbsRest, AbsLast, AbsMark, AbsStarted, AbsStatus

LEMMA setMarkRefines ==
  ASSUME IInv, NEW s \in Sorter, setMark(s)
  PROVE  Cursor!SetMark(s)
<1>1. /\ sf[s].phase = "open" /\ sf \in [Sorter -> Sorters] /\ sf[s] \in Sorters
      /\ UNCHANGED <<file, tmp>>
  BY DEF setMark, IInv, Types
<1>2. PICK M, R : M = MarkedRuns(s) /\ R = sf[s].runs
  OBVIOUS
<1>3. PICK v : v = [sf[s] EXCEPT !.marked = TRUE, !.runs = M]
  OBVIOUS
<1>4. sf' = [sf EXCEPT ![s] = v]
  BY <1>1, <1>2, <1>3 DEF setMark, MarkedRuns, Sorters
<1>5. /\ v \in Sorters /\ v.phase = "open" /\ v.status = sf[s].status /\ v.marked = TRUE
      /\ v.runs = M /\ v.started = sf[s].started
  BY <1>1, <1>2, <1>3, AfterMarking DEF Sorters
<1>6. ASSUME NEW k \in DOMAIN R
      PROVE  /\ M[k].cur = R[k].cur /\ M[k].rid = R[k].rid /\ M[k].valid = R[k].valid
             /\ M[k].mark = R[k].rid /\ M[k].scanMark = R[k].cur
             /\ R[k] \in RUN
  <2>1. M[k] = Marked(R[k]) /\ R[k] \in RUN
    BY <1>1, <1>2, <1>6, OpenRuns DEF MarkedRuns
  <2> QED
    BY <2>1 DEF Marked, RUN
<1>7. /\ sf[s].started \in BOOLEAN /\ MaxItems \in Nat
      /\ \A k \in DOMAIN R :
           /\ RunOK(R[k], Len(tmp[k]), sf[s].started) /\ tmp[k] \in Seq(Rec)
           /\ Len(tmp[k]) \in Nat /\ Len(tmp[k]) <= MaxItems
           /\ R[k].cur \in Nat /\ R[k].rid \in Nat /\ R[k].mark \in Nat /\ R[k].scanMark \in Nat
  <2>1. MaxItems \in Nat /\ sf[s].started \in BOOLEAN
    BY <1>1, OpenRuns, SortedFileAssumption
  <2>2. \A k \in DOMAIN R :
          /\ RunOK(R[k], Len(tmp[k]), sf[s].started) /\ tmp[k] \in Seq(Rec)
          /\ Len(tmp[k]) \in 0 .. MaxItems /\ R[k] \in RUN
    BY <1>1, <1>2, OpenRuns
  <2> QED
    BY <2>1, <2>2 DEF RUN
<1>8. DOMAIN M = DOMAIN R
  BY <1>2 DEF MarkedRuns
<1>9. RestOf(M) = RestOf(R)
  <2>1. \A k \in DOMAIN R : Upcoming(M[k]) = Upcoming(R[k])
    BY <1>6 DEF Upcoming
  <2> QED
    BY <1>8, <2>1 DEF RestOf
<1>10. LastOf(M) = LastOf(R)
  BY <1>6, <1>8 DEF LastOf
<1>11. ASSUME NEW k \in DOMAIN R, NEW i \in Nat, i <= Len(tmp[k])
       PROVE  AtMark(M[k]) <= i <=>
                /\ sf[s].started
                /\ \/ Upcoming(R[k]) <= i
                   \/ i = R[k].cur /\ ~R[k].valid /\ R[k].rid > 0
  <2>1. /\ RunOK(R[k], Len(tmp[k]), sf[s].started) /\ Len(tmp[k]) \in Nat
        /\ Len(tmp[k]) <= MaxItems /\ sf[s].started \in BOOLEAN /\ MaxItems \in Nat
        /\ R[k].cur \in Nat /\ R[k].rid \in Nat
    BY <1>7, <1>11
  <2>2. AtMark(M[k]) = IF R[k].rid = 0 THEN MaxItems + 1 ELSE R[k].cur
    BY <1>6, <1>11 DEF AtMark, Far
  <2> QED
    BY <1>11, <2>1, <2>2 DEF RunOK, Upcoming, Far
<1>12. MarkOf(M) = IF sf[s].started THEN RestOf(R) \cup LastOf(R) ELSE {}
  <2> SUFFICES ASSUME NEW r
               PROVE  r \in MarkOf(M) <=> sf[s].started /\ (r \in RestOf(R) \/ r \in LastOf(R))
    OBVIOUS
  <2>0. ASSUME NEW k \in DOMAIN R
        PROVE  /\ Len(tmp[k]) \in Nat /\ AtMark(M[k]) \in Nat /\ Upcoming(R[k]) \in Nat
               /\ R[k].cur \in Nat /\ R[k].cur <= Len(tmp[k])
    <3>1. /\ RunOK(R[k], Len(tmp[k]), sf[s].started) /\ Len(tmp[k]) \in Nat
          /\ MaxItems \in Nat /\ R[k].cur \in Nat /\ R[k].rid \in Nat
      BY <1>7, <2>0
    <3>2. M[k].mark \in Nat /\ M[k].scanMark \in Nat
      BY <1>6, <2>0, <3>1
    <3> QED
      BY <3>1, <3>2 DEF AtMark, Upcoming, Far, RunOK
  <2>1. r \in MarkOf(M) <=> \E k \in DOMAIN R : \E i \in AtMark(M[k]) .. Len(tmp[k]) : r = tmp[k][i]
    BY <1>8 DEF MarkOf
  <2>2. r \in RestOf(R) <=> \E k \in DOMAIN R : \E i \in Upcoming(R[k]) .. Len(tmp[k]) : r = tmp[k][i]
    BY DEF RestOf
  <2>3. r \in LastOf(R) <=>
          \E k \in DOMAIN R : ~R[k].valid /\ R[k].rid > 0 /\ r = tmp[k][R[k].cur]
    BY DEF LastOf
  <2>4. ASSUME r \in MarkOf(M) PROVE sf[s].started /\ (r \in RestOf(R) \/ r \in LastOf(R))
    <3>1. PICK k \in DOMAIN R : \E i \in AtMark(M[k]) .. Len(tmp[k]) : r = tmp[k][i]
      BY <2>1, <2>4
    <3>2. PICK i \in AtMark(M[k]) .. Len(tmp[k]) : r = tmp[k][i]
      BY <3>1
    <3>3. i \in Nat /\ i <= Len(tmp[k]) /\ AtMark(M[k]) <= i
      BY <2>0, <3>2
    <3>4. \/ i \in Upcoming(R[k]) .. Len(tmp[k])
          \/ i = R[k].cur /\ ~R[k].valid /\ R[k].rid > 0
      BY <1>11, <2>0, <3>3
    <3> QED
      BY <1>11, <2>2, <2>3, <3>2, <3>3, <3>4
  <2>5. ASSUME sf[s].started, r \in RestOf(R) PROVE r \in MarkOf(M)
    <3>1. PICK k \in DOMAIN R : \E i \in Upcoming(R[k]) .. Len(tmp[k]) : r = tmp[k][i]
      BY <2>2, <2>5
    <3>2. PICK i \in Upcoming(R[k]) .. Len(tmp[k]) : r = tmp[k][i]
      BY <3>1
    <3>3. i \in Nat /\ i <= Len(tmp[k]) /\ Upcoming(R[k]) <= i
      BY <2>0, <3>2
    <3>4. AtMark(M[k]) <= i
      BY <1>11, <2>5, <3>3
    <3>5. i \in AtMark(M[k]) .. Len(tmp[k])
      BY <2>0, <3>3, <3>4
    <3> QED
      BY <2>1, <3>2, <3>5
  <2>6. ASSUME sf[s].started, r \in LastOf(R) PROVE r \in MarkOf(M)
    <3>1. PICK k \in DOMAIN R : ~R[k].valid /\ R[k].rid > 0 /\ r = tmp[k][R[k].cur]
      BY <2>3, <2>6
    <3>2. AtMark(M[k]) <= R[k].cur
      BY <1>11, <2>0, <2>6, <3>1
    <3>3. R[k].cur \in AtMark(M[k]) .. Len(tmp[k])
      BY <2>0, <3>2
    <3> QED
      BY <2>1, <3>1, <3>3
  <2> QED
    BY <2>4, <2>5, <2>6
<1>13. /\ AbsSource' = AbsSource /\ AbsStatus[s] # "none"
       /\ AbsRest' = [AbsRest EXCEPT ![s] = RestOf(M)] /\ AbsRest[s] = RestOf(R)
       /\ AbsLast' = [AbsLast EXCEPT ![s] = LastOf(M)] /\ AbsLast[s] = LastOf(R)
       /\ AbsMark' = [AbsMark EXCEPT ![s] = MarkOf(M)]
       /\ AbsMark[s] = IF sf[s].marked THEN MarkOf(R) ELSE NoMark
       /\ AbsStarted' = [AbsStarted EXCEPT ![s] = sf[s].started] /\ AbsStarted[s] = sf[s].started
       /\ AbsStatus' = [AbsStatus EXCEPT ![s] = sf[s].status] /\ AbsStatus[s] = sf[s].status
  <2>1. /\ AbsSource' = AbsSource /\ AbsStatus[s] # "none"
        /\ AbsRest' = [AbsRest EXCEPT ![s] = RestOf(v.runs)]
        /\ AbsRest[s] = RestOf(sf[s].runs)
        /\ AbsLast' = [AbsLast EXCEPT ![s] = LastOf(v.runs)]
        /\ AbsLast[s] = LastOf(sf[s].runs)
        /\ AbsMark' = [AbsMark EXCEPT ![s] = IF v.marked THEN MarkOf(v.runs) ELSE NoMark]
        /\ AbsMark[s] = IF sf[s].marked THEN MarkOf(sf[s].runs) ELSE NoMark
        /\ AbsStarted' = [AbsStarted EXCEPT ![s] = v.started] /\ AbsStarted[s] = sf[s].started
        /\ AbsStatus' = [AbsStatus EXCEPT ![s] = v.status] /\ AbsStatus[s] = sf[s].status
    BY <1>1, <1>4, <1>5, MergeUpdate
  <2> QED
    BY <1>2, <1>5, <2>1
<1>14. /\ AbsStatus[s] # "none"
       /\ AbsMark' = [AbsMark EXCEPT ![s] = IF AbsStarted[s] THEN AbsRest[s] \cup AbsLast[s] ELSE {}]
  BY <1>12, <1>13
<1>15. AbsSource' = AbsSource /\ AbsRest' = AbsRest /\ AbsLast' = AbsLast
  BY <1>9, <1>10, <1>13, NoUpdate
<1>16. AbsStarted' = AbsStarted /\ AbsStatus' = AbsStatus
  BY <1>13, NoUpdate
<1> QED
  BY <1>14, <1>15, <1>16, CursorSetMark

LEMMA gotoMarkRefines ==
  ASSUME IInv, NEW s \in Sorter, gotoMark(s)
  PROVE  Cursor!GotoMark(s)
<1>1. /\ sf[s].phase = "open" /\ sf \in [Sorter -> Sorters] /\ sf[s] \in Sorters
      /\ sf[s].marked = TRUE /\ UNCHANGED <<file, tmp>>
  BY DEF gotoMark, IInv, Types, Sorters
<1>2. PICK M, R : M = ResetRuns(s) /\ R = sf[s].runs
  OBVIOUS
<1>3. PICK v : v = [sf[s] EXCEPT !.runs = M]
  OBVIOUS
<1>4. sf' = [sf EXCEPT ![s] = v]
  BY <1>1, <1>2, <1>3 DEF gotoMark, ResetRuns, Sorters
<1>5. /\ v \in Sorters /\ v.phase = "open" /\ v.status = sf[s].status /\ v.marked = TRUE
      /\ v.runs = M /\ v.started = sf[s].started
  BY <1>1, <1>2, <1>3, AfterMarking DEF Sorters
<1>6. ASSUME NEW k \in DOMAIN R
      PROVE  /\ M[k].cur = R[k].scanMark /\ M[k].rid = R[k].mark /\ M[k].valid = TRUE
             /\ M[k].mark = R[k].mark /\ M[k].scanMark = R[k].scanMark
             /\ R[k] \in RUN
  <2>1. M[k] = Reset(R[k]) /\ R[k] \in RUN
    BY <1>1, <1>2, <1>6, OpenRuns DEF ResetRuns
  <2> QED
    BY <2>1 DEF Reset, RUN
<1>7. /\ sf[s].started \in BOOLEAN /\ MaxItems \in Nat
      /\ \A k \in DOMAIN R :
           /\ RunOK(R[k], Len(tmp[k]), sf[s].started) /\ tmp[k] \in Seq(Rec)
           /\ Len(tmp[k]) \in Nat /\ Len(tmp[k]) <= MaxItems
           /\ R[k].cur \in Nat /\ R[k].rid \in Nat /\ R[k].mark \in Nat /\ R[k].scanMark \in Nat
  <2>1. MaxItems \in Nat /\ sf[s].started \in BOOLEAN
    BY <1>1, OpenRuns, SortedFileAssumption
  <2>2. \A k \in DOMAIN R :
          /\ RunOK(R[k], Len(tmp[k]), sf[s].started) /\ tmp[k] \in Seq(Rec)
          /\ Len(tmp[k]) \in 0 .. MaxItems /\ R[k] \in RUN
    BY <1>1, <1>2, OpenRuns
  <2> QED
    BY <2>1, <2>2 DEF RUN
<1>8. DOMAIN M = DOMAIN R
  BY <1>2 DEF ResetRuns
<1>9. RestOf(M) = MarkOf(R) /\ MarkOf(M) = MarkOf(R)
  <2>1. \A k \in DOMAIN R : Upcoming(M[k]) = AtMark(R[k]) /\ AtMark(M[k]) = AtMark(R[k])
    BY <1>6 DEF Upcoming, AtMark
  <2> QED
    BY <1>8, <2>1 DEF RestOf, MarkOf
<1>10. LastOf(M) = {}
  BY <1>6, <1>8 DEF LastOf
<1>11. MarkOf(R) # NoMark
  <2>1. ASSUME NEW k \in DOMAIN R, NEW i \in AtMark(R[k]) .. Len(tmp[k]) PROVE tmp[k][i] \in Rec
    <3>1. /\ RunOK(R[k], Len(tmp[k]), sf[s].started) /\ Len(tmp[k]) \in Nat
          /\ MaxItems \in Nat /\ tmp[k] \in Seq(Rec) /\ R[k].mark \in Nat /\ R[k].scanMark \in Nat
      BY <1>7, <2>1
    <3>2. AtMark(R[k]) \in Nat \ {0}
      BY <3>1 DEF AtMark, Far, RunOK
    <3>3. i \in 1 .. Len(tmp[k])
      BY <2>1, <3>1, <3>2
    <3> QED
      BY <3>1, <3>3
  <2>2. MarkOf(R) \in SUBSET Rec
    BY <2>1 DEF MarkOf
  <2> QED
    BY <2>2, AbsentAssumption
<1>12. /\ AbsSource' = AbsSource /\ AbsStatus[s] # "none"
       /\ AbsRest' = [AbsRest EXCEPT ![s] = RestOf(M)] /\ AbsRest[s] = RestOf(R)
       /\ AbsLast' = [AbsLast EXCEPT ![s] = LastOf(M)] /\ AbsLast[s] = LastOf(R)
       /\ AbsMark' = [AbsMark EXCEPT ![s] = MarkOf(M)]
       /\ AbsMark[s] = IF sf[s].marked THEN MarkOf(R) ELSE NoMark
       /\ AbsStarted' = [AbsStarted EXCEPT ![s] = sf[s].started] /\ AbsStarted[s] = sf[s].started
       /\ AbsStatus' = [AbsStatus EXCEPT ![s] = sf[s].status] /\ AbsStatus[s] = sf[s].status
  <2>1. /\ AbsSource' = AbsSource /\ AbsStatus[s] # "none"
        /\ AbsRest' = [AbsRest EXCEPT ![s] = RestOf(v.runs)]
        /\ AbsRest[s] = RestOf(sf[s].runs)
        /\ AbsLast' = [AbsLast EXCEPT ![s] = LastOf(v.runs)]
        /\ AbsLast[s] = LastOf(sf[s].runs)
        /\ AbsMark' = [AbsMark EXCEPT ![s] = IF v.marked THEN MarkOf(v.runs) ELSE NoMark]
        /\ AbsMark[s] = IF sf[s].marked THEN MarkOf(sf[s].runs) ELSE NoMark
        /\ AbsStarted' = [AbsStarted EXCEPT ![s] = v.started] /\ AbsStarted[s] = sf[s].started
        /\ AbsStatus' = [AbsStatus EXCEPT ![s] = v.status] /\ AbsStatus[s] = sf[s].status
    BY <1>1, <1>4, <1>5, MergeUpdate
  <2> QED
    BY <1>2, <1>5, <2>1
<1>13. /\ AbsStatus[s] # "none" /\ AbsMark[s] # NoMark
       /\ AbsRest' = [AbsRest EXCEPT ![s] = AbsMark[s]] /\ AbsLast' = [AbsLast EXCEPT ![s] = {}]
  BY <1>1, <1>9, <1>10, <1>11, <1>12
<1>14. AbsSource' = AbsSource /\ AbsMark' = AbsMark
  BY <1>1, <1>9, <1>12, NoUpdate
<1>15. AbsStarted' = AbsStarted /\ AbsStatus' = AbsStatus
  BY <1>12, NoUpdate
<1> QED
  BY <1>13, <1>14, <1>15, CursorGotoMark

\* What is to come is what the live runs hold from their current records on.
LEMMA RestOfLive ==
  ASSUME IInv, NEW s \in Sorter, sf[s].phase = "open", NEW F, F = FetchedRuns(s)
  PROVE  \A r : r \in RestOf(sf[s].runs) <=>
           \E k \in Live(s) : \E i \in F[k].cur .. Len(tmp[k]) : r = tmp[k][i]
<1> SUFFICES ASSUME NEW r
             PROVE  r \in RestOf(sf[s].runs) <=>
                      \E k \in Live(s) : \E i \in F[k].cur .. Len(tmp[k]) : r = tmp[k][i]
  OBVIOUS
<1>1. PICK R : R = sf[s].runs
  OBVIOUS
<1>2. r \in RestOf(R) <=> \E k \in DOMAIN R : \E i \in Upcoming(R[k]) .. Len(tmp[k]) : r = tmp[k][i]
  BY DEF RestOf
<1>3. \A k \in DOMAIN R : /\ Len(tmp[k]) \in Nat /\ Len(tmp[k]) <= MaxItems
                          /\ Fetches(F[k], R[k], Len(tmp[k]))
  <2>1. \A k \in DOMAIN R : Len(tmp[k]) \in 0 .. MaxItems
    BY <1>1, OpenRuns
  <2>2. \A k \in DOMAIN R : Fetches(F[k], R[k], Len(tmp[k]))
    BY <1>1, AfterFetch
  <2> QED
    BY <2>1, <2>2, SortedFileAssumption
<1>4. \A k : k \in Live(s) <=> k \in DOMAIN R /\ F[k].rid > 0
  <2>1. DOMAIN F = DOMAIN R
    BY <1>1, AfterFetch
  <2> QED
    BY <2>1 DEF Live
<1>5. ASSUME NEW k \in DOMAIN R, NEW i \in Upcoming(R[k]) .. Len(tmp[k])
      PROVE  k \in Live(s) /\ i \in F[k].cur .. Len(tmp[k])
  <2>1. /\ Upcoming(R[k]) \in Nat \ {0} /\ Len(tmp[k]) \in Nat /\ Len(tmp[k]) <= MaxItems
        /\ MaxItems \in Nat /\ Upcoming(F[k]) \in Nat /\ F[k].rid \in Nat
    BY <1>3, <1>5, SortedFileAssumption DEF Fetches, RUN
  <2>2. i \in 1 .. Len(tmp[k])
    BY <1>5, <2>1
  <2>3. Upcoming(F[k]) <= i
    <3>1. \A j \in 1 .. Len(tmp[k]) : Upcoming(F[k]) <= j <=> Upcoming(R[k]) <= j
      BY <1>3, <1>5 DEF Fetches
    <3> QED
      BY <1>5, <2>1, <2>2, <3>1
  <2>4. F[k].rid > 0
    <3>1. F[k].rid = 0 => Upcoming(F[k]) = MaxItems + 1
      BY <1>3, <1>5 DEF Fetches
    <3> QED
      BY <2>1, <2>2, <2>3, <3>1
  <2>5. F[k].cur = Upcoming(F[k])
    BY <1>3, <1>5, <2>4 DEF Fetches
  <2> QED
    BY <1>4, <1>5, <2>1, <2>2, <2>3, <2>4, <2>5
<1>6. ASSUME NEW k \in Live(s), NEW i \in F[k].cur .. Len(tmp[k])
      PROVE  k \in DOMAIN R /\ i \in Upcoming(R[k]) .. Len(tmp[k])
  <2>1. /\ k \in DOMAIN R /\ F[k].rid > 0
    BY <1>4, <1>6
  <2>2. /\ F[k].cur \in 1 .. Len(tmp[k]) /\ Upcoming(F[k]) = F[k].cur
        /\ Upcoming(R[k]) \in Nat /\ Len(tmp[k]) \in Nat
    BY <1>3, <2>1 DEF Fetches
  <2>3. i \in 1 .. Len(tmp[k]) /\ Upcoming(F[k]) <= i
    BY <1>6, <2>2
  <2>4. Upcoming(R[k]) <= i
    BY <1>3, <2>1, <2>3 DEF Fetches
  <2> QED
    BY <2>1, <2>2, <2>3, <2>4
<1> QED
  BY <1>1, <1>2, <1>5, <1>6

\* The marks survive the fetching.
LEMMA MarkOfFetched ==
  ASSUME IInv, NEW s \in Sorter, sf[s].phase = "open", NEW runs,
         DOMAIN runs = DOMAIN sf[s].runs,
         \A k \in DOMAIN runs : /\ runs[k].mark = FetchedRuns(s)[k].mark
                                /\ runs[k].scanMark = FetchedRuns(s)[k].scanMark
  PROVE  MarkOf(runs) = MarkOf(sf[s].runs)
<1>1. \A k \in DOMAIN runs : AtMark(runs[k]) = AtMark(sf[s].runs[k])
  BY AfterFetch DEF Fetches, AtMark
<1> QED
  BY <1>1 DEF MarkOf

\* No run is live: nothing is to come, and nothing is returned.
LEMMA AtEnd ==
  ASSUME IInv, NEW s \in Sorter, sf[s].phase = "open", Live(s) = {}
  PROVE  /\ RestOf(sf[s].runs) = {} /\ RestOf(FetchedRuns(s)) = {}
         /\ LastOf(FetchedRuns(s)) = {}
         /\ MarkOf(FetchedRuns(s)) = MarkOf(sf[s].runs)
<1>1. PICK F, R : F = FetchedRuns(s) /\ R = sf[s].runs
  OBVIOUS
<1>2. DOMAIN F = DOMAIN R /\ \A k \in DOMAIN R : Fetches(F[k], R[k], Len(tmp[k])) /\ F[k].rid = 0
  <2>1. DOMAIN F = DOMAIN R /\ \A k \in DOMAIN R : Fetches(F[k], R[k], Len(tmp[k]))
    BY <1>1, AfterFetch
  <2>2. \A k \in DOMAIN R : ~(F[k].rid > 0) /\ F[k].rid \in Nat
    BY <1>1, <2>1 DEF Live, Fetches, RUN
  <2> QED
    BY <2>1, <2>2
<1>3. \A r : r \in RestOf(R) <=>
           \E k \in Live(s) : \E i \in F[k].cur .. Len(tmp[k]) : r = tmp[k][i]
  BY <1>1, RestOfLive
<1>4. RestOf(R) = {}
  BY <1>3
<1>5. \A k \in DOMAIN R : Upcoming(F[k]) = MaxItems + 1 /\ F[k].valid = TRUE
  BY <1>2 DEF Fetches
<1>6. \A k \in DOMAIN R : MaxItems + 1 .. Len(tmp[k]) = {}
  <2>1. \A k \in DOMAIN R : Len(tmp[k]) \in 0 .. MaxItems
    BY <1>1, OpenRuns
  <2> QED
    BY <2>1, SortedFileAssumption
<1>7. RestOf(F) = {}
  BY <1>2, <1>5, <1>6 DEF RestOf
<1>8. LastOf(F) = {}
  BY <1>2, <1>5 DEF LastOf
<1>9. MarkOf(F) = MarkOf(R)
  BY <1>1, <1>2, MarkOfFetched
<1> QED
  BY <1>1, <1>4, <1>7, <1>8, <1>9

\* The record of the run that next() chooses is a smallest one of those to come,
\* and next() takes this one and no other.
LEMMA Taking ==
  ASSUME IInv, NEW s \in Sorter, sf[s].phase = "open", NEW k0 \in Live(s),
         \A j \in Live(s) : LiveRec(s)[k0].key <= LiveRec(s)[j].key,
         NEW r, r = LiveRec(s)[k0],
         NEW runs, runs = TakenFrom(FetchedRuns(s), k0)
  PROVE  /\ r \in RestOf(sf[s].runs) /\ \A q \in RestOf(sf[s].runs) : r.key <= q.key
         /\ RestOf(runs) = RestOf(sf[s].runs) \ {r}
         /\ LastOf(runs) = {r}
         /\ MarkOf(runs) = MarkOf(sf[s].runs)
<1>1. PICK F, R : F = FetchedRuns(s) /\ R = sf[s].runs
  OBVIOUS
<1>2. /\ k0 \in Live(s) /\ \A j \in Live(s) : r.key <= LiveRec(s)[j].key
  OBVIOUS
<1>3. /\ DOMAIN F = DOMAIN R
      /\ \A k \in DOMAIN R : Fetches(F[k], R[k], Len(tmp[k]))
  BY <1>1, AfterFetch
<1>4. /\ DOMAIN runs = DOMAIN R
      /\ \A k \in DOMAIN R : k # k0 => runs[k] = F[k]
      /\ runs[k0].valid = FALSE /\ runs[k0].cur = F[k0].cur /\ runs[k0].rid = F[k0].rid
      /\ runs[k0].mark = F[k0].mark /\ runs[k0].scanMark = F[k0].scanMark
  <2>1. DOMAIN runs = DOMAIN sf[s].runs
    BY AfterTaking, ZenonT(60)
  <2>2. \A k \in DOMAIN F : k # k0 => runs[k] = F[k]
    BY <1>1 DEF TakenFrom
  <2>3. runs[k0].valid = FALSE /\ runs[k0].cur = FetchedRuns(s)[k0].cur
    BY AfterTaking
  <2>4. runs[k0].rid = FetchedRuns(s)[k0].rid /\ runs[k0].mark = FetchedRuns(s)[k0].mark
    BY AfterTaking
  <2>5. runs[k0].scanMark = FetchedRuns(s)[k0].scanMark
    BY AfterTaking
  <2> QED
    BY <1>1, <1>3, <2>1, <2>2, <2>3, <2>4, <2>5
<1>5. \A k : k \in Live(s) <=> k \in DOMAIN R /\ F[k].rid > 0
  BY <1>1, <1>3 DEF Live
<1>6. \A k \in Live(s) : LiveRec(s)[k] = tmp[k][F[k].cur]
  BY <1>1 DEF LiveRec
<1>7. \A k \in DOMAIN R : F[k] \in RUN /\ F[k].valid = TRUE /\ F[k].rid \in Nat /\ F[k].cur \in Nat
  BY <1>3 DEF Fetches, RUN
<1>8. /\ k0 \in DOMAIN R /\ F[k0].rid > 0 /\ r = tmp[k0][F[k0].cur]
  BY <1>2, <1>5, <1>6
<1>9. \A k \in DOMAIN R : /\ Len(tmp[k]) \in Nat /\ DOMAIN tmp[k] = 1 .. Len(tmp[k])
                          /\ Len(tmp[k]) <= MaxItems /\ tmp[k] \in Seq(Rec) /\ IsRun(tmp[k], k)
  <2>1. \A k \in DOMAIN R : /\ Len(tmp[k]) \in 0 .. MaxItems /\ DOMAIN tmp[k] = 1 .. Len(tmp[k])
                            /\ tmp[k] \in Seq(Rec) /\ IsRun(tmp[k], k)
    BY <1>1, OpenRuns
  <2> QED
    BY <2>1, SortedFileAssumption
<1>10. \A k \in Live(s) : k \in DOMAIN R /\ F[k].cur \in 1 .. Len(tmp[k])
  BY <1>3, <1>5 DEF Fetches
<1>11. \A x : x \in RestOf(R) <=>
           \E k \in Live(s) : \E i \in F[k].cur .. Len(tmp[k]) : x = tmp[k][i]
  BY <1>1, RestOfLive
<1>12. r \in RestOf(R)
  <2>1. F[k0].cur \in F[k0].cur .. Len(tmp[k0])
    BY <1>2, <1>9, <1>10
  <2> QED
    BY <1>2, <1>8, <1>11, <2>1
<1>13. ASSUME NEW q \in RestOf(R) PROVE r.key <= q.key
  <2>1. PICK k \in Live(s) : \E i \in F[k].cur .. Len(tmp[k]) : q = tmp[k][i]
    BY <1>11, <1>13
  <2>2. PICK i \in F[k].cur .. Len(tmp[k]) : q = tmp[k][i]
    BY <2>1
  <2>3. k \in DOMAIN R /\ F[k].cur \in 1 .. Len(tmp[k]) /\ i \in 1 .. Len(tmp[k]) /\ F[k].cur <= i
    BY <1>9, <1>10, <2>2
  <2>4. r.key <= tmp[k][F[k].cur].key
    BY <1>2, <1>6, <2>1
  <2>5. tmp[k][F[k].cur].key <= tmp[k][i].key
    <3>1. CASE F[k].cur = i
      <4>1. tmp[k][i] \in Rec
        BY <1>9, <2>3
      <4>2. tmp[k][i].key \in Int
        BY <4>1, SortedFileAssumption DEF Rec
      <4> QED
        BY <3>1, <4>2
    <3>2. CASE F[k].cur # i
      BY <1>9, <2>3, <3>2, SMTT(30) DEF IsRun
    <3> QED
      BY <3>1, <3>2
  <2>6. r.key \in Int /\ tmp[k][F[k].cur].key \in Int /\ q.key \in Int
    <3>1. r \in Rec /\ tmp[k][F[k].cur] \in Rec /\ q \in Rec
      BY <1>2, <1>8, <1>9, <1>10, <2>2, <2>3
    <3> QED
      BY <3>1, SortedFileAssumption DEF Rec
  <2> QED
    BY <2>2, <2>4, <2>5, <2>6
<1>14. ASSUME NEW k \in DOMAIN R, NEW i
       PROVE  i \in Upcoming(runs[k]) .. Len(tmp[k]) <=>
                /\ k \in Live(s) /\ i \in F[k].cur .. Len(tmp[k]) /\ <<k, i>> # <<k0, F[k0].cur>>
  <2>1. CASE k = k0
    <3>1. Upcoming(runs[k]) = F[k].cur + 1
      BY <1>4, <2>1 DEF Upcoming
    <3> QED
      BY <1>2, <1>7, <1>9, <1>14, <2>1, <3>1
  <2>2. CASE k # k0
    <3>1. runs[k] = F[k]
      BY <1>4, <1>14, <2>2
    <3>2. CASE F[k].rid > 0
      <4>1. Upcoming(runs[k]) = F[k].cur /\ k \in Live(s)
        BY <1>3, <1>5, <1>14, <3>1, <3>2 DEF Fetches
      <4> QED
        BY <2>2, <4>1
    <3>3. CASE ~(F[k].rid > 0)
      <4>1. F[k].rid = 0
        BY <1>7, <1>14, <3>3
      <4>2. Upcoming(runs[k]) = MaxItems + 1 /\ k \notin Live(s)
        BY <1>3, <1>5, <1>14, <3>1, <3>3, <4>1 DEF Fetches
      <4> QED
        BY <1>9, <1>14, <4>2, SortedFileAssumption
    <3> QED
      BY <3>2, <3>3
  <2> QED
    BY <2>1, <2>2
<1>15. RestOf(runs) = RestOf(R) \ {r}
  <2> SUFFICES ASSUME NEW x PROVE x \in RestOf(runs) <=> x \in RestOf(R) /\ x # r
    OBVIOUS
  <2>1. x \in RestOf(runs) <=>
          \E k \in DOMAIN R : \E i \in Upcoming(runs[k]) .. Len(tmp[k]) : x = tmp[k][i]
    BY <1>4 DEF RestOf
  <2>2. ASSUME x \in RestOf(runs) PROVE x \in RestOf(R) /\ x # r
    <3>1. PICK k \in DOMAIN R : \E i \in Upcoming(runs[k]) .. Len(tmp[k]) : x = tmp[k][i]
      BY <2>1, <2>2
    <3>2. PICK i \in Upcoming(runs[k]) .. Len(tmp[k]) : x = tmp[k][i]
      BY <3>1
    <3>3. k \in Live(s) /\ i \in F[k].cur .. Len(tmp[k]) /\ <<k, i>> # <<k0, F[k0].cur>>
      BY <1>14, <3>2
    <3>4. i \in DOMAIN tmp[k] /\ F[k0].cur \in DOMAIN tmp[k0]
      BY <1>2, <1>9, <1>10, <3>3
    <3>5. x # r
      BY <1>1, <1>8, <3>2, <3>3, <3>4, RunsDisjoint
    <3> QED
      BY <1>11, <3>2, <3>3, <3>5
  <2>3. ASSUME x \in RestOf(R), x # r PROVE x \in RestOf(runs)
    <3>1. PICK k \in Live(s) : \E i \in F[k].cur .. Len(tmp[k]) : x = tmp[k][i]
      BY <1>11, <2>3
    <3>2. PICK i \in F[k].cur .. Len(tmp[k]) : x = tmp[k][i]
      BY <3>1
    <3>3. <<k, i>> # <<k0, F[k0].cur>>
      BY <1>8, <2>3, <3>2
    <3>4. k \in DOMAIN R /\ i \in Upcoming(runs[k]) .. Len(tmp[k])
      BY <1>10, <1>14, <3>2, <3>3
    <3> QED
      BY <2>1, <3>2, <3>4
  <2> QED
    BY <2>2, <2>3
<1>16. LastOf(runs) = {r}
  <2>1. \A j \in DOMAIN runs : ~runs[j].valid /\ runs[j].rid > 0 <=> j = k0
    BY <1>4, <1>7, <1>8
  <2>2. k0 \in DOMAIN runs
    BY <1>4, <1>8
  <2>3. {j \in DOMAIN runs : ~runs[j].valid /\ runs[j].rid > 0} = {k0}
    BY <2>1, <2>2
  <2> QED
    BY <1>4, <1>8, <2>3 DEF LastOf
<1>17. MarkOf(runs) = MarkOf(R)
  <2>1. \A k \in DOMAIN runs : /\ runs[k].mark = F[k].mark
                               /\ runs[k].scanMark = F[k].scanMark
    BY <1>4
  <2> QED
    BY <1>1, <1>4, <2>1, MarkOfFetched
<1> QED
  BY <1>1, <1>12, <1>13, <1>15, <1>16, <1>17

LEMMA nextRefines ==
  ASSUME IInv, NEW s \in Sorter, next(s)
  PROVE  Cursor!Next(s)
<1>1. sf[s].phase = "open" /\ sf[s] \in Sorters /\ UNCHANGED <<file, tmp>>
  BY DEF next, IInv, Types
<1>2. PICK runs, st :
        /\ \/ Live(s) = {} /\ runs = FetchedRuns(s) /\ st = "FILEEOF"
           \/ /\ Live(s) # {} /\ st = "OK"
              /\ runs = TakenFrom(FetchedRuns(s), Smallest(LiveRec(s)))
        /\ runs \in Seq(RUN)
        /\ sf' = [sf EXCEPT ![s] = [sf[s] EXCEPT !.runs = runs, !.started = TRUE, !.status = st]]
  BY nextStep
<1>3. PICK v : v = [sf[s] EXCEPT !.runs = runs, !.started = TRUE, !.status = st]
  OBVIOUS
<1>4. /\ v \in Sorters /\ v.phase = "open" /\ v.status = st /\ v.runs = runs
      /\ v.started = TRUE /\ v.marked = sf[s].marked /\ sf' = [sf EXCEPT ![s] = v]
  BY <1>1, <1>2, <1>3 DEF Sorters
<1>5. /\ AbsSource' = AbsSource
      /\ AbsRest' = [AbsRest EXCEPT ![s] = RestOf(v.runs)]
      /\ AbsRest[s] = RestOf(sf[s].runs)
      /\ AbsLast' = [AbsLast EXCEPT ![s] = LastOf(v.runs)]
      /\ AbsMark' = [AbsMark EXCEPT ![s] = IF v.marked THEN MarkOf(v.runs) ELSE NoMark]
      /\ AbsMark[s] = IF sf[s].marked THEN MarkOf(sf[s].runs) ELSE NoMark
      /\ AbsStarted' = [AbsStarted EXCEPT ![s] = v.started]
      /\ AbsStatus' = [AbsStatus EXCEPT ![s] = v.status]
      /\ AbsStatus[s] # "none"
  BY <1>1, <1>4, MergeUpdate
<1>6. MarkOf(runs) = MarkOf(sf[s].runs)
  <2>1. CASE Live(s) = {}
    BY <1>1, <1>2, <2>1, AtEnd
  <2>2. CASE Live(s) # {}
    <3>1. PICK k0 \in Live(s) :
            /\ k0 = Smallest(LiveRec(s))
            /\ \A j \in Live(s) : LiveRec(s)[k0].key <= LiveRec(s)[j].key
      BY <1>1, <2>2, AfterFetch
    <3>2. PICK r : r = LiveRec(s)[k0]
      OBVIOUS
    <3>3. runs = TakenFrom(FetchedRuns(s), k0)
      BY <1>2, <2>2, <3>1
    <3> QED
      BY <1>1, <3>1, <3>2, <3>3, Taking
  <2> QED
    BY <2>1, <2>2
<1>7. AbsMark' = AbsMark
  <2>1. AbsMark' = [AbsMark EXCEPT ![s] = AbsMark[s]]
    BY <1>4, <1>5, <1>6
  <2> QED
    BY <2>1, NoUpdate
<1>8. CASE Live(s) = {}
  <2>1. RestOf(sf[s].runs) = {} /\ RestOf(runs) = {} /\ LastOf(runs) = {} /\ st = "FILEEOF"
    BY <1>1, <1>2, <1>8, AtEnd
  <2>2. AbsRest' = [AbsRest EXCEPT ![s] = AbsRest[s]]
    BY <1>4, <1>5, <2>1
  <2>3. AbsRest' = AbsRest
    BY <2>2, NoUpdate
  <2>4. /\ AbsRest[s] = {} /\ AbsLast' = [AbsLast EXCEPT ![s] = {}]
        /\ AbsStatus' = [AbsStatus EXCEPT ![s] = "FILEEOF"]
        /\ AbsStarted' = [AbsStarted EXCEPT ![s] = TRUE]
    BY <1>4, <1>5, <2>1
  <2> QED
    BY <1>5, <1>7, <2>3, <2>4, CursorNext
<1>9. CASE Live(s) # {}
  <2>1. PICK k0 \in Live(s) :
          /\ k0 = Smallest(LiveRec(s))
          /\ \A j \in Live(s) : LiveRec(s)[k0].key <= LiveRec(s)[j].key
    BY <1>1, <1>9, AfterFetch
  <2>2. PICK r : r = LiveRec(s)[k0]
    OBVIOUS
  <2>3. runs = TakenFrom(FetchedRuns(s), k0) /\ st = "OK"
    BY <1>2, <1>9, <2>1
  <2>4. /\ r \in RestOf(sf[s].runs) /\ \A q \in RestOf(sf[s].runs) : r.key <= q.key
        /\ RestOf(runs) = RestOf(sf[s].runs) \ {r} /\ LastOf(runs) = {r} /\ st = "OK"
    BY <1>1, <2>1, <2>2, <2>3, Taking
  <2>5. /\ r \in AbsRest[s] /\ \A q \in AbsRest[s] : r.key <= q.key
        /\ AbsRest' = [AbsRest EXCEPT ![s] = AbsRest[s] \ {r}]
        /\ AbsLast' = [AbsLast EXCEPT ![s] = {r}]
        /\ AbsStatus' = [AbsStatus EXCEPT ![s] = "OK"]
        /\ AbsStarted' = [AbsStarted EXCEPT ![s] = TRUE]
    BY <1>4, <1>5, <2>4
  <2> QED
    BY <1>5, <1>7, <2>5, CursorNext
<1> QED
  BY <1>8, <1>9

LEMMA NextRefines == IInv /\ [Next]_vars => [Cursor!Step]_(Cursor!vars)
<1> SUFFICES ASSUME IInv, [Next]_vars PROVE Cursor!Step \/ UNCHANGED Cursor!vars
  OBVIOUS
<1>1. CASE UNCHANGED vars
  <2>1. UNCHANGED <<file, tmp, sf>>
    BY <1>1 DEF vars
  <2>2. \A q \in Sorter : Same(q)
    BY <2>1, SameObject DEF IInv
  <2> QED
    BY <2>1, <2>2, Stutter
<1>2. ASSUME NEW s \in Sorter, generateRun(s) PROVE UNCHANGED Cursor!vars
  BY <1>2, generateRunRefines
<1>3. ASSUME NEW s \in Sorter, construct(s) PROVE UNCHANGED Cursor!vars
  BY <1>3, constructRefines
<1>4. ASSUME NEW s \in Sorter, startScans(s)
      PROVE  Cursor!Open(s) \/ UNCHANGED Cursor!vars
  BY <1>4, startScansRefines
<1>5. ASSUME NEW s \in Sorter, next(s) PROVE Cursor!Next(s)
  BY <1>5, nextRefines
<1>6. ASSUME NEW s \in Sorter, setMark(s) PROVE Cursor!SetMark(s)
  BY <1>6, setMarkRefines
<1>7. ASSUME NEW s \in Sorter, gotoMark(s) PROVE Cursor!GotoMark(s)
  BY <1>7, gotoMarkRefines
<1>8. ASSUME NEW s \in Sorter, destroy(s) PROVE Cursor!Close(s)
  BY <1>8, destroyRefines
<1>9. ASSUME NEW s \in Sorter, crash(s) \/ exit PROVE Cursor!CloseAll
  <2>1. PICK files : ends(files)
    BY <1>9 DEF crash, exit
  <2> QED
    BY <2>1, endsRefines
<1>10. ASSUME NEW s \in Sorter, sourceFails(s) PROVE UNCHANGED Cursor!vars
  BY <1>10, sourceFailsRefines
<1> QED
  BY <1>1, <1>2, <1>3, <1>4, <1>5, <1>6, <1>7, <1>8, <1>9, <1>10 DEF Next, Cursor!Step

\* The merge implements SortCursor: next() returns the records of the source file
\* in ascending order of their keys, each once, and gotoMark goes back to the mark.
THEOREM SortCursorRefinement == Spec => ImplementsSortCursor
<1>1. Init => Cursor!Init
  BY InitRefines
<1>2. IInv /\ [Next]_vars => [Cursor!Step]_(Cursor!vars)
  BY NextRefines
<1> QED
  BY <1>1, <1>2, Invariant, PTL DEF Spec, ImplementsSortCursor, Cursor!Spec

=============================================================================
