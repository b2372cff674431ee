--------------------------- MODULE HeapFileProofs ---------------------------
(***************************************************************************)
(* Invariance proofs about HeapFile, for any number of objects, pages,     *)
(* records and filters.                                                    *)
(***************************************************************************)
EXTENDS HeapFile, FiniteSetTheorems, WellFoundedInduction, TLAPS

HandleRec ==
  [open : BOOLEAN, curPage : BOOLEAN,
   curPageNo : DataNos \cup {0, Nil}, curDirty : BOOLEAN, hdrDirty : BOOLEAN,
   curRec : Slots \cup {Nil}, filter : Val \cup {NoVal}, markedPageNo : DataNos \cup {Nil},
   markedRec : Slots \cup {Nil}, status : Statuses]

\* The data pages of a file with n of them.
PagesTo(n) == 2 .. n + 1

\* An object has a data page pinned exactly when curPageNo is a page of the file,
\* and an InsertFileScan always has one.
Placed(h, o, n) ==
  /\ o.curPage <=> o.curPageNo \in PagesTo(n)
  /\ o.curPageNo \in PagesTo(n) \cup {0, Nil}
  /\ o.markedPageNo \in PagesTo(n) \cup {Nil}
  /\ o.curPage \/ o.hdrDirty => o.open
  /\ o.status = "OK" => o.curPage
  /\ h \in Inserter /\ o.open => o.curPage

\* Where the objects stand.  Pages that the file does not have are untouched.
Positions ==
  /\ hdr.firstPage = 2 /\ hdr.lastPage = hdr.pageCnt + 1
  /\ \A p \in DataNos : p \notin PagesTo(hdr.pageCnt) => page[p] = EmptyPage
  /\ \A p \in DataNos : page[p].next \in PagesTo(hdr.pageCnt) \cup {Nil}
  /\ \A h \in Handle : Placed(h, handle[h], hdr.pageCnt)

\* The inductive invariant, whoever inserts.
IInv == TypeOK /\ Positions /\ PinsBalanced /\ ChangesReported /\ RecCntBound

-----------------------------------------------------------------------------
(***************************************************************************)
(* Slots, pages and counting.                                              *)
(***************************************************************************)
LEMMA Division ==
  ASSUME NEW d \in Nat, NEW r \in Nat \ {0}
  PROVE  d \div r \in Nat /\ d < (d \div r + 1) * r
OBVIOUS

LEMMA Product ==
  ASSUME NEW a \in Nat, NEW b \in Nat, NEW c \in Nat
  PROVE  /\ a * (b + c) = a * b + a * c /\ a * b \in Nat /\ a * c \in Nat
         /\ (a + 1) * b = a * b + b
OBVIOUS

LEMMA Constants ==
  /\ MaxPages \in Nat /\ MaxPages >= 2 /\ RecLen \in Nat \ {0} /\ SlotSize \in Nat \ {0}
  /\ DataSize \in Nat /\ DataSize \div (RecLen + SlotSize) \in Nat
  /\ DataNos \subseteq Nat /\ 0 \notin DataNos /\ 1 \notin DataNos /\ Nil \notin DataNos
  /\ Slots \subseteq Nat /\ 0 \in Slots /\ Nil \notin Slots
<1>1. /\ MaxPages \in Nat /\ MaxPages >= 2 /\ RecLen \in Nat \ {0} /\ SlotSize \in Nat \ {0}
      /\ DataSize \in Nat
  BY HeapFileAssumption
<1>2. RecLen + SlotSize \in Nat \ {0}
  BY <1>1
<1>3. DataSize \div (RecLen + SlotSize) \in Nat
  BY <1>1, <1>2, Division
<1> QED
  BY <1>1, <1>3 DEF DataNos, Slots, Nil

LEMMA SlotMin ==
  ASSUME NEW S \in SUBSET Slots, S # {}
  PROVE  Min(S) \in S /\ \A y \in S : Min(S) <= y
<1>1. S \subseteq Nat
  BY Constants
<1>2. PICK m \in S : \A y \in S : <<y, m>> \notin OpToRel(<, Nat)
  BY <1>1, NatLessThanWellFounded, WFMin
<1>3. \A y \in S : ~(y < m)
  BY <1>1, <1>2 DEF OpToRel
<1>4. \A y \in S : m <= y
  BY <1>1, <1>3
<1> QED
  BY <1>4 DEF Min

LEMMA BoundedMax ==
  ASSUME NEW b \in Nat, NEW S \in SUBSET (0 .. b), S # {}
  PROVE  Max(S) \in S /\ \A y \in S : Max(S) >= y
<1> DEFINE U == {n \in Nat : \A y \in S : y <= n}
<1>1. S \subseteq Nat
  OBVIOUS
<1>2. b \in U
  OBVIOUS
<1>3. PICK m \in U : \A y \in U : <<y, m>> \notin OpToRel(<, Nat)
  BY <1>2, NatLessThanWellFounded, WFMin
<1>4. \A y \in U : ~(y < m)
  BY <1>3 DEF OpToRel
<1>5. m \in S
  <2> SUFFICES ASSUME m \notin S PROVE FALSE
    OBVIOUS
  <2>1. \A y \in S : y \in Nat /\ y < m
    BY <1>1
  <2>2. m # 0
    <3>1. PICK y \in S : TRUE
      OBVIOUS
    <3>2. y \in Nat /\ y < m
      BY <2>1
    <3> QED
      BY <3>2
  <2>3. m - 1 \in U /\ m - 1 < m
    BY <2>1, <2>2
  <2> QED
    BY <1>4, <2>3
<1>6. \A y \in S : m >= y
  BY <1>1
<1> QED
  BY <1>5, <1>6 DEF Max

LEMMA SlotMax ==
  ASSUME NEW S \in SUBSET Slots, S # {}
  PROVE  Max(S) \in S /\ \A y \in S : Max(S) >= y
BY BoundedMax, Constants DEF Slots

\* A record that fits on a page finds a slot there.
LEMMA SlotLeft ==
  ASSUME NEW p, NEW len \in Nat, Fits(p, len)
  PROVE  FreeSlot(p) \in Slots /\ FreeSlot(p) \notin Used(p)
<1>1. Slots \ Used(p) # {}
  <2> SUFFICES ASSUME Slots \ Used(p) = {} PROVE FALSE
    OBVIOUS
  <2>1. Used(p) = Slots
    BY DEF Used
  <2>2. PICK m \in Nat : m = DataSize \div (RecLen + SlotSize)
    BY Constants
  <2>3. Slots = 0 .. m
    BY <2>2 DEF Slots
  <2>4. Cardinality(Slots) = m + 1
    <3>1. Cardinality(0 .. m) = IF 0 > m THEN 0 ELSE m - 0 + 1
      BY FS_Interval
    <3> QED
      BY <2>3, <3>1
  <2>5. Max(Slots) = m
    <3>1. Max(Slots) \in Slots /\ \A y \in Slots : Max(Slots) >= y
      BY SlotMax, Constants
    <3> QED
      BY <2>3, <3>1
  <2>6. SlotCnt(p) = m + 1
    BY <2>1, <2>5, Constants DEF SlotCnt
  <2>7. (m + 1) * RecLen + len + ((m + 1) + 1) * SlotSize <= DataSize
    BY <2>1, <2>4, <2>6 DEF Fits, FitsOn
  <2>8. /\ (m + 1) * (RecLen + SlotSize) = (m + 1) * RecLen + (m + 1) * SlotSize
        /\ (m + 1) * RecLen \in Nat /\ (m + 1) * SlotSize \in Nat
        /\ ((m + 1) + 1) * SlotSize = (m + 1) * SlotSize + SlotSize
    BY Product, Constants
  <2>9. DataSize < (m + 1) * (RecLen + SlotSize)
    <3>1. RecLen + SlotSize \in Nat \ {0}
      BY Constants
    <3> QED
      BY <2>2, <3>1, Division, Constants
  <2>10. PICK a \in Nat, b \in Nat : a = (m + 1) * RecLen /\ b = (m + 1) * SlotSize
    BY <2>8
  <2>11. a + len + (b + SlotSize) <= DataSize /\ DataSize < a + b
    BY <2>7, <2>8, <2>9, <2>10
  <2> QED
    BY <2>10, <2>11, Constants
<1> QED
  BY <1>1, SlotMin DEF FreeSlot, Used

LEMMA HandleSets ==
  ASSUME NEW T \in SUBSET Handle
  PROVE  /\ IsFiniteSet(T) /\ Cardinality(T) \in Nat
         /\ \A x : x \notin T => Cardinality(T \cup {x}) = Cardinality(T) + 1
         /\ \A x : x \in T => Cardinality(T \ {x}) = Cardinality(T) - 1
<1>1. IsFiniteSet(Handle)
  BY HeapFileAssumption DEF Handle
<1>2. IsFiniteSet(T)
  BY <1>1, FS_Subset
<1> QED
  BY <1>2, FS_CardinalityType, FS_AddElement, FS_RemoveElement

LEMMA RidSets ==
  ASSUME NEW T \in SUBSET AllRids
  PROVE  /\ IsFiniteSet(T) /\ Cardinality(T) \in Nat
         /\ \A x : x \notin T => Cardinality(T \cup {x}) = Cardinality(T) + 1
         /\ \A x : x \in T => Cardinality(T \ {x}) = Cardinality(T) - 1
<1> DEFINE f == [t \in DataNos \X Slots |-> [pageNo |-> t[1], slotNo |-> t[2]]]
<1>1. IsFiniteSet(DataNos) /\ IsFiniteSet(Slots)
  <2>1. PICK m \in Int : m = DataSize \div (RecLen + SlotSize)
    BY Constants
  <2> QED
    BY <2>1, FS_Interval, Constants DEF DataNos, Slots
<1>2. IsFiniteSet(DataNos \X Slots)
  BY <1>1, FS_Product
<1>3. f \in Surjection(DataNos \X Slots, AllRids)
  <2>1. f \in [DataNos \X Slots -> AllRids]
    BY DEF AllRids
  <2>2. ASSUME NEW r \in AllRids PROVE \E t \in DataNos \X Slots : f[t] = r
    <3>1. PICK p \in DataNos, s \in Slots : r = [pageNo |-> p, slotNo |-> s]
      BY DEF AllRids
    <3>2. <<p, s>> \in DataNos \X Slots /\ f[<<p, s>>] = r
      BY <3>1
    <3> QED
      BY <3>2
  <2> QED
    BY <2>1, <2>2 DEF Surjection
<1>4. IsFiniteSet(AllRids)
  BY <1>2, <1>3, FS_Surjection
<1>5. IsFiniteSet(T)
  BY <1>4, FS_Subset
<1> QED
  BY <1>5, FS_CardinalityType, FS_AddElement, FS_RemoveElement

-----------------------------------------------------------------------------
(***************************************************************************)
(* What Walk computes.                                                     *)
(***************************************************************************)

\* Function c follows the links next from page p, n times.
Follows(c, n, p, next) ==
  c = [k \in 0 .. n |-> IF k = 0 THEN p ELSE IF c[k - 1] = Nil THEN Nil ELSE next[c[k - 1]]]

\* Links can be followed any number of times.
LEMMA SomeFollows ==
  ASSUME NEW n \in Nat, NEW p, NEW next
  PROVE  \E c : Follows(c, n, p, next)
<1> DEFINE U == {m \in Nat : ~\E c : Follows(c, m, p, next)}
<1> SUFFICES ASSUME U # {} PROVE FALSE
  OBVIOUS
<1>1. PICK m \in U : \A y \in U : <<y, m>> \notin OpToRel(<, Nat)
  BY NatLessThanWellFounded, WFMin
<1>2. m \in Nat /\ (~\E c : Follows(c, m, p, next)) /\ \A y \in U : ~(y < m)
  BY <1>1 DEF OpToRel
<1>3. m # 0
  <2>1. Follows([k \in 0 .. 0 |-> p], 0, p, next)
    BY DEF Follows
  <2> QED
    BY <1>2, <2>1
<1>4. m - 1 \in Nat /\ m - 1 < m
  BY <1>2, <1>3
<1>5. PICK c : Follows(c, m - 1, p, next)
  BY <1>2, <1>4
<1>6. \A k \in 0 .. m - 1 :
        c[k] = IF k = 0 THEN p ELSE IF c[k - 1] = Nil THEN Nil ELSE next[c[k - 1]]
  BY <1>5 DEF Follows
<1> DEFINE d == [k \in 0 .. m |-> IF k < m THEN c[k]
                                  ELSE IF c[m - 1] = Nil THEN Nil ELSE next[c[m - 1]]]
<1>7. ASSUME NEW k \in 0 .. m
      PROVE  d[k] = IF k = 0 THEN p ELSE IF d[k - 1] = Nil THEN Nil ELSE next[d[k - 1]]
  <2>1. k # 0 => k - 1 \in 0 .. m /\ k - 1 < m /\ d[k - 1] = c[k - 1]
    BY <1>2
  <2>2. CASE k < m
    <3>1. k \in 0 .. m - 1 /\ d[k] = c[k]
      BY <1>2, <2>2
    <3> QED
      BY <1>6, <2>1, <3>1
  <2>3. CASE k = m
    BY <1>2, <1>3, <2>1, <2>3
  <2> QED
    BY <1>2, <2>2, <2>3
<1>8. d = [k \in 0 .. m |-> d[k]]
  OBVIOUS
<1> HIDE DEF d
<1>9. Follows(d, m, p, next)
  BY <1>7, <1>8 DEF Follows
<1> QED
  BY <1>2, <1>9

Links == [q \in DataNos |-> page[q].next]

LEMMA WalkSteps ==
  ASSUME TypeOK, NEW p \in DataNos
  PROVE  /\ Walk(p)[0] = p
         /\ \A k \in 1 .. MaxPages :
              Walk(p)[k] = IF Walk(p)[k - 1] = Nil THEN Nil ELSE page[Walk(p)[k - 1]].next
         /\ \A k \in 0 .. MaxPages : Walk(p)[k] \in DataNos \cup {Nil}
<1> DEFINE IsHop(c) == c = [k \in 0 .. MaxPages |->
             IF k = 0 THEN p ELSE IF c[k - 1] = Nil THEN Nil ELSE page[c[k - 1]].next]
<1>0. MaxPages \in Nat /\ page \in [DataNos -> [rec : [Slots -> Val \cup {NoVal}],
                                               next : DataNos \cup {Nil}]]
  BY Constants DEF TypeOK
<1>1. \A q \in DataNos : Links[q] = page[q].next /\ page[q].next \in DataNos \cup {Nil}
  BY <1>0 DEF Links
<1>2. PICK c : Follows(c, MaxPages, p, Links)
  BY <1>0, SomeFollows
<1>3. \A k \in 0 .. MaxPages :
        c[k] = IF k = 0 THEN p ELSE IF c[k - 1] = Nil THEN Nil ELSE Links[c[k - 1]]
  BY <1>2 DEF Follows
<1>4. \A k \in 0 .. MaxPages : c[k] \in DataNos \cup {Nil}
  <2> DEFINE U == {k \in 0 .. MaxPages : c[k] \notin DataNos \cup {Nil}}
  <2> SUFFICES ASSUME U # {} PROVE FALSE
    OBVIOUS
  <2>1. U \subseteq Nat
    BY <1>0
  <2>2. PICK m \in U : \A y \in U : <<y, m>> \notin OpToRel(<, Nat)
    BY <2>1, NatLessThanWellFounded, WFMin
  <2>3. m \in 0 .. MaxPages /\ m \in Nat /\ \A y \in U : ~(y < m)
    BY <2>1, <2>2 DEF OpToRel
  <2>4. m # 0
    BY <1>3, <2>3
  <2>5. m - 1 \in 0 .. MaxPages /\ m - 1 < m
    BY <1>0, <2>3, <2>4
  <2>6. c[m - 1] \in DataNos \cup {Nil}
    BY <2>3, <2>5
  <2> QED
    BY <1>1, <1>3, <2>3, <2>4, <2>6
<1>5. IsHop(c)
  <2>1. ASSUME NEW k \in 0 .. MaxPages
        PROVE  c[k] = IF k = 0 THEN p ELSE IF c[k - 1] = Nil THEN Nil ELSE page[c[k - 1]].next
    <3>1. k # 0 => k - 1 \in 0 .. MaxPages
      BY <1>0
    <3> QED
      BY <1>1, <1>3, <1>4, <3>1
  <2>2. c = [k \in 0 .. MaxPages |-> c[k]]
    BY <1>2 DEF Follows
  <2> QED
    BY <2>1, <2>2
<1>6. Walk(p) = CHOOSE d : IsHop(d)
  BY DEF Walk
<1> HIDE DEF IsHop
<1>7. IsHop(Walk(p))
  BY <1>5, <1>6
<1>8. \A k \in 0 .. MaxPages :
        Walk(p)[k] = IF k = 0 THEN p ELSE IF Walk(p)[k - 1] = Nil THEN Nil
                                          ELSE page[Walk(p)[k - 1]].next
  BY <1>7 DEF IsHop
<1>9. \A k \in 0 .. MaxPages : Walk(p)[k] \in DataNos \cup {Nil}
  <2> DEFINE U == {k \in 0 .. MaxPages : Walk(p)[k] \notin DataNos \cup {Nil}}
  <2> SUFFICES ASSUME U # {} PROVE FALSE
    OBVIOUS
  <2>1. U \subseteq Nat
    BY <1>0
  <2>2. PICK m \in U : \A y \in U : <<y, m>> \notin OpToRel(<, Nat)
    BY <2>1, NatLessThanWellFounded, WFMin
  <2>3. m \in 0 .. MaxPages /\ m \in Nat /\ \A y \in U : ~(y < m)
    BY <2>1, <2>2 DEF OpToRel
  <2>4. m # 0
    BY <1>8, <2>3
  <2>5. m - 1 \in 0 .. MaxPages /\ m - 1 < m
    BY <1>0, <2>3, <2>4
  <2>6. Walk(p)[m - 1] \in DataNos \cup {Nil}
    BY <2>3, <2>5
  <2> QED
    BY <1>1, <1>8, <2>3, <2>4, <2>6
<1>10. 0 \in 0 .. MaxPages /\ \A k \in 1 .. MaxPages : k \in 0 .. MaxPages /\ k # 0
  BY <1>0
<1> QED
  BY <1>8, <1>9, <1>10

-----------------------------------------------------------------------------
(***************************************************************************)
(* Steps of one object.                                                    *)
(***************************************************************************)

\* An object with members o has a pin on page x; object h will report page x.
HasPin(o, x) == IF x = HdrNo THEN o.open ELSE o.curPage /\ o.curPageNo = x

WillReport(h, o, x) ==
  \/ x = HdrNo /\ o.hdrDirty
  \/ o.curPage /\ o.curPageNo = x /\ (o.curDirty \/ h \in Inserter)

\* Object h gets the members o: pins are given back and taken with the pages it
\* stood and stands on, and what was changed and is not reported yet will be.
Turns(h, o) ==
  /\ o \in HandleRec /\ handle' = [handle EXCEPT ![h] = o]
  /\ pinCnt' = [x \in 1 .. MaxPages |->
                  pinCnt[x] + (IF HasPin(o, x) THEN 1 ELSE 0)
                            - (IF HasPin(handle[h], x) THEN 1 ELSE 0)]
  /\ unsaved' \subseteq 1 .. MaxPages
  /\ \A x \in unsaved' :
       WillReport(h, o, x) \/ (x \in unsaved /\ ~WillReport(h, handle[h], x))

\* PinsBalanced, for all pages at once.
LEMMA PinsAre ==
  ASSUME NEW hd \in [Handle -> HandleRec], NEW pins
  PROVE  (\A x \in 1 .. MaxPages : pins[x] = Cardinality({g \in Handle : HasPin(hd[g], x)}))
         <=> /\ \A p \in DataNos :
                  pins[p] = Cardinality({g \in Handle : hd[g].curPage /\ hd[g].curPageNo = p})
             /\ pins[HdrNo] = Cardinality({g \in Handle : hd[g].open})
<1>1. 1 .. MaxPages = DataNos \cup {HdrNo} /\ HdrNo \notin DataNos
  BY Constants DEF DataNos, HdrNo
<1>2. \A p \in DataNos : {g \in Handle : HasPin(hd[g], p)} =
                         {g \in Handle : hd[g].curPage /\ hd[g].curPageNo = p}
  BY <1>1 DEF HasPin
<1>3. {g \in Handle : HasPin(hd[g], HdrNo)} = {g \in Handle : hd[g].open}
  BY DEF HasPin
<1> QED
  BY <1>1, <1>2, <1>3

LEMMA TurnsKeeps ==
  ASSUME IInv, NEW h \in Handle, NEW o, Turns(h, o)
  PROVE  /\ handle' \in [Handle -> HandleRec] /\ pinCnt' \in [1 .. MaxPages -> Nat]
         /\ unsaved' \subseteq 1 .. MaxPages
         /\ \A g \in Handle : handle'[g] = IF g = h THEN o ELSE handle[g]
         /\ PinsBalanced' /\ ChangesReported'
<1>1. handle \in [Handle -> HandleRec] /\ o \in HandleRec /\ handle' = [handle EXCEPT ![h] = o]
  BY DEF IInv, TypeOK, HandleRec, Turns
<1>2. handle' \in [Handle -> HandleRec]
      /\ \A g \in Handle : handle'[g] = IF g = h THEN o ELSE handle[g]
  BY <1>1
<1>3. \A x \in 1 .. MaxPages : pinCnt[x] = Cardinality({g \in Handle : HasPin(handle[g], x)})
  <2>1. /\ \A p \in DataNos : pinCnt[p] =
             Cardinality({g \in Handle : handle[g].curPage /\ handle[g].curPageNo = p})
        /\ pinCnt[HdrNo] = Cardinality({g \in Handle : handle[g].open})
    BY DEF IInv, PinsBalanced, Open
  <2> QED
    BY <1>1, <2>1, PinsAre
<1>4. pinCnt' = [x \in 1 .. MaxPages |->
                  pinCnt[x] + (IF HasPin(o, x) THEN 1 ELSE 0)
                            - (IF HasPin(handle[h], x) THEN 1 ELSE 0)]
  BY DEF Turns
<1>5. ASSUME NEW x \in 1 .. MaxPages
      PROVE  pinCnt'[x] = Cardinality({g \in Handle : HasPin(handle'[g], x)}) /\ pinCnt'[x] \in Nat
  <2> DEFINE S == {g \in Handle : HasPin(handle[g], x)}
             T == {g \in Handle : HasPin(handle'[g], x)}
  <2>1. S \in SUBSET Handle /\ T \in SUBSET Handle
    OBVIOUS
  <2>2. pinCnt[x] = Cardinality(S) /\ Cardinality(S) \in Nat /\ Cardinality(T) \in Nat
    BY <1>3, <2>1, HandleSets
  <2>3. pinCnt'[x] = pinCnt[x] + (IF HasPin(o, x) THEN 1 ELSE 0)
                               - (IF HasPin(handle[h], x) THEN 1 ELSE 0)
    BY <1>4
  <2>4. /\ h \in S <=> HasPin(handle[h], x)
        /\ h \in T <=> HasPin(o, x)
        /\ T \ {h} = S \ {h}
    BY <1>2
  <2> HIDE DEF S, T
  <2>5. CASE h \in S /\ h \in T
    <3>1. T = S
      BY <2>4, <2>5
    <3>2. Cardinality(T) = Cardinality(S)
      BY <3>1
    <3> QED
      BY <2>2, <2>3, <2>4, <2>5, <3>2 DEF T
  <2>6. CASE h \in S /\ h \notin T
    <3>1. T = S \ {h}
      BY <2>4, <2>6
    <3>2. Cardinality(T) = Cardinality(S) - 1
      BY <2>1, <2>6, <3>1, HandleSets
    <3> QED
      BY <2>2, <2>3, <2>4, <2>6, <3>2 DEF T
  <2>7. CASE h \notin S /\ h \in T
    <3>1. T = S \cup {h}
      BY <2>4, <2>7
    <3>2. Cardinality(T) = Cardinality(S) + 1
      BY <2>1, <2>7, <3>1, HandleSets
    <3> QED
      BY <2>2, <2>3, <2>4, <2>7, <3>2 DEF T
  <2>8. CASE h \notin S /\ h \notin T
    <3>1. T = S
      BY <2>4, <2>8
    <3>2. Cardinality(T) = Cardinality(S)
      BY <3>1
    <3> QED
      BY <2>2, <2>3, <2>4, <2>8, <3>2 DEF T
  <2> QED
    BY <2>5, <2>6, <2>7, <2>8
<1>6. PinsBalanced'
  <2>1. /\ \A p \in DataNos : pinCnt'[p] =
             Cardinality({g \in Handle : handle'[g].curPage /\ handle'[g].curPageNo = p})
        /\ pinCnt'[HdrNo] = Cardinality({g \in Handle : handle'[g].open})
    BY <1>2, <1>5, PinsAre
  <2> QED
    BY <2>1 DEF PinsBalanced, Open
<1>7. pinCnt' \in [1 .. MaxPages -> Nat]
  <2>1. pinCnt' = [x \in 1 .. MaxPages |-> pinCnt'[x]]
    BY <1>4
  <2> QED
    BY <1>5, <2>1
<1>8. ChangesReported'
  <2> SUFFICES ASSUME NEW x \in unsaved' PROVE \E g \in Handle : WillReport(g, handle'[g], x)
    BY DEF ChangesReported, WillReport
  <2>1. CASE WillReport(h, o, x)
    BY <1>2, <2>1
  <2>2. CASE x \in unsaved /\ ~WillReport(h, handle[h], x)
    <3>1. PICK g \in Handle : WillReport(g, handle[g], x)
      BY <2>2 DEF IInv, ChangesReported, WillReport
    <3> QED
      BY <1>2, <2>2, <3>1
  <2> QED
    BY <2>1, <2>2 DEF Turns
<1> QED
  BY <1>2, <1>6, <1>7, <1>8 DEF Turns

\* An object moves and the file stays as it is.
LEMMA MovesIInv ==
  ASSUME IInv, NEW h \in Handle, NEW o, Turns(h, o), Placed(h, o, hdr.pageCnt),
         UNCHANGED <<hdr, page>>, due' \in [Handle -> SUBSET AllRids]
  PROVE  IInv'
<1>1. /\ handle' \in [Handle -> HandleRec] /\ pinCnt' \in [1 .. MaxPages -> Nat]
      /\ unsaved' \subseteq 1 .. MaxPages
      /\ \A g \in Handle : handle'[g] = IF g = h THEN o ELSE handle[g]
      /\ PinsBalanced' /\ ChangesReported'
  BY TurnsKeeps
<1>2. TypeOK'
  BY <1>1 DEF IInv, TypeOK, HandleRec
<1>3. \A g \in Handle : Placed(g, handle'[g], hdr.pageCnt)
  BY <1>1 DEF IInv, Positions
<1>4. Positions'
  BY <1>3 DEF IInv, Positions
<1>5. RecCntBound'
  BY DEF IInv, RecCntBound, Records
<1> QED
  BY <1>1, <1>2, <1>4, <1>5 DEF IInv

-----------------------------------------------------------------------------
(***************************************************************************)
(* The actions that leave the file as it is.                               *)
(***************************************************************************)
LEMMA FileFacts ==
  ASSUME IInv
  PROVE  /\ hdr.pageCnt \in Nat /\ hdr.pageCnt >= 1 /\ hdr.pageCnt + 1 <= MaxPages
         /\ hdr.firstPage = 2 /\ hdr.lastPage = hdr.pageCnt + 1
         /\ PagesTo(hdr.pageCnt) \subseteq DataNos /\ 2 \in PagesTo(hdr.pageCnt)
         /\ hdr.pageCnt + 1 \in PagesTo(hdr.pageCnt)
         /\ unsaved \subseteq 1 .. MaxPages /\ pinCnt \in [1 .. MaxPages -> Nat]
         /\ due \in [Handle -> SUBSET AllRids] /\ handle \in [Handle -> HandleRec]
<1>1. /\ handle \in [Handle -> HandleRec] /\ hdr.pageCnt \in 1 .. MaxPages - 1
      /\ unsaved \subseteq 1 .. MaxPages /\ pinCnt \in [1 .. MaxPages -> Nat]
      /\ due \in [Handle -> SUBSET AllRids]
  BY DEF IInv, TypeOK, HandleRec
<1>2. hdr.firstPage = 2 /\ hdr.lastPage = hdr.pageCnt + 1
  BY DEF IInv, Positions
<1>3. PICK n : n = hdr.pageCnt
  OBVIOUS
<1>4. n \in Nat /\ n >= 1 /\ n + 1 <= MaxPages
  BY <1>1, <1>3, Constants
<1>5. PagesTo(n) \subseteq DataNos /\ 2 \in PagesTo(n) /\ n + 1 \in PagesTo(n)
  BY <1>4, Constants DEF PagesTo, DataNos
<1> QED
  BY <1>1, <1>2, <1>3, <1>4, <1>5

LEMMA Facts ==
  ASSUME IInv, NEW h \in Handle
  PROVE  /\ handle \in [Handle -> HandleRec] /\ handle[h] \in HandleRec
         /\ Placed(h, handle[h], hdr.pageCnt)
         /\ hdr.pageCnt \in Nat /\ hdr.pageCnt >= 1 /\ hdr.pageCnt + 1 <= MaxPages
         /\ hdr.firstPage = 2 /\ hdr.lastPage = hdr.pageCnt + 1
         /\ PagesTo(hdr.pageCnt) \subseteq DataNos /\ 2 \in PagesTo(hdr.pageCnt)
         /\ hdr.pageCnt + 1 \in PagesTo(hdr.pageCnt)
         /\ unsaved \subseteq 1 .. MaxPages /\ pinCnt \in [1 .. MaxPages -> Nat]
         /\ due \in [Handle -> SUBSET AllRids]
BY FileFacts DEF IInv, Positions

LEMMA InitIInv == Init => IInv
<1> SUFFICES ASSUME Init PROVE IInv
  OBVIOUS
<1>1. /\ hdr = [firstPage |-> 2, lastPage |-> 2, pageCnt |-> 1, recCnt |-> 0]
      /\ page = [p \in DataNos |-> EmptyPage] /\ pinCnt = [p \in 1 .. MaxPages |-> 0]
      /\ unsaved = {} /\ handle = [h \in Handle |-> Closed] /\ due = [h \in Handle |-> {}]
  BY DEF Init
<1>2. Closed \in HandleRec
  BY DEF Closed, HandleRec, Statuses, Nil
<1>3. EmptyPage \in [rec : [Slots -> Val \cup {NoVal}], next : DataNos \cup {Nil}]
  BY DEF EmptyPage
<1>4. 2 \in DataNos /\ 1 \in 1 .. MaxPages - 1
  BY Constants DEF DataNos
<1>5. TypeOK
  BY <1>1, <1>2, <1>3, <1>4 DEF TypeOK, HandleRec
<1>6. \A h : Placed(h, Closed, 1)
  BY DEF Placed, Closed, PagesTo, Nil
<1>7. Positions
  BY <1>1, <1>6 DEF Positions, EmptyPage
<1>8. PinsBalanced
  <2>1. \A p \in DataNos : {h \in Handle : handle[h].curPage /\ handle[h].curPageNo = p} = {}
    BY <1>1 DEF Closed
  <2>2. {h \in Handle : Open(h)} = {}
    BY <1>1 DEF Open, Closed
  <2>3. \A p \in DataNos : p \in 1 .. MaxPages
    BY Constants DEF DataNos
  <2>4. HdrNo \in 1 .. MaxPages
    BY Constants DEF HdrNo
  <2> QED
    BY <1>1, <2>1, <2>2, <2>3, <2>4, FS_EmptySet DEF PinsBalanced
<1>9. Records = {}
  BY <1>1 DEF Records, AllRids, EmptyPage
<1>10. RecCntBound
  BY <1>1, <1>9, FS_EmptySet DEF RecCntBound
<1> QED
  BY <1>1, <1>5, <1>7, <1>8, <1>10 DEF IInv, ChangesReported

LEMMA ConstructIInv == ASSUME IInv, NEW h \in Handle, Construct(h) PROVE IInv'
<1>1. PICK p : p = FirstPinned(h)
  OBVIOUS
<1>2. PICK o : o = [Closed EXCEPT !.open = TRUE, !.curPage = TRUE, !.curPageNo = p]
  OBVIOUS
<1>3. /\ ~handle[h].open /\ pinCnt' = [pinCnt EXCEPT ![HdrNo] = @ + 1, ![p] = @ + 1]
      /\ handle' = [handle EXCEPT ![h] = o] /\ UNCHANGED <<hdr, page, unsaved>>
      /\ due' = [due EXCEPT ![h] = IF h \in Scanner THEN Records ELSE {}]
  BY <1>1, <1>2 DEF Construct, Open
<1>4. p \in PagesTo(hdr.pageCnt) /\ p \in DataNos
  BY <1>1, Facts DEF FirstPinned
<1>5. /\ o \in HandleRec /\ o.open /\ o.curPage /\ o.curPageNo = p /\ ~o.hdrDirty
      /\ o.markedPageNo = Nil /\ o.status = "opened" /\ ~o.curDirty
  BY <1>2, <1>4 DEF Closed, HandleRec, Statuses
<1>6. ~handle[h].curPage
  BY <1>3, Facts DEF Placed
<1>7. \A x \in 1 .. MaxPages : /\ HasPin(o, x) <=> x = HdrNo \/ x = p
                               /\ ~HasPin(handle[h], x)
  BY <1>3, <1>5, <1>6 DEF HasPin
<1>8. pinCnt' = [x \in 1 .. MaxPages |->
                  pinCnt[x] + (IF HasPin(o, x) THEN 1 ELSE 0)
                            - (IF HasPin(handle[h], x) THEN 1 ELSE 0)]
  <2>1. p # HdrNo
    BY <1>4, Constants DEF HdrNo
  <2>2. pinCnt \in [1 .. MaxPages -> Nat]
    BY Facts
  <2>3. pinCnt' = [x \in 1 .. MaxPages |-> IF x = HdrNo \/ x = p THEN pinCnt[x] + 1 ELSE pinCnt[x]]
    BY <1>3, <2>1, <2>2
  <2>4. \A x \in 1 .. MaxPages : (IF x = HdrNo \/ x = p THEN pinCnt[x] + 1 ELSE pinCnt[x])
          = pinCnt[x] + (IF HasPin(o, x) THEN 1 ELSE 0) - (IF HasPin(handle[h], x) THEN 1 ELSE 0)
    BY <1>7, <2>2
  <2> QED
    BY <2>3, <2>4
<1>9. \A x \in unsaved : ~WillReport(h, handle[h], x)
  BY <1>3, <1>6, Facts DEF WillReport, Placed
<1>10. Turns(h, o)
  BY <1>3, <1>5, <1>8, <1>9, Facts DEF Turns
<1>11. Placed(h, o, hdr.pageCnt)
  BY <1>4, <1>5 DEF Placed
<1>12. due' \in [Handle -> SUBSET AllRids]
  BY <1>3, Facts DEF Records
<1> QED
  BY <1>3, <1>10, <1>11, <1>12, MovesIInv

LEMMA DestroyIInv == ASSUME IInv, NEW h \in Handle, Destroy(h) PROVE IInv'
<1>1. PICK o : o = handle[h]
  OBVIOUS
<1>2. /\ o.open /\ unsaved' = unsaved \ Reported(h)
      /\ pinCnt' = [x \in 1 .. MaxPages |->
           pinCnt[x] - (IF x = HdrNo \/ (o.curPage /\ x = o.curPageNo) THEN 1 ELSE 0)]
      /\ handle' = [handle EXCEPT ![h] = Closed] /\ UNCHANGED <<hdr, page>>
      /\ due' = [due EXCEPT ![h] = {}]
  BY <1>1 DEF Destroy, Open
<1>3. Closed \in HandleRec /\ ~Closed.open /\ ~Closed.curPage
  BY DEF Closed, HandleRec, Statuses
<1>4. \A x \in 1 .. MaxPages : /\ HasPin(o, x) <=> x = HdrNo \/ (o.curPage /\ x = o.curPageNo)
                               /\ ~HasPin(Closed, x)
  <2>1. o.curPage => o.curPageNo # HdrNo
    BY <1>1, Facts, Constants DEF Placed, HdrNo
  <2> QED
    BY <1>2, <1>3, <2>1 DEF HasPin
<1>5. pinCnt' = [x \in 1 .. MaxPages |->
                  pinCnt[x] + (IF HasPin(Closed, x) THEN 1 ELSE 0)
                            - (IF HasPin(o, x) THEN 1 ELSE 0)]
  <2>1. pinCnt \in [1 .. MaxPages -> Nat]
    BY Facts
  <2>2. \A x \in 1 .. MaxPages :
           pinCnt[x] - (IF x = HdrNo \/ (o.curPage /\ x = o.curPageNo) THEN 1 ELSE 0)
           = pinCnt[x] + (IF HasPin(Closed, x) THEN 1 ELSE 0) - (IF HasPin(o, x) THEN 1 ELSE 0)
    BY <1>4, <2>1
  <2> QED
    BY <1>2, <2>2
<1>6. \A x \in unsaved' : x \in unsaved /\ ~WillReport(h, o, x)
  BY <1>1, <1>2 DEF WillReport, Reported
<1>7. Turns(h, Closed)
  BY <1>1, <1>2, <1>3, <1>5, <1>6, Facts DEF Turns
<1>8. Placed(h, Closed, hdr.pageCnt)
  BY DEF Placed, Closed, PagesTo, Nil
<1>9. due' \in [Handle -> SUBSET AllRids]
  BY <1>2, Facts
<1> QED
  BY <1>2, <1>7, <1>8, <1>9, MovesIInv

\* Most moves: the object unpins the page it stands on, if any, with its dirty
\* flag, and pins page q, or stays.  o: its new members.
Goes(h, o, from, q) ==
  /\ o \in HandleRec /\ handle' = [handle EXCEPT ![h] = o]
  /\ o.open = handle[h].open /\ o.hdrDirty = handle[h].hdrDirty
  /\ o.markedPageNo \in PagesTo(hdr.pageCnt) \cup {Nil}
  /\ \/ /\ UnpinThenRead(from, handle[h].curDirty, q)
        /\ from = IF handle[h].curPage THEN handle[h].curPageNo ELSE Nil
        /\ h \notin Inserter
        /\ \/ q \in PagesTo(hdr.pageCnt) /\ o.curPage /\ o.curPageNo = q
           \/ q = Nil /\ ~o.curPage /\ o.curPageNo \in {0, Nil}
     \/ /\ UNCHANGED <<pinCnt, unsaved>>
        /\ o.curPage = handle[h].curPage
        /\ o.curPage => o.curPageNo = handle[h].curPageNo /\ o.curDirty = handle[h].curDirty
        /\ ~o.curPage => o.curPageNo \in {0, Nil}

LEMMA GoesIInv ==
  ASSUME IInv, NEW h \in Handle, NEW o, NEW from, NEW q, Goes(h, o, from, q), handle[h].open,
         o.status = "OK" => o.curPage,
         UNCHANGED <<hdr, page>>, due' \in [Handle -> SUBSET AllRids]
  PROVE  IInv'
<1>1. PICK c : c = handle[h]
  OBVIOUS
<1>2. PICK n : n = hdr.pageCnt
  OBVIOUS
<1>3. /\ c \in HandleRec /\ Placed(h, c, n) /\ PagesTo(n) \subseteq DataNos
      /\ unsaved \subseteq 1 .. MaxPages /\ pinCnt \in [1 .. MaxPages -> Nat]
  BY <1>1, <1>2, Facts
<1>4. /\ o \in HandleRec /\ handle' = [handle EXCEPT ![h] = o]
      /\ o.open /\ o.hdrDirty = c.hdrDirty /\ c.open
      /\ o.markedPageNo \in PagesTo(n) \cup {Nil}
  BY <1>1, <1>2 DEF Goes
<1>5. \A x \in DataNos : x # HdrNo /\ x # Nil /\ x # 0
  BY Constants DEF HdrNo
<1>6. CASE /\ UnpinThenRead(from, c.curDirty, q)
           /\ from = IF c.curPage THEN c.curPageNo ELSE Nil
           /\ h \notin Inserter
           /\ \/ q \in PagesTo(n) /\ o.curPage /\ o.curPageNo = q
              \/ q = Nil /\ ~o.curPage /\ o.curPageNo \in {0, Nil}
  <2>1. \A x \in 1 .. MaxPages : x # Nil
    BY DEF Nil
  <2>2. c.curPage => c.curPageNo \in DataNos
    BY <1>3 DEF Placed
  <2>3. \A x \in 1 .. MaxPages : x # HdrNo => (HasPin(o, x) <=> x = q)
    BY <1>6, <2>1 DEF HasPin
  <2>4. \A x \in 1 .. MaxPages : x # HdrNo => (HasPin(c, x) <=> x = from)
    BY <1>6, <2>1 DEF HasPin
  <2>5. HasPin(o, HdrNo) /\ HasPin(c, HdrNo) /\ q # HdrNo /\ from # HdrNo
    BY <1>3, <1>4, <1>5, <1>6, <2>2 DEF HasPin, Nil, HdrNo
  <2>6. pinCnt' = [x \in 1 .. MaxPages |->
                     pinCnt[x] + (IF HasPin(o, x) THEN 1 ELSE 0)
                               - (IF HasPin(c, x) THEN 1 ELSE 0)]
    <3>1. pinCnt' = [x \in 1 .. MaxPages |->
                       pinCnt[x] + (IF x = q THEN 1 ELSE 0) - (IF x = from THEN 1 ELSE 0)]
      BY <1>6 DEF UnpinThenRead
    <3>2. ASSUME NEW x \in 1 .. MaxPages
          PROVE  pinCnt[x] + (IF x = q THEN 1 ELSE 0) - (IF x = from THEN 1 ELSE 0)
                 = pinCnt[x] + (IF HasPin(o, x) THEN 1 ELSE 0) - (IF HasPin(c, x) THEN 1 ELSE 0)
      <4>1. pinCnt[x] \in Nat
        BY <1>3
      <4>2. CASE x = HdrNo
        BY <2>5, <4>1, <4>2
      <4>3. CASE x # HdrNo
        BY <2>3, <2>4, <4>1, <4>3
      <4> QED
        BY <4>2, <4>3
    <3> QED
      BY <3>1, <3>2
  <2>7. unsaved' = IF c.curDirty THEN unsaved \ {from} ELSE unsaved
    BY <1>6 DEF UnpinThenRead
  <2>8. ASSUME NEW x \in unsaved'
        PROVE  WillReport(h, o, x) \/ (x \in unsaved /\ ~WillReport(h, c, x))
    <3>1. x \in unsaved /\ (c.curDirty => x # from)
      BY <2>7
    <3>2. x = HdrNo /\ c.hdrDirty => WillReport(h, o, x)
      BY <1>4 DEF WillReport
    <3> QED
      BY <1>6, <3>1, <3>2 DEF WillReport
  <2>9. Turns(h, o)
    BY <1>1, <1>3, <1>4, <2>6, <2>7, <2>8 DEF Turns
  <2>10. Placed(h, o, n)
    BY <1>3, <1>4, <1>5, <1>6 DEF Placed
  <2> QED
    BY <1>2, <2>9, <2>10, MovesIInv
<1>7. CASE /\ UNCHANGED <<pinCnt, unsaved>>
           /\ o.curPage = c.curPage
           /\ o.curPage => o.curPageNo = c.curPageNo /\ o.curDirty = c.curDirty
           /\ ~o.curPage => o.curPageNo \in {0, Nil}
  <2>1. \A x \in 1 .. MaxPages : HasPin(o, x) <=> HasPin(c, x)
    BY <1>4, <1>7 DEF HasPin
  <2>2. pinCnt' = [x \in 1 .. MaxPages |->
                     pinCnt[x] + (IF HasPin(o, x) THEN 1 ELSE 0)
                               - (IF HasPin(c, x) THEN 1 ELSE 0)]
    <3>1. \A x \in 1 .. MaxPages : pinCnt[x] = pinCnt[x] + (IF HasPin(o, x) THEN 1 ELSE 0)
                                                         - (IF HasPin(c, x) THEN 1 ELSE 0)
      BY <1>3, <2>1
    <3>2. pinCnt' = [x \in 1 .. MaxPages |-> pinCnt[x]]
      BY <1>3, <1>7
    <3> QED
      BY <3>1, <3>2
  <2>3. \A x \in unsaved : WillReport(h, o, x) \/ ~WillReport(h, c, x)
    BY <1>4, <1>7 DEF WillReport
  <2>4. Turns(h, o)
    BY <1>1, <1>3, <1>4, <1>7, <2>2, <2>3 DEF Turns
  <2>5. Placed(h, o, n)
    BY <1>3, <1>4, <1>5, <1>7 DEF Placed
  <2> QED
    BY <1>2, <2>4, <2>5, MovesIInv
<1> QED
  BY <1>1, <1>2, <1>6, <1>7 DEF Goes

LEMMA getRecordIInv ==
  ASSUME IInv, NEW h \in Reader, NEW p \in DataNos, getRecord(h, p) PROVE IInv'
<1>0. h \in Handle /\ h \notin Inserter
  BY HeapFileAssumption DEF Handle
<1>1. PICK c : c = handle[h]
  OBVIOUS
<1>2. PICK moves \in BOOLEAN : moves = (~c.curPage \/ p # c.curPageNo)
  OBVIOUS
<1>3. PICK o : o = [c EXCEPT !.curPage = TRUE, !.curPageNo = p,
                             !.curDirty = IF moves THEN FALSE ELSE c.curDirty]
  OBVIOUS
<1>4. /\ c.open /\ p <= hdr.pageCnt + 1 /\ handle' = [handle EXCEPT ![h] = o]
      /\ IF moves THEN UnpinThenRead(IF c.curPage THEN c.curPageNo ELSE Nil, c.curDirty, p)
                  ELSE UNCHANGED <<pinCnt, unsaved>>
      /\ UNCHANGED <<hdr, page, due>>
  BY <1>1, <1>2, <1>3 DEF getRecord, Open
<1>5. c \in HandleRec /\ Placed(h, c, hdr.pageCnt) /\ due \in [Handle -> SUBSET AllRids]
      /\ hdr.pageCnt \in Nat
  BY <1>0, <1>1, Facts
<1>6. /\ o \in HandleRec /\ o.curPage /\ o.curPageNo = p /\ o.open = c.open
      /\ o.hdrDirty = c.hdrDirty /\ o.markedPageNo = c.markedPageNo
      /\ ~moves => o.curDirty = c.curDirty
  BY <1>3, <1>5 DEF HandleRec
<1>7. p \in PagesTo(hdr.pageCnt)
  BY <1>4, <1>5, Constants DEF DataNos, PagesTo
<1>8. Goes(h, o, IF c.curPage THEN c.curPageNo ELSE Nil, p)
  <2>1. CASE moves
    BY <1>0, <1>1, <1>4, <1>5, <1>6, <1>7, <2>1 DEF Goes, Placed
  <2>2. CASE ~moves
    <3>1. c.curPage = TRUE /\ c.curPageNo = p /\ o.curPage = TRUE
      BY <1>2, <1>5, <1>6, <2>2 DEF HandleRec
    <3> QED
      BY <1>1, <1>4, <1>5, <1>6, <2>2, <3>1 DEF Goes, Placed
  <2> QED
    BY <2>1, <2>2
<1>9. due' \in [Handle -> SUBSET AllRids]
  BY <1>4, <1>5
<1> QED
  BY <1>0, <1>1, <1>4, <1>6, <1>8, <1>9, GoesIInv

LEMMA MatchingRids == \A f : Matching(f) \in SUBSET AllRids
BY DEF Matching, Records

LEMMA startScanIInv ==
  ASSUME IInv, NEW h \in Handle, NEW f \in Filter, startScan(h, f) PROVE IInv'
<1>1. PICK c : c = handle[h]
  OBVIOUS
<1>2. PICK o : o = [c EXCEPT !.filter = f]
  OBVIOUS
<1>3. /\ c.open /\ handle' = [handle EXCEPT ![h] = o] /\ UNCHANGED <<hdr, page, pinCnt, unsaved>>
      /\ due' = [due EXCEPT ![h] = Matching(f)]
  BY <1>1, <1>2 DEF startScan, Open, pool
<1>4. c \in HandleRec /\ Placed(h, c, hdr.pageCnt) /\ due \in [Handle -> SUBSET AllRids]
  BY <1>1, Facts
<1>5. /\ o \in HandleRec /\ o.open = c.open /\ o.curPage = c.curPage /\ o.curPageNo = c.curPageNo
      /\ o.hdrDirty = c.hdrDirty /\ o.curDirty = c.curDirty /\ o.status = c.status
      /\ o.markedPageNo = c.markedPageNo
  BY <1>2, <1>4, HeapFileAssumption DEF HandleRec
<1>6. Goes(h, o, Nil, Nil)
  BY <1>1, <1>3, <1>4, <1>5 DEF Goes, Placed
<1>7. due' \in [Handle -> SUBSET AllRids]
  BY <1>3, <1>4, MatchingRids
<1> QED
  BY <1>1, <1>3, <1>4, <1>5, <1>6, <1>7, GoesIInv DEF Placed

LEMMA endScanIInv == ASSUME IInv, NEW h \in Scanner, endScan(h) PROVE IInv'
<1>0. h \in Handle /\ h \notin Inserter
  BY HeapFileAssumption DEF Handle
<1>1. PICK c : c = handle[h]
  OBVIOUS
<1>2. PICK o : o = Ended(c)
  OBVIOUS
<1>3. /\ c.open /\ c.curPage /\ UnpinThenRead(c.curPageNo, c.curDirty, Nil)
      /\ handle' = [handle EXCEPT ![h] = o] /\ UNCHANGED <<hdr, page>>
      /\ due' = [due EXCEPT ![h] = Matching(c.filter)]
  BY <1>1, <1>2 DEF endScan, Open
<1>4. c \in HandleRec /\ Placed(h, c, hdr.pageCnt) /\ due \in [Handle -> SUBSET AllRids]
  BY <1>0, <1>1, Facts
<1>5. /\ o \in HandleRec /\ o.open = c.open /\ ~o.curPage /\ o.curPageNo = 0
      /\ o.hdrDirty = c.hdrDirty /\ o.status = "ended" /\ o.markedPageNo = c.markedPageNo
  BY <1>2, <1>4 DEF HandleRec, Ended, Statuses
<1>6. Goes(h, o, c.curPageNo, Nil)
  BY <1>0, <1>1, <1>3, <1>4, <1>5 DEF Goes, Placed
<1>7. due' \in [Handle -> SUBSET AllRids]
  BY <1>3, <1>4, MatchingRids
<1> QED
  BY <1>0, <1>1, <1>3, <1>5, <1>6, <1>7, GoesIInv

LEMMA markScanIInv == ASSUME IInv, NEW h \in Handle, markScan(h) PROVE IInv'
<1>1. PICK c : c = handle[h]
  OBVIOUS
<1>2. PICK o : o = [c EXCEPT !.markedPageNo = c.curPageNo, !.markedRec = c.curRec]
  OBVIOUS
<1>3. /\ c.open /\ c.curPage /\ handle' = [handle EXCEPT ![h] = o]
      /\ UNCHANGED <<hdr, page, pinCnt, unsaved, due>>
  BY <1>1, <1>2 DEF markScan, Open, pool
<1>4. /\ c \in HandleRec /\ Placed(h, c, hdr.pageCnt) /\ due \in [Handle -> SUBSET AllRids]
      /\ PagesTo(hdr.pageCnt) \subseteq DataNos
  BY <1>1, Facts
<1>5. c.curPageNo \in PagesTo(hdr.pageCnt) /\ c.curPageNo \in DataNos
  BY <1>3, <1>4 DEF Placed
<1>6. /\ o \in HandleRec /\ o.open = c.open /\ o.curPage = c.curPage /\ o.curPageNo = c.curPageNo
      /\ o.hdrDirty = c.hdrDirty /\ o.curDirty = c.curDirty /\ o.status = c.status
      /\ o.markedPageNo = c.curPageNo
  BY <1>2, <1>4, <1>5 DEF HandleRec
<1>7. Goes(h, o, Nil, Nil)
  BY <1>1, <1>3, <1>4, <1>5, <1>6 DEF Goes, Placed
<1>8. due' \in [Handle -> SUBSET AllRids]
  BY <1>3, <1>4
<1> QED
  BY <1>1, <1>3, <1>4, <1>6, <1>7, <1>8, GoesIInv DEF Placed

LEMMA resetScanIInv == ASSUME IInv, NEW h \in Scanner, resetScan(h) PROVE IInv'
<1>0. h \in Handle /\ h \notin Inserter
  BY HeapFileAssumption DEF Handle
<1>1. PICK c : c = handle[h]
  OBVIOUS
<1>2. PICK moves \in BOOLEAN : moves = (c.markedPageNo # c.curPageNo)
  OBVIOUS
<1>3. PICK o : o = [c EXCEPT !.curPage = TRUE, !.curPageNo = c.markedPageNo,
                             !.curRec = c.markedRec, !.status = "reset",
                             !.curDirty = IF moves THEN FALSE ELSE c.curDirty]
  OBVIOUS
<1>4. /\ c.open /\ c.markedPageNo # Nil /\ handle' = [handle EXCEPT ![h] = o]
      /\ IF moves
         THEN UnpinThenRead(IF c.curPage THEN c.curPageNo ELSE Nil, c.curDirty, c.markedPageNo)
         ELSE UNCHANGED <<pinCnt, unsaved>>
      /\ UNCHANGED <<hdr, page>>
      /\ due' = [due EXCEPT ![h] = Matching(c.filter) \cap Behind(c.markedPageNo, c.markedRec)]
  BY <1>1, <1>2, <1>3 DEF resetScan, Open
<1>5. c \in HandleRec /\ Placed(h, c, hdr.pageCnt) /\ due \in [Handle -> SUBSET AllRids]
      /\ PagesTo(hdr.pageCnt) \subseteq DataNos
  BY <1>0, <1>1, Facts
<1>6. c.markedPageNo \in PagesTo(hdr.pageCnt) /\ c.markedPageNo \in DataNos
  BY <1>4, <1>5 DEF Placed
<1>7. /\ o \in HandleRec /\ o.curPage /\ o.curPageNo = c.markedPageNo /\ o.open = c.open
      /\ o.hdrDirty = c.hdrDirty /\ o.markedPageNo = c.markedPageNo
      /\ ~moves => o.curDirty = c.curDirty
  BY <1>3, <1>5, <1>6 DEF HandleRec, Statuses
<1>8. Goes(h, o, IF c.curPage THEN c.curPageNo ELSE Nil, c.markedPageNo)
  <2>1. CASE moves
    BY <1>0, <1>1, <1>4, <1>5, <1>6, <1>7, <2>1 DEF Goes
  <2>2. CASE ~moves
    <3>1. c.curPageNo = c.markedPageNo
      BY <1>2, <2>2
    <3>2. c.curPage = TRUE /\ o.curPage = TRUE
      BY <1>5, <1>6, <1>7, <3>1 DEF Placed, HandleRec
    <3> QED
      BY <1>1, <1>4, <1>6, <1>7, <2>2, <3>1, <3>2 DEF Goes
  <2> QED
    BY <2>1, <2>2
<1>9. due' \in [Handle -> SUBSET AllRids]
  BY <1>4, <1>5, MatchingRids
<1> QED
  BY <1>0, <1>1, <1>4, <1>7, <1>8, <1>9, GoesIInv

\* Links lead to pages of the file.
LEMMA WalkInFile ==
  ASSUME IInv, NEW h \in Handle, NEW p \in PagesTo(hdr.pageCnt)
  PROVE  Walk(p)[0] = p /\ \A k \in 0 .. MaxPages : Walk(p)[k] \in PagesTo(hdr.pageCnt) \cup {Nil}
<1>1. TypeOK /\ p \in DataNos
  BY Facts DEF IInv
<1>2. /\ Walk(p)[0] = p
      /\ \A k \in 1 .. MaxPages :
           Walk(p)[k] = IF Walk(p)[k - 1] = Nil THEN Nil ELSE page[Walk(p)[k - 1]].next
      /\ \A k \in 0 .. MaxPages : Walk(p)[k] \in DataNos \cup {Nil}
  BY <1>1, WalkSteps
<1>3. \A q \in DataNos : page[q].next \in PagesTo(hdr.pageCnt) \cup {Nil}
  BY DEF IInv, Positions
<1>4. ASSUME NEW k \in 0 .. MaxPages PROVE Walk(p)[k] \in PagesTo(hdr.pageCnt) \cup {Nil}
  <2>1. CASE k = 0
    BY <1>2, <2>1
  <2>2. CASE k # 0
    <3>1. k \in 1 .. MaxPages /\ k - 1 \in 0 .. MaxPages
      BY <2>2, Constants
    <3> QED
      BY <1>2, <1>3, <3>1
  <2> QED
    BY <2>1, <2>2
<1> QED
  BY <1>2, <1>4

\* Where scanNext starts looking.
LEMMA ScanStart ==
  ASSUME IInv, NEW h \in Scanner, NEW p, NEW k \in 0 .. MaxPages, Walk(p)[k] # Nil,
         (handle[h].curPage /\ p = handle[h].curPageNo) \/ (~handle[h].curPage /\ p = hdr.firstPage)
  PROVE  /\ p \in PagesTo(hdr.pageCnt) /\ Walk(p)[k] \in PagesTo(hdr.pageCnt)
         /\ Walk(p)[k] \in DataNos
         /\ handle[h].curPage /\ k = 0 => Walk(p)[k] = handle[h].curPageNo
<1>1. h \in Handle
  BY DEF Handle
<1>2. p \in PagesTo(hdr.pageCnt)
  BY <1>1, Facts DEF Placed
<1>3. Walk(p)[0] = p /\ Walk(p)[k] \in PagesTo(hdr.pageCnt)
  BY <1>1, <1>2, WalkInFile
<1> QED
  BY <1>1, <1>2, <1>3, Facts

\* scanNext leaves the object on slot rec of page Walk(p)[k], with status st.
ScansTo(h, p, k, rec, st) ==
  /\ Walk(p)[k] # Nil
  /\ IF handle[h].curPage /\ k = 0
     THEN UNCHANGED <<pinCnt, unsaved>>
     ELSE UnpinThenRead(IF handle[h].curPage THEN p ELSE Nil, handle[h].curDirty, Walk(p)[k])
  /\ handle' = [handle EXCEPT ![h] =
       [handle[h] EXCEPT !.curPage = TRUE, !.curPageNo = Walk(p)[k], !.curRec = rec,
                         !.curDirty = handle[h].curDirty /\ handle[h].curPage /\ k = 0,
                         !.status = st]]

LEMMA ScanGoes ==
  ASSUME IInv, NEW h \in Scanner, handle[h].open, NEW p, NEW k \in 0 .. MaxPages,
         (handle[h].curPage /\ p = handle[h].curPageNo) \/ (~handle[h].curPage /\ p = hdr.firstPage),
         NEW rec \in Slots \cup {Nil}, NEW st \in Statuses, ScansTo(h, p, k, rec, st),
         UNCHANGED <<hdr, page>>, due' \in [Handle -> SUBSET AllRids]
  PROVE  IInv'
<1>0. h \in Handle /\ h \notin Inserter
  BY HeapFileAssumption DEF Handle
<1>1. PICK c : c = handle[h]
  OBVIOUS
<1>2. PICK q : q = Walk(p)[k]
  OBVIOUS
<1>3. q \in PagesTo(hdr.pageCnt) /\ q \in DataNos /\ (c.curPage /\ k = 0 => q = c.curPageNo)
  BY <1>1, <1>2, ScanStart DEF ScansTo
<1>4. c \in HandleRec /\ Placed(h, c, hdr.pageCnt)
  BY <1>0, <1>1, Facts
<1>5. PICK d \in BOOLEAN : d = (c.curDirty /\ c.curPage /\ k = 0)
  OBVIOUS
<1> DEFINE o == [c EXCEPT !.curPage = TRUE, !.curPageNo = q, !.curRec = rec, !.curDirty = d,
                          !.status = st]
<1>10. handle' = [handle EXCEPT ![h] = o]
  BY <1>1, <1>2, <1>5 DEF ScansTo
<1>6. /\ o \in HandleRec /\ o.curPage = TRUE /\ o.curPageNo = q /\ o.open = c.open /\ o.curDirty = d
      /\ o.hdrDirty = c.hdrDirty /\ o.markedPageNo = c.markedPageNo
  BY <1>3, <1>4 DEF HandleRec
<1> HIDE DEF o
<1>7. c.curPage \in BOOLEAN /\ c.curDirty \in BOOLEAN
  BY <1>4 DEF HandleRec
<1>8. CASE c.curPage /\ k = 0
  <2>1. c.curPage = TRUE /\ d = c.curDirty
    BY <1>5, <1>7, <1>8
  <2>2. Goes(h, o, Nil, Nil)
    BY <1>1, <1>3, <1>4, <1>6, <1>8, <1>10, <2>1 DEF Goes, Placed, ScansTo
  <2> QED
    BY <1>0, <1>6, <2>2, GoesIInv
<1>9. CASE ~(c.curPage /\ k = 0)
  <2>1. PICK from : from = IF c.curPage THEN c.curPageNo ELSE Nil
    OBVIOUS
  <2>2. UnpinThenRead(from, c.curDirty, q)
    BY <1>1, <1>2, <1>9, <2>1 DEF ScansTo
  <2>3. Goes(h, o, from, q)
    BY <1>0, <1>1, <1>3, <1>4, <1>6, <1>10, <2>1, <2>2 DEF Goes, Placed
  <2> QED
    BY <1>0, <1>6, <2>3, GoesIInv
<1> QED
  BY <1>8, <1>9

LEMMA scanFindsIInv ==
  ASSUME IInv, NEW h \in Scanner, handle[h].open, NEW p, NEW s, NEW k \in 0 .. MaxPages,
         (handle[h].curPage /\ p = handle[h].curPageNo) \/ (~handle[h].curPage /\ p = hdr.firstPage),
         scanFinds(h, p, s, k), UNCHANGED <<hdr, page>>
  PROVE  IInv'
<1>0. h \in Handle
  BY DEF Handle
<1>1. PICK S : S = Hits(Walk(p), s, k, handle[h].filter)
  OBVIOUS
<1>2. S \in SUBSET Slots /\ S # {}
  BY <1>1 DEF scanFinds, Hits, Ahead, Used
<1>3. Min(S) \in Slots
  BY <1>2, SlotMin
<1>4. "OK" \in Statuses
  BY DEF Statuses
<1>5. due' \in [Handle -> SUBSET AllRids]
  BY <1>0, Facts DEF scanFinds
<1>6. ScansTo(h, p, k, Min(S), "OK")
  BY <1>1 DEF scanFinds, ScansTo
<1> QED
  BY <1>3, <1>4, <1>5, <1>6, ScanGoes

LEMMA scanEndsIInv ==
  ASSUME IInv, NEW h \in Scanner, handle[h].open, NEW p, NEW s, NEW k \in 0 .. MaxPages,
         (handle[h].curPage /\ p = handle[h].curPageNo) \/ (~handle[h].curPage /\ p = hdr.firstPage),
         scanEnds(h, p, s, k), UNCHANGED <<hdr, page>>
  PROVE  IInv'
<1>0. h \in Handle
  BY DEF Handle
<1>1. PICK seen : seen = {j \in 0 .. k : Ahead(Walk(p), s, j) # {}}
  OBVIOUS
<1>2. PICK rec : rec = IF seen = {} THEN handle[h].curRec ELSE Max(Ahead(Walk(p), s, Max(seen)))
  OBVIOUS
<1>3. rec \in Slots \cup {Nil}
  <2>1. CASE seen = {}
    BY <1>0, <1>2, <2>1, Facts DEF HandleRec
  <2>2. CASE seen # {}
    <3>1. k \in Nat /\ seen \in SUBSET (0 .. k)
      BY <1>1, Constants
    <3>2. Max(seen) \in seen
      BY <2>2, <3>1, BoundedMax
    <3>3. PICK S : S = Ahead(Walk(p), s, Max(seen))
      OBVIOUS
    <3>4. S \in SUBSET Slots /\ S # {}
      BY <1>1, <3>2, <3>3 DEF Ahead, Used
    <3> QED
      BY <1>2, <2>2, <3>3, <3>4, SlotMax
  <2> QED
    BY <2>1, <2>2
<1>4. "FILEEOF" \in Statuses
  BY DEF Statuses
<1>5. due' \in [Handle -> SUBSET AllRids]
  BY <1>0, Facts DEF scanEnds
<1>6. ScansTo(h, p, k, rec, "FILEEOF")
  BY <1>1, <1>2 DEF scanEnds, ScansTo
<1> QED
  BY <1>3, <1>4, <1>5, <1>6, ScanGoes

LEMMA scanNextIInv == ASSUME IInv, NEW h \in Scanner, scanNext(h) PROVE IInv'
<1>0. h \in Handle
  BY DEF Handle
<1>1. PICK c : c = handle[h]
  OBVIOUS
<1>2. c.open /\ UNCHANGED <<hdr, page>>
  BY <1>1 DEF scanNext, Open
<1>3. /\ c \in HandleRec /\ Placed(h, c, hdr.pageCnt) /\ due \in [Handle -> SUBSET AllRids]
      /\ PagesTo(hdr.pageCnt) \subseteq DataNos
  BY <1>0, <1>1, Facts
<1>4. CASE scanAtEof(h)
  <2>1. PICK o : o = [c EXCEPT !.status = "FILEEOF"]
    OBVIOUS
  <2>2. handle' = [handle EXCEPT ![h] = o] /\ UNCHANGED <<pinCnt, unsaved, due>>
    BY <1>1, <1>4, <2>1 DEF scanAtEof
  <2>3. /\ o \in HandleRec /\ o.open = c.open /\ o.curPage = c.curPage /\ o.curPageNo = c.curPageNo
        /\ o.hdrDirty = c.hdrDirty /\ o.curDirty = c.curDirty /\ o.status = "FILEEOF"
        /\ o.markedPageNo = c.markedPageNo
    BY <1>3, <2>1 DEF HandleRec, Statuses
  <2>4. Goes(h, o, Nil, Nil)
    BY <1>1, <1>3, <2>2, <2>3 DEF Goes, Placed
  <2>5. due' \in [Handle -> SUBSET AllRids]
    BY <1>3, <2>2
  <2> QED
    BY <1>0, <1>1, <1>2, <2>3, <2>4, <2>5, GoesIInv
<1>5. CASE scanRestartsEmpty(h)
  <2>1. PICK o : o = [c EXCEPT !.curPageNo = Nil, !.status = "FILEEOF",
                               !.curRec = Nil, !.curDirty = FALSE]
    OBVIOUS
  <2>2. handle' = [handle EXCEPT ![h] = o] /\ UNCHANGED <<pinCnt, unsaved, due>> /\ ~c.curPage
    BY <1>1, <1>5, <2>1 DEF scanRestartsEmpty
  <2>3. /\ o \in HandleRec /\ o.open = c.open /\ o.curPage = c.curPage /\ o.curPageNo = Nil
        /\ o.hdrDirty = c.hdrDirty /\ o.status = "FILEEOF" /\ o.markedPageNo = c.markedPageNo
    BY <1>3, <2>1 DEF HandleRec, Statuses
  <2>4. Goes(h, o, Nil, Nil)
    BY <1>1, <1>3, <2>2, <2>3 DEF Goes, Placed
  <2>5. due' \in [Handle -> SUBSET AllRids]
    BY <1>3, <2>2
  <2> QED
    BY <1>0, <1>1, <1>2, <2>3, <2>4, <2>5, GoesIInv
<1>6. ASSUME NEW k \in 0 .. MaxPages, c.curPage,
             scanFinds(h, c.curPageNo, c.curRec, k) \/ scanEnds(h, c.curPageNo, c.curRec, k)
      PROVE  IInv'
  BY <1>1, <1>2, <1>6, scanFindsIInv, scanEndsIInv
<1>7. ASSUME NEW k \in 0 .. MaxPages, ~c.curPage,
             scanFinds(h, hdr.firstPage, Nil, k) \/ scanEnds(h, hdr.firstPage, Nil, k)
      PROVE  IInv'
  BY <1>1, <1>2, <1>7, scanFindsIInv, scanEndsIInv
<1> QED
  BY <1>1, <1>4, <1>5, <1>6, <1>7 DEF scanNext

-----------------------------------------------------------------------------
(***************************************************************************)
(* The actions that change the file.                                       *)
(***************************************************************************)
PageRec == [rec : [Slots -> Val \cup {NoVal}], next : DataNos \cup {Nil}]

\* Page p's slot s is given the value v.
Gives(p, s, v) == page' = [page EXCEPT ![p].rec[s] = v]

LEMMA SlotWritten ==
  ASSUME IInv, NEW p \in DataNos, NEW s \in Slots, NEW v \in Val \cup {NoVal}, Gives(p, s, v)
  PROVE  /\ page' \in [DataNos -> PageRec]
         /\ \A q \in DataNos : /\ page'[q].next = page[q].next
                               /\ q # p => page'[q] = page[q]
         /\ \A q \in DataNos, t \in Slots :
              page'[q].rec[t] = IF q = p /\ t = s THEN v ELSE page[q].rec[t]
         /\ Records' = IF v = NoVal THEN Records \ {[pageNo |-> p, slotNo |-> s]}
                       ELSE Records \cup {[pageNo |-> p, slotNo |-> s]}
<1>1. page \in [DataNos -> PageRec]
  BY DEF IInv, TypeOK, PageRec
<1>2. PICK new : new = [page[p] EXCEPT !.rec = [page[p].rec EXCEPT ![s] = v]]
  OBVIOUS
<1>3. page' = [page EXCEPT ![p] = new]
  BY <1>2 DEF Gives
<1>4. page[p] \in PageRec /\ page[p].rec \in [Slots -> Val \cup {NoVal}]
  BY <1>1 DEF PageRec
<1>5. new \in PageRec /\ new.next = page[p].next
      /\ \A t \in Slots : new.rec[t] = IF t = s THEN v ELSE page[p].rec[t]
  BY <1>2, <1>4 DEF PageRec
<1>6. page' \in [DataNos -> PageRec] /\ \A q \in DataNos : page'[q] = IF q = p THEN new ELSE page[q]
  BY <1>1, <1>3, <1>5
<1>7. \A q \in DataNos, t \in Slots :
        page'[q].rec[t] = IF q = p /\ t = s THEN v ELSE page[q].rec[t]
  BY <1>5, <1>6
<1>8. Records' = IF v = NoVal THEN Records \ {[pageNo |-> p, slotNo |-> s]}
                 ELSE Records \cup {[pageNo |-> p, slotNo |-> s]}
  <2> DEFINE rid == [pageNo |-> p, slotNo |-> s]
  <2>1. rid \in AllRids
    BY DEF AllRids
  <2>2. \A r \in AllRids : /\ r.pageNo \in DataNos /\ r.slotNo \in Slots
                           /\ r = rid <=> r.pageNo = p /\ r.slotNo = s
    BY DEF AllRids
  <2>3. \A r \in AllRids : r \in Records <=> page[r.pageNo].rec[r.slotNo] # NoVal
    BY DEF Records
  <2>4. \A r \in AllRids : r \in Records' <=> page'[r.pageNo].rec[r.slotNo] # NoVal
    BY DEF Records
  <2>5. Records \subseteq AllRids /\ Records' \subseteq AllRids
    BY DEF Records
  <2> HIDE DEF rid
  <2>6. \A r \in AllRids : r \in Records' <=> IF r = rid THEN v # NoVal ELSE r \in Records
    BY <1>7, <2>2, <2>3, <2>4
  <2>7. Records' = IF v = NoVal THEN Records \ {rid} ELSE Records \cup {rid}
    BY <2>1, <2>5, <2>6
  <2> QED
    BY <2>7 DEF rid
<1> QED
  BY <1>5, <1>6, <1>7, <1>8

\* The same for a record that is written, not deleted.
LEMMA ValueWritten ==
  ASSUME IInv, NEW p \in DataNos, NEW s \in Slots, NEW v \in Val, Gives(p, s, v)
  PROVE  /\ page' \in [DataNos -> PageRec]
         /\ \A q \in DataNos : /\ page'[q].next = page[q].next
                               /\ q # p => page'[q] = page[q]
         /\ Records' = Records \cup {[pageNo |-> p, slotNo |-> s]}
<1>1. PICK w \in Val \cup {NoVal} : w = v /\ w # NoVal
  BY HeapFileAssumption
<1>2. Gives(p, s, w)
  BY <1>1
<1> QED
  BY <1>1, <1>2, SlotWritten

\* A step of object h that changes the file and no page number.
LEMMA WritesIInv ==
  ASSUME IInv, NEW h \in Handle, NEW o, Turns(h, o), Placed(h, o, hdr.pageCnt),
         hdr' = [hdr EXCEPT !.recCnt = hdr'.recCnt], hdr'.recCnt \in Int,
         page' \in [DataNos -> PageRec],
         \A q \in DataNos : /\ page'[q].next = page[q].next
                            /\ q \notin PagesTo(hdr.pageCnt) => page'[q] = page[q],
         due' \in [Handle -> SUBSET AllRids], RecCntBound'
  PROVE  IInv'
<1>1. /\ handle' \in [Handle -> HandleRec] /\ pinCnt' \in [1 .. MaxPages -> Nat]
      /\ unsaved' \subseteq 1 .. MaxPages
      /\ \A g \in Handle : handle'[g] = IF g = h THEN o ELSE handle[g]
      /\ PinsBalanced' /\ ChangesReported'
  BY TurnsKeeps
<1>2. PICK n \in Int : n = hdr'.recCnt
  OBVIOUS
<1>3. hdr \in [firstPage : DataNos, lastPage : DataNos, pageCnt : 1 .. MaxPages - 1, recCnt : Int]
  BY DEF IInv, TypeOK
<1>4. /\ hdr' \in [firstPage : DataNos, lastPage : DataNos, pageCnt : 1 .. MaxPages - 1,
                   recCnt : Int]
      /\ hdr'.pageCnt = hdr.pageCnt /\ hdr'.firstPage = hdr.firstPage
      /\ hdr'.lastPage = hdr.lastPage
  <2>1. hdr' = [hdr EXCEPT !.recCnt = n]
    BY <1>2
  <2> QED
    BY <1>3, <2>1
<1>5. TypeOK'
  BY <1>1, <1>4 DEF TypeOK, HandleRec, PageRec
<1>6. \A g \in Handle : Placed(g, handle'[g], hdr.pageCnt)
  BY <1>1 DEF IInv, Positions
<1>7. Positions'
  <2>1. /\ \A p \in DataNos : p \notin PagesTo(hdr.pageCnt) => page[p] = EmptyPage
        /\ \A p \in DataNos : page[p].next \in PagesTo(hdr.pageCnt) \cup {Nil}
        /\ hdr.firstPage = 2 /\ hdr.lastPage = hdr.pageCnt + 1
    BY DEF IInv, Positions
  <2>2. EmptyPage' = EmptyPage
    BY DEF EmptyPage
  <2> QED
    BY <1>4, <1>6, <2>1, <2>2 DEF Positions
<1> QED
  BY <1>1, <1>5, <1>7 DEF IInv

\* An object marks its page, and maybe the header, as dirty and stays.
LEMMA MarksTurns ==
  ASSUME IInv, NEW h \in Handle, NEW o \in HandleRec, handle[h].curPage,
         handle' = [handle EXCEPT ![h] = o], UNCHANGED pinCnt,
         o.open = handle[h].open, o.curPage = handle[h].curPage,
         o.curPageNo = handle[h].curPageNo, o.markedPageNo = handle[h].markedPageNo, o.curDirty,
         handle[h].hdrDirty => o.hdrDirty,
         NEW S, S \subseteq {HdrNo, handle[h].curPageNo}, HdrNo \in S => o.hdrDirty, Touch(S)
  PROVE  Turns(h, o) /\ Placed(h, o, hdr.pageCnt)
<1>1. PICK c : c = handle[h]
  OBVIOUS
<1>2. /\ c \in HandleRec /\ Placed(h, c, hdr.pageCnt) /\ PagesTo(hdr.pageCnt) \subseteq DataNos
      /\ unsaved \subseteq 1 .. MaxPages /\ pinCnt \in [1 .. MaxPages -> Nat]
  BY <1>1, Facts
<1>3. c.curPageNo \in DataNos /\ c.curPageNo \in 1 .. MaxPages /\ HdrNo \in 1 .. MaxPages
  BY <1>1, <1>2, Constants DEF Placed, DataNos, HdrNo
<1>4. \A x \in 1 .. MaxPages : HasPin(o, x) <=> HasPin(c, x)
  BY <1>1 DEF HasPin
<1>5. pinCnt' = [x \in 1 .. MaxPages |->
                   pinCnt[x] + (IF HasPin(o, x) THEN 1 ELSE 0) - (IF HasPin(c, x) THEN 1 ELSE 0)]
  <2>1. \A x \in 1 .. MaxPages : pinCnt[x] = pinCnt[x] + (IF HasPin(o, x) THEN 1 ELSE 0)
                                                       - (IF HasPin(c, x) THEN 1 ELSE 0)
    BY <1>2, <1>4
  <2>2. pinCnt' = [x \in 1 .. MaxPages |-> pinCnt[x]]
    BY <1>2
  <2> QED
    BY <2>1, <2>2
<1>6. unsaved' = unsaved \cup S
  BY DEF Touch
<1>7. ASSUME NEW x \in unsaved'
      PROVE  WillReport(h, o, x) \/ (x \in unsaved /\ ~WillReport(h, c, x))
  BY <1>1, <1>6 DEF WillReport
<1>8. Turns(h, o)
  BY <1>1, <1>2, <1>3, <1>5, <1>6, <1>7 DEF Turns
<1> QED
  BY <1>1, <1>2, <1>8 DEF Placed

LEMMA deleteRecordIInv == ASSUME IInv, NEW h \in Scanner, deleteRecord(h) PROVE IInv'
<1>0. h \in Handle
  BY DEF Handle
<1>1. PICK c : c = handle[h]
  OBVIOUS
<1>2. PICK r : r = [pageNo |-> c.curPageNo, slotNo |-> c.curRec]
  OBVIOUS
<1>3. PICK o : o = [c EXCEPT !.curDirty = TRUE, !.hdrDirty = TRUE,
                             !.status = IF r \in Records THEN "deleted" ELSE "INVALIDSLOTNO"]
  OBVIOUS
<1>4. /\ c.open /\ c.status = "OK"
      /\ page' = IF r \in Records THEN [page EXCEPT ![r.pageNo].rec[r.slotNo] = NoVal] ELSE page
      /\ hdr' = hdrCounted /\ handle' = [handle EXCEPT ![h] = o] /\ Touch({HdrNo, c.curPageNo})
      /\ due' = [g \in Handle |-> due[g] \ {r}] /\ UNCHANGED pinCnt
  BY <1>1, <1>2, <1>3 DEF deleteRecord, Open
<1>5. /\ c \in HandleRec /\ Placed(h, c, hdr.pageCnt) /\ due \in [Handle -> SUBSET AllRids]
      /\ PagesTo(hdr.pageCnt) \subseteq DataNos
  BY <1>0, <1>1, Facts
<1>6. c.curPage /\ c.curPageNo \in PagesTo(hdr.pageCnt)
  BY <1>4, <1>5 DEF Placed
<1>7. /\ o \in HandleRec /\ o.open = c.open /\ o.curPage = c.curPage /\ o.curPageNo = c.curPageNo
      /\ o.markedPageNo = c.markedPageNo /\ o.curDirty /\ o.hdrDirty
  BY <1>3, <1>5 DEF HandleRec, Statuses
<1>8. Turns(h, o) /\ Placed(h, o, hdr.pageCnt)
  BY <1>0, <1>1, <1>4, <1>6, <1>7, MarksTurns
<1>9. /\ hdr.recCnt \in Int /\ hdr'.recCnt = hdr.recCnt - 1
      /\ hdr' = [hdr EXCEPT !.recCnt = hdr'.recCnt]
  <2>1. hdr \in [firstPage : DataNos, lastPage : DataNos, pageCnt : 1 .. MaxPages - 1, recCnt : Int]
    BY DEF IInv, TypeOK
  <2> QED
    BY <1>4, <2>1 DEF hdrCounted
<1>10. hdr.recCnt <= Cardinality(Records) /\ Records \in SUBSET AllRids
  BY DEF IInv, RecCntBound, Records
<1>11. due' \in [Handle -> SUBSET AllRids]
  BY <1>4, <1>5
<1>12. CASE r \in Records
  <2>1. r.pageNo = c.curPageNo /\ r.slotNo = c.curRec /\ r.pageNo \in DataNos /\ r.slotNo \in Slots
    <3>1. PICK p \in DataNos, s \in Slots : r = [pageNo |-> p, slotNo |-> s]
      BY <1>12 DEF Records, AllRids
    <3> QED
      BY <1>2, <3>1
  <2>2. Gives(c.curPageNo, c.curRec, NoVal)
    BY <1>4, <1>12, <2>1 DEF Gives
  <2>3. /\ page' \in [DataNos -> PageRec]
        /\ \A q \in DataNos : /\ page'[q].next = page[q].next
                              /\ q # c.curPageNo => page'[q] = page[q]
        /\ Records' = Records \ {r}
    BY <1>2, <2>1, <2>2, SlotWritten
  <2>4. Cardinality(Records') = Cardinality(Records) - 1 /\ Cardinality(Records) \in Nat
    BY <1>10, <1>12, <2>3, RidSets
  <2>5. RecCntBound'
    BY <1>9, <1>10, <2>4 DEF RecCntBound
  <2> QED
    BY <1>0, <1>6, <1>8, <1>9, <1>11, <2>3, <2>5, WritesIInv
<1>13. CASE r \notin Records
  <2>1. page' = page /\ page \in [DataNos -> PageRec]
    BY <1>4, <1>13 DEF IInv, TypeOK, PageRec
  <2>2. Records' = Records /\ Cardinality(Records) \in Nat
    BY <1>10, <2>1, RidSets DEF Records
  <2>3. RecCntBound'
    BY <1>9, <1>10, <2>2 DEF RecCntBound
  <2> QED
    BY <1>0, <1>8, <1>9, <1>11, <2>1, <2>3, WritesIInv
<1> QED
  BY <1>12, <1>13

LEMMA updateRecordIInv ==
  ASSUME IInv, NEW h \in Scanner, NEW v \in Val, updateRecord(h, v) PROVE IInv'
<1>0. h \in Handle /\ v # NoVal /\ v \in Val \cup {NoVal}
  BY HeapFileAssumption DEF Handle
<1>1. PICK c : c = handle[h]
  OBVIOUS
<1>2. PICK r : r = [pageNo |-> c.curPageNo, slotNo |-> c.curRec]
  OBVIOUS
<1>3. PICK o : o = [c EXCEPT !.curDirty = TRUE]
  OBVIOUS
<1>4. /\ c.open /\ c.status = "OK" /\ r \in Records
      /\ page' = [page EXCEPT ![r.pageNo].rec[r.slotNo] = v]
      /\ handle' = [handle EXCEPT ![h] = o] /\ Touch({c.curPageNo}) /\ UNCHANGED <<hdr, pinCnt>>
      /\ due' = [g \in Handle |-> IF matchRec(handle[g].filter, v) THEN due[g] ELSE due[g] \ {r}]
  BY <1>1, <1>2, <1>3 DEF updateRecord, Open
<1>5. /\ c \in HandleRec /\ Placed(h, c, hdr.pageCnt) /\ due \in [Handle -> SUBSET AllRids]
      /\ PagesTo(hdr.pageCnt) \subseteq DataNos
  BY <1>0, <1>1, Facts
<1>6. c.curPage /\ c.curPageNo \in PagesTo(hdr.pageCnt) /\ c.curPageNo # HdrNo
  BY <1>4, <1>5, Constants DEF Placed, HdrNo
<1>7. /\ o \in HandleRec /\ o.open = c.open /\ o.curPage = c.curPage /\ o.curPageNo = c.curPageNo
      /\ o.markedPageNo = c.markedPageNo /\ o.curDirty /\ o.hdrDirty = c.hdrDirty
  BY <1>3, <1>5 DEF HandleRec, Statuses
<1>8. Turns(h, o) /\ Placed(h, o, hdr.pageCnt)
  BY <1>0, <1>1, <1>4, <1>6, <1>7, MarksTurns
<1>9. hdr.recCnt \in Int /\ hdr' = [hdr EXCEPT !.recCnt = hdr'.recCnt] /\ hdr'.recCnt = hdr.recCnt
  <2>1. hdr \in [firstPage : DataNos, lastPage : DataNos, pageCnt : 1 .. MaxPages - 1, recCnt : Int]
    BY DEF IInv, TypeOK
  <2> QED
    BY <1>4, <2>1
<1>10. due' \in [Handle -> SUBSET AllRids]
  BY <1>4, <1>5
<1>11. r.pageNo = c.curPageNo /\ r.slotNo = c.curRec /\ r.pageNo \in DataNos /\ r.slotNo \in Slots
  <2>1. PICK p \in DataNos, s \in Slots : r = [pageNo |-> p, slotNo |-> s]
    BY <1>4 DEF Records, AllRids
  <2> QED
    BY <1>2, <2>1
<1>12. Gives(c.curPageNo, c.curRec, v)
  BY <1>4, <1>11 DEF Gives
<1>13. /\ page' \in [DataNos -> PageRec]
       /\ \A q \in DataNos : /\ page'[q].next = page[q].next
                             /\ q # c.curPageNo => page'[q] = page[q]
       /\ Records' = Records \cup {r}
  <2>1. c.curPageNo \in DataNos /\ c.curRec \in Slots
    BY <1>11
  <2> QED
    BY <1>2, <1>12, <2>1, ValueWritten
<1>14. RecCntBound'
  <2>1. Records' = Records
    BY <1>4, <1>13
  <2> QED
    BY <1>4, <2>1 DEF IInv, RecCntBound
<1> QED
  BY <1>0, <1>6, <1>8, <1>9, <1>10, <1>13, <1>14, WritesIInv

LEMMA insertHereIInv ==
  ASSUME IInv, NEW h \in Inserter, NEW v \in Val, NEW len \in Lens, Open(h), insertHere(h, v, len)
  PROVE  IInv'
<1>0. h \in Handle /\ v # NoVal /\ v \in Val \cup {NoVal} /\ len \in Nat
  BY HeapFileAssumption DEF Handle
<1>1. PICK c : c = handle[h]
  OBVIOUS
<1>2. PICK p, s : p = c.curPageNo /\ s = FreeSlot(p)
  OBVIOUS
<1>3. PICK o : o = [c EXCEPT !.curDirty = TRUE, !.hdrDirty = TRUE]
  OBVIOUS
<1>4. /\ c \in HandleRec /\ Placed(h, c, hdr.pageCnt) /\ due \in [Handle -> SUBSET AllRids]
      /\ PagesTo(hdr.pageCnt) \subseteq DataNos /\ handle \in [Handle -> HandleRec]
  BY <1>0, <1>1, Facts
<1>5. /\ Fits(p, len) /\ page' = [page EXCEPT ![p].rec[s] = v]
      /\ hdr' = [hdr EXCEPT !.recCnt = @ + 1] /\ Touch({HdrNo, p}) /\ UNCHANGED <<pinCnt, due>>
  BY <1>1, <1>2 DEF insertHere
<1>6. handle' = [handle EXCEPT ![h] = o]
  BY <1>0, <1>1, <1>3, <1>4 DEF insertHere, HandleRec
<1>7. c.curPage /\ p \in PagesTo(hdr.pageCnt) /\ p \in DataNos
  BY <1>1, <1>2, <1>4 DEF Placed, Open
<1>8. /\ o \in HandleRec /\ o.open = c.open /\ o.curPage = c.curPage /\ o.curPageNo = c.curPageNo
      /\ o.markedPageNo = c.markedPageNo /\ o.curDirty /\ o.hdrDirty
  BY <1>3, <1>4 DEF HandleRec
<1>9. Turns(h, o) /\ Placed(h, o, hdr.pageCnt)
  BY <1>0, <1>1, <1>2, <1>5, <1>6, <1>7, <1>8, MarksTurns
<1>10. /\ hdr.recCnt \in Int /\ hdr'.recCnt = hdr.recCnt + 1
       /\ hdr' = [hdr EXCEPT !.recCnt = hdr'.recCnt]
  <2>1. hdr \in [firstPage : DataNos, lastPage : DataNos, pageCnt : 1 .. MaxPages - 1, recCnt : Int]
    BY DEF IInv, TypeOK
  <2> QED
    BY <1>5, <2>1
<1>11. s \in Slots /\ s \notin Used(p)
  BY <1>0, <1>2, <1>5, SlotLeft
<1>12. PICK r : r = [pageNo |-> p, slotNo |-> s]
  OBVIOUS
<1>13. /\ page' \in [DataNos -> PageRec]
       /\ \A q \in DataNos : /\ page'[q].next = page[q].next
                             /\ q # p => page'[q] = page[q]
       /\ Records' = Records \cup {r}
  <2>1. Gives(p, s, v)
    BY <1>5 DEF Gives
  <2> QED
    BY <1>7, <1>11, <1>12, <2>1, ValueWritten
<1>14. RecCntBound'
  <2>1. r \notin Records
    BY <1>11, <1>12 DEF Records, Used
  <2>2. hdr.recCnt <= Cardinality(Records) /\ Records \in SUBSET AllRids
    BY DEF IInv, RecCntBound, Records
  <2>3. Cardinality(Records') = Cardinality(Records) + 1 /\ Cardinality(Records) \in Nat
    BY <1>13, <2>1, <2>2, RidSets
  <2> QED
    BY <1>10, <2>2, <2>3 DEF RecCntBound
<1>15. due' \in [Handle -> SUBSET AllRids]
  BY <1>4, <1>5
<1> QED
  BY <1>0, <1>7, <1>9, <1>10, <1>13, <1>14, <1>15, WritesIInv

\* Page p is linked to page q, which is a new one.
Joins(p, q, new) == page' = [page EXCEPT ![p].next = q, ![q] = new]

LEMMA PageLinked ==
  ASSUME page \in [DataNos -> PageRec], NEW p \in DataNos, NEW q \in DataNos, q # p,
         NEW new \in PageRec, new.next = Nil, Joins(p, q, new)
  PROVE  /\ page' \in [DataNos -> PageRec]
         /\ \A x \in DataNos : /\ page'[x].next = IF x = p THEN q ELSE IF x = q THEN Nil
                                                  ELSE page[x].next
                               /\ page'[x].rec = IF x = q THEN new.rec ELSE page[x].rec
                               /\ x # p /\ x # q => page'[x] = page[x]
<1>1. PICK old : old = [page[p] EXCEPT !.next = q]
  OBVIOUS
<1>2. old \in PageRec /\ old.next = q /\ old.rec = page[p].rec
  BY <1>1 DEF PageRec
<1>3. \A x \in DataNos : page'[x] = IF x = q THEN new ELSE IF x = p THEN old ELSE page[x]
  BY <1>1 DEF Joins
<1>4. page' = [x \in DataNos |-> page'[x]]
  BY DEF Joins
<1> QED
  BY <1>2, <1>3, <1>4

LEMMA insertOnNewPageIInv ==
  ASSUME IInv, NEW h \in Inserter, NEW v \in Val, NEW len \in Lens, Open(h),
         insertOnNewPage(h, v, len)
  PROVE  IInv'
<1>0. h \in Handle /\ v # NoVal /\ v \in Val \cup {NoVal} /\ len \in Nat
  BY HeapFileAssumption DEF Handle
<1>1. PICK c : c = handle[h]
  OBVIOUS
<1>2. PICK p, n : p = c.curPageNo /\ n = hdr.pageCnt
  OBVIOUS
<1>3. PICK q : q = n + 2
  OBVIOUS
<1>4. PICK ok \in BOOLEAN : ok <=> FitsOn(0, 0, len)
  OBVIOUS
<1>5. PICK new : new = IF ok THEN [EmptyPage EXCEPT !.rec[0] = v] ELSE EmptyPage
  OBVIOUS
<1>6. PICK o : o = [c EXCEPT !.curPageNo = q, !.curDirty = c.curDirty \/ ok, !.hdrDirty = TRUE]
  OBVIOUS
<1>7. /\ q <= MaxPages /\ page' = [page EXCEPT ![p].next = q, ![q] = new]
      /\ hdr' = [hdr EXCEPT !.lastPage = q, !.pageCnt = n + 1,
                            !.recCnt = IF ok THEN hdr.recCnt + 1 ELSE hdr.recCnt]
      /\ pinCnt' = [pinCnt EXCEPT ![p] = @ - 1, ![q] = @ + 1]
      /\ unsaved' = (unsaved \ {p}) \cup {q, HdrNo}
      /\ handle' = [handle EXCEPT ![h] = o] /\ UNCHANGED due
  BY <1>1, <1>2, <1>3, <1>4, <1>5, <1>6 DEF insertOnNewPage, LinkedPage
<1>8. /\ c \in HandleRec /\ Placed(h, c, n) /\ due \in [Handle -> SUBSET AllRids]
      /\ PagesTo(n) \subseteq DataNos /\ handle \in [Handle -> HandleRec]
      /\ n \in Nat /\ n >= 1 /\ hdr.firstPage = 2
      /\ unsaved \subseteq 1 .. MaxPages /\ pinCnt \in [1 .. MaxPages -> Nat]
  BY <1>0, <1>1, <1>2, Facts
<1>9. c.open /\ c.curPage /\ p \in PagesTo(n) /\ p \in DataNos
  BY <1>1, <1>2, <1>8 DEF Placed, Open
<1>10. /\ q \in DataNos /\ q \notin PagesTo(n) /\ q # p /\ q \in PagesTo(n + 1)
       /\ PagesTo(n + 1) = PagesTo(n) \cup {q} /\ p # HdrNo /\ q # HdrNo /\ q # Nil /\ q # 0
       /\ q \in 1 .. MaxPages /\ p \in 1 .. MaxPages /\ HdrNo \in 1 .. MaxPages
  BY <1>3, <1>7, <1>8, <1>9, Constants, SMTT(30) DEF PagesTo, DataNos, HdrNo, Nil
<1>11. /\ o \in HandleRec /\ o.open = c.open /\ o.curPage = c.curPage /\ o.curPageNo = q
       /\ o.markedPageNo = c.markedPageNo /\ o.hdrDirty /\ o.status = c.status
  <2>1. PICK d \in BOOLEAN : d = (c.curDirty \/ ok)
    BY <1>8 DEF HandleRec
  <2>2. o = [c EXCEPT !.curPageNo = q, !.curDirty = d, !.hdrDirty = TRUE]
    BY <1>6, <2>1
  <2> QED
    BY <1>8, <1>10, <2>2 DEF HandleRec
<1>12. Turns(h, o)
  <2>1. \A x \in 1 .. MaxPages : x # HdrNo => (HasPin(o, x) <=> x = q) /\ (HasPin(c, x) <=> x = p)
    BY <1>2, <1>9, <1>11 DEF HasPin
  <2>2. HasPin(o, HdrNo) /\ HasPin(c, HdrNo)
    BY <1>9, <1>11 DEF HasPin
  <2>3. pinCnt' = [x \in 1 .. MaxPages |-> IF x = p THEN pinCnt[x] - 1
                                           ELSE IF x = q THEN pinCnt[x] + 1 ELSE pinCnt[x]]
    BY <1>7, <1>8, <1>10
  <2>4. ASSUME NEW x \in 1 .. MaxPages
        PROVE  (IF x = p THEN pinCnt[x] - 1 ELSE IF x = q THEN pinCnt[x] + 1 ELSE pinCnt[x])
               = pinCnt[x] + (IF HasPin(o, x) THEN 1 ELSE 0) - (IF HasPin(c, x) THEN 1 ELSE 0)
    <3>1. pinCnt[x] \in Nat
      BY <1>8
    <3>2. CASE x = HdrNo
      BY <1>10, <2>2, <3>1, <3>2
    <3>3. CASE x # HdrNo
      BY <1>10, <2>1, <3>1, <3>3
    <3> QED
      BY <3>2, <3>3
  <2>5. pinCnt' = [x \in 1 .. MaxPages |->
                     pinCnt[x] + (IF HasPin(o, x) THEN 1 ELSE 0)
                               - (IF HasPin(c, x) THEN 1 ELSE 0)]
    BY <2>3, <2>4
  <2>6. ASSUME NEW x \in unsaved'
        PROVE  WillReport(h, o, x) \/ (x \in unsaved /\ ~WillReport(h, c, x))
    BY <1>2, <1>7, <1>9, <1>11 DEF WillReport
  <2>7. unsaved' \subseteq 1 .. MaxPages
    BY <1>7, <1>8, <1>10
  <2> QED
    BY <1>1, <1>7, <1>11, <2>5, <2>6, <2>7 DEF Turns
<1>13. /\ handle' \in [Handle -> HandleRec] /\ pinCnt' \in [1 .. MaxPages -> Nat]
       /\ unsaved' \subseteq 1 .. MaxPages
       /\ \A g \in Handle : handle'[g] = IF g = h THEN o ELSE handle[g]
       /\ PinsBalanced' /\ ChangesReported'
  BY <1>0, <1>12, TurnsKeeps
<1>14. /\ hdr \in [firstPage : DataNos, lastPage : DataNos, pageCnt : 1 .. MaxPages - 1,
                   recCnt : Int]
       /\ page \in [DataNos -> PageRec]
  BY DEF IInv, TypeOK, PageRec
<1>15. /\ hdr' \in [firstPage : DataNos, lastPage : DataNos, pageCnt : 1 .. MaxPages - 1,
                    recCnt : Int]
       /\ hdr'.pageCnt = n + 1 /\ hdr'.firstPage = 2 /\ hdr'.lastPage = q
       /\ hdr'.recCnt = IF ok THEN hdr.recCnt + 1 ELSE hdr.recCnt
  <2>1. PICK k : k = IF ok THEN hdr.recCnt + 1 ELSE hdr.recCnt
    OBVIOUS
  <2>2. k \in Int
    BY <1>14, <2>1
  <2>3. n + 1 \in 1 .. MaxPages - 1
    BY <1>3, <1>7, <1>8, Constants
  <2>4. hdr' = [hdr EXCEPT !.lastPage = q, !.pageCnt = n + 1, !.recCnt = k]
    BY <1>7, <2>1
  <2>5. hdr' \in [firstPage : DataNos, lastPage : DataNos, pageCnt : 1 .. MaxPages - 1,
                  recCnt : Int]
    BY <1>10, <1>14, <2>2, <2>3, <2>4
  <2>6. hdr'.pageCnt = n + 1 /\ hdr'.firstPage = hdr.firstPage /\ hdr'.lastPage = q /\ hdr'.recCnt = k
    BY <1>14, <2>4
  <2> QED
    BY <1>8, <2>1, <2>5, <2>6
<1>16. /\ new \in PageRec /\ new.next = Nil
       /\ \A s \in Slots : new.rec[s] = IF ok /\ s = 0 THEN v ELSE NoVal
  BY <1>5, Constants DEF PageRec, EmptyPage
<1>17. /\ page' \in [DataNos -> PageRec]
       /\ \A x \in DataNos : /\ page'[x].next = IF x = p THEN q ELSE IF x = q THEN Nil
                                                ELSE page[x].next
                             /\ page'[x].rec = IF x = q THEN new.rec ELSE page[x].rec
                             /\ x # p /\ x # q => page'[x] = page[x]
  <2>1. Joins(p, q, new)
    BY <1>7 DEF Joins
  <2> QED
    BY <1>9, <1>10, <1>14, <1>16, <2>1, PageLinked
<1>18. TypeOK'
  BY <1>7, <1>8, <1>13, <1>15, <1>17 DEF TypeOK, HandleRec, PageRec
<1>19. Positions'
  <2>1. /\ \A x \in DataNos : x \notin PagesTo(n) => page[x] = EmptyPage
        /\ \A x \in DataNos : page[x].next \in PagesTo(n) \cup {Nil}
    BY <1>2 DEF IInv, Positions
  <2>2. \A x \in DataNos : /\ x \notin PagesTo(n + 1) => page'[x] = EmptyPage
                           /\ page'[x].next \in PagesTo(n + 1) \cup {Nil}
    BY <1>9, <1>10, <1>17, <2>1
  <2>3. ASSUME NEW g \in Handle PROVE Placed(g, handle'[g], n + 1)
    <3>1. CASE g = h
      <4>1. Placed(h, o, n + 1)
        BY <1>8, <1>9, <1>10, <1>11 DEF Placed
      <4> QED
        BY <1>13, <3>1, <4>1
    <3>2. CASE g # h
      <4>1. handle'[g] = handle[g] /\ Placed(g, handle[g], n)
        BY <1>2, <1>13, <3>2 DEF IInv, Positions
      <4> QED
        BY <1>10, <4>1 DEF Placed
    <3> QED
      BY <3>1, <3>2
  <2>4. EmptyPage' = EmptyPage
    BY DEF EmptyPage
  <2>5. hdr'.lastPage = hdr'.pageCnt + 1
    BY <1>3, <1>8, <1>15
  <2> QED
    BY <1>15, <2>2, <2>3, <2>4, <2>5 DEF Positions
<1>20. RecCntBound'
  <2> DEFINE r == [pageNo |-> q, slotNo |-> 0]
  <2>1. r \in AllRids
    BY <1>10, Constants DEF AllRids
  <2>2. \A x \in AllRids : /\ x.pageNo \in DataNos /\ x.slotNo \in Slots
                           /\ x = r <=> x.pageNo = q /\ x.slotNo = 0
    BY DEF AllRids
  <2>3. \A s \in Slots : page[q].rec[s] = NoVal
    BY <1>2, <1>10 DEF IInv, Positions, EmptyPage
  <2>4. \A x \in AllRids : x \in Records <=> page[x.pageNo].rec[x.slotNo] # NoVal
    BY DEF Records
  <2>5. \A x \in AllRids : x \in Records' <=> page'[x.pageNo].rec[x.slotNo] # NoVal
    BY DEF Records
  <2>6. Records \in SUBSET AllRids /\ Records' \subseteq AllRids
    BY DEF Records
  <2> HIDE DEF r
  <2>7. \A x \in AllRids : x \in Records' <=> x \in Records \/ (ok /\ x = r)
    BY <1>0, <1>16, <1>17, <2>2, <2>3, <2>4, <2>5
  <2>8. r \notin Records
    BY <2>1, <2>2, <2>3, <2>4
  <2>9. hdr.recCnt <= Cardinality(Records) /\ hdr.recCnt \in Int
    BY <1>14 DEF IInv, RecCntBound
  <2>10. CASE ok
    <3>1. Records' = Records \cup {r}
      BY <2>1, <2>6, <2>7, <2>10
    <3>2. Cardinality(Records') = Cardinality(Records) + 1 /\ Cardinality(Records) \in Nat
      BY <2>6, <2>8, <3>1, RidSets
    <3> QED
      BY <1>15, <2>9, <2>10, <3>2 DEF RecCntBound
  <2>11. CASE ~ok
    <3>1. Records' = Records
      BY <2>6, <2>7, <2>11
    <3> QED
      BY <1>15, <2>9, <2>11, <3>1 DEF RecCntBound
  <2> QED
    BY <2>10, <2>11
<1> QED
  BY <1>13, <1>18, <1>19, <1>20 DEF IInv

LEMMA NextIInv == IInv /\ [Next]_vars => IInv'
<1> SUFFICES ASSUME IInv, [Next]_vars PROVE IInv'
  OBVIOUS
<1>1. ASSUME UNCHANGED vars PROVE IInv'
  BY <1>1 DEF IInv, TypeOK, Positions, PinsBalanced, ChangesReported, RecCntBound, Records,
              Open, vars
<1>2. ASSUME NEW h \in Handle, Construct(h) \/ Destroy(h) PROVE IInv'
  BY <1>2, ConstructIInv, DestroyIInv
<1>3. ASSUME NEW h \in Reader, NEW p \in DataNos, getRecord(h, p) PROVE IInv'
  BY <1>3, getRecordIInv
<1>4. ASSUME NEW h \in Scanner, NEW f \in Filter, startScan(h, f) PROVE IInv'
  BY <1>4, startScanIInv DEF Handle
<1>5. ASSUME NEW h \in Scanner,
             endScan(h) \/ markScan(h) \/ resetScan(h) \/ scanNext(h) \/ deleteRecord(h)
      PROVE  IInv'
  BY <1>5, endScanIInv, markScanIInv, resetScanIInv, scanNextIInv, deleteRecordIInv DEF Handle
<1>6. ASSUME NEW h \in Scanner, NEW v \in Val, updateRecord(h, v) PROVE IInv'
  BY <1>6, updateRecordIInv
<1>7. ASSUME NEW h \in Inserter, NEW v \in Val, NEW len \in Lens, insertRecord(h, v, len)
      PROVE  IInv'
  BY <1>1, <1>7, insertHereIInv, insertOnNewPageIInv DEF insertRecord, insertRejected
<1> QED
  BY <1>1, <1>2, <1>3, <1>4, <1>5, <1>6, <1>7 DEF Next

-----------------------------------------------------------------------------
(***************************************************************************)
(* What holds in every reachable state, whoever inserts.                   *)
(***************************************************************************)
\* The inductive invariant holds always.
THEOREM Invariant == Spec => []IInv
BY InitIInv, NextIInv, PTL DEF Spec

\* Every page, and every member of an object on the file, keeps its type.
THEOREM TypeCorrect == Spec => []TypeOK
<1>1. IInv => TypeOK
  BY DEF IInv
<1> QED
  BY <1>1, Invariant, PTL

\* Constructors, scans, resets and destructors give back exactly the pins they
\* took: the pin counts are the numbers of objects that stand on the pages.
THEOREM PinsBalancedAlways == Spec => []PinsBalanced
<1>1. IInv => PinsBalanced
  BY DEF IInv
<1> QED
  BY <1>1, Invariant, PTL

\* No object moves on, resets or is destroyed and leaves a change to a page
\* that the buffer pool was not told of.
THEOREM ChangesReportedAlways == Spec => []ChangesReported
<1>1. IInv => ChangesReported
  BY DEF IInv
<1> QED
  BY <1>1, Invariant, PTL

\* getRecCnt never counts a record that is not in the file.
THEOREM RecCntBoundAlways == Spec => []RecCntBound
<1>1. IInv => RecCntBound
  BY DEF IInv
<1> QED
  BY <1>1, Invariant, PTL

-----------------------------------------------------------------------------
(***************************************************************************)
(* The chain of pages and what a scan still has to return, when at most    *)
(* one object inserts: two InsertFileScans on the same full page would     *)
(* each link a new page to it, and the later link would hide the earlier   *)
(* page.  The program never has two of them open on one file.              *)
(***************************************************************************)
OneInserter == \A g, h \in Inserter : g = h

\* The pages of the file are linked in the order of their numbers, and an
\* InsertFileScan stands on the last one.
Linked ==
  /\ \A p \in PagesTo(hdr.pageCnt) :
       page[p].next = IF p = hdr.pageCnt + 1 THEN Nil ELSE p + 1
  /\ \A h \in Inserter : handle[h].open => handle[h].curPageNo = hdr.pageCnt + 1

\* Record r lies behind slot s of page p, in the order of a scan.
IsAhead(r, p, s) == r.pageNo > p \/ (r.pageNo = p /\ r.slotNo > s)

\* Record r of the pages pg passes the filter f.
Wanted(pg, r, f) ==
  /\ r \in AllRids /\ pg[r.pageNo].rec[r.slotNo] # NoVal
  /\ matchRec(f, pg[r.pageNo].rec[r.slotNo])

\* Object h, with members o, still has the records d to return: they all lie
\* ahead of it, and none is left at the end of the file.
Owes(h, o, d) ==
  /\ o.curPage => \A r \in d : IsAhead(r, o.curPageNo, o.curRec)
  /\ h \in Scanner /\ o.open /\ o.status = "opened" => o.curPageNo = 2 /\ o.curRec = Nil
  /\ h \in Scanner /\ o.status = "ended" => ~o.curPage
  /\ o.status = "FILEEOF" /\ o.curPageNo # Nil => d = {}
  /\ h \notin Scanner => d = {}

Scanning ==
  \A h \in Handle : /\ \A r \in due[h] : Wanted(page, r, handle[h].filter)
                    /\ Owes(h, handle[h], due[h])

\* The inductive invariant of scans beside one inserter.
ScanInv == Linked /\ Scanning

LEMMA MatchingWanted == \A f, r : r \in Matching(f) <=> Wanted(page, r, f)
BY DEF Matching, Records, Wanted

LEMMA OwesLess ==
  ASSUME NEW h, NEW o, NEW d, NEW e, Owes(h, o, d), e \subseteq d
  PROVE  Owes(h, o, e)
BY DEF Owes

\* A scan passes the pages of the file one by one.
LEMMA WalkIs ==
  ASSUME IInv, Linked, NEW p \in PagesTo(hdr.pageCnt), NEW k \in 0 .. MaxPages
  PROVE  Walk(p)[k] = IF p + k <= hdr.pageCnt + 1 THEN p + k ELSE Nil
<1>1. PICK n : n = hdr.pageCnt
  OBVIOUS
<1>2. n \in Nat /\ PagesTo(n) \subseteq DataNos /\ p \in PagesTo(n) /\ p \in Nat /\ MaxPages \in Nat
  BY <1>1, FileFacts, Constants
<1>3. /\ Walk(p)[0] = p
      /\ \A j \in 1 .. MaxPages :
           Walk(p)[j] = IF Walk(p)[j - 1] = Nil THEN Nil ELSE page[Walk(p)[j - 1]].next
  BY <1>2, WalkSteps DEF IInv
<1>4. \A q \in PagesTo(n) : page[q].next = IF q = n + 1 THEN Nil ELSE q + 1
  BY <1>1 DEF Linked
<1> DEFINE At(j) == IF p + j <= n + 1 THEN p + j ELSE Nil
           U == {j \in 0 .. MaxPages : Walk(p)[j] # At(j)}
<1>5. SUFFICES ASSUME U # {} PROVE FALSE
  BY <1>1
<1>6. U \subseteq Nat
  BY <1>2
<1>7. PICK m \in U : \A y \in U : <<y, m>> \notin OpToRel(<, Nat)
  BY <1>5, <1>6, NatLessThanWellFounded, WFMin
<1>8. m \in 0 .. MaxPages /\ m \in Nat /\ Walk(p)[m] # At(m) /\ \A y \in U : ~(y < m)
  BY <1>6, <1>7 DEF OpToRel
<1>9. m # 0
  BY <1>2, <1>3, <1>8 DEF PagesTo
<1>10. m \in 1 .. MaxPages /\ m - 1 \in 0 .. MaxPages /\ m - 1 < m
  BY <1>2, <1>8, <1>9
<1>11. Walk(p)[m - 1] = At(m - 1)
  BY <1>8, <1>10
<1>12. Walk(p)[m] = IF Walk(p)[m - 1] = Nil THEN Nil ELSE page[Walk(p)[m - 1]].next
  BY <1>3, <1>10
<1>13. CASE p + (m - 1) <= n + 1
  <2>1. Walk(p)[m - 1] = p + (m - 1) /\ p + (m - 1) \in PagesTo(n) /\ p + (m - 1) # Nil
    BY <1>2, <1>8, <1>10, <1>11, <1>13 DEF PagesTo, Nil
  <2>2. Walk(p)[m] = IF p + (m - 1) = n + 1 THEN Nil ELSE p + (m - 1) + 1
    BY <1>4, <1>12, <2>1
  <2> QED
    BY <1>2, <1>8, <1>13, <2>2
<1>14. CASE ~(p + (m - 1) <= n + 1)
  BY <1>2, <1>8, <1>11, <1>12, <1>14
<1> QED
  BY <1>13, <1>14

\* A record that is due is a hit on a page that scanNext comes to.
LEMMA DueIsHit ==
  ASSUME IInv, ScanInv, NEW h \in Handle, NEW p \in PagesTo(hdr.pageCnt), NEW s \in Int,
         NEW r \in due[h], IsAhead(r, p, s)
  PROVE  \E j \in 0 .. MaxPages :
           /\ r.pageNo = p + j /\ p + j <= hdr.pageCnt + 1 /\ Walk(p)[j] = p + j
           /\ r.slotNo \in Hits(Walk(p), s, j, handle[h].filter)
<1>1. PICK n, f : n = hdr.pageCnt /\ f = handle[h].filter
  OBVIOUS
<1>2. /\ n \in Nat /\ n + 1 <= MaxPages /\ p \in PagesTo(n) /\ PagesTo(n) \subseteq DataNos
      /\ p \in Nat /\ MaxPages \in Nat
  BY <1>1, Facts, Constants
<1>3. /\ r \in AllRids /\ page[r.pageNo].rec[r.slotNo] # NoVal
      /\ matchRec(f, page[r.pageNo].rec[r.slotNo])
  BY <1>1 DEF ScanInv, Scanning, Wanted
<1>4. r.pageNo \in DataNos /\ r.slotNo \in Slots /\ r.pageNo \in Nat /\ r.slotNo \in Nat
  BY <1>3, Constants DEF AllRids
<1>5. r.pageNo \in PagesTo(n)
  BY <1>1, <1>3, <1>4 DEF IInv, Positions, EmptyPage
<1>6. PICK j : j = r.pageNo - p
  OBVIOUS
<1>7. /\ j \in 0 .. MaxPages /\ r.pageNo = p + j /\ p + j <= n + 1
      /\ j = 0 => r.slotNo > s
  BY <1>2, <1>4, <1>5, <1>6 DEF IsAhead, PagesTo
<1>8. Walk(p)[j] = p + j
  BY <1>1, <1>7, WalkIs DEF ScanInv
<1>9. r.slotNo \in Used(Walk(p)[j]) /\ Walk(p)[j] = r.pageNo
  BY <1>3, <1>4, <1>7, <1>8 DEF Used
<1>10. r.slotNo \in Hits(Walk(p), s, j, f)
  BY <1>3, <1>7, <1>9 DEF Hits, Ahead
<1> QED
  BY <1>1, <1>7, <1>8, <1>10

\* A step of object h that adds no page and makes nothing due for the others.
LEMMA StepsKeep ==
  ASSUME IInv, ScanInv, NEW h \in Handle, NEW o \in HandleRec,
         handle' = [handle EXCEPT ![h] = o], hdr'.pageCnt = hdr.pageCnt,
         \A q \in DataNos : page'[q].next = page[q].next,
         h \in Inserter /\ o.open => o.curPageNo = hdr.pageCnt + 1,
         \A r \in due'[h] : Wanted(page', r, o.filter), Owes(h, o, due'[h]),
         \A g \in Handle \ {h} : due'[g] \subseteq due[g],
         \A g \in Handle \ {h} : \A r \in due'[g] : Wanted(page', r, handle[g].filter)
  PROVE  ScanInv'
<1>1. handle \in [Handle -> HandleRec] /\ PagesTo(hdr.pageCnt) \subseteq DataNos
  BY Facts
<1>2. \A g \in Handle : handle'[g] = IF g = h THEN o ELSE handle[g]
  BY <1>1
<1>3. Linked'
  <2>1. \A q \in PagesTo(hdr.pageCnt) :
          page'[q].next = IF q = hdr.pageCnt + 1 THEN Nil ELSE q + 1
    BY <1>1 DEF ScanInv, Linked
  <2>2. \A g \in Inserter : handle'[g].open => handle'[g].curPageNo = hdr.pageCnt + 1
    BY <1>2 DEF ScanInv, Linked, Handle
  <2> QED
    BY <2>1, <2>2 DEF Linked
<1>4. ASSUME NEW g \in Handle
      PROVE  (\A r \in due'[g] : Wanted(page', r, handle'[g].filter)) /\ Owes(g, handle'[g], due'[g])
  <2>1. CASE g = h
    BY <1>2, <2>1
  <2>2. CASE g # h
    <3>1. handle'[g] = handle[g] /\ due'[g] \subseteq due[g]
      BY <1>2, <2>2
    <3>2. Owes(g, handle[g], due[g])
      BY DEF ScanInv, Scanning
    <3>3. Owes(g, handle[g], due'[g])
      BY <3>1, <3>2, OwesLess
    <3> QED
      BY <2>2, <3>1, <3>3
  <2> QED
    BY <2>1, <2>2
<1>5. Scanning'
  BY <1>4 DEF Scanning, Wanted, Owes, IsAhead, matchRec, AllRids, Nil, Slots, DataNos
<1> QED
  BY <1>3, <1>5 DEF ScanInv

\* A step of object h that leaves the file as it is.
LEMMA MovesKeep ==
  ASSUME IInv, ScanInv, NEW h \in Handle, NEW o \in HandleRec, NEW d,
         handle' = [handle EXCEPT ![h] = o], due' = [due EXCEPT ![h] = d], UNCHANGED <<hdr, page>>,
         h \in Inserter /\ o.open => o.curPageNo = hdr.pageCnt + 1,
         \A r \in d : Wanted(page, r, o.filter), Owes(h, o, d)
  PROVE  ScanInv'
<1>1. due \in [Handle -> SUBSET AllRids]
  BY Facts
<1>2. \A g \in Handle : due'[g] = IF g = h THEN d ELSE due[g]
  BY <1>1
<1>3. \A g \in Handle : \A r \in due[g] : Wanted(page, r, handle[g].filter)
  BY DEF ScanInv, Scanning
<1>4. hdr'.pageCnt = hdr.pageCnt /\ page' = page
  OBVIOUS
<1>5. \A q \in DataNos : page'[q].next = page[q].next
  BY <1>4
<1>6. due'[h] = d /\ \A g \in Handle \ {h} : due'[g] = due[g]
  BY <1>2
<1>7. \A r \in due'[h] : Wanted(page', r, o.filter)
  BY <1>4, <1>6
<1>8. Owes(h, o, due'[h])
  BY <1>6
<1>9. \A g \in Handle \ {h} : due'[g] \subseteq due[g]
  BY <1>6
<1>10. \A g \in Handle \ {h} : \A r \in due'[g] : Wanted(page', r, handle[g].filter)
  BY <1>3, <1>4, <1>6
<1> QED
  BY <1>4, <1>5, <1>7, <1>8, <1>9, <1>10, StepsKeep

\* From the beginning of the file, every record lies ahead.
LEMMA AllAhead == ASSUME NEW r \in AllRids PROVE IsAhead(r, 2, Nil)
<1>1. r.pageNo \in DataNos /\ r.slotNo \in Slots
  BY DEF AllRids
<1>2. r.pageNo \in Nat /\ r.slotNo \in Nat
  BY <1>1, Constants
<1>3. r.pageNo >= 2
  BY <1>1 DEF DataNos
<1> QED
  BY <1>2, <1>3 DEF IsAhead, Nil

LEMMA InitScanInv == Init => ScanInv
<1> SUFFICES ASSUME Init PROVE ScanInv
  OBVIOUS
<1>1. /\ hdr.pageCnt = 1 /\ page = [p \in DataNos |-> EmptyPage]
      /\ handle = [h \in Handle |-> Closed] /\ due = [h \in Handle |-> {}]
  BY DEF Init
<1>2. PagesTo(1) = {2} /\ 2 \in DataNos
  BY Constants DEF PagesTo, DataNos
<1>3. page[2].next = Nil
  BY <1>1, <1>2 DEF EmptyPage
<1>4. \A h \in Handle : handle[h] = Closed /\ due[h] = {}
  BY <1>1
<1>5. Linked
  BY <1>1, <1>2, <1>3, <1>4 DEF Linked, Closed, Handle
<1>6. Scanning
  BY <1>4 DEF Scanning, Owes, Closed
<1> QED
  BY <1>5, <1>6 DEF ScanInv

LEMMA ConstructScanInv == ASSUME IInv, ScanInv, NEW h \in Handle, Construct(h) PROVE ScanInv'
<1>1. PICK p : p = FirstPinned(h)
  OBVIOUS
<1>2. PICK o : o = [Closed EXCEPT !.open = TRUE, !.curPage = TRUE, !.curPageNo = p]
  OBVIOUS
<1>3. PICK d : d = IF h \in Scanner THEN Records ELSE {}
  OBVIOUS
<1>4. /\ handle' = [handle EXCEPT ![h] = o] /\ due' = [due EXCEPT ![h] = d]
      /\ UNCHANGED <<hdr, page>>
  BY <1>1, <1>2, <1>3 DEF Construct
<1>5. /\ hdr.firstPage = 2 /\ hdr.lastPage = hdr.pageCnt + 1
      /\ PagesTo(hdr.pageCnt) \subseteq DataNos /\ 2 \in PagesTo(hdr.pageCnt)
      /\ hdr.pageCnt + 1 \in PagesTo(hdr.pageCnt)
  BY Facts
<1>6. p \in DataNos /\ (h \in Inserter => p = hdr.pageCnt + 1) /\ (h \in Scanner => p = 2)
  BY <1>1, <1>5, HeapFileAssumption DEF FirstPinned
<1>7. /\ o \in HandleRec /\ o.curPage /\ o.curPageNo = p /\ o.curRec = Nil /\ o.status = "opened"
      /\ o.filter = NoVal
  BY <1>2, <1>6 DEF HandleRec, Closed, Statuses
<1>8. \A r \in d : Wanted(page, r, NoVal)
  BY <1>3 DEF Records, Wanted, matchRec
<1>9. Owes(h, o, d)
  <2>1. ASSUME NEW r \in d PROVE IsAhead(r, p, Nil)
    <3>1. h \in Scanner /\ r \in AllRids
      BY <1>3 DEF Records
    <3> QED
      BY <1>6, <3>1, AllAhead
  <2> QED
    BY <1>3, <1>6, <1>7, <2>1 DEF Owes
<1> QED
  BY <1>4, <1>6, <1>7, <1>8, <1>9, MovesKeep

LEMMA DestroyScanInv == ASSUME IInv, ScanInv, NEW h \in Handle, Destroy(h) PROVE ScanInv'
<1>1. /\ handle' = [handle EXCEPT ![h] = Closed] /\ due' = [due EXCEPT ![h] = {}]
      /\ UNCHANGED <<hdr, page>>
  BY DEF Destroy
<1>2. Closed \in HandleRec /\ ~Closed.open
  BY DEF Closed, HandleRec, Statuses
<1>3. Owes(h, Closed, {})
  BY DEF Owes, Closed
<1>4. PICK o, d : o = Closed /\ d = {}
  OBVIOUS
<1>5. /\ handle' = [handle EXCEPT ![h] = o] /\ due' = [due EXCEPT ![h] = d]
      /\ UNCHANGED <<hdr, page>> /\ Owes(h, o, d) /\ o \in HandleRec /\ ~o.open
  BY <1>1, <1>2, <1>3, <1>4
<1>6. \A r \in d : Wanted(page, r, o.filter)
  BY <1>4
<1> QED
  BY <1>5, <1>6, MovesKeep

LEMMA getRecordScanInv ==
  ASSUME IInv, ScanInv, NEW h \in Reader, NEW p \in DataNos, getRecord(h, p) PROVE ScanInv'
<1>0. h \in Handle /\ h \notin Inserter /\ h \notin Scanner
  BY HeapFileAssumption DEF Handle
<1>1. PICK c : c = handle[h]
  OBVIOUS
<1>2. PICK moves \in BOOLEAN : moves = (~c.curPage \/ p # c.curPageNo)
  OBVIOUS
<1>3. PICK o : o = [c EXCEPT !.curPage = TRUE, !.curPageNo = p,
                             !.curDirty = IF moves THEN FALSE ELSE c.curDirty]
  OBVIOUS
<1>4. handle' = [handle EXCEPT ![h] = o] /\ UNCHANGED <<hdr, page, due>>
  BY <1>1, <1>2, <1>3 DEF getRecord
<1>5. c \in HandleRec /\ due \in [Handle -> SUBSET AllRids]
  BY <1>0, <1>1, Facts
<1>6. o \in HandleRec /\ o.status = c.status /\ o.filter = c.filter
  BY <1>3, <1>5, ZenonT(60) DEF HandleRec
<1>7. due[h] = {} /\ due' = [due EXCEPT ![h] = due[h]]
  BY <1>0, <1>4, <1>5 DEF ScanInv, Scanning, Owes
<1>8. Owes(h, o, due[h])
  BY <1>0, <1>7 DEF Owes
<1> QED
  BY <1>0, <1>4, <1>6, <1>7, <1>8, MovesKeep

LEMMA startScanScanInv ==
  ASSUME IInv, ScanInv, NEW h \in Scanner, NEW f \in Filter, startScan(h, f) PROVE ScanInv'
<1>0. h \in Handle /\ h \notin Inserter
  BY HeapFileAssumption DEF Handle
<1>1. PICK c : c = handle[h]
  OBVIOUS
<1>2. PICK o, d : o = [c EXCEPT !.filter = f] /\ d = Matching(f)
  OBVIOUS
<1>3. /\ c \in HandleRec /\ f \in Val \cup {NoVal} /\ Owes(h, c, due[h])
      /\ handle \in [Handle -> HandleRec]
  BY <1>0, <1>1, Facts, HeapFileAssumption DEF ScanInv, Scanning
<1>4. /\ handle' = [handle EXCEPT ![h] = o] /\ due' = [due EXCEPT ![h] = d]
      /\ UNCHANGED <<hdr, page>> /\ c.open /\ c.status \in {"opened", "ended"}
  BY <1>0, <1>1, <1>2, <1>3 DEF startScan, Open, pool, HandleRec
<1>5. /\ o \in HandleRec /\ o.curPage = c.curPage /\ o.curPageNo = c.curPageNo
      /\ o.curRec = c.curRec /\ o.status = c.status /\ o.open = c.open /\ o.filter = f
  BY <1>2, <1>3 DEF HandleRec
<1>6. \A r \in d : Wanted(page, r, f)
  BY <1>2, MatchingWanted
<1>7. Owes(h, o, d)
  <2>1. \A r \in d : r \in AllRids
    BY <1>6 DEF Wanted
  <2>2. CASE c.status = "opened"
    BY <1>3, <1>4, <1>5, <2>1, <2>2, AllAhead DEF Owes
  <2>3. CASE c.status = "ended"
    BY <1>3, <1>4, <1>5, <2>3 DEF Owes
  <2> QED
    BY <1>4, <2>2, <2>3
<1> QED
  BY <1>0, <1>4, <1>5, <1>6, <1>7, MovesKeep

LEMMA endScanScanInv == ASSUME IInv, ScanInv, NEW h \in Scanner, endScan(h) PROVE ScanInv'
<1>0. h \in Handle /\ h \notin Inserter
  BY HeapFileAssumption DEF Handle
<1>1. PICK c : c = handle[h]
  OBVIOUS
<1>2. PICK o, d : o = Ended(c) /\ d = Matching(c.filter)
  OBVIOUS
<1>3. /\ handle' = [handle EXCEPT ![h] = o] /\ due' = [due EXCEPT ![h] = d]
      /\ UNCHANGED <<hdr, page>>
  BY <1>1, <1>2 DEF endScan
<1>4. c \in HandleRec
  BY <1>0, <1>1, Facts
<1>5. o \in HandleRec /\ ~o.curPage /\ o.status = "ended" /\ o.filter = c.filter
  BY <1>2, <1>4 DEF HandleRec, Ended, Statuses
<1>6. \A r \in d : Wanted(page, r, o.filter)
  BY <1>2, <1>5, MatchingWanted
<1>7. Owes(h, o, d)
  BY <1>5 DEF Owes
<1> QED
  BY <1>0, <1>3, <1>5, <1>6, <1>7, MovesKeep

LEMMA markScanScanInv == ASSUME IInv, ScanInv, NEW h \in Scanner, markScan(h) PROVE ScanInv'
<1>0. h \in Handle /\ h \notin Inserter
  BY HeapFileAssumption DEF Handle
<1>1. PICK c : c = handle[h]
  OBVIOUS
<1>2. PICK o, d : o = [c EXCEPT !.markedPageNo = c.curPageNo, !.markedRec = c.curRec]
                  /\ d = due[h]
  OBVIOUS
<1>3. /\ c \in HandleRec /\ due \in [Handle -> SUBSET AllRids] /\ Owes(h, c, d)
      /\ Placed(h, c, hdr.pageCnt) /\ PagesTo(hdr.pageCnt) \subseteq DataNos
      /\ \A r \in d : Wanted(page, r, c.filter)
  BY <1>0, <1>1, <1>2, Facts DEF ScanInv, Scanning
<1>4. /\ handle' = [handle EXCEPT ![h] = o] /\ due' = [due EXCEPT ![h] = d]
      /\ UNCHANGED <<hdr, page>> /\ c.curPage
  BY <1>0, <1>1, <1>2, <1>3 DEF markScan, pool
<1>5. /\ o \in HandleRec /\ o.curPage = c.curPage /\ o.curPageNo = c.curPageNo
      /\ o.curRec = c.curRec /\ o.status = c.status /\ o.open = c.open /\ o.filter = c.filter
  BY <1>2, <1>3, <1>4 DEF HandleRec, Placed
<1>6. Owes(h, o, d)
  BY <1>3, <1>5 DEF Owes
<1>7. \A r \in d : Wanted(page, r, o.filter)
  BY <1>3, <1>5
<1> QED
  BY <1>0, <1>4, <1>5, <1>6, <1>7, MovesKeep

LEMMA resetScanScanInv == ASSUME IInv, ScanInv, NEW h \in Scanner, resetScan(h) PROVE ScanInv'
<1>0. h \in Handle /\ h \notin Inserter
  BY HeapFileAssumption DEF Handle
<1>1. PICK c : c = handle[h]
  OBVIOUS
<1>2. PICK moves \in BOOLEAN : moves = (c.markedPageNo # c.curPageNo)
  OBVIOUS
<1>3. PICK p, s : p = c.markedPageNo /\ s = c.markedRec
  OBVIOUS
<1>4. PICK o, d : /\ o = [c EXCEPT !.curPage = TRUE, !.curPageNo = p, !.curRec = s,
                                   !.status = "reset",
                                   !.curDirty = IF moves THEN FALSE ELSE c.curDirty]
                  /\ d = Matching(c.filter) \cap Behind(p, s)
  OBVIOUS
<1>5. /\ c.open /\ p # Nil /\ handle' = [handle EXCEPT ![h] = o]
      /\ due' = [due EXCEPT ![h] = d] /\ UNCHANGED <<hdr, page>>
  BY <1>1, <1>2, <1>3, <1>4 DEF resetScan, Open
<1>6. /\ c \in HandleRec /\ Placed(h, c, hdr.pageCnt)
      /\ PagesTo(hdr.pageCnt) \subseteq DataNos
  BY <1>0, <1>1, Facts
<1>7. p \in PagesTo(hdr.pageCnt) /\ p \in DataNos /\ s \in Slots \cup {Nil}
  BY <1>3, <1>5, <1>6 DEF Placed, HandleRec
<1>8. /\ o \in HandleRec /\ o.curPageNo = p /\ o.curRec = s /\ o.status = "reset"
      /\ o.filter = c.filter
  BY <1>4, <1>6, <1>7, ZenonT(60) DEF HandleRec, Statuses
<1>9. \A r \in d : Wanted(page, r, o.filter)
  BY <1>4, <1>8, MatchingWanted
<1>10. ASSUME NEW r \in d PROVE IsAhead(r, p, s)
  <2>1. PICK k \in 0 .. MaxPages : Walk(p)[k] = r.pageNo /\ (k = 0 => r.slotNo > s)
    BY <1>4 DEF Behind
  <2>2. Walk(p)[k] = IF p + k <= hdr.pageCnt + 1 THEN p + k ELSE Nil
    BY <1>0, <1>7, WalkIs DEF ScanInv
  <2>3. r.pageNo \in DataNos
    BY <1>9 DEF Wanted, AllRids
  <2>4. p \in Nat /\ k \in Nat /\ r.pageNo # Nil
    BY <1>7, <2>3, Constants
  <2>5. r.pageNo = p + k
    BY <2>1, <2>2, <2>4
  <2> QED
    BY <2>1, <2>4, <2>5 DEF IsAhead
<1>11. Owes(h, o, d)
  BY <1>8, <1>10 DEF Owes
<1> QED
  BY <1>0, <1>5, <1>8, <1>9, <1>11, MovesKeep

\* Where scanNext starts looking, with everything due ahead of it.
StartsAt(h, p, s) ==
  \/ handle[h].curPage /\ p = handle[h].curPageNo /\ s = handle[h].curRec
  \/ ~handle[h].curPage /\ p = hdr.firstPage /\ s = Nil

LEMMA DueAhead ==
  ASSUME IInv, ScanInv, NEW h \in Scanner, NEW p, NEW s, StartsAt(h, p, s)
  PROVE  /\ p \in PagesTo(hdr.pageCnt) /\ s \in Slots \cup {Nil} /\ s \in Int
         /\ \A r \in due[h] : IsAhead(r, p, s)
<1>0. h \in Handle
  BY DEF Handle
<1>1. PICK c : c = handle[h]
  OBVIOUS
<1>2. /\ c \in HandleRec /\ Placed(h, c, hdr.pageCnt) /\ hdr.firstPage = 2
      /\ 2 \in PagesTo(hdr.pageCnt) /\ Owes(h, c, due[h]) /\ due[h] \subseteq AllRids
  BY <1>0, <1>1, Facts DEF ScanInv, Scanning
<1>3. \A t \in Slots \cup {Nil} : t \in Int
  BY Constants DEF Nil
<1>4. CASE c.curPage
  <2>1. p = c.curPageNo /\ s = c.curRec
    BY <1>1, <1>4 DEF StartsAt
  <2>2. s \in Slots \cup {Nil}
    BY <1>2, <2>1 DEF HandleRec
  <2> QED
    BY <1>2, <1>3, <1>4, <2>1, <2>2 DEF Placed, Owes
<1>5. CASE ~c.curPage
  <2>1. p = 2 /\ s = Nil
    BY <1>1, <1>2, <1>5 DEF StartsAt
  <2> QED
    BY <1>2, <1>3, <2>1, AllAhead
<1> QED
  BY <1>4, <1>5

LEMMA scanFindsScanInv ==
  ASSUME IInv, ScanInv, NEW h \in Scanner, NEW p, NEW s, NEW k \in 0 .. MaxPages,
         StartsAt(h, p, s), scanFinds(h, p, s, k), UNCHANGED <<hdr, page>>
  PROVE  ScanInv'
<1>0. h \in Handle /\ h \notin Inserter
  BY HeapFileAssumption DEF Handle
<1>1. PICK c, n : c = handle[h] /\ n = hdr.pageCnt
  OBVIOUS
<1>2. PICK S, q, t : S = Hits(Walk(p), s, k, c.filter) /\ q = Walk(p)[k] /\ t = Min(S)
  OBVIOUS
<1>3. PICK dirty \in BOOLEAN : dirty = (c.curDirty /\ c.curPage /\ k = 0)
  OBVIOUS
<1>4. PICK o, d : /\ o = [c EXCEPT !.curPage = TRUE, !.curPageNo = q, !.curRec = t,
                                   !.curDirty = dirty, !.status = "OK"]
                  /\ d = due[h] \ {[pageNo |-> q, slotNo |-> t]}
  OBVIOUS
<1>5. /\ q # Nil /\ S # {} /\ \A j \in 0 .. k - 1 : Hits(Walk(p), s, j, c.filter) = {}
      /\ handle' = [handle EXCEPT ![h] = o] /\ due' = [due EXCEPT ![h] = d]
  BY <1>1, <1>2, <1>3, <1>4 DEF scanFinds
<1>6. /\ p \in PagesTo(n) /\ s \in Int /\ \A r \in due[h] : IsAhead(r, p, s)
      /\ c \in HandleRec /\ PagesTo(n) \subseteq DataNos /\ p \in Nat /\ k \in Nat
      /\ \A r \in due[h] : Wanted(page, r, c.filter)
  <2>1. p \in PagesTo(n) /\ s \in Int /\ \A r \in due[h] : IsAhead(r, p, s)
    BY <1>1, DueAhead
  <2>2. c \in HandleRec /\ PagesTo(n) \subseteq DataNos
    BY <1>0, <1>1, Facts
  <2>3. p \in Nat /\ k \in Nat
    <3>1. DataNos \subseteq Nat /\ MaxPages \in Nat
      BY Constants
    <3>2. p \in Nat
      <4>1. p \in DataNos
        BY <2>1, <2>2
      <4> QED
        BY <3>1, <4>1
    <3>3. k \in Nat
      BY <3>1
    <3> QED
      BY <3>2, <3>3
  <2>4. \A r \in due[h] : Wanted(page, r, c.filter)
    BY <1>0, <1>1 DEF ScanInv, Scanning
  <2> QED
    BY <2>1, <2>2, <2>3, <2>4
<1>7. q = p + k
  BY <1>0, <1>1, <1>2, <1>5, <1>6, WalkIs DEF ScanInv
<1>8. S \in SUBSET Slots
  BY <1>2 DEF Hits, Ahead, Used
<1>9. t \in S /\ t \in Slots /\ t \in Nat /\ \A y \in S : t <= y
  BY <1>2, <1>5, <1>8, SlotMin, Constants
<1>10. q \in DataNos
  BY <1>0, <1>1, <1>2, <1>5, <1>6, WalkInFile
<1>11. o \in HandleRec /\ o.curPageNo = q /\ o.curRec = t /\ o.status = "OK" /\ o.filter = c.filter
  BY <1>4, <1>6, <1>9, <1>10 DEF HandleRec, Statuses
<1>12. ASSUME NEW r \in d PROVE IsAhead(r, q, t)
  <2>1. r \in due[h] /\ r # [pageNo |-> q, slotNo |-> t] /\ r \in AllRids
    BY <1>4, <1>6 DEF Wanted
  <2>2. r.slotNo \in Nat /\ ~(r.pageNo = q /\ r.slotNo = t)
    BY <2>1, Constants DEF AllRids
  <2>3. PICK j \in 0 .. MaxPages : r.pageNo = p + j /\ r.slotNo \in Hits(Walk(p), s, j, c.filter)
    BY <1>0, <1>1, <1>6, <2>1, DueIsHit
  <2>4. j \in Nat
    BY <2>3, Constants
  <2>5. CASE j < k
    BY <1>5, <1>6, <2>3, <2>4, <2>5
  <2>6. CASE j = k
    <3>1. t <= r.slotNo /\ r.pageNo = q
      BY <1>2, <1>7, <1>9, <2>3, <2>6
    <3> QED
      BY <1>9, <2>2, <3>1 DEF IsAhead
  <2>7. CASE j > k
    BY <1>6, <1>7, <2>3, <2>4, <2>7 DEF IsAhead
  <2> QED
    BY <1>6, <2>4, <2>5, <2>6, <2>7
<1>13. Owes(h, o, d)
  BY <1>11, <1>12 DEF Owes
<1>14. \A r \in d : Wanted(page, r, o.filter)
  BY <1>4, <1>6, <1>11
<1> QED
  BY <1>0, <1>5, <1>11, <1>13, <1>14, MovesKeep

LEMMA scanEndsScanInv ==
  ASSUME IInv, ScanInv, IInv', NEW h \in Scanner, NEW p, NEW s, NEW k \in 0 .. MaxPages,
         StartsAt(h, p, s), scanEnds(h, p, s, k), UNCHANGED <<hdr, page>>
  PROVE  ScanInv'
<1>0. h \in Handle /\ h \notin Inserter
  BY HeapFileAssumption DEF Handle
<1>1. PICK c, n : c = handle[h] /\ n = hdr.pageCnt
  OBVIOUS
<1>2. PICK q : q = Walk(p)[k]
  OBVIOUS
<1>3. q # Nil /\ page[q].next = Nil /\ \A j \in 0 .. k : Hits(Walk(p), s, j, c.filter) = {}
  BY <1>1, <1>2 DEF scanEnds, LastPage
<1>4. /\ p \in PagesTo(n) /\ s \in Int /\ \A r \in due[h] : IsAhead(r, p, s)
      /\ PagesTo(n) \subseteq DataNos /\ p \in Nat /\ k \in Nat /\ n \in Nat
      /\ handle \in [Handle -> HandleRec] /\ due \in [Handle -> SUBSET AllRids]
  <2>1. p \in PagesTo(n) /\ s \in Int /\ \A r \in due[h] : IsAhead(r, p, s)
    BY <1>1, DueAhead
  <2>2. /\ PagesTo(n) \subseteq DataNos /\ n \in Nat /\ handle \in [Handle -> HandleRec]
        /\ due \in [Handle -> SUBSET AllRids]
    BY <1>0, <1>1, Facts
  <2>3. p \in Nat /\ k \in Nat
    <3>1. DataNos \subseteq Nat /\ MaxPages \in Nat
      BY Constants
    <3>2. p \in Nat
      <4>1. p \in DataNos
        BY <2>1, <2>2
      <4> QED
        BY <3>1, <4>1
    <3>3. k \in Nat
      BY <3>1
    <3> QED
      BY <3>2, <3>3
  <2> QED
    BY <2>1, <2>2, <2>3
<1>5. q = p + k /\ q \in PagesTo(n)
  BY <1>0, <1>1, <1>2, <1>3, <1>4, WalkIs, WalkInFile DEF ScanInv
<1>6. q = n + 1
  <2>1. page[q].next = IF q = n + 1 THEN Nil ELSE q + 1
    BY <1>1, <1>5 DEF ScanInv, Linked
  <2> QED
    BY <1>3, <1>4, <1>5, <2>1 DEF Nil
<1>7. due[h] = {}
  <2> SUFFICES ASSUME NEW r \in due[h] PROVE FALSE
    OBVIOUS
  <2>1. PICK j \in 0 .. MaxPages :
          r.pageNo = p + j /\ p + j <= n + 1 /\ r.slotNo \in Hits(Walk(p), s, j, c.filter)
    BY <1>0, <1>1, <1>4, DueIsHit
  <2>2. j \in 0 .. k
    BY <1>4, <1>5, <1>6, <2>1, Constants
  <2> QED
    BY <1>3, <2>1, <2>2
<1>8. PICK o : o = handle'[h]
  OBVIOUS
<1>9. o \in HandleRec
  BY <1>0, <1>8 DEF IInv, TypeOK, HandleRec, DataNos, Slots, Nil, Handle, Statuses
<1>10. /\ handle' = [handle EXCEPT ![h] = o] /\ due' = [due EXCEPT ![h] = {}]
       /\ o.status = "FILEEOF"
  BY <1>0, <1>4, <1>7, <1>8 DEF scanEnds, HandleRec
<1>11. Owes(h, o, {})
  BY <1>10 DEF Owes
<1>12. PICK d : d = {}
  OBVIOUS
<1>13. due' = [due EXCEPT ![h] = d] /\ Owes(h, o, d) /\ \A r \in d : Wanted(page, r, o.filter)
  BY <1>10, <1>11, <1>12
<1> QED
  BY <1>0, <1>9, <1>10, <1>13, MovesKeep

LEMMA scanNextScanInv ==
  ASSUME IInv, ScanInv, IInv', NEW h \in Scanner, scanNext(h) PROVE ScanInv'
<1>0. h \in Handle /\ h \notin Inserter
  BY HeapFileAssumption DEF Handle
<1>1. PICK c, d : c = handle[h] /\ d = due[h]
  OBVIOUS
<1>2. UNCHANGED <<hdr, page>>
  BY DEF scanNext
<1>3. /\ c \in HandleRec /\ Placed(h, c, hdr.pageCnt) /\ due \in [Handle -> SUBSET AllRids]
      /\ handle \in [Handle -> HandleRec] /\ Owes(h, c, d)
      /\ PagesTo(hdr.pageCnt) \subseteq DataNos /\ \A r \in d : Wanted(page, r, c.filter)
  BY <1>0, <1>1, Facts DEF ScanInv, Scanning
<1>4. CASE scanAtEof(h)
  <2>1. PICK o : o = [c EXCEPT !.status = "FILEEOF"]
    OBVIOUS
  <2>2. /\ handle' = [handle EXCEPT ![h] = o] /\ due' = [due EXCEPT ![h] = d]
        /\ c.curPageNo < 0
    BY <1>0, <1>1, <1>3, <1>4, <2>1 DEF scanAtEof
  <2>3. /\ o \in HandleRec /\ o.curPage = c.curPage /\ o.curPageNo = c.curPageNo
        /\ o.curRec = c.curRec /\ o.status = "FILEEOF" /\ o.filter = c.filter
    BY <1>3, <2>1 DEF HandleRec, Statuses
  <2>4. c.curPageNo = Nil
    <3>1. c.curPageNo \in DataNos \cup {0, Nil}
      BY <1>3 DEF HandleRec
    <3>2. c.curPageNo \notin DataNos
      <4>1. DataNos \subseteq Nat
        BY Constants
      <4>2. \A x \in DataNos : ~(x < 0)
        BY <4>1
      <4> QED
        BY <2>2, <4>2
    <3> QED
      BY <2>2, <3>1, <3>2
  <2>5. Owes(h, o, d)
    BY <1>3, <2>3, <2>4 DEF Owes
  <2>6. \A r \in d : Wanted(page, r, o.filter)
    BY <1>3, <2>3
  <2> QED
    BY <1>0, <1>2, <2>2, <2>3, <2>5, <2>6, MovesKeep
<1>5. CASE scanRestartsEmpty(h)
  <2>1. PICK o : o = [c EXCEPT !.curPageNo = Nil, !.status = "FILEEOF",
                               !.curRec = Nil, !.curDirty = FALSE]
    OBVIOUS
  <2>2. handle' = [handle EXCEPT ![h] = o] /\ due' = [due EXCEPT ![h] = d] /\ ~c.curPage
    BY <1>0, <1>1, <1>3, <1>5, <2>1 DEF scanRestartsEmpty
  <2>3. /\ o \in HandleRec /\ o.curPage = c.curPage /\ o.curPageNo = Nil
        /\ o.status = "FILEEOF" /\ o.filter = c.filter
    BY <1>3, <2>1 DEF HandleRec, Statuses
  <2>4. Owes(h, o, d)
    BY <1>3, <2>2, <2>3 DEF Owes
  <2>5. \A r \in d : Wanted(page, r, o.filter)
    BY <1>3, <2>3
  <2> QED
    BY <1>0, <1>2, <2>2, <2>3, <2>4, <2>5, MovesKeep
<1>6. ASSUME NEW k \in 0 .. MaxPages, NEW p, NEW s, StartsAt(h, p, s),
             scanFinds(h, p, s, k) \/ scanEnds(h, p, s, k)
      PROVE  ScanInv'
  BY <1>2, <1>6, scanFindsScanInv, scanEndsScanInv
<1>7. ASSUME NEW k \in 0 .. MaxPages, c.curPage,
             scanFinds(h, c.curPageNo, c.curRec, k) \/ scanEnds(h, c.curPageNo, c.curRec, k)
      PROVE  ScanInv'
  <2>1. StartsAt(h, c.curPageNo, c.curRec)
    BY <1>1, <1>7 DEF StartsAt
  <2> QED
    BY <1>6, <1>7, <2>1
<1>8. ASSUME NEW k \in 0 .. MaxPages, ~c.curPage,
             scanFinds(h, hdr.firstPage, Nil, k) \/ scanEnds(h, hdr.firstPage, Nil, k)
      PROVE  ScanInv'
  <2>1. StartsAt(h, hdr.firstPage, Nil)
    BY <1>1, <1>8 DEF StartsAt
  <2> QED
    BY <1>6, <1>8, <2>1
<1> QED
  BY <1>1, <1>4, <1>5, <1>7, <1>8 DEF scanNext

\* What writing a slot does to the records that a scan wants.
LEMMA WantedStays ==
  ASSUME IInv, NEW p \in DataNos, NEW s \in Slots, NEW v \in Val \cup {NoVal}, Gives(p, s, v),
         NEW r, NEW f, Wanted(page, r, f),
         r # [pageNo |-> p, slotNo |-> s] \/ (v # NoVal /\ matchRec(f, v))
  PROVE  Wanted(page', r, f)
<1>1. \A q \in DataNos, t \in Slots :
        page'[q].rec[t] = IF q = p /\ t = s THEN v ELSE page[q].rec[t]
  BY SlotWritten
<1>2. PICK q \in DataNos, t \in Slots : r = [pageNo |-> q, slotNo |-> t]
  BY DEF Wanted, AllRids
<1>3. r.pageNo = q /\ r.slotNo = t /\ r \in AllRids
  BY <1>2 DEF Wanted
<1>4. page[q].rec[t] # NoVal /\ matchRec(f, page[q].rec[t])
  BY <1>3 DEF Wanted
<1>5. page'[q].rec[t] # NoVal /\ matchRec(f, page'[q].rec[t])
  BY <1>1, <1>2, <1>4
<1> QED
  BY <1>3, <1>5 DEF Wanted

LEMMA deleteRecordScanInv == ASSUME IInv, ScanInv, NEW h \in Scanner, deleteRecord(h) PROVE ScanInv'
<1>0. h \in Handle /\ h \notin Inserter
  BY HeapFileAssumption DEF Handle
<1>1. PICK c : c = handle[h]
  OBVIOUS
<1>2. PICK r : r = [pageNo |-> c.curPageNo, slotNo |-> c.curRec]
  OBVIOUS
<1>3. PICK o : o = [c EXCEPT !.curDirty = TRUE, !.hdrDirty = TRUE,
                             !.status = IF r \in Records THEN "deleted" ELSE "INVALIDSLOTNO"]
  OBVIOUS
<1>4. /\ page' = IF r \in Records THEN [page EXCEPT ![r.pageNo].rec[r.slotNo] = NoVal] ELSE page
      /\ hdr' = hdrCounted /\ handle' = [handle EXCEPT ![h] = o]
      /\ due' = [g \in Handle |-> due[g] \ {r}]
  BY <1>1, <1>2, <1>3 DEF deleteRecord
<1>5. /\ c \in HandleRec /\ Owes(h, c, due[h])
      /\ \A g \in Handle : \A x \in due[g] : Wanted(page, x, handle[g].filter)
  BY <1>0, <1>1, Facts DEF ScanInv, Scanning
<1>6. /\ o \in HandleRec /\ o.curPage = c.curPage /\ o.curPageNo = c.curPageNo
      /\ o.curRec = c.curRec /\ o.filter = c.filter /\ o.status \in {"deleted", "INVALIDSLOTNO"}
  BY <1>3, <1>5 DEF HandleRec, Statuses
<1>7. hdr'.pageCnt = hdr.pageCnt
  BY <1>4 DEF IInv, TypeOK, hdrCounted
<1>8. \A g \in Handle : due'[g] \subseteq due[g] /\ r \notin due'[g]
  BY <1>4
<1>9. /\ \A q \in DataNos : page'[q].next = page[q].next
      /\ \A x, f : Wanted(page, x, f) /\ x # r => Wanted(page', x, f)
  <2>1. CASE r \in Records
    <3>1. PICK p \in DataNos, s \in Slots : r = [pageNo |-> p, slotNo |-> s]
      BY <2>1 DEF Records, AllRids
    <3>2. PICK v \in Val \cup {NoVal} : Gives(p, s, v)
      BY <1>4, <2>1, <3>1 DEF Gives
    <3>3. \A q \in DataNos : page'[q].next = page[q].next
      BY <3>2, SlotWritten
    <3> QED
      BY <3>1, <3>2, <3>3, WantedStays
  <2>2. CASE r \notin Records
    BY <1>4, <2>2
  <2> QED
    BY <2>1, <2>2
<1>10. \A g \in Handle : \A x \in due'[g] : Wanted(page', x, handle[g].filter)
  BY <1>5, <1>8, <1>9
<1>11. \A x \in due'[h] : Wanted(page', x, o.filter)
  BY <1>0, <1>1, <1>6, <1>10
<1>12. Owes(h, o, due'[h])
  <2>1. Owes(h, c, due'[h])
    BY <1>0, <1>5, <1>8, OwesLess
  <2> QED
    BY <1>6, <2>1 DEF Owes
<1> QED
  BY <1>0, <1>4, <1>6, <1>7, <1>8, <1>9, <1>10, <1>11, <1>12, StepsKeep

LEMMA updateRecordScanInv ==
  ASSUME IInv, ScanInv, NEW h \in Scanner, NEW v \in Val, updateRecord(h, v) PROVE ScanInv'
<1>0. h \in Handle /\ h \notin Inserter /\ v # NoVal
  BY HeapFileAssumption DEF Handle
<1>1. PICK c : c = handle[h]
  OBVIOUS
<1>2. PICK r : r = [pageNo |-> c.curPageNo, slotNo |-> c.curRec]
  OBVIOUS
<1>3. PICK o : o = [c EXCEPT !.curDirty = TRUE]
  OBVIOUS
<1>4. /\ r \in Records /\ page' = [page EXCEPT ![r.pageNo].rec[r.slotNo] = v]
      /\ handle' = [handle EXCEPT ![h] = o] /\ hdr' = hdr
      /\ due' = [g \in Handle |-> IF matchRec(handle[g].filter, v) THEN due[g] ELSE due[g] \ {r}]
  BY <1>1, <1>2, <1>3 DEF updateRecord
<1>5. /\ c \in HandleRec /\ Owes(h, c, due[h])
      /\ \A g \in Handle : \A x \in due[g] : Wanted(page, x, handle[g].filter)
  BY <1>0, <1>1, Facts DEF ScanInv, Scanning
<1>6. /\ o \in HandleRec /\ o.curPage = c.curPage /\ o.curPageNo = c.curPageNo /\ o.open = c.open
      /\ o.curRec = c.curRec /\ o.filter = c.filter /\ o.status = c.status
  BY <1>3, <1>5 DEF HandleRec
<1>7. hdr'.pageCnt = hdr.pageCnt
  BY <1>4
<1>8. \A g \in Handle : /\ due'[g] \subseteq due[g]
                        /\ r \notin due'[g] \/ matchRec(handle[g].filter, v)
  BY <1>4
<1>9. PICK p \in DataNos, s \in Slots : r = [pageNo |-> p, slotNo |-> s]
  BY <1>4 DEF Records, AllRids
<1>10. PICK w \in Val \cup {NoVal} : w = v /\ Gives(p, s, w)
  BY <1>4, <1>9 DEF Gives
<1>11. \A q \in DataNos : page'[q].next = page[q].next
  BY <1>10, SlotWritten
<1>12. ASSUME NEW g \in Handle, NEW x \in due'[g] PROVE Wanted(page', x, handle[g].filter)
  <2>1. Wanted(page, x, handle[g].filter) /\ (x # r \/ matchRec(handle[g].filter, w))
    BY <1>5, <1>8, <1>10
  <2> QED
    BY <1>0, <1>9, <1>10, <2>1, WantedStays
<1>13. \A x \in due'[h] : Wanted(page', x, o.filter)
  BY <1>0, <1>1, <1>6, <1>12
<1>14. Owes(h, o, due'[h])
  <2>1. Owes(h, c, due'[h])
    BY <1>0, <1>5, <1>8, OwesLess
  <2> QED
    BY <1>6, <2>1 DEF Owes
<1> QED
  BY <1>0, <1>4, <1>6, <1>7, <1>8, <1>11, <1>12, <1>13, <1>14, StepsKeep

LEMMA insertHereScanInv ==
  ASSUME IInv, ScanInv, NEW h \in Inserter, NEW v \in Val, NEW len \in Lens, Open(h),
         insertHere(h, v, len)
  PROVE  ScanInv'
<1>0. h \in Handle /\ h \notin Scanner /\ v # NoVal /\ len \in Nat
  BY HeapFileAssumption DEF Handle
<1>1. PICK c : c = handle[h]
  OBVIOUS
<1>2. PICK p, s : p = c.curPageNo /\ s = FreeSlot(p)
  OBVIOUS
<1>3. PICK o : o = [c EXCEPT !.curDirty = TRUE, !.hdrDirty = TRUE]
  OBVIOUS
<1>4. /\ c \in HandleRec /\ Placed(h, c, hdr.pageCnt) /\ PagesTo(hdr.pageCnt) \subseteq DataNos
      /\ handle \in [Handle -> HandleRec]
  BY <1>0, <1>1, Facts
<1>5. /\ Fits(p, len) /\ page' = [page EXCEPT ![p].rec[s] = v]
      /\ hdr' = [hdr EXCEPT !.recCnt = @ + 1] /\ due' = due
  BY <1>1, <1>2 DEF insertHere
<1>6. handle' = [handle EXCEPT ![h] = o]
  BY <1>0, <1>1, <1>3, <1>4 DEF insertHere, HandleRec
<1>7. p \in DataNos
  BY <1>1, <1>2, <1>4 DEF Placed, Open
<1>8. o \in HandleRec /\ o.curPageNo = c.curPageNo /\ o.open = c.open
  BY <1>3, <1>4 DEF HandleRec
<1>9. o.curPageNo = hdr.pageCnt + 1
  BY <1>1, <1>8 DEF ScanInv, Linked, Open
<1>10. hdr'.pageCnt = hdr.pageCnt
  BY <1>5 DEF IInv, TypeOK
<1>11. s \in Slots /\ s \notin Used(p)
  BY <1>0, <1>2, <1>5, <1>7, SlotLeft
<1>12. PICK w \in Val \cup {NoVal} : Gives(p, s, w)
  BY <1>5 DEF Gives
<1>13. \A q \in DataNos : page'[q].next = page[q].next
  BY <1>7, <1>11, <1>12, SlotWritten
<1>14. ASSUME NEW x, NEW f, Wanted(page, x, f) PROVE Wanted(page', x, f)
  <2>1. x # [pageNo |-> p, slotNo |-> s]
    BY <1>11, <1>14 DEF Wanted, Used
  <2> QED
    BY <1>7, <1>11, <1>12, <1>14, <2>1, WantedStays
<1>15. \A g \in Handle : \A x \in due'[g] : Wanted(page', x, handle[g].filter)
  BY <1>5, <1>14 DEF ScanInv, Scanning
<1>16. due'[h] = {}
  BY <1>0, <1>5 DEF ScanInv, Scanning, Owes
<1>17. Owes(h, o, due'[h])
  BY <1>0, <1>16 DEF Owes
<1>18. /\ \A g \in Handle \ {h} : due'[g] \subseteq due[g]
       /\ \A x \in due'[h] : Wanted(page', x, o.filter)
  BY <1>5, <1>16
<1> QED
  BY <1>0, <1>6, <1>8, <1>9, <1>10, <1>13, <1>15, <1>17, <1>18, StepsKeep

LEMMA insertOnNewPageScanInv ==
  ASSUME OneInserter, IInv, ScanInv, NEW h \in Inserter, NEW v \in Val, NEW len \in Lens, Open(h),
         insertOnNewPage(h, v, len)
  PROVE  ScanInv'
<1>0. h \in Handle /\ h \notin Scanner
  BY HeapFileAssumption DEF Handle
<1>1. PICK c, n : c = handle[h] /\ n = hdr.pageCnt
  OBVIOUS
<1>2. PICK p, q : p = c.curPageNo /\ q = n + 2
  OBVIOUS
<1>3. PICK ok \in BOOLEAN : ok <=> FitsOn(0, 0, len)
  OBVIOUS
<1>4. PICK new : new = IF ok THEN [EmptyPage EXCEPT !.rec[0] = v] ELSE EmptyPage
  OBVIOUS
<1>5. PICK d \in BOOLEAN : d = (c.curDirty \/ ok)
  OBVIOUS
<1>6. PICK o : o = [c EXCEPT !.curPageNo = q, !.curDirty = d, !.hdrDirty = TRUE]
  OBVIOUS
<1>7. /\ q <= MaxPages /\ page' = [page EXCEPT ![p].next = q, ![q] = new]
      /\ hdr' = [hdr EXCEPT !.lastPage = q, !.pageCnt = n + 1,
                            !.recCnt = IF ok THEN hdr.recCnt + 1 ELSE hdr.recCnt]
      /\ handle' = [handle EXCEPT ![h] = o] /\ due' = due
  BY <1>1, <1>2, <1>3, <1>4, <1>5, <1>6 DEF insertOnNewPage, LinkedPage
<1>8. /\ c \in HandleRec /\ PagesTo(n) \subseteq DataNos /\ handle \in [Handle -> HandleRec]
      /\ n \in Nat /\ n >= 1 /\ n + 1 \in PagesTo(n)
  BY <1>0, <1>1, Facts
<1>9. p = n + 1 /\ p \in DataNos
  BY <1>1, <1>2, <1>8 DEF ScanInv, Linked, Open
<1>10. q \in DataNos /\ q # p /\ PagesTo(n + 1) = PagesTo(n) \cup {q} /\ q \notin PagesTo(n)
  BY <1>2, <1>7, <1>8, <1>9, HeapFileAssumption DEF PagesTo, DataNos
<1>11. new \in PageRec /\ new.next = Nil
  BY <1>4, Constants DEF PageRec, EmptyPage
<1>12. \A x \in DataNos : /\ page'[x].next = IF x = p THEN q ELSE IF x = q THEN Nil
                                             ELSE page[x].next
                          /\ page'[x].rec = IF x = q THEN new.rec ELSE page[x].rec
  <2>1. page \in [DataNos -> PageRec]
    BY DEF IInv, TypeOK, PageRec
  <2>2. /\ page' \in [DataNos -> PageRec]
        /\ \A x \in DataNos : /\ page'[x].next = IF x = p THEN q ELSE IF x = q THEN Nil
                                                 ELSE page[x].next
                              /\ page'[x].rec = IF x = q THEN new.rec ELSE page[x].rec
                              /\ x # p /\ x # q => page'[x] = page[x]
    <3>1. Joins(p, q, new)
      BY <1>7 DEF Joins
    <3> QED
      BY <1>9, <1>10, <1>11, <2>1, <3>1, PageLinked
  <2> QED
    BY <2>2
<1>13. /\ o \in HandleRec /\ o.curPageNo = q
       /\ \A g \in Handle : handle'[g] = IF g = h THEN o ELSE handle[g]
  BY <1>6, <1>7, <1>8, <1>10 DEF HandleRec
<1>14. hdr'.pageCnt = n + 1
  <2>1. hdr \in [firstPage : DataNos, lastPage : DataNos, pageCnt : 1 .. MaxPages - 1, recCnt : Int]
    BY DEF IInv, TypeOK
  <2> QED
    BY <1>7, <2>1
<1>15. Linked'
  <2>1. ASSUME NEW x \in PagesTo(n + 1)
        PROVE  page'[x].next = IF x = n + 2 THEN Nil ELSE x + 1
    <3>1. CASE x = q
      BY <1>2, <1>10, <1>12, <3>1
    <3>2. CASE x = p
      BY <1>2, <1>8, <1>9, <1>10, <1>12, <3>2
    <3>3. CASE x # q /\ x # p
      <4>1. x \in PagesTo(n) /\ x \in DataNos
        BY <1>8, <1>10, <3>3
      <4>2. page[x].next = x + 1
        BY <1>1, <1>9, <3>3, <4>1 DEF ScanInv, Linked
      <4> QED
        BY <1>2, <1>12, <3>3, <4>1, <4>2
    <3> QED
      BY <3>1, <3>2, <3>3
  <2>2. \A g \in Inserter : handle'[g].curPageNo = n + 2
    BY <1>0, <1>2, <1>13 DEF OneInserter
  <2>3. n + 2 = (n + 1) + 1
    BY <1>8
  <2> QED
    BY <1>14, <2>1, <2>2, <2>3 DEF Linked
<1>16. ASSUME NEW x, NEW f, Wanted(page, x, f) PROVE Wanted(page', x, f)
  <2>1. x \in AllRids /\ x.pageNo \in DataNos /\ x.slotNo \in Slots
    BY <1>16 DEF Wanted, AllRids
  <2>2. x.pageNo # q
    <3>1. page[q] = EmptyPage
      BY <1>1, <1>10 DEF IInv, Positions
    <3> QED
      BY <1>16, <2>1, <3>1 DEF Wanted, EmptyPage
  <2>3. page'[x.pageNo].rec = page[x.pageNo].rec
    BY <1>12, <2>1, <2>2
  <2> QED
    BY <1>16, <2>3 DEF Wanted
<1>17. ASSUME NEW g \in Handle
       PROVE  (\A x \in due'[g] : Wanted(page', x, handle'[g].filter)) /\ Owes(g, handle'[g], due'[g])
  <2>1. due'[g] = due[g] /\ (\A x \in due[g] : Wanted(page, x, handle[g].filter))
        /\ Owes(g, handle[g], due[g])
    BY <1>7 DEF ScanInv, Scanning
  <2>2. CASE g = h
    <3>1. due[g] = {}
      BY <1>0, <2>1, <2>2 DEF Owes
    <3> QED
      BY <1>0, <2>1, <2>2, <3>1 DEF Owes
  <2>3. CASE g # h
    <3>1. handle'[g] = handle[g]
      BY <1>13, <2>3
    <3> QED
      BY <1>16, <2>1, <3>1
  <2> QED
    BY <2>2, <2>3
<1>18. Scanning'
  BY <1>17 DEF Scanning, Wanted, Owes, IsAhead, matchRec, AllRids, Nil, Slots, DataNos
<1> QED
  BY <1>15, <1>18 DEF ScanInv

LEMMA NextScanInv == OneInserter /\ IInv /\ ScanInv /\ [Next]_vars => ScanInv'
<1> SUFFICES ASSUME OneInserter, IInv, ScanInv, [Next]_vars PROVE ScanInv'
  OBVIOUS
<1>0. IInv'
  BY NextIInv
<1>1. ASSUME UNCHANGED vars PROVE ScanInv'
  BY <1>1 DEF ScanInv, Linked, Scanning, vars
<1>2. ASSUME NEW h \in Handle, Construct(h) \/ Destroy(h) PROVE ScanInv'
  BY <1>2, ConstructScanInv, DestroyScanInv
<1>3. ASSUME NEW h \in Reader, NEW p \in DataNos, getRecord(h, p) PROVE ScanInv'
  BY <1>3, getRecordScanInv
<1>4. ASSUME NEW h \in Scanner, NEW f \in Filter, startScan(h, f) PROVE ScanInv'
  BY <1>4, startScanScanInv
<1>5. ASSUME NEW h \in Scanner,
             endScan(h) \/ markScan(h) \/ resetScan(h) \/ scanNext(h) \/ deleteRecord(h)
      PROVE  ScanInv'
  BY <1>0, <1>5, endScanScanInv, markScanScanInv, resetScanScanInv, scanNextScanInv,
     deleteRecordScanInv
<1>6. ASSUME NEW h \in Scanner, NEW v \in Val, updateRecord(h, v) PROVE ScanInv'
  BY <1>6, updateRecordScanInv
<1>7. ASSUME NEW h \in Inserter, NEW v \in Val, NEW len \in Lens, insertRecord(h, v, len)
      PROVE  ScanInv'
  BY <1>1, <1>7, insertHereScanInv, insertOnNewPageScanInv DEF insertRecord, insertRejected
<1> QED
  BY <1>1, <1>2, <1>3, <1>4, <1>5, <1>6, <1>7 DEF Next

-----------------------------------------------------------------------------
(***************************************************************************)
(* What holds in every reachable state when at most one object inserts.    *)
(***************************************************************************)
\* Beside at most one InsertFileScan, the inductive invariant of scans holds always.
THEOREM ScanInvariant == Spec => [](OneInserter => ScanInv)
<1>1. Init => (OneInserter => ScanInv)
  BY InitScanInv
<1>2. IInv /\ (OneInserter => ScanInv) /\ [Next]_vars => (OneInserter => ScanInv)'
  BY NextScanInv
<1> QED
  BY <1>1, <1>2, Invariant, PTL DEF Spec

LEMMA ChainOfLinks == ASSUME IInv, ScanInv PROVE ChainComplete
<1>1. PICK n : n = hdr.pageCnt
  OBVIOUS
<1>2. /\ n \in Nat /\ n >= 1 /\ n + 1 <= MaxPages /\ hdr.firstPage = 2 /\ hdr.lastPage = n + 1
      /\ 2 \in PagesTo(n) /\ n + 1 \in PagesTo(n)
  BY <1>1, FileFacts
<1>3. \A k \in 0 .. MaxPages : Walk(2)[k] = IF 2 + k <= n + 1 THEN 2 + k ELSE Nil
  BY <1>1, <1>2, WalkIs DEF ScanInv
<1>4. MaxPages \in Nat
  BY Constants
<1>5. ASSUME NEW x PROVE x \in {Walk(2)[k] : k \in 0 .. MaxPages} \ {Nil} <=> x \in 2 .. n + 1
  <2>1. ASSUME x \in 2 .. n + 1 PROVE x \in {Walk(2)[k] : k \in 0 .. MaxPages} \ {Nil}
    <3>1. PICK k : k = x - 2
      OBVIOUS
    <3>2. k \in 0 .. MaxPages /\ 2 + k <= n + 1 /\ x = 2 + k /\ x # Nil
      BY <1>2, <1>4, <2>1, <3>1 DEF Nil
    <3>3. Walk(2)[k] = x
      BY <1>3, <3>2
    <3> QED
      BY <3>2, <3>3
  <2>2. ASSUME x \in {Walk(2)[k] : k \in 0 .. MaxPages} \ {Nil} PROVE x \in 2 .. n + 1
    <3>1. PICK k \in 0 .. MaxPages : x = Walk(2)[k] /\ x # Nil
      BY <2>2
    <3>2. x = 2 + k /\ 2 + k <= n + 1
      BY <1>3, <3>1
    <3> QED
      BY <1>2, <1>4, <3>2
  <2> QED
    BY <2>1, <2>2
<1>6. page[n + 1].next = Nil
  BY <1>1, <1>2 DEF ScanInv, Linked
<1>7. {Walk(2)[k] : k \in 0 .. MaxPages} \ {Nil} = 2 .. n + 1
  BY <1>5
<1> QED
  BY <1>1, <1>2, <1>6, <1>7 DEF ChainComplete

\* Beside at most one InsertFileScan, the links lead from firstPage through
\* every page of the file to lastPage, whatever was inserted.
THEOREM ChainCompleteAlways == Spec => [](OneInserter => ChainComplete)
<1>1. IInv /\ (OneInserter => ScanInv) => (OneInserter => ChainComplete)
  BY ChainOfLinks
<1> QED
  BY <1>1, Invariant, ScanInvariant, PTL

\* Beside at most one InsertFileScan, a scan that reaches FILEEOF has returned
\* every record that matched its filter from its start or mark to its end.
THEOREM ScanCompleteAlways == Spec => [](OneInserter => ScanComplete)
<1>1. (OneInserter => ScanInv) => (OneInserter => ScanComplete)
  BY DEF ScanInv, Scanning, Owes, ScanComplete
<1> QED
  BY <1>1, ScanInvariant, PTL
=============================================================================
