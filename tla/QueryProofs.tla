---------------------------- MODULE QueryProofs ----------------------------
(***************************************************************************)
(* Proofs about Query, for every catalog, pair of relations, projection    *)
(* list, hash function, number of chains and of partitions: what the       *)
(* catalog lookups, the nested loops join, the join hash table and         *)
(* Partition return is exact.                                              *)
(***************************************************************************)
EXTENDS Query, FiniteSetTheorems, WellFoundedInduction, TLAPS

\* No two slots of attrcat hold the same tuple, and nothing is left of an earlier
\* call when a call is made.
DataOK ==
  /\ attrcat \in [Slot -> Tuple \cup {NoTuple}]
  /\ \A s, x \in Slot : attrcat[s] = attrcat[x] /\ attrcat[s] # NoTuple => s = x
  /\ rel \in [Rel -> Seq(KeyVal)] /\ \A r \in Rel : Len(rel[r]) <= MaxRecs
  /\ status = "idle" => call = NoCall /\ ht = EmptyTable

-----------------------------------------------------------------------------
(***************************************************************************)
(* Numbers and sets.                                                       *)
(***************************************************************************)
\* A non-empty set of naturals has a least element.
LEMMA Least ==
  ASSUME NEW S \in SUBSET Nat, S # {}
  PROVE  \E m \in S : \A y \in S : m <= y
<1>1. PICK m \in S : \A y \in S : <<y, m>> \notin OpToRel(<, Nat)
  BY NatLessThanWellFounded, WFMin
<1>2. \A y \in S : ~(y < m)
  BY <1>1 DEF OpToRel
<1> QED
  BY <1>2

LEMMA MinIsLeast ==
  ASSUME NEW S \in SUBSET Nat, S # {}
  PROVE  Min(S) \in S /\ \A y \in S : Min(S) <= y
<1>1. \E m \in S : \A y \in S : m <= y
  BY Least
<1> QED
  BY <1>1 DEF Min

\* The catalog is finite.
LEMMA FiniteTuples ==
  /\ IsFiniteSet(Tuple) /\ Cardinality(Tuple) \in Nat
  /\ Slot \subseteq Nat \ {0} /\ IsFiniteSet(Slot) /\ Cardinality(Slot) = Cardinality(Tuple)
<1> DEFINE a == [rel |-> "R", attr |-> "k"]
           b == [rel |-> "R", attr |-> "v"]
           c == [rel |-> "S", attr |-> "k"]
           d == [rel |-> "S", attr |-> "v"]
<1>1. AttrName \subseteq {a, b} \cup {c, d}
  <2> SUFFICES ASSUME NEW t \in AttrName PROVE t \in {a, b, c, d}
    OBVIOUS
  <2>1. t = [rel |-> t.rel, attr |-> t.attr] /\ t.rel \in {"R", "S"} /\ t.attr \in {"k", "v"}
    BY DEF AttrName, Rel, Attr
  <2> QED
    BY <2>1
<1> HIDE DEF a, b, c, d
<1>2. IsFiniteSet({a} \cup {b}) /\ IsFiniteSet({c} \cup {d})
  BY FS_Singleton, FS_Union
<1>3. {a} \cup {b} = {a, b} /\ {c} \cup {d} = {c, d}
  OBVIOUS
<1>4. IsFiniteSet({a, b} \cup {c, d})
  BY <1>2, <1>3, FS_Union
<1>5. IsFiniteSet(Tuple)
  BY <1>1, <1>4, FS_Subset, QueryAssumption
<1>6. Cardinality(Tuple) \in Nat
  BY <1>5, FS_CardinalityType
<1>7. Slot \subseteq Nat \ {0} /\ IsFiniteSet(Slot) /\ Cardinality(Slot) = Cardinality(Tuple)
  <2>1. PICK n \in Nat : n = Cardinality(Tuple)
    BY <1>6
  <2>2. IsFiniteSet(1 .. n) /\ Cardinality(1 .. n) = n
    BY FS_Interval
  <2> QED
    BY <2>1, <2>2 DEF Slot
<1> QED
  BY <1>5, <1>6, <1>7

-----------------------------------------------------------------------------
(***************************************************************************)
(* The catalog and the relations.                                          *)
(***************************************************************************)
\* addInfo finds an empty slot: attrcat has as many slots as there are tuples.
LEMMA EmptySlot ==
  ASSUME DataOK, NEW t \in Tuple, \A s \in Slot : attrcat[s] # t
  PROVE  {s \in Slot : attrcat[s] = NoTuple} # {}
<1> SUFFICES ASSUME \A s \in Slot : attrcat[s] # NoTuple PROVE FALSE
  OBVIOUS
<1>1. attrcat \in Injection(Slot, Tuple \ {t})
  BY DEF DataOK, Injection, IsInjective
<1>2. IsFiniteSet(Tuple \ {t}) /\ Cardinality(Tuple \ {t}) = Cardinality(Tuple) - 1
  BY FiniteTuples, FS_RemoveElement
<1>3. Cardinality(Slot) <= Cardinality(Tuple \ {t})
  BY <1>1, <1>2, FS_Injection
<1> QED
  BY <1>2, <1>3, FiniteTuples

LEMMA InitData == Init => DataOK
<1> SUFFICES ASSUME Init PROVE DataOK
  OBVIOUS
<1>1. attrcat \in [Slot -> Tuple] /\ \A s, x \in Slot : attrcat[s] = attrcat[x] => s = x
  BY DEF Init, IsInjective
<1>2. rel \in [Rel -> Seq(KeyVal)] /\ \A r \in Rel : Len(rel[r]) <= MaxRecs
  BY QueryAssumption DEF Init, NoRecs
<1> QED
  BY <1>1, <1>2 DEF Init, DataOK

\* A step that leaves the data alone.
LEMMA SameData ==
  ASSUME DataOK, UNCHANGED data, status' = "idle" => call' = NoCall /\ ht' = EmptyTable
  PROVE  DataOK'
BY DEF DataOK, data

LEMMA addInfoData ==
  ASSUME DataOK, NEW t \in Tuple, addInfo(t)
  PROVE  DataOK'
<1>1. PICK m : m = Min({s \in Slot : attrcat[s] = NoTuple})
  OBVIOUS
<1>2. m \in Slot /\ attrcat[m] = NoTuple
  <2>1. {s \in Slot : attrcat[s] = NoTuple} \in SUBSET Nat
    BY FiniteTuples
  <2>2. {s \in Slot : attrcat[s] = NoTuple} # {}
    BY EmptySlot DEF addInfo
  <2>3. m \in {s \in Slot : attrcat[s] = NoTuple}
    BY <1>1, <2>1, <2>2, MinIsLeast
  <2> QED
    BY <2>3
<1>3. attrcat' = [attrcat EXCEPT ![m] = t] /\ UNCHANGED <<rel, call, status, ht>>
      /\ \A s \in Slot : attrcat[s] # t
  BY <1>1 DEF addInfo
<1>4. attrcat' \in [Slot -> Tuple \cup {NoTuple}]
  BY <1>2, <1>3 DEF DataOK
<1>5. \A s \in Slot : attrcat'[s] = IF s = m THEN t ELSE attrcat[s]
  BY <1>2, <1>3 DEF DataOK
<1>6. \A s, x \in Slot : attrcat'[s] = attrcat'[x] /\ attrcat'[s] # NoTuple => s = x
  BY <1>3, <1>5 DEF DataOK
<1> QED
  BY <1>3, <1>4, <1>6 DEF DataOK

LEMMA HitIsSlot ==
  ASSUME NEW r, NEW p, OfRelBehind(r, p) # {}
  PROVE  /\ Min(OfRelBehind(r, p)) \in OfRelBehind(r, p)
         /\ \A y \in OfRelBehind(r, p) : Min(OfRelBehind(r, p)) <= y
<1>1. OfRelBehind(r, p) \in SUBSET Nat
  BY FiniteTuples DEF OfRelBehind, TuplesBehind
<1> QED
  BY <1>1, MinIsLeast

LEMMA removeInfoData ==
  ASSUME DataOK, removeInfo
  PROVE  DataOK'
<1>1. UNCHANGED <<rel, call, ht>> /\ status # "idle" /\ status' # "idle"
  BY DEF removeInfo, Running, Returns
<1>2. CASE UNCHANGED attrcat
  BY <1>1, <1>2 DEF DataOK
<1>3. CASE attrcat' # attrcat
  <2>1. PICK m : attrcat' = [attrcat EXCEPT ![m] = NoTuple]
    BY <1>3 DEF removeInfo
  <2>2. attrcat' \in [Slot -> Tuple \cup {NoTuple}]
    BY <2>1 DEF DataOK
  <2>3. \A s \in Slot : attrcat'[s] = NoTuple \/ attrcat'[s] = attrcat[s]
    BY <2>1 DEF DataOK
  <2> QED
    BY <1>1, <2>2, <2>3 DEF DataOK
<1> QED
  BY <1>2, <1>3

LEMMA ReloadData ==
  ASSUME DataOK, Reload
  PROVE  DataOK'
<1>1. UNCHANGED <<attrcat, call, status, ht>>
  BY DEF Reload
<1>2. rel' \in [Rel -> UNION {[1 .. n -> KeyVal] : n \in 0 .. MaxRecs}] \/ rel' = NoRecs
  BY DEF Reload
<1>3. \A r \in Rel : rel'[r] \in Seq(KeyVal) /\ Len(rel'[r]) <= MaxRecs
  <2>1. CASE rel' = NoRecs
    BY <2>1, QueryAssumption DEF NoRecs
  <2>2. ASSUME rel' \in [Rel -> UNION {[1 .. n -> KeyVal] : n \in 0 .. MaxRecs}], NEW r \in Rel
        PROVE  rel'[r] \in Seq(KeyVal) /\ Len(rel'[r]) <= MaxRecs
    <3>1. PICK n \in 0 .. MaxRecs : rel'[r] \in [1 .. n -> KeyVal]
      BY <2>2
    <3>2. n \in Nat /\ n <= MaxRecs
      BY <3>1, QueryAssumption
    <3> QED
      BY <3>1, <3>2
  <2> QED
    BY <1>2, <2>1, <2>2
<1>4. DOMAIN rel' = Rel /\ rel' = [r \in Rel |-> rel'[r]]
  BY <1>2 DEF NoRecs
<1>5. rel' \in [Rel -> Seq(KeyVal)]
  BY <1>3, <1>4
<1> QED
  BY <1>1, <1>3, <1>5 DEF DataOK

LEMMA NextData == DataOK /\ [Next]_vars => DataOK'
<1> SUFFICES ASSUME DataOK, [Next]_vars PROVE DataOK'
  OBVIOUS
<1>1. CASE UNCHANGED vars
  BY <1>1 DEF DataOK, vars
<1>2. ASSUME getInfo \/ getRelInfo \/ QU_Select \/ QU_NL_Join \/ NLScan \/ QU_StubJoin
             \/ insert \/ lookups \/ Partition
      PROVE  DataOK'
  <2>1. UNCHANGED data /\ status' # "idle"
    BY <1>2 DEF getInfo, getRelInfo, QU_Select, QU_NL_Join, NLScan, QU_StubJoin, insert,
         lookups, Partition, Running, Returns
  <2> QED
    BY <2>1, SameData
<1>3. CASE Forget
  BY <1>3, SameData DEF Forget, Returns
<1>4. ASSUME NEW c, NEW p, NEW o, Begin(c, p, o) PROVE DataOK'
  BY <1>4, SameData DEF Begin, Returns
<1>5. CASE CatalogCalls
  BY <1>4, <1>5, addInfoData DEF CatalogCalls
<1>6. CASE QU_Join \/ joinHashTbl \/ MakePartition
  BY <1>4, <1>6 DEF QU_Join, joinHashTbl, MakePartition
<1> QED
  BY <1>1, <1>2, <1>3, <1>5, <1>6, removeInfoData, ReloadData DEF Next, Step

\* addInfo and removeInfo keep every tuple in at most one slot of attrcat, and a call
\* starts from nothing that an earlier one has left.
THEOREM DataInvariant == Spec => []DataOK
<1>1. Init => DataOK
  BY InitData
<1>2. DataOK /\ [Next]_vars => DataOK'
  BY NextData
<1> QED
  BY <1>1, <1>2, PTL DEF Spec

-----------------------------------------------------------------------------
(***************************************************************************)
(* Which steps a call takes: it is made, and then only its own loop runs.  *)
(***************************************************************************)
\* The last call is one that begins here, one that goes on, or it is over.
LEMMA Steps ==
  ASSUME DataOK, [Next]_vars, call'.op # "none"
  PROVE  \/ UNCHANGED vars
         \/ CatalogCalls /\ status = "idle"
         \/ QU_Join \/ joinHashTbl \/ MakePartition
         \/ Step /\ UNCHANGED call
<1>1. ASSUME Reload PROVE FALSE
  BY <1>1 DEF Reload, DataOK, NoCall
<1>2. ASSUME Forget PROVE FALSE
  BY <1>2 DEF Forget, NoCall
<1>3. ASSUME CatalogCalls PROVE status = "idle"
  BY <1>3 DEF CatalogCalls, addInfo, Begin
<1>4. ASSUME Step PROVE UNCHANGED call
  BY <1>4 DEF Step, getInfo, getRelInfo, removeInfo, QU_Select, QU_NL_Join, NLScan,
       QU_StubJoin, insert, lookups, Partition
<1> QED
  BY <1>1, <1>2, <1>3, <1>4 DEF Next

LEMMA JoinOps ==
  ASSUME NEW c \in JoinCalls
  PROVE  /\ c.op \in {"QU_NL_Join", "QU_SM_Join", "QU_Hash_Join"}
         /\ c.cmp \in Operator /\ c.proj \in Seq(AttrName) /\ c.rel1 = "R" /\ c.rel2 \in Rel
         /\ c.sameType \in BOOLEAN
<1>1. PICK m \in {"NL", "SM", "HJ"}, o \in Operator, p \in ProjNames, q \in Rel, b \in BOOLEAN :
        c = [op |-> joinOp(m, o), cmp |-> o, proj |-> p, rel1 |-> "R", rel2 |-> q, sameType |-> b]
  BY DEF JoinCalls
<1>2. joinOp(m, o) \in {"QU_NL_Join", "QU_SM_Join", "QU_Hash_Join"}
  BY <1>1 DEF joinOp
<1> QED
  BY <1>1, <1>2, QueryAssumption

\* The calls of the catalog.
LEMMA CatalogOps ==
  ASSUME DataOK, CatalogCalls, call'.op # "none"
  PROVE  \/ \E c \in AttrCalls : Begin(c, <<0, 0>>, NoTuple)
         \/ \E c \in RelCalls :
              Begin(c, <<0, attrCnt(c.rel) - 1>>, [n \in 0 .. attrCnt(c.rel) - 1 |-> NoTuple])
         \/ call'.op = "QU_Select"
<1>1. ASSUME NEW t \in Tuple, addInfo(t) PROVE FALSE
  BY <1>1 DEF addInfo, DataOK, NoCall
<1>2. ASSUME NEW c \in SelectCalls, NEW p, NEW o, Begin(c, p, o) PROVE call'.op = "QU_Select"
  BY <1>2 DEF Begin, SelectCalls
<1> QED
  BY <1>1, <1>2 DEF CatalogCalls

LEMMA getInfoSteps ==
  ASSUME DataOK, [Next]_vars, call'.op = "getInfo"
  PROVE  \/ UNCHANGED vars
         \/ call.op = "getInfo" /\ getInfo
         \/ \E c \in AttrCalls : Begin(c, <<0, 0>>, NoTuple)
<1>1. CASE UNCHANGED vars
  BY <1>1
<1>2. CASE Step /\ UNCHANGED call
  BY <1>2 DEF Step, getInfo, getRelInfo, removeInfo, QU_Select, QU_NL_Join, NLScan,
       QU_StubJoin, insert, lookups, Partition, Running
<1>3. CASE CatalogCalls
  <2>1. ASSUME NEW c \in RelCalls, NEW p, NEW o, Begin(c, p, o) PROVE FALSE
    BY <2>1 DEF Begin, RelCalls
  <2> QED
    BY <1>3, <2>1, CatalogOps
<1>4. ASSUME QU_Join \/ joinHashTbl \/ MakePartition PROVE FALSE
  BY <1>4, JoinOps DEF QU_Join, joinHashTbl, MakePartition, Begin, HashCalls, PartitionCalls
<1> QED
  BY <1>1, <1>2, <1>3, <1>4, Steps

LEMMA getRelInfoSteps ==
  ASSUME DataOK, [Next]_vars, call'.op = "getRelInfo"
  PROVE  \/ UNCHANGED vars
         \/ call.op = "getRelInfo" /\ getRelInfo
         \/ \E c \in RelCalls :
              Begin(c, <<0, attrCnt(c.rel) - 1>>, [n \in 0 .. attrCnt(c.rel) - 1 |-> NoTuple])
<1>1. CASE UNCHANGED vars
  BY <1>1
<1>2. CASE Step /\ UNCHANGED call
  BY <1>2 DEF Step, getInfo, getRelInfo, removeInfo, QU_Select, QU_NL_Join, NLScan,
       QU_StubJoin, insert, lookups, Partition, Running
<1>3. CASE CatalogCalls
  <2>1. ASSUME NEW c \in AttrCalls, NEW p, NEW o, Begin(c, p, o) PROVE FALSE
    BY <2>1 DEF Begin, AttrCalls
  <2> QED
    BY <1>3, <2>1, CatalogOps
<1>4. ASSUME QU_Join \/ joinHashTbl \/ MakePartition PROVE FALSE
  BY <1>4, JoinOps DEF QU_Join, joinHashTbl, MakePartition, Begin, HashCalls, PartitionCalls
<1> QED
  BY <1>1, <1>2, <1>3, <1>4, Steps

\* No call of the catalog is one of the others.
LEMMA NotCatalog ==
  ASSUME DataOK, CatalogCalls, call'.op \in {"QU_NL_Join", "joinHashTbl", "Partition"}
  PROVE  FALSE
<1>1. ASSUME NEW c \in AttrCalls \cup RelCalls, NEW p, NEW o, Begin(c, p, o) PROVE FALSE
  BY <1>1 DEF Begin, AttrCalls, RelCalls
<1> QED
  BY <1>1, CatalogOps

LEMMA joinSteps ==
  ASSUME DataOK, [Next]_vars, call'.op = "QU_NL_Join"
  PROVE  \/ UNCHANGED vars
         \/ call.op = "QU_NL_Join" /\ (QU_NL_Join \/ NLScan)
         \/ \E c \in JoinCalls : Begin(c, <<0, 0>>, <<>>)
<1>1. CASE UNCHANGED vars
  BY <1>1
<1>2. CASE Step /\ UNCHANGED call
  BY <1>2 DEF Step, getInfo, getRelInfo, removeInfo, QU_Select, QU_NL_Join, NLScan,
       QU_StubJoin, insert, lookups, Partition, Running
<1>3. ASSUME CatalogCalls PROVE FALSE
  BY <1>3, NotCatalog
<1>4. CASE QU_Join
  BY <1>4 DEF QU_Join
<1>5. ASSUME joinHashTbl \/ MakePartition PROVE FALSE
  BY <1>5 DEF joinHashTbl, MakePartition, Begin, HashCalls, PartitionCalls
<1> QED
  BY <1>1, <1>2, <1>3, <1>4, <1>5, Steps

LEMMA hashSteps ==
  ASSUME DataOK, [Next]_vars, call'.op = "joinHashTbl"
  PROVE  \/ UNCHANGED vars
         \/ call.op = "joinHashTbl" /\ (insert \/ lookups)
         \/ \E c \in HashCalls : Begin(c, <<0, 0>>, <<>>)
<1>1. CASE UNCHANGED vars
  BY <1>1
<1>2. CASE Step /\ UNCHANGED call
  BY <1>2 DEF Step, getInfo, getRelInfo, removeInfo, QU_Select, QU_NL_Join, NLScan,
       QU_StubJoin, insert, lookups, Partition, Running
<1>3. ASSUME CatalogCalls PROVE FALSE
  BY <1>3, NotCatalog
<1>4. ASSUME QU_Join \/ MakePartition PROVE FALSE
  BY <1>4, JoinOps DEF QU_Join, MakePartition, Begin, PartitionCalls
<1>5. CASE joinHashTbl
  BY <1>5 DEF joinHashTbl
<1> QED
  BY <1>1, <1>2, <1>3, <1>4, <1>5, Steps

LEMMA partitionSteps ==
  ASSUME DataOK, [Next]_vars, call'.op = "Partition"
  PROVE  \/ UNCHANGED vars
         \/ call.op = "Partition" /\ Partition
         \/ \E c \in PartitionCalls : c.from <= Len(rel["R"]) /\ Begin(c, <<c.from, 0>>, NoParts)
<1>1. CASE UNCHANGED vars
  BY <1>1
<1>2. CASE Step /\ UNCHANGED call
  BY <1>2 DEF Step, getInfo, getRelInfo, removeInfo, QU_Select, QU_NL_Join, NLScan,
       QU_StubJoin, insert, lookups, Partition, Running
<1>3. ASSUME CatalogCalls PROVE FALSE
  BY <1>3, NotCatalog
<1>4. ASSUME QU_Join \/ joinHashTbl PROVE FALSE
  BY <1>4, JoinOps DEF QU_Join, joinHashTbl, Begin, HashCalls
<1>5. CASE MakePartition
  BY <1>5 DEF MakePartition
<1> QED
  BY <1>1, <1>2, <1>3, <1>4, <1>5, Steps

-----------------------------------------------------------------------------
(***************************************************************************)
(* getInfo.                                                                *)
(***************************************************************************)
Asked == [rel |-> call.rel, attr |-> call.attr]

\* The slots that the scan has passed do not hold the attribute.
getInfoOK ==
  call.op = "getInfo" =>
    /\ call \in AttrCalls /\ pos[1] \in Nat
    /\ status = "running" => \A s \in Slot : s <= pos[1] => attrcat[s] # Asked
    /\ status = "OK" => out = Asked /\ Known(out)
    /\ status = "ATTRNOTFOUND" => ~Known(Asked)

\* The first tuple of relation r behind slot p, with no other in between.
LEMMA FirstHit ==
  ASSUME DataOK, NEW r \in Rel, NEW p \in Nat, OfRelBehind(r, p) # {}
  PROVE  \E m \in Slot :
           /\ m = Min(OfRelBehind(r, p)) /\ p < m /\ m \in Nat
           /\ attrcat[m] \in Tuple /\ attrcat[m].rel = r
           /\ \A s \in Slot : p < s /\ s < m => attrcat[s] = NoTuple \/ attrcat[s].rel # r
<1>1. PICK m : m = Min(OfRelBehind(r, p))
  OBVIOUS
<1>2. m \in OfRelBehind(r, p) /\ \A y \in OfRelBehind(r, p) : m <= y
  BY <1>1, HitIsSlot
<1>3. Slot \subseteq Nat
  BY FiniteTuples
<1>4. m \in Slot /\ p < m /\ attrcat[m] # NoTuple /\ attrcat[m].rel = r
  BY <1>2, <1>3 DEF OfRelBehind, TuplesBehind
<1>5. attrcat[m] \in Tuple
  BY <1>4 DEF DataOK
<1>6. ASSUME NEW s \in Slot, p < s, s < m PROVE attrcat[s] = NoTuple \/ attrcat[s].rel # r
  <2>1. s \notin OfRelBehind(r, p)
    BY <1>2, <1>3, <1>4, <1>6
  <2> QED
    BY <1>3, <1>6, <2>1 DEF OfRelBehind, TuplesBehind
<1> QED
  BY <1>1, <1>3, <1>4, <1>5, <1>6

LEMMA getInfoKeeps ==
  ASSUME DataOK, getInfoOK, call.op = "getInfo", getInfo
  PROVE  getInfoOK'
<1>1. /\ call \in AttrCalls /\ pos[1] \in Nat /\ UNCHANGED <<attrcat, call>>
      /\ \A s \in Slot : s <= pos[1] => attrcat[s] # Asked
  BY DEF getInfoOK, getInfo, Running, data
<1>2. call.rel \in Rel /\ call.attr \in Attr /\ Asked \in AttrName
      /\ Asked.rel = call.rel /\ Asked.attr = call.attr /\ Asked # NoTuple
  BY <1>1, QueryAssumption DEF AttrCalls, Asked, AttrName
<1>3. Slot \subseteq Nat
  BY FiniteTuples
<1>4. Asked' = Asked
  BY <1>1 DEF Asked
<1>5. CASE OfRelBehind(call.rel, pos[1]) = {} /\ status' = "ATTRNOTFOUND" /\ UNCHANGED pos
  <2>1. ASSUME NEW s \in Slot PROVE attrcat[s] # Asked
    <3>1. CASE s <= pos[1]
      BY <1>1, <3>1
    <3>2. CASE ~(s <= pos[1])
      <4>1. s > pos[1]
        BY <1>1, <1>3, <3>2
      <4> QED
        BY <1>2, <1>5, <4>1 DEF OfRelBehind, TuplesBehind
    <3> QED
      BY <3>1, <3>2
  <2>2. ~Known(Asked)'
    BY <1>1, <1>4, <2>1 DEF Known
  <2> QED
    BY <1>1, <1>5, <2>2 DEF getInfoOK
<1>6. ASSUME OfRelBehind(call.rel, pos[1]) # {},
             out' = attrcat[Min(OfRelBehind(call.rel, pos[1]))],
             pos' = <<Min(OfRelBehind(call.rel, pos[1])), 0>>,
             status' = IF out'.attr = call.attr THEN "OK" ELSE "running"
      PROVE  getInfoOK'
  <2>1. PICK r, p : r = call.rel /\ p = pos[1]
    OBVIOUS
  <2>2. PICK m \in Slot :
           /\ m = Min(OfRelBehind(r, p)) /\ p < m /\ m \in Nat
           /\ attrcat[m] \in Tuple /\ attrcat[m].rel = r
           /\ \A s \in Slot : p < s /\ s < m => attrcat[s] = NoTuple \/ attrcat[s].rel # r
    BY <1>1, <1>2, <1>6, <2>1, FirstHit
  <2>3. out' = attrcat[m] /\ pos' = <<m, 0>> /\ pos'[1] = m
    BY <1>6, <2>1, <2>2
  <2>4. attrcat[m] \in AttrName
    BY <2>2, QueryAssumption
  <2>5. attrcat[m] = Asked <=> attrcat[m].attr = call.attr
    BY <1>2, <2>1, <2>2, <2>4 DEF AttrName, Asked
  <2>6. CASE attrcat[m].attr = call.attr
    <3>1. status' = "OK" /\ out' = Asked
      BY <1>6, <2>3, <2>5, <2>6
    <3>2. Known(out)'
      BY <1>1, <2>2, <2>3 DEF Known
    <3> QED
      BY <1>1, <1>4, <2>2, <2>3, <3>1, <3>2 DEF getInfoOK
  <2>7. CASE attrcat[m].attr # call.attr
    <3>1. status' = "running"
      BY <1>6, <2>3, <2>7
    <3>2. ASSUME NEW s \in Slot, s <= m PROVE attrcat[s] # Asked
      <4>1. CASE s <= p
        BY <1>1, <2>1, <4>1
      <4>2. CASE s = m
        BY <2>5, <2>7, <4>2
      <4>3. CASE p < s /\ s < m
        BY <1>2, <2>1, <2>2, <4>3
      <4> QED
        BY <1>1, <1>3, <2>1, <2>2, <3>2, <4>1, <4>2, <4>3
    <3> QED
      BY <1>1, <1>4, <2>2, <2>3, <3>1, <3>2 DEF getInfoOK
  <2> QED
    BY <2>6, <2>7
<1> QED
  BY <1>5, <1>6 DEF getInfo, Returns, isAttr, scannedTo

LEMMA getInfoNext == DataOK /\ getInfoOK /\ [Next]_vars => getInfoOK'
<1> SUFFICES ASSUME DataOK, getInfoOK, [Next]_vars, call'.op = "getInfo" PROVE getInfoOK'
  BY DEF getInfoOK
<1>1. CASE UNCHANGED vars
  BY <1>1 DEF getInfoOK, vars, Asked, Known
<1>2. CASE call.op = "getInfo" /\ getInfo
  BY <1>2, getInfoKeeps
<1>3. CASE \E c \in AttrCalls : Begin(c, <<0, 0>>, NoTuple)
  <2>1. call' \in AttrCalls /\ status' = "running" /\ pos'[1] = 0
    BY <1>3 DEF Begin, Returns
  <2>2. \A s \in Slot : ~(s <= 0)
    BY FiniteTuples
  <2> QED
    BY <2>1, <2>2 DEF getInfoOK
<1> QED
  BY <1>1, <1>2, <1>3, getInfoSteps

-----------------------------------------------------------------------------
(***************************************************************************)
(* getRelInfo.                                                             *)
(***************************************************************************)
\* The slots with tuples of the relation, and those that the scan has passed.
Mine == OfRelBehind(call.rel, 0)
Seen == {x \in Mine : x <= pos[1]}

\* The tuples that have been passed are behind the place of the next one, which
\* is where it is because each of them has moved it.
getRelInfoOK ==
  call.op = "getRelInfo" =>
    /\ call \in RelCalls /\ pos[1] \in Nat
    /\ pos[2] = attrCnt(call.rel) - 1 - Cardinality(Seen)
    /\ DOMAIN out = 0 .. attrCnt(call.rel) - 1
    /\ \A t : (\E n \in pos[2] + 1 .. attrCnt(call.rel) - 1 : t = out[n])
                <=> \E x \in Seen : t = attrcat[x]
    /\ status = "OK" => Seen = Mine

\* Distinct slots hold distinct tuples of the relation.
LEMMA MineFacts ==
  ASSUME DataOK, call.rel \in Rel
  PROVE  /\ IsFiniteSet(Mine) /\ Cardinality(Mine) \in Nat /\ attrCnt(call.rel) \in Nat
         /\ Cardinality(Mine) <= attrCnt(call.rel)
         /\ Cardinality({attrcat[s] : s \in Mine}) = Cardinality(Mine)
         /\ \A x : x \in Mine <=> x \in Slot /\ attrcat[x] # NoTuple /\ attrcat[x].rel = call.rel
<1> DEFINE T == {t \in Tuple : t.rel = call.rel}
           U == {attrcat[s] : s \in Mine}
           f == [s \in Mine |-> attrcat[s]]
<1>1. \A x : x \in Mine <=> x \in Slot /\ attrcat[x] # NoTuple /\ attrcat[x].rel = call.rel
  <2>1. \A x \in Slot : x > 0
    BY FiniteTuples
  <2> QED
    BY <2>1 DEF Mine, OfRelBehind, TuplesBehind
<1>2. IsFiniteSet(Mine)
  BY <1>1, FiniteTuples, FS_Subset
<1>3. IsFiniteSet(T) /\ Cardinality(T) \in Nat
  BY FiniteTuples, FS_Subset, FS_CardinalityType
<1>4. f \in Injection(Mine, T) /\ f \in Injection(Mine, U) /\ f \in Surjection(Mine, U)
  <2>1. \A s \in Mine : attrcat[s] \in T
    BY <1>1 DEF DataOK
  <2>2. \A s, x \in Mine : attrcat[s] = attrcat[x] => s = x
    BY <1>1 DEF DataOK
  <2> QED
    BY <2>1, <2>2 DEF Injection, Surjection, IsInjective
<1> HIDE DEF f, T, U
<1>5. Cardinality(Mine) <= Cardinality(T)
  BY <1>3, <1>4, FS_Injection
<1>6. Cardinality(U) = Cardinality(Mine)
  BY <1>2, <1>4, FS_Surjection
<1> QED
  BY <1>1, <1>2, <1>3, <1>5, <1>6, FS_CardinalityType DEF T, U, attrCnt

LEMMA getRelInfoKeeps ==
  ASSUME DataOK, getRelInfoOK, call.op = "getRelInfo", getRelInfo
  PROVE  getRelInfoOK'
<1>1. /\ call \in RelCalls /\ pos[1] \in Nat /\ UNCHANGED <<attrcat, call>> /\ status = "running"
      /\ pos[2] = attrCnt(call.rel) - 1 - Cardinality(Seen)
      /\ DOMAIN out = 0 .. attrCnt(call.rel) - 1
      /\ \A t : (\E n \in pos[2] + 1 .. attrCnt(call.rel) - 1 : t = out[n])
                  <=> \E x \in Seen : t = attrcat[x]
  BY DEF getRelInfoOK, getRelInfo, Running, data
<1>2. call.rel \in Rel
  BY <1>1 DEF RelCalls
<1>3. PICK N, a, p : N = attrCnt(call.rel) /\ a = pos[2] /\ p = pos[1]
  OBVIOUS
<1>4. /\ IsFiniteSet(Mine) /\ Cardinality(Mine) \in Nat /\ N \in Nat /\ Cardinality(Mine) <= N
      /\ \A x : x \in Mine <=> x \in Slot /\ attrcat[x] # NoTuple /\ attrcat[x].rel = call.rel
  BY <1>2, <1>3, MineFacts
<1>5. Seen \subseteq Mine /\ IsFiniteSet(Seen) /\ Cardinality(Seen) \in Nat /\ a \in Int
      /\ a = N - 1 - Cardinality(Seen)
  <2>1. Seen \subseteq Mine
    BY DEF Seen
  <2>2. IsFiniteSet(Seen) /\ Cardinality(Seen) \in Nat
    BY <1>4, <2>1, FS_Subset, FS_CardinalityType
  <2> QED
    BY <1>1, <1>3, <1>4, <2>1, <2>2
<1>6. Slot \subseteq Nat /\ Mine \subseteq Slot
  BY <1>4, FiniteTuples
<1>7. attrCnt(call.rel)' = N /\ Mine' = Mine
  BY <1>1, <1>3 DEF attrCnt, Mine, OfRelBehind, TuplesBehind
<1>8. CASE /\ TuplesBehind(pos[1]) = {} \/ pos[2] < 0
           /\ status' = "OK" /\ UNCHANGED <<pos, out>>
  <2>1. Seen' = Seen
    BY <1>7, <1>8 DEF Seen
  <2>2. Seen = Mine
    <3>1. CASE TuplesBehind(pos[1]) = {}
      <4>1. ASSUME NEW x \in Mine PROVE x <= pos[1]
        <5>1. x \in Slot /\ attrcat[x] # NoTuple /\ x \in Nat
          BY <1>4, <1>6
        <5>2. ~(x > pos[1])
          BY <3>1, <5>1 DEF TuplesBehind
        <5> QED
          BY <1>1, <5>1, <5>2
      <4> QED
        BY <4>1 DEF Seen
    <3>2. CASE pos[2] < 0
      <4>1. Cardinality(Seen) >= N
        BY <1>3, <1>4, <1>5, <3>2
      <4>2. Cardinality(Seen) <= Cardinality(Mine)
        BY <1>4, <1>5, FS_Subset
      <4>3. Cardinality(Seen) = Cardinality(Mine)
        BY <1>4, <1>5, <4>1, <4>2
      <4> QED
        BY <1>4, <1>5, <4>3, FS_Subset
    <3> QED
      BY <1>8, <3>1, <3>2
  <2>3. UNCHANGED <<attrcat, call, pos, out>>
    BY <1>1, <1>8
  <2>4. \A t : (\E n \in pos'[2] + 1 .. N - 1 : t = out'[n]) <=> \E x \in Seen' : t = attrcat'[x]
    <3>1. \A t : (\E n \in a + 1 .. N - 1 : t = out[n]) <=> \E x \in Seen : t = attrcat[x]
      BY <1>1, <1>3
    <3>2. pos'[2] = a /\ out' = out /\ attrcat' = attrcat
      BY <1>3, <2>3
    <3> QED
      BY <2>1, <3>1, <3>2
  <2>5. /\ call' \in RelCalls /\ pos'[1] \in Nat /\ pos'[2] = N - 1 - Cardinality(Seen')
        /\ DOMAIN out' = 0 .. N - 1
    BY <1>1, <1>3, <2>1, <2>3
  <2> QED
    BY <1>7, <2>1, <2>2, <2>4, <2>5 DEF getRelInfoOK
<1>9. ASSUME TuplesBehind(pos[1]) # {}, pos[2] >= 0,
             out' = [out EXCEPT ![pos[2]] = attrcat[Min(TuplesBehind(pos[1]))]],
             pos' = <<Min(TuplesBehind(pos[1])), amountAfter(attrcat[Min(TuplesBehind(pos[1]))], pos[2])>>,
             UNCHANGED status
      PROVE  getRelInfoOK'
  <2>1. PICK m : m = Min(TuplesBehind(pos[1]))
    OBVIOUS
  <2>2. m \in TuplesBehind(pos[1]) /\ \A y \in TuplesBehind(pos[1]) : m <= y
    <3>1. TuplesBehind(pos[1]) \in SUBSET Nat
      BY <1>6 DEF TuplesBehind
    <3> QED
      BY <1>9, <2>1, <3>1, MinIsLeast
  <2>3. m \in Slot /\ m \in Nat /\ p < m /\ attrcat[m] # NoTuple
    BY <1>1, <1>3, <1>6, <2>2 DEF TuplesBehind
  <2>4. PICK t : t = attrcat[m]
    OBVIOUS
  <2>5. /\ a \in 0 .. N - 1 /\ out' = [out EXCEPT ![a] = t] /\ pos'[1] = m
        /\ pos'[2] = IF t.rel = call.rel THEN a - 1 ELSE a
    <3>1. a \in 0 .. N - 1
      BY <1>3, <1>4, <1>5, <1>9
    <3>2. out' = [out EXCEPT ![a] = t] /\ pos' = <<m, amountAfter(t, a)>>
      BY <1>3, <1>9, <2>1, <2>4
    <3> QED
      BY <3>1, <3>2 DEF amountAfter
  <2>6. /\ DOMAIN out' = 0 .. N - 1 /\ out'[a] = t
        /\ \A n \in 0 .. N - 1 : n # a => out'[n] = out[n]
    BY <1>1, <1>3, <2>5
  <2>7. ASSUME NEW x \in Mine PROVE x <= m <=> x <= p \/ x = m
    <3>1. x \in Slot /\ attrcat[x] # NoTuple /\ x \in Nat
      BY <1>4, <1>6
    <3>2. ASSUME x > p PROVE m <= x
      BY <1>3, <2>2, <3>1, <3>2 DEF TuplesBehind
    <3> QED
      BY <1>1, <1>3, <2>3, <3>1, <3>2
  <2>8. \A x : x \in Seen' <=> x \in Mine /\ (x <= p \/ x = m)
    <3>1. \A x : x \in Seen' <=> x \in Mine /\ x <= m
      BY <1>7, <2>5 DEF Seen
    <3> QED
      BY <2>7, <3>1
  <2>9. \A x : x \in Seen <=> x \in Mine /\ x <= p
    BY <1>3 DEF Seen
  <2>10. \A y : (\E n \in a + 1 .. N - 1 : y = out[n]) <=> \E x \in Seen : y = attrcat[x]
    BY <1>1, <1>3
  <2>11. \A n \in a + 1 .. N - 1 : out'[n] = out[n]
    BY <1>4, <2>5, <2>6
  <2>12. /\ pos'[2] = N - 1 - Cardinality(Seen')
         /\ \A y : (\E n \in pos'[2] + 1 .. N - 1 : y = out'[n])
                     <=> \E x \in Seen' : y = attrcat[x]
    <3>1. CASE t.rel = call.rel
      <4>1. m \in Mine /\ m \notin Seen
        BY <1>1, <1>3, <1>4, <2>3, <2>4, <2>9, <3>1
      <4>2. Seen' = Seen \cup {m}
        BY <2>8, <2>9, <4>1
      <4>3. Cardinality(Seen') = Cardinality(Seen) + 1
        BY <1>5, <4>1, <4>2, FS_AddElement
      <4>4. pos'[2] = a - 1
        BY <2>5, <3>1
      <4>5. ASSUME NEW y
            PROVE (\E n \in a .. N - 1 : y = out'[n]) <=> \E x \in Seen' : y = attrcat[x]
        <5>1. \A n : n \in a .. N - 1 <=> n = a \/ n \in a + 1 .. N - 1
          BY <1>4, <2>5
        <5>2. (\E n \in a .. N - 1 : y = out'[n]) <=> y = t \/ \E n \in a + 1 .. N - 1 : y = out[n]
          BY <2>6, <2>11, <5>1
        <5>3. (\E x \in Seen' : y = attrcat[x]) <=> y = t \/ \E x \in Seen : y = attrcat[x]
          BY <2>4, <4>2
        <5> QED
          BY <2>10, <5>2, <5>3
      <4>6. a - 1 + 1 = a
        BY <1>5
      <4>7. a - 1 = N - 1 - (Cardinality(Seen) + 1)
        BY <1>4, <1>5
      <4> QED
        BY <4>3, <4>4, <4>5, <4>6, <4>7, ZenonT(60)
    <3>2. CASE t.rel # call.rel
      <4>1. m \notin Mine
        BY <1>4, <2>4, <3>2
      <4>2. Seen' = Seen
        BY <2>8, <2>9, <4>1
      <4>3. pos'[2] = a
        BY <2>5, <3>2
      <4> QED
        BY <1>5, <2>10, <2>11, <4>2, <4>3
    <3> QED
      BY <3>1, <3>2
  <2>13. call' \in RelCalls /\ pos'[1] \in Nat /\ status' # "OK"
    BY <1>1, <1>9, <2>3, <2>5
  <2>14. \A y : (\E n \in pos'[2] + 1 .. N - 1 : y = out'[n]) <=> \E x \in Seen' : y = attrcat'[x]
    BY <1>1, <2>12
  <2> QED
    BY <1>7, <2>6, <2>12, <2>13, <2>14, ZenonT(60) DEF getRelInfoOK
<1> QED
  BY <1>8, <1>9 DEF getRelInfo, Returns

LEMMA getRelInfoNext == DataOK /\ getRelInfoOK /\ [Next]_vars => getRelInfoOK'
<1> SUFFICES ASSUME DataOK, getRelInfoOK, [Next]_vars, call'.op = "getRelInfo"
             PROVE  getRelInfoOK'
  BY DEF getRelInfoOK
<1>1. CASE UNCHANGED vars
  <2>1. Mine' = Mine /\ attrCnt(call.rel)' = attrCnt(call.rel)
    BY <1>1 DEF Mine, OfRelBehind, TuplesBehind, vars, attrCnt
  <2>2. Seen' = Seen
    BY <1>1, <2>1 DEF Seen, vars
  <2> QED
    BY <1>1, <2>1, <2>2 DEF getRelInfoOK, vars
<1>2. CASE call.op = "getRelInfo" /\ getRelInfo
  BY <1>2, getRelInfoKeeps
<1>3. ASSUME NEW c \in RelCalls,
             Begin(c, <<0, attrCnt(c.rel) - 1>>, [n \in 0 .. attrCnt(c.rel) - 1 |-> NoTuple])
      PROVE  getRelInfoOK'
  <2>1. PICK N : N = attrCnt(c.rel)
    OBVIOUS
  <2>2. /\ call' = c /\ pos' = <<0, N - 1>> /\ out' = [n \in 0 .. N - 1 |-> NoTuple]
        /\ status' = "running"
    BY <1>3, <2>1 DEF Begin, Returns
  <2>3. N \in Nat
    <3>1. IsFiniteSet({t \in Tuple : t.rel = c.rel})
      BY FiniteTuples, FS_Subset
    <3> QED
      BY <2>1, <3>1, FS_CardinalityType DEF attrCnt
  <2>4. attrCnt(call.rel)' = N
    BY <2>1, <2>2 DEF attrCnt
  <2>5. Seen' = {}
    <3>1. \A x \in Slot : ~(x <= 0)
      BY FiniteTuples
    <3> QED
      BY <2>2, <3>1 DEF Seen, Mine, OfRelBehind, TuplesBehind
  <2>6. Cardinality(Seen') = 0
    BY <2>5, FS_EmptySet
  <2>7. pos'[1] = 0 /\ pos'[2] = N - 1 /\ DOMAIN out' = 0 .. N - 1
    BY <2>2
  <2>8. pos'[2] + 1 .. N - 1 = {}
    BY <2>3, <2>7
  <2> QED
    BY <2>2, <2>3, <2>4, <2>5, <2>6, <2>7, <2>8 DEF getRelInfoOK
<1> QED
  BY <1>1, <1>2, <1>3, getRelInfoSteps

LEMMA LookupsExactNow == DataOK /\ getInfoOK /\ getRelInfoOK => LookupsExact
<1> SUFFICES ASSUME DataOK, getInfoOK, getRelInfoOK PROVE LookupsExact
  OBVIOUS
<1>1. ASSUME call.op = "getRelInfo", status = "OK"
      PROVE  LET mine == {attrcat[s] : s \in OfRelBehind(call.rel, 0)}
                 there == attrCnt(call.rel) - Cardinality(mine) .. attrCnt(call.rel) - 1
             IN  {out[n] : n \in there} = mine
  <2>1. /\ call.rel \in Rel /\ Seen = Mine
        /\ pos[2] = attrCnt(call.rel) - 1 - Cardinality(Seen)
        /\ \A t : (\E n \in pos[2] + 1 .. attrCnt(call.rel) - 1 : t = out[n])
                    <=> \E x \in Seen : t = attrcat[x]
    BY <1>1 DEF getRelInfoOK, RelCalls
  <2>2. /\ Cardinality(Mine) \in Nat /\ attrCnt(call.rel) \in Nat
        /\ Cardinality({attrcat[s] : s \in Mine}) = Cardinality(Mine)
    BY <2>1, MineFacts
  <2>3. pos[2] + 1 = attrCnt(call.rel) - Cardinality({attrcat[s] : s \in Mine})
    BY <2>1, <2>2
  <2>4. {out[n] : n \in pos[2] + 1 .. attrCnt(call.rel) - 1} = {attrcat[s] : s \in Mine}
    BY <2>1
  <2> QED
    BY <2>3, <2>4 DEF Mine
<1>2. ASSUME call.op = "getInfo"
      PROVE  /\ status = "OK" => out = [rel |-> call.rel, attr |-> call.attr] /\ Known(out)
             /\ status = "ATTRNOTFOUND" => ~Known([rel |-> call.rel, attr |-> call.attr])
  BY <1>2 DEF getInfoOK, Asked
<1> QED
  BY <1>1, <1>2 DEF LookupsExact

\* getInfo finds exactly the attribute asked for, and getRelInfo each of the
\* relation's tuples once, wherever removeInfo and addInfo have put them.
THEOREM LookupsExactAlways == Spec => []LookupsExact
<1>1. Init => getInfoOK /\ getRelInfoOK
  BY DEF Init, NoCall, getInfoOK, getRelInfoOK
<1>2. DataOK /\ getInfoOK /\ [Next]_vars => getInfoOK'
  BY getInfoNext
<1>3. DataOK /\ getRelInfoOK /\ [Next]_vars => getRelInfoOK'
  BY getRelInfoNext
<1>4. DataOK /\ getInfoOK /\ getRelInfoOK => LookupsExact
  BY LookupsExactNow
<1> QED
  BY <1>1, <1>2, <1>3, <1>4, DataInvariant, PTL DEF Spec

-----------------------------------------------------------------------------
(***************************************************************************)
(* Partition.                                                              *)
(***************************************************************************)
\* A partition holds, in the order of the scan, the records read so far whose
\* values have its hash.
PartOK(part, p, n) ==
  /\ part \in Seq(Nat)
  /\ \A i, j \in DOMAIN part : i < j => part[i] < part[j]
  /\ \A i \in DOMAIN part : i <= part[i]
  /\ \A i : (\E m \in DOMAIN part : part[m] = i) <=> i \in call.from + 1 .. n /\ call.h[rel["R"][i]] = p

PartitionOK ==
  call.op = "Partition" =>
    /\ call.h \in [KeyVal -> 0 .. P - 1] /\ call.from \in Nat
    /\ pos[1] \in call.from .. Len(rel["R"])
    /\ DOMAIN out = 0 .. P - 1
    /\ \A p \in 0 .. P - 1 : PartOK(out[p], p, pos[1])
    /\ status = "OK" => pos[1] = Len(rel["R"])

LEMMA RelR ==
  ASSUME DataOK
  PROVE  /\ rel["R"] \in Seq(KeyVal) /\ Len(rel["R"]) \in Nat /\ Len(rel["R"]) <= MaxRecs
         /\ DOMAIN rel["R"] = 1 .. Len(rel["R"]) /\ \A i \in 1 .. Len(rel["R"]) : rel["R"][i] \in KeyVal
         /\ rel["S"] \in Seq(KeyVal) /\ Len(rel["S"]) \in Nat /\ Len(rel["S"]) <= MaxRecs
         /\ DOMAIN rel["S"] = 1 .. Len(rel["S"]) /\ \A i \in 1 .. Len(rel["S"]) : rel["S"][i] \in KeyVal
<1>1. "R" \in Rel /\ "S" \in Rel
  BY DEF Rel
<1>2. rel["R"] \in Seq(KeyVal) /\ rel["S"] \in Seq(KeyVal) /\ Len(rel["R"]) <= MaxRecs
      /\ Len(rel["S"]) <= MaxRecs
  BY <1>1 DEF DataOK
<1> QED
  BY <1>2

\* The record after the last is appended to the partition of its value.
LEMMA PartAppend ==
  ASSUME NEW part, NEW p, NEW n \in Nat, PartOK(part, p, n), call.h[rel["R"][n + 1]] = p,
         call.from \in Nat, call.from <= n
  PROVE  PartOK(Append(part, n + 1), p, n + 1)
<1>1. PICK u, k : u = Append(part, n + 1) /\ k = Len(part)
  OBVIOUS
<1>2. /\ part \in Seq(Nat) /\ k \in Nat /\ DOMAIN part = 1 .. k
      /\ u \in Seq(Nat) /\ Len(u) = k + 1 /\ DOMAIN u = 1 .. k + 1 /\ u[k + 1] = n + 1
      /\ \A i \in 1 .. k : u[i] = part[i]
  BY <1>1 DEF PartOK
<1>3. /\ \A i, j \in 1 .. k : i < j => part[i] < part[j]
      /\ \A i \in 1 .. k : i <= part[i]
      /\ \A i : (\E m \in 1 .. k : part[m] = i) <=> i \in call.from + 1 .. n /\ call.h[rel["R"][i]] = p
  BY <1>2 DEF PartOK
<1>4. \A i \in 1 .. k : part[i] \in 1 .. n
  BY <1>3
<1>5. \A i : i \in 1 .. k + 1 <=> i \in 1 .. k \/ i = k + 1
  BY <1>2
<1>6. ASSUME NEW i \in 1 .. k + 1, NEW j \in 1 .. k + 1, i < j PROVE u[i] < u[j]
  <2>1. i \in 1 .. k
    BY <1>2, <1>6
  <2>2. CASE j \in 1 .. k
    BY <1>2, <1>3, <1>6, <2>1, <2>2
  <2>3. CASE j = k + 1
    <3>1. u[i] \in 1 .. n /\ u[j] = n + 1
      BY <1>2, <1>4, <2>1, <2>3
    <3> QED
      BY <3>1
  <2> QED
    BY <1>5, <2>2, <2>3
<1>7. ASSUME NEW i \in 1 .. k + 1 PROVE i <= u[i]
  <2>1. CASE i \in 1 .. k
    BY <1>2, <1>3, <2>1
  <2>2. CASE i = k + 1
    <3>1. CASE k = 0
      BY <1>2, <2>2, <3>1
    <3>2. CASE k # 0
      <4>1. k \in 1 .. k /\ k <= part[k] /\ part[k] \in 1 .. n
        BY <1>2, <1>3, <1>4, <3>2
      <4> QED
        BY <1>2, <2>2, <4>1
    <3> QED
      BY <3>1, <3>2
  <2> QED
    BY <1>5, <2>1, <2>2
<1>8. ASSUME NEW i
      PROVE  (\E m \in 1 .. k + 1 : u[m] = i) <=> i \in call.from + 1 .. n + 1 /\ call.h[rel["R"][i]] = p
  <2>1. (\E m \in 1 .. k + 1 : u[m] = i) <=> i = n + 1 \/ \E m \in 1 .. k : part[m] = i
    BY <1>2, <1>5
  <2>2. i \in call.from + 1 .. n + 1 <=> i \in call.from + 1 .. n \/ i = n + 1
    OBVIOUS
  <2> QED
    BY <1>3, <2>1, <2>2
<1> QED
  BY <1>1, <1>2, <1>6, <1>7, <1>8 DEF PartOK

\* A partition that does not get the record.
LEMMA PartOther ==
  ASSUME NEW part, NEW p, NEW n \in Nat, PartOK(part, p, n), call.h[rel["R"][n + 1]] # p,
         call.from \in Nat, call.from <= n
  PROVE  PartOK(part, p, n + 1)
<1>1. \A i : i \in call.from + 1 .. n + 1 <=> i \in call.from + 1 .. n \/ i = n + 1
  OBVIOUS
<1>2. \A i : (\E m \in DOMAIN part : part[m] = i) <=> i \in call.from + 1 .. n /\ call.h[rel["R"][i]] = p
  BY DEF PartOK
<1>3. \A i : (\E m \in DOMAIN part : part[m] = i) <=> i \in call.from + 1 .. n + 1 /\ call.h[rel["R"][i]] = p
  BY <1>1, <1>2
<1> QED
  BY <1>3 DEF PartOK

LEMMA PartitionNext == DataOK /\ PartitionOK /\ [Next]_vars => PartitionOK'
<1> SUFFICES ASSUME DataOK, PartitionOK, [Next]_vars, call'.op = "Partition"
             PROVE  PartitionOK'
  BY DEF PartitionOK
<1>1. CASE UNCHANGED vars
  BY <1>1 DEF PartitionOK, PartOK, vars
<1>2. CASE call.op = "Partition" /\ Partition
  <2>1. /\ call.h \in [KeyVal -> 0 .. P - 1] /\ pos[1] \in call.from .. Len(rel["R"])
        /\ call.from \in Nat
        /\ DOMAIN out = 0 .. P - 1
        /\ \A p \in 0 .. P - 1 : PartOK(out[p], p, pos[1])
        /\ UNCHANGED <<rel, call>> /\ status = "running"
    BY <1>2 DEF PartitionOK, Partition, data, Running
  <2>2. Len(rel["R"]) \in Nat /\ pos[1] \in Nat /\ \A i \in 1 .. Len(rel["R"]) : rel["R"][i] \in KeyVal
    BY <2>1, RelR
  <2>3. CASE status' = "UNIXERR" /\ UNCHANGED <<pos, out>>
    BY <2>1, <2>3 DEF PartitionOK, PartOK
  <2>4. CASE status' = "OK" /\ allScanned(pos[1] + 1) /\ UNCHANGED <<pos, out>>
    <3>1. pos[1] = Len(rel["R"])
      BY <2>1, <2>2, <2>4 DEF allScanned
    <3> QED
      BY <2>1, <2>4, <3>1 DEF PartitionOK, PartOK
  <2>5. ASSUME ~allScanned(pos[1] + 1),
               out' = [out EXCEPT ![call.h[rel["R"][pos[1] + 1]]] = Append(@, pos[1] + 1)],
               pos' = <<pos[1] + 1, 0>>, UNCHANGED status
        PROVE  PartitionOK'
    <3>1. PICK n, q : n = pos[1] /\ q = call.h[rel["R"][n + 1]]
      OBVIOUS
    <3>2. n \in Nat /\ n + 1 \in 1 .. Len(rel["R"]) /\ rel["R"][n + 1] \in KeyVal
          /\ call.from <= n
      <4>1. n \in Nat /\ ~(n + 1 > Len(rel["R"])) /\ Len(rel["R"]) \in Nat
        BY <2>2, <2>5, <3>1 DEF allScanned
      <4>2. n + 1 \in 1 .. Len(rel["R"])
        BY <4>1
      <4>3. call.from <= n
        BY <2>1, <2>2, <3>1
      <4> QED
        BY <2>2, <4>1, <4>2, <4>3
    <3>3. q \in 0 .. P - 1
      BY <2>1, <3>1, <3>2
    <3>4. out' = [out EXCEPT ![q] = Append(out[q], n + 1)] /\ pos'[1] = n + 1
      BY <2>5, <3>1
    <3>5. ASSUME NEW p \in 0 .. P - 1 PROVE PartOK(out[p], p, pos[1])'
      <4>1. PICK part : part = out[p]
        OBVIOUS
      <4>2. PartOK(part, p, n)
        BY <2>1, <3>1, <3>5, <4>1
      <4>3. PartOK(IF p = q THEN Append(part, n + 1) ELSE part, p, n + 1)
        <5>1. CASE p = q
          BY <2>1, <3>1, <3>2, <4>2, <5>1, PartAppend
        <5>2. CASE p # q
          BY <2>1, <3>1, <3>2, <4>2, <5>2, PartOther
        <5> QED
          BY <5>1, <5>2
      <4>4. PICK part2 : part2 = IF p = q THEN Append(part, n + 1) ELSE part
        OBVIOUS
      <4>5. PartOK(part2, p, n + 1) /\ out'[p] = part2
        BY <2>1, <3>4, <3>5, <4>1, <4>3, <4>4
      <4>6. /\ part2 \in Seq(Nat)
            /\ \A i, j \in DOMAIN part2 : i < j => part2[i] < part2[j]
            /\ \A i \in DOMAIN part2 : i <= part2[i]
        BY <4>5 DEF PartOK
      <4>7. \A i : (\E m \in DOMAIN part2 : part2[m] = i)
                    <=> i \in call.from + 1 .. n + 1 /\ call.h[rel["R"][i]] = p
        BY <4>5 DEF PartOK
      <4>8. pos'[1] = n + 1 /\ call' = call /\ rel' = rel /\ out'[p] = part2
        BY <2>1, <3>4, <4>5
      <4>9. \A i : (\E m \in DOMAIN out'[p] : out'[p][m] = i)
                    <=> i \in call'.from + 1 .. pos'[1] /\ call'.h[rel'["R"][i]] = p
        BY <4>7, <4>8
      <4> QED
        BY <4>6, <4>8, <4>9 DEF PartOK
    <3>6. DOMAIN out' = 0 .. P - 1 /\ pos'[1] \in call.from .. Len(rel'["R"]) /\ status' = "running"
      <4>1. DOMAIN out' = 0 .. P - 1
        BY <2>1, <3>4
      <4>2. pos'[1] \in call.from .. Len(rel["R"])
        BY <2>1, <2>2, <3>2, <3>4
      <4>3. rel' = rel /\ status' = "running"
        BY <2>1, <2>5
      <4> QED
        BY <4>1, <4>2, <4>3
    <3> QED
      BY <2>1, <3>5, <3>6 DEF PartitionOK
  <2> QED
    BY <1>2, <2>3, <2>4, <2>5 DEF Partition, Returns
<1>3. ASSUME NEW c \in PartitionCalls, c.from <= Len(rel["R"]), Begin(c, <<c.from, 0>>, NoParts)
      PROVE  PartitionOK'
  <2>1. /\ call' = c /\ pos'[1] = c.from /\ out' = NoParts /\ status' = "running" /\ UNCHANGED rel
    BY <1>3 DEF Begin, Returns, data
  <2>2. c.h \in [KeyVal -> 0 .. P - 1] /\ c.from \in Nat
    BY <1>3, QueryAssumption DEF PartitionCalls
  <2>3. ASSUME NEW p \in 0 .. P - 1 PROVE PartOK(out[p], p, pos[1])'
    <3>1. out'[p] = <<>>
      BY <2>1, <2>3 DEF NoParts
    <3> QED
      BY <2>1, <2>2, <3>1 DEF PartOK
  <2>4. DOMAIN out' = 0 .. P - 1 /\ pos'[1] \in c.from .. Len(rel'["R"])
    BY <1>3, <2>1, <2>2, RelR DEF NoParts
  <2> QED
    BY <2>1, <2>2, <2>3, <2>4 DEF PartitionOK
<1> QED
  BY <1>1, <1>2, <1>3, partitionSteps

LEMMA PartitionExactNow == DataOK /\ PartitionOK => PartitionExact
<1> SUFFICES ASSUME DataOK, PartitionOK, call.op = "Partition", status = "OK"
             PROVE  PartitionExact
  BY DEF PartitionExact
<1> DEFINE Left == {i \in DOMAIN rel["R"] : i > call.from}
<1>1. /\ call.h \in [KeyVal -> 0 .. P - 1] /\ call.from \in Nat /\ pos[1] = Len(rel["R"])
      /\ \A p \in 0 .. P - 1 : PartOK(out[p], p, pos[1])
  BY DEF PartitionOK
<1>2. /\ Len(rel["R"]) \in Nat /\ Len(rel["R"]) <= MaxRecs /\ MaxRecs \in Nat
      /\ DOMAIN rel["R"] = 1 .. Len(rel["R"]) /\ \A i \in 1 .. Len(rel["R"]) : rel["R"][i] \in KeyVal
  BY RelR, QueryAssumption
<1>3. ASSUME NEW p \in 0 .. P - 1
      PROVE  /\ DOMAIN out[p] = 1 .. Len(out[p]) /\ Len(out[p]) \in Nat /\ out[p] \in Seq(Nat)
             /\ \A m, n \in DOMAIN out[p] : m < n => out[p][m] < out[p][n]
             /\ \A m \in DOMAIN out[p] : m <= out[p][m]
             /\ \A i : (\E m \in DOMAIN out[p] : out[p][m] = i)
                         <=> i \in Left /\ call.h[rel["R"][i]] = p
  BY <1>1, <1>2, <1>3, SMTT(30) DEF PartOK
<1>4. ASSUME NEW p \in 0 .. P - 1
      PROVE  \A i : i \in ToSet(out[p]) <=> i \in Left /\ call.h[rel["R"][i]] = p
  <2>1. \A i : i \in ToSet(out[p]) <=> \E m \in DOMAIN out[p] : out[p][m] = i
    BY DEF ToSet
  <2> QED
    BY <1>3, <2>1
<1>5. ASSUME NEW i \in Left
      PROVE  Cardinality({x \in (0 .. P - 1) \X (1 .. MaxRecs) :
                            x[2] \in DOMAIN out[x[1]] /\ out[x[1]][x[2]] = i}) = 1
  <2>1. PICK p : p = call.h[rel["R"][i]]
    OBVIOUS
  <2>2. p \in 0 .. P - 1
    BY <1>1, <1>2, <1>5, <2>1
  <2>3. PICK m \in DOMAIN out[p] : out[p][m] = i
    BY <1>3, <1>5, <2>1, <2>2
  <2>4. m \in 1 .. MaxRecs
    <3>1. m \in Nat /\ 1 <= m /\ m <= i /\ i \in Nat /\ i <= Len(rel["R"])
      BY <1>2, <1>3, <1>5, <2>2, <2>3
    <3> QED
      BY <1>2, <3>1
  <2>5. ASSUME NEW q \in 0 .. P - 1, NEW k \in 1 .. MaxRecs, k \in DOMAIN out[q], out[q][k] = i
        PROVE  q = p /\ k = m
    <3>1. q = p
      BY <1>3, <2>1, <2>5
    <3>2. k \in Nat /\ m \in Nat /\ i \in Nat
      BY <1>2, <1>5, <2>4, <2>5
    <3>3. ~(k < m) /\ ~(m < k)
      BY <1>3, <2>2, <2>3, <2>5, <3>1, <3>2, SMTT(30)
    <3> QED
      BY <3>1, <3>2, <3>3
  <2> DEFINE X == {x \in (0 .. P - 1) \X (1 .. MaxRecs) :
                     x[2] \in DOMAIN out[x[1]] /\ out[x[1]][x[2]] = i}
  <2>6. X = {<<p, m>>}
    <3>1. <<p, m>> \in X
      BY <2>2, <2>3, <2>4
    <3>2. ASSUME NEW x \in X PROVE x = <<p, m>>
      <4>1. x = <<x[1], x[2]>> /\ x[1] \in 0 .. P - 1 /\ x[2] \in 1 .. MaxRecs
        OBVIOUS
      <4>2. x[1] = p /\ x[2] = m
        BY <2>5, <4>1
      <4> QED
        BY <4>1, <4>2
    <3> QED
      BY <3>1, <3>2
  <2> HIDE DEF X
  <2>7. Cardinality(X) = 1
    BY <2>6, FS_Singleton
  <2> QED
    BY <2>7 DEF X
<1>6. ASSUME NEW p \in 0 .. P - 1
      PROVE  /\ \A m, n \in DOMAIN out[p] : m < n => out[p][m] < out[p][n]
             /\ \A i, j \in Left :
                  rel["R"][i] = rel["R"][j] => (i \in ToSet(out[p]) <=> j \in ToSet(out[p]))
  BY <1>3, <1>4, <1>6
<1>7. ASSUME NEW i \in DOMAIN rel["R"], i \notin Left
      PROVE  Cardinality({x \in (0 .. P - 1) \X (1 .. MaxRecs) :
                            x[2] \in DOMAIN out[x[1]] /\ out[x[1]][x[2]] = i}) = 0
  <2> DEFINE X == {x \in (0 .. P - 1) \X (1 .. MaxRecs) :
                     x[2] \in DOMAIN out[x[1]] /\ out[x[1]][x[2]] = i}
  <2>1. X = {}
    BY <1>3, <1>7
  <2> HIDE DEF X
  <2>2. Cardinality(X) = 0
    BY <2>1, FS_EmptySet
  <2> QED
    BY <2>2 DEF X
<1> QED
  BY <1>5, <1>6, <1>7 DEF PartitionExact

\* A Partition that returns OK has every record that its scan had left in exactly
\* one partition and no other in any, records with equal values in the same one,
\* and each partition in the order of the scan.
THEOREM PartitionExactAlways == Spec => []PartitionExact
<1>1. Init => PartitionOK
  BY DEF Init, NoCall, PartitionOK
<1>2. DataOK /\ PartitionOK /\ [Next]_vars => PartitionOK'
  BY PartitionNext
<1>3. DataOK /\ PartitionOK => PartitionExact
  BY PartitionExactNow
<1> QED
  BY <1>1, <1>2, <1>3, DataInvariant, PTL DEF Spec

-----------------------------------------------------------------------------
(***************************************************************************)
(* What lookup computes.                                                   *)
(***************************************************************************)
Entries == [value : KeyVal, rid : Nat]

\* What lookup has stored, and what it has stored when it has read one pair more.
Stored(got, entry, key) == IF entry.value = key THEN Append(got, entry.rid) ELSE got

\* f holds what a lookup of key has stored after each of the first n pairs.
Collects(f, n, chain, key) ==
  f = [m \in 0 .. n |-> IF m = 0 THEN <<>> ELSE Stored(f[m - 1], chain[m], key)]

LEMMA SomeCollects ==
  ASSUME NEW n \in Nat, NEW chain, NEW key
  PROVE  \E f : Collects(f, n, chain, key)
<1> DEFINE U == {m \in Nat : ~\E f : Collects(f, m, chain, key)}
<1> SUFFICES ASSUME U # {} PROVE FALSE
  OBVIOUS
<1>1. PICK m \in U : \A y \in U : m <= y
  BY Least
<1>2. m \in Nat /\ (~\E f : Collects(f, m, chain, key)) /\ \A y \in U : ~(y < m)
  BY <1>1
<1>3. m # 0
  <2>1. Collects([k \in 0 .. 0 |-> <<>>], 0, chain, key)
    BY DEF Collects
  <2> QED
    BY <1>2, <2>1
<1>4. m - 1 \in Nat /\ m - 1 < m
  BY <1>2, <1>3
<1>5. PICK f : Collects(f, m - 1, chain, key)
  BY <1>2, <1>4
<1>6. \A k \in 0 .. m - 1 : f[k] = IF k = 0 THEN <<>> ELSE Stored(f[k - 1], chain[k], key)
  BY <1>5 DEF Collects
<1> DEFINE g == [k \in 0 .. m |-> IF k < m THEN f[k] ELSE Stored(f[m - 1], chain[m], key)]
<1>7. ASSUME NEW k \in 0 .. m
      PROVE  g[k] = IF k = 0 THEN <<>> ELSE Stored(g[k - 1], chain[k], key)
  <2>1. k # 0 => k - 1 \in 0 .. m /\ k - 1 < m /\ g[k - 1] = f[k - 1]
    BY <1>2
  <2>2. CASE k < m
    <3>1. k \in 0 .. m - 1 /\ g[k] = f[k]
      BY <1>2, <2>2
    <3> QED
      BY <1>6, <2>1, <3>1
  <2>3. CASE k = m
    BY <1>2, <1>3, <2>1, <2>3
  <2> QED
    BY <1>2, <2>2, <2>3
<1>8. g = [k \in 0 .. m |-> g[k]]
  OBVIOUS
<1> HIDE DEF g
<1>9. Collects(g, m, chain, key)
  BY <1>7, <1>8 DEF Collects
<1> QED
  BY <1>2, <1>9

\* got is what a lookup of key stores from the first n pairs of chain: the RIDs
\* of equal values, none twice.
Got(got, n, chain, key) ==
  /\ got \in Seq(Nat) /\ Len(got) <= n
  /\ \A a, b \in DOMAIN got : got[a] = got[b] => a = b
  /\ \A i : (\E a \in DOMAIN got : got[a] = i)
              <=> \E m \in 1 .. n : chain[m].value = key /\ chain[m].rid = i

LEMMA StoredGot ==
  ASSUME NEW chain \in Seq(Entries), \A m, k \in DOMAIN chain : chain[m].rid = chain[k].rid => m = k,
         NEW key, NEW n \in Nat, n + 1 <= Len(chain), NEW got, Got(got, n, chain, key)
  PROVE  Got(Stored(got, chain[n + 1], key), n + 1, chain, key)
<1>1. n + 1 \in DOMAIN chain /\ chain[n + 1] \in Entries /\ chain[n + 1].rid \in Nat
      /\ \A m \in 1 .. n : m \in DOMAIN chain /\ m # n + 1
  <2>1. DOMAIN chain = 1 .. Len(chain) /\ Len(chain) \in Nat
    OBVIOUS
  <2>2. n + 1 \in DOMAIN chain /\ \A m \in 1 .. n : m \in DOMAIN chain /\ m # n + 1
    BY <2>1
  <2>3. chain[n + 1] \in Entries
    BY <2>1, <2>2
  <2> QED
    BY <2>2, <2>3 DEF Entries
<1>2. \A m : m \in 1 .. n + 1 <=> m \in 1 .. n \/ m = n + 1
  OBVIOUS
<1>3. /\ got \in Seq(Nat) /\ Len(got) \in Nat /\ Len(got) <= n
      /\ \A a, b \in DOMAIN got : got[a] = got[b] => a = b
      /\ \A i : (\E a \in DOMAIN got : got[a] = i)
                  <=> \E m \in 1 .. n : chain[m].value = key /\ chain[m].rid = i
  <2>1. got \in Seq(Nat) /\ Len(got) <= n
    BY DEF Got
  <2>2. Len(got) \in Nat
    BY <2>1
  <2> QED
    BY <2>1, <2>2 DEF Got
<1>4. CASE chain[n + 1].value # key
  <2>1. \A i : (\E a \in DOMAIN got : got[a] = i)
                 <=> \E m \in 1 .. n + 1 : chain[m].value = key /\ chain[m].rid = i
    BY <1>2, <1>3, <1>4
  <2>2. Got(got, n + 1, chain, key)
    BY <1>3, <2>1 DEF Got
  <2> QED
    BY <1>4, <2>2 DEF Stored
<1>5. CASE chain[n + 1].value = key
  <2>1. PICK u, k, e : u = Append(got, e) /\ k = Len(got) /\ e = chain[n + 1].rid
    OBVIOUS
  <2>2. /\ k \in Nat /\ DOMAIN got = 1 .. k /\ e \in Nat
        /\ u \in Seq(Nat) /\ Len(u) = k + 1 /\ DOMAIN u = 1 .. k + 1 /\ u[k + 1] = e
        /\ \A a \in 1 .. k : u[a] = got[a]
    BY <1>1, <1>3, <2>1
  <2>3. \A a : a \in 1 .. k + 1 <=> a \in 1 .. k \/ a = k + 1
    BY <2>2
  <2>4. ASSUME NEW a \in 1 .. k PROVE got[a] # e
    <3>1. PICK m \in 1 .. n : chain[m].rid = got[a]
      BY <1>3, <2>2, <2>4
    <3>2. m \in DOMAIN chain /\ m # n + 1 /\ n + 1 \in DOMAIN chain
      BY <1>1, <3>1
    <3> QED
      BY <2>1, <3>1, <3>2
  <2>5. ASSUME NEW a \in 1 .. k + 1, NEW b \in 1 .. k + 1, u[a] = u[b] PROVE a = b
    <3>1. CASE a \in 1 .. k /\ b \in 1 .. k
      BY <1>3, <2>2, <2>5, <3>1
    <3>2. CASE a = k + 1 \/ b = k + 1
      BY <2>2, <2>3, <2>4, <2>5, <3>2
    <3> QED
      BY <2>3, <3>1, <3>2
  <2>6. ASSUME NEW i
        PROVE  (\E a \in 1 .. k + 1 : u[a] = i)
                 <=> \E m \in 1 .. n + 1 : chain[m].value = key /\ chain[m].rid = i
    <3>1. (\E a \in 1 .. k + 1 : u[a] = i) <=> i = e \/ \E a \in 1 .. k : got[a] = i
      BY <2>2, <2>3
    <3>2. (\E m \in 1 .. n + 1 : chain[m].value = key /\ chain[m].rid = i)
            <=> i = e \/ \E m \in 1 .. n : chain[m].value = key /\ chain[m].rid = i
      BY <1>2, <1>5, <2>1
    <3> QED
      BY <1>3, <2>2, <3>1, <3>2
  <2>7. Len(u) <= n + 1
    BY <1>3, <2>1, <2>2
  <2>8. Got(u, n + 1, chain, key)
    BY <2>2, <2>5, <2>6, <2>7 DEF Got
  <2> QED
    BY <1>5, <2>1, <2>8 DEF Stored
<1> QED
  BY <1>4, <1>5

LEMMA CollectsGot ==
  ASSUME NEW chain \in Seq(Entries), \A m, k \in DOMAIN chain : chain[m].rid = chain[k].rid => m = k,
         NEW key, NEW f, Collects(f, Len(chain), chain, key)
  PROVE  Got(f[Len(chain)], Len(chain), chain, key)
<1>1. PICK n \in Nat : n = Len(chain)
  OBVIOUS
<1>2. \A k \in 0 .. n : f[k] = IF k = 0 THEN <<>> ELSE Stored(f[k - 1], chain[k], key)
  BY <1>1 DEF Collects
<1> DEFINE U == {k \in 0 .. n : ~Got(f[k], k, chain, key)}
<1> SUFFICES ASSUME U # {} PROVE FALSE
  BY <1>1
<1>3. U \in SUBSET Nat
  BY <1>1
<1>4. PICK m \in U : \A y \in U : m <= y
  BY <1>3, Least
<1>5. m \in 0 .. n /\ m \in Nat /\ ~Got(f[m], m, chain, key)
  BY <1>1, <1>4
<1>6. Got(<<>>, 0, chain, key)
  BY DEF Got
<1>7. m # 0
  BY <1>2, <1>5, <1>6
<1>8. PICK k \in Nat : m = k + 1
  BY <1>5, <1>7
<1>9. k \in 0 .. n /\ k + 1 <= n /\ k \notin U
  BY <1>4, <1>5, <1>8
<1>10. PICK got : got = f[k]
  OBVIOUS
<1>11. Got(got, k, chain, key)
  BY <1>9, <1>10
<1>12. Got(Stored(got, chain[k + 1], key), k + 1, chain, key)
  BY <1>1, <1>9, <1>11, StoredGot
<1>13. f[m] = Stored(got, chain[k + 1], key)
  <2>1. m - 1 = k
    BY <1>8
  <2> QED
    BY <1>2, <1>5, <1>7, <1>8, <1>10, <2>1
<1> QED
  BY <1>5, <1>8, <1>12, <1>13

\* lookup stores the RIDs of the pairs of the chain that have the value, none
\* twice.
LEMMA LookupGot ==
  ASSUME NEW t, NEW b, t[b].chain \in Seq(Entries), NEW key,
         \A m, k \in DOMAIN t[b].chain : t[b].chain[m].rid = t[b].chain[k].rid => m = k
  PROVE  Got(lookup(t, b, key), Len(t[b].chain), t[b].chain, key)
<1>1. PICK chain : chain = t[b].chain
  OBVIOUS
<1> DEFINE IsFound(f) == f = [n \in 0 .. Len(chain) |->
             IF n = 0 THEN <<>>
             ELSE IF chain[n].value = key THEN Append(f[n - 1], chain[n].rid)
             ELSE f[n - 1]]
<1>2. \A f : IsFound(f) <=> Collects(f, Len(chain), chain, key)
  BY DEF Collects, Stored
<1>3. \E f : IsFound(f)
  <2>1. Len(chain) \in Nat
    BY <1>1
  <2>2. PICK f : Collects(f, Len(chain), chain, key)
    BY <2>1, SomeCollects
  <2> HIDE DEF IsFound
  <2> QED
    BY <1>2, <2>2
<1>4. PICK f : f = CHOOSE g : IsFound(g)
  OBVIOUS
<1>5. IsFound(f)
  BY <1>3, <1>4
<1>6. lookup(t, b, key) = f[Len(chain)]
  BY <1>1, <1>4 DEF lookup
<1>7. Collects(f, Len(chain), chain, key)
  BY <1>2, <1>5
<1>8. Got(f[Len(chain)], Len(chain), chain, key)
  BY <1>1, <1>7, CollectsGot
<1> QED
  BY <1>1, <1>6, <1>8

-----------------------------------------------------------------------------
(***************************************************************************)
(* The join hash table.                                                    *)
(***************************************************************************)
\* A chain holds the records read so far whose values have its hash, each once.
ChainOK(c, b, n) ==
  /\ c.chain \in Seq(Entries) /\ c.bucketCnt = Len(c.chain)
  /\ \A m, k \in DOMAIN c.chain : c.chain[m].rid = c.chain[k].rid => m = k
  /\ \A m \in DOMAIN c.chain : c.chain[m].value = rel["R"][c.chain[m].rid]
  /\ \A i : (\E m \in DOMAIN c.chain : c.chain[m].rid = i)
              <=> i \in 1 .. n /\ hash(call.h, rel["R"][i], i) = b

\* got is what a lookup of record j of S returns.
Answer(got, j) ==
  LET key == rel["S"][j]
      chain == ht[hash(call.h, key, j)].chain
  IN  Got(got, Len(chain), chain, key)

\* The lookups begin when the table is complete.
HashOK ==
  call.op = "joinHashTbl" =>
    /\ call.h \in [Indexed -> 0 .. HTSIZE - 1]
    /\ pos[1] \in 0 .. Len(rel["R"]) /\ pos[2] \in 0 .. Len(rel["S"])
    /\ pos[2] > 0 => pos[1] = Len(rel["R"])
    /\ DOMAIN ht = 0 .. HTSIZE - 1
    /\ \A b \in 0 .. HTSIZE - 1 : ChainOK(ht[b], b, pos[1])
    /\ out \in Seq(Seq(Nat)) /\ Len(out) = pos[2]
    /\ \A j \in 1 .. pos[2] : Answer(out[j], j)

LEMMA HashIndex ==
  ASSUME NEW h \in [Indexed -> 0 .. HTSIZE - 1], NEW key \in KeyVal, NEW i \in 1 .. MaxRecs
  PROVE  hash(h, key, i) \in 0 .. HTSIZE - 1
<1>1. CASE key \in FullKey
  <2>1. <<key, i>> \in Indexed
    BY <1>1 DEF Indexed
  <2> QED
    BY <1>1, <2>1 DEF hash
<1>2. CASE key \notin FullKey
  <2>1. <<key, NUL>> \in Indexed
    BY <1>2 DEF Indexed
  <2> QED
    BY <1>2, <2>1 DEF hash
<1> QED
  BY <1>1, <1>2

\* insert puts a record at the head of the chain of its value.
LEMMA ChainInsert ==
  ASSUME NEW c, NEW b, NEW n \in Nat, ChainOK(c, b, n), rel["R"][n + 1] \in KeyVal,
         hash(call.h, rel["R"][n + 1], n + 1) = b
  PROVE  ChainOK([bucketCnt |-> c.bucketCnt + 1,
                  chain |-> <<[value |-> rel["R"][n + 1], rid |-> n + 1]>> \o c.chain], b, n + 1)
<1>1. PICK old, e, u, k : /\ old = c.chain /\ e = [value |-> rel["R"][n + 1], rid |-> n + 1]
                          /\ u = <<e>> \o old /\ k = Len(old)
  OBVIOUS
<1>2. old \in Seq(Entries) /\ e \in Entries /\ e.rid = n + 1 /\ e.value = rel["R"][n + 1]
  BY <1>1 DEF ChainOK, Entries
<1>3. /\ k \in Nat /\ DOMAIN old = 1 .. k
      /\ u \in Seq(Entries) /\ Len(u) = k + 1 /\ DOMAIN u = 1 .. k + 1 /\ u[1] = e
  BY <1>1, <1>2
<1>4. \A m \in 1 .. k : m + 1 \in 1 .. k + 1 /\ u[m + 1] = old[m]
  BY <1>1, <1>2, <1>3
<1>5. ASSUME NEW m \in 1 .. k + 1, m # 1 PROVE \E x \in 1 .. k : m = x + 1 /\ u[m] = old[x]
  <2>1. m - 1 \in 1 .. k /\ m = (m - 1) + 1
    BY <1>3, <1>5
  <2>2. u[m] = old[m - 1]
    BY <1>4, <2>1
  <2> QED
    BY <2>1, <2>2
<1>6. /\ \A m, x \in 1 .. k : old[m].rid = old[x].rid => m = x
      /\ \A m \in 1 .. k : old[m].value = rel["R"][old[m].rid]
      /\ \A i : (\E m \in 1 .. k : old[m].rid = i)
                  <=> i \in 1 .. n /\ hash(call.h, rel["R"][i], i) = b
  BY <1>1, <1>3 DEF ChainOK
<1>7. \A m \in 1 .. k : old[m].rid \in 1 .. n /\ old[m].rid # n + 1
  <2> SUFFICES ASSUME NEW m \in 1 .. k PROVE old[m].rid \in 1 .. n /\ old[m].rid # n + 1
    OBVIOUS
  <2>1. old[m].rid \in 1 .. n
    BY <1>6
  <2> QED
    BY <2>1
<1>8. ASSUME NEW m \in 1 .. k + 1, NEW x \in 1 .. k + 1, u[m].rid = u[x].rid PROVE m = x
  <2>1. CASE m = 1 \/ x = 1
    <3>1. \A y \in 1 .. k + 1 : y # 1 => u[y].rid # n + 1
      BY <1>5, <1>7
    <3> QED
      BY <1>2, <1>3, <1>8, <2>1, <3>1
  <2>2. CASE m # 1 /\ x # 1
    <3>1. PICK a \in 1 .. k : m = a + 1 /\ u[m] = old[a]
      BY <1>5, <2>2
    <3>2. PICK d \in 1 .. k : x = d + 1 /\ u[x] = old[d]
      BY <1>5, <2>2
    <3>3. a = d
      BY <1>6, <1>8, <3>1, <3>2
    <3> QED
      BY <3>1, <3>2, <3>3
  <2> QED
    BY <2>1, <2>2
<1>9. ASSUME NEW m \in 1 .. k + 1 PROVE u[m].value = rel["R"][u[m].rid]
  <2>1. CASE m = 1
    BY <1>2, <1>3, <2>1
  <2>2. CASE m # 1
    BY <1>5, <1>6, <2>2
  <2> QED
    BY <2>1, <2>2
<1>10. ASSUME NEW i
       PROVE  (\E m \in 1 .. k + 1 : u[m].rid = i)
                <=> i \in 1 .. n + 1 /\ hash(call.h, rel["R"][i], i) = b
  <2>1. 1 \in 1 .. k + 1
    BY <1>3
  <2>2. (\E m \in 1 .. k + 1 : u[m].rid = i) <=> i = n + 1 \/ \E m \in 1 .. k : old[m].rid = i
    <3>1. ASSUME NEW m \in 1 .. k + 1 PROVE u[m].rid = n + 1 \/ \E x \in 1 .. k : old[x].rid = u[m].rid
      BY <1>2, <1>3, <1>5
    <3>2. \A x \in 1 .. k : \E m \in 1 .. k + 1 : u[m].rid = old[x].rid
      BY <1>4
    <3>3. u[1].rid = n + 1
      BY <1>2, <1>3
    <3> QED
      BY <2>1, <3>1, <3>2, <3>3
  <2>3. i \in 1 .. n + 1 <=> i \in 1 .. n \/ i = n + 1
    OBVIOUS
  <2> QED
    BY <1>6, <2>2, <2>3
<1>11. PICK c2 : c2 = [bucketCnt |-> c.bucketCnt + 1, chain |-> u]
  OBVIOUS
<1>12. c2.chain = u /\ c2.bucketCnt = k + 1
  BY <1>1, <1>11 DEF ChainOK
<1>13. ChainOK(c2, b, n + 1)
  BY <1>3, <1>8, <1>9, <1>10, <1>12 DEF ChainOK
<1> QED
  BY <1>1, <1>11, <1>13

\* A chain that does not get the record.
LEMMA ChainOther ==
  ASSUME NEW c, NEW b, NEW n \in Nat, ChainOK(c, b, n),
         hash(call.h, rel["R"][n + 1], n + 1) # b
  PROVE  ChainOK(c, b, n + 1)
<1>1. \A i : i \in 1 .. n + 1 <=> i \in 1 .. n \/ i = n + 1
  OBVIOUS
<1>2. \A i : (\E m \in DOMAIN c.chain : c.chain[m].rid = i)
               <=> i \in 1 .. n /\ hash(call.h, rel["R"][i], i) = b
  BY DEF ChainOK
<1>3. \A i : (\E m \in DOMAIN c.chain : c.chain[m].rid = i)
               <=> i \in 1 .. n + 1 /\ hash(call.h, rel["R"][i], i) = b
  BY <1>1, <1>2
<1> QED
  BY <1>3 DEF ChainOK

LEMMA insertHash ==
  ASSUME DataOK, HashOK, call.op = "joinHashTbl", insert
  PROVE  HashOK'
<1>1. /\ call.h \in [Indexed -> 0 .. HTSIZE - 1]
      /\ pos[1] \in 0 .. Len(rel["R"]) /\ pos[2] \in 0 .. Len(rel["S"])
      /\ pos[2] > 0 => pos[1] = Len(rel["R"])
      /\ DOMAIN ht = 0 .. HTSIZE - 1
      /\ \A b \in 0 .. HTSIZE - 1 : ChainOK(ht[b], b, pos[1])
      /\ out \in Seq(Seq(Nat)) /\ Len(out) = pos[2]
  BY DEF HashOK
<1>2. UNCHANGED <<rel, call, status, out>> /\ pos[1] + 1 <= Len(rel["R"])
  BY DEF insert, data
<1>3. PICK n, key, q : n = pos[1] /\ key = rel["R"][n + 1] /\ q = hash(call.h, key, n + 1)
  OBVIOUS
<1>4. /\ n \in Nat /\ n + 1 \in 1 .. Len(rel["R"]) /\ n + 1 \in 1 .. MaxRecs /\ key \in KeyVal
      /\ pos[2] = 0 /\ 0 \in 0 .. Len(rel["S"])
  <2>1. Len(rel["R"]) \in Nat /\ Len(rel["R"]) <= MaxRecs /\ MaxRecs \in Nat /\ Len(rel["S"]) \in Nat
    BY RelR, QueryAssumption
  <2>2. n \in Nat /\ n + 1 \in 1 .. Len(rel["R"]) /\ n + 1 \in 1 .. MaxRecs
    BY <1>1, <1>2, <1>3, <2>1
  <2>3. pos[2] = 0 /\ 0 \in 0 .. Len(rel["S"])
    BY <1>1, <1>2, <2>1
  <2> QED
    BY <1>3, <2>2, <2>3, RelR
<1>5. q \in 0 .. HTSIZE - 1
  BY <1>1, <1>3, <1>4, HashIndex
<1> DEFINE more(c) == [bucketCnt |-> c.bucketCnt + 1,
                       chain |-> <<[value |-> key, rid |-> n + 1]>> \o c.chain]
<1>6. ht' = [ht EXCEPT ![q] = more(ht[q])] /\ pos' = <<n + 1, 0>>
  BY <1>3 DEF insert, inserted
<1>7. ASSUME NEW b \in 0 .. HTSIZE - 1 PROVE ChainOK(ht[b], b, pos[1])'
  <2>1. PICK c, c2 : c = ht[b] /\ c2 = IF b = q THEN more(c) ELSE c
    OBVIOUS
  <2>2. ChainOK(c, b, n)
    BY <1>1, <1>3, <1>7, <2>1
  <2>3. ChainOK(c2, b, n + 1)
    <3>1. CASE b = q
      <4>1. ChainOK(more(c), b, n + 1)
        BY <1>3, <1>4, <2>2, <3>1, ChainInsert
      <4> QED
        BY <2>1, <3>1, <4>1
    <3>2. CASE b # q
      <4>1. ChainOK(c, b, n + 1)
        BY <1>3, <1>4, <2>2, <3>2, ChainOther
      <4> QED
        BY <2>1, <3>2, <4>1
    <3> QED
      BY <3>1, <3>2
  <2>4. ht'[b] = c2
    <3> HIDE DEF more
    <3> QED
      BY <1>1, <1>6, <1>7, <2>1
  <2>5. pos'[1] = n + 1 /\ call'.h = call.h /\ rel' = rel
    BY <1>2, <1>6
  <2>6. /\ c2.chain \in Seq(Entries) /\ c2.bucketCnt = Len(c2.chain)
        /\ \A m, k \in DOMAIN c2.chain : c2.chain[m].rid = c2.chain[k].rid => m = k
        /\ \A m \in DOMAIN c2.chain : c2.chain[m].value = rel["R"][c2.chain[m].rid]
    BY <2>3 DEF ChainOK
  <2>7. \A i : (\E m \in DOMAIN c2.chain : c2.chain[m].rid = i)
                 <=> i \in 1 .. n + 1 /\ hash(call.h, rel["R"][i], i) = b
    BY <2>3 DEF ChainOK
  <2>8. \A i : (\E m \in DOMAIN ht'[b].chain : ht'[b].chain[m].rid = i)
                 <=> i \in 1 .. pos'[1] /\ hash(call'.h, rel'["R"][i], i) = b
    BY <2>4, <2>5, <2>7
  <2> QED
    BY <2>4, <2>5, <2>6, <2>8 DEF ChainOK
<1> HIDE DEF more
<1>8. pos'[1] = n + 1 /\ pos'[2] = 0 /\ DOMAIN ht' = 0 .. HTSIZE - 1
  BY <1>1, <1>6
<1>9. pos'[1] \in 0 .. Len(rel'["R"]) /\ pos'[2] \in 0 .. Len(rel'["S"]) /\ ~(pos'[2] > 0)
  BY <1>2, <1>4, <1>8
<1>10. out' \in Seq(Seq(Nat)) /\ Len(out') = pos'[2]
  BY <1>1, <1>2, <1>4, <1>8
<1>11. 1 .. pos'[2] = {}
  BY <1>8
<1> QED
  BY <1>1, <1>2, <1>7, <1>8, <1>9, <1>10, <1>11 DEF HashOK

LEMMA lookupsHash ==
  ASSUME DataOK, HashOK, call.op = "joinHashTbl", lookups
  PROVE  HashOK'
<1>1. /\ call.h \in [Indexed -> 0 .. HTSIZE - 1]
      /\ pos[1] \in 0 .. Len(rel["R"]) /\ pos[2] \in 0 .. Len(rel["S"])
      /\ DOMAIN ht = 0 .. HTSIZE - 1
      /\ \A b \in 0 .. HTSIZE - 1 : ChainOK(ht[b], b, pos[1])
      /\ out \in Seq(Seq(Nat)) /\ Len(out) = pos[2]
      /\ \A j \in 1 .. pos[2] : Answer(out[j], j)
  BY DEF HashOK
<1>2. UNCHANGED <<rel, call, ht>> /\ pos[1] = Len(rel["R"])
  BY DEF lookups, data
<1>3. CASE UNCHANGED <<pos, out>>
  BY <1>2, <1>3 DEF HashOK, ChainOK, Answer
<1>4. ASSUME pos[2] + 1 <= Len(rel["S"]),
             out' = Append(out, lookup(ht, hash(call.h, rel["S"][pos[2] + 1], pos[2] + 1),
                                       rel["S"][pos[2] + 1])),
             pos' = <<pos[1], pos[2] + 1>>
      PROVE  HashOK'
  <2>1. PICK n, key, q, got : /\ n = pos[2] /\ key = rel["S"][n + 1] /\ q = hash(call.h, key, n + 1)
                              /\ got = lookup(ht, q, key)
    OBVIOUS
  <2>2. n \in Nat /\ n + 1 \in 1 .. Len(rel["S"]) /\ n + 1 \in 1 .. MaxRecs /\ key \in KeyVal
    <3>1. Len(rel["S"]) \in Nat /\ Len(rel["S"]) <= MaxRecs /\ MaxRecs \in Nat
      BY RelR, QueryAssumption
    <3>2. n \in Nat /\ n + 1 \in 1 .. Len(rel["S"]) /\ n + 1 \in 1 .. MaxRecs
      BY <1>1, <1>4, <2>1, <3>1
    <3> QED
      BY <2>1, <3>2, RelR
  <2>3. q \in 0 .. HTSIZE - 1
    BY <1>1, <2>1, <2>2, HashIndex
  <2>4. Got(got, Len(ht[q].chain), ht[q].chain, key)
    <3>1. /\ ht[q].chain \in Seq(Entries)
          /\ \A m, k \in DOMAIN ht[q].chain : ht[q].chain[m].rid = ht[q].chain[k].rid => m = k
      BY <1>1, <2>3 DEF ChainOK
    <3> QED
      BY <2>1, <3>1, LookupGot
  <2>5. Answer(got, n + 1) /\ got \in Seq(Nat)
    <3>1. got \in Seq(Nat)
      BY <2>4 DEF Got
    <3>2. rel["S"][n + 1] = key /\ hash(call.h, rel["S"][n + 1], n + 1) = q
      BY <2>1
    <3> QED
      BY <2>4, <3>1, <3>2 DEF Answer
  <2>6. out' = Append(out, got) /\ pos'[1] = pos[1] /\ pos'[2] = n + 1
    BY <1>4, <2>1
  <2>7. /\ out' \in Seq(Seq(Nat)) /\ Len(out') = n + 1 /\ out'[n + 1] = got
        /\ \A j \in 1 .. n : out'[j] = out[j]
    BY <1>1, <2>1, <2>5, <2>6
  <2>8. ASSUME NEW j \in 1 .. n + 1 PROVE Answer(out[j], j)'
    <3>1. PICK o : o = out'[j]
      OBVIOUS
    <3>2. Answer(o, j)
      <4>1. CASE j \in 1 .. n
        BY <1>1, <2>1, <2>7, <3>1, <4>1
      <4>2. CASE j = n + 1
        BY <2>5, <2>7, <3>1, <4>2
      <4> QED
        BY <2>2, <2>8, <4>1, <4>2
    <3> QED
      BY <1>2, <3>1, <3>2 DEF Answer
  <2>9. ASSUME NEW b \in 0 .. HTSIZE - 1 PROVE ChainOK(ht[b], b, pos[1])'
    BY <1>1, <1>2, <2>6, <2>9 DEF ChainOK
  <2>10. /\ pos'[1] \in 0 .. Len(rel'["R"]) /\ pos'[2] \in 0 .. Len(rel'["S"])
         /\ pos'[1] = Len(rel'["R"])
    BY <1>1, <1>2, <2>2, <2>6
  <2> QED
    BY <1>1, <1>2, <2>6, <2>7, <2>8, <2>9, <2>10 DEF HashOK
<1> QED
  BY <1>3, <1>4 DEF lookups

LEMMA HashNext == DataOK /\ HashOK /\ [Next]_vars => HashOK'
<1> SUFFICES ASSUME DataOK, HashOK, [Next]_vars, call'.op = "joinHashTbl"
             PROVE  HashOK'
  BY DEF HashOK
<1>1. CASE UNCHANGED vars
  BY <1>1 DEF HashOK, ChainOK, Answer, vars
<1>2. CASE call.op = "joinHashTbl" /\ (insert \/ lookups)
  BY <1>2, insertHash, lookupsHash
<1>3. ASSUME NEW c \in HashCalls, Begin(c, <<0, 0>>, <<>>)
      PROVE  HashOK'
  <2>1. /\ call' = c /\ pos'[1] = 0 /\ pos'[2] = 0 /\ out' = <<>> /\ UNCHANGED rel
        /\ ht' = EmptyTable
    BY <1>3 DEF Begin, data, DataOK
  <2>2. c.h \in [Indexed -> 0 .. HTSIZE - 1]
    BY <1>3 DEF HashCalls
  <2>3. ASSUME NEW b \in 0 .. HTSIZE - 1 PROVE ChainOK(ht[b], b, pos[1])'
    <3>1. ht'[b].chain = <<>> /\ ht'[b].bucketCnt = 0
      BY <2>1, <2>3 DEF EmptyTable
    <3>2. DOMAIN ht'[b].chain = {} /\ 1 .. pos'[1] = {} /\ Len(ht'[b].chain) = 0
          /\ ht'[b].chain \in Seq(Entries)
      BY <2>1, <3>1
    <3> QED
      BY <3>1, <3>2 DEF ChainOK
  <2>4. /\ DOMAIN ht' = 0 .. HTSIZE - 1 /\ pos'[1] \in 0 .. Len(rel'["R"])
        /\ pos'[2] \in 0 .. Len(rel'["S"]) /\ 1 .. pos'[2] = {} /\ ~(pos'[2] > 0)
    BY <2>1, RelR DEF EmptyTable
  <2>5. out' \in Seq(Seq(Nat)) /\ Len(out') = pos'[2]
    BY <2>1
  <2> QED
    BY <2>1, <2>2, <2>3, <2>4, <2>5 DEF HashOK
<1> QED
  BY <1>1, <1>2, <1>3, hashSteps

LEMMA HashLookupExactNow == DataOK /\ HashOK => HashLookupExact
<1> SUFFICES ASSUME DataOK, HashOK, call.op = "joinHashTbl", NEW j \in DOMAIN out
             PROVE  LET key == rel["S"][j]
                        same == {i \in DOMAIN rel["R"] : rel["R"][i] = key}
                    IN  /\ IsInjective(out[j])
                        /\ ToSet(out[j]) \subseteq same
                        /\ {i \in same : key \notin FullKey \/ i = j} \subseteq ToSet(out[j])
                        /\ Len(out[j]) <= ht[hash(call.h, key, j)].bucketCnt
  BY DEF HashLookupExact
<1>1. PICK key, q, c, got : /\ key = rel["S"][j] /\ q = hash(call.h, key, j)
                            /\ c = ht[q] /\ got = out[j]
  OBVIOUS
<1>2. j \in 1 .. pos[2] /\ pos[2] \in Nat /\ pos[2] <= Len(rel["S"]) /\ pos[1] = Len(rel["R"])
  <2>1. pos[2] \in Nat /\ pos[2] <= Len(rel["S"]) /\ j \in 1 .. pos[2]
    BY RelR DEF HashOK
  <2>2. pos[2] > 0
    BY <2>1
  <2> QED
    BY <2>1, <2>2 DEF HashOK
<1>3. j \in 1 .. MaxRecs /\ key \in KeyVal
  <2>1. j \in 1 .. Len(rel["S"]) /\ j \in 1 .. MaxRecs
    BY <1>2, RelR, QueryAssumption
  <2> QED
    BY <1>1, <2>1, RelR
<1>4. q \in 0 .. HTSIZE - 1
  BY <1>1, <1>3, HashIndex DEF HashOK
<1>5. Got(got, Len(c.chain), c.chain, key)
  BY <1>1, <1>2 DEF HashOK, Answer
<1>6. ChainOK(c, q, Len(rel["R"]))
  BY <1>1, <1>2, <1>4 DEF HashOK
<1>7. /\ c.chain \in Seq(Entries) /\ DOMAIN c.chain = 1 .. Len(c.chain) /\ c.bucketCnt = Len(c.chain)
      /\ \A m \in DOMAIN c.chain : c.chain[m].value = rel["R"][c.chain[m].rid]
      /\ \A i : (\E m \in DOMAIN c.chain : c.chain[m].rid = i)
                  <=> i \in DOMAIN rel["R"] /\ hash(call.h, rel["R"][i], i) = q
  BY <1>6, RelR DEF ChainOK
<1>8. \A i : i \in ToSet(got) <=> \E a \in DOMAIN got : got[a] = i
  BY DEF ToSet
<1>9. \A i : i \in ToSet(got) <=> \E m \in DOMAIN c.chain : c.chain[m].value = key /\ c.chain[m].rid = i
  <2>1. \A i : (\E a \in DOMAIN got : got[a] = i)
                 <=> \E m \in 1 .. Len(c.chain) : c.chain[m].value = key /\ c.chain[m].rid = i
    BY <1>5 DEF Got
  <2> QED
    BY <1>7, <1>8, <2>1
<1>10. IsInjective(got) /\ Len(got) <= c.bucketCnt
  BY <1>5, <1>7 DEF Got, IsInjective
<1>11. ASSUME NEW i \in ToSet(got) PROVE i \in DOMAIN rel["R"] /\ rel["R"][i] = key
  BY <1>7, <1>9, <1>11
<1>12. ASSUME NEW i \in DOMAIN rel["R"], rel["R"][i] = key, key \notin FullKey \/ i = j
       PROVE  i \in ToSet(got)
  <2>1. hash(call.h, rel["R"][i], i) = q
    BY <1>1, <1>12 DEF hash
  <2> QED
    BY <1>7, <1>9, <1>12, <2>1
<1> QED
  BY <1>1, <1>10, <1>11, <1>12

\* lookup returns only records with the value asked for, none twice, no more than
\* the array sized by the chain's count holds, and all of them but for values
\* without a NUL.
THEOREM HashLookupExactAlways == Spec => []HashLookupExact
<1>1. Init => HashOK
  BY DEF Init, NoCall, HashOK
<1>2. DataOK /\ HashOK /\ [Next]_vars => HashOK'
  BY HashNext
<1>3. DataOK /\ HashOK => HashLookupExact
  BY HashLookupExactNow
<1> QED
  BY <1>1, <1>2, <1>3, DataInvariant, PTL DEF Spec

-----------------------------------------------------------------------------
(***************************************************************************)
(* The nested loops join.                                                  *)
(***************************************************************************)
\* The difference of two ints wraps at most once.
LEMMA ModOnce ==
  ASSUME NEW x \in Int, NEW N \in Nat \ {0}
  PROVE  /\ -N <= x /\ x < 0 => x % N = x + N
         /\ 0 <= x /\ x < N => x % N = x
         /\ N <= x /\ x < 2 * N => x % N = x - N
OBVIOUS

LEMMA WrapZero ==
  ASSUME NEW d \in Int, -(2 * INT_MAX + 1) <= d, d <= 2 * INT_MAX + 1
  PROVE  Wrap(d) \in Int /\ (Wrap(d) = 0 <=> d = 0)
<1>1. PICK x, N : x = d + INT_MAX + 1 /\ N = 2 * INT_MAX + 2
  OBVIOUS
<1>2. INT_MAX \in Nat /\ x \in Int /\ N \in Nat \ {0} /\ -N <= x /\ x < 2 * N
  BY <1>1, QueryAssumption
<1>3. Wrap(d) = (x % N) - INT_MAX - 1
  BY <1>1 DEF Wrap
<1>4. CASE x < 0
  <2>1. x % N = x + N
    BY <1>2, <1>4, ModOnce
  <2> QED
    BY <1>1, <1>2, <1>3, <1>4, <2>1
<1>5. CASE 0 <= x /\ x < N
  <2>1. x % N = x
    BY <1>2, <1>5, ModOnce
  <2> QED
    BY <1>1, <1>2, <1>3, <1>5, <2>1
<1>6. CASE N <= x
  <2>1. x % N = x - N
    BY <1>2, <1>6, ModOnce
  <2> QED
    BY <1>1, <1>2, <1>3, <1>6, <2>1
<1> QED
  BY <1>2, <1>4, <1>5, <1>6

\* The inner scan, whose filter is the outer value, decides the comparison of the
\* query, for = and <> even if the difference overflows.
LEMMA MatchExact ==
  ASSUME NEW a \in KeyVal, NEW b \in KeyVal, NEW op \in Operator,
         op \in {"EQ", "NE"} \/ Fits(a, b)
  PROVE  matchRec(b, a, myop(op)) <=> Compares(op, a, b)
<1>1. a \in Int /\ b \in Int /\ INT_MAX \in Nat
      /\ -(2 * INT_MAX + 1) <= b - a /\ b - a <= 2 * INT_MAX + 1
  BY QueryAssumption
<1>2. PICK w : w = Wrap(b - a)
  OBVIOUS
<1>3. w \in Int /\ (w = 0 <=> a = b)
  <2>1. w \in Int /\ (w = 0 <=> b - a = 0)
    BY <1>1, <1>2, WrapZero
  <2> QED
    BY <1>1, <2>1
<1>4. CASE op \in {"EQ", "NE"}
  <2>1. myop(op) = op /\ (matchRec(b, a, op) <=> IF op = "EQ" THEN w = 0 ELSE w # 0)
    BY <1>2, <1>4 DEF myop, matchRec
  <2>2. Compares(op, a, b) <=> IF op = "EQ" THEN a = b ELSE a # b
    BY <1>1, <1>4 DEF Compares
  <2> QED
    BY <1>3, <1>4, <2>1, <2>2
<1>5. CASE op \notin {"EQ", "NE"}
  <2>1. w = b - a
    BY <1>2, <1>5 DEF Fits
  <2>2. op \in {"LT", "LTE", "GT", "GTE"}
    BY <1>5 DEF Operator
  <2>3. CASE op = "LT"
    BY <1>1, <1>2, <2>1, <2>3 DEF myop, matchRec, Compares
  <2>4. CASE op = "LTE"
    BY <1>1, <1>2, <2>1, <2>4 DEF myop, matchRec, Compares
  <2>5. CASE op = "GT"
    BY <1>1, <1>2, <2>1, <2>5 DEF myop, matchRec, Compares
  <2>6. CASE op = "GTE"
    BY <1>1, <1>2, <2>1, <2>6 DEF myop, matchRec, Compares
  <2> QED
    BY <2>2, <2>3, <2>4, <2>5, <2>6
<1> QED
  BY <1>4, <1>5

\* Pairs of records, those that satisfy the operator, and of these the ones that
\* the scans have reached at positions i and j.
Pairs == (DOMAIN rel[call.rel1]) \X (DOMAIN rel[call.rel2])
Wanted == {x \in Pairs : Compares(call.cmp, rel[call.rel1][x[1]], rel[call.rel2][x[2]])}
Reached(i, j) == {x \in Wanted : x[1] < i \/ (x[1] = i /\ x[2] <= j)}

\* What JoinExact asks for: the relations of the projection are those of the join,
\* and the comparison does not overflow.
Sound ==
  /\ \A n \in DOMAIN call.proj : call.proj[n].rel \in {call.rel1, call.rel2}
  /\ \/ call.cmp \in {"EQ", "NE"}
     \/ \A x \in Pairs : Fits(rel[call.rel1][x[1]], rel[call.rel2][x[2]])

\* o has a record for each pair of D, and the record of each as often as D has it.
Counted(o, D) ==
  /\ o \in Seq([DOMAIN call.proj -> Int])
  /\ Len(o) = Cardinality(D)
  /\ \A w : Cardinality({n \in DOMAIN o : o[n] = w}) = Cardinality({x \in D : Projected(x) = w})

JoinOK ==
  call.op = "QU_NL_Join" =>
    /\ call.cmp \in Operator /\ call.proj \in Seq(AttrName)
    /\ call.rel1 = "R" /\ call.rel2 \in Rel
    /\ pos[1] \in Nat /\ pos[2] \in 0 .. Len(rel[call.rel2])
    /\ pos[1] = 0 => out = <<>> /\ pos[2] = 0 /\ status # "OK"
    /\ pos[1] = 1 /\ pos[2] = 0 => out = <<>>
    /\ status \notin {"running", "OK"} => out = <<>>
    /\ status = "OK" => pos[1] > Len(rel[call.rel1])
    /\ Sound => Counted(out, Reached(pos[1], pos[2]))

LEMMA JoinRels ==
  ASSUME DataOK, call.rel1 = "R", call.rel2 \in Rel
  PROVE  /\ rel[call.rel1] \in Seq(KeyVal) /\ rel[call.rel2] \in Seq(KeyVal)
         /\ Len(rel[call.rel1]) \in Nat /\ DOMAIN rel[call.rel1] = 1 .. Len(rel[call.rel1])
         /\ Len(rel[call.rel2]) \in Nat /\ DOMAIN rel[call.rel2] = 1 .. Len(rel[call.rel2])
         /\ IsFiniteSet(Pairs) /\ IsFiniteSet(Wanted) /\ \A i, j : IsFiniteSet(Reached(i, j))
<1>1. rel[call.rel1] \in Seq(KeyVal) /\ rel[call.rel2] \in Seq(KeyVal)
  BY DEF DataOK, Rel
<1>2. PICK r, q : r = rel[call.rel1] /\ q = rel[call.rel2]
  OBVIOUS
<1>3. Len(r) \in Nat /\ DOMAIN r = 1 .. Len(r) /\ Len(q) \in Nat /\ DOMAIN q = 1 .. Len(q)
  BY <1>1, <1>2
<1>4. IsFiniteSet(DOMAIN r) /\ IsFiniteSet(DOMAIN q)
  <2>1. 1 \in Int /\ Len(r) \in Int /\ Len(q) \in Int
    BY <1>3
  <2> QED
    BY <1>3, <2>1, FS_Interval
<1>5. IsFiniteSet(Pairs)
  BY <1>2, <1>4, FS_Product DEF Pairs
<1>6. Wanted \subseteq Pairs /\ \A i, j : Reached(i, j) \subseteq Pairs
  BY DEF Wanted, Reached
<1>7. IsFiniteSet(Wanted) /\ \A i, j : IsFiniteSet(Reached(i, j))
  BY <1>5, <1>6, FS_Subset
<1> QED
  BY <1>1, <1>2, <1>3, <1>5, <1>7

\* The record of one pair more is appended.
LEMMA CountedAppend ==
  ASSUME NEW o, NEW D, Counted(o, D), IsFiniteSet(D), NEW x, x \notin D,
         Projected(x) \in [DOMAIN call.proj -> Int]
  PROVE  Counted(Append(o, Projected(x)), D \cup {x})
<1>1. PICK u, k, v : v = Projected(x) /\ u = Append(o, v) /\ k = Len(o)
  OBVIOUS
<1>2. o \in Seq([DOMAIN call.proj -> Int]) /\ v \in [DOMAIN call.proj -> Int]
  BY <1>1 DEF Counted
<1>3. /\ k \in Nat /\ DOMAIN o = 1 .. k
      /\ u \in Seq([DOMAIN call.proj -> Int]) /\ Len(u) = k + 1 /\ DOMAIN u = 1 .. k + 1
      /\ u[k + 1] = v /\ \A n \in 1 .. k : u[n] = o[n]
  BY <1>1, <1>2
<1>4. Cardinality(D \cup {x}) = k + 1
  <2>1. Cardinality(D \cup {x}) = Cardinality(D) + 1
    BY FS_AddElement
  <2> QED
    BY <1>1, <2>1 DEF Counted
<1>5. \A n : n \in 1 .. k + 1 <=> n \in 1 .. k \/ n = k + 1
  BY <1>3
<1>6. ~(k + 1 \in 1 .. k) /\ IsFiniteSet(1 .. k)
  <2>1. 1 \in Int /\ k \in Int
    BY <1>3
  <2> QED
    BY <1>3, <2>1, FS_Interval
<1>7. ASSUME NEW w
      PROVE  Cardinality({n \in 1 .. k + 1 : u[n] = w})
               = Cardinality({y \in D \cup {x} : Projected(y) = w})
  <2>1. PICK A, B : A = {n \in 1 .. k : o[n] = w} /\ B = {y \in D : Projected(y) = w}
    OBVIOUS
  <2>2. Cardinality(A) = Cardinality(B)
    BY <1>3, <2>1 DEF Counted
  <2>3. IsFiniteSet(A) /\ IsFiniteSet(B) /\ k + 1 \notin A /\ x \notin B
    <3>1. A \subseteq 1 .. k /\ B \subseteq D
      BY <2>1
    <3> QED
      BY <1>6, <3>1, FS_Subset
  <2>4. CASE v = w
    <3>1. {n \in 1 .. k + 1 : u[n] = w} = A \cup {k + 1}
      BY <1>3, <1>5, <2>1, <2>4
    <3>2. {y \in D \cup {x} : Projected(y) = w} = B \cup {x}
      BY <1>1, <2>1, <2>4
    <3>3. /\ Cardinality(A \cup {k + 1}) = Cardinality(A) + 1
          /\ Cardinality(B \cup {x}) = Cardinality(B) + 1
      BY <2>3, FS_AddElement
    <3> QED
      BY <2>2, <3>1, <3>2, <3>3
  <2>5. CASE v # w
    <3>1. {n \in 1 .. k + 1 : u[n] = w} = A
      BY <1>3, <1>5, <2>1, <2>5
    <3>2. {y \in D \cup {x} : Projected(y) = w} = B
      BY <1>1, <2>1, <2>5
    <3> QED
      BY <2>2, <3>1, <3>2
  <2> QED
    BY <2>4, <2>5
<1>8. Counted(u, D \cup {x})
  BY <1>3, <1>4, <1>7 DEF Counted
<1> QED
  BY <1>1, <1>8

LEMMA CountedNone == Counted(<<>>, {})
<1>1. Cardinality({}) = 0 /\ DOMAIN <<>> = {} /\ Len(<<>>) = 0
      /\ <<>> \in Seq([DOMAIN call.proj -> Int])
  BY FS_EmptySet
<1>2. ASSUME NEW w
      PROVE  Cardinality({n \in DOMAIN <<>> : <<>>[n] = w}) = Cardinality({x \in {} : Projected(x) = w})
  <2>1. {n \in DOMAIN <<>> : <<>>[n] = w} = {} /\ {x \in {} : Projected(x) = w} = {}
    BY <1>1
  <2> QED
    BY <2>1
<1> QED
  BY <1>1, <1>2 DEF Counted

\* The record that is put together for a pair is its projection.
LEMMA outputRecProjected ==
  ASSUME DataOK, call.rel1 = "R", call.rel2 \in Rel, call.proj \in Seq(AttrName), Sound,
         NEW i \in DOMAIN rel[call.rel1], NEW j \in DOMAIN rel[call.rel2]
  PROVE  /\ outputRec(i, j) = Projected(<<i, j>>)
         /\ Projected(<<i, j>>) \in [DOMAIN call.proj -> Int]
<1>1. i \in Int /\ j \in Int /\ rel[call.rel1][i] \in Int /\ rel[call.rel2][j] \in Int
  <2>1. i \in Int /\ j \in Int
    BY JoinRels
  <2>2. rel[call.rel1][i] \in KeyVal /\ rel[call.rel2][j] \in KeyVal
    BY JoinRels
  <2>3. ASSUME NEW v \in KeyVal PROVE v \in Int
    BY QueryAssumption
  <2> QED
    BY <2>1, <2>2, <2>3
<1>2. PICK x : x = <<i, j>>
  OBVIOUS
<1>3. x[1] = i /\ x[2] = j
  BY <1>2
<1>4. ASSUME NEW n \in DOMAIN call.proj
      PROVE  /\ outputRec(i, j)[n] = Projected(x)[n]
             /\ Projected(x)[n] \in Int
  <2>1. call.proj[n].rel \in {call.rel1, call.rel2}
    BY <1>4 DEF Sound
  <2>2. CASE call.proj[n].rel = call.rel1
    BY <1>1, <1>3, <1>4, <2>2 DEF outputRec, Projected, field
  <2>3. CASE call.proj[n].rel # call.rel1
    BY <1>1, <1>3, <1>4, <2>1, <2>3 DEF outputRec, Projected, field
  <2> QED
    BY <2>2, <2>3
<1>5. /\ outputRec(i, j) = [n \in DOMAIN call.proj |-> outputRec(i, j)[n]]
      /\ Projected(x) = [n \in DOMAIN call.proj |-> Projected(x)[n]]
  BY DEF outputRec, Projected
<1> QED
  BY <1>2, <1>4, <1>5

\* A step that leaves the relations and the call alone.
LEMMA SameJoin ==
  ASSUME UNCHANGED <<rel, call>>
  PROVE  /\ Pairs' = Pairs /\ Wanted' = Wanted /\ Sound' = Sound
         /\ \A x : Projected(x)' = Projected(x)
         /\ Reached(pos[1], pos[2])' = Reached(pos'[1], pos'[2])
         /\ Counted(out', Reached(pos'[1], pos'[2])) => Counted(out, Reached(pos[1], pos[2]))'
<1>1. Pairs' = Pairs
  BY DEF Pairs
<1>2. Wanted' = Wanted
  BY <1>1 DEF Wanted
<1>3. Sound' = Sound
  BY <1>1 DEF Sound
<1>4. ASSUME NEW x PROVE Projected(x)' = Projected(x)
  BY DEF Projected, field
<1>5. Reached(pos[1], pos[2])' = Reached(pos'[1], pos'[2])
  BY <1>2 DEF Reached
<1>6. ASSUME Counted(out', Reached(pos'[1], pos'[2])) PROVE Counted(out, Reached(pos[1], pos[2]))'
  <2>1. PICK o, D : o = out' /\ D = Reached(pos'[1], pos'[2])
    OBVIOUS
  <2>2. Counted(o, D)
    BY <1>6, <2>1
  <2>3. o \in Seq([DOMAIN call'.proj -> Int]) /\ Len(o) = Cardinality(D)
    BY <2>2 DEF Counted
  <2>4. ASSUME NEW w
        PROVE  Cardinality({n \in DOMAIN o : o[n] = w}) = Cardinality({x \in D : Projected(x)' = w})
    <3>1. {x \in D : Projected(x)' = w} = {x \in D : Projected(x) = w}
      BY <1>4
    <3> QED
      BY <2>2, <3>1 DEF Counted
  <2> QED
    BY <1>5, <2>1, <2>3, <2>4 DEF Counted
<1> QED
  BY <1>1, <1>2, <1>3, <1>4, <1>5, <1>6

\* The pairs reached when the scans move on.
LEMMA ReachedSteps ==
  ASSUME DataOK, call.rel1 = "R", call.rel2 \in Rel,
         NEW i \in Nat, NEW j \in 0 .. Len(rel[call.rel2])
  PROVE  /\ i = 0 => Reached(i, j) = {} /\ Reached(1, 0) = {}
         /\ i > Len(rel[call.rel1]) => Reached(i, j) = Wanted
         /\ j = Len(rel[call.rel2]) => Reached(i + 1, 0) = Reached(i, j)
         /\ <<i, j + 1>> \notin Reached(i, j)
         /\ Reached(i, j + 1) = IF <<i, j + 1>> \in Wanted THEN Reached(i, j) \cup {<<i, j + 1>>}
                                ELSE Reached(i, j)
<1>1. PICK m, k : m = Len(rel[call.rel1]) /\ k = Len(rel[call.rel2])
  OBVIOUS
<1>2. m \in Nat /\ k \in Nat /\ j \in Nat /\ j <= k
  BY <1>1, JoinRels
<1>3. ASSUME NEW x \in Wanted
      PROVE  x = <<x[1], x[2]>> /\ x[1] \in 1 .. m /\ x[2] \in 1 .. k
  BY <1>1, <1>3, JoinRels DEF Wanted, Pairs
<1>4. i = 0 => Reached(i, j) = {} /\ Reached(1, 0) = {}
  BY <1>2, <1>3 DEF Reached
<1>5. i > m => Reached(i, j) = Wanted
  BY <1>2, <1>3 DEF Reached
<1>6. j = k => Reached(i + 1, 0) = Reached(i, j)
  <2> SUFFICES ASSUME j = k, NEW x \in Wanted
               PROVE  (x[1] < i + 1 \/ (x[1] = i + 1 /\ x[2] <= 0))
                        <=> (x[1] < i \/ (x[1] = i /\ x[2] <= j))
    BY DEF Reached
  <2>1. x[1] \in Nat /\ x[2] \in Nat /\ 1 <= x[2] /\ x[2] <= k
    BY <1>2, <1>3
  <2> QED
    BY <1>2, <2>1
<1>7. PICK y : y = <<i, j + 1>>
  OBVIOUS
<1>8. y[1] = i /\ y[2] = j + 1
  BY <1>7
<1>9. y \notin Reached(i, j)
  BY <1>2, <1>8 DEF Reached
<1>10. ASSUME NEW x \in Wanted
       PROVE  (x[1] < i \/ (x[1] = i /\ x[2] <= j + 1))
                <=> (x[1] < i \/ (x[1] = i /\ x[2] <= j)) \/ x = y
  <2>1. x[1] \in Nat /\ x[2] \in Nat
    BY <1>2, <1>3
  <2>2. x = y <=> x[1] = i /\ x[2] = j + 1
    BY <1>3, <1>7, <1>8, <1>10
  <2> QED
    BY <1>2, <2>1, <2>2
<1>11. Reached(i, j + 1) = IF y \in Wanted THEN Reached(i, j) \cup {y} ELSE Reached(i, j)
  BY <1>10 DEF Reached
<1> QED
  BY <1>1, <1>4, <1>5, <1>6, <1>7, <1>9, <1>11

LEMMA NLScanJoin ==
  ASSUME DataOK, JoinOK, call.op = "QU_NL_Join", NLScan
  PROVE  JoinOK'
<1>1. /\ call.cmp \in Operator /\ call.proj \in Seq(AttrName)
      /\ call.rel1 = "R" /\ call.rel2 \in Rel
      /\ pos[1] \in Nat /\ pos[2] \in 0 .. Len(rel[call.rel2])
      /\ Sound => Counted(out, Reached(pos[1], pos[2]))
      /\ UNCHANGED <<rel, call>> /\ status = "running" /\ pos[1] > 0
  BY DEF JoinOK, NLScan, Running, data
<1>2. /\ Len(rel[call.rel1]) \in Nat /\ DOMAIN rel[call.rel1] = 1 .. Len(rel[call.rel1])
      /\ Len(rel[call.rel2]) \in Nat /\ DOMAIN rel[call.rel2] = 1 .. Len(rel[call.rel2])
  BY <1>1, JoinRels
<1>3. PICK i, j : i = pos[1] /\ j = pos[2]
  OBVIOUS
<1>4. i \in Nat /\ i > 0 /\ j \in 0 .. Len(rel[call.rel2]) /\ j \in Nat
  BY <1>1, <1>2, <1>3
<1>5. ASSUME i > Len(rel[call.rel1]), status' = "OK", UNCHANGED <<pos, out>>
      PROVE  JoinOK'
  <2>1. Sound' => Counted(out, Reached(pos[1], pos[2]))'
    BY <1>1, <1>5, SameJoin
  <2> QED
    BY <1>1, <1>3, <1>5, <2>1 DEF JoinOK
<1>6. ASSUME i <= Len(rel[call.rel1]), j + 1 > Len(rel[call.rel2]), pos' = <<i + 1, 0>>,
             UNCHANGED <<status, out>>
      PROVE  JoinOK'
  <2>1. j = Len(rel[call.rel2])
    BY <1>2, <1>4, <1>6
  <2>2. Reached(i + 1, 0) = Reached(i, j)
    BY <1>1, <1>4, <2>1, ReachedSteps
  <2>3. pos'[1] = i + 1 /\ pos'[2] = 0
    BY <1>6
  <2>4. Sound => Counted(out', Reached(pos'[1], pos'[2]))
    BY <1>1, <1>3, <1>6, <2>2, <2>3
  <2>5. Sound' => Counted(out, Reached(pos[1], pos[2]))'
    BY <1>1, <2>4, SameJoin
  <2>6. pos'[1] \in Nat /\ pos'[1] # 0 /\ pos'[1] # 1 /\ pos'[2] \in 0 .. Len(rel'[call'.rel2])
    BY <1>1, <1>2, <1>4, <2>3
  <2> QED
    BY <1>1, <1>6, <2>5, <2>6 DEF JoinOK
<1>7. ASSUME i <= Len(rel[call.rel1]), j + 1 <= Len(rel[call.rel2]), pos' = <<i, j + 1>>,
             out' = IF matchRec(rel[call.rel2][j + 1], rel[call.rel1][i], myop(call.cmp))
                    THEN Append(out, outputRec(i, j + 1)) ELSE out,
             UNCHANGED status
      PROVE  JoinOK'
  <2>1. i \in DOMAIN rel[call.rel1] /\ j + 1 \in DOMAIN rel[call.rel2]
    BY <1>2, <1>4, <1>7
  <2>2. PICK x, D, a, b : /\ x = <<i, j + 1>> /\ D = Reached(i, j)
                          /\ a = rel[call.rel1][i] /\ b = rel[call.rel2][j + 1]
    OBVIOUS
  <2>3. a \in KeyVal /\ b \in KeyVal
    BY <1>1, <2>1, <2>2, JoinRels
  <2>4. x \in Pairs /\ x[1] = i /\ x[2] = j + 1 /\ (x \in Wanted <=> Compares(call.cmp, a, b))
    BY <2>1, <2>2 DEF Pairs, Wanted
  <2>5. /\ x \notin D /\ IsFiniteSet(D)
        /\ Reached(i, j + 1) = IF x \in Wanted THEN D \cup {x} ELSE D
    BY <1>1, <1>4, <2>2, JoinRels, ReachedSteps
  <2>6. ASSUME Sound PROVE Counted(out', Reached(i, j + 1))
    <3>1. Counted(out, D)
      BY <1>1, <1>3, <2>2, <2>6
    <3>2. call.cmp \in {"EQ", "NE"} \/ Fits(a, b)
      BY <2>2, <2>4, <2>6 DEF Sound
    <3>3. matchRec(b, a, myop(call.cmp)) <=> x \in Wanted
      BY <1>1, <2>3, <2>4, <3>2, MatchExact
    <3>4. outputRec(i, j + 1) = Projected(x) /\ Projected(x) \in [DOMAIN call.proj -> Int]
      BY <1>1, <2>1, <2>2, <2>6, outputRecProjected
    <3>5. PICK o : o = out
      OBVIOUS
    <3>6. out' = IF x \in Wanted THEN Append(o, Projected(x)) ELSE o
      BY <1>7, <2>2, <3>3, <3>4, <3>5
    <3>7. CASE x \in Wanted
      <4>1. Counted(Append(o, Projected(x)), D \cup {x})
        BY <2>5, <3>1, <3>4, <3>5, CountedAppend
      <4> QED
        BY <2>5, <3>6, <3>7, <4>1
    <3>8. CASE x \notin Wanted
      BY <2>5, <3>1, <3>5, <3>6, <3>8
    <3> QED
      BY <3>7, <3>8
  <2>7. pos'[1] = i /\ pos'[2] = j + 1
    BY <1>7
  <2>8. Sound' => Counted(out, Reached(pos[1], pos[2]))'
    BY <1>1, <2>6, <2>7, SameJoin
  <2>9. pos'[1] \in Nat /\ pos'[1] # 0 /\ pos'[2] # 0 /\ pos'[2] \in 0 .. Len(rel'[call'.rel2])
    BY <1>1, <1>2, <1>4, <1>7, <2>7
  <2> QED
    BY <1>1, <1>7, <2>8, <2>9 DEF JoinOK
<1>8. ASSUME i = 1, j = 0, status' = "UNIXERR", UNCHANGED <<pos, out>>
      PROVE  JoinOK'
  <2>1. Sound' => Counted(out, Reached(pos[1], pos[2]))'
    BY <1>1, <1>8, SameJoin
  <2>2. pos[1] = 1 /\ out = <<>>
    BY <1>3, <1>8 DEF JoinOK
  <2> QED
    BY <1>1, <1>8, <2>1, <2>2 DEF JoinOK
<1>9. j + 1 = 1 => j = 0
  BY <1>4
<1> QED
  BY <1>3, <1>5, <1>6, <1>7, <1>8, <1>9 DEF NLScan, Returns

LEMMA JoinNext == DataOK /\ JoinOK /\ [Next]_vars => JoinOK'
<1> SUFFICES ASSUME DataOK, JoinOK, [Next]_vars, call'.op = "QU_NL_Join"
             PROVE  JoinOK'
  BY DEF JoinOK
<1>1. CASE UNCHANGED vars
  <2>1. UNCHANGED <<rel, call>> /\ UNCHANGED <<pos, out, status>>
    BY <1>1 DEF vars
  <2>2. JoinOK => (Sound' => Counted(out, Reached(pos[1], pos[2]))')
    BY <2>1, SameJoin DEF JoinOK
  <2> QED
    BY <2>1, <2>2 DEF JoinOK
<1>2. CASE call.op = "QU_NL_Join" /\ QU_NL_Join
  <2>1. /\ call.cmp \in Operator /\ call.proj \in Seq(AttrName)
        /\ call.rel1 = "R" /\ call.rel2 \in Rel
        /\ pos[2] \in 0 .. Len(rel[call.rel2]) /\ pos[2] = 0 /\ out = <<>>
        /\ UNCHANGED <<rel, call, out>> /\ status = "running" /\ pos[1] = 0
    BY <1>2 DEF JoinOK, QU_NL_Join, Running, data
  <2>2. pos' = pos \/ (pos' = <<1, 0>> /\ UNCHANGED status)
    BY <1>2 DEF QU_NL_Join
  <2>3. pos'[2] = 0 /\ pos'[1] \in {0, 1} /\ (pos'[1] = 1 => status' = "running") /\ status' # "OK"
    BY <1>2, <2>1, <2>2 DEF QU_NL_Join, Returns
  <2>4. Reached(0, 0) = {} /\ Reached(1, 0) = {}
    <3>1. 0 \in Nat /\ 0 \in 0 .. Len(rel[call.rel2])
      BY <2>1
    <3> QED
      BY <2>1, <3>1, ReachedSteps
  <2>5. Reached(pos'[1], pos'[2]) = {}
    BY <2>3, <2>4
  <2>6. Counted(out', Reached(pos'[1], pos'[2]))
    BY <2>1, <2>5, CountedNone
  <2>7. Counted(out, Reached(pos[1], pos[2]))'
    BY <2>1, <2>6, SameJoin
  <2> QED
    BY <2>1, <2>3, <2>7 DEF JoinOK
<1>3. CASE call.op = "QU_NL_Join" /\ NLScan
  BY <1>3, NLScanJoin
<1>4. ASSUME NEW c \in JoinCalls, Begin(c, <<0, 0>>, <<>>)
      PROVE  JoinOK'
  <2>1. /\ call' = c /\ pos'[1] = 0 /\ pos'[2] = 0 /\ out' = <<>> /\ status' = "running"
        /\ UNCHANGED <<rel, attrcat, ht>>
    BY <1>4 DEF Begin, Returns, data
  <2>2. c.cmp \in Operator /\ c.proj \in Seq(AttrName) /\ c.rel1 = "R" /\ c.rel2 \in Rel
    BY <1>4, JoinOps
  <2>3. DataOK'
    BY NextData
  <2>4. 0 \in Nat /\ 0 \in 0 .. Len(rel'[c.rel2])
    <3>1. Len(rel'[c.rel2]) \in Nat
      BY <2>2, <2>3 DEF DataOK
    <3> QED
      BY <3>1
  <2>5. Counted(out, Reached(pos[1], pos[2]))'
    <3>1. ASSUME NEW x \in Wanted' PROVE x[1] \in Nat /\ x[1] > 0
      <4>1. x[1] \in DOMAIN rel'[c.rel1] /\ rel'[c.rel1] \in Seq(KeyVal)
        BY <2>1, <2>2, <2>3, <3>1 DEF Wanted, Pairs, DataOK, Rel
      <4> QED
        BY <4>1
    <3>2. Reached(pos[1], pos[2])' = {}
      BY <2>1, <3>1 DEF Reached
    <3>3. Counted(<<>>, {})'
      BY CountedNone, PTL
    <3> QED
      BY <2>1, <3>2, <3>3 DEF Counted
  <2> QED
    BY <2>1, <2>2, <2>4, <2>5 DEF JoinOK
<1> QED
  BY <1>1, <1>2, <1>3, <1>4, joinSteps

LEMMA JoinExactNow == DataOK /\ JoinOK => JoinExact
<1> SUFFICES ASSUME DataOK, JoinOK, call.op = "QU_NL_Join", status # "running"
             PROVE  /\ status # "OK" => out = <<>>
                    /\ status = "OK" /\ Sound =>
                         /\ Len(out) = Cardinality(Wanted)
                         /\ \A w \in ToSet(out) :
                              Cardinality({n \in DOMAIN out : out[n] = w}) =
                                Cardinality({x \in Wanted : Projected(x) = w})
  BY DEF JoinExact, Sound, Wanted, Pairs
<1>1. status # "OK" => out = <<>>
  BY DEF JoinOK
<1>2. ASSUME status = "OK", Sound
      PROVE  /\ Len(out) = Cardinality(Wanted)
             /\ \A w : Cardinality({n \in DOMAIN out : out[n] = w}) =
                         Cardinality({x \in Wanted : Projected(x) = w})
  <2>1. /\ call.rel1 = "R" /\ call.rel2 \in Rel
        /\ pos[1] \in Nat /\ pos[2] \in 0 .. Len(rel[call.rel2])
        /\ pos[1] > Len(rel[call.rel1]) /\ Counted(out, Reached(pos[1], pos[2]))
    BY <1>2 DEF JoinOK
  <2>2. PICK i, j : i = pos[1] /\ j = pos[2]
    OBVIOUS
  <2>3. Reached(i, j) = Wanted
    BY <2>1, <2>2, ReachedSteps
  <2>4. Counted(out, Wanted)
    BY <2>1, <2>2, <2>3
  <2> QED
    BY <2>4 DEF Counted
<1> QED
  BY <1>1, <1>2

\* A nested loops join that returns OK has produced the projection of every pair
\* of records that satisfies the operator, as often as there are such pairs, and
\* no other; one that fails has produced nothing.
THEOREM JoinExactAlways == Spec => []JoinExact
<1>1. Init => JoinOK
  BY DEF Init, NoCall, JoinOK
<1>2. DataOK /\ JoinOK /\ [Next]_vars => JoinOK'
  BY JoinNext
<1>3. DataOK /\ JoinOK => JoinExact
  BY JoinExactNow
<1> QED
  BY <1>1, <1>2, <1>3, DataInvariant, PTL DEF Spec

=============================================================================
