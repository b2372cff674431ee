-------------------------------- MODULE Query --------------------------------
(***************************************************************************)
(* Calls of the query layer and of the catalog lookups it rests on: the    *)
(* attribute catalog's getInfo, getRelInfo and removeInfo (catalog.cpp),   *)
(* QU_Select (select.cpp), QU_Join with the nested loops join (join.cpp),  *)
(* the join hash table (JoinHT) and Partition (partition.cpp).  One call   *)
(* runs at a time; a step is one iteration of its loop.                    *)
(*                                                                         *)
(* Two relations, R and S, have an attribute k and, behind it, an          *)
(* attribute v; a relation is the sequence of its values of k, and the v   *)
(* of a record is its position.  attrcat is its slots in scan order.       *)
(*                                                                         *)
(* Bounds: a file may fail to open, other I/O succeeds; attrcat fits on    *)
(* one page, names are not empty, the result of a join is a third relation *)
(* and the calls that do not read R and S are made while these are empty.  *)
(* What the lookups leave open is in OpenFiles.                            *)
(***************************************************************************)
EXTENDS Integers, Sequences, FiniteSets, FiniteSetsExt, JoinHT

CONSTANTS KeyVal,       \* values of k
          MaxRecs,      \* bound: records of a relation
          Tuple,        \* attributes in the catalog: [rel, attr]
          NoTuple,      \* an empty slot; a descriptor that was never written
          ProjNames,    \* projection lists: sequences of [rel, attr]
          INT_MAX,      \* the greatest int; the least is -INT_MAX - 1
          P             \* number of partitions

Rel == {"R", "S"}
Attr == {"k", "v"}
AttrName == [rel : Rel, attr : Attr]

ASSUME QueryAssumption ==
  /\ INT_MAX \in Nat /\ KeyVal \subseteq -INT_MAX - 1 .. INT_MAX /\ MaxRecs \in Nat
  /\ Tuple \subseteq AttrName /\ NoTuple \notin AttrName /\ P \in Nat \ {0}
  /\ \A names \in ProjNames : names \in Seq(AttrName)

Slot == 1 .. Cardinality(Tuple)
attrCnt(r) == Cardinality({t \in Tuple : t.rel = r})

\* Operators of a comparison.
Operator == {"EQ", "NE", "LT", "LTE", "GT", "GTE"}

\* QU_Join chooses by the join method.
joinOp(method, op) ==
  CASE method = "NL" \/ (method = "HJ" /\ op # "EQ") -> "QU_NL_Join"
    [] method = "SM" -> "QU_SM_Join"
    [] OTHER -> "QU_Hash_Join"

\* What a hash of k can depend on: the value and, without a NUL, the v behind it.
Indexed == (KeyVal \ FullKey) \X {NUL} \cup (FullKey \X (1 .. MaxRecs))

(***************************************************************************)
(* The calls, with their arguments.  rel1 and rel2 are the relations of    *)
(* the join attributes; sameType: these agree in type and length; h: the   *)
(* hash function; files: the partition files that exist; from: the records *)
(* of R that the scan has moved past before it is given to Partition.      *)
(***************************************************************************)
NoCall == [op |-> "none"]
AttrCalls == [op : {"getInfo", "removeInfo"}, rel : Rel, attr : Attr]
RelCalls == [op : {"getRelInfo"}, rel : Rel]
SelectCalls == [op : {"QU_Select"}, attr : AttrName \cup {NoTuple}, proj : ProjNames]
JoinCalls ==
  {[op |-> joinOp(x[1], x[2]), cmp |-> x[2], proj |-> x[3], rel1 |-> "R", rel2 |-> x[4],
    sameType |-> x[5]] :
     x \in {"NL", "SM", "HJ"} \X Operator \X ProjNames \X Rel \X BOOLEAN}
HashCalls == [op : {"joinHashTbl"}, h : [Indexed -> 0 .. HTSIZE - 1]]
PartitionCalls ==
  [op : {"Partition"}, h : [KeyVal -> 0 .. P - 1], files : SUBSET (0 .. P - 1), from : 0 .. MaxRecs]

VARIABLES attrcat,      \* attrcat[s]: the tuple in slot s, or NoTuple
          rel,          \* rel[r]: the records of r
          call,         \* the current or the last call: [op, ...]
          status,       \* "running", or what the call returned
          pos,          \* positions of the call's scans, outer and inner
          out,          \* what the call has produced so far
          ht            \* the join hash table

data == <<attrcat, rel>>
vars == <<attrcat, rel, call, status, pos, out, ht>>

NoRecs == [r \in Rel |-> <<>>]
Unloaded == rel = NoRecs

Init ==
  /\ attrcat \in {c \in [Slot -> Tuple] : IsInjective(c)}
  /\ rel = NoRecs
  /\ call = NoCall /\ status = "idle"
  /\ pos = <<0, 0>> /\ out = <<>> /\ ht = EmptyTable

Running(op) == status = "running" /\ call.op = op

Returns(s) == status' = s

-----------------------------------------------------------------------------
(***************************************************************************)
(* Between calls.                                                          *)
(***************************************************************************)
\* A call is made; p is where its loops start, o what its result starts from.
Begin(c, p, o) ==
  /\ status = "idle"
  /\ call' = c /\ Returns("running")
  /\ pos' = p /\ out' = o
  /\ UNCHANGED <<data, ht>>

\* What a call has returned is used, and its objects are deleted.
Forget ==
  /\ status \notin {"idle", "running"}
  /\ call' = NoCall /\ Returns("idle")
  /\ pos' = <<0, 0>> /\ out' = <<>> /\ ht' = EmptyTable
  /\ UNCHANGED data

\* Commands load the relations, or clear them again.
Reload ==
  /\ status = "idle"
  /\ \A t \in Tuple : \E s \in Slot : attrcat[s] = t
  /\ rel' \in IF Unloaded THEN [Rel -> UNION {[1 .. n -> KeyVal] : n \in 0 .. MaxRecs}]
                         ELSE {NoRecs}
  /\ UNCHANGED <<attrcat, call, status, pos, out, ht>>

\* AttrCatalog::addInfo, of a tuple that is not there: the first empty slot.
addInfo(t) ==
  /\ status = "idle"
  /\ \A s \in Slot : attrcat[s] # t
  /\ attrcat' = [attrcat EXCEPT ![Min({s \in Slot : attrcat[s] = NoTuple})] = t]
  /\ UNCHANGED <<rel, call, status, pos, out, ht>>

-----------------------------------------------------------------------------
(***************************************************************************)
(* Scans of attrcat.                                                       *)
(***************************************************************************)
\* Tuples behind slot s, and those of relation r.
TuplesBehind(s) == {x \in Slot : x > s /\ attrcat[x] # NoTuple}
OfRelBehind(r, s) == {x \in TuplesBehind(s) : attrcat[x].rel = r}

isAttr(t, a) == t.attr = a

\* Mutant: the loop does not call scanNext again.
scannedTo1(hits) == <<Min(OfRelBehind(call.rel, 0)) - 1, 0>>

scannedTo(hits) == <<Min(hits), 0>>

\* AttrCatalog::getInfo, one tuple of the relation.
getInfo ==
  LET hits == OfRelBehind(call.rel, pos[1])
  IN  /\ Running("getInfo")
      /\ \/ /\ hits = {}
            /\ Returns("ATTRNOTFOUND")
            /\ UNCHANGED <<pos, out>>
         \/ /\ hits # {}
            /\ out' = attrcat[Min(hits)]
            /\ pos' = scannedTo(hits)
            /\ Returns(IF isAttr(out', call.attr) THEN "OK" ELSE "running")
      /\ UNCHANGED <<data, call, ht>>

\* Mutant: a tuple of another relation is kept.
amountAlways(t, amount) == amount - 1

amountAfter(t, amount) == IF t.rel = call.rel THEN amount - 1 ELSE amount

\* AttrCatalog::getRelInfo, its loop: every tuple is copied to attrs[amount], and
\* stays there if it is one of the relation's.  amount is pos[2].
getRelInfo ==
  LET amount == pos[2]
      next == TuplesBehind(pos[1])
      t == attrcat[Min(next)]
  IN  /\ Running("getRelInfo")
      /\ \/ /\ next = {} \/ amount < 0
            /\ Returns("OK")
            /\ UNCHANGED <<pos, out>>
         \/ /\ next # {} /\ amount >= 0
            /\ out' = [out EXCEPT ![amount] = t]
            /\ pos' = <<Min(next), amountAfter(t, amount)>>
            /\ UNCHANGED status
      /\ UNCHANGED <<data, call, ht>>

\* AttrCatalog::removeInfo looks at the relation's first tuple only: its loop
\* does not call scanNext again, and goes on forever if that is another attribute.
Loops ==
  LET hits == OfRelBehind(call.rel, 0)
  IN  hits # {} /\ ~isAttr(attrcat[Min(hits)], call.attr)

removeInfo ==
  LET hits == OfRelBehind(call.rel, 0)
  IN  /\ Running("removeInfo")
      /\ \/ /\ hits = {}
            /\ Returns("RELNOTFOUND")
            /\ UNCHANGED attrcat
         \/ /\ hits # {} /\ ~Loops
            /\ attrcat' = [attrcat EXCEPT ![Min(hits)] = NoTuple]
            /\ Returns("OK")
         \/ /\ Loops
            /\ UNCHANGED <<status, attrcat>>
      /\ UNCHANGED <<rel, call, pos, out, ht>>

-----------------------------------------------------------------------------
(***************************************************************************)
(* Selections and joins.                                                   *)
(***************************************************************************)
\* getInfo finds the attribute.
Known(t) == \E s \in Slot : attrcat[s] = t

\* QU_Select counts the projections with an i that is not initialised: those
\* before its first value are not looked up, and an index below 0 is undefined.
\* ScanSelect is empty and returns no value.
QU_Select ==
  LET i == pos[1]
  IN  /\ Running("QU_Select")
      /\ \/ /\ i < 0
            /\ \E s \in {"crashed", "ATTRNOTFOUND", "BADCATPARM"} : Returns(s)
            /\ UNCHANGED pos
         \/ /\ i \in 0 .. Len(call.proj) - 1
            /\ pos' = <<i + 1, 0>>
            /\ Returns(IF Known(call.proj[i + 1]) THEN "running" ELSE "ATTRNOTFOUND")
         \/ /\ i >= Len(call.proj)
            /\ Returns(CASE call.attr = NoTuple -> "ATTRTYPEMISMATCH"
                         [] call.attr # NoTuple /\ ~Known(call.attr) -> "ATTRNOTFOUND"
                         [] OTHER -> "unspecified")
            /\ UNCHANGED pos
      /\ UNCHANGED <<data, call, out, ht>>

\* A difference of two ints, computed as an int.
Wrap(x) == ((x + INT_MAX + 1) % (2 * INT_MAX + 2)) - INT_MAX - 1

\* matchRec of a HeapFileScan: the attribute against the filter.
matchRec(attr, fltr, op) ==
  LET diff == Wrap(attr - fltr)
  IN  CASE op = "LT" -> diff < 0
        [] op = "LTE" -> diff <= 0
        [] op = "EQ" -> diff = 0
        [] op = "GTE" -> diff >= 0
        [] op = "GT" -> diff > 0
        [] op = "NE" -> diff # 0

\* Mutant: the operator is not turned round.
myopSame(op) == op

\* The inner scan has the outer value as its filter, so the operator is turned.
myop(op) ==
  CASE op = "GT" -> "LT"
    [] op = "GTE" -> "LTE"
    [] op = "LT" -> "GT"
    [] op = "LTE" -> "GTE"
    [] OTHER -> op

\* Attribute a of record i of r.
field(r, i, a) == IF a = "k" THEN rel[r][i] ELSE i

\* The output record: an attribute is the outer record's if it has the name of
\* the outer relation, else the inner record's.
outputRec(i, j) ==
  [n \in DOMAIN call.proj |->
     IF call.proj[n].rel = call.rel1 THEN field(call.rel1, i, call.proj[n].attr)
                                     ELSE field(call.rel2, j, call.proj[n].attr)]

\* The attributes that QU_NL_Join looks up: the projections and, of both
\* relations, the join attribute.
joinAttrs == ToSet(call.proj) \cup {[rel |-> r, attr |-> "k"] : r \in {call.rel1, call.rel2}}

\* QU_NL_Join up to its scans.  The result or the outer relation may have no file.
QU_NL_Join ==
  /\ Running("QU_NL_Join") /\ pos[1] = 0
  /\ \/ /\ ~call.sameType
        /\ Returns("ATTRTYPEMISMATCH")
        /\ UNCHANGED pos
     \/ /\ call.sameType /\ \E t \in joinAttrs : ~Known(t)
        /\ Returns("ATTRNOTFOUND")
        /\ UNCHANGED pos
     \/ /\ call.sameType /\ \A t \in joinAttrs : Known(t)
        /\ \/ /\ pos' = <<1, 0>>
              /\ UNCHANGED status
           \/ /\ Returns("UNIXERR")
              /\ UNCHANGED pos
  /\ UNCHANGED <<data, call, out, ht>>

\* One record of the inner scan, or the end of either scan.  An inner relation
\* without a file fails the join at the first outer record.
NLScan ==
  LET i == pos[1]
      j == pos[2] + 1
  IN  /\ Running("QU_NL_Join") /\ i > 0
      /\ \/ /\ i > Len(rel[call.rel1])
            /\ Returns("OK")
            /\ UNCHANGED <<pos, out>>
         \/ /\ i <= Len(rel[call.rel1]) /\ i = 1 /\ j = 1 /\ call.rel1 # call.rel2
            /\ Returns("UNIXERR")
            /\ UNCHANGED <<pos, out>>
         \/ /\ i <= Len(rel[call.rel1]) /\ j > Len(rel[call.rel2])
            /\ pos' = <<i + 1, 0>>
            /\ UNCHANGED <<status, out>>
         \/ /\ i <= Len(rel[call.rel1]) /\ j <= Len(rel[call.rel2])
            /\ out' = IF matchRec(rel[call.rel2][j], rel[call.rel1][i], myop(call.cmp))
                      THEN Append(out, outputRec(i, j)) ELSE out
            /\ pos' = <<i, j>>
            /\ UNCHANGED status
      /\ UNCHANGED <<data, call, ht>>

\* QU_SM_Join and QU_Hash_Join test the types and produce nothing.
QU_StubJoin ==
  /\ Running("QU_SM_Join") \/ Running("QU_Hash_Join")
  /\ Returns(IF call.sameType THEN "OK" ELSE "ATTRTYPEMISMATCH")
  /\ UNCHANGED <<data, call, pos, out, ht>>

-----------------------------------------------------------------------------
(***************************************************************************)
(* The join hash table is built from R and looked up for every record of   *)
(* S.  What follows the value of record i is its v.                        *)
(***************************************************************************)
insert ==
  LET i == pos[1] + 1
      key == rel["R"][i]
  IN  /\ Running("joinHashTbl") /\ i <= Len(rel["R"])
      /\ ht' = inserted(ht, hash(call.h, key, i), key, i)
      /\ pos' = <<i, 0>>
      /\ UNCHANGED <<data, call, status, out>>

lookups ==
  LET j == pos[2] + 1
      key == rel["S"][j]
  IN  /\ Running("joinHashTbl") /\ pos[1] = Len(rel["R"])
      /\ \/ /\ j <= Len(rel["S"])
            /\ out' = Append(out, lookup(ht, hash(call.h, key, j), key))
            /\ pos' = <<pos[1], j>>
            /\ UNCHANGED status
         \/ /\ j > Len(rel["S"])
            /\ Returns("OK")
            /\ UNCHANGED <<pos, out>>
      /\ UNCHANGED <<data, call, ht>>

(***************************************************************************)
(* Partition opens P files that somebody has to have created (the comment  *)
(* at partition.cpp:50 says it creates them), and appends to them the      *)
(* records that a scan of R, which startScan does not rewind, has left.    *)
(***************************************************************************)
NoParts == [p \in 0 .. P - 1 |-> <<>>]

\* Mutant: the loop ends with the record before the last.
allScanned1(i) == i >= Len(rel["R"])

allScanned(i) == i > Len(rel["R"])

Partition ==
  LET i == pos[1] + 1
  IN  /\ Running("Partition")
      /\ \/ /\ call.files # 0 .. P - 1
            /\ Returns("UNIXERR")
            /\ UNCHANGED <<pos, out>>
         \/ /\ call.files = 0 .. P - 1 /\ allScanned(i)
            /\ Returns("OK")
            /\ UNCHANGED <<pos, out>>
         \/ /\ call.files = 0 .. P - 1 /\ ~allScanned(i)
            /\ out' = [out EXCEPT ![call.h[rel["R"][i]]] = Append(@, i)]
            /\ pos' = <<i, 0>>
            /\ UNCHANGED status
      /\ UNCHANGED <<data, call, ht>>

-----------------------------------------------------------------------------
CatalogCalls ==
  /\ Unloaded
  /\ \/ \E t \in Tuple : addInfo(t)
     \/ \E c \in AttrCalls : Begin(c, <<0, 0>>, NoTuple)
     \/ \E c \in RelCalls :
          Begin(c, <<0, attrCnt(c.rel) - 1>>, [n \in 0 .. attrCnt(c.rel) - 1 |-> NoTuple])
     \/ \E c \in SelectCalls : \E i \in -1 .. Len(c.proj) : Begin(c, <<i, 0>>, <<>>)

QU_Join == \E c \in JoinCalls : Begin(c, <<0, 0>>, <<>>)

joinHashTbl == \E c \in HashCalls : Begin(c, <<0, 0>>, <<>>)

MakePartition ==
  \E c \in PartitionCalls : c.from <= Len(rel["R"]) /\ Begin(c, <<c.from, 0>>, NoParts)

Step ==
  \/ getInfo \/ getRelInfo \/ removeInfo
  \/ QU_Select \/ QU_NL_Join \/ NLScan \/ QU_StubJoin
  \/ insert \/ lookups \/ Partition

Next == Step \/ Forget \/ Reload \/ CatalogCalls \/ QU_Join \/ joinHashTbl \/ MakePartition

Spec == Init /\ [][Next]_vars /\ WF_vars(Step)

-----------------------------------------------------------------------------
\* getInfo finds the descriptor of exactly the attribute asked for, and
\* getRelInfo, which copies every tuple to the place of the next attribute and
\* fills its array from the end, ends with each of the relation's tuples once
\* behind the places of those that are not in the catalog, wherever removeInfo
\* and addInfo have put them.
LookupsExact ==
  LET mine == {attrcat[s] : s \in OfRelBehind(call.rel, 0)}
      there == attrCnt(call.rel) - Cardinality(mine) .. attrCnt(call.rel) - 1
  IN  /\ call.op = "getInfo" =>
           /\ status = "OK" => out = [rel |-> call.rel, attr |-> call.attr] /\ Known(out)
           /\ status = "ATTRNOTFOUND" => ~Known([rel |-> call.rel, attr |-> call.attr])
      /\ call.op = "getRelInfo" /\ status = "OK" => {out[n] : n \in there} = mine

\* The comparison that the query asks for.
Compares(op, a, b) ==
  \/ op \in {"EQ", "LTE", "GTE"} /\ a = b
  \/ op \in {"LT", "LTE", "NE"} /\ a < b
  \/ op \in {"GT", "GTE", "NE"} /\ a > b

\* The difference of any two keys is an int.
Fits(a, b) == Wrap(a - b) = a - b /\ Wrap(b - a) = b - a

\* The record of the result for the pair x of records.
Projected(x) ==
  [n \in DOMAIN call.proj |->
     LET t == call.proj[n] IN field(t.rel, IF t.rel = call.rel1 THEN x[1] ELSE x[2], t.attr)]

\* A nested loops join that returns OK has produced the projection of every
\* pair of records that satisfies the operator, once for each pair, and no other:
\* the operator is turned round for the inner scan and the difference of two
\* ints is compared with 0, which is right for = and <> and, if no difference
\* overflows, for the others.  A join that fails has produced nothing.
JoinExact ==
  call.op = "QU_NL_Join" /\ status # "running" =>
    LET r == rel[call.rel1]
        q == rel[call.rel2]
        pairs == (DOMAIN r) \X (DOMAIN q)
        wanted == {x \in pairs : Compares(call.cmp, r[x[1]], q[x[2]])}
        sound == /\ \A n \in DOMAIN call.proj : call.proj[n].rel \in {call.rel1, call.rel2}
                 /\ \/ call.cmp \in {"EQ", "NE"}
                    \/ \A x \in pairs : Fits(r[x[1]], q[x[2]])
    IN  /\ status # "OK" => out = <<>>
        /\ status = "OK" /\ sound =>
             /\ Len(out) = Cardinality(wanted)
             /\ \A w \in ToSet(out) :
                  Cardinality({n \in DOMAIN out : out[n] = w}) =
                    Cardinality({x \in wanted : Projected(x) = w})

\* lookup returns only records with the value asked for, none twice and no more
\* than the array sized by the chain's count can hold.  It returns all of them,
\* but for values without a NUL, whose index depends on what follows them.
HashLookupExact ==
  call.op = "joinHashTbl" =>
    \A j \in DOMAIN out :
      LET key == rel["S"][j]
          same == {i \in DOMAIN rel["R"] : rel["R"][i] = key}
      IN  /\ IsInjective(out[j])
          /\ ToSet(out[j]) \subseteq same
          /\ {i \in same : key \notin FullKey \/ i = j} \subseteq ToSet(out[j])
          /\ Len(out[j]) <= ht[hash(call.h, key, j)].bucketCnt

\* A Partition that returns OK has put every record that its scan had left into
\* exactly one partition and no other record into any, records with equal values
\* into the same one, and each partition in the order of the scan.
PartitionExact ==
  call.op = "Partition" /\ status = "OK" =>
    /\ \A i \in DOMAIN rel["R"] :
         Cardinality({x \in (0 .. P - 1) \X (1 .. MaxRecs) :
                        x[2] \in DOMAIN out[x[1]] /\ out[x[1]][x[2]] = i})
           = IF i > call.from THEN 1 ELSE 0
    /\ \A p \in 0 .. P - 1 :
         /\ \A m, n \in DOMAIN out[p] : m < n => out[p][m] < out[p][n]
         /\ \A i, j \in {m \in DOMAIN rel["R"] : m > call.from} :
              rel["R"][i] = rel["R"][j] => (i \in ToSet(out[p]) <=> j \in ToSet(out[p]))

\* Every call returns, but for a removeInfo of an attribute that is not the first
\* one of its relation.
CallsEnd ==
  status = "running" ~> (status # "running" \/ (call.op = "removeInfo" /\ Loops))
=============================================================================
