---------------------------- MODULE DbFileProofs ----------------------------
(***************************************************************************)
(* Invariance and refinement proofs about DbFile, for every number of      *)
(* pages and whichever writes fail.                                        *)
(***************************************************************************)
EXTENDS DbFile, FiniteSetTheorems, WellFoundedInduction, TLAPS

\* The free list has n pages, s[0] to s[n - 1], and each page of the file is
\* either on it or owned.
Listed(n, s) ==
  /\ s \in [0 .. n - 1 -> 2 .. numPages - 1]
  /\ \A i, j \in 0 .. n - 1 : s[i] = s[j] => i = j
  /\ nextFree = IF n = 0 THEN Nil ELSE s[0]
  /\ \A k \in 0 .. n - 1 : word[s[k]] = IF k = n - 1 THEN Nil ELSE s[k + 1]
  /\ \A k \in 0 .. n - 1 : s[k] \notin owned
  /\ \A p \in 1 .. numPages - 1 : p \in owned \/ \E k \in 0 .. n - 1 : s[k] = p

FreeList == \E n \in Nat : \E s : Listed(n, s)

\* The pages that exist, and the first one, which no call disposes of.
Header ==
  /\ firstPage = IF numPages > 1 THEN 1 ELSE Nil
  /\ owned \subseteq 1 .. numPages - 1

\* The inductive invariant.  FreeListEnds and OwnedOrFree speak of Chain, which
\* is computed from the links; FreeList says what the links are.
IInv == TypeOK /\ Header /\ FreeList

-----------------------------------------------------------------------------
(***************************************************************************)
(* What Chain computes.                                                    *)
(***************************************************************************)

\* The equation that defines Chain, for any function c.
Follows(c, first, link) ==
  c = [k \in 0 .. MaxPages |->
         IF k = 0 THEN first ELSE IF c[k - 1] \in PageNos THEN link[c[k - 1]] ELSE Nil]

\* Two functions that follow the same links are the same: take the first place
\* where they differ.
LEMMA FollowsOnce ==
  ASSUME NEW c, NEW d, NEW first, NEW link, Follows(c, first, link), Follows(d, first, link)
  PROVE  c = d
<1> DEFINE U == {k \in 0 .. MaxPages : c[k] # d[k]}
<1>0. MaxPages \in Nat
  BY DbFileAssumption
<1>1. \A k \in 0 .. MaxPages :
        /\ c[k] = IF k = 0 THEN first ELSE IF c[k - 1] \in PageNos THEN link[c[k - 1]] ELSE Nil
        /\ d[k] = IF k = 0 THEN first ELSE IF d[k - 1] \in PageNos THEN link[d[k - 1]] ELSE Nil
  BY DEF Follows
<1>2. U = {}
  <2> SUFFICES ASSUME U # {} PROVE FALSE
    OBVIOUS
  <2>1. U \subseteq Nat
    BY <1>0
  <2>2. PICK m \in U : \A y \in U : <<y, m>> \notin OpToRel(<, Nat)
    BY <2>1, NatLessThanWellFounded, WFMin
  <2>3. \A y \in U : ~(y < m)
    BY <2>1, <2>2 DEF OpToRel
  <2>4. m \in 0 .. MaxPages /\ c[m] # d[m] /\ m \in Nat
    BY <2>1
  <2>5. m # 0
    BY <1>1, <2>4
  <2>6. m - 1 \in 0 .. MaxPages /\ m - 1 < m
    BY <1>0, <2>4, <2>5
  <2>7. c[m - 1] = d[m - 1]
    BY <2>3, <2>6
  <2> QED
    BY <1>1, <2>4, <2>5, <2>7
<1>3. \A k \in 0 .. MaxPages : c[k] = d[k]
  BY <1>2
<1>4. c = [k \in 0 .. MaxPages |-> c[k]] /\ d = [k \in 0 .. MaxPages |-> d[k]]
  BY DEF Follows
<1> QED
  BY <1>3, <1>4

\* The list fits in the file.
LEMMA ListFits ==
  ASSUME TypeOK, NEW n \in Nat, NEW s, Listed(n, s)
  PROVE  n < numPages /\ n <= MaxPages
<1>1. MaxPages \in Nat /\ numPages \in 1 .. MaxPages + 1
  BY DbFileAssumption DEF TypeOK
<1> DEFINE S == 0 .. n - 1
           T == 2 .. numPages - 1
<1>2. IsFiniteSet(S) /\ Cardinality(S) = n
  <2>1. PICK b \in Int : b = n - 1
    OBVIOUS
  <2>2. IsFiniteSet(0 .. b) /\ Cardinality(0 .. b) = IF 0 > b THEN 0 ELSE b - 0 + 1
    BY FS_Interval
  <2>3. (IF 0 > b THEN 0 ELSE b - 0 + 1) = n
    BY <2>1
  <2> QED
    BY <2>1, <2>2, <2>3
<1>3. IsFiniteSet(T) /\ Cardinality(T) = IF numPages = 1 THEN 0 ELSE numPages - 2
  <2>1. PICK b \in Int : b = numPages - 1
    BY <1>1
  <2>2. IsFiniteSet(2 .. b) /\ Cardinality(2 .. b) = IF 2 > b THEN 0 ELSE b - 2 + 1
    BY FS_Interval
  <2>3. (IF 2 > b THEN 0 ELSE b - 2 + 1) = IF numPages = 1 THEN 0 ELSE numPages - 2
    BY <1>1, <2>1
  <2> QED
    BY <2>1, <2>2, <2>3
<1>4. s \in [S -> T] /\ \A i, j \in S : s[i] = s[j] => i = j
  BY DEF Listed
<1> HIDE DEF S, T
<1>5. ~(Cardinality(T) < Cardinality(S))
  BY <1>2, <1>3, <1>4, FS_PigeonHole
<1>6. ~((IF numPages = 1 THEN 0 ELSE numPages - 2) < n)
  BY <1>2, <1>3, <1>5
<1> QED
  BY <1>1, <1>6

\* So Chain is that list, and then Nil.
LEMMA ChainIs ==
  ASSUME TypeOK, NEW n \in Nat, NEW s, Listed(n, s)
  PROVE  /\ \A k \in 0 .. MaxPages : Chain[k] = IF k < n THEN s[k] ELSE Nil
         /\ FreeSet = {s[k] : k \in 0 .. n - 1}
         /\ Chain[MaxPages] = Nil
<1> DEFINE g == [k \in 0 .. MaxPages |-> IF k < n THEN s[k] ELSE Nil]
<1>1. MaxPages \in Nat /\ numPages \in 1 .. MaxPages + 1
  BY DbFileAssumption DEF TypeOK
<1>2. n <= MaxPages
  BY ListFits
<1>3. \A k \in 0 .. n - 1 : s[k] \in PageNos /\ s[k] # Nil
  <2>1. \A k \in 0 .. n - 1 : s[k] \in 2 .. numPages - 1
    BY DEF Listed
  <2> QED
    BY <1>1, <2>1 DEF PageNos, Nil
<1>4. Nil \notin PageNos
  BY DEF Nil, PageNos
<1>5. ASSUME NEW k \in 0 .. MaxPages
      PROVE  g[k] = IF k = 0 THEN nextFree
                    ELSE IF g[k - 1] \in PageNos THEN word[g[k - 1]] ELSE Nil
  <2>1. CASE k = 0
    <3>1. nextFree = IF n = 0 THEN Nil ELSE s[0]
      BY DEF Listed
    <3> QED
      BY <2>1, <3>1
  <2>2. CASE k # 0
    <3>1. k - 1 \in 0 .. MaxPages /\ k \in Nat
      BY <1>1, <2>2
    <3>2. CASE k - 1 < n
      <4>1. k - 1 \in 0 .. n - 1
        BY <1>1, <2>2, <3>1, <3>2
      <4>2. g[k - 1] = s[k - 1] /\ s[k - 1] \in PageNos
        BY <1>3, <3>1, <3>2, <4>1
      <4>3. word[s[k - 1]] = IF k - 1 = n - 1 THEN Nil ELSE s[(k - 1) + 1]
        BY <4>1 DEF Listed
      <4>4. (k - 1) + 1 = k /\ (k - 1 = n - 1 <=> ~(k < n))
        BY <3>1, <3>2
      <4> QED
        BY <2>2, <4>2, <4>3, <4>4
    <3>3. CASE ~(k - 1 < n)
      <4>1. ~(k < n)
        BY <3>1, <3>3
      <4> QED
        BY <1>4, <2>2, <3>1, <3>3, <4>1
    <3> QED
      BY <3>2, <3>3
  <2> QED
    BY <2>1, <2>2
<1>6. Follows(g, nextFree, word)
  <2>1. g = [k \in 0 .. MaxPages |-> g[k]]
    OBVIOUS
  <2> HIDE DEF g
  <2> QED
    BY <1>5, <2>1 DEF Follows
<1> HIDE DEF g
<1>7. Chain = CHOOSE c : Follows(c, nextFree, word)
  BY DEF Chain, Follows
<1>8. Follows(Chain, nextFree, word)
  BY <1>6, <1>7
<1>9. Chain = g
  BY <1>6, <1>8, FollowsOnce
<1>10. \A k \in 0 .. MaxPages : Chain[k] = IF k < n THEN s[k] ELSE Nil
  BY <1>9 DEF g
<1>11. FreeSet = {s[k] : k \in 0 .. n - 1}
  <2>1. \A k \in 0 .. n - 1 : k \in 0 .. MaxPages /\ k < n
    BY <1>1, <1>2
  <2>2. \A k \in 0 .. MaxPages : k < n => k \in 0 .. n - 1
    BY <1>1, <1>2
  <2> QED
    BY <1>3, <1>10, <2>1, <2>2 DEF FreeSet
<1>12. Chain[MaxPages] = Nil
  BY <1>1, <1>2, <1>10
<1> QED
  BY <1>10, <1>11, <1>12

-----------------------------------------------------------------------------
(***************************************************************************)
(* Steps.                                                                  *)
(***************************************************************************)
LEMMA InitListed == Init => IInv /\ \A s : s \in [0 .. -1 -> {}] => Listed(0, s)
<1> SUFFICES ASSUME Init PROVE IInv /\ \A s : s \in [0 .. -1 -> {}] => Listed(0, s)
  OBVIOUS
<1>1. TypeOK
  BY DbFileAssumption DEF Init, TypeOK, PageNos, Nil
<1>2. Header
  BY DEF Init, Header
<1>3. 0 .. 0 - 1 = {} /\ 0 .. -1 = {} /\ 1 .. numPages - 1 = {} /\ 2 .. numPages - 1 = {}
  BY DEF Init
<1>4. ASSUME NEW s \in [0 .. -1 -> {}] PROVE Listed(0, s)
  BY <1>3 DEF Init, Listed
<1>5. [k \in 0 .. -1 |-> k] \in [0 .. -1 -> {}]
  BY <1>3
<1>6. FreeList
  BY <1>4, <1>5 DEF FreeList
<1> QED
  BY <1>1, <1>2, <1>4, <1>6 DEF IInv

\* Writes to pages that are not on the list leave the list alone.
LEMMA SameList ==
  ASSUME TypeOK, NEW n \in Nat, NEW s, Listed(n, s), UNCHANGED <<nextFree, numPages, owned>>,
         NEW p, p \in owned \/ p = numPages, NEW v, word' = [word EXCEPT ![p] = v]
  PROVE  Listed(n, s)'
<1>1. numPages \in Nat /\ word \in [PageNos -> PageNos \cup {Nil, 0, Data}] /\ MaxPages \in Nat
      /\ numPages \in 1 .. MaxPages + 1
  BY DbFileAssumption DEF TypeOK
<1>2. \A k \in 0 .. n - 1 : s[k] \in 2 .. numPages - 1 /\ s[k] \notin owned
  BY DEF Listed
<1>3. \A k \in 0 .. n - 1 : s[k] \in PageNos /\ s[k] # p
  BY <1>1, <1>2 DEF PageNos
<1>4. \A k \in 0 .. n - 1 : word'[s[k]] = word[s[k]]
  BY <1>1, <1>3
<1> QED
  BY <1>4 DEF Listed

\* allocatePage takes the head of the list.
LEMMA ListTail ==
  ASSUME IInv, NEW n \in Nat, NEW s, Listed(n, s), allocateFree
  PROVE  /\ n > 0 /\ nextFree = s[0] /\ nextFree \in 2 .. numPages - 1
         /\ nextFree' \in PageNos \cup {Nil}
         /\ Listed(n - 1, [k \in 0 .. n - 2 |-> s[k + 1]])'
<1>1. TypeOK
  BY DEF IInv
<1>2. MaxPages \in Nat /\ numPages \in 1 .. MaxPages + 1
  BY <1>1, DbFileAssumption DEF TypeOK
<1>3. n > 0 /\ nextFree = s[0]
  BY DEF Listed, allocateFree
<1>4. /\ \A k \in 0 .. n - 1 : s[k] \in 2 .. numPages - 1
      /\ \A i, j \in 0 .. n - 1 : s[i] = s[j] => i = j
      /\ \A k \in 0 .. n - 1 : word[s[k]] = IF k = n - 1 THEN Nil ELSE s[k + 1]
      /\ \A k \in 0 .. n - 1 : s[k] \notin owned
      /\ \A p \in 1 .. numPages - 1 : p \in owned \/ \E k \in 0 .. n - 1 : s[k] = p
  BY DEF Listed
<1>5. 0 \in 0 .. n - 1 /\ nextFree \in 2 .. numPages - 1
  BY <1>3, <1>4
<1>6. /\ nextFree' = word[nextFree] /\ owned' = owned \cup {nextFree}
      /\ UNCHANGED <<numPages, word>>
  BY DEF allocateFree
<1> DEFINE t == [k \in 0 .. n - 2 |-> s[k + 1]]
<1>7. /\ n - 1 \in Nat /\ (n - 1) - 1 = n - 2
      /\ \A k \in 0 .. n - 2 : k + 1 \in 0 .. n - 1 /\ k \in Int
  BY <1>3
<1>8. t \in [0 .. n - 2 -> 2 .. numPages - 1]
  BY <1>4, <1>7
<1>9. \A i, j \in 0 .. n - 2 : t[i] = t[j] => i = j
  BY <1>4, <1>7
<1>10. nextFree' = IF n - 1 = 0 THEN Nil ELSE t[0]
  <2>1. word[s[0]] = IF 0 = n - 1 THEN Nil ELSE s[0 + 1]
    BY <1>4, <1>5
  <2>2. CASE n - 1 = 0
    BY <1>3, <1>6, <2>1, <2>2
  <2>3. CASE n - 1 # 0
    <3>1. 0 \in 0 .. n - 2
      BY <1>3, <2>3
    <3> QED
      BY <1>3, <1>6, <2>1, <2>3, <3>1
  <2> QED
    BY <2>2, <2>3
<1>11. \A k \in 0 .. n - 2 : word[t[k]] = IF k = n - 2 THEN Nil ELSE t[k + 1]
  <2> SUFFICES ASSUME NEW k \in 0 .. n - 2
               PROVE  word[t[k]] = IF k = n - 2 THEN Nil ELSE t[k + 1]
    OBVIOUS
  <2>1. word[s[k + 1]] = IF k + 1 = n - 1 THEN Nil ELSE s[(k + 1) + 1]
    BY <1>4, <1>7
  <2>2. k + 1 = n - 1 <=> k = n - 2
    BY <1>7
  <2>3. k # n - 2 => k + 1 \in 0 .. n - 2
    BY <1>7
  <2> QED
    BY <2>1, <2>2, <2>3
<1>12. \A k \in 0 .. n - 2 : t[k] \notin owned'
  <2> SUFFICES ASSUME NEW k \in 0 .. n - 2 PROVE s[k + 1] \notin owned /\ s[k + 1] # s[0]
    BY <1>3, <1>6
  <2>1. k + 1 # 0
    BY <1>7
  <2> QED
    BY <1>4, <1>5, <1>7, <2>1
<1>13. \A p \in 1 .. numPages - 1 : p \in owned' \/ \E k \in 0 .. n - 2 : t[k] = p
  <2> SUFFICES ASSUME NEW p \in 1 .. numPages - 1, p \notin owned, p # s[0]
               PROVE  \E k \in 0 .. n - 2 : t[k] = p
    BY <1>3, <1>6
  <2>1. PICK k \in 0 .. n - 1 : s[k] = p
    BY <1>4
  <2>2. k # 0
    BY <2>1
  <2>3. k - 1 \in 0 .. n - 2 /\ (k - 1) + 1 = k
    BY <1>3, <2>2
  <2>4. t[k - 1] = s[(k - 1) + 1]
    BY <2>3
  <2> QED
    BY <2>1, <2>3, <2>4
<1>14. nextFree' \in PageNos \cup {Nil}
  <2>1. n - 1 # 0 => t[0] \in 2 .. numPages - 1
    BY <1>3, <1>8
  <2> HIDE DEF t
  <2> QED
    BY <1>2, <1>10, <2>1 DEF PageNos
<1> HIDE DEF t
<1>15. Listed(n - 1, t)'
  BY <1>6, <1>7, <1>8, <1>9, <1>10, <1>11, <1>12, <1>13 DEF Listed
<1> QED
  BY <1>3, <1>5, <1>14, <1>15 DEF t

\* disposePage puts a page before the head.
LEMMA ListCons ==
  ASSUME IInv, NEW n \in Nat, NEW s, Listed(n, s), NEW p, disposeOK(p)
  PROVE  /\ p \in 2 .. numPages - 1 /\ p \in owned
         /\ Listed(n + 1, [k \in 0 .. n |-> IF k = 0 THEN p ELSE s[k - 1]])'
<1>1. TypeOK /\ Header
  BY DEF IInv
<1>2. MaxPages \in Nat /\ numPages \in 1 .. MaxPages + 1
  BY <1>1, DbFileAssumption DEF TypeOK
<1>3. p \in owned /\ p \in 2 .. numPages - 1
  <2>1. p \in owned /\ p \in 1 .. numPages - 1 /\ p # firstPage
    BY <1>1 DEF disposeOK, Rejected, Header
  <2>2. firstPage = 1
    BY <1>1, <1>2, <2>1 DEF Header
  <2> QED
    BY <1>2, <2>1, <2>2
<1>4. /\ \A k \in 0 .. n - 1 : s[k] \in 2 .. numPages - 1
      /\ \A i, j \in 0 .. n - 1 : s[i] = s[j] => i = j
      /\ nextFree = IF n = 0 THEN Nil ELSE s[0]
      /\ \A k \in 0 .. n - 1 : word[s[k]] = IF k = n - 1 THEN Nil ELSE s[k + 1]
      /\ \A k \in 0 .. n - 1 : s[k] \notin owned
      /\ \A q \in 1 .. numPages - 1 : q \in owned \/ \E k \in 0 .. n - 1 : s[k] = q
  BY DEF Listed
<1>5. /\ nextFree' = p /\ owned' = owned \ {p} /\ word' = [word EXCEPT ![p] = nextFree]
      /\ UNCHANGED numPages
  BY DEF disposeOK
<1>6. p \in PageNos /\ \A k \in 0 .. n - 1 : s[k] \in PageNos /\ s[k] # p
  BY <1>2, <1>3, <1>4 DEF PageNos
<1>7. word'[p] = nextFree /\ \A k \in 0 .. n - 1 : word'[s[k]] = word[s[k]]
  BY <1>1, <1>5, <1>6 DEF TypeOK
<1> DEFINE t == [k \in 0 .. n |-> IF k = 0 THEN p ELSE s[k - 1]]
<1>8. /\ (n + 1) - 1 = n
      /\ \A k \in 0 .. n : k \in Int /\ (k # 0 => k - 1 \in 0 .. n - 1)
      /\ 0 \in 0 .. n /\ t[0] = p
      /\ \A k \in 0 .. n : k # 0 => t[k] = s[k - 1]
  OBVIOUS
<1>9. t \in [0 .. n -> 2 .. numPages - 1]
  BY <1>3, <1>4, <1>8
<1> HIDE DEF t
<1>10. ASSUME NEW i \in 0 .. n, NEW j \in 0 .. n, t[i] = t[j] PROVE i = j
  <2>1. CASE i = 0
    BY <1>6, <1>8, <1>10, <2>1
  <2>2. CASE j = 0
    BY <1>6, <1>8, <1>10, <2>2
  <2>3. CASE i # 0 /\ j # 0
    <3>1. i - 1 = j - 1
      BY <1>4, <1>8, <1>10, <2>3
    <3> QED
      BY <1>8, <3>1
  <2> QED
    BY <2>1, <2>2, <2>3
<1>11. ASSUME NEW k \in 0 .. n PROVE word'[t[k]] = IF k = n THEN Nil ELSE t[k + 1]
  <2>1. k # n => k + 1 \in 0 .. n /\ k + 1 # 0 /\ t[k + 1] = s[k]
    <3>1. k # n => k + 1 \in 0 .. n /\ k + 1 # 0 /\ (k + 1) - 1 = k
      BY <1>8
    <3> QED
      BY <1>8, <3>1
  <2>2. CASE k = 0
    BY <1>4, <1>7, <1>8, <2>1, <2>2
  <2>3. CASE k # 0
    <3>1. word'[t[k]] = IF k - 1 = n - 1 THEN Nil ELSE s[(k - 1) + 1]
      BY <1>4, <1>7, <1>8, <2>3
    <3>2. (k - 1 = n - 1 <=> k = n) /\ (k - 1) + 1 = k
      BY <1>8
    <3> QED
      BY <2>1, <3>1, <3>2
  <2> QED
    BY <2>2, <2>3
<1>12. \A k \in 0 .. n : t[k] \notin owned'
  BY <1>4, <1>5, <1>8
<1>13. ASSUME NEW q \in 1 .. numPages - 1, q \notin owned'
       PROVE  \E k \in 0 .. n : t[k] = q
  <2>1. CASE q = p
    BY <1>8, <2>1
  <2>2. CASE q # p
    <3>1. PICK k \in 0 .. n - 1 : s[k] = q
      BY <1>4, <1>5, <1>13, <2>2
    <3>2. k + 1 \in 0 .. n /\ k + 1 # 0 /\ (k + 1) - 1 = k
      OBVIOUS
    <3> QED
      BY <1>8, <3>1, <3>2
  <2> QED
    BY <2>1, <2>2
<1>14. nextFree' = IF n + 1 = 0 THEN Nil ELSE t[0]
  BY <1>5, <1>8
<1>15. Listed(n + 1, t)'
  BY <1>5, <1>8, <1>9, <1>10, <1>11, <1>12, <1>13, <1>14 DEF Listed
<1> QED
  BY <1>3, <1>15 DEF t

\* The file grows only when the list is empty.
LEMMA ListEmpty ==
  ASSUME IInv, NEW n \in Nat, NEW s, Listed(n, s), allocateExtend
  PROVE  n = 0 /\ Listed(0, s)' /\ IInv'
<1>1. TypeOK /\ Header
  BY DEF IInv
<1>2. MaxPages \in Nat /\ numPages \in 1 .. MaxPages + 1 /\ numPages <= MaxPages
  BY <1>1, DbFileAssumption DEF TypeOK, allocateExtend
<1>3. n = 0
  <2>1. n # 0 => 0 \in 0 .. n - 1 /\ s[0] \in 2 .. numPages - 1
    BY DEF Listed
  <2> QED
    BY <2>1 DEF Listed, allocateExtend, Nil
<1>4. /\ word' = [word EXCEPT ![numPages] = 0] /\ numPages' = numPages + 1
      /\ firstPage' = FirstAfterExtend /\ owned' = owned \cup {numPages}
      /\ nextFree' = nextFree /\ nextFree = Nil /\ status' = "OK"
  BY DEF allocateExtend
<1>5. 0 .. 0 - 1 = {}
  OBVIOUS
<1>6. s \in [{} -> 2 .. numPages - 1] /\ \A p \in 1 .. numPages - 1 : p \in owned
  BY <1>3, <1>5 DEF Listed
<1>7. s \in [{} -> 2 .. numPages' - 1]
  BY <1>6
<1>8. \A p \in 1 .. numPages' - 1 : p \in owned'
  BY <1>2, <1>4, <1>6
<1>9. Listed(0, s)'
  BY <1>4, <1>5, <1>7, <1>8 DEF Listed
<1>10. TypeOK'
  <2>1. numPages \in PageNos
    BY <1>2 DEF PageNos
  <2>2. numPages' \in 1 .. MaxPages + 1
    BY <1>2, <1>4
  <2>3. firstPage' \in PageNos \cup {Nil}
    BY <1>1, <1>4, <2>1 DEF TypeOK, FirstAfterExtend
  <2>4. owned' \subseteq PageNos
    BY <1>1, <1>4, <2>1 DEF TypeOK
  <2>5. word' \in [PageNos -> PageNos \cup {Nil, 0, Data}]
    BY <1>1, <1>4 DEF TypeOK
  <2> QED
    BY <1>4, <2>2, <2>3, <2>4, <2>5 DEF TypeOK
<1>11. Header'
  <2>1. firstPage' = 1
    BY <1>1, <1>2, <1>4 DEF Header, FirstAfterExtend, Nil
  <2>2. owned' \subseteq 1 .. numPages' - 1
    BY <1>1, <1>2, <1>4 DEF Header
  <2> QED
    BY <1>2, <1>4, <2>1, <2>2 DEF Header
<1>12. FreeList'
  BY <1>9 DEF FreeList
<1> QED
  BY <1>3, <1>9, <1>10, <1>11, <1>12 DEF IInv

\* The steps that change at most a page off the list, and none of the header.
Off ==
  /\ UNCHANGED <<nextFree, firstPage, numPages, owned>>
  /\ \/ UNCHANGED word
     \/ \E p, v : /\ (p \in owned \/ p = numPages) /\ v \in PageNos \cup {Nil, 0, Data}
                  /\ word' = [word EXCEPT ![p] = v]

LEMMA OffSame ==
  ASSUME IInv, NEW n \in Nat, NEW s, Listed(n, s), Off
  PROVE  Listed(n, s)'
<1>1. TypeOK
  BY DEF IInv
<1>2. CASE UNCHANGED word
  BY <1>2 DEF Off, Listed
<1>3. CASE \E p, v : (p \in owned \/ p = numPages) /\ word' = [word EXCEPT ![p] = v]
  <2>1. PICK p, v : (p \in owned \/ p = numPages) /\ word' = [word EXCEPT ![p] = v]
    BY <1>3
  <2> QED
    BY <1>1, <2>1, SameList DEF Off
<1> QED
  BY <1>2, <1>3 DEF Off

\* Every step takes the head of the list, puts a page before it, grows the file
\* or leaves the list as it is.
LEMMA NextKinds ==
  ASSUME IInv, [Next]_vars
  PROVE  \/ allocateFree
         \/ allocateExtend
         \/ \E p : disposeOK(p)
         \/ Off /\ status' \in {"OK", "BADPAGENO", "UNIXERR"}
<1>0. TypeOK
  BY DEF IInv
<1>1. FailsEarly => Off /\ status' = "UNIXERR"
  BY DEF FailsEarly, Off
<1>2. allocateTorn => Off /\ status' = "UNIXERR"
  BY DEF allocateTorn, Off
<1>3. ASSUME NEW p, disposeRejected(p) PROVE Off /\ status' = "BADPAGENO"
  BY <1>3 DEF disposeRejected, Off
<1>4. ASSUME NEW p, disposeTorn(p) PROVE Off /\ status' = "UNIXERR"
  BY <1>0, <1>4 DEF disposeTorn, Off, TypeOK
<1>5. ASSUME NEW p, writeOK(p) PROVE Off /\ status' = "OK"
  BY <1>5 DEF writeOK, Off
<1>6. CASE UNCHANGED vars
  BY <1>0, <1>6 DEF vars, Off, TypeOK
<1>7. CASE allocatePage
  BY <1>1, <1>2, <1>7 DEF allocatePage
<1>8. ASSUME NEW p, disposePage(p)
      PROVE  disposeOK(p) \/ (Off /\ status' \in {"OK", "BADPAGENO", "UNIXERR"})
  BY <1>1, <1>3, <1>4, <1>8 DEF disposePage
<1>9. ASSUME NEW p, writePage(p) PROVE Off /\ status' \in {"OK", "BADPAGENO", "UNIXERR"}
  BY <1>1, <1>5, <1>9 DEF writePage
<1> QED
  BY <1>6, <1>7, <1>8, <1>9 DEF Next

LEMMA NextIInv == IInv /\ [Next]_vars => IInv'
<1> SUFFICES ASSUME IInv, [Next]_vars PROVE IInv'
  OBVIOUS
<1>1. TypeOK /\ Header
  BY DEF IInv
<1>2. PICK n \in Nat : \E s : Listed(n, s)
  BY DEF IInv, FreeList
<1>3. PICK s : Listed(n, s)
  BY <1>2
<1>4. MaxPages \in Nat /\ numPages \in 1 .. MaxPages + 1
  BY <1>1, DbFileAssumption DEF TypeOK
<1>5. CASE allocateFree
  <2>1. /\ n > 0 /\ nextFree \in 2 .. numPages - 1 /\ nextFree' \in PageNos \cup {Nil}
        /\ Listed(n - 1, [k \in 0 .. n - 2 |-> s[k + 1]])'
    BY <1>3, <1>5, ListTail
  <2>2. n - 1 \in Nat
    BY <2>1
  <2>3. FreeList'
    BY <2>1, <2>2 DEF FreeList
  <2>4. nextFree \in 1 .. numPages - 1 /\ nextFree \in PageNos
    BY <1>4, <2>1 DEF PageNos
  <2>5. TypeOK'
    BY <1>1, <1>5, <2>1, <2>4 DEF TypeOK, allocateFree
  <2>6. Header'
    BY <1>1, <1>5, <2>4 DEF Header, allocateFree
  <2> QED
    BY <2>3, <2>5, <2>6 DEF IInv
<1>6. CASE allocateExtend
  BY <1>3, <1>6, ListEmpty
<1>7. ASSUME NEW p, disposeOK(p) PROVE IInv'
  <2>1. /\ p \in 2 .. numPages - 1
        /\ Listed(n + 1, [k \in 0 .. n |-> IF k = 0 THEN p ELSE s[k - 1]])'
    BY <1>3, <1>7, ListCons
  <2>2. n + 1 \in Nat
    OBVIOUS
  <2>3. FreeList'
    BY <2>1, <2>2 DEF FreeList
  <2>4. p \in PageNos
    BY <1>4, <2>1 DEF PageNos
  <2>5. TypeOK'
    BY <1>1, <1>7, <2>4 DEF TypeOK, disposeOK
  <2>6. Header'
    BY <1>1, <1>7 DEF Header, disposeOK
  <2> QED
    BY <2>3, <2>5, <2>6 DEF IInv
<1>8. CASE Off /\ status' \in {"OK", "BADPAGENO", "UNIXERR"}
  <2>1. FreeList'
    BY <1>3, <1>8, OffSame DEF FreeList
  <2>2. word' \in [PageNos -> PageNos \cup {Nil, 0, Data}]
    BY <1>1, <1>8 DEF Off, TypeOK
  <2>3. TypeOK'
    BY <1>1, <1>8, <2>2 DEF Off, TypeOK
  <2>4. Header'
    BY <1>1, <1>8 DEF Off, Header
  <2> QED
    BY <2>1, <2>3, <2>4 DEF IInv
<1> QED
  BY <1>5, <1>6, <1>7, <1>8, NextKinds

-----------------------------------------------------------------------------
(***************************************************************************)
(* The theorems.                                                           *)
(***************************************************************************)

\* The links in the file are always one list that ends, of pages not in use.
THEOREM Invariant == Spec => []IInv
<1>1. Init => IInv
  BY InitListed
<1> QED
  BY <1>1, NextIInv, PTL DEF Spec

\* Header and first words keep their types.
THEOREM TypeCorrect == Spec => []TypeOK
<1>1. IInv => TypeOK
  BY DEF IInv
<1> QED
  BY <1>1, Invariant, PTL

\* allocatePage never follows the free list out of the file or round a cycle,
\* and never hands out the first page, whichever writes of earlier calls failed.
THEOREM FreeListEndsAlways == Spec => []FreeListEnds
<1>1. IInv => FreeListEnds
  <2> SUFFICES ASSUME IInv PROVE FreeListEnds
    OBVIOUS
  <2>1. TypeOK /\ Header
    BY DEF IInv
  <2>2. PICK n \in Nat : \E s : Listed(n, s)
    BY DEF IInv, FreeList
  <2>3. PICK s : Listed(n, s)
    BY <2>2
  <2>4. FreeSet = {s[k] : k \in 0 .. n - 1} /\ Chain[MaxPages] = Nil
    BY <2>1, <2>3, ChainIs
  <2>5. FreeSet \subseteq 2 .. numPages - 1
    BY <2>3, <2>4 DEF Listed
  <2> QED
    BY <2>1, <2>4, <2>5 DEF Header, FreeListEnds
<1> QED
  BY <1>1, Invariant, PTL

\* No page is handed out twice, and no failed call loses one.
THEOREM OwnedOrFreeAlways == Spec => []OwnedOrFree
<1>1. IInv => OwnedOrFree
  <2> SUFFICES ASSUME IInv PROVE OwnedOrFree
    OBVIOUS
  <2>1. TypeOK /\ Header
    BY DEF IInv
  <2>2. PICK n \in Nat : \E s : Listed(n, s)
    BY DEF IInv, FreeList
  <2>3. PICK s : Listed(n, s)
    BY <2>2
  <2>4. FreeSet = {s[k] : k \in 0 .. n - 1}
    BY <2>1, <2>3, ChainIs
  <2>5. owned \cap FreeSet = {}
    BY <2>3, <2>4 DEF Listed
  <2>6. \A k \in 0 .. n - 1 : s[k] \in 1 .. numPages - 1
    <3>1. \A k \in 0 .. n - 1 : s[k] \in 2 .. numPages - 1
      BY <2>3 DEF Listed
    <3>2. numPages \in Int
      BY <2>1, DbFileAssumption DEF TypeOK
    <3> QED
      BY <3>1, <3>2
  <2>7. \A p \in 1 .. numPages - 1 : p \in owned \/ \E k \in 0 .. n - 1 : s[k] = p
    BY <2>3 DEF Listed
  <2>8. owned \cup FreeSet = 1 .. numPages - 1
    BY <2>1, <2>4, <2>6, <2>7, Zenon DEF Header
  <2> QED
    BY <2>5, <2>8 DEF OwnedOrFree
<1> QED
  BY <1>1, Invariant, PTL

\* ChainIs as a formula, which may be primed.
ListIsFreeSet ==
  \A n \in Nat : \A s : TypeOK /\ Listed(n, s) => FreeSet = {s[k] : k \in 0 .. n - 1}

LEMMA BothListsAreFreeSets == ListIsFreeSet /\ ListIsFreeSet'
<1>1. ListIsFreeSet
  BY ChainIs DEF ListIsFreeSet
<1> QED
  BY <1>1, PTL

\* The links implement the set of free pages that the buffer manager relies on:
\* each call takes one page from it, adds one, grows the file, or changes nothing.
THEOREM FilePagesRefinement == Spec => ImplementsFilePages
<1>1. Init => Pages!Init
  <2> SUFFICES ASSUME Init PROVE Pages!Init
    OBVIOUS
  <2>1. 0 .. -1 = {} /\ 0 .. 0 - 1 = {}
    OBVIOUS
  <2>2. [k \in 0 .. -1 |-> k] \in [0 .. -1 -> {}]
    BY <2>1
  <2>3. TypeOK /\ Listed(0, [k \in 0 .. -1 |-> k])
    BY <2>2, InitListed DEF IInv
  <2>4. FreeSet = {[k \in 0 .. -1 |-> k][i] : i \in 0 .. 0 - 1}
    BY <2>3, BothListsAreFreeSets DEF ListIsFreeSet
  <2>5. FreeSet = {}
    BY <2>1, <2>4
  <2> QED
    BY <2>5 DEF Init, Pages!Init
<1>2. IInv /\ IInv' /\ [Next]_vars => [Pages!Next]_Pages!vars
  <2> SUFFICES ASSUME IInv, IInv', [Next]_vars PROVE Pages!Next \/ UNCHANGED Pages!vars
    OBVIOUS
  <2>1. TypeOK /\ TypeOK'
    BY DEF IInv
  <2>2. PICK n \in Nat : \E s : Listed(n, s)
    BY DEF IInv, FreeList
  <2>3. PICK s : Listed(n, s)
    BY <2>2
  <2>4. FreeSet = {s[k] : k \in 0 .. n - 1}
    BY <2>1, <2>3, BothListsAreFreeSets DEF ListIsFreeSet
  <2>5. /\ \A k \in 0 .. n - 1 : s[k] \notin owned
        /\ \A i, j \in 0 .. n - 1 : s[i] = s[j] => i = j
    BY <2>3 DEF Listed
  <2>6. CASE allocateFree
    <3> DEFINE t == [k \in 0 .. n - 2 |-> s[k + 1]]
    <3>1. n > 0 /\ nextFree = s[0] /\ nextFree \in 2 .. numPages - 1 /\ Listed(n - 1, t)'
      BY <2>3, <2>6, ListTail
    <3>2. n - 1 \in Nat /\ (n - 1) - 1 = n - 2 /\ 0 \in 0 .. n - 1
      BY <3>1
    <3> HIDE DEF t
    <3>3. FreeSet' = {t[k] : k \in 0 .. (n - 1) - 1}
      BY <2>1, <3>1, <3>2, BothListsAreFreeSets DEF ListIsFreeSet
    <3>4. FreeSet' = {s[k + 1] : k \in 0 .. n - 2}
      BY <3>2, <3>3 DEF t
    <3>5. {s[k + 1] : k \in 0 .. n - 2} = {s[k] : k \in 0 .. n - 1} \ {s[0]}
      <4>1. ASSUME NEW k \in 0 .. n - 2
            PROVE  k + 1 \in 0 .. n - 1 /\ s[k + 1] # s[0]
        <5>1. k + 1 \in 0 .. n - 1 /\ k + 1 # 0
          OBVIOUS
        <5> QED
          BY <2>5, <3>2, <5>1
      <4>2. ASSUME NEW k \in 0 .. n - 1, s[k] # s[0]
            PROVE  \E i \in 0 .. n - 2 : s[k] = s[i + 1]
        <5>1. k # 0
          BY <4>2
        <5>2. k - 1 \in 0 .. n - 2 /\ (k - 1) + 1 = k
          BY <5>1
        <5> QED
          BY <5>2
      <4> QED
        BY <4>1, <4>2
    <3>6. FreeSet' = FreeSet \ {nextFree} /\ nextFree \in FreeSet
      BY <2>4, <3>1, <3>2, <3>4, <3>5
    <3>7. numPages' = numPages
      BY <2>6 DEF allocateFree
    <3>8. Pages!Reuse(nextFree)
      BY <3>6, <3>7 DEF Pages!Reuse
    <3> QED
      BY <3>1, <3>8 DEF Pages!Next
  <2>7. CASE allocateExtend
    <3>1. n = 0 /\ Listed(0, s)'
      BY <2>3, <2>7, ListEmpty
    <3>2. FreeSet' = {s[k] : k \in 0 .. 0 - 1}
      BY <2>1, <3>1, BothListsAreFreeSets DEF ListIsFreeSet
    <3>3. 0 .. 0 - 1 = {}
      OBVIOUS
    <3>4. FreeSet = {} /\ FreeSet' = {}
      BY <2>4, <3>1, <3>2, <3>3
    <3> QED
      BY <2>7, <3>4 DEF Pages!Next, Pages!Extend, allocateExtend
  <2>8. ASSUME NEW p, disposeOK(p) PROVE Pages!Next
    <3> DEFINE t == [k \in 0 .. n |-> IF k = 0 THEN p ELSE s[k - 1]]
    <3>1. p \in 2 .. numPages - 1 /\ p \in owned /\ Listed(n + 1, t)'
      BY <2>3, <2>8, ListCons
    <3>2. n + 1 \in Nat /\ (n + 1) - 1 = n
      OBVIOUS
    <3> HIDE DEF t
    <3>3. FreeSet' = {t[k] : k \in 0 .. (n + 1) - 1}
      BY <2>1, <3>1, <3>2, BothListsAreFreeSets DEF ListIsFreeSet
    <3>4. FreeSet' = {t[k] : k \in 0 .. n}
      BY <3>2, <3>3
    <3>5. {t[k] : k \in 0 .. n} = {s[k] : k \in 0 .. n - 1} \cup {p}
      <4>1. ASSUME NEW k \in 0 .. n PROVE t[k] = p \/ \E i \in 0 .. n - 1 : t[k] = s[i]
        <5>1. k # 0 => k - 1 \in 0 .. n - 1
          OBVIOUS
        <5> QED
          BY <5>1 DEF t
      <4>2. ASSUME NEW k \in 0 .. n - 1 PROVE \E i \in 0 .. n : t[i] = s[k]
        <5>1. k + 1 \in 0 .. n /\ k + 1 # 0 /\ (k + 1) - 1 = k
          OBVIOUS
        <5>2. t[k + 1] = s[k]
          BY <5>1 DEF t
        <5> QED
          BY <5>1, <5>2
      <4>3. 0 \in 0 .. n /\ t[0] = p
        BY DEF t
      <4> QED
        BY <4>1, <4>2, <4>3
    <3>6. FreeSet' = FreeSet \cup {p} /\ p \notin FreeSet
      BY <2>4, <2>5, <3>1, <3>4, <3>5
    <3>7. numPages' = numPages
      BY <2>8 DEF disposeOK
    <3>8. Pages!Dispose(p)
      BY <3>1, <3>6, <3>7 DEF Pages!Dispose
    <3> QED
      BY <3>1, <3>8 DEF Pages!Next
  <2>9. CASE Off
    <3>1. Listed(n, s)'
      BY <2>3, <2>9, OffSame
    <3>2. FreeSet' = {s[k] : k \in 0 .. n - 1}
      BY <2>1, <3>1, BothListsAreFreeSets DEF ListIsFreeSet
    <3> QED
      BY <2>4, <2>9, <3>2 DEF Pages!vars, Off
  <2> QED
    BY <2>6, <2>7, <2>8, <2>9, NextKinds
<1> QED
  BY <1>1, <1>2, Invariant, PTL DEF Spec, ImplementsFilePages, Pages!Spec
=============================================================================
