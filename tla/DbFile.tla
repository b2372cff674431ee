------------------------------- MODULE DbFile -------------------------------
(***************************************************************************)
(* Page allocation in a database file: File::allocatePage, disposePage,    *)
(* writePage and getFirstPage of db.cpp, on the bytes of the Unix file.    *)
(*                                                                         *)
(* The header page holds nextFree, firstPage and numPages.  A free page    *)
(* holds the number of the next free page where a page in use holds data,  *)
(* so the free list lives in bytes that writePage may overwrite.           *)
(*                                                                         *)
(* Each operation reads and writes the file several times.  Any of these   *)
(* calls may fail, or the process may be killed between them; the header   *)
(* is always written last.                                                 *)
(***************************************************************************)
EXTENDS Integers

CONSTANTS MaxPages,     \* bound: user pages in the file
          Data          \* the first word of a page that holds user data

ASSUME DbFileAssumption == MaxPages \in Nat \ {0} /\ Data \notin Int

Nil == -1               \* end of the free list; no first page
PageNos == 1 .. MaxPages

VARIABLES nextFree,     \* header page: first page of the free list
          firstPage,    \* header page: first user page
          numPages,     \* header page: number of pages
          word,         \* word[p]: first word of page p, a link or Data
          owned,        \* pages handed to a caller and not given back
          status        \* what the last operation returned

vars == <<nextFree, firstPage, numPages, word, owned, status>>

\* File::create: just a header page.
Init ==
  /\ nextFree = Nil
  /\ firstPage = Nil
  /\ numPages = 1
  /\ word = [p \in PageNos |-> 0]
  /\ owned = {}
  /\ status = "OK"

\* A call fails before it has written anything.
FailsEarly ==
  status' = "UNIXERR" /\ UNCHANGED <<nextFree, firstPage, numPages, word, owned>>

-----------------------------------------------------------------------------
(***************************************************************************)
(* allocatePage                                                            *)
(***************************************************************************)
\* Mutants: the header keeps the page on the list; the rest of the list is lost.
allocateFreeKept ==
  /\ nextFree # Nil
  /\ owned' = owned \cup {nextFree}
  /\ status' = "OK"
  /\ UNCHANGED <<nextFree, firstPage, numPages, word>>

allocateFreeCut ==
  /\ nextFree # Nil
  /\ nextFree' = Nil
  /\ owned' = owned \cup {nextFree}
  /\ status' = "OK"
  /\ UNCHANGED <<firstPage, numPages, word>>

allocateFree ==
  /\ nextFree # Nil
  /\ nextFree' = word[nextFree]
  /\ owned' = owned \cup {nextFree}
  /\ status' = "OK"
  /\ UNCHANGED <<firstPage, numPages, word>>

FirstAfterExtend == IF firstPage = Nil THEN numPages ELSE firstPage

allocateExtend ==
  /\ nextFree = Nil
  /\ numPages <= MaxPages
  /\ word' = [word EXCEPT ![numPages] = 0]
  /\ numPages' = numPages + 1
  /\ firstPage' = FirstAfterExtend
  /\ owned' = owned \cup {numPages}
  /\ status' = "OK"
  /\ UNCHANGED nextFree

\* The new page is written, the header is not.
allocateTorn ==
  /\ nextFree = Nil
  /\ numPages <= MaxPages
  /\ word' = [word EXCEPT ![numPages] = 0]
  /\ status' = "UNIXERR"
  /\ UNCHANGED <<nextFree, firstPage, numPages, owned>>

allocatePage == allocateFree \/ allocateExtend \/ allocateTorn \/ FailsEarly

-----------------------------------------------------------------------------
(***************************************************************************)
(* disposePage.  Callers give back pages they were handed; other page      *)
(* numbers they may pass are those the code rejects.                       *)
(***************************************************************************)
\* Mutant: the first page is not protected.
RejectedRange(p) == p < 1 \/ p >= numPages

Rejected(p) == p < 1 \/ p = firstPage \/ p >= numPages

disposeRejected(p) ==
  /\ Rejected(p)
  /\ status' = "BADPAGENO"
  /\ UNCHANGED <<nextFree, firstPage, numPages, word, owned>>

disposeOK(p) ==
  /\ p \in owned /\ ~Rejected(p)
  /\ word' = [word EXCEPT ![p] = nextFree]
  /\ nextFree' = p
  /\ owned' = owned \ {p}
  /\ status' = "OK"
  /\ UNCHANGED <<firstPage, numPages>>

\* The page is overwritten with its link, the header is not: still owned.
disposeTorn(p) ==
  /\ p \in owned /\ ~Rejected(p)
  /\ word' = [word EXCEPT ![p] = nextFree]
  /\ status' = "UNIXERR"
  /\ UNCHANGED <<nextFree, firstPage, numPages, owned>>

disposePage(p) == disposeRejected(p) \/ disposeOK(p) \/ disposeTorn(p) \/ FailsEarly

-----------------------------------------------------------------------------
writeOK(p) ==
  /\ p \in owned
  /\ word' = [word EXCEPT ![p] = Data]
  /\ status' = "OK"
  /\ UNCHANGED <<nextFree, firstPage, numPages, owned>>

writePage(p) == writeOK(p) \/ FailsEarly

Next ==
  \/ allocatePage
  \/ \E p \in 0 .. MaxPages + 1 : disposePage(p)
  \/ \E p \in PageNos : writePage(p)

Spec == Init /\ [][Next]_vars

-----------------------------------------------------------------------------
\* The k-th page on the free list, following the links in the file.
Chain[k \in 0 .. MaxPages] ==
  IF k = 0 THEN nextFree
  ELSE IF Chain[k - 1] \in PageNos THEN word[Chain[k - 1]] ELSE Nil

FreeSet == {Chain[k] : k \in 0 .. MaxPages} \ {Nil}

\* Every field of the header, and every first word, has its type.
TypeOK ==
  /\ nextFree \in PageNos \cup {Nil}
  /\ firstPage \in PageNos \cup {Nil}
  /\ numPages \in 1 .. MaxPages + 1
  /\ word \in [PageNos -> PageNos \cup {Nil, 0, Data}]
  /\ owned \subseteq PageNos
  /\ status \in {"OK", "BADPAGENO", "UNIXERR"}

\* The free list that allocatePage follows ends, and it only has pages of this
\* file, never the first one, whichever of the writes of earlier calls failed.
\* The first user page, where heapfile.cpp keeps its header, never moves.
FreeListEnds ==
  /\ Chain[MaxPages] = Nil
  /\ firstPage = IF numPages > 1 THEN 1 ELSE Nil
  /\ FreeSet \subseteq 2 .. numPages - 1

\* A page is in use or free, never both and never neither: no page is handed
\* out twice, and no failed call makes the file lose one.
OwnedOrFree ==
  /\ owned \cap FreeSet = {}
  /\ owned \cup FreeSet = 1 .. numPages - 1

\* The links in the file implement a set of free pages, which is the view that
\* the buffer manager's model has of a file.
Pages == INSTANCE FilePages WITH free <- FreeSet

ImplementsFilePages == Pages!Spec
=============================================================================
