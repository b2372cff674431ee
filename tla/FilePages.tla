------------------------------ MODULE FilePages ------------------------------
(***************************************************************************)
(* What the page allocation of a database file promises: a number of pages *)
(* and a set of free ones.  This is also all that BufMgr knows of a file.  *)
(***************************************************************************)
EXTENDS Integers

VARIABLES numPages,     \* pages of the file, the header page included
          free          \* pages that may be handed out again

vars == <<numPages, free>>

Init == numPages = 1 /\ free = {}

Reuse(p) == p \in free /\ free' = free \ {p} /\ UNCHANGED numPages

\* The file grows only when it has no free page.
Extend == free = {} /\ numPages' = numPages + 1 /\ UNCHANGED free

\* Neither the header page nor the first user page can be given back.
Dispose(p) ==
  /\ p \in (2 .. numPages - 1) \ free
  /\ free' = free \cup {p}
  /\ UNCHANGED numPages

Next == Extend \/ \E p \in 2 .. numPages - 1 : Reuse(p) \/ Dispose(p)

Spec == Init /\ [][Next]_vars
==============================================================================
