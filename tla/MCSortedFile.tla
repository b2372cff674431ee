---------------------------- MODULE MCSortedFile ----------------------------
(***************************************************************************)
(* Small instances of SortedFile for TLC.                                  *)
(***************************************************************************)
EXTENDS SortedFile

MCKeyVal == {-2, 0, 1}

\* Objects are interchangeable, and so are records with the same key.
Symmetry == Permutations(Sorter) \cup Permutations(Id)
=============================================================================
