----------------------------- MODULE MCHeapFile -----------------------------
(***************************************************************************)
(* Small instances of HeapFile for TLC.                                    *)
(***************************************************************************)
EXTENDS HeapFile, TLC

\* Objects on the file, and values of records, are interchangeable.
Symmetry == Permutations(Scanner) \cup Permutations(Val)
=============================================================================
