---------------------------- MODULE MCOpenFiles ----------------------------
(***************************************************************************)
(* Small instances of OpenFiles for TLC.                                   *)
(***************************************************************************)
EXTENDS OpenFiles, TLC

\* Names, addresses and objects are interchangeable.
Symmetry == Permutations(Name) \cup Permutations(Addr) \cup Permutations(Obj)
=============================================================================
