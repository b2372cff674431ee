------------------------------ MODULE MCBufMgr ------------------------------
(***************************************************************************)
(* Small instances of BufMgr for TLC.                                      *)
(***************************************************************************)
EXTENDS BufMgr, TLC

\* Clients, and the values they store, are interchangeable.
Symmetry == Permutations(Client) \cup Permutations(Value) \cup Permutations(File)
=============================================================================
