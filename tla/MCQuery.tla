------------------------------- MODULE MCQuery -------------------------------
(***************************************************************************)
(* Instance of Query: R has both attributes in the catalog and S only k.   *)
(* -4 and 3 are the ends of an int of 3 bits.                              *)
(***************************************************************************)
EXTENDS Query

MCKeyVal == {-4, 0, 3}
MCFullKey == {3}
MCTuple == {[rel |-> "R", attr |-> "k"], [rel |-> "R", attr |-> "v"],
            [rel |-> "S", attr |-> "k"]}
MCProjNames == {<<[rel |-> "R", attr |-> "v"]>>,
                <<[rel |-> "S", attr |-> "k"], [rel |-> "R", attr |-> "v"]>>,
                <<[rel |-> "R", attr |-> "k"], [rel |-> "S", attr |-> "v"]>>}
=============================================================================
