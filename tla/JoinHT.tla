------------------------------- MODULE JoinHT -------------------------------
(***************************************************************************)
(* The in-memory hash table for joins (joinHT.h, joinHT.cpp): chains of    *)
(* (attribute value, RID) pairs, and for each chain the count that lookup  *)
(* sizes its array of results by.                                          *)
(*                                                                         *)
(* hash() of a string reads on until it finds a NUL ("must be a null       *)
(* terminated string", joinHT.cpp:43), while the comparison stops at the   *)
(* attribute's length.  The index is therefore a function of the value     *)
(* and, for a value that fills its attribute, of what follows in the       *)
(* record.                                                                 *)
(***************************************************************************)
EXTENDS Integers, Sequences, SequencesExt

CONSTANTS HTSIZE,       \* number of chains
          FullKey,      \* values that leave no room for a NUL
          NUL           \* the end of any other value

ASSUME JoinHTAssumption == HTSIZE \in Nat \ {0}

\* The constructor: every chain is empty.
EmptyTable == [i \in 0 .. HTSIZE - 1 |-> [bucketCnt |-> 0, chain |-> <<>>]]

\* hash() with a hash function h: the bytes it depends on.
hash(h, key, after) == h[key, IF key \in FullKey THEN after ELSE NUL]

\* Mutant: the count of the chain is not kept.
insertedUncounted(ht, i, key, rid) ==
  [ht EXCEPT ![i].chain = <<[value |-> key, rid |-> rid]>> \o @]

\* insert puts the pair at the head of its chain.
inserted(ht, i, key, rid) ==
  [ht EXCEPT ![i] = [bucketCnt |-> @.bucketCnt + 1,
                     chain |-> <<[value |-> key, rid |-> rid]>> \o @.chain]]

\* lookup walks the chain and stores the RIDs of equal values.
lookup(ht, i, key) ==
  LET chain == ht[i].chain
      found[n \in 0 .. Len(chain)] ==
        IF n = 0 THEN <<>>
        ELSE IF chain[n].value = key THEN Append(found[n - 1], chain[n].rid)
        ELSE found[n - 1]
  IN  found[Len(chain)]
=============================================================================
