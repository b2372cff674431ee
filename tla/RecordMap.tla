------------------------------ MODULE RecordMap ------------------------------
(***************************************************************************)
(* What a data page promises: a map from slot numbers to records.  A       *)
(* record keeps its slot number and its bytes until it is deleted.         *)
(***************************************************************************)
CONSTANTS SlotNos, Record, NoRecord

VARIABLE rec            \* rec[s]: the record in slot s, or NoRecord

Init == rec = [s \in SlotNos |-> NoRecord]

Insert(s, r) == rec[s] = NoRecord /\ rec' = [rec EXCEPT ![s] = r]

Delete(s) == rec[s] # NoRecord /\ rec' = [rec EXCEPT ![s] = NoRecord]

Next == \E s \in SlotNos : Delete(s) \/ \E r \in Record : Insert(s, r)

Spec == Init /\ [][Next]_rec
==============================================================================
