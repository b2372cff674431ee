----------------------------- MODULE SortCursor -----------------------------
(***************************************************************************)
(* What a SortedFile (sort.h) promises its caller: next() returns the      *)
(* records of the source file in ascending order of their keys, those with *)
(* equal keys in any order, and gotoMark() goes back to the mark.          *)
(*                                                                         *)
(* setMark() marks the record that next() has just returned, so that it is *)
(* returned again.  A mark set before the first next() is the end of the   *)
(* file: gotoMark() takes a run that nothing was fetched from for a run    *)
(* that has ended (sort.cpp:402).                                          *)
(***************************************************************************)
EXTENDS Integers

CONSTANTS Sorter,       \* SortedFile objects
          NoMark        \* no mark was set

VARIABLES source,       \* records of the source file: [key, id]
          rest,         \* rest[s]: records still to come
          last,         \* last[s]: the record just returned, if there is one
          started,      \* started[s]: next() was called
          mark,         \* mark[s]: records to come after gotoMark
          status        \* status[s]: of the last call; "none": not open

vars == <<source, rest, last, started, mark, status>>

Init ==
  /\ rest = [s \in Sorter |-> {}]
  /\ last = [s \in Sorter |-> {}]
  /\ started = [s \in Sorter |-> FALSE]
  /\ mark = [s \in Sorter |-> NoMark]
  /\ status = [s \in Sorter |-> "none"]

Open(s) ==
  /\ status[s] = "none"
  /\ rest' = [rest EXCEPT ![s] = source]
  /\ status' = [status EXCEPT ![s] = "opened"]
  /\ UNCHANGED <<source, last, started, mark>>

NextRecord(s) ==
  \E r \in rest[s] :
    /\ \A q \in rest[s] : r.key <= q.key
    /\ rest' = [rest EXCEPT ![s] = @ \ {r}]
    /\ last' = [last EXCEPT ![s] = {r}]
    /\ status' = [status EXCEPT ![s] = "OK"]

NextAtEnd(s) ==
  /\ rest[s] = {}
  /\ last' = [last EXCEPT ![s] = {}]
  /\ status' = [status EXCEPT ![s] = "FILEEOF"]
  /\ UNCHANGED rest

Next(s) ==
  /\ status[s] # "none"
  /\ NextRecord(s) \/ NextAtEnd(s)
  /\ started' = [started EXCEPT ![s] = TRUE]
  /\ UNCHANGED <<source, mark>>

SetMark(s) ==
  /\ status[s] # "none"
  /\ mark' = [mark EXCEPT ![s] = IF started[s] THEN rest[s] \cup last[s] ELSE {}]
  /\ UNCHANGED <<source, rest, last, started, status>>

GotoMark(s) ==
  /\ status[s] # "none" /\ mark[s] # NoMark
  /\ rest' = [rest EXCEPT ![s] = mark[s]]
  /\ last' = [last EXCEPT ![s] = {}]
  /\ UNCHANGED <<source, started, mark, status>>

Close(s) ==
  /\ rest' = [rest EXCEPT ![s] = {}]
  /\ last' = [last EXCEPT ![s] = {}]
  /\ started' = [started EXCEPT ![s] = FALSE]
  /\ mark' = [mark EXCEPT ![s] = NoMark]
  /\ status' = [status EXCEPT ![s] = "none"]
  /\ UNCHANGED source

\* The program ends with any of the objects.
CloseAll == Init' /\ UNCHANGED source

Step == CloseAll \/ \E s \in Sorter :
  Open(s) \/ Next(s) \/ SetMark(s) \/ GotoMark(s) \/ Close(s)

Spec == Init /\ [][Step]_vars
=============================================================================
