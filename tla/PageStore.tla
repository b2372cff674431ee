------------------------------ MODULE PageStore ------------------------------
(***************************************************************************)
(* What the buffer manager promises the layers above it: a store of pages, *)
(* without frames, pins, clock or hash table.                              *)
(*                                                                         *)
(* A client writes a page through the pointer it was given and later       *)
(* reports the write (unPinPage with dirty = true).  "page" is what any    *)
(* client reads; "saved" is what a restart of the program brings back.     *)
(* Until a write is reported it may or may not survive a restart; once     *)
(* reported it does.  Nothing else changes a page: no other page's         *)
(* traffic, no eviction, no flush.                                         *)
(***************************************************************************)
EXTENDS Integers

CONSTANTS File,         \* the open files
          PageNos,      \* page numbers
          Content,      \* what a page may hold
          Client,       \* users of the buffer manager
          None          \* "this client has nothing to report"

VARIABLES page,         \* page[f][p]: the contents a client reads
          saved,        \* saved[f][p]: the contents after a restart
          allocated,    \* allocated[f]: pages that belong to the file
          writing       \* writing[c]: the page client c still has to report

vars == <<page, saved, allocated, writing>>

Init ==
  /\ page \in [File -> [PageNos -> Content]]
  /\ saved = page
  /\ allocated = [f \in File |-> {}]
  /\ writing = [c \in Client |-> None]

\* Client c stores v; whether v is already safe is not promised.
Write(c, f, p, v) ==
  /\ p \in allocated[f]
  /\ writing[c] \in {None, <<f, p>>}
  /\ writing' = [writing EXCEPT ![c] = <<f, p>>]
  /\ page' = [page EXCEPT ![f][p] = v]
  /\ saved' \in {saved, [saved EXCEPT ![f][p] = v]}
  /\ UNCHANGED allocated

\* Client c reports its write: from now on a restart keeps the page.
Report(c, f, p) ==
  /\ writing[c] \in {None, <<f, p>>}
  /\ writing' = [writing EXCEPT ![c] = None]
  /\ saved' = [saved EXCEPT ![f][p] = page[f][p]]
  /\ UNCHANGED <<page, allocated>>

\* Client c gets a new page to fill in; its first contents are arbitrary.
Allocate(c, f, p) ==
  /\ p \notin allocated[f]
  /\ writing[c] = None
  /\ allocated' = [allocated EXCEPT ![f] = @ \cup {p}]
  /\ writing' = [writing EXCEPT ![c] = <<f, p>>]
  /\ \E v, w \in Content :
       /\ page' = [page EXCEPT ![f][p] = v]
       /\ saved' = [saved EXCEPT ![f][p] = w]

\* A page is allocated in the file, but the client gets no frame for it.
Leak(f, p) ==
  /\ p \notin allocated[f]
  /\ allocated' = [allocated EXCEPT ![f] = @ \cup {p}]
  /\ \E w \in Content :
       /\ page' = [page EXCEPT ![f][p] = w]
       /\ saved' = [saved EXCEPT ![f][p] = w]
  /\ UNCHANGED writing

\* The page is given back to the file.
Free(f, p) ==
  /\ p \in allocated[f]
  /\ \A c \in Client : writing[c] # <<f, p>>
  /\ allocated' = [allocated EXCEPT ![f] = @ \ {p}]
  /\ \E w \in Content :
       /\ page' = [page EXCEPT ![f][p] = w]
       /\ saved' = [saved EXCEPT ![f][p] = w]
  /\ UNCHANGED writing

\* The program ends and starts again: unreported writes may be gone.
Restart ==
  /\ writing' = [c \in Client |-> None]
  /\ page' = saved
  /\ UNCHANGED <<saved, allocated>>

Next ==
  \/ \E c \in Client, f \in File, p \in PageNos :
       \/ \E v \in Content : Write(c, f, p, v)
       \/ Report(c, f, p)
       \/ Allocate(c, f, p)
  \/ \E f \in File, p \in PageNos : Leak(f, p) \/ Free(f, p)
  \/ Restart

Spec == Init /\ [][Next]_vars
==============================================================================
