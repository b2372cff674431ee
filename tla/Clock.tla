-------------------------------- MODULE Clock --------------------------------
(***************************************************************************)
(* The victim that BufMgr::allocBuf chooses, in closed form.               *)
(*                                                                         *)
(* The loop of buf.cpp:75-109 advances the hand at most 2 * numBufs times. *)
(* The n-th advance looks at frame Sweep(hand, n); a frame that is valid   *)
(* and not taken there leaves the visit with its reference bit cleared.    *)
(* BufMgr uses these definitions to make allocBuf one step; ClockSweep     *)
(* checks them against the loop taken one iteration at a time.  Both have  *)
(* the frame table and the hand of a BufMgr.                               *)
(***************************************************************************)
EXTENDS Integers

CONSTANT numBufs        \* number of frames in the pool (BufMgr::numBufs)

ASSUME NumBufsAssumption == numBufs \in Nat \ {0}

VARIABLES bufTable,     \* bufTable[i]: the BufDesc of frame i
          clockHand     \* the frame under the clock hand

Frames == 0 .. numBufs - 1

\* The frame under the hand after n calls of advanceClock.
Sweep(hand, n) == (hand + n) % numBufs

\* Mutant: the pin count is not tested.
StopsPinned(tbl, hand, n) ==
  ~tbl[Sweep(hand, n)].valid \/ ~tbl[Sweep(hand, n)].refbit \/ n > numBufs

(***************************************************************************)
(* The loop leaves at its n-th iteration: the frame is invalid, or it is   *)
(* unpinned and its reference bit is off.  In the second round every bit   *)
(* has been cleared by the first, so there only the pin count matters.     *)
(***************************************************************************)
Stops(tbl, hand, n) ==
  LET d == tbl[Sweep(hand, n)]
  IN  \/ ~d.valid
      \/ d.pinCnt = 0 /\ (~d.refbit \/ n > numBufs)

FirstStop(tbl, hand, n) ==
  /\ n \in 1 .. 2 * numBufs
  /\ Stops(tbl, hand, n)
  /\ \A m \in 1 .. n - 1 : ~Stops(tbl, hand, m)

\* Mutant: one round is taken to be enough.
ExhaustedOneRound(tbl, hand) == \A n \in 1 .. numBufs : ~Stops(tbl, hand, n)

\* No iteration leaves the loop: allocBuf returns BUFFEREXCEEDED.
Exhausted(tbl, hand) == \A n \in 1 .. 2 * numBufs : ~Stops(tbl, hand, n)

\* The frame table once n frames have been visited and passed over.
Swept(tbl, hand, n) ==
  [i \in Frames |->
     IF \E m \in 1 .. n : Sweep(hand, m) = i
     THEN [tbl[i] EXCEPT !.refbit = FALSE]
     ELSE tbl[i]]
==============================================================================
