----------------------------- MODULE ClockSweep -----------------------------
(***************************************************************************)
(* BufMgr::allocBuf, one iteration of its loop per step, from any frame    *)
(* table and any position of the hand.  It shows that the loop ends and    *)
(* that it does what the closed form of module Clock says, which BufMgr    *)
(* uses to make allocBuf a single step.  Of a frame it has the flags that  *)
(* the loop reads.                                                         *)
(***************************************************************************)
EXTENDS Clock

CONSTANT MaxPins        \* bound: pin count of a frame at the call

ASSUME MaxPinsAssumption == MaxPins \in Nat \ {0}

VARIABLES numScanned,
          found,
          pc,           \* "loop", "full" (BUFFEREXCEEDED) or "frame" (OK)
          table0,       \* history: the frame table at the call
          hand0         \* history: the hand at the call

loopVars == <<bufTable, clockHand, numScanned, found, pc, table0, hand0>>

\* A frame as BufMgr leaves it: one that is not valid is not pinned.
Desc == {d \in [valid : BOOLEAN, pinCnt : 0 .. MaxPins, refbit : BOOLEAN] :
           d.valid \/ d.pinCnt = 0}

LoopInit ==
  /\ bufTable \in [Frames -> Desc]
  /\ clockHand \in Frames
  /\ numScanned = 0
  /\ found = FALSE
  /\ pc = "loop"
  /\ table0 = bufTable
  /\ hand0 = clockHand

\* What follows the loop: the test for a full pool, or the frame is returned.
Leave(foundNow, scanned) ==
  pc' = IF ~foundNow /\ scanned >= 2 * numBufs THEN "full" ELSE "frame"

\* Mutant: the hand never reaches the last frame.
advanceShort == (clockHand + 1) % (numBufs - 1)

advanceClock == (clockHand + 1) % numBufs

\* Mutant: frames that are in use are not counted.
CountUnpinned ==
  IF bufTable[advanceClock].pinCnt > 0 THEN numScanned ELSE numScanned + 1

Count == numScanned + 1

\* One iteration: advance, count, look at the frame under the hand.
Iterate ==
  LET i == advanceClock
      d == bufTable[i]
  IN  /\ pc = "loop" /\ numScanned < 2 * numBufs
      /\ clockHand' = i
      /\ numScanned' = Count
      /\ \/ /\ ~d.valid
            /\ Leave(found, Count)
            /\ UNCHANGED <<bufTable, found>>
         \/ /\ d.valid /\ ~d.refbit /\ d.pinCnt = 0
            /\ found' = TRUE
            /\ Leave(TRUE, Count)
            /\ UNCHANGED bufTable
         \/ /\ d.valid /\ ~d.refbit /\ d.pinCnt > 0
            /\ UNCHANGED <<bufTable, found, pc>>
         \/ /\ d.valid /\ d.refbit
            /\ bufTable' = [bufTable EXCEPT ![i].refbit = FALSE]
            /\ UNCHANGED <<found, pc>>
      /\ UNCHANGED <<table0, hand0>>

\* The loop condition is false.
EndLoop ==
  /\ pc = "loop" /\ numScanned >= 2 * numBufs
  /\ Leave(found, numScanned)
  /\ UNCHANGED <<bufTable, clockHand, numScanned, found, table0, hand0>>

LoopNext == Iterate \/ EndLoop

\* The loop is sequential code: its next iteration is always taken.
LoopSpec == LoopInit /\ [][LoopNext]_loopVars /\ WF_loopVars(LoopNext)

-----------------------------------------------------------------------------
\* While allocBuf's loop runs, and when it returns, the hand and the table are
\* those of the closed form; it returns a frame exactly when the closed form
\* has a first stop, and BUFFEREXCEEDED exactly when it has none.
MatchesClosedForm ==
  \/ /\ pc = "loop"
     /\ clockHand = Sweep(hand0, numScanned)
     /\ bufTable = Swept(table0, hand0, numScanned)
     /\ \A n \in 1 .. numScanned : ~Stops(table0, hand0, n)
  \/ /\ pc = "frame"
     /\ FirstStop(table0, hand0, numScanned)
     /\ clockHand = Sweep(hand0, numScanned)
     /\ bufTable = Swept(table0, hand0, numScanned - 1)
  \/ /\ pc = "full"
     /\ Exhausted(table0, hand0)
     /\ clockHand = hand0
     /\ bufTable = Swept(table0, hand0, 2 * numBufs)

\* allocBuf always returns.
Returns == <>(pc # "loop")
=============================================================================
