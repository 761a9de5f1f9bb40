---------------------------- MODULE MCTimerHeap ----------------------------
(***************************************************************************)
(* Model checking instances of TimerHeap.  Six timers are the fewest with  *)
(* which a removal from the middle has to sift up.                         *)
(***************************************************************************)
EXTENDS TimerHeap, TLC

CONSTANTS f1, f2, f3, f4, f5, f6

MCSixFibers == {f1, f2, f3, f4, f5, f6}

MCSymmetry == Permutations(MCSixFibers)
=============================================================================
