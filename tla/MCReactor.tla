----------------------------- MODULE MCReactor -----------------------------
(***************************************************************************)
(* Model checking instances of Reactor.                                    *)
(***************************************************************************)
EXTENDS Reactor, TLC

CONSTANTS f1, f2, d1, d2

MCOneFiber == {f1}
MCTwoFibers == {f1, f2}
MCNoFds == {}
MCOneFd == {d1}
MCTwoFds == {d1, d2}

MCNoFaults == {}
MCAllFaults == {"stack", "heap", "ctl", "poll", "signal"}

(* Nothing tells two blocks of the pool, or two descriptors, apart. *)
MCSymmetry == Permutations(MCTwoFibers) \cup Permutations(MCTwoFds)
=============================================================================
