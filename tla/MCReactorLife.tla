---------------------------- MODULE MCReactorLife ----------------------------
(***************************************************************************)
(* Model checking instance of ReactorLife.                                 *)
(***************************************************************************)
EXTENDS ReactorLife

CONSTANTS r, u, b1, b2, b3, k1, k2, k3

MCPools == {r, u}
MCReactors == {r}
MCBases == {b1, b2, b3}
MCHolders == {k1, k2, k3}
MCSizes == {1, 2}
MCSymmetry == Permutations(MCBases) \cup Permutations(MCHolders)
=============================================================================
