----------------------------- MODULE MCTransport -----------------------------
(***************************************************************************)
(* Model checking instance of Transport: 6-bit deadlines.                  *)
(***************************************************************************)
EXTENDS Transport

MCTimeouts == {-1, 0, 1, 3, IntMax}
MCSleeps == {0, 2, IntMax, UintMax - 1, UintMax}
=============================================================================
