----------------------------- MODULE MCCmdRing -----------------------------
(***************************************************************************)
(* Model checking instance of CmdRing.  Two commands are enough to tell a  *)
(* command from the one that overwrote it, and from the reverse order.     *)
(***************************************************************************)
EXTENDS CmdRing

CONSTANTS p1, p2, wake, cancel

MCProducers == {p1, p2}
MCCmds == {wake, cancel}
=============================================================================
