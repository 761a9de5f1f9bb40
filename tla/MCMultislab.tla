----------------------------- MODULE MCMultislab -----------------------------
(* The multislab allocator with three places for slabs in memory. *)
EXTENDS Multislab
=============================================================================
