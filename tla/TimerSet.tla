------------------------------ MODULE TimerSet ------------------------------
(***************************************************************************)
(* What the reactor relies on its timers for: a set of deadlines, at most  *)
(* one for each fiber, that can be added and withdrawn at any time, and a  *)
(* round of firing that takes the expired ones, earliest first, and leaves *)
(* none behind.                                                            *)
(*                                                                         *)
(* TimerHeap implements this specification (TimerHeap!ImplementsTimerSet). *)
(***************************************************************************)
EXTENDS Integers

CONSTANTS
    Fibers,
    Deadlines    \* deadline_ns values

VARIABLES
    timers,      \* the pending deadlines: a function of the fibers that have one
    firing,      \* the loop is in fire_expired_timers
    now          \* now_ns()

vars == <<timers, firing, now>>

Pending == DOMAIN timers

Without(f) == [g \in Pending \ {f} |-> timers[g]]

Init == timers = [f \in {} |-> 0] /\ firing = FALSE /\ now = 0

Add(f, d) ==
    /\ ~ firing
    /\ f \notin Pending
    /\ timers' = [g \in Pending \cup {f} |-> IF g = f THEN d ELSE timers[g]]
    /\ UNCHANGED <<firing, now>>

Remove(f) ==
    /\ ~ firing
    /\ f \in Pending
    /\ timers' = Without(f)
    /\ UNCHANGED <<firing, now>>

FireBegin == ~ firing /\ firing' = TRUE /\ UNCHANGED <<timers, now>>

(* An expired deadline, and none is earlier. *)
Fire(f) ==
    /\ firing
    /\ f \in Pending /\ timers[f] <= now
    /\ \A g \in Pending : timers[f] <= timers[g]
    /\ timers' = Without(f)
    /\ UNCHANGED <<firing, now>>

FireEnd ==
    /\ firing
    /\ \A g \in Pending : timers[g] > now
    /\ firing' = FALSE
    /\ UNCHANGED <<timers, now>>

Tick ==
    /\ ~ firing
    /\ now' = now + 1
    /\ UNCHANGED <<timers, firing>>

Next ==
    \/ \E f \in Fibers : (\E d \in Deadlines : Add(f, d)) \/ Remove(f) \/ Fire(f)
    \/ FireBegin \/ FireEnd \/ Tick

Spec == Init /\ [][Next]_vars
=============================================================================
