------------------------------ MODULE CmdQueue ------------------------------
(***************************************************************************)
(* What the reactor's command path promises its callers: a bounded FIFO of *)
(* commands, ordered by the moment a poster claims its place, from which   *)
(* the loop takes a command only once its poster has finished writing it.  *)
(* A poster that stalls between claiming and publishing hides the commands *)
(* behind it from the loop, and nothing else.                              *)
(*                                                                         *)
(* CmdRing implements this specification (CmdRing!ImplementsCmdQueue), and *)
(* Reactor consumes commands in the way it allows.                         *)
(***************************************************************************)
EXTENDS Naturals, Sequences

CONSTANTS
    Cmds,       \* the commands (cmd_t values)
    NoCmd,      \* "the loop has not taken a command yet"
    Cap         \* CMD_RING_CAP

VARIABLES
    queue,      \* claimed and not yet taken, oldest first
    out         \* the command last handed to apply_cmd

vars == <<queue, out>>

Entry == [cmd : Cmds, published : BOOLEAN]

Init == queue = <<>> /\ out = NoCmd

(* A poster gets its place in the order. *)
Claim(c) ==
    /\ Len(queue) < Cap
    /\ queue' = Append(queue, [cmd |-> c, published |-> FALSE])
    /\ UNCHANGED out

(* It finishes writing the command there. *)
Publish(i) ==
    /\ ~ queue[i].published
    /\ queue' = [queue EXCEPT ![i].published = TRUE]
    /\ UNCHANGED out

(* The loop takes the oldest command. *)
Take ==
    /\ queue # <<>>
    /\ Head(queue).published
    /\ out' = Head(queue).cmd
    /\ queue' = Tail(queue)

Next ==
    \/ \E c \in Cmds : Claim(c)
    \/ \E i \in DOMAIN queue : Publish(i)
    \/ Take

Spec == Init /\ [][Next]_vars
=============================================================================
