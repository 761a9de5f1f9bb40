------------------------------- MODULE CmdRing -------------------------------
(***************************************************************************)
(* The reactor's cross-thread command path (src/cfiber/reactor/reactor.c,  *)
(* "Command ring"): ring_enqueue and ring_dequeue over Vyukov's bounded    *)
(* ring, post_cmd's bounded retries and eventfd poke on the posting        *)
(* threads, and drain_cmds on the loop thread.                             *)
(*                                                                         *)
(* Every atomic access of the C code is a step of its own, so any number   *)
(* of posters and the loop interleave between the load of a cursor, the    *)
(* load of a cell's sequence counter, the compare-and-exchange, the plain  *)
(* copy of the command and the store that publishes it.  A relaxed load    *)
(* that returns an old value is the same load taken earlier, which these   *)
(* interleavings contain.  compare_exchange_weak may fail spuriously.      *)
(*                                                                         *)
(* Cursors and sequence counters are size_t; 2^64 posts are out of reach,  *)
(* so they are natural numbers here and do not wrap.                       *)
(***************************************************************************)
EXTENDS Integers, Sequences

CONSTANTS
    Producers,    \* threads that call cfiber_reactor_wake / _cancel
    Cmds,         \* command values
    NoCmd,        \* contents of a cell or local never written
    Cap,          \* CMD_RING_CAP
    PostRetries,  \* POST_RETRIES
    MaxPosts      \* bound of the model: no post starts after this many claims

ASSUME CapAssumption == Cap \in Nat /\ Cap >= 2
ASSUME RetriesAssumption == PostRetries \in Nat \ {0}
ASSUME MaxPostsAssumption == MaxPosts \in Nat
ASSUME CmdAssumption == NoCmd \notin Cmds

VARIABLES
    seq,          \* cells[i].seq
    cell,         \* cells[i].cmd
    enqueue_pos,
    dequeue_pos,
    evfd,         \* the eventfd counter is not zero
    pc,           \* where each poster is in post_cmd / ring_enqueue
    pos,          \* its local pos
    cmd,          \* its argument
    tries,        \* its retry counter i
    lpc,          \* where the loop is in drain_cmds / ring_dequeue
    lpos,         \* its local pos
    out,          \* *out: the command handed to apply_cmd
    claimed       \* history: the commands in the order they were claimed

ringVars == <<seq, cell, enqueue_pos, dequeue_pos>>
posterVars == <<pc, pos, cmd, tries>>
loopVars == <<lpc, lpos, out>>
vars == <<ringVars, evfd, posterVars, loopVars, claimed>>

-----------------------------------------------------------------------------
Slot == 0 .. Cap - 1

(* pos & mask: Cap is a power of two in the code. *)
Idx(n) == n % Cap

PosterPc == {"idle", "load", "check", "cas", "write", "publish", "poke"}
LoopPc == {"wait", "clear", "check", "cas", "copy", "release"}

(* Mutant: the consumer frees the cell for the position it just read. *)
ReleasedSeqOffByOne(n) == n + Cap - 1

(* What the store that ends ring_enqueue and the one that ends ring_dequeue *)
(* leave in the cell they used for position n.                              *)
PublishedSeq(n) == n + 1
ReleasedSeq(n) == n + Cap

(* The slot a poster finds at pos can be claimed / is still in use. *)
SlotFree(n) == seq[Idx(n)] = n
SlotBusy(n) == seq[Idx(n)] < n

-----------------------------------------------------------------------------
(* ring_init *)
Init ==
    /\ seq = [i \in Slot |-> i]
    /\ cell = [i \in Slot |-> NoCmd]
    /\ enqueue_pos = 0
    /\ dequeue_pos = 0
    /\ evfd = FALSE
    /\ pc = [p \in Producers |-> "idle"]
    /\ pos = [p \in Producers |-> 0]
    /\ cmd = [p \in Producers |-> NoCmd]
    /\ tries = [p \in Producers |-> 0]
    /\ lpc = "wait"
    /\ lpos = 0
    /\ out = NoCmd
    /\ claimed = <<>>

-----------------------------------------------------------------------------
(* post_cmd, on any thread but the loop's *)

Goto(p, label) == pc' = [pc EXCEPT ![p] = label]

(* post_cmd returns: its locals are gone. *)
Return(p) ==
    /\ Goto(p, "idle")
    /\ pos' = [pos EXCEPT ![p] = 0]
    /\ cmd' = [cmd EXCEPT ![p] = NoCmd]
    /\ tries' = [tries EXCEPT ![p] = 0]

PostCmd(p) ==
    /\ pc[p] = "idle"
    /\ enqueue_pos < MaxPosts
    /\ \E c \in Cmds : cmd' = [cmd EXCEPT ![p] = c]
    /\ Goto(p, "load")
    /\ UNCHANGED <<ringVars, evfd, pos, tries, loopVars, claimed>>

(* ring_enqueue: the first load of enqueue_pos *)
EnqueueLoad(p) ==
    /\ pc[p] = "load"
    /\ pos' = [pos EXCEPT ![p] = enqueue_pos]
    /\ Goto(p, "check")
    /\ UNCHANGED <<ringVars, evfd, cmd, tries, loopVars, claimed>>

(* dif == 0: the cell is free for this position *)
EnqueueSeesFree(p) ==
    /\ pc[p] = "check"
    /\ SlotFree(pos[p])
    /\ Goto(p, "cas")
    /\ UNCHANGED <<ringVars, evfd, pos, cmd, tries, loopVars, claimed>>

(* dif > 0: another poster has passed this position; load the cursor again *)
EnqueueSeesTaken(p) ==
    /\ pc[p] = "check"
    /\ seq[Idx(pos[p])] > pos[p]
    /\ pos' = [pos EXCEPT ![p] = enqueue_pos]
    /\ UNCHANGED <<ringVars, evfd, pc, cmd, tries, loopVars, claimed>>

(* dif < 0: full.  post_cmd calls sched_yield and tries again ... *)
EnqueueFullRetry(p) ==
    /\ pc[p] = "check"
    /\ SlotBusy(pos[p])
    /\ tries[p] + 1 < PostRetries
    /\ tries' = [tries EXCEPT ![p] = @ + 1]
    /\ Goto(p, "load")
    /\ UNCHANGED <<ringVars, evfd, pos, cmd, loopVars, claimed>>

(* Mutant: the poster waits for room instead of giving up. *)
EnqueueRefusedSpins(p) ==
    /\ pc[p] = "check"
    /\ SlotBusy(pos[p])
    /\ tries[p] + 1 = PostRetries
    /\ Goto(p, "load")
    /\ UNCHANGED <<ringVars, evfd, pos, cmd, tries, loopVars, claimed>>

(* ... or gives up: errno = EAGAIN, nothing posted. *)
EnqueueRefused(p) ==
    /\ pc[p] = "check"
    /\ SlotBusy(pos[p])
    /\ tries[p] + 1 = PostRetries
    /\ Return(p)
    /\ UNCHANGED <<ringVars, evfd, loopVars, claimed>>

(* The compare-and-exchange of enqueue_pos succeeds: position pos is p's. *)
EnqueueCasWins(p) ==
    /\ pc[p] = "cas"
    /\ enqueue_pos = pos[p]
    /\ enqueue_pos' = pos[p] + 1
    /\ claimed' = Append(claimed, cmd[p])
    /\ Goto(p, "write")
    /\ UNCHANGED <<seq, cell, dequeue_pos, evfd, pos, cmd, tries, loopVars>>

(* It fails, because the cursor moved or spuriously; pos is reloaded. *)
EnqueueCasFails(p) ==
    /\ pc[p] = "cas"
    /\ pos' = [pos EXCEPT ![p] = enqueue_pos]
    /\ Goto(p, "check")
    /\ UNCHANGED <<ringVars, evfd, cmd, tries, loopVars, claimed>>

(* cell->cmd = cmd *)
EnqueueWrite(p) ==
    /\ pc[p] = "write"
    /\ cell' = [cell EXCEPT ![Idx(pos[p])] = cmd[p]]
    /\ Goto(p, "publish")
    /\ UNCHANGED <<seq, enqueue_pos, dequeue_pos, evfd, pos, cmd, tries,
                   loopVars, claimed>>

(* store seq, release *)
EnqueuePublish(p) ==
    /\ pc[p] = "publish"
    /\ seq' = [seq EXCEPT ![Idx(pos[p])] = PublishedSeq(pos[p])]
    /\ Goto(p, "poke")
    /\ UNCHANGED <<cell, enqueue_pos, dequeue_pos, evfd, pos, cmd, tries,
                   loopVars, claimed>>

(* write(evfd); the post has returned true *)
PostPoke(p) ==
    /\ pc[p] = "poke"
    /\ evfd' = TRUE
    /\ Return(p)
    /\ UNCHANGED <<ringVars, loopVars, claimed>>

Poster(p) ==
    \/ PostCmd(p)
    \/ EnqueueLoad(p)
    \/ EnqueueSeesFree(p) \/ EnqueueSeesTaken(p)
    \/ EnqueueFullRetry(p) \/ EnqueueRefused(p)
    \/ EnqueueCasWins(p) \/ EnqueueCasFails(p)
    \/ EnqueueWrite(p) \/ EnqueuePublish(p)
    \/ PostPoke(p)

-----------------------------------------------------------------------------
(* The loop thread.  "wait" stands for everything it does outside           *)
(* drain_cmds; it enters drain_cmds when epoll_wait reports the eventfd.    *)

LoopSeesEventfd ==
    /\ lpc = "wait"
    /\ evfd
    /\ lpc' = "clear"
    /\ UNCHANGED <<ringVars, evfd, posterVars, lpos, out, claimed>>

(* while (read(evfd) == 8): each read zeroes the counter *)
DrainRead ==
    /\ lpc = "clear"
    /\ evfd
    /\ evfd' = FALSE
    /\ UNCHANGED <<ringVars, posterVars, loopVars, claimed>>

(* read fails with EAGAIN: on to the ring *)
DrainReadEmpty ==
    /\ lpc = "clear"
    /\ ~ evfd
    /\ lpc' = "check"
    /\ lpos' = dequeue_pos
    /\ UNCHANGED <<ringVars, evfd, posterVars, out, claimed>>

(* dif == 0: the oldest command is published *)
DequeueSeesCmd ==
    /\ lpc = "check"
    /\ seq[Idx(lpos)] = PublishedSeq(lpos)
    /\ lpc' = "cas"
    /\ UNCHANGED <<ringVars, evfd, posterVars, lpos, out, claimed>>

(* dif < 0: empty, or its poster has not published yet; drain_cmds returns. *)
(* dif > 0 needs a second consumer (NeverOvertaken).                        *)
DequeueSeesEmpty ==
    /\ lpc = "check"
    /\ seq[Idx(lpos)] < PublishedSeq(lpos)
    /\ lpc' = "wait"
    /\ UNCHANGED <<ringVars, evfd, posterVars, lpos, out, claimed>>

(* Mutant: the cell is given back before the command is copied out. *)
DequeueCasWinsReleasesEarly ==
    /\ lpc = "cas"
    /\ dequeue_pos = lpos
    /\ dequeue_pos' = lpos + 1
    /\ seq' = [seq EXCEPT ![Idx(lpos)] = ReleasedSeq(lpos)]
    /\ lpc' = "copy"
    /\ UNCHANGED <<cell, enqueue_pos, evfd, posterVars, lpos, out, claimed>>

(* The compare-and-exchange of dequeue_pos succeeds *)
DequeueCasWins ==
    /\ lpc = "cas"
    /\ dequeue_pos = lpos
    /\ dequeue_pos' = lpos + 1
    /\ lpc' = "copy"
    /\ UNCHANGED <<seq, cell, enqueue_pos, evfd, posterVars, lpos, out, claimed>>

(* A weak compare-and-exchange may fail with nobody else at work. *)
DequeueCasFails ==
    /\ lpc = "cas"
    /\ lpos' = dequeue_pos
    /\ lpc' = "check"
    /\ UNCHANGED <<ringVars, evfd, posterVars, out, claimed>>

(* *out = cell->cmd *)
DequeueCopy ==
    /\ lpc = "copy"
    /\ out' = cell[Idx(lpos)]
    /\ lpc' = "release"
    /\ UNCHANGED <<ringVars, evfd, posterVars, lpos, claimed>>

(* Mutant: drain_cmds takes one command for each time it is called. *)
DequeueReleaseStops ==
    /\ lpc = "release"
    /\ seq' = [seq EXCEPT ![Idx(lpos)] = ReleasedSeq(lpos)]
    /\ lpc' = "wait"
    /\ lpos' = dequeue_pos
    /\ UNCHANGED <<cell, enqueue_pos, dequeue_pos, evfd, posterVars, out, claimed>>

(* store seq; apply_cmd; the next ring_dequeue loads dequeue_pos *)
DequeueRelease ==
    /\ lpc = "release"
    /\ seq' = [seq EXCEPT ![Idx(lpos)] = ReleasedSeq(lpos)]
    /\ lpc' = "check"
    /\ lpos' = dequeue_pos
    /\ UNCHANGED <<cell, enqueue_pos, dequeue_pos, evfd, posterVars, out, claimed>>

LoopStep ==
    \/ LoopSeesEventfd
    \/ DrainRead \/ DrainReadEmpty
    \/ DequeueSeesCmd \/ DequeueSeesEmpty
    \/ DequeueCasWins \/ DequeueCasFails
    \/ DequeueCopy \/ DequeueRelease

Next == LoopStep \/ \E p \in Producers : Poster(p)

Spec == Init /\ [][Next]_vars

(* A thread inside post_cmd keeps being scheduled, and a weak              *)
(* compare-and-exchange does not fail spuriously for ever.                 *)
PosterFairness ==
    \A p \in Producers :
        /\ WF_vars(Poster(p) /\ pc[p] # "idle")
        /\ SF_vars(EnqueueCasWins(p))

FairSpec == Spec /\ PosterFairness

(* The loop thread is inside cfiber_reactor_run and no fiber keeps it. *)
LoopFairness == WF_vars(LoopStep) /\ SF_vars(DequeueCasWins)

-----------------------------------------------------------------------------
(* Properties *)

TypeOK ==
    /\ seq \in [Slot -> Nat]
    /\ cell \in [Slot -> Cmds \cup {NoCmd}]
    /\ enqueue_pos \in Nat
    /\ dequeue_pos \in Nat
    /\ evfd \in BOOLEAN
    /\ pc \in [Producers -> PosterPc]
    /\ pos \in [Producers -> Nat]
    /\ cmd \in [Producers -> Cmds \cup {NoCmd}]
    /\ tries \in [Producers -> 0 .. PostRetries - 1]
    /\ lpc \in LoopPc
    /\ lpos \in Nat
    /\ out \in Cmds \cup {NoCmd}
    /\ claimed \in Seq(Cmds \cup {NoCmd})

(* The loop has taken this many positions and given back this many cells. *)
Released == IF lpc \in {"copy", "release"} THEN dequeue_pos - 1 ELSE dequeue_pos

(* p has claimed position pos[p] and not published it yet. *)
Owns(p) == pc[p] \in {"write", "publish"}

(* ring_dequeue's dif is never positive: with the loop thread as the only   *)
(* consumer the reload branch (reactor.c:868) is dead code.                 *)
NeverOvertaken == lpc = "check" => seq[Idx(lpos)] <= PublishedSeq(lpos)

(* FIFO, exactly once, unharmed: what the loop hands to apply_cmd as its    *)
(* n-th command is the n-th command claimed, whoever wrote over that cell   *)
(* before or since.                                                         *)
InClaimOrder == lpc = "release" => out = claimed[dequeue_pos]

(* No lost wakeup: when the loop is off to sleep in epoll_wait while the    *)
(* oldest command is ready for it, the eventfd is readable or the thread    *)
(* that will make it so is on its way.  This is what the order "clear the   *)
(* eventfd, then empty the ring" against "publish, then poke" buys.         *)
NoLostCommand ==
    (lpc = "wait" /\ seq[Idx(dequeue_pos)] = PublishedSeq(dequeue_pos))
        => evfd \/ \E p \in Producers : pc[p] = "poke"

(* A post is refused, or retried, only when every cell of the ring is held  *)
(* by a claimed or a not yet released command: EAGAIN means full.           *)
FullMeansFull ==
    [][\A p \in Producers :
         (pc[p] = "check" /\ pc'[p] \in {"load", "idle"})
             => enqueue_pos - Released >= Cap]_vars

(* While the loop runs every accepted command reaches apply_cmd, however    *)
(* the posters stall.                                                       *)
AcceptedIsApplied ==
    LoopFairness => \A n \in 0 .. MaxPosts - 1 : (enqueue_pos > n) ~> (dequeue_pos > n)

(* post_cmd always returns, true or EAGAIN, even if the loop never drains.  *)
PostReturns == \A p \in Producers : (pc[p] # "idle") ~> (pc[p] = "idle")

(* The ring implements the abstract queue: the positions claimed and not    *)
(* yet taken, each with the command of its claimer.                         *)
Queue ==
    INSTANCE CmdQueue WITH
        queue <- [i \in 1 .. enqueue_pos - dequeue_pos |->
                    [cmd |-> claimed[dequeue_pos + i],
                     published |-> seq[Idx(dequeue_pos + i - 1)]
                                       = dequeue_pos + i]],
        out <- IF lpc = "copy" THEN cell[Idx(lpos)] ELSE out

ImplementsCmdQueue == Queue!Spec

-----------------------------------------------------------------------------
(* The inductive invariant behind the properties above *)

(* Cursors: at most Cap positions between the oldest unreleased cell and    *)
(* the next claim.                                                          *)
CursorInv ==
    /\ dequeue_pos <= enqueue_pos
    /\ enqueue_pos <= Released + Cap
    /\ Len(claimed) = enqueue_pos
    /\ lpc \in {"copy", "release"} => lpos + 1 = dequeue_pos
    /\ lpc \in {"check", "cas"} => lpos = dequeue_pos
    /\ lpc = "cas" => seq[Idx(lpos)] = PublishedSeq(lpos)

(* Cells: a position's cell is free for it, being written by exactly one    *)
(* owner, or published; and it is published while the loop copies it.       *)
CellInv ==
    /\ \A n \in enqueue_pos .. Released + Cap - 1 : seq[Idx(n)] = n
    /\ \A n \in dequeue_pos .. enqueue_pos - 1 :
          \/ seq[Idx(n)] = PublishedSeq(n) /\ cell[Idx(n)] = claimed[n + 1]
          \/ seq[Idx(n)] = n /\ \E p \in Producers : Owns(p) /\ pos[p] = n
    /\ lpc \in {"copy", "release"} => seq[Idx(lpos)] = PublishedSeq(lpos)
    /\ lpc = "copy" => cell[Idx(lpos)] = claimed[dequeue_pos]

(* Posters: an owner's position lies in the queue and is its alone; a       *)
(* poster about to compare-and-exchange has seen a cell that was released.  *)
PosterInv ==
    /\ \A p \in Producers :
          /\ pc[p] \in {"check", "cas"} => pos[p] <= enqueue_pos
          /\ pc[p] = "cas" => pos[p] < Released + Cap
          /\ Owns(p) => /\ pos[p] \in dequeue_pos .. enqueue_pos - 1
                        /\ seq[Idx(pos[p])] = pos[p]
                        /\ claimed[pos[p] + 1] = cmd[p]
          /\ pc[p] = "publish" => cell[Idx(pos[p])] = cmd[p]
    /\ \A p, q \in Producers : Owns(p) /\ Owns(q) /\ pos[p] = pos[q] => p = q

(* A poster that finds its cell in use is a full lap ahead of the loop. *)
BusyInv ==
    \A p \in Producers :
        pc[p] = "check" /\ SlotBusy(pos[p]) => Released + Cap <= pos[p]

RingInv == CursorInv /\ CellInv /\ PosterInv

IInv == TypeOK /\ RingInv /\ BusyInv /\ InClaimOrder /\ NoLostCommand
=============================================================================
