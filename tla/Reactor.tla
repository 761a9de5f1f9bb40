------------------------------- MODULE Reactor -------------------------------
(***************************************************************************)
(* The epoll reactor (src/cfiber/reactor/reactor.c): fibers, the ready     *)
(* queue, parking on a descriptor, a deadline or a wake, the registrations *)
(* in the epoll set, handles and generations, and the run loop.            *)
(*                                                                         *)
(* The loop thread runs either loop code or one fiber, and everything it   *)
(* does between two points where another thread, the kernel or the clock   *)
(* could be noticed is one action.  What a fiber does is arbitrary: while  *)
(* it is current it may call any function of the in-fiber API.             *)
(*                                                                         *)
(* The command ring is used through its specification CmdQueue, which      *)
(* CmdRing implements.  epoll, eventfd, file descriptors and the clock     *)
(* are external and modelled from how reactor.c uses them.                 *)
(***************************************************************************)
EXTENDS Integers, Sequences, FiniteSets, Functions

CONSTANTS
    Fibers,      \* the blocks of the fiber pool (addresses of ev_fiber_t)
    NoFiber,     \* the null pointer
    Fds,         \* file descriptor numbers
    EvFd,        \* the eventfd, tagged in the epoll set with the reactor itself
    NoFd,        \* -1
    Cap,         \* CMD_RING_CAP
    Posters,     \* number of threads that may be inside post_cmd at a time
    NoCmd,
    Kinds,       \* which commands are issued: "WAKE", "CANCEL"
    Delays,      \* which timeouts are asked for, in ticks
    MaxGen,      \* bound of the model: a block's generation stops here
    MaxEvents,   \* size of evs[]
    Faults       \* which failures happen: "stack", "heap", "ctl", "poll", "signal"

ASSUME ConstantsAssumption ==
    /\ NoFiber \notin Fibers /\ IsFiniteSet(Fibers)
    /\ NoFd \notin Fds /\ EvFd \notin Fds
    /\ Cap \in Nat \ {0} /\ Posters \in Nat
    /\ Kinds \subseteq {"WAKE", "CANCEL"} /\ Delays \subseteq Nat
    /\ MaxGen \in Nat /\ MaxEvents \in Nat \ {0}
    /\ Faults \subseteq {"stack", "heap", "ctl", "poll", "signal"}

VARIABLES
    \* struct cfiber_reactor_fiber, one function per field
    state, park, wake_pending, generation, reg_fd, wait_fd, wait_status,
    left,        \* ticks to deadline_ns, 0 once passed, or NoTimer: not in the heap
    \* struct cfiber_reactor
    ready,       \* ready_head .. ready_tail
    live,        \* the list at live_head
    stacks,      \* stacks handed out by s->stacks
    active, blocked, current, zombie, fd_owner,
    \* cfiber_reactor_run
    lpc,         \* where the loop thread is
    entered,     \* its local f
    round_end,   \* its local round_end
    evs,         \* the part of evs[] still to be processed
    \* the command ring and its eventfd
    cmds,        \* queue of CmdQueue
    taken,       \* drain_cmds' local c, NoCmd outside of it
    pokes,       \* threads that have published a command and not yet poked
    evfd,        \* the eventfd counter is not zero
    \* the kernel
    ep,          \* the epoll set: for each fd no entry, or its pointer and mask
    open,        \* fd is an open descriptor
    io,          \* the open file is ready for what its waiter asks
    \* history
    issued,      \* handles given out by spawn
    woken,       \* a wake has been issued for the block's present fiber
    cancelled,   \* a cancel, or a close of the fd it waits on, likewise
    owed         \* a wake has been issued for it since it last returned from
                 \* cfiber_ev_wait_async with READY

fiberVars == <<state, park, wake_pending, generation, reg_fd, wait_fd,
               wait_status, left>>
queueVars == <<ready, active, blocked>>
poolVars == <<live, stacks>>
loopVars == <<lpc, entered, round_end, evs>>
cmdVars == <<cmds, taken, pokes, evfd>>
fdVars == <<open, io>>
histVars == <<issued, woken, cancelled, owed>>
worldVars == <<fiberVars, queueVars, poolVars, current, zombie, fd_owner, histVars>>
vars == <<fiberVars, queueVars, poolVars, current, zombie, fd_owner, loopVars,
          cmdVars, ep, fdVars, histVars>>

-----------------------------------------------------------------------------
States == {"FREE", "READY", "RUNNING", "PARKED", "ZOMBIE"}
Parks == {"FD", "TIMER", "ASYNC"}
Statuses == {"READY", "TIMEOUT", "CANCELLED"}
None == "none"        \* a field whose value no code reads any more
NoTimer == -1         \* timer_i = NO_TIMER
NoEntry == [ptr |-> NoFiber, armed |-> FALSE]
Handles == [f : Fibers, gen : 0 .. MaxGen]
Commands == [kind : Kinds, f : Fibers, gen : 0 .. MaxGen]
LoopPc == {"host", "round", "fiber", "back", "poll", "events", "clear", "drain",
           "fire", "gone"}

Ring == INSTANCE CmdQueue WITH Cmds <- Commands, queue <- cmds, out <- taken

(* cfiber_reactor_create *)
Init ==
    /\ state = [f \in Fibers |-> "FREE"]
    /\ park = [f \in Fibers |-> None]
    /\ wake_pending = [f \in Fibers |-> FALSE]
    /\ generation = [f \in Fibers |-> 0]
    /\ reg_fd = [f \in Fibers |-> NoFd]
    /\ wait_fd = [f \in Fibers |-> NoFd]
    /\ wait_status = [f \in Fibers |-> None]
    /\ left = [f \in Fibers |-> NoTimer]
    /\ ready = <<>> /\ live = {} /\ stacks = 0
    /\ active = 0 /\ blocked = 0
    /\ current = NoFiber /\ zombie = NoFiber
    /\ fd_owner = [fd \in Fds |-> NoFiber]
    /\ lpc = "host" /\ entered = NoFiber /\ round_end = NoFiber /\ evs = {}
    /\ Ring!Init /\ pokes = 0 /\ evfd = FALSE
    /\ ep = [fd \in Fds |-> NoEntry]
    /\ open = [fd \in Fds |-> TRUE]
    /\ io = [fd \in Fds |-> FALSE]
    /\ issued = {}
    /\ woken = [f \in Fibers |-> FALSE]
    /\ cancelled = [f \in Fibers |-> FALSE]
    /\ owed = [f \in Fibers |-> FALSE]

-----------------------------------------------------------------------------
(* Park and resume *)

(* Mutant: the registration is forgotten by the fiber but not by the map. *)
DetachFdKeepsOwner(f) ==
    /\ reg_fd' = [reg_fd EXCEPT ![f] = NoFd]
    /\ UNCHANGED <<fd_owner, ep>>

(* detach_fd: EPOLL_CTL_DEL fails, harmlessly, on a closed descriptor. *)
DetachFd(f) ==
    LET mine(fd) == fd = reg_fd[f] /\ fd_owner[fd] = f IN
    /\ reg_fd' = [reg_fd EXCEPT ![f] = NoFd]
    /\ fd_owner' = [fd \in Fds |-> IF mine(fd) THEN NoFiber ELSE fd_owner[fd]]
    /\ ep' = [fd \in Fds |-> IF mine(fd) /\ open[fd] THEN NoEntry ELSE ep[fd]]

(* Mutant: the ready queue is a stack. *)
EnqueueAtFront(f) ==
    /\ ready' = <<f>> \o ready
    /\ state' = [state EXCEPT ![f] = "READY"]

Enqueue(f) ==
    /\ ready' = Append(ready, f)
    /\ state' = [state EXCEPT ![f] = "READY"]

Dequeue == ready' = Tail(ready)

(* The thread goes from the loop into a fiber, and from a fiber to the loop *)
EnterFiber(f) ==
    /\ current' = f
    /\ state' = [state EXCEPT ![f] = "RUNNING"]
    /\ lpc' = "fiber"

LeaveToLoop == current' = NoFiber /\ lpc' = "back"

(* resume, with the fiber known to be parked: back on the ready queue *)
Resume(f, status) ==
    /\ wait_status' = [wait_status EXCEPT ![f] = status]
    /\ blocked' = blocked - 1
    /\ Enqueue(f)

(* Mutant: the deadline stays in the heap. *)
TimerRemoveForgets(f) == UNCHANGED left

TimerRemove(f) == left' = [left EXCEPT ![f] = NoTimer]

Unpark(f, status) == DetachFd(f) /\ TimerRemove(f) /\ Resume(f, status)

(* park_current, for the running fiber: control is back in the loop. *)
ParkCurrent(kind) ==
    /\ state' = [state EXCEPT ![current] = "PARKED"]
    /\ park' = [park EXCEPT ![current] = kind]
    /\ wait_status' = [wait_status EXCEPT ![current] = "READY"]
    /\ blocked' = blocked + 1
    /\ LeaveToLoop

WaitsOn(f, fd) == state[f] = "PARKED" /\ wait_fd[f] = fd

-----------------------------------------------------------------------------
(* apply_cmd, from drain_cmds or directly from a fiber *)

(* Mutant: the generation is not compared. *)
StaleIgnoresGeneration(c) == state[c.f] \in {"FREE", "ZOMBIE"}

Stale(c) == generation[c.f] # c.gen \/ state[c.f] \in {"FREE", "ZOMBIE"}

(* Mutant: a wake resumes whatever the fiber is parked on. *)
WakeResumesAny(c) == state[c.f] = "PARKED"

(* A wake resumes an async park only ... *)
WakeResumes(c) == state[c.f] = "PARKED" /\ park[c.f] = "ASYNC"

(* Mutant: the wake of a fiber that is not parked is dropped. *)
KeepPermitDrops(c) ==
    UNCHANGED <<wake_pending, state, wait_status, left, reg_fd, fd_owner, ep, ready,
                blocked>>

(* ... and is a permit for the next cfiber_ev_wait_async otherwise. *)
KeepPermit(c) ==
    /\ wake_pending' = [wake_pending EXCEPT ![c.f] = TRUE]
    /\ UNCHANGED <<state, wait_status, left, reg_fd, fd_owner, ep, ready, blocked>>

ApplyCmd(c) ==
    /\ \/ /\ Stale(c) \/ (c.kind = "CANCEL" /\ state[c.f] # "PARKED")
          /\ UNCHANGED <<state, wait_status, wake_pending, left, reg_fd, fd_owner,
                         ep, ready, blocked>>
       \/ /\ ~ Stale(c) /\ c.kind = "CANCEL" /\ state[c.f] = "PARKED"
          /\ Unpark(c.f, "CANCELLED")
          /\ UNCHANGED wake_pending
       \/ /\ ~ Stale(c) /\ c.kind = "WAKE" /\ WakeResumes(c)
          /\ Unpark(c.f, "READY")
          /\ UNCHANGED wake_pending
       \/ /\ ~ Stale(c) /\ c.kind = "WAKE" /\ ~ WakeResumes(c)
          /\ KeepPermit(c)
    /\ UNCHANGED <<park, generation, wait_fd, active>>

(* A wake or cancel is asked of the fiber a handle names, if it still lives. *)
Asked(c, asked) ==
    [asked EXCEPT ![c.f] = @ \/ (generation[c.f] = c.gen /\ state[c.f] # "FREE")]

Issue(c) ==
    /\ [f |-> c.f, gen |-> c.gen] \in issued
    /\ woken' = IF c.kind = "WAKE" THEN Asked(c, woken) ELSE woken
    /\ owed' = IF c.kind = "WAKE" THEN Asked(c, owed) ELSE owed
    /\ cancelled' = IF c.kind = "CANCEL" THEN Asked(c, cancelled) ELSE cancelled
    /\ UNCHANGED issued

-----------------------------------------------------------------------------
(* Spawning, from the host between runs or from the running fiber *)

(* fiber_obtain wipes a free block, all but its generation. *)
Wipe(f) ==
    /\ wake_pending' = [wake_pending EXCEPT ![f] = FALSE]
    /\ wait_status' = [wait_status EXCEPT ![f] = None]

Obtainable(f) == state[f] = "FREE" /\ generation[f] < MaxGen

SpawnLocked(f) ==
    /\ Obtainable(f)
    /\ Wipe(f)
    /\ Enqueue(f)
    /\ reg_fd' = [reg_fd EXCEPT ![f] = NoFd]
    /\ wait_fd' = [wait_fd EXCEPT ![f] = NoFd]
    /\ left' = [left EXCEPT ![f] = NoTimer]
    /\ active' = active + 1
    /\ live' = live \cup {f}
    /\ stacks' = stacks + 1
    /\ issued' = issued \cup {[f |-> f, gen |-> generation[f]]}
    /\ woken' = [woken EXCEPT ![f] = FALSE]
    /\ cancelled' = [cancelled EXCEPT ![f] = FALSE]
    /\ owed' = [owed EXCEPT ![f] = FALSE]
    /\ UNCHANGED <<park, generation, blocked, current, zombie, fd_owner, loopVars,
                   cmdVars, ep, fdVars>>

(* No stack to be had: fiber_repool, and spawn returns false. *)
SpawnNoStack(f) ==
    /\ "stack" \in Faults
    /\ Obtainable(f)
    /\ Wipe(f)
    /\ generation' = [generation EXCEPT ![f] = @ + 1]
    /\ UNCHANGED <<state, park, reg_fd, wait_fd, left, queueVars, poolVars, current,
                   zombie, fd_owner, loopVars, cmdVars, ep, fdVars, histVars>>

Spawn == lpc \in {"host", "fiber"} /\ \E f \in Fibers : SpawnLocked(f) \/ SpawnNoStack(f)

-----------------------------------------------------------------------------
(* The in-fiber API.  f is the running fiber. *)

Running(f) == lpc = "fiber" /\ current = f

EvYield(f) ==
    /\ Running(f)
    /\ Enqueue(f)
    /\ LeaveToLoop
    /\ UNCHANGED <<park, wake_pending, generation, reg_fd, wait_fd, wait_status,
                   left, active, blocked, poolVars, zombie, fd_owner, entered,
                   round_end, evs, cmdVars, ep, fdVars, histVars>>

(* arm_fd first drops a registration f holds on another fd. *)
Abandons(f, fd, x) == x # fd /\ x = reg_fd[f] /\ fd_owner[x] = f
OwnerAfterMove(f, fd) ==
    [x \in Fds |-> IF Abandons(f, fd, x) THEN NoFiber ELSE fd_owner[x]]
EpAfterMove(f, fd) ==
    [x \in Fds |-> IF Abandons(f, fd, x) /\ open[x] THEN NoEntry ELSE ep[x]]

HeldByWaiter(f, fd) ==
    fd_owner[fd] \notin {NoFiber, f} /\ WaitsOn(fd_owner[fd], fd)

(* arm_fd goes by the map: the entry of a holder is changed, another added. *)
(* The kernel goes by its own: ENOENT where there is none to change, EEXIST *)
(* where there is one already, EBADF for a descriptor that is closed.       *)
FirstOp(fd) == IF fd_owner[fd] # NoFiber THEN "MOD" ELSE "ADD"
Fits(op, fd) == open[fd] /\ (op = "MOD" <=> ep[fd] # NoEntry)

(* Mutant: what the kernel does not take at once is an error. *)
TakenAtOnce(fd) == Fits(FirstOp(fd), fd)

(* ... after which arm_fd tries the other operation, once *)
Taken(fd) ==
    Fits(FirstOp(fd), fd) \/ Fits(IF FirstOp(fd) = "MOD" THEN "ADD" ELSE "MOD", fd)

(* An entry that has to be added needs memory too. *)
CtlMayFail(fd) == ~ Taken(fd) \/ ("ctl" \in Faults /\ ep[fd] = NoEntry)

(* What a failed wait leaves alone *)
waitFailedVars == <<state, park, wake_pending, generation, wait_fd, wait_status, left,
                    queueVars, poolVars, current, zombie, loopVars, cmdVars, fdVars,
                    histVars>>

(* cfiber_ev_wait fails with EBUSY *)
EvWaitBusy(f, fd) ==
    /\ Running(f)
    /\ HeldByWaiter(f, fd)
    /\ fd_owner' = OwnerAfterMove(f, fd)
    /\ ep' = EpAfterMove(f, fd)
    /\ reg_fd' = [reg_fd EXCEPT ![f] = IF @ = fd THEN fd ELSE NoFd]
    /\ UNCHANGED waitFailedVars

(* cfiber_ev_wait fails because the kernel refuses the registration, or     *)
(* because the timer heap cannot grow when it is done: detach_fd            *)
EvWaitFails(f, fd) ==
    /\ Running(f)
    /\ ~ HeldByWaiter(f, fd)
    /\ \/ CtlMayFail(fd) /\ ep' = EpAfterMove(f, fd)
       \/ /\ "heap" \in Faults /\ Taken(fd)
          /\ ep' = [EpAfterMove(f, fd) EXCEPT ![fd] = NoEntry]
    /\ fd_owner' = [OwnerAfterMove(f, fd) EXCEPT ![fd] = NoFiber]
    /\ reg_fd' = [g \in Fibers |-> IF g \in {f, fd_owner[fd]} THEN NoFd ELSE reg_fd[g]]
    /\ UNCHANGED waitFailedVars

(* Mutant: a wait on the fd held already does not arm the one-shot again. *)
ArmedForFirst(f, fd) ==
    IF reg_fd[f] = fd THEN ep
    ELSE [EpAfterMove(f, fd) EXCEPT ![fd] = [ptr |-> f, armed |-> TRUE]]

ArmedFor(f, fd) == [EpAfterMove(f, fd) EXCEPT ![fd] = [ptr |-> f, armed |-> TRUE]]

(* arm_fd succeeds, from whatever the map and the kernel hold for fd. *)
TakeOver(f, fd) ==
    /\ fd_owner' = [OwnerAfterMove(f, fd) EXCEPT ![fd] = f]
    /\ ep' = ArmedFor(f, fd)
    /\ reg_fd' = [g \in Fibers |-> IF g = f THEN fd
                                   ELSE IF g = fd_owner[fd] THEN NoFd ELSE reg_fd[g]]

(* cfiber_ev_wait parks, with or without a deadline *)
EvWait(f, fd, delay) ==
    /\ Running(f)
    /\ ~ HeldByWaiter(f, fd)
    /\ Taken(fd)
    /\ TakeOver(f, fd)
    /\ left' = [left EXCEPT ![f] = delay]
    /\ wait_fd' = [wait_fd EXCEPT ![f] = fd]
    /\ ParkCurrent("FD")
    /\ UNCHANGED <<wake_pending, generation, ready, active, poolVars, zombie,
                   entered, round_end, evs, cmdVars, fdVars, histVars>>

EvSleep(f, delay) ==
    /\ Running(f)
    /\ left' = [left EXCEPT ![f] = delay]
    /\ ParkCurrent("TIMER")
    /\ UNCHANGED <<wake_pending, generation, reg_fd, wait_fd, ready, active,
                   poolVars, zombie, fd_owner, entered, round_end, evs, cmdVars, ep,
                   fdVars, histVars>>

(* cfiber_ev_wait_async finds a permit and returns at once *)
EvWaitAsyncPermit(f) ==
    /\ Running(f)
    /\ wake_pending[f]
    /\ wake_pending' = [wake_pending EXCEPT ![f] = FALSE]
    /\ owed' = [owed EXCEPT ![f] = FALSE]
    /\ UNCHANGED <<state, park, generation, reg_fd, wait_fd, wait_status, left,
                   queueVars, poolVars, current, zombie, fd_owner, loopVars,
                   cmdVars, ep, fdVars, issued, woken, cancelled>>

(* or parks *)
EvWaitAsync(f, delay) ==
    /\ Running(f)
    /\ ~ wake_pending[f]
    /\ left' = [left EXCEPT ![f] = delay]
    /\ ParkCurrent("ASYNC")
    /\ UNCHANGED <<wake_pending, generation, reg_fd, wait_fd, ready, active,
                   poolVars, zombie, fd_owner, entered, round_end, evs, cmdVars, ep,
                   fdVars, histVars>>

(* cfiber_ev_wake / _cancel, and cfiber_reactor_wake / _cancel on the loop *)
EvCommand(f, c) ==
    /\ Running(f)
    /\ Issue(c)
    /\ ApplyCmd(c)
    /\ UNCHANGED <<poolVars, current, zombie, loopVars, cmdVars, fdVars>>

(* close(2) of an open fd: the entry goes with the last descriptor of the   *)
(* file, and stays, out of epoll_ctl's reach, if a dup keeps the file open. *)
CloseFd(fd) ==
    /\ open' = [open EXCEPT ![fd] = FALSE]
    /\ io' = [io EXCEPT ![fd] = FALSE]

(* cfiber_ev_close of a registered fd cancels the waiter or drops the entry *)
EvCloseHeld(f, fd) ==
    /\ Running(f)
    /\ fd_owner[fd] # NoFiber
    /\ CloseFd(fd)
    /\ LET holder == fd_owner[fd] IN
       \/ /\ WaitsOn(holder, fd)
          /\ Unpark(holder, "CANCELLED")
          /\ cancelled' = [cancelled EXCEPT ![holder] = TRUE]
       \/ /\ ~ WaitsOn(holder, fd)
          /\ DetachFd(holder)
          /\ UNCHANGED <<state, wait_status, left, ready, blocked, cancelled>>
    /\ UNCHANGED <<park, wake_pending, generation, wait_fd, active, poolVars, current,
                   zombie, loopVars, cmdVars, issued, woken, owed>>

(* close, or cfiber_ev_close of an fd the reactor knows nothing of.  A      *)
(* plain close is only allowed where no fiber is parked on fd (reactor.h).  *)
Close(f, fd) ==
    /\ Running(f)
    /\ open[fd]
    /\ \A g \in Fibers : ~ WaitsOn(g, fd)
    /\ CloseFd(fd)
    /\ ep' \in {ep, [ep EXCEPT ![fd] = NoEntry]}
    /\ UNCHANGED <<worldVars, loopVars, cmdVars>>

(* The number comes back, for the file it had (dup2) or for another one. *)
Open(f, fd) ==
    /\ Running(f)
    /\ ~ open[fd]
    /\ open' = [open EXCEPT ![fd] = TRUE]
    /\ ep' \in {ep, [ep EXCEPT ![fd] = NoEntry]}
    /\ UNCHANGED <<worldVars, loopVars, cmdVars, io>>

(* read, write or accept until EAGAIN *)
DoIO(f, fd) ==
    /\ Running(f)
    /\ io[fd]
    /\ io' = [io EXCEPT ![fd] = FALSE]
    /\ UNCHANGED <<worldVars, loopVars, cmdVars, ep, open>>

(* The fiber's function returns: reactor_return_hook *)
Finish(f) ==
    /\ Running(f)
    /\ zombie' = f
    /\ state' = [state EXCEPT ![f] = "ZOMBIE"]
    /\ active' = active - 1
    /\ LeaveToLoop
    /\ UNCHANGED <<park, wake_pending, generation, reg_fd, wait_fd, wait_status,
                   left, ready, blocked, poolVars, fd_owner, entered, round_end,
                   evs, cmdVars, ep, fdVars, histVars>>

Timeouts == Delays \cup {NoTimer}

(* What gives the thread back to the loop, and what does not. *)
Leaves(f) ==
    \/ EvYield(f) \/ Finish(f)
    \/ \E delay \in Timeouts : EvWaitAsync(f, delay) \/ \E fd \in Fds : EvWait(f, fd, delay)
    \/ \E delay \in Delays : EvSleep(f, delay)

Stays(f) ==
    \/ EvWaitAsyncPermit(f)
    \/ \E c \in Commands : EvCommand(f, c)
    \/ \E fd \in Fds : \/ EvWaitBusy(f, fd) \/ EvWaitFails(f, fd)
                       \/ EvCloseHeld(f, fd) \/ Close(f, fd) \/ Open(f, fd)
                       \/ DoIO(f, fd)

-----------------------------------------------------------------------------
(* cfiber_reactor_run *)

ReadyTail == IF ready = <<>> THEN NoFiber ELSE ready[Len(ready)]

(* while (s->active > 0): the next round is the fibers ready now *)
TopOfLoop ==
    IF active > 0 THEN lpc' = "round" /\ round_end' = ReadyTail
                  ELSE lpc' = "host" /\ round_end' = NoFiber

(* after a round: return, or poll *)
AfterRound(remaining) ==
    /\ lpc' = IF remaining = 0 THEN "host" ELSE "poll"
    /\ round_end' = NoFiber

Run ==
    /\ lpc = "host"
    /\ TopOfLoop
    /\ UNCHANGED <<worldVars, entered, evs, cmdVars, ep, fdVars>>

(* dequeue, enter_fiber; a fiber that was parked returns from its wait,     *)
(* after which nothing reads its park and wait_status.                      *)
Dispatch ==
    /\ lpc = "round"
    /\ ready # <<>>
    /\ LET f == Head(ready) IN
       /\ Dequeue
       /\ entered' = f
       /\ EnterFiber(f)
       /\ wait_fd' = [wait_fd EXCEPT ![f] = NoFd]
       /\ wait_status' = [wait_status EXCEPT ![f] = None]
       /\ park' = [park EXCEPT ![f] = None]
       /\ owed' = [owed EXCEPT ![f] = @ /\ ~ (park[f] = "ASYNC" /\ wait_status[f] = "READY")]
    /\ UNCHANGED <<wake_pending, generation, reg_fd, left, active, blocked,
                   poolVars, zombie, fd_owner, round_end, evs, cmdVars, ep, fdVars,
                   issued, woken, cancelled>>

RoundEmpty ==
    /\ lpc = "round"
    /\ ready = <<>>
    /\ AfterRound(active)
    /\ UNCHANGED <<worldVars, entered, evs, cmdVars, ep, fdVars>>

(* fiber_recycle *)
Recycle(f) ==
    /\ DetachFd(f)
    /\ live' = live \ {f}
    /\ stacks' = stacks - 1
    /\ generation' = [generation EXCEPT ![f] = @ + 1]
    /\ state' = [state EXCEPT ![f] = "FREE"]

(* Mutant: the round goes on while anything is ready. *)
RoundNeverOver == FALSE

(* f == round_end: the round is over *)
RoundOver == entered = round_end

(* Control is back in the loop: the rest of the dispatch loop's body *)
Back ==
    /\ lpc = "back"
    /\ \/ /\ zombie = NoFiber
          /\ UNCHANGED <<state, generation, reg_fd, fd_owner, ep, poolVars>>
       \/ /\ zombie # NoFiber
          /\ Recycle(zombie)
    /\ zombie' = NoFiber
    /\ entered' = NoFiber
    /\ IF RoundOver THEN AfterRound(active) ELSE lpc' = "round" /\ UNCHANGED round_end
    /\ UNCHANGED <<park, wake_pending, wait_fd, wait_status, left, queueVars,
                   current, evs, cmdVars, fdVars, histVars>>

(* epoll_wait *)
Reportable ==
    {[src |-> fd, ptr |-> ep[fd].ptr] : fd \in {x \in Fds : ep[x].armed /\ io[x]}}
        \cup {[src |-> EvFd, ptr |-> NoFiber] : x \in {y \in {EvFd} : evfd}}

Expired == {f \in Fibers : left[f] = 0}

(* timeout_ms is 0, or the wait would end without an event at once *)
ReturnsAtOnce == ready # <<>> \/ Expired # {}

(* Up to MaxEvents events, any of them first; EPOLLONESHOT disarms them. *)
Poll ==
    /\ lpc = "poll"
    /\ ReturnsAtOnce \/ Reportable # {}
    /\ \E batch \in SUBSET Reportable :
          /\ \/ batch = Reportable /\ Cardinality(batch) <= MaxEvents
             \/ Cardinality(batch) = MaxEvents
          /\ evs' = batch
          /\ ep' = [fd \in Fds |->
                      IF \E e \in batch : e.src = fd
                      THEN [ep[fd] EXCEPT !.armed = FALSE] ELSE ep[fd]]
    /\ lpc' = "events"
    /\ UNCHANGED <<worldVars, entered, round_end, cmdVars, fdVars>>

(* EINTR, which only a wait that sleeps meets: continue *)
PollInterrupted ==
    /\ "signal" \in Faults
    /\ lpc = "poll"
    /\ ~ ReturnsAtOnce /\ Reportable = {}
    /\ TopOfLoop
    /\ UNCHANGED <<worldVars, entered, evs, cmdVars, ep, fdVars>>

(* Any other error: run returns -1 and leaves the fibers as they are. *)
PollFails ==
    /\ "poll" \in Faults
    /\ lpc = "poll"
    /\ lpc' = "host"
    /\ UNCHANGED <<worldVars, entered, round_end, evs, cmdVars, ep, fdVars>>

(* One element of evs[], for a fiber *)
EventFor(e) ==
    /\ lpc = "events"
    /\ e \in evs /\ e.src # EvFd
    /\ evs' = evs \ {e}
    /\ IF state[e.ptr] = "PARKED"
       THEN TimerRemove(e.ptr) /\ Resume(e.ptr, "READY")
       ELSE UNCHANGED <<state, wait_status, left, ready, blocked>>
    /\ UNCHANGED <<park, wake_pending, generation, reg_fd, wait_fd, active, poolVars,
                   current, zombie, fd_owner, lpc, entered, round_end, cmdVars, ep,
                   fdVars, histVars>>

(* The element for the eventfd: into drain_cmds ... *)
EventForReactor ==
    /\ lpc = "events"
    /\ \E e \in evs : e.src = EvFd /\ evs' = evs \ {e}
    /\ lpc' = "clear"
    /\ UNCHANGED <<worldVars, entered, round_end, cmdVars, ep, fdVars>>

(* ... which reads the eventfd ... *)
DrainClear ==
    /\ lpc = "clear"
    /\ evfd' = FALSE
    /\ lpc' = "drain"
    /\ UNCHANGED <<worldVars, entered, round_end, evs, cmds, taken, pokes, ep, fdVars>>

(* Mutant: drain_cmds takes one command each time it is called. *)
DueOnce == cmds # <<>> /\ Head(cmds).published /\ taken = NoCmd

(* ring_dequeue finds a command *)
Due == cmds # <<>> /\ Head(cmds).published

(* ... takes and applies one command after another ... *)
DrainApply ==
    /\ lpc = "drain"
    /\ Due
    /\ Ring!Take
    /\ ApplyCmd(taken')
    /\ UNCHANGED <<poolVars, current, zombie, loopVars, pokes, evfd, fdVars,
                   histVars>>

(* ... and returns when the oldest is missing or not yet published. *)
DrainDone ==
    /\ lpc = "drain"
    /\ ~ Due
    /\ lpc' = "events"
    /\ taken' = NoCmd
    /\ UNCHANGED <<worldVars, entered, round_end, evs, cmds, pokes, evfd, ep, fdVars>>

EventsDone ==
    /\ lpc = "events"
    /\ evs = {}
    /\ lpc' = "fire"
    /\ UNCHANGED <<worldVars, entered, round_end, evs, cmdVars, ep, fdVars>>

(* fire_expired_timers: one root of the heap.  Of deadlines that have all   *)
(* passed, any may be at the root.                                          *)
FireTimer(f) ==
    /\ lpc = "fire"
    /\ f \in Expired
    /\ TimerRemove(f)
    /\ DetachFd(f)
    /\ IF state[f] = "PARKED"
       THEN Resume(f, "TIMEOUT")
       ELSE UNCHANGED <<state, wait_status, ready, blocked>>
    /\ UNCHANGED <<park, wake_pending, generation, wait_fd, active, poolVars, current,
                   zombie, loopVars, cmdVars, fdVars, histVars>>

FireDone ==
    /\ lpc = "fire"
    /\ Expired = {}
    /\ TopOfLoop
    /\ UNCHANGED <<worldVars, entered, evs, cmdVars, ep, fdVars>>

LoopStep ==
    \/ Run \/ Dispatch \/ RoundEmpty \/ Back
    \/ Poll \/ EventsDone
    \/ \E e \in evs : EventFor(e)
    \/ EventForReactor \/ DrainClear \/ DrainApply \/ DrainDone
    \/ \E f \in Fibers : FireTimer(f)
    \/ FireDone

(* cfiber_reactor_destroy, once nobody else can reach the reactor *)
Destroy ==
    /\ lpc = "host"
    /\ pokes = 0 /\ \A i \in DOMAIN cmds : cmds[i].published
    /\ lpc' = "gone"
    /\ stacks' = stacks - Cardinality(live)
    /\ live' = {}
    /\ UNCHANGED <<fiberVars, queueVars, current, zombie, fd_owner, entered,
                   round_end, evs, cmdVars, ep, fdVars, histVars>>

-----------------------------------------------------------------------------
(* Other threads, the network and the clock *)

Unpublished == {i \in DOMAIN cmds : ~ cmds[i].published}

(* cfiber_reactor_wake / _cancel off the loop thread: post_cmd claims a     *)
(* place in the ring (a full ring refuses, and changes nothing) ...         *)
PostClaim ==
    /\ lpc # "gone"
    /\ Cardinality(Unpublished) + pokes < Posters
    /\ \E c \in Commands : Issue(c) /\ Ring!Claim(c)
    /\ UNCHANGED <<fiberVars, queueVars, poolVars, current, zombie, fd_owner,
                   loopVars, pokes, evfd, ep, fdVars>>

PostPublish ==
    /\ \E i \in DOMAIN cmds : Ring!Publish(i)
    /\ pokes' = pokes + 1
    /\ UNCHANGED <<worldVars, loopVars, evfd, ep, fdVars>>

PostPoke ==
    /\ pokes > 0
    /\ pokes' = pokes - 1
    /\ evfd' = TRUE
    /\ UNCHANGED <<worldVars, loopVars, cmds, taken, ep, fdVars>>

PeerActs(fd) ==
    /\ lpc # "gone"
    /\ open[fd] /\ ~ io[fd]
    /\ io' = [io EXCEPT ![fd] = TRUE]
    /\ UNCHANGED <<worldVars, loopVars, cmdVars, ep, open>>

(* Time passes.  fire_expired_timers reads the clock once, so none passes   *)
(* inside it.                                                               *)
Tick ==
    /\ lpc \notin {"fire", "gone"}
    /\ \E f \in Fibers : left[f] > 0
    /\ left' = [f \in Fibers |-> IF left[f] > 0 THEN left[f] - 1 ELSE left[f]]
    /\ UNCHANGED <<state, park, wake_pending, generation, reg_fd, wait_fd,
                   wait_status, queueVars, poolVars, current, zombie, fd_owner,
                   loopVars, cmdVars, ep, fdVars, histVars>>

Environment == PostClaim \/ PostPublish \/ PostPoke \/ Tick \/ \E fd \in Fds : PeerActs(fd)

Next ==
    \/ LoopStep \/ PollInterrupted \/ PollFails \/ Destroy
    \/ Spawn
    \/ \E f \in Fibers : Leaves(f) \/ Stays(f)
    \/ Environment

Spec == Init /\ [][Next]_vars

(* The loop thread is scheduled; a fiber that runs gives the thread back    *)
(* some time (the scheduling is cooperative, so nothing else could be       *)
(* promised); a poster inside post_cmd goes on; the clock advances (SF,     *)
(* because the model holds it still inside fire_expired_timers).            *)
Fairness ==
    /\ WF_vars(LoopStep)
    /\ WF_vars(\E f \in Fibers : Leaves(f))
    /\ WF_vars(PostPublish) /\ WF_vars(PostPoke)
    /\ SF_vars(Tick)

FairSpec == Spec /\ Fairness

-----------------------------------------------------------------------------
(* Properties *)

TypeOK ==
    /\ state \in [Fibers -> States]
    /\ park \in [Fibers -> Parks \cup {None}]
    /\ wake_pending \in [Fibers -> BOOLEAN]
    /\ generation \in [Fibers -> 0 .. MaxGen]
    /\ reg_fd \in [Fibers -> Fds \cup {NoFd}]
    /\ wait_fd \in [Fibers -> Fds \cup {NoFd}]
    /\ wait_status \in [Fibers -> Statuses \cup {None}]
    /\ left \in [Fibers -> Nat \cup {NoTimer}]
    /\ ready \in Seq(Fibers)
    /\ live \subseteq Fibers
    /\ stacks \in Nat /\ active \in Nat /\ blocked \in Nat
    /\ {current, zombie, entered, round_end} \subseteq Fibers \cup {NoFiber}
    /\ fd_owner \in [Fds -> Fibers \cup {NoFiber}]
    /\ lpc \in LoopPc
    /\ evs \subseteq [src : Fds \cup {EvFd}, ptr : Fibers \cup {NoFiber}]
    /\ cmds \in Seq(Ring!Entry)
    /\ taken \in Commands \cup {NoCmd}
    /\ pokes \in 0 .. Posters
    /\ evfd \in BOOLEAN
    /\ ep \in [Fds -> [ptr : Fibers \cup {NoFiber}, armed : BOOLEAN]]
    /\ open \in [Fds -> BOOLEAN]
    /\ io \in [Fds -> BOOLEAN]
    /\ issued \subseteq Handles
    /\ woken \in [Fibers -> BOOLEAN]
    /\ cancelled \in [Fibers -> BOOLEAN]
    /\ owed \in [Fibers -> BOOLEAN]

InState(st) == {f \in Fibers : state[f] = st}

(* Every live fiber is in exactly one place: the ready queue holds each     *)
(* READY fiber once and nothing else, the counters the loop decides on      *)
(* agree with the states, and only the current fiber is RUNNING.  Hence     *)
(* ASSERT(s->ready_head || s->blocked > 0), reactor.c:1103: the loop never  *)
(* polls with nothing that could end the wait.                              *)
Bookkeeping ==
    /\ IsInjective(ready)
    /\ Range(ready) = InState("READY")
    /\ blocked = Cardinality(InState("PARKED"))
    /\ active = Cardinality(InState("READY") \cup InState("RUNNING") \cup InState("PARKED"))
    /\ InState("RUNNING") = {current} \ {NoFiber}
    /\ InState("ZOMBIE") = {zombie} \ {NoFiber}
    /\ lpc = "poll" => ready # <<>> \/ blocked > 0

(* A deadline belongs to a parked fiber, so that an expired timer never     *)
(* finds a fiber in a later wait, and a sleeper always has one.             *)
TimerIsParked ==
    \A f \in Fibers :
        /\ left[f] # NoTimer => state[f] = "PARKED"
        /\ state[f] = "PARKED" /\ park[f] = "TIMER" => left[f] # NoTimer

(* Every stack handed out belongs to a fiber on the live list, which is     *)
(* what cfiber_reactor_destroy's "leaked == 0" assertion needs.             *)
NoStackLeak ==
    /\ stacks = Cardinality(live)
    /\ lpc # "gone" => live = {f \in Fibers : state[f] # "FREE"}

(* Queue, counters, deadlines and stacks agree with the fibers' states at   *)
(* every point of the loop and in every fiber, through failed waits, failed *)
(* spawns and failed runs.                                                  *)
Accounting == TypeOK /\ Bookkeeping /\ TimerIsParked /\ NoStackLeak

(* The round ends: the fiber that closes it is still ahead in the ready     *)
(* queue, or is the one just entered, however many fibers yield, finish or  *)
(* are spawned into recycled blocks meanwhile.                              *)
RoundHasEnd ==
    lpc \in {"round", "fiber", "back"} =>
        \/ round_end \in Range(ready)
        \/ entered = round_end /\ lpc # "round"
        \/ round_end = NoFiber /\ lpc = "round" /\ ready = <<>>

(* fd_owner and reg_fd are each other's inverse, and only a live fiber      *)
(* holds a registration: a block in the pool is named by no fd.             *)
OwnerMap ==
    \A f \in Fibers, fd \in Fds :
        /\ fd_owner[fd] = f <=> reg_fd[f] = fd
        /\ reg_fd[f] = fd => state[f] # "FREE"

(* A registration that can fire belongs to the fiber parked on that very    *)
(* descriptor: no event can reach a fiber that waits for something else, or *)
(* a block that has been recycled.                                          *)
ArmedIsWaiter ==
    \A fd \in Fds : ep[fd].armed =>
        LET f == ep[fd].ptr IN
        f \in Fibers /\ WaitsOn(f, fd) /\ park[f] = "FD" /\ fd_owner[fd] = f

(* A fiber parked on a descriptor is not forgotten: its registration is     *)
(* armed, or the event that disarmed it is still to be processed, and the   *)
(* descriptor has not been closed under it.                                 *)
WaiterIsArmed ==
    \A f \in Fibers : (state[f] = "PARKED" /\ park[f] = "FD") =>
        LET fd == wait_fd[f] IN
        /\ fd \in Fds /\ open[fd]
        /\ \/ ep[fd] = [ptr |-> f, armed |-> TRUE]
           \/ [src |-> fd, ptr |-> f] \in evs

(* What the map remembers and the kernel has dropped, or the other way      *)
(* round, does not come between a fiber and an open descriptor.             *)
StaleIsTaken == \A fd \in Fds : open[fd] => Taken(fd)

(* The owner map, the fibers and the epoll set tell one story while         *)
(* descriptors are handed from fiber to fiber, closed and reused, and where *)
(* map and kernel differ the next wait still finds its way.                 *)
RegistrationsAgree == OwnerMap /\ ArmedIsWaiter /\ WaiterIsArmed /\ StaleIsTaken

(* No wake is lost: while a fiber sits in cfiber_ev_wait_async, a wake      *)
(* issued for it since its last one is still on its way to the loop,        *)
(* wherever the fiber was when earlier ones arrived.                        *)
NoWakeLost ==
    \A f \in Fibers :
        (state[f] = "PARKED" /\ park[f] = "ASYNC" /\ owed[f]) =>
            \E i \in DOMAIN cmds :
                cmds[i].cmd = [kind |-> "WAKE", f |-> f, gen |-> generation[f]]

(* A handle reaches the fiber it was given for and no later tenant of the   *)
(* block: permits and cancellations come from requests made for this fiber. *)
OnlyAsked ==
    \A f \in Fibers : state[f] # "FREE" =>
        /\ wake_pending[f] => woken[f]
        /\ wait_status[f] = "CANCELLED" => cancelled[f]

(* Why a wait may end: TIMEOUT only for a deadline that has passed, READY   *)
(* only for a wake of an async wait or an event of the awaited descriptor,  *)
(* CANCELLED only if somebody asked.  In particular a wake never cuts a     *)
(* sleep or a descriptor wait short.                                        *)
EndsForAReason(f) ==
    \/ wait_status'[f] = "TIMEOUT" /\ left[f] = 0
    \/ wait_status'[f] = "READY" /\ park[f] = "ASYNC" /\ woken[f]'
    \/ wait_status'[f] = "READY" /\ park[f] = "FD"
          /\ [src |-> wait_fd[f], ptr |-> f] \in evs
    \/ wait_status'[f] = "CANCELLED" /\ cancelled'[f]

WaitsEndForAReason ==
    [][\A f \in Fibers : (state[f] = "PARKED" /\ state'[f] # "PARKED")
           => state'[f] = "READY" /\ EndsForAReason(f)]_vars

(* reactor.h:193 calls cfiber_ev_wake and cfiber_ev_cancel "a no-op on a    *)
(* stale handle or a fiber that is not currently parked".                   *)
EvCommandNeedsParked ==
    [][\A f \in Fibers, c \in Commands :
           EvCommand(f, c) /\ state[c.f] # "PARKED" => UNCHANGED fiberVars]_vars

(* Everything gets its turn: a deadline ends the wait it belongs to, ...    *)
DeadlinesFire ==
    \A f \in Fibers : (state[f] = "PARKED" /\ left[f] # NoTimer) ~> (state[f] # "PARKED")

(* ... a wake that was posted resumes the fiber waiting for it, ...         *)
WakesArrive ==
    \A f \in Fibers :
        (/\ state[f] = "PARKED" /\ park[f] = "ASYNC"
         /\ \E i \in DOMAIN cmds :
               cmds[i].cmd = [kind |-> "WAKE", f |-> f, gen |-> generation[f]])
            ~> (state[f] # "PARKED")

(* ... a ready descriptor ends the wait on it unless its data are gone, ... *)
ReadinessIsNoticed ==
    \A f \in Fibers, fd \in Fds :
        (WaitsOn(f, fd) /\ io[fd]) ~> (~ WaitsOn(f, fd) \/ ~ io[fd])

(* ... and a ready fiber runs, whatever the others do between its turns.    *)
ReadyRuns ==
    \A f \in Fibers : (state[f] = "READY") ~> (state[f] = "RUNNING" \/ lpc = "gone")
=============================================================================
