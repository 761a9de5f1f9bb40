------------------------------ MODULE Scheduler ------------------------------
(***************************************************************************)
(* What runs on one thread: the cooperative scheduler                      *)
(* (src/cfiber/scheduler/scheduler.c), the runs of reactors as far as they *)
(* meet it (src/cfiber/reactor/reactor.c; Reactor has the rest), and the   *)
(* fiber-return hook both register (src/cfiber/fiber/fiber.c).             *)
(*                                                                         *)
(* A fiber may run another scheduler or reactor to completion, so what the *)
(* thread executes is a stack of runs: frames holds, outermost first, what *)
(* each run in progress keeps in its locals.  The innermost run's loop     *)
(* executes (pc "loop"), or user code does (pc "code"): the current fiber  *)
(* of the innermost run, or the host program when there is no run.  What   *)
(* user code does is arbitrary, but that it yields to, or parks in, the    *)
(* runner that dispatched it.                                              *)
(*                                                                         *)
(* A spawn that finds no task or no stack gives back what it took and      *)
(* changes nothing, and so does a yield of the only ready fiber.           *)
(***************************************************************************)
EXTENDS Integers, Sequences, FiniteSets, SequencesExt

CONSTANTS
    Scheds, Reactors,
    None,            \* no scheduler, no reactor
    Tasks, NoTask,   \* blocks of a runner's task pool, each with its stack
    MaxDepth,        \* bound of the model: runs nested this deep
    Reentry          \* user code runs a runner that already runs further out

Runners == Scheds \cup Reactors

ASSUME ConstantsAssumption ==
    /\ Scheds \cap Reactors = {}
    /\ None \notin Runners /\ NoTask \notin Tasks
    /\ MaxDepth \in Nat /\ Reentry \in BOOLEAN

VARIABLES
    \* cfiber_scheduler_t and struct cfiber_reactor
    inited,
    ready,           \* ready_head .. ready_tail
    current, zombie, active_count,
    parked,          \* fibers of a reactor in a wait
    tasks,           \* blocks taken from the pool
    \* thread-local
    s_current_sched, g_reactor,
    s_return_hook,   \* ctx of the registered hook, None when none is
    \* the thread
    frames, pc

runnerVars == <<inited, ready, current, zombie, active_count, parked, tasks>>
threadVars == <<s_current_sched, g_reactor, s_return_hook>>
vars == <<runnerVars, threadVars, frames, pc>>

-----------------------------------------------------------------------------
(* Whose loop the thread is in, or in a fiber of *)
Innermost == IF frames = <<>> THEN None ELSE Last(frames).runner

InProgress(s) == \E k \in DOMAIN frames : frames[k].runner = s

Init ==
    /\ inited = [s \in Runners |-> FALSE]
    /\ ready = [s \in Runners |-> <<>>]
    /\ current = [s \in Runners |-> NoTask]
    /\ zombie = [s \in Runners |-> NoTask]
    /\ active_count = [s \in Runners |-> 0]
    /\ parked = [s \in Runners |-> {}]
    /\ tasks = [s \in Runners |-> {}]
    /\ s_current_sched = None /\ g_reactor = None /\ s_return_hook = None
    /\ frames = <<>> /\ pc = "code"

(* cfiber_scheduler_init_ext, cfiber_reactor_create: all zero.  If the      *)
(* second pool cannot be set up the first is destroyed, and the scheduler   *)
(* is not there.                                                            *)
RunnerInit(s) ==
    /\ pc = "code"
    /\ ~ inited[s]
    /\ inited' = [inited EXCEPT ![s] = TRUE]
    /\ UNCHANGED <<ready, current, zombie, active_count, parked, tasks, threadVars,
                   frames, pc>>

(* cfiber_scheduler_destroy, of a scheduler without live fibers, and        *)
(* cfiber_reactor_destroy, which discards those a failed run has left       *)
RunnerDestroy(s) ==
    /\ pc = "code"
    /\ inited[s] /\ ~ InProgress(s)
    /\ s \in Scheds => active_count[s] = 0
    /\ inited' = [inited EXCEPT ![s] = FALSE]
    /\ tasks' = [tasks EXCEPT ![s] = {}]
    /\ ready' = [ready EXCEPT ![s] = <<>>]
    /\ parked' = [parked EXCEPT ![s] = {}]
    /\ active_count' = [active_count EXCEPT ![s] = 0]
    /\ zombie' = [zombie EXCEPT ![s] = NoTask]
    /\ UNCHANGED <<current, threadVars, frames, pc>>

-----------------------------------------------------------------------------
(* Mutant: the queue is a stack. *)
EnqueueReadyAtHead(s, t) == ready' = [ready EXCEPT ![s] = <<t>> \o @]

EnqueueReady(s, t) == ready' = [ready EXCEPT ![s] = Append(@, t)]

DequeueReady(s) == ready' = [ready EXCEPT ![s] = Tail(@)]

(* cfiber_scheduler_spawn and cfiber_reactor_spawn on any runner, and       *)
(* cfiber_spawn and cfiber_ev_spawn on the current one                      *)
Spawn(s, t) ==
    /\ pc = "code"
    /\ inited[s]
    /\ t \notin tasks[s]
    /\ tasks' = [tasks EXCEPT ![s] = @ \cup {t}]
    /\ EnqueueReady(s, t)
    /\ active_count' = [active_count EXCEPT ![s] = @ + 1]
    /\ UNCHANGED <<inited, current, zombie, parked, threadVars, frames, pc>>

Leave(s) ==
    /\ current' = [current EXCEPT ![s] = NoTask]
    /\ pc' = "loop"

(* cfiber_yield, in a fiber of a scheduler: the loop takes over on sched_ctx *)
Yield ==
    /\ pc = "code"
    /\ Innermost \in Scheds
    /\ LET s == s_current_sched IN
       /\ ready[s] # <<>>
       /\ EnqueueReady(s, current[s])
       /\ Leave(s)
    /\ UNCHANGED <<inited, zombie, active_count, parked, tasks, threadVars, frames>>

(* cfiber_ev_yield, in a fiber of a reactor, goes to the loop in any case *)
EvYield ==
    /\ pc = "code"
    /\ Innermost \in Reactors
    /\ EnqueueReady(g_reactor, current[g_reactor])
    /\ Leave(g_reactor)
    /\ UNCHANGED <<inited, zombie, active_count, parked, tasks, threadVars, frames>>

(* park_current, for whichever wait *)
EvPark ==
    /\ pc = "code"
    /\ Innermost \in Reactors
    /\ parked' = [parked EXCEPT ![g_reactor] = @ \cup {current[g_reactor]}]
    /\ Leave(g_reactor)
    /\ UNCHANGED <<inited, ready, zombie, active_count, tasks, threadVars, frames>>

(* The fiber's function returns: cfiber_epilogue calls the hook,            *)
(* builtin_return_hook or reactor_return_hook, which switches to the loop.  *)
Finish ==
    /\ pc = "code"
    /\ frames # <<>>
    /\ LET s == s_return_hook IN
       /\ zombie' = [zombie EXCEPT ![s] = current[s]]
       /\ active_count' = [active_count EXCEPT ![s] = @ - 1]
       /\ Leave(s)
    /\ UNCHANGED <<inited, ready, parked, tasks, threadVars, frames>>

-----------------------------------------------------------------------------
(* cfiber_scheduler_run and cfiber_reactor_run *)

(* Mutant: a nested run leaves the hook as it is. *)
EnterKeepsHook(s) ==
    /\ s_current_sched' = IF s \in Scheds THEN s ELSE s_current_sched
    /\ g_reactor' = IF s \in Reactors THEN s ELSE g_reactor
    /\ s_return_hook' = IF frames = <<>> THEN s ELSE s_return_hook

(* s is current from here on, and fibers that return are for it. *)
Enter(s) ==
    /\ s_current_sched' = IF s \in Scheds THEN s ELSE s_current_sched
    /\ g_reactor' = IF s \in Reactors THEN s ELSE g_reactor
    /\ s_return_hook' = s

(* A scheduler asserts, and a reactor refuses with EBUSY, that it is not    *)
(* the current one of its kind.                                             *)
Run(s) ==
    /\ pc = "code"
    /\ inited[s]
    /\ s \notin {s_current_sched, g_reactor}
    /\ InProgress(s) => Reentry
    /\ Len(frames) < MaxDepth
    /\ frames' = Append(frames, [runner |-> s,
                                 prev |-> IF s \in Scheds THEN s_current_sched ELSE g_reactor,
                                 prev_hook |-> s_return_hook])
    /\ Enter(s)
    /\ pc' = "loop"
    /\ UNCHANGED runnerVars

(* Mutant: the task goes back to the pool but stays in zombie. *)
TaskFreeAgain(s) ==
    /\ tasks' = [tasks EXCEPT ![s] = @ \ {zombie[s]}]
    /\ UNCHANGED zombie

(* Free the zombie, if there is one (task_free, fiber_recycle).  A reactor  *)
(* does so before anything else its loop does.                              *)
TaskFree(s) ==
    /\ tasks' = [tasks EXCEPT ![s] = @ \ {zombie[s]}]
    /\ zombie' = [zombie EXCEPT ![s] = NoTask]

(* One iteration: the next fiber runs. *)
Dispatch ==
    /\ pc = "loop"
    /\ LET s == Innermost IN
       /\ active_count[s] > 0
       /\ TaskFree(s)
       /\ ready[s] # <<>>
       /\ current' = [current EXCEPT ![s] = Head(ready[s])]
       /\ DequeueReady(s)
    /\ pc' = "code"
    /\ UNCHANGED <<inited, active_count, parked, threadVars, frames>>

(* A scheduler with live fibers but an empty ready queue: __builtin_trap,   *)
(* and no next step.                                                        *)
Trapped ==
    pc = "loop" /\ Innermost \in Scheds /\ active_count[Innermost] > 0 /\ ready[Innermost] = <<>>

(* A wait of a fiber ends: for an event, a deadline or a command the loop   *)
(* finds, or for a wake or cancel that user code asks of the current        *)
(* reactor, from a fiber of it or of a scheduler nested in it.              *)
Resume ==
    /\ g_reactor # None
    /\ pc = "loop" => g_reactor = Innermost
    /\ \E t \in parked[g_reactor] :
          /\ parked' = [parked EXCEPT ![g_reactor] = @ \ {t}]
          /\ EnqueueReady(g_reactor, t)
    /\ UNCHANGED <<inited, current, zombie, active_count, tasks, threadVars, frames, pc>>

(* Mutant: the thread has no current scheduler after any run. *)
RestoreNothing ==
    /\ s_current_sched' = IF Innermost \in Scheds THEN None ELSE s_current_sched
    /\ g_reactor' = IF Innermost \in Reactors THEN Last(frames).prev ELSE g_reactor
    /\ s_return_hook' = Last(frames).prev_hook

(* The runner and the hook found at the start are put back. *)
Restore ==
    /\ s_current_sched' = IF Innermost \in Scheds THEN Last(frames).prev ELSE s_current_sched
    /\ g_reactor' = IF Innermost \in Reactors THEN Last(frames).prev ELSE g_reactor
    /\ s_return_hook' = Last(frames).prev_hook

(* The run returns: free the last zombie and go back to the caller. *)
Return ==
    /\ TaskFree(Innermost)
    /\ Restore
    /\ frames' = Front(frames)
    /\ pc' = "code"
    /\ UNCHANGED <<inited, ready, current, active_count, parked>>

RunReturns == pc = "loop" /\ active_count[Innermost] = 0 /\ Return

(* epoll_wait fails: -1, and the live fibers stay as they are *)
RunFails ==
    /\ pc = "loop"
    /\ Innermost \in Reactors /\ active_count[Innermost] > 0
    /\ Return

Loop == Dispatch \/ RunReturns

Next ==
    \/ \E s \in Runners :
          \/ RunnerInit(s) \/ RunnerDestroy(s) \/ Run(s)
          \/ \E t \in Tasks : Spawn(s, t)
    \/ Yield \/ EvYield \/ EvPark \/ Finish
    \/ Loop \/ Resume \/ RunFails

Spec == Init /\ [][Next]_vars

(* The thread executes the loop, and a fiber that runs yields, parks or     *)
(* returns some time; nothing forces it to, the scheduling is cooperative.  *)
FairSpec == Spec /\ WF_vars(Loop) /\ WF_vars(Yield \/ EvYield \/ EvPark \/ Finish)

-----------------------------------------------------------------------------
(* Properties *)

TypeOK ==
    /\ inited \in [Runners -> BOOLEAN]
    /\ ready \in [Runners -> Seq(Tasks)]
    /\ current \in [Runners -> Tasks \cup {NoTask}]
    /\ zombie \in [Runners -> Tasks \cup {NoTask}]
    /\ active_count \in [Runners -> Nat]
    /\ parked \in [Runners -> SUBSET Tasks]
    /\ tasks \in [Runners -> SUBSET Tasks]
    /\ {s_current_sched} \subseteq Scheds \cup {None}
    /\ {g_reactor} \subseteq Reactors \cup {None}
    /\ s_return_hook \in Runners \cup {None}
    /\ frames \in Seq([runner : Runners, prev : Runners \cup {None},
                       prev_hook : Runners \cup {None}])
    /\ pc \in {"code", "loop"}

(* Every task taken from a pool is in one place: once in the ready queue,   *)
(* in a wait, current, or the zombie; and the count the loop stops on is    *)
(* that of the first three.  A finished fiber is no burden for long: only a *)
(* run in progress has a zombie, so that a run that returned has given      *)
(* every stack back but, where a reactor's failed, those of fibers that can *)
(* still go on.                                                             *)
EveryTaskOnce ==
    /\ TypeOK
    /\ \A s \in Runners :
        LET at == {current[s]} \ {NoTask}
            dead == {zombie[s]} \ {NoTask}
            places == <<Range(ready[s]), parked[s], at, dead>> IN
        /\ IsInjective(ready[s])
        /\ \A i, j \in DOMAIN places : i # j => places[i] \cap places[j] = {}
        /\ tasks[s] = UNION Range(places)
        /\ ~ InProgress(s) => at = {} /\ dead = {}
        /\ active_count[s] = Len(ready[s]) + Cardinality(parked[s] \cup at)

InnermostOf(kind) ==
    LET at == {k \in DOMAIN frames : frames[k].runner \in kind} IN
    IF at = {} THEN None ELSE frames[Max(at)].runner

(* In every fiber, however deep the nesting, whatever runs it has started   *)
(* and however they ended, the return hook, cfiber_yield, cfiber_spawn and  *)
(* the in-fiber API of reactors concern the innermost runner of their kind, *)
(* in particular the one that dispatched the fiber.                         *)
InnermostIsCurrent ==
    /\ s_return_hook = Innermost
    /\ s_current_sched = InnermostOf(Scheds)
    /\ g_reactor = InnermostOf(Reactors)

(* The stack a nested run executes on stays allocated: the fiber that       *)
(* started it is still its runner's current one.                            *)
HostsStayAlive ==
    \A k \in DOMAIN frames :
        LET s == frames[k].runner IN
        (k < Len(frames) \/ pc = "code") => current[s] # NoTask /\ current[s] \in tasks[s]

(* The loop never meets live fibers with an empty ready queue, which the    *)
(* comment at scheduler.c:206 reserves for a fiber that switched to         *)
(* sched_ctx by hand.                                                       *)
NeverTrapped == ~ Trapped

(* First come, first served: a ready fiber of the innermost run gets its    *)
(* turn, unless that run is suspended by a nested one, or fails, first.     *)
ReadyRuns ==
    \A s \in Runners, t \in Tasks :
        (s = Innermost /\ t \in Range(ready[s])) ~> (current[s] = t \/ s # Innermost)
=============================================================================
