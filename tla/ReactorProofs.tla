---------------------------- MODULE ReactorProofs ----------------------------
(***************************************************************************)
(* Proofs about Reactor, for any number of fibers, descriptors, posting    *)
(* threads, generations and any capacity of the ring.                      *)
(***************************************************************************)
EXTENDS Reactor, FiniteSetTheorems, SequenceTheorems, TLAPS

-----------------------------------------------------------------------------
(* The inductive invariant *)

(* Where the loop thread is, and who runs *)
LoopInv ==
    /\ lpc = "fiber" <=> current # NoFiber
    /\ zombie # NoFiber => lpc = "back"
    /\ lpc = "poll" => active > 0
    /\ evs # {} => lpc \in {"events", "clear", "drain"}

(* A fiber that waits for a descriptor holds the registration, a fiber that *)
(* waits for something else names none, and nor does one that runs.         *)
WaitInv ==
    \A f \in Fibers :
        /\ state[f] = "RUNNING" => wait_fd[f] = NoFd
        /\ state[f] = "PARKED" /\ park[f] = "FD" => reg_fd[f] = wait_fd[f]
        /\ state[f] = "PARKED" /\ park[f] # "FD" => wait_fd[f] = NoFd
        /\ state[f] = "PARKED" => park[f] \in Parks

(* An event still to be processed is for the fiber that waits for it, or    *)
(* for one whose wait has ended in the same turn of the loop.               *)
EventInv ==
    \A e \in evs : e.src # EvFd =>
        /\ e.src \in Fds /\ e.ptr \in Fibers
        /\ ~ ep[e.src].armed
        /\ state[e.ptr] = "PARKED" => park[e.ptr] = "FD" /\ wait_fd[e.ptr] = e.src

(* Handles are of the block's present fiber or of an earlier one. *)
HandleInv ==
    /\ \A h \in issued :
          /\ h.gen <= generation[h.f]
          /\ h.gen = generation[h.f] => state[h.f] # "FREE"
    /\ \A f \in Fibers : state[f] # "FREE" => generation[f] < MaxGen

(* The commands on their way *)
CmdInv ==
    \A i \in DOMAIN cmds :
        LET c == cmds[i].cmd IN
        /\ [f |-> c.f, gen |-> c.gen] \in issued
        /\ c.gen = generation[c.f] =>
              IF c.kind = "WAKE" THEN woken[c.f] ELSE cancelled[c.f]

(* Every thread inside post_cmd is one of Posters. *)
PostInv == Cardinality(Unpublished) + pokes <= Posters

(* A wake for f's present life is in the ring. *)
OnItsWay(f) ==
    \E i \in DOMAIN cmds : cmds[i].cmd = [kind |-> "WAKE", f |-> f, gen |-> generation[f]]

(* A wake that is owed is on its way, is a permit, or has ended the wait *)
WakeInv ==
    \A f \in Fibers :
        /\ state[f] = "PARKED" /\ park[f] = "ASYNC" => ~ wake_pending[f]
        /\ (owed[f] /\ state[f] \notin {"FREE", "ZOMBIE"}) =>
              \/ wake_pending[f]
              \/ OnItsWay(f)
              \/ state[f] = "READY" /\ park[f] = "ASYNC" /\ wait_status[f] = "READY"

(* The inductive invariant *)
IInv ==
    /\ TypeOK /\ Bookkeeping /\ TimerIsParked /\ NoStackLeak /\ LoopInv /\ PostInv
    /\ RoundHasEnd
    /\ OwnerMap /\ ArmedIsWaiter /\ WaiterIsArmed /\ WaitInv /\ EventInv
    /\ OnlyAsked /\ HandleInv /\ CmdInv /\ WakeInv

-----------------------------------------------------------------------------
(* The ready queue and the counts *)

(* enqueue: the queue with one more element *)
LEMMA AppendOne ==
    ASSUME NEW S, NEW s \in Seq(S), NEW e \in S
    PROVE  /\ Append(s, e) \in Seq(S)
           /\ Range(Append(s, e)) = Range(s) \cup {e}
           /\ IsInjective(s) /\ e \notin Range(s) => IsInjective(Append(s, e))
<1>1. Append(s, e) \in Seq(S) /\ DOMAIN Append(s, e) = DOMAIN s \cup {Len(s) + 1}
      /\ Len(s) \in Nat /\ DOMAIN s = 1 .. Len(s)
  OBVIOUS
<1>2. \A i \in DOMAIN s : Append(s, e)[i] = s[i]
  OBVIOUS
<1>3. Append(s, e)[Len(s) + 1] = e
  OBVIOUS
<1>4. Range(Append(s, e)) = Range(s) \cup {e}
  BY <1>1, <1>2, <1>3 DEF Range
<1>5. ASSUME IsInjective(s), e \notin Range(s) PROVE IsInjective(Append(s, e))
  BY <1>1, <1>2, <1>3, <1>5 DEF IsInjective, Range
<1> QED BY <1>1, <1>4, <1>5

(* dequeue: the queue without its head *)
LEMMA TailOne ==
    ASSUME NEW S, NEW s \in Seq(S), s # <<>>
    PROVE  /\ Tail(s) \in Seq(S) /\ Head(s) \in S /\ Head(s) \in Range(s)
           /\ Range(s) = Range(Tail(s)) \cup {Head(s)}
           /\ IsInjective(s) => IsInjective(Tail(s)) /\ Head(s) \notin Range(Tail(s))
<1>1. /\ Tail(s) \in Seq(S) /\ Head(s) = s[1] /\ Len(s) \in Nat \ {0}
      /\ DOMAIN s = 1 .. Len(s) /\ DOMAIN Tail(s) = 1 .. Len(s) - 1
  OBVIOUS
<1>2. \A i \in DOMAIN Tail(s) : Tail(s)[i] = s[i + 1] /\ i + 1 \in DOMAIN s
  OBVIOUS
<1>3. \A i \in DOMAIN s : i = 1 \/ (i - 1 \in DOMAIN Tail(s) /\ Tail(s)[i - 1] = s[i])
  <2> TAKE i \in DOMAIN s
  <2>1. CASE i = 1
    BY <2>1
  <2>2. CASE i # 1
    <3>1. i - 1 \in DOMAIN Tail(s) /\ (i - 1) + 1 = i
      BY <1>1, <2>2
    <3> QED BY <1>2, <3>1
  <2> QED BY <2>1, <2>2
<1>4. Range(s) = Range(Tail(s)) \cup {Head(s)}
  <2>1. Range(Tail(s)) \cup {Head(s)} \subseteq Range(s)
    BY <1>1, <1>2 DEF Range
  <2>2. Range(s) \subseteq Range(Tail(s)) \cup {Head(s)}
    BY <1>1, <1>3 DEF Range
  <2> QED BY <2>1, <2>2
<1>5. ASSUME IsInjective(s) PROVE IsInjective(Tail(s)) /\ Head(s) \notin Range(Tail(s))
  <2>1. IsInjective(Tail(s))
    BY <1>1, <1>2, <1>5 DEF IsInjective
  <2>2. Head(s) \notin Range(Tail(s))
    BY <1>1, <1>2, <1>5 DEF IsInjective, Range
  <2> QED BY <2>1, <2>2
<1>6. Head(s) \in S
  BY <1>1
<1> QED BY <1>1, <1>4, <1>5, <1>6

(* The fibers the loop counts as active *)
Alive == InState("READY") \cup InState("RUNNING") \cup InState("PARKED")

(* Bookkeeping, without what it says of the poll *)
Counts ==
    /\ IsInjective(ready) /\ Range(ready) = InState("READY")
    /\ blocked = Cardinality(InState("PARKED"))
    /\ active = Cardinality(Alive)
    /\ InState("RUNNING") = {current} \ {NoFiber}
    /\ InState("ZOMBIE") = {zombie} \ {NoFiber}

(* A fiber changes its state: the sets of fibers in each state. *)
LEMMA Moves ==
    ASSUME TypeOK, NEW f \in Fibers, NEW st \in States,
           state' = [state EXCEPT ![f] = st]
    PROVE  \A x \in States :
               InState(x)' = IF x = st THEN InState(x) \cup {f} ELSE InState(x) \ {f}
BY DEF TypeOK, InState

(* The blocks are finitely many, so every set of them can be counted. *)
LEMMA Finite ==
    /\ \A T \in SUBSET Fibers : IsFiniteSet(T) /\ Cardinality(T) \in Nat
    /\ \A x : InState(x) \in SUBSET Fibers
    /\ Alive \in SUBSET Fibers
<1>1. \A T \in SUBSET Fibers : IsFiniteSet(T) /\ Cardinality(T) \in Nat
  BY ConstantsAssumption, FS_Subset, FS_CardinalityType
<1> QED BY <1>1 DEF InState, Alive

(* A fiber that was not in a set is added to it, one that was is taken out. *)
LEMMA OneMore ==
    ASSUME NEW T \in SUBSET Fibers, NEW f \in Fibers, f \notin T
    PROVE  Cardinality(T \cup {f}) = Cardinality(T) + 1
BY Finite, FS_AddElement

(* A block that leaves a set is one less. *)
LEMMA OneLess ==
    ASSUME NEW T \in SUBSET Fibers, NEW f \in T
    PROVE  Cardinality(T \ {f}) = Cardinality(T) - 1 /\ Cardinality(T) > 0
<1>1. Cardinality(T \ {f}) = Cardinality(T) - 1
  BY Finite, FS_RemoveElement
<1>2. Cardinality(T \ {f}) \in Nat /\ Cardinality(T) \in Nat
  BY Finite
<1> QED BY <1>1, <1>2

(* The queue is the READY fibers, each once, when one more is queued. *)
LEMMA EnqueueQueues ==
    ASSUME TypeOK, Counts, NEW f \in Fibers, state[f] # "READY", Enqueue(f)
    PROVE  /\ ready' \in Seq(Fibers) /\ IsInjective(ready')
           /\ Range(ready') = InState("READY")'
<1>1. ready \in Seq(Fibers) /\ f \notin Range(ready) /\ IsInjective(ready)
  BY DEF Counts, TypeOK, InState
<1>2. /\ Append(ready, f) \in Seq(Fibers)
      /\ Range(Append(ready, f)) = Range(ready) \cup {f}
      /\ IsInjective(Append(ready, f))
  BY <1>1, AppendOne
<1>3. InState("READY")' = InState("READY") \cup {f}
  BY Moves DEF States, Enqueue
<1> QED BY <1>2, <1>3 DEF Counts, Enqueue

(* resume: a wait ends, whatever ended it. *)
LEMMA ResumeCounts ==
    ASSUME TypeOK, Counts, NEW f \in Fibers, state[f] = "PARKED",
           Enqueue(f), blocked' = blocked - 1, UNCHANGED <<active, current, zombie>>
    PROVE  Counts' /\ blocked' \in Nat /\ ready' \in Seq(Fibers)
<1>1. /\ InState("READY")' = InState("READY") \cup {f}
      /\ InState("PARKED")' = InState("PARKED") \ {f}
      /\ InState("RUNNING")' = InState("RUNNING") \ {f}
      /\ InState("ZOMBIE")' = InState("ZOMBIE") \ {f}
  BY Moves DEF States, Enqueue
<1>2. f \in InState("PARKED") /\ f \notin InState("RUNNING") /\ f \notin InState("ZOMBIE")
  BY DEF InState
<1>3. blocked' = Cardinality(InState("PARKED")') /\ blocked' \in Nat
  BY <1>1, <1>2, Finite, OneLess DEF Counts
<1>4. Alive' = Alive
  BY <1>1, <1>2 DEF Alive
<1> QED BY <1>1, <1>2, <1>3, <1>4, EnqueueQueues DEF Counts

(* park_current *)
LEMMA ParkCounts ==
    ASSUME TypeOK, Counts, current \in Fibers, NEW kind, ParkCurrent(kind),
           UNCHANGED <<ready, active, zombie>>
    PROVE  Counts' /\ blocked' \in Nat
<1>1. state' = [state EXCEPT ![current] = "PARKED"] /\ current' = NoFiber
      /\ blocked' = blocked + 1
  BY DEF ParkCurrent, LeaveToLoop
<1>2. /\ InState("READY")' = InState("READY") \ {current}
      /\ InState("PARKED")' = InState("PARKED") \cup {current}
      /\ InState("RUNNING")' = InState("RUNNING") \ {current}
      /\ InState("ZOMBIE")' = InState("ZOMBIE") \ {current}
  BY <1>1, Moves DEF States
<1>3. current \in InState("RUNNING") /\ current # NoFiber
  BY ConstantsAssumption DEF Counts
<1>4. current \notin InState("PARKED") /\ current \notin InState("READY")
      /\ current \notin InState("ZOMBIE")
  BY <1>3 DEF InState
<1>5. blocked' = Cardinality(InState("PARKED")') /\ blocked' \in Nat
  BY <1>1, <1>2, <1>4, Finite, OneMore DEF Counts
<1>6. Alive' = Alive
  BY <1>2, <1>3, <1>4 DEF Alive
<1>7. InState("RUNNING")' = {} /\ InState("READY")' = InState("READY")
      /\ InState("ZOMBIE")' = InState("ZOMBIE")
  BY <1>2, <1>4 DEF Counts
<1> QED BY <1>1, <1>5, <1>6, <1>7 DEF Counts

(* cfiber_ev_yield *)
LEMMA YieldCounts ==
    ASSUME TypeOK, Counts, current \in Fibers, Enqueue(current), current' = NoFiber,
           UNCHANGED <<active, blocked, zombie>>
    PROVE  Counts' /\ ready' \in Seq(Fibers)
<1>1. /\ InState("READY")' = InState("READY") \cup {current}
      /\ InState("PARKED")' = InState("PARKED") \ {current}
      /\ InState("RUNNING")' = InState("RUNNING") \ {current}
      /\ InState("ZOMBIE")' = InState("ZOMBIE") \ {current}
  BY Moves DEF States, Enqueue
<1>2. current \in InState("RUNNING")
  BY ConstantsAssumption DEF Counts
<1>3. state[current] = "RUNNING" /\ current \notin InState("PARKED")
      /\ current \notin InState("ZOMBIE")
  BY <1>2 DEF InState
<1>4. Alive' = Alive
  BY <1>1, <1>2 DEF Alive
<1>5. InState("RUNNING")' = {} /\ InState("PARKED")' = InState("PARKED")
      /\ InState("ZOMBIE")' = InState("ZOMBIE")
  BY <1>1, <1>3 DEF Counts
<1> QED BY <1>3, <1>4, <1>5, EnqueueQueues DEF Counts

(* reactor_return_hook *)
LEMMA FinishCounts ==
    ASSUME TypeOK, Counts, current \in Fibers, zombie = NoFiber, zombie' = current,
           state' = [state EXCEPT ![current] = "ZOMBIE"], active' = active - 1,
           current' = NoFiber, UNCHANGED <<ready, blocked>>
    PROVE  Counts' /\ active' \in Nat
<1>1. /\ InState("READY")' = InState("READY") \ {current}
      /\ InState("PARKED")' = InState("PARKED") \ {current}
      /\ InState("RUNNING")' = InState("RUNNING") \ {current}
      /\ InState("ZOMBIE")' = InState("ZOMBIE") \cup {current}
  BY Moves DEF States
<1>2. current \in InState("RUNNING") /\ current # NoFiber
  BY ConstantsAssumption DEF Counts
<1>3. current \notin InState("READY") /\ current \notin InState("PARKED")
  BY <1>2 DEF InState
<1>4. Alive' = Alive \ {current} /\ current \in Alive
  BY <1>1, <1>2, <1>3 DEF Alive
<1>5. active' = Cardinality(Alive') /\ active' \in Nat
  BY <1>4, Finite, OneLess DEF Counts
<1>6. InState("RUNNING")' = {} /\ InState("PARKED")' = InState("PARKED")
      /\ InState("READY")' = InState("READY") /\ InState("ZOMBIE")' = {current}
  BY <1>1, <1>3 DEF Counts
<1> QED BY <1>2, <1>5, <1>6 DEF Counts

(* spawn_locked *)
LEMMA SpawnCounts ==
    ASSUME TypeOK, Counts, NEW f \in Fibers, state[f] = "FREE", Enqueue(f),
           active' = active + 1, UNCHANGED <<blocked, current, zombie>>
    PROVE  Counts' /\ active' \in Nat /\ ready' \in Seq(Fibers)
<1>1. /\ InState("READY")' = InState("READY") \cup {f}
      /\ InState("PARKED")' = InState("PARKED") \ {f}
      /\ InState("RUNNING")' = InState("RUNNING") \ {f}
      /\ InState("ZOMBIE")' = InState("ZOMBIE") \ {f}
  BY Moves DEF States, Enqueue
<1>2. f \notin InState("READY") /\ f \notin InState("PARKED")
      /\ f \notin InState("RUNNING") /\ f \notin InState("ZOMBIE")
  BY DEF InState
<1>3. Alive' = Alive \cup {f} /\ f \notin Alive
  BY <1>1, <1>2 DEF Alive
<1>4. active' = Cardinality(Alive') /\ active' \in Nat
  BY <1>3, Finite, OneMore DEF Counts
<1>5. InState("PARKED")' = InState("PARKED") /\ InState("RUNNING")' = InState("RUNNING")
      /\ InState("ZOMBIE")' = InState("ZOMBIE")
  BY <1>1, <1>2
<1>6. /\ ready' \in Seq(Fibers) /\ IsInjective(ready')
      /\ Range(ready') = InState("READY")'
  BY EnqueueQueues
<1> QED BY <1>4, <1>5, <1>6 DEF Counts

(* What joined a set can leave it again. *)
LEMMA JoinAndLeave ==
    ASSUME NEW S, NEW T, NEW x, S = T \cup {x}, x \notin T
    PROVE  T = S \ {x}
OBVIOUS

(* enter_fiber *)
LEMMA DispatchCounts ==
    ASSUME TypeOK, Counts, ready # <<>>, current = NoFiber, Dequeue,
           current' = Head(ready), state' = [state EXCEPT ![Head(ready)] = "RUNNING"],
           UNCHANGED <<active, blocked, zombie>>
    PROVE  Counts' /\ ready' \in Seq(Fibers) /\ Head(ready) \in Fibers
           /\ state[Head(ready)] = "READY"
<1> PICK f : f = Head(ready)
  OBVIOUS
<1>1. /\ ready' \in Seq(Fibers) /\ f \in Fibers
      /\ InState("READY") = Range(ready') \cup {f}
      /\ IsInjective(ready') /\ f \notin Range(ready')
  BY TailOne DEF Counts, TypeOK, Dequeue
<1>2. /\ InState("READY")' = InState("READY") \ {f}
      /\ InState("PARKED")' = InState("PARKED") \ {f}
      /\ InState("RUNNING")' = InState("RUNNING") \cup {f}
      /\ InState("ZOMBIE")' = InState("ZOMBIE") \ {f}
  BY <1>1, Moves DEF States
<1>3. f \in InState("READY") /\ state[f] = "READY" /\ f \notin InState("PARKED")
      /\ f \notin InState("ZOMBIE")
  BY <1>1 DEF InState
<1>4. Alive' = Alive
  BY <1>2, <1>3 DEF Alive
<1>5. InState("RUNNING")' = {f} /\ f # NoFiber
  BY <1>1, <1>2, ConstantsAssumption DEF Counts
<1>6. Range(ready') = InState("READY")'
  <2>1. Range(ready') = InState("READY") \ {f}
    BY <1>1, JoinAndLeave
  <2> QED BY <1>2, <2>1
<1>7. InState("PARKED")' = InState("PARKED") /\ InState("ZOMBIE")' = InState("ZOMBIE")
  BY <1>2, <1>3
<1> QED BY <1>1, <1>3, <1>4, <1>5, <1>6, <1>7 DEF Counts

(* fiber_recycle *)
LEMMA RecycleCounts ==
    ASSUME TypeOK, Counts, zombie \in Fibers, state' = [state EXCEPT ![zombie] = "FREE"],
           zombie' = NoFiber, UNCHANGED <<ready, active, blocked, current>>
    PROVE  Counts'
<1>1. /\ InState("READY")' = InState("READY") \ {zombie}
      /\ InState("PARKED")' = InState("PARKED") \ {zombie}
      /\ InState("RUNNING")' = InState("RUNNING") \ {zombie}
      /\ InState("ZOMBIE")' = InState("ZOMBIE") \ {zombie}
  BY Moves DEF States
<1>2. zombie \in InState("ZOMBIE")
  BY ConstantsAssumption DEF Counts
<1>3. zombie \notin InState("READY") /\ zombie \notin InState("PARKED")
      /\ zombie \notin InState("RUNNING")
  BY <1>2 DEF InState
<1>4. Alive' = Alive
  BY <1>1, <1>3 DEF Alive
<1>5. InState("ZOMBIE")' = {}
  BY <1>1 DEF Counts
<1> QED BY <1>1, <1>3, <1>4, <1>5 DEF Counts

-----------------------------------------------------------------------------
(* Types *)

(* The fields DetachFd and Unpark write *)
LEMMA DetachTypes ==
    ASSUME TypeOK, NEW f \in Fibers, DetachFd(f)
    PROVE  /\ reg_fd' \in [Fibers -> Fds \cup {NoFd}]
           /\ fd_owner' \in [Fds -> Fibers \cup {NoFiber}]
           /\ ep' \in [Fds -> [ptr : Fibers \cup {NoFiber}, armed : BOOLEAN]]
BY DEF TypeOK, DetachFd, NoEntry

(* The fields a wait for a descriptor writes *)
LEMMA MoveTypes ==
    ASSUME TypeOK, NEW f \in Fibers, NEW fd \in Fds
    PROVE  /\ OwnerAfterMove(f, fd) \in [Fds -> Fibers \cup {NoFiber}]
           /\ EpAfterMove(f, fd) \in [Fds -> [ptr : Fibers \cup {NoFiber}, armed : BOOLEAN]]
           /\ ArmedFor(f, fd) \in [Fds -> [ptr : Fibers \cup {NoFiber}, armed : BOOLEAN]]
<1>1. EpAfterMove(f, fd) \in [Fds -> [ptr : Fibers \cup {NoFiber}, armed : BOOLEAN]]
  BY DEF TypeOK, EpAfterMove, NoEntry
<1>2. OwnerAfterMove(f, fd) \in [Fds -> Fibers \cup {NoFiber}]
  BY DEF TypeOK, OwnerAfterMove
<1>3. ArmedFor(f, fd) \in [Fds -> [ptr : Fibers \cup {NoFiber}, armed : BOOLEAN]]
  BY <1>1 DEF ArmedFor
<1> QED BY <1>1, <1>2, <1>3

(* The fields park_current writes *)
LEMMA ParkTypes ==
    ASSUME TypeOK, Counts, current \in Fibers, NEW kind \in Parks, ParkCurrent(kind),
           UNCHANGED <<ready, active, zombie>>
    PROVE  /\ state' \in [Fibers -> States]
           /\ park' \in [Fibers -> Parks \cup {None}]
           /\ wait_status' \in [Fibers -> Statuses \cup {None}]
           /\ blocked' \in Nat
           /\ current' = NoFiber /\ lpc' \in LoopPc
<1>1. blocked' \in Nat
  BY ParkCounts
<1> QED BY <1>1 DEF ParkCurrent, LeaveToLoop, TypeOK, States, Statuses, LoopPc

(* The fields unpark writes *)
LEMMA ResumeTypes ==
    ASSUME TypeOK, Counts, NEW f \in Fibers, state[f] = "PARKED",
           NEW status \in Statuses, Resume(f, status), UNCHANGED <<active, current, zombie>>
    PROVE  /\ state' \in [Fibers -> States]
           /\ wait_status' \in [Fibers -> Statuses \cup {None}]
           /\ blocked' \in Nat /\ ready' \in Seq(Fibers)
<1>1. blocked' \in Nat /\ ready' \in Seq(Fibers)
  BY ResumeCounts DEF Resume
<1> QED BY <1>1 DEF Resume, Enqueue, TypeOK, States

(* Applying a command changes fields to values of their types. *)
LEMMA CommandTypes ==
    ASSUME TypeOK, Counts, NEW c \in Commands, ApplyCmd(c), UNCHANGED <<current, zombie>>
    PROVE  /\ state' \in [Fibers -> States]
           /\ wake_pending' \in [Fibers -> BOOLEAN]
           /\ reg_fd' \in [Fibers -> Fds \cup {NoFd}]
           /\ wait_status' \in [Fibers -> Statuses \cup {None}]
           /\ left' \in [Fibers -> Nat \cup {NoTimer}]
           /\ ready' \in Seq(Fibers) /\ blocked' \in Nat
           /\ fd_owner' \in [Fds -> Fibers \cup {NoFiber}]
           /\ ep' \in [Fds -> [ptr : Fibers \cup {NoFiber}, armed : BOOLEAN]]
<1> c.f \in Fibers
  BY DEF Commands
<1>1. ASSUME NEW status \in Statuses, state[c.f] = "PARKED", Unpark(c.f, status), UNCHANGED wake_pending
      PROVE  /\ state' \in [Fibers -> States]
             /\ wake_pending' \in [Fibers -> BOOLEAN]
             /\ reg_fd' \in [Fibers -> Fds \cup {NoFd}]
             /\ wait_status' \in [Fibers -> Statuses \cup {None}]
             /\ left' \in [Fibers -> Nat \cup {NoTimer}]
             /\ ready' \in Seq(Fibers) /\ blocked' \in Nat
             /\ fd_owner' \in [Fds -> Fibers \cup {NoFiber}]
             /\ ep' \in [Fds -> [ptr : Fibers \cup {NoFiber}, armed : BOOLEAN]]
  <2>1. UNCHANGED active
    BY DEF ApplyCmd
  <2>2. left' \in [Fibers -> Nat \cup {NoTimer}]
    BY <1>1 DEF Unpark, TimerRemove, TypeOK
  <2>3. wake_pending' \in [Fibers -> BOOLEAN]
    BY <1>1 DEF TypeOK
  <2> QED BY <1>1, <2>1, <2>2, <2>3, DetachTypes, ResumeTypes DEF Unpark
<1>2. CASE UNCHANGED <<state, wait_status, left, reg_fd, fd_owner, ep, ready, blocked>>
           /\ wake_pending' \in [Fibers -> BOOLEAN]
  BY <1>2 DEF TypeOK
<1>3. CASE UNCHANGED wake_pending /\ UNCHANGED <<state, wait_status, left, reg_fd, fd_owner, ep, ready, blocked>>
  BY <1>3, <1>2 DEF TypeOK
<1>4. CASE KeepPermit(c)
  BY <1>4, <1>2 DEF KeepPermit, TypeOK
<1> QED BY <1>1, <1>3, <1>4 DEF ApplyCmd, Statuses, WakeResumes

(* The fields a request writes *)
LEMMA IssueTypes ==
    ASSUME TypeOK, NEW c \in Commands, Issue(c)
    PROVE  woken' \in [Fibers -> BOOLEAN] /\ owed' \in [Fibers -> BOOLEAN]
           /\ cancelled' \in [Fibers -> BOOLEAN] /\ UNCHANGED issued
BY DEF TypeOK, Issue, Asked

(* Posters: publishing moves a thread from Unpublished to pokes. *)
LEMMA FiniteUnpublished ==
    ASSUME cmds \in Seq(Ring!Entry)
    PROVE  IsFiniteSet(DOMAIN cmds) /\ IsFiniteSet(Unpublished) /\ Cardinality(Unpublished) \in Nat
<1>1. DOMAIN cmds = 1 .. Len(cmds) /\ Len(cmds) \in Nat
  OBVIOUS
<1>2. IsFiniteSet(DOMAIN cmds)
  BY <1>1, FS_Interval
<1>3. IsFiniteSet(Unpublished)
  BY <1>2, FS_Subset DEF Unpublished
<1> QED BY <1>2, <1>3, FS_CardinalityType

(* The loop takes a command. *)
LEMMA TakeType ==
    ASSUME TypeOK, Ring!Take
    PROVE  cmds' \in Seq(Ring!Entry) /\ taken' \in Commands
<1>1. cmds # <<>> /\ cmds' = Tail(cmds) /\ taken' = Head(cmds).cmd
  BY DEF Ring!Take
<1>2. cmds' \in Seq(Ring!Entry) /\ Head(cmds) \in Ring!Entry
  BY <1>1, TailOne DEF TypeOK
<1> QED BY <1>1, <1>2 DEF Ring!Entry

(* Publishing an entry of the ring changes its flag alone. *)
LEMMA PublishType ==
    ASSUME TypeOK, NEW i \in DOMAIN cmds, Ring!Publish(i)
    PROVE  /\ cmds' \in Seq(Ring!Entry) /\ DOMAIN cmds' = DOMAIN cmds
           /\ \A j \in DOMAIN cmds :
                 /\ cmds'[j].cmd = cmds[j].cmd
                 /\ cmds'[j].published = IF j = i THEN TRUE ELSE cmds[j].published
<1>1. cmds \in Seq(Ring!Entry) /\ DOMAIN cmds = 1 .. Len(cmds) /\ Len(cmds) \in Nat
  BY DEF TypeOK
<1>2. \A j \in DOMAIN cmds : cmds[j] \in Ring!Entry
  BY <1>1
<1>3. cmds' = [cmds EXCEPT ![i] = [cmds[i] EXCEPT !.published = TRUE]]
  BY DEF Ring!Publish
<1>4. [cmds[i] EXCEPT !.published = TRUE] \in Ring!Entry
  BY <1>2 DEF Ring!Entry
<1>5. cmds' \in Seq(Ring!Entry) /\ DOMAIN cmds' = DOMAIN cmds
  BY <1>1, <1>3, <1>4
<1>6. \A j \in DOMAIN cmds :
         /\ cmds'[j].cmd = cmds[j].cmd
         /\ cmds'[j].published = IF j = i THEN TRUE ELSE cmds[j].published
  BY <1>1, <1>2, <1>3 DEF Ring!Entry
<1> QED BY <1>5, <1>6

(* ... and leaves one entry less to be published. *)
LEMMA UnpublishedCount ==
    ASSUME TypeOK, NEW i \in DOMAIN cmds, Ring!Publish(i)
    PROVE  /\ Cardinality(Unpublished') = Cardinality(Unpublished) - 1
           /\ Cardinality(Unpublished) \in Nat \ {0}
<1>1. IsFiniteSet(Unpublished) /\ Cardinality(Unpublished) \in Nat
  BY FiniteUnpublished DEF TypeOK
<1>2. i \in Unpublished
  BY DEF Unpublished, Ring!Publish
<1>5. Unpublished' = Unpublished \ {i}
  BY PublishType DEF Unpublished
<1>6. Cardinality(Unpublished \ {i}) = Cardinality(Unpublished) - 1 /\ Cardinality(Unpublished \ {i}) \in Nat
  BY <1>1, <1>2, FS_RemoveElement, FS_CardinalityType
<1> QED BY <1>1, <1>5, <1>6

(* Every step of the reactor keeps the types: in particular no counter of   *)
(* the loop ever goes below zero, and the model's bounds hold.              *)
LEMMA TypeStep == ASSUME IInv, [Next]_vars PROVE TypeOK'
<1> TypeOK /\ Counts /\ (lpc = "fiber" <=> current # NoFiber) /\ (zombie # NoFiber => lpc = "back")
  BY DEF IInv, Counts, Bookkeeping, Alive, LoopInv
<1> USE DEF loopVars, cmdVars, fdVars, poolVars, queueVars, histVars, fiberVars
<1>1. CASE Run \/ RoundEmpty \/ FireDone \/ PollInterrupted
  <2>1. ReadyTail \in Fibers \cup {NoFiber}
    BY DEF ReadyTail, TypeOK
  <2> QED BY <1>1, <2>1 DEF Run, RoundEmpty, FireDone, PollInterrupted, TopOfLoop, AfterRound,
                   worldVars, TypeOK, LoopPc
<1>2. CASE EventsDone \/ DrainClear \/ DrainDone \/ PollFails \/ EventForReactor
  BY <1>2 DEF EventsDone, DrainClear, DrainDone, PollFails, EventForReactor, worldVars, TypeOK, LoopPc
<1>3. CASE Dispatch
  <2>1. Head(ready) \in Fibers /\ ready' \in Seq(Fibers)
    BY <1>3, TailOne DEF Dispatch, Dequeue, TypeOK
  <2> QED BY <1>3, <2>1 DEF Dispatch, EnterFiber, TypeOK, States, LoopPc
<1>4. CASE Back
  <2>1. CASE zombie = NoFiber
    BY <1>4, <2>1 DEF Back, AfterRound, TypeOK, LoopPc, Recycle, DetachFd
  <2>2. CASE zombie # NoFiber
    <3>1. zombie \in Fibers /\ Recycle(zombie)
      BY <1>4, <2>2 DEF Back, TypeOK
    <3>2. zombie \in live /\ state[zombie] # "FREE" /\ generation[zombie] < MaxGen
      <4>1. state[zombie] = "ZOMBIE"
        BY <2>2 DEF Counts, InState
      <4>2. generation[zombie] < MaxGen
        BY <3>1, <4>1 DEF IInv, HandleInv
      <4>3. zombie \in live
        BY <1>4, <3>1, <4>1 DEF Back, IInv, NoStackLeak
      <4> QED BY <4>1, <4>2, <4>3
    <3>3. stacks' \in Nat
      <4>1. stacks = Cardinality(live) /\ live \in SUBSET Fibers
        BY DEF IInv, NoStackLeak, TypeOK
      <4>2. stacks > 0 /\ stacks \in Nat
        BY <3>2, <4>1, OneLess, Finite
      <4> QED BY <3>1, <4>2 DEF Recycle
    <3>4. generation' \in [Fibers -> 0 .. MaxGen]
      BY <3>1, <3>2, ConstantsAssumption DEF Recycle, TypeOK
    <3>5. DetachFd(zombie) /\ state' \in [Fibers -> States] /\ live' \subseteq Fibers
      BY <3>1 DEF Recycle, TypeOK, States
    <3>6. lpc' \in LoopPc /\ round_end' \in Fibers \cup {NoFiber}
      BY <1>4 DEF Back, AfterRound, TypeOK, LoopPc
    <3>7. /\ reg_fd' \in [Fibers -> Fds \cup {NoFd}]
          /\ fd_owner' \in [Fds -> Fibers \cup {NoFiber}]
          /\ ep' \in [Fds -> [ptr : Fibers \cup {NoFiber}, armed : BOOLEAN]]
      BY <3>1, <3>5, DetachTypes
    <3> QED BY <1>4, <3>3, <3>4, <3>5, <3>6, <3>7 DEF Back, TypeOK
  <2> QED BY <2>1, <2>2
<1>5. CASE Poll
  <2>1. ep' \in [Fds -> [ptr : Fibers \cup {NoFiber}, armed : BOOLEAN]]
    <3>1. PICK batch : ep' = [fd \in Fds |-> IF \E e \in batch : e.src = fd
                                  THEN [ep[fd] EXCEPT !.armed = FALSE] ELSE ep[fd]]
      BY <1>5 DEF Poll
    <3>2. ep \in [Fds -> [ptr : Fibers \cup {NoFiber}, armed : BOOLEAN]]
      BY DEF TypeOK
    <3>3. \A fd \in Fds : [ep[fd] EXCEPT !.armed = FALSE] \in [ptr : Fibers \cup {NoFiber}, armed : BOOLEAN]
      BY <3>2
    <3> QED BY <3>1, <3>2, <3>3
  <2>2. evs' \subseteq [src : Fds \cup {EvFd}, ptr : Fibers \cup {NoFiber}]
    BY <1>5 DEF Poll, Reportable, TypeOK
  <2> QED BY <1>5, <2>1, <2>2 DEF Poll, worldVars, TypeOK, LoopPc
<1>6. ASSUME NEW e \in evs, EventFor(e) PROVE TypeOK'
  <2>1. e.ptr \in Fibers
    BY <1>6 DEF EventFor, IInv, EventInv
  <2>2. CASE state[e.ptr] = "PARKED"
    <3>1. TimerRemove(e.ptr) /\ Resume(e.ptr, "READY") /\ UNCHANGED <<active, current, zombie>>
      BY <1>6, <2>2 DEF EventFor
    <3>2. left' \in [Fibers -> Nat \cup {NoTimer}]
      BY <3>1 DEF TimerRemove, TypeOK
    <3>3. /\ state' \in [Fibers -> States]
          /\ wait_status' \in [Fibers -> Statuses \cup {None}]
          /\ blocked' \in Nat /\ ready' \in Seq(Fibers)
      BY <2>1, <2>2, <3>1, ResumeTypes DEF Statuses
    <3> QED BY <1>6, <3>2, <3>3 DEF EventFor, TypeOK
  <2>3. CASE state[e.ptr] # "PARKED"
    BY <1>6, <2>3 DEF EventFor, TypeOK
  <2> QED BY <2>2, <2>3
<1>7. CASE DrainApply
  <2>1. cmds' \in Seq(Ring!Entry) /\ taken' \in Commands
    BY <1>7, TakeType DEF DrainApply
  <2>2. ApplyCmd(taken') /\ UNCHANGED <<current, zombie>>
    BY <1>7 DEF DrainApply
  <2> QED BY <1>7, <2>1, <2>2, CommandTypes DEF DrainApply, ApplyCmd, TypeOK
<1>8. ASSUME NEW f \in Fibers, FireTimer(f) PROVE TypeOK'
  <2>1. DetachFd(f) /\ left' \in [Fibers -> Nat \cup {NoTimer}]
    BY <1>8 DEF FireTimer, TimerRemove, TypeOK
  <2>2. /\ reg_fd' \in [Fibers -> Fds \cup {NoFd}]
        /\ fd_owner' \in [Fds -> Fibers \cup {NoFiber}]
        /\ ep' \in [Fds -> [ptr : Fibers \cup {NoFiber}, armed : BOOLEAN]]
    BY <2>1, DetachTypes
  <2>3. CASE state[f] = "PARKED"
    <3>1. Resume(f, "TIMEOUT") /\ UNCHANGED <<active, current, zombie>>
      BY <1>8, <2>3 DEF FireTimer
    <3>3. /\ state' \in [Fibers -> States]
          /\ wait_status' \in [Fibers -> Statuses \cup {None}]
          /\ blocked' \in Nat /\ ready' \in Seq(Fibers)
      BY <2>3, <3>1, ResumeTypes DEF Statuses
    <3> QED BY <1>8, <2>1, <2>2, <3>3 DEF FireTimer, TypeOK
  <2>4. CASE state[f] # "PARKED"
    BY <1>8, <2>1, <2>2, <2>4 DEF FireTimer, TypeOK
  <2> QED BY <2>3, <2>4
<1>9. CASE Destroy
  <2>1. stacks' \in Nat
    BY <1>9 DEF Destroy, IInv, NoStackLeak, TypeOK
  <2> QED BY <1>9, <2>1 DEF Destroy, TypeOK, LoopPc
<1>10. ASSUME NEW f \in Fibers, SpawnLocked(f) PROVE TypeOK'
  <2>1. active' \in Nat /\ ready' \in Seq(Fibers)
    BY <1>10, SpawnCounts DEF SpawnLocked, Obtainable
  <2> QED BY <1>10, <2>1 DEF TypeOK, SpawnLocked, Wipe, Enqueue, States, Handles
<1>11. ASSUME NEW f \in Fibers, SpawnNoStack(f) PROVE TypeOK'
  BY <1>11, ConstantsAssumption DEF TypeOK, SpawnNoStack, Obtainable, Wipe
<1>12. ASSUME NEW f \in Fibers, EvYield(f) PROVE TypeOK'
  <2>1. ready' \in Seq(Fibers) /\ state' \in [Fibers -> States]
    BY <1>12 DEF EvYield, Enqueue, States, TypeOK
  <2> QED BY <1>12, <2>1 DEF EvYield, LeaveToLoop, TypeOK, LoopPc
<1>13. ASSUME NEW f \in Fibers, Finish(f) PROVE TypeOK'
  <2>1. zombie = NoFiber /\ current = f
    BY <1>13 DEF Finish, Running
  <2>2. active' \in Nat
    BY <1>13, <2>1, FinishCounts DEF Finish, LeaveToLoop
  <2> QED BY <1>13, <2>2 DEF Finish, LeaveToLoop, TypeOK, LoopPc, States
<1>14. ASSUME NEW f \in Fibers, NEW delay \in Timeouts,
              EvWaitAsync(f, delay) \/ EvSleep(f, delay) \/ \E fd \in Fds : EvWait(f, fd, delay)
       PROVE  TypeOK'
  <2>1. PICK kind \in Parks : ParkCurrent(kind) /\ UNCHANGED <<ready, active, zombie>> /\ current = f
    BY <1>14 DEF EvWaitAsync, EvSleep, EvWait, Parks, Running
  <2>2. /\ state' \in [Fibers -> States]
        /\ park' \in [Fibers -> Parks \cup {None}]
        /\ wait_status' \in [Fibers -> Statuses \cup {None}]
        /\ blocked' \in Nat
        /\ current' = NoFiber /\ lpc' \in LoopPc
    BY <2>1, ParkTypes
  <2>3. left' \in [Fibers -> Nat \cup {NoTimer}]
    <3>1. left' = [left EXCEPT ![f] = delay]
      BY <1>14 DEF EvWaitAsync, EvSleep, EvWait
    <3>2. delay \in Nat \cup {NoTimer}
      BY ConstantsAssumption DEF Timeouts
    <3> QED BY <3>1, <3>2 DEF TypeOK
  <2>4. CASE EvWaitAsync(f, delay) \/ EvSleep(f, delay)
    BY <2>2, <2>3, <2>4 DEF EvWaitAsync, EvSleep, TypeOK
  <2>5. ASSUME NEW fd \in Fds, EvWait(f, fd, delay) PROVE TypeOK'
    <3>1. /\ fd_owner' \in [Fds -> Fibers \cup {NoFiber}]
          /\ ep' \in [Fds -> [ptr : Fibers \cup {NoFiber}, armed : BOOLEAN]]
      BY <2>5, MoveTypes DEF EvWait, TakeOver
    <3>2. /\ reg_fd' \in [Fibers -> Fds \cup {NoFd}]
          /\ wait_fd' \in [Fibers -> Fds \cup {NoFd}]
      BY <2>5 DEF EvWait, TakeOver, TypeOK
    <3> QED BY <2>2, <2>3, <2>5, <3>1, <3>2 DEF EvWait, TypeOK
  <2> QED BY <1>14, <2>4, <2>5
<1>15. ASSUME NEW f \in Fibers, EvWaitAsyncPermit(f) PROVE TypeOK'
  BY <1>15 DEF EvWaitAsyncPermit, TypeOK
<1>16. ASSUME NEW f \in Fibers, NEW c \in Commands, EvCommand(f, c) PROVE TypeOK'
  <2>1. ApplyCmd(c) /\ UNCHANGED <<current, zombie>>
    BY <1>16 DEF EvCommand
  <2>2. woken' \in [Fibers -> BOOLEAN] /\ owed' \in [Fibers -> BOOLEAN]
        /\ cancelled' \in [Fibers -> BOOLEAN] /\ UNCHANGED issued
    BY <1>16, IssueTypes DEF EvCommand
  <2> QED BY <1>16, <2>1, <2>2, CommandTypes DEF EvCommand, ApplyCmd, TypeOK
<1>17. ASSUME NEW f \in Fibers, NEW fd \in Fds, EvWaitBusy(f, fd) PROVE TypeOK'
  <2>1. /\ fd_owner' \in [Fds -> Fibers \cup {NoFiber}]
        /\ ep' \in [Fds -> [ptr : Fibers \cup {NoFiber}, armed : BOOLEAN]]
        /\ reg_fd' \in [Fibers -> Fds \cup {NoFd}]
    BY <1>17, MoveTypes DEF EvWaitBusy, TypeOK
  <2> QED BY <1>17, <2>1 DEF EvWaitBusy, waitFailedVars, TypeOK
<1>18. ASSUME NEW f \in Fibers, NEW fd \in Fds, EvWaitFails(f, fd) PROVE TypeOK'
  <2>1. ep' \in [Fds -> [ptr : Fibers \cup {NoFiber}, armed : BOOLEAN]]
    <3>1. NoEntry \in [ptr : Fibers \cup {NoFiber}, armed : BOOLEAN]
      BY DEF NoEntry
    <3>2. \/ ep' = EpAfterMove(f, fd)
          \/ ep' = [EpAfterMove(f, fd) EXCEPT ![fd] = NoEntry]
      BY <1>18 DEF EvWaitFails
    <3>3. EpAfterMove(f, fd) \in [Fds -> [ptr : Fibers \cup {NoFiber}, armed : BOOLEAN]]
      BY MoveTypes
    <3> QED BY <3>1, <3>2, <3>3
  <2>2. fd_owner' \in [Fds -> Fibers \cup {NoFiber}]
    BY <1>18, MoveTypes DEF EvWaitFails
  <2>3. reg_fd' \in [Fibers -> Fds \cup {NoFd}]
    BY <1>18 DEF EvWaitFails, TypeOK
  <2> QED BY <1>18, <2>1, <2>2, <2>3 DEF EvWaitFails, waitFailedVars, TypeOK
<1>19. ASSUME NEW f \in Fibers, NEW fd \in Fds, EvCloseHeld(f, fd) PROVE TypeOK'
  <2> DEFINE holder == fd_owner[fd]
  <2>1. holder \in Fibers /\ DetachFd(holder)
    BY <1>19 DEF EvCloseHeld, Unpark, TypeOK
  <2>2. /\ reg_fd' \in [Fibers -> Fds \cup {NoFd}]
        /\ fd_owner' \in [Fds -> Fibers \cup {NoFiber}]
        /\ ep' \in [Fds -> [ptr : Fibers \cup {NoFiber}, armed : BOOLEAN]]
    BY <2>1, DetachTypes
  <2>3. open' \in [Fds -> BOOLEAN] /\ io' \in [Fds -> BOOLEAN]
    BY <1>19 DEF EvCloseHeld, CloseFd, TypeOK
  <2>4. CASE WaitsOn(holder, fd)
    <3>1. state[holder] = "PARKED" /\ Resume(holder, "CANCELLED") /\ UNCHANGED <<active, current, zombie>>
      BY <1>19, <2>4 DEF EvCloseHeld, WaitsOn, Unpark
    <3>2. /\ state' \in [Fibers -> States]
          /\ wait_status' \in [Fibers -> Statuses \cup {None}]
          /\ blocked' \in Nat /\ ready' \in Seq(Fibers)
      BY <2>1, <3>1, ResumeTypes DEF Statuses
    <3>3. left' \in [Fibers -> Nat \cup {NoTimer}] /\ cancelled' \in [Fibers -> BOOLEAN]
      BY <1>19, <2>1, <2>4 DEF EvCloseHeld, Unpark, TimerRemove, TypeOK
    <3> QED BY <1>19, <2>2, <2>3, <3>2, <3>3 DEF EvCloseHeld, TypeOK
  <2>5. CASE ~ WaitsOn(holder, fd)
    BY <1>19, <2>2, <2>3, <2>5 DEF EvCloseHeld, TypeOK
  <2> QED BY <2>4, <2>5
<1>20. ASSUME NEW f \in Fibers, NEW fd \in Fds, Close(f, fd) \/ Open(f, fd) \/ DoIO(f, fd) PROVE TypeOK'
  <2>1. ep' \in [Fds -> [ptr : Fibers \cup {NoFiber}, armed : BOOLEAN]]
    <3>1. NoEntry \in [ptr : Fibers \cup {NoFiber}, armed : BOOLEAN]
      BY DEF NoEntry
    <3>2. ep' = ep \/ ep' = [ep EXCEPT ![fd] = NoEntry]
      BY <1>20 DEF Close, Open, DoIO
    <3> QED BY <3>1, <3>2 DEF TypeOK
  <2>2. open' \in [Fds -> BOOLEAN] /\ io' \in [Fds -> BOOLEAN]
    BY <1>20 DEF Close, Open, DoIO, CloseFd, TypeOK
  <2>3. UNCHANGED <<worldVars, loopVars, cmdVars>>
    BY <1>20 DEF Close, Open, DoIO
  <2> QED BY <2>1, <2>2, <2>3 DEF worldVars, TypeOK
<1>21. CASE PostClaim
  <2>1. PICK c \in Commands : Issue(c) /\ Ring!Claim(c)
    BY <1>21 DEF PostClaim
  <2>2. cmds' \in Seq(Ring!Entry) /\ UNCHANGED taken
    BY <2>1 DEF Ring!Claim, Ring!Entry, TypeOK
  <2>3. woken' \in [Fibers -> BOOLEAN] /\ owed' \in [Fibers -> BOOLEAN]
        /\ cancelled' \in [Fibers -> BOOLEAN] /\ UNCHANGED issued
    BY <2>1, IssueTypes
  <2> QED BY <1>21, <2>2, <2>3 DEF PostClaim, TypeOK
<1>22. CASE PostPublish
  <2>1. PICK i \in DOMAIN cmds : Ring!Publish(i)
    BY <1>22 DEF PostPublish
  <2>2. cmds' \in Seq(Ring!Entry) /\ UNCHANGED taken
    BY <2>1, PublishType DEF Ring!Publish
  <2>3. pokes' \in 0 .. Posters
    <3>1. Cardinality(Unpublished) \in Nat \ {0}
      BY <2>1, UnpublishedCount
    <3>2. pokes \in Nat /\ Cardinality(Unpublished) + pokes <= Posters /\ pokes' = pokes + 1
      BY <1>22 DEF PostPublish, IInv, PostInv, TypeOK
    <3> QED BY <3>1, <3>2, ConstantsAssumption
  <2> QED BY <1>22, <2>2, <2>3 DEF PostPublish, worldVars, TypeOK
<1>23. CASE PostPoke
  <2>1. pokes' \in 0 .. Posters
    BY <1>23, ConstantsAssumption DEF PostPoke, TypeOK
  <2> QED BY <1>23, <2>1 DEF PostPoke, worldVars, TypeOK
<1>26. ASSUME NEW fd \in Fds, PeerActs(fd) PROVE TypeOK'
  BY <1>26 DEF PeerActs, worldVars, TypeOK
<1>24. CASE Tick
  BY <1>24 DEF Tick, TypeOK, NoTimer
<1>25. CASE UNCHANGED vars
  BY <1>25 DEF vars, TypeOK
<1> QED
  BY <1>1, <1>2, <1>3, <1>4, <1>5, <1>6, <1>7, <1>8, <1>9, <1>10, <1>11, <1>12, <1>13, <1>14,
     <1>15, <1>16, <1>17, <1>18, <1>19, <1>20, <1>21, <1>22, <1>23, <1>24, <1>25, <1>26
     DEF Next, LoopStep, Spawn, Leaves, Stays, Environment, Timeouts

-----------------------------------------------------------------------------
(* Queue, counters, deadlines and stacks *)

(* What a step does to the fibers' states.  A wait ends in the same way     *)
(* whoever ends it: an event, a deadline, a command or a close ...          *)
Resumed(g) ==
    /\ state[g] = "PARKED"
    /\ \E status \in Statuses : Resume(g, status)
    /\ TimerRemove(g)
    /\ UNCHANGED <<park, wait_fd, active, current, zombie, live, stacks, generation>>

(* ... and most steps leave the states, the queue and the counters alone.   *)
Quiet == UNCHANGED <<state, park, wait_fd, ready, active, blocked, current, zombie>>

(* apply_cmd ends a wait or leaves the states alone. *)
LEMMA CommandKinds ==
    ASSUME NEW c \in Commands, ApplyCmd(c), UNCHANGED <<current, zombie, live, stacks>>
    PROVE  \/ Quiet /\ UNCHANGED <<left, reg_fd, fd_owner, ep>>
           \/ Resumed(c.f) /\ DetachFd(c.f)
BY DEF ApplyCmd, Unpark, KeepPermit, WakeResumes, Resumed, Quiet, Statuses

(* What a step may do to waits: nothing, or one of a few things to one fiber. *)
LEMMA StepKinds ==
    ASSUME IInv, [Next]_vars
    PROVE  \/ Quiet /\ (UNCHANGED left \/ Tick)
           \/ \E g \in Fibers : Resumed(g)
           \/ \E f \in Fibers : SpawnLocked(f) \/ Leaves(f)
           \/ Dispatch
           \/ Back /\ zombie # NoFiber
<1> DEFINE Kind == \/ Quiet /\ (UNCHANGED left \/ Tick)
                   \/ \E g \in Fibers : Resumed(g)
                   \/ \E f \in Fibers : SpawnLocked(f) \/ Leaves(f)
                   \/ Dispatch
                   \/ Back /\ zombie # NoFiber
<1> USE DEF loopVars, cmdVars, fdVars, poolVars, queueVars, fiberVars
<1>1. CASE Run \/ RoundEmpty \/ FireDone \/ PollInterrupted \/ EventsDone \/ DrainClear
           \/ DrainDone \/ PollFails \/ EventForReactor \/ Poll \/ Destroy
  BY <1>1 DEF Run, RoundEmpty, FireDone, PollInterrupted, EventsDone, DrainClear, DrainDone,
              PollFails, EventForReactor, Poll, Destroy, worldVars, Quiet
<1>2. CASE PostClaim \/ PostPublish \/ PostPoke \/ Tick \/ \E fd \in Fds : PeerActs(fd)
  BY <1>2 DEF PostClaim, PostPublish, PostPoke, Tick, PeerActs, worldVars, Quiet
<1>3. ASSUME NEW f \in Fibers, SpawnNoStack(f) \/ EvWaitAsyncPermit(f) PROVE Kind
  BY <1>3 DEF SpawnNoStack, EvWaitAsyncPermit, Quiet
<1>4. ASSUME NEW f \in Fibers, NEW fd \in Fds,
             EvWaitBusy(f, fd) \/ EvWaitFails(f, fd) \/ Close(f, fd) \/ Open(f, fd) \/ DoIO(f, fd)
      PROVE  Kind
  BY <1>4 DEF EvWaitBusy, EvWaitFails, waitFailedVars, Close, Open, DoIO, worldVars, Quiet
<1>5. ASSUME NEW f \in Fibers, NEW fd \in Fds, EvCloseHeld(f, fd) PROVE Kind
  <2>1. fd_owner[fd] \in Fibers
    BY <1>5 DEF EvCloseHeld, IInv, TypeOK
  <2> QED BY <1>5, <2>1 DEF EvCloseHeld, Unpark, WaitsOn, Statuses, Resumed, Quiet
<1>6. ASSUME NEW c \in Commands, ApplyCmd(c), UNCHANGED <<current, zombie, live, stacks>> PROVE Kind
  BY <1>6, CommandKinds DEF Commands
<1>7. ASSUME NEW f \in Fibers, NEW c \in Commands, EvCommand(f, c) PROVE Kind
  BY <1>7, <1>6 DEF EvCommand
<1>8. CASE DrainApply
  <2>1. taken' \in Commands
    BY <1>8, TakeType DEF DrainApply, IInv
  <2> QED BY <1>8, <2>1, <1>6 DEF DrainApply
<1>9. ASSUME NEW e \in evs, EventFor(e) PROVE Kind
  <2>1. e.ptr \in Fibers
    BY <1>9 DEF EventFor, IInv, EventInv
  <2> QED BY <1>9, <2>1 DEF EventFor, Statuses, Resumed, Quiet
<1>10. ASSUME NEW f \in Fibers, FireTimer(f) PROVE Kind
  <2>1. state[f] = "PARKED"
    BY <1>10 DEF FireTimer, Expired, NoTimer, IInv, TimerIsParked
  <2> QED BY <1>10, <2>1 DEF FireTimer, Statuses, Resumed
<1>11. CASE Back
  BY <1>11 DEF Back, Quiet
<1>12. CASE UNCHANGED vars
  BY <1>12 DEF vars, Quiet
<1> QED
  BY <1>1, <1>2, <1>3, <1>4, <1>5, <1>7, <1>8, <1>9, <1>10, <1>11, <1>12
     DEF Next, LoopStep, Spawn, Stays, Environment

(* Every step keeps the queue and the counters in agreement with the states. *)
LEMMA CountsStep == ASSUME IInv, [Next]_vars PROVE Counts'
<1> TypeOK /\ Counts /\ (lpc = "fiber" <=> current # NoFiber) /\ (zombie # NoFiber => lpc = "back")
  BY DEF IInv, Counts, Bookkeeping, Alive, LoopInv
<1>1. CASE Quiet
  BY <1>1 DEF Quiet, Counts, Alive, InState
<1>2. ASSUME NEW g \in Fibers, Resumed(g) PROVE Counts'
  BY <1>2, ResumeCounts DEF Resumed, Resume
<1>3. ASSUME NEW f \in Fibers, SpawnLocked(f) PROVE Counts'
  BY <1>3, SpawnCounts DEF SpawnLocked, Obtainable
<1>4. ASSUME NEW f \in Fibers, EvYield(f) PROVE Counts'
  BY <1>4, YieldCounts DEF EvYield, LeaveToLoop, Running
<1>5. ASSUME NEW f \in Fibers, Finish(f) PROVE Counts'
  BY <1>5, FinishCounts DEF Finish, LeaveToLoop, Running
<1>6. ASSUME NEW f \in Fibers, NEW delay,
             EvWaitAsync(f, delay) \/ EvSleep(f, delay) \/ \E fd \in Fds : EvWait(f, fd, delay)
      PROVE  Counts'
  BY <1>6, ParkCounts DEF EvWaitAsync, EvSleep, EvWait, Running
<1>7. CASE Dispatch
  BY <1>7, DispatchCounts DEF Dispatch, EnterFiber
<1>8. CASE Back /\ zombie # NoFiber
  BY <1>8, RecycleCounts DEF Back, Recycle, queueVars, TypeOK
<1> QED
  BY <1>1, <1>2, <1>3, <1>4, <1>5, <1>6, <1>7, <1>8, StepKinds DEF Leaves

(* Where the loop is, and what it leaves behind *)
LEMMA LoopStepInv == ASSUME IInv, [Next]_vars PROVE LoopInv'
<1> USE DEF loopVars, queueVars, LoopInv
<1> LoopInv /\ evs \in SUBSET [src : Fds \cup {EvFd}, ptr : Fibers \cup {NoFiber}]
    /\ NoFiber \notin Fibers /\ active \in Nat /\ ready \in Seq(Fibers)
  BY ConstantsAssumption DEF IInv, TypeOK
<1>1. CASE Run \/ RoundEmpty \/ FireDone \/ PollInterrupted
  BY <1>1 DEF Run, RoundEmpty, FireDone, PollInterrupted, TopOfLoop, AfterRound, worldVars
<1>2. CASE EventsDone \/ DrainClear \/ DrainDone \/ PollFails \/ EventForReactor \/ Poll \/ Destroy
  BY <1>2 DEF EventsDone, DrainClear, DrainDone, PollFails, EventForReactor, Poll, Destroy, worldVars
<1>3. CASE Dispatch
  <2>1. Head(ready) \in Fibers
    BY <1>3, TailOne DEF Dispatch
  <2> QED BY <1>3, <2>1 DEF Dispatch, EnterFiber
<1>4. CASE Back
  BY <1>4 DEF Back, AfterRound
<1>5. ASSUME NEW e \in evs, EventFor(e) PROVE LoopInv'
  BY <1>5 DEF EventFor
<1>6. CASE DrainApply \/ \E f \in Fibers : FireTimer(f)
  BY <1>6 DEF DrainApply, ApplyCmd, FireTimer
<1>7. CASE PostClaim \/ PostPublish \/ PostPoke \/ Tick \/ \E fd \in Fds : PeerActs(fd)
  BY <1>7 DEF PostClaim, PostPublish, PostPoke, Tick, PeerActs, worldVars
<1>8. CASE Spawn
  BY <1>8 DEF Spawn, SpawnLocked, SpawnNoStack
<1>9. ASSUME NEW f \in Fibers, Leaves(f) PROVE LoopInv'
  BY <1>9 DEF Leaves, EvYield, Finish, EvWaitAsync, EvWait, EvSleep, ParkCurrent, LeaveToLoop, Running
<1>10. ASSUME NEW f \in Fibers, Stays(f) PROVE LoopInv'
  BY <1>10 DEF Stays, EvWaitAsyncPermit, EvCommand, ApplyCmd, EvWaitBusy, EvWaitFails, waitFailedVars,
               EvCloseHeld, Close, Open, DoIO, worldVars
<1>11. CASE UNCHANGED vars
  BY <1>11 DEF vars
<1> QED
  BY <1>1, <1>2, <1>3, <1>4, <1>5, <1>6, <1>7, <1>8, <1>9, <1>10, <1>11
     DEF Next, LoopStep, Environment

(* The loop never polls with nothing that could end the wait. *)
LEMMA PollCanEnd == ASSUME TypeOK, Counts, LoopInv PROVE Bookkeeping
<1>1. ASSUME lpc = "poll", ready = <<>>, ~ (blocked > 0) PROVE FALSE
  <2>1. InState("READY") = {}
    BY <1>1 DEF Counts, Range
  <2>2. InState("RUNNING") = {}
    BY <1>1 DEF Counts, LoopInv
  <2>3. InState("PARKED") = {}
    <3>1. blocked = 0 /\ IsFiniteSet(InState("PARKED"))
      BY <1>1, Finite DEF Counts, TypeOK
    <3> QED BY <3>1, FS_EmptySet DEF Counts
  <2>4. active = 0
    BY <2>1, <2>2, <2>3, FS_EmptySet DEF Counts, Alive
  <2> QED BY <1>1, <2>4 DEF LoopInv
<1> QED BY <1>1 DEF Counts, Bookkeeping, Alive

(* Taking the oldest command, which is published, leaves as many threads    *)
(* between claiming and publishing as there were.                           *)
LEMMA UnpublishedTake ==
    ASSUME TypeOK, Ring!Take
    PROVE  Cardinality(Unpublished') <= Cardinality(Unpublished) /\ Cardinality(Unpublished') \in Nat
<1>1. /\ IsFiniteSet(Unpublished) /\ cmds \in Seq(Ring!Entry)
      /\ cmds # <<>> /\ cmds' = Tail(cmds) /\ Head(cmds).published
  BY FiniteUnpublished DEF TypeOK, Ring!Take
<1>2. \A i \in DOMAIN cmds' : i + 1 \in DOMAIN cmds /\ cmds'[i] = cmds[i + 1] /\ i \in Int
  BY <1>1
<1>3. \A i \in Unpublished' : i + 1 \in Unpublished /\ i \in Int
  BY <1>2 DEF Unpublished
<1> DEFINE shift == [i \in Unpublished' |-> i + 1]
<1>4. shift \in Injection(Unpublished', Unpublished)
  BY <1>3 DEF Injection, IsInjective
<1>5. IsFiniteSet(Unpublished') /\ Cardinality(Unpublished') <= Cardinality(Unpublished)
  <2> HIDE DEF shift
  <2> QED BY <1>1, <1>4, FS_Injection
<1> QED BY <1>5, FS_CardinalityType

(* Only posters and drain_cmds touch the ring. *)
LEMMA CmdsChange ==
    ASSUME [Next]_vars
    PROVE  PostClaim \/ PostPublish \/ PostPoke \/ DrainApply \/ UNCHANGED <<cmds, pokes>>
<1> USE DEF cmdVars
<1>1. CASE LoopStep
  BY <1>1 DEF LoopStep, Run, Dispatch, RoundEmpty, Back, Poll, EventsDone, EventFor, EventForReactor,
              DrainClear, DrainDone, FireTimer, FireDone
<1>2. CASE PollInterrupted \/ PollFails \/ Destroy \/ Spawn
  BY <1>2 DEF PollInterrupted, PollFails, Destroy, Spawn, SpawnLocked, SpawnNoStack
<1>3. ASSUME NEW f \in Fibers, Leaves(f) PROVE UNCHANGED <<cmds, pokes>>
  BY <1>3 DEF Leaves, EvYield, Finish, EvWaitAsync, EvWait, EvSleep
<1>4. ASSUME NEW f \in Fibers, Stays(f) PROVE UNCHANGED <<cmds, pokes>>
  BY <1>4 DEF Stays, EvWaitAsyncPermit, EvCommand, EvWaitBusy, EvWaitFails, waitFailedVars,
               EvCloseHeld, Close, Open, DoIO
<1>5. CASE Environment
  BY <1>5 DEF Environment, Tick, PeerActs
<1>6. CASE UNCHANGED vars
  BY <1>6 DEF vars
<1> QED BY <1>1, <1>2, <1>3, <1>4, <1>5, <1>6 DEF Next

(* A deadline belongs to a parked fiber, a sleeper has one. *)
LEMMA TimerStep == ASSUME IInv, [Next]_vars PROVE TimerIsParked'
<1> USE DEF TimerIsParked
<1> TypeOK /\ TimerIsParked /\ Counts
  BY DEF IInv, Counts, Bookkeeping, Alive
<1>1. CASE Quiet /\ (UNCHANGED left \/ Tick)
  BY <1>1 DEF Quiet, Tick, TypeOK, NoTimer
<1>2. ASSUME NEW g \in Fibers, Resumed(g) PROVE TimerIsParked'
  BY <1>2 DEF Resumed, Resume, Enqueue, TimerRemove, TypeOK
<1>3. ASSUME NEW f \in Fibers, SpawnLocked(f) PROVE TimerIsParked'
  BY <1>3 DEF SpawnLocked, Enqueue, TypeOK
<1>4. ASSUME NEW f \in Fibers, Leaves(f) PROVE TimerIsParked'
  <2>1. current = f /\ state[f] = "RUNNING"
    BY <1>4, ConstantsAssumption
       DEF Leaves, EvYield, Finish, EvWaitAsync, EvWait, EvSleep, Running, Counts, InState
  <2>2. CASE EvYield(f) \/ Finish(f)
    BY <2>1, <2>2 DEF EvYield, Finish, Enqueue, TypeOK
  <2>3. CASE \E delay \in Timeouts : EvWaitAsync(f, delay) \/ \E fd \in Fds : EvWait(f, fd, delay)
    <3>1. PICK delay \in Timeouts, kind \in {"ASYNC", "FD"} :
             /\ left' = [left EXCEPT ![f] = delay]
             /\ state' = [state EXCEPT ![f] = "PARKED"] /\ park' = [park EXCEPT ![f] = kind]
      BY <2>1, <2>3 DEF EvWaitAsync, EvWait, ParkCurrent
    <3> QED BY <3>1 DEF TypeOK
  <2>4. CASE \E delay \in Delays : EvSleep(f, delay)
    BY <2>1, <2>4, ConstantsAssumption DEF EvSleep, ParkCurrent, TypeOK, NoTimer
  <2> QED BY <1>4, <2>2, <2>3, <2>4 DEF Leaves
<1>5. CASE Dispatch
  <2>1. Head(ready) \in Fibers /\ state[Head(ready)] = "READY"
    BY <1>5, TailOne DEF Dispatch, Counts, InState, TypeOK
  <2> QED BY <1>5, <2>1 DEF Dispatch, EnterFiber, TypeOK
<1>6. CASE Back /\ zombie # NoFiber
  <2>1. state[zombie] = "ZOMBIE" /\ zombie \in Fibers
    BY <1>6 DEF Counts, InState
  <2> QED BY <1>6, <2>1 DEF Back, Recycle, TypeOK
<1> QED
  BY <1>1, <1>2, <1>3, <1>4, <1>5, <1>6, StepKinds

(* Every stack handed out belongs to a fiber on the live list. *)
LEMMA StackStep == ASSUME IInv, [Next]_vars PROVE NoStackLeak'
<1> USE DEF NoStackLeak, poolVars
<1> TypeOK /\ NoStackLeak /\ Counts /\ live \in SUBSET Fibers /\ IsFiniteSet(live) /\ Cardinality(live) \in Nat
  BY Finite DEF IInv, TypeOK, Counts, Bookkeeping, Alive
<1>1. CASE Destroy
  BY <1>1, FS_EmptySet DEF Destroy
<1>2. ASSUME NEW f \in Fibers, Spawn, SpawnLocked(f) PROVE NoStackLeak'
  <2>1. f \notin live /\ lpc # "gone"
    BY <1>2 DEF Spawn, SpawnLocked, Obtainable
  <2>2. stacks' = Cardinality(live')
    BY <1>2, <2>1, OneMore DEF SpawnLocked
  <2>3. live' = {g \in Fibers : state'[g] # "FREE"}
    BY <1>2, <2>1 DEF SpawnLocked, Enqueue, TypeOK
  <2> QED BY <2>2, <2>3
<1>3. CASE Back /\ zombie # NoFiber
  <2>1. state[zombie] = "ZOMBIE" /\ zombie \in Fibers
    BY <1>3 DEF Counts, InState
  <2>2. zombie \in live
    BY <1>3, <2>1 DEF Back
  <2>3. stacks' = Cardinality(live')
    BY <1>3, <2>2, OneLess DEF Back, Recycle
  <2>4. live' = {g \in Fibers : state'[g] # "FREE"}
    BY <1>3, <2>1 DEF Back, Recycle, TypeOK
  <2> QED BY <2>3, <2>4
<1>4. ASSUME UNCHANGED <<live, stacks>>, lpc' # "gone" => lpc # "gone",
             {g \in Fibers : state'[g] # "FREE"} = {g \in Fibers : state[g] # "FREE"}
      PROVE  NoStackLeak'
  BY <1>4
<1>5. ASSUME NEW g \in Fibers, Resumed(g)
      PROVE  {x \in Fibers : state'[x] # "FREE"} = {x \in Fibers : state[x] # "FREE"}
  BY <1>5 DEF Resumed, Resume, Enqueue, TypeOK
<1>6. ASSUME NEW f \in Fibers, Leaves(f) PROVE NoStackLeak'
  <2>1. current = f /\ state[f] = "RUNNING" /\ lpc = "fiber"
    BY <1>6, ConstantsAssumption
       DEF Leaves, EvYield, Finish, EvWaitAsync, EvWait, EvSleep, Running, Counts, InState
  <2>2. \E st \in States \ {"FREE"} : state' = [state EXCEPT ![f] = st]
    BY <1>6, <2>1 DEF Leaves, EvYield, Finish, EvWaitAsync, EvWait, EvSleep, ParkCurrent, Enqueue, States
  <2>3. UNCHANGED <<live, stacks>>
    BY <1>6 DEF Leaves, EvYield, Finish, EvWaitAsync, EvWait, EvSleep
  <2>4. {x \in Fibers : state'[x] # "FREE"} = {x \in Fibers : state[x] # "FREE"}
    BY <2>1, <2>2 DEF TypeOK
  <2> QED BY <1>4, <2>1, <2>3, <2>4
<1>7. CASE Dispatch
  <2>1. Head(ready) \in Fibers /\ state[Head(ready)] = "READY"
    BY <1>7, TailOne DEF Dispatch, Counts, InState, TypeOK
  <2>2. {x \in Fibers : state'[x] # "FREE"} = {x \in Fibers : state[x] # "FREE"}
    BY <1>7, <2>1 DEF Dispatch, EnterFiber, TypeOK
  <2> QED BY <1>4, <1>7, <2>2 DEF Dispatch, EnterFiber
<1>8. Destroy \/ Spawn \/ (\E f \in Fibers : Leaves(f)) \/ Dispatch \/ (Back /\ zombie # NoFiber)
      \/ (UNCHANGED <<live, stacks>> /\ (lpc' # "gone" => lpc # "gone"))
  <2> USE DEF loopVars, worldVars
  <2>1. CASE Run \/ RoundEmpty \/ FireDone \/ PollInterrupted \/ EventsDone \/ DrainClear
           \/ DrainDone \/ PollFails \/ EventForReactor \/ Poll
    BY <2>1 DEF Run, RoundEmpty, FireDone, PollInterrupted, EventsDone, DrainClear, DrainDone,
              PollFails, EventForReactor, Poll
  <2>2. CASE DrainApply \/ Back \/ (\E e \in evs : EventFor(e)) \/ \E f \in Fibers : FireTimer(f)
    BY <2>2 DEF DrainApply, Back, EventFor, FireTimer
  <2>3. CASE Environment
    BY <2>3 DEF Environment, PostClaim, PostPublish, PostPoke, Tick, PeerActs
  <2>4. ASSUME NEW f \in Fibers, Stays(f) PROVE UNCHANGED <<live, stacks, lpc>>
    BY <2>4 DEF Stays, EvWaitAsyncPermit, EvCommand, EvWaitBusy, EvWaitFails, waitFailedVars,
               EvCloseHeld, Close, Open, DoIO
  <2>5. CASE UNCHANGED vars
    BY <2>5 DEF vars
  <2> QED BY <2>1, <2>2, <2>3, <2>4, <2>5 DEF Next, LoopStep
<1>9. CASE Spawn
  <2>1. ASSUME NEW f \in Fibers, SpawnNoStack(f) PROVE NoStackLeak'
    BY <2>1 DEF SpawnNoStack, loopVars
  <2> QED BY <1>2, <1>9, <2>1 DEF Spawn
<1>10. CASE UNCHANGED <<live, stacks>> /\ (lpc' # "gone" => lpc # "gone")
  <2>1. CASE Quiet
    BY <1>10, <2>1 DEF Quiet
  <2>2. ASSUME NEW g \in Fibers, Resumed(g) PROVE NoStackLeak'
    BY <1>10, <2>2, <1>4, <1>5
  <2>3. ASSUME NEW f \in Fibers, SpawnLocked(f) PROVE NoStackLeak'
    <3>1. f \in live'
      BY <2>3 DEF SpawnLocked
    <3>2. live' = {g \in Fibers : state[g] # "FREE"} \/ lpc = "gone"
      BY <1>10
    <3> QED BY <2>3, <3>1, <3>2, <1>10 DEF SpawnLocked, Obtainable, loopVars
  <2> QED BY <2>1, <2>2, <2>3, <1>6, <1>7, <1>3, StepKinds
<1> QED BY <1>1, <1>3, <1>6, <1>7, <1>8, <1>9, <1>10

(* At most Posters threads are inside post_cmd. *)
LEMMA PostStep == ASSUME IInv, [Next]_vars PROVE PostInv'
<1> USE DEF PostInv
<1> TypeOK /\ PostInv /\ pokes \in Nat /\ Posters \in Nat
  BY ConstantsAssumption DEF IInv, TypeOK
<1>0. IsFiniteSet(Unpublished) /\ Cardinality(Unpublished) \in Nat
  BY FiniteUnpublished DEF TypeOK
<1>1. CASE PostClaim
  <2>1. PICK c \in Commands : cmds' = Append(cmds, [cmd |-> c, published |-> FALSE])
    BY <1>1 DEF PostClaim, Ring!Claim
  <2>2. Unpublished' = Unpublished \cup {Len(cmds) + 1} /\ Len(cmds) + 1 \notin Unpublished
    BY <2>1 DEF Unpublished, TypeOK
  <2>3. Cardinality(Unpublished') = Cardinality(Unpublished) + 1
    BY <1>0, <2>2, FS_AddElement
  <2> QED BY <1>0, <1>1, <2>3 DEF PostClaim
<1>2. CASE PostPublish
  <2>1. PICK i \in DOMAIN cmds : Ring!Publish(i)
    BY <1>2 DEF PostPublish
  <2> QED BY <1>0, <1>2, <2>1, UnpublishedCount DEF PostPublish
<1>3. CASE PostPoke
  BY <1>0, <1>3 DEF PostPoke, Unpublished
<1>4. CASE DrainApply
  <2>1. Ring!Take /\ UNCHANGED pokes
    BY <1>4 DEF DrainApply
  <2>2. Cardinality(Unpublished') <= Cardinality(Unpublished) /\ Cardinality(Unpublished') \in Nat
    BY <2>1, UnpublishedTake
  <2> QED BY <1>0, <2>1, <2>2
<1>5. CASE UNCHANGED <<cmds, pokes>>
  BY <1>5 DEF Unpublished
<1> QED BY <1>1, <1>2, <1>3, <1>4, <1>5, CmdsChange

-----------------------------------------------------------------------------
(* Rounds *)

(* The fiber that ends the round stays ahead, or is the one entered. *)
LEMMA RoundStep == ASSUME IInv, [Next]_vars PROVE RoundHasEnd'
<1> USE DEF RoundHasEnd, loopVars, queueVars
<1> TypeOK /\ RoundHasEnd /\ ready \in Seq(Fibers)
  BY DEF IInv, TypeOK
<1>0. \A g \in Fibers : Range(ready) \subseteq Range(Append(ready, g))
  BY AppendOne
<1>1. CASE Run \/ FireDone \/ PollInterrupted
  <2>1. ready # <<>> => ready[Len(ready)] \in Range(ready)
    <3>1. ready # <<>> => Len(ready) \in DOMAIN ready
      OBVIOUS
    <3> QED BY <3>1 DEF Range
  <2> QED BY <1>1, <2>1 DEF Run, FireDone, PollInterrupted, TopOfLoop, ReadyTail, worldVars
<1>2. CASE RoundEmpty \/ EventsDone \/ DrainClear \/ DrainDone \/ PollFails \/ EventForReactor \/ Poll \/ Destroy
  BY <1>2 DEF RoundEmpty, EventsDone, DrainClear, DrainDone, PollFails, EventForReactor, Poll, Destroy, AfterRound
<1>3. CASE Dispatch
  <2>1. Range(ready) = Range(ready') \cup {Head(ready)}
    BY <1>3, TailOne DEF Dispatch, Dequeue
  <2> QED BY <1>3, <2>1 DEF Dispatch, EnterFiber
<1>4. CASE Back
  BY <1>4 DEF Back, AfterRound, RoundOver
<1>5. CASE DrainApply \/ (\E e \in evs : EventFor(e)) \/ \E f \in Fibers : FireTimer(f)
  BY <1>5 DEF DrainApply, EventFor, FireTimer
<1>6. CASE Environment
  BY <1>6 DEF Environment, PostClaim, PostPublish, PostPoke, Tick, PeerActs, worldVars
<1>7. ASSUME NEW f \in Fibers, Spawn, SpawnLocked(f) PROVE RoundHasEnd'
  <2>1. Range(ready) \subseteq Range(ready')
    BY <1>7, AppendOne DEF SpawnLocked, Enqueue
  <2> QED BY <1>7, <2>1 DEF Spawn, SpawnLocked
<1>8. ASSUME NEW f \in Fibers, SpawnNoStack(f) PROVE RoundHasEnd'
  BY <1>8 DEF SpawnNoStack
<1>9. ASSUME NEW f \in Fibers, Leaves(f) PROVE RoundHasEnd'
  <2>1. lpc = "fiber" /\ lpc' = "back" /\ UNCHANGED <<entered, round_end>>
    BY <1>9 DEF Leaves, EvYield, Finish, EvWaitAsync, EvWait, EvSleep, ParkCurrent, LeaveToLoop, Running
  <2>2. ready' \in {ready, Append(ready, f)}
    BY <1>9 DEF Leaves, EvYield, Enqueue, Finish, EvWaitAsync, EvWait, EvSleep
  <2>3. Range(ready) \subseteq Range(ready')
    BY <1>0, <2>2
  <2> QED BY <2>1, <2>3
<1>10. ASSUME NEW f \in Fibers, Stays(f) PROVE RoundHasEnd'
  <2>1. lpc = "fiber" /\ UNCHANGED <<lpc, entered, round_end>>
    BY <1>10 DEF Stays, EvWaitAsyncPermit, EvCommand, EvWaitBusy, EvWaitFails, waitFailedVars,
               EvCloseHeld, Close, Open, DoIO, Running
  <2>2. ready' = ready \/ \E g \in Fibers : ready' = Append(ready, g)
    <3>1. ASSUME NEW c \in Commands, EvCommand(f, c)
          PROVE  ready' = ready \/ ready' = Append(ready, c.f)
      BY <3>1 DEF EvCommand, ApplyCmd, Unpark, Resume, Enqueue, KeepPermit
    <3>2. ASSUME NEW fd \in Fds, EvCloseHeld(f, fd)
          PROVE  (ready' = ready \/ ready' = Append(ready, fd_owner[fd])) /\ fd_owner[fd] \in Fibers
      BY <3>2 DEF EvCloseHeld, Unpark, Resume, Enqueue, TypeOK
    <3> QED BY <1>10, <3>1, <3>2
       DEF Stays, EvWaitAsyncPermit, EvWaitBusy, EvWaitFails, waitFailedVars, Close, Open, DoIO,
           worldVars, Commands
  <2>3. Range(ready) \subseteq Range(ready')
    BY <1>0, <2>2
  <2> QED BY <2>1, <2>3
<1>11. CASE UNCHANGED vars
  BY <1>11 DEF vars
<1> QED
  BY <1>1, <1>2, <1>3, <1>4, <1>5, <1>6, <1>7, <1>8, <1>9, <1>10, <1>11 DEF Next, LoopStep, Spawn

-----------------------------------------------------------------------------
(* Registrations *)

(* The part of the invariant that is about registrations *)
RegInv == OwnerMap /\ ArmedIsWaiter /\ WaiterIsArmed /\ WaitInv /\ EventInv

(* A wait that can be reported is on an open descriptor its fiber owns. *)
LEMMA ArmedFacts ==
    ASSUME TypeOK, RegInv
    PROVE  /\ \A fd \in Fds : ep[fd].armed =>
                /\ open[fd] /\ ep[fd].ptr \in Fibers /\ state[ep[fd].ptr] = "PARKED"
                /\ wait_fd[ep[fd].ptr] = fd /\ fd_owner[fd] = ep[fd].ptr /\ reg_fd[ep[fd].ptr] = fd
           /\ \A h \in Fibers : (state[h] = "PARKED" /\ park[h] = "FD") =>
                wait_fd[h] \in Fds /\ fd_owner[wait_fd[h]] = h /\ reg_fd[h] = wait_fd[h]
<1>1. ASSUME NEW fd \in Fds, ep[fd].armed
      PROVE  /\ open[fd] /\ ep[fd].ptr \in Fibers /\ state[ep[fd].ptr] = "PARKED"
             /\ wait_fd[ep[fd].ptr] = fd /\ fd_owner[fd] = ep[fd].ptr /\ reg_fd[ep[fd].ptr] = fd
  <2>1. /\ ep[fd].ptr \in Fibers /\ state[ep[fd].ptr] = "PARKED" /\ park[ep[fd].ptr] = "FD"
        /\ wait_fd[ep[fd].ptr] = fd /\ fd_owner[fd] = ep[fd].ptr
    BY <1>1 DEF RegInv, ArmedIsWaiter, WaitsOn
  <2> QED BY <2>1 DEF RegInv, OwnerMap, WaiterIsArmed
<1>2. ASSUME NEW h \in Fibers, state[h] = "PARKED", park[h] = "FD"
      PROVE  wait_fd[h] \in Fds /\ fd_owner[wait_fd[h]] = h /\ reg_fd[h] = wait_fd[h]
  BY <1>2 DEF RegInv, OwnerMap, WaiterIsArmed, WaitInv
<1> QED BY <1>1, <1>2

(* detach_fd of a fiber that is not left parked on a descriptor, possibly   *)
(* of one that has just been closed                                         *)
LEMMA DetachReg ==
    ASSUME TypeOK, TypeOK', RegInv, NEW g \in Fibers, DetachFd(g), UNCHANGED <<park, wait_fd, evs>>,
           \A h \in Fibers \ {g} : state'[h] = state[h],
           \/ state'[g] # "PARKED" /\ (state'[g] = "RUNNING" => state[g] = "RUNNING")
           \/ state'[g] = state[g] /\ (state[g] = "PARKED" => park[g] # "FD"),
           \A fd \in Fds : open'[fd] = open[fd] \/ fd_owner[fd] = g
    PROVE  RegInv'
<1>1. \A fd \in Fds : fd = reg_fd[g] <=> fd_owner[fd] = g
  BY DEF RegInv, OwnerMap
<1>2. /\ reg_fd' = [reg_fd EXCEPT ![g] = NoFd]
      /\ \A fd \in Fds : fd_owner'[fd] = IF fd_owner[fd] = g THEN NoFiber ELSE fd_owner[fd]
      /\ \A fd \in Fds : ep'[fd] = IF fd_owner[fd] = g /\ open[fd] THEN NoEntry ELSE ep[fd]
  BY <1>1 DEF DetachFd
<1>3. OwnerMap'
  BY <1>1, <1>2, ConstantsAssumption DEF RegInv, OwnerMap, TypeOK
<1>4. \A fd \in Fds : ep'[fd].armed => ep'[fd] = ep[fd] /\ ep[fd].ptr # g
  BY <1>2, ArmedFacts DEF NoEntry
<1>5. ArmedIsWaiter'
  BY <1>2, <1>4 DEF RegInv, ArmedIsWaiter, WaitsOn
<1>6. WaiterIsArmed'
  BY <1>2, ArmedFacts DEF RegInv, WaiterIsArmed
<1>7. WaitInv'
  BY <1>2 DEF RegInv, WaitInv, TypeOK
<1>8. EventInv'
  BY <1>4 DEF RegInv, EventInv
<1> QED BY <1>3, <1>5, <1>6, <1>7, <1>8 DEF RegInv

(* A fiber other than a parked one changes its state, the registrations     *)
(* stay: spawn, dispatch, yield, return, sleep and wait for a wake.         *)
LEMMA StateReg ==
    ASSUME TypeOK, TypeOK', RegInv, NEW f \in Fibers, UNCHANGED <<reg_fd, fd_owner, ep, open, evs>>,
           \A h \in Fibers \ {f} :
              state'[h] = state[h] /\ park'[h] = park[h] /\ wait_fd'[h] = wait_fd[h],
           state[f] # "PARKED", state'[f] # "FREE",
           state'[f] \in {"RUNNING", "PARKED"} => wait_fd'[f] = NoFd,
           state'[f] = "PARKED" => park'[f] \in {"TIMER", "ASYNC"} /\ evs = {}
    PROVE  RegInv'
<1>1. OwnerMap'
  BY DEF RegInv, OwnerMap
<1>2. ArmedIsWaiter'
  BY DEF RegInv, ArmedIsWaiter, WaitsOn
<1>3. WaiterIsArmed'
  BY DEF RegInv, WaiterIsArmed
<1>4. WaitInv'
  BY DEF RegInv, WaitInv, Parks
<1>5. EventInv'
  BY DEF RegInv, EventInv
<1> QED BY <1>1, <1>2, <1>3, <1>4, <1>5 DEF RegInv

(* An event is processed: the wait it is for ends, unless it has ended. *)
LEMMA EventReg ==
    ASSUME TypeOK, TypeOK', RegInv, NEW e \in evs, EventFor(e)
    PROVE  RegInv'
<1>1. e.src # EvFd /\ e.src \in Fds /\ e.ptr \in Fibers /\ ~ ep[e.src].armed /\ evs' = evs \ {e}
  BY DEF EventFor, RegInv, EventInv
<1>2. UNCHANGED <<park, reg_fd, wait_fd, fd_owner, ep, open>>
  BY DEF EventFor, fdVars
<1>3. \A h \in Fibers : state'[h] = IF h = e.ptr /\ state[h] = "PARKED" THEN "READY" ELSE state[h]
  BY <1>1 DEF EventFor, Resume, Enqueue, TypeOK
<1>4. OwnerMap'
  BY <1>2, <1>3 DEF RegInv, OwnerMap
<1>5. ArmedIsWaiter'
  BY <1>1, <1>2, <1>3 DEF RegInv, ArmedIsWaiter, EventInv, WaitsOn
<1>6. WaiterIsArmed'
  BY <1>1, <1>2, <1>3 DEF RegInv, WaiterIsArmed
<1>7. WaitInv'
  BY <1>2, <1>3 DEF RegInv, WaitInv
<1>8. EventInv'
  BY <1>1, <1>2, <1>3 DEF RegInv, EventInv
<1> QED BY <1>4, <1>5, <1>6, <1>7, <1>8 DEF RegInv

(* epoll_wait reports what is armed, and disarms what it reports. *)
LEMMA PollReg ==
    ASSUME TypeOK, TypeOK', RegInv, evs = {}, Poll
    PROVE  RegInv'
<1>1. PICK batch \in SUBSET Reportable :
        /\ evs' = batch
        /\ ep' = [fd \in Fds |-> IF \E e \in batch : e.src = fd
                                 THEN [ep[fd] EXCEPT !.armed = FALSE] ELSE ep[fd]]
  BY DEF Poll
<1>2. UNCHANGED <<state, park, reg_fd, wait_fd, fd_owner, open>>
  BY DEF Poll, worldVars, fiberVars, fdVars
<1>3. \A e \in batch : e.src # EvFd =>
         e.src \in Fds /\ ep[e.src].armed /\ e = [src |-> e.src, ptr |-> ep[e.src].ptr]
  BY DEF Reportable
<1>4. \A fd \in Fds : /\ ep'[fd].armed => ep'[fd] = ep[fd]
                      /\ ep'[fd] = ep[fd] \/ \E e \in batch : e.src = fd
                      /\ (\E e \in batch : e.src = fd) => ~ ep'[fd].armed
  BY <1>1 DEF TypeOK
<1>5. OwnerMap'
  BY <1>2 DEF RegInv, OwnerMap
<1>6. ArmedIsWaiter'
  BY <1>2, <1>4 DEF RegInv, ArmedIsWaiter, WaitsOn
<1>7. WaiterIsArmed'
  <2> SUFFICES ASSUME NEW h \in Fibers, state[h] = "PARKED", park[h] = "FD", NEW fd, fd = wait_fd[h]
               PROVE  /\ fd \in Fds /\ open[fd]
                      /\ ep'[fd] = [ptr |-> h, armed |-> TRUE] \/ [src |-> fd, ptr |-> h] \in evs'
    BY <1>2 DEF WaiterIsArmed
  <2>1. fd \in Fds /\ open[fd] /\ ep[fd] = [ptr |-> h, armed |-> TRUE]
    BY DEF RegInv, WaiterIsArmed
  <2>2. ASSUME NEW e \in batch, e.src = fd PROVE e = [src |-> fd, ptr |-> h]
    <3>1. e.src # EvFd
      BY <2>1, <2>2, ConstantsAssumption
    <3> QED BY <1>3, <2>1, <2>2, <3>1
  <2> QED BY <1>1, <1>4, <2>1, <2>2
<1>8. WaitInv'
  BY <1>2 DEF RegInv, WaitInv
<1>9. EventInv'
  <2> SUFFICES ASSUME NEW e \in batch, e.src # EvFd
               PROVE  /\ e.src \in Fds /\ e.ptr \in Fibers /\ ~ ep'[e.src].armed
                      /\ state[e.ptr] = "PARKED" => park[e.ptr] = "FD" /\ wait_fd[e.ptr] = e.src
    BY <1>1, <1>2 DEF EventInv
  <2>1. e.src \in Fds /\ ep[e.src].armed /\ e.ptr = ep[e.src].ptr
    BY <1>3
  <2> QED BY <1>4, <2>1 DEF RegInv, ArmedIsWaiter, WaitsOn
<1> QED BY <1>5, <1>6, <1>7, <1>8, <1>9 DEF RegInv

(* close and open of a descriptor nobody waits on *)
LEMMA CloseReg ==
    ASSUME TypeOK, TypeOK', RegInv, evs = {}, NEW fd \in Fds,
           UNCHANGED <<state, park, reg_fd, wait_fd, fd_owner, evs>>,
           ep' \in {ep, [ep EXCEPT ![fd] = NoEntry]},
           \A x \in Fds \ {fd} : open'[x] = open[x],
           \A g \in Fibers : state[g] = "PARKED" /\ park[g] = "FD" => wait_fd[g] # fd
    PROVE  RegInv'
<1>1. \A x \in Fds : ep'[x] = ep[x] \/ (x = fd /\ ep'[x] = NoEntry)
  BY DEF TypeOK
<1>2. OwnerMap'
  BY DEF RegInv, OwnerMap
<1>3. ArmedIsWaiter'
  BY <1>1 DEF RegInv, ArmedIsWaiter, WaitsOn, NoEntry
<1>4. WaiterIsArmed'
  BY <1>1 DEF RegInv, WaiterIsArmed
<1>5. WaitInv' /\ EventInv'
  BY DEF RegInv, WaitInv, EventInv
<1> QED BY <1>2, <1>3, <1>4, <1>5 DEF RegInv

(* The map once arm_fd has dropped what f held and what the last owner of   *)
(* fd, who does not wait on it, held                                        *)
LEMMA MoveReg ==
    ASSUME TypeOK, RegInv, NEW f \in Fibers, state[f] = "RUNNING", NEW fd \in Fds, ~ HeldByWaiter(f, fd)
    PROVE  /\ ~ ep[fd].armed
           /\ \A h \in Fibers : state[h] = "PARKED" /\ park[h] = "FD" =>
                wait_fd[h] # fd /\ wait_fd[h] # reg_fd[f]
           /\ \A x \in Fds : x # fd /\ EpAfterMove(f, fd)[x].armed => EpAfterMove(f, fd)[x] = ep[x]
           /\ \A x \in Fds : x # fd /\ x # reg_fd[f] => EpAfterMove(f, fd)[x] = ep[x]
           /\ \A x \in Fds : x # fd =>
                OwnerAfterMove(f, fd)[x] = IF fd_owner[x] = f THEN NoFiber ELSE fd_owner[x]
           /\ EpAfterMove(f, fd)[fd] = ep[fd]
<1>1. ~ ep[fd].armed
  BY ArmedFacts, ConstantsAssumption DEF HeldByWaiter, WaitsOn
<1>2. ASSUME NEW h \in Fibers, state[h] = "PARKED", park[h] = "FD" PROVE wait_fd[h] # fd /\ wait_fd[h] # reg_fd[f]
  <2>1. wait_fd[h] \in Fds /\ fd_owner[wait_fd[h]] = h /\ h # f
    BY <1>2, ArmedFacts
  <2>2. wait_fd[h] # fd
    BY <1>2, <2>1, ConstantsAssumption DEF HeldByWaiter, WaitsOn
  <2>3. wait_fd[h] # reg_fd[f]
    BY <2>1 DEF RegInv, OwnerMap
  <2> QED BY <2>2, <2>3
<1>3. \A x \in Fds : x # fd => /\ EpAfterMove(f, fd)[x].armed => EpAfterMove(f, fd)[x] = ep[x]
                               /\ x # reg_fd[f] => EpAfterMove(f, fd)[x] = ep[x]
  BY DEF EpAfterMove, Abandons, NoEntry
<1>4. \A x \in Fds : x # fd =>
         OwnerAfterMove(f, fd)[x] = IF fd_owner[x] = f THEN NoFiber ELSE fd_owner[x]
  BY DEF OwnerAfterMove, Abandons, RegInv, OwnerMap
<1>5. EpAfterMove(f, fd)[fd] = ep[fd]
  BY DEF EpAfterMove, Abandons
<1> QED BY <1>1, <1>2, <1>3, <1>4, <1>5

(* cfiber_ev_wait fails: f and the last owner of fd hold nothing *)
LEMMA FailReg ==
    ASSUME TypeOK, TypeOK', RegInv, evs = {}, NEW f \in Fibers, state[f] = "RUNNING",
           NEW fd \in Fds, EvWaitFails(f, fd)
    PROVE  RegInv'
<1> ~ HeldByWaiter(f, fd) /\ UNCHANGED <<state, park, wait_fd, open, evs>>
  BY DEF EvWaitFails, waitFailedVars, loopVars, fdVars
<1>1. \A x \in Fds : fd_owner'[x] = IF x = fd \/ fd_owner[x] = f THEN NoFiber ELSE fd_owner[x]
  BY MoveReg, MoveTypes DEF EvWaitFails
<1>2. \A g \in Fibers : reg_fd'[g] = IF g = f \/ g = fd_owner[fd] THEN NoFd ELSE reg_fd[g]
  BY DEF EvWaitFails
<1>3. \A x \in Fds : /\ ep'[x].armed => ep'[x] = ep[x] /\ x # fd
                     /\ x # fd /\ x # reg_fd[f] => ep'[x] = ep[x]
  <2>1. \A x \in Fds : x # fd => ep'[x] = EpAfterMove(f, fd)[x]
    BY MoveTypes DEF EvWaitFails
  <2>2. ep'[fd] = ep[fd] \/ ep'[fd] = NoEntry
    BY MoveTypes, MoveReg DEF EvWaitFails
  <2> QED BY <2>1, <2>2, MoveReg DEF NoEntry
<1>4. OwnerMap'
  <2>1. \A g \in Fibers, x \in Fds : (fd_owner[x] = g <=> reg_fd[g] = x) /\ g # NoFiber /\ x # NoFd
                                     /\ (reg_fd[g] = x => state[g] # "FREE")
    BY ConstantsAssumption DEF RegInv, OwnerMap
  <2>2. ASSUME NEW g \in Fibers, NEW x \in Fds PROVE fd_owner'[x] = g <=> reg_fd'[g] = x
    BY <1>1, <1>2, <2>1
  <2> QED BY <1>2, <2>1, <2>2 DEF OwnerMap
<1>5. ArmedIsWaiter'
  <2> SUFFICES ASSUME NEW x \in Fds, ep[x].armed, x # fd
               PROVE  ep[x].ptr \in Fibers /\ WaitsOn(ep[x].ptr, x) /\ park[ep[x].ptr] = "FD"
                      /\ fd_owner'[x] = ep[x].ptr
    BY <1>3 DEF ArmedIsWaiter, WaitsOn
  <2>1. ep[x].ptr \in Fibers /\ WaitsOn(ep[x].ptr, x) /\ park[ep[x].ptr] = "FD" /\ fd_owner[x] = ep[x].ptr
    BY DEF RegInv, ArmedIsWaiter
  <2> QED BY <1>1, <2>1 DEF WaitsOn
<1>6. WaiterIsArmed'
  BY <1>3, MoveReg DEF RegInv, WaiterIsArmed
<1>7. WaitInv'
  <2>1. ASSUME NEW h \in Fibers, state[h] = "PARKED", park[h] = "FD" PROVE reg_fd'[h] = reg_fd[h]
    BY <1>2, <2>1, MoveReg, ArmedFacts DEF RegInv, OwnerMap
  <2> QED BY <2>1 DEF RegInv, WaitInv
<1>8. EventInv'
  BY DEF EventInv
<1> QED BY <1>4, <1>5, <1>6, <1>7, <1>8 DEF RegInv

(* cfiber_ev_wait parks: fd is f's, and armed for it *)
LEMMA WaitReg ==
    ASSUME TypeOK, TypeOK', RegInv, evs = {}, NEW f \in Fibers, state[f] = "RUNNING",
           NEW fd \in Fds, NEW delay, EvWait(f, fd, delay)
    PROVE  RegInv'
<1> ~ HeldByWaiter(f, fd) /\ UNCHANGED <<open, evs>> /\ open[fd]
  BY DEF EvWait, fdVars, Taken, Fits
<1>0. /\ state' = [state EXCEPT ![f] = "PARKED"] /\ park' = [park EXCEPT ![f] = "FD"]
      /\ wait_fd' = [wait_fd EXCEPT ![f] = fd]
  BY DEF EvWait, ParkCurrent, Running
<1>1. \A x \in Fds : fd_owner'[x] = IF x = fd THEN f ELSE IF fd_owner[x] = f THEN NoFiber ELSE fd_owner[x]
  BY MoveReg, MoveTypes DEF EvWait, TakeOver
<1>2. \A g \in Fibers : reg_fd'[g] = IF g = f THEN fd ELSE IF g = fd_owner[fd] THEN NoFd ELSE reg_fd[g]
  BY DEF EvWait, TakeOver
<1>3. /\ ep'[fd] = [ptr |-> f, armed |-> TRUE]
      /\ \A x \in Fds \ {fd} : /\ ep'[x].armed => ep'[x] = ep[x]
                               /\ x # reg_fd[f] => ep'[x] = ep[x]
  <2>1. /\ ep'[fd] = [ptr |-> f, armed |-> TRUE]
        /\ \A x \in Fds : x # fd => ep'[x] = EpAfterMove(f, fd)[x]
    BY MoveTypes DEF EvWait, TakeOver, ArmedFor
  <2> QED BY <2>1, MoveReg
<1>4. OwnerMap'
  <2>1. \A g \in Fibers : state'[g] = IF g = f THEN "PARKED" ELSE state[g]
    BY <1>0 DEF TypeOK
  <2>2. \A g \in Fibers, x \in Fds : (fd_owner[x] = g <=> reg_fd[g] = x) /\ g # NoFiber /\ x # NoFd
                                     /\ (reg_fd[g] = x => state[g] # "FREE")
    BY ConstantsAssumption DEF RegInv, OwnerMap
  <2>3. ASSUME NEW g \in Fibers, NEW x \in Fds PROVE fd_owner'[x] = g <=> reg_fd'[g] = x
    <3>1. CASE g = f
      BY <1>1, <1>2, <2>2, <3>1
    <3>2. CASE g # f
      BY <1>1, <1>2, <2>2, <3>2
    <3> QED BY <3>1, <3>2
  <2> QED BY <1>2, <2>1, <2>2, <2>3 DEF OwnerMap
<1>5. ArmedIsWaiter'
  <2> SUFFICES ASSUME NEW x \in Fds, ep'[x].armed
               PROVE  /\ ep'[x].ptr \in Fibers /\ state'[ep'[x].ptr] = "PARKED"
                      /\ wait_fd'[ep'[x].ptr] = x /\ park'[ep'[x].ptr] = "FD"
                      /\ fd_owner'[x] = ep'[x].ptr
    BY DEF ArmedIsWaiter, WaitsOn
  <2>1. CASE x = fd
    BY <1>0, <1>1, <1>3, <2>1 DEF TypeOK
  <2>2. CASE x # fd
    <3>1. ep'[x] = ep[x]
      BY <1>3, <2>2
    <3>2. ep[x].ptr \in Fibers /\ WaitsOn(ep[x].ptr, x) /\ park[ep[x].ptr] = "FD" /\ fd_owner[x] = ep[x].ptr
      BY <3>1 DEF RegInv, ArmedIsWaiter
    <3> QED BY <1>0, <1>1, <2>2, <3>1, <3>2 DEF WaitsOn, TypeOK
  <2> QED BY <2>1, <2>2
<1>6. WaiterIsArmed'
  <2> SUFFICES ASSUME NEW h \in Fibers, state'[h] = "PARKED", park'[h] = "FD"
               PROVE  /\ wait_fd'[h] \in Fds /\ open[wait_fd'[h]]
                      /\ ep'[wait_fd'[h]] = [ptr |-> h, armed |-> TRUE]
    BY DEF WaiterIsArmed
  <2>1. CASE h = f
    BY <1>0, <1>3, <2>1 DEF TypeOK
  <2>2. CASE h # f
    <3>1. state[h] = "PARKED" /\ park[h] = "FD" /\ wait_fd'[h] = wait_fd[h]
      BY <1>0, <2>2 DEF TypeOK
    <3>2. wait_fd[h] \in Fds /\ open[wait_fd[h]] /\ ep[wait_fd[h]] = [ptr |-> h, armed |-> TRUE]
      BY <3>1 DEF RegInv, WaiterIsArmed
    <3> QED BY <1>3, <3>1, <3>2, MoveReg
  <2> QED BY <2>1, <2>2
<1>7. WaitInv'
  <2>1. ASSUME NEW h \in Fibers, h # f, state[h] = "PARKED", park[h] = "FD" PROVE reg_fd'[h] = reg_fd[h]
    BY <1>2, <2>1, MoveReg, ArmedFacts DEF RegInv, OwnerMap
  <2> QED BY <1>0, <1>2, <2>1 DEF RegInv, WaitInv, TypeOK, Parks
<1>8. EventInv'
  BY DEF EventInv
<1> QED BY <1>4, <1>5, <1>6, <1>7, <1>8 DEF RegInv

(* Every step keeps the owner map, the fibers and the epoll set together. *)
LEMMA RegStep == ASSUME IInv, [Next]_vars PROVE RegInv'
<1> TypeOK /\ TypeOK' /\ RegInv /\ Counts /\ (evs # {} => lpc \in {"events", "clear", "drain"})
    /\ (zombie # NoFiber => lpc = "back") /\ NoFiber \notin Fibers
  BY TypeStep, ConstantsAssumption DEF IInv, RegInv, Counts, Bookkeeping, Alive, LoopInv
<1> USE DEF loopVars, fdVars, fiberVars, queueVars
<1>0. ASSUME NEW f \in Fibers, Running(f) PROVE state[f] = "RUNNING" /\ evs = {} /\ wait_fd[f] = NoFd
  BY <1>0 DEF Running, Counts, InState, RegInv, WaitInv
<1>1. CASE UNCHANGED <<state, park, reg_fd, wait_fd, fd_owner, ep, open, evs>>
  BY <1>1 DEF RegInv, OwnerMap, ArmedIsWaiter, WaiterIsArmed, WaitInv, EventInv, WaitsOn
<1>2. CASE Run \/ RoundEmpty \/ FireDone \/ PollInterrupted \/ EventsDone \/ DrainClear
           \/ DrainDone \/ PollFails \/ Destroy
  BY <1>1, <1>2 DEF Run, RoundEmpty, FireDone, PollInterrupted, EventsDone, DrainClear, DrainDone,
              PollFails, Destroy, worldVars
<1>3. CASE EventForReactor
  <2>1. PICK e \in evs : e.src = EvFd /\ evs' = evs \ {e}
    BY <1>3 DEF EventForReactor
  <2>2. UNCHANGED <<state, park, reg_fd, wait_fd, fd_owner, ep, open>>
    BY <1>3 DEF EventForReactor, worldVars
  <2>3. OwnerMap' /\ ArmedIsWaiter' /\ WaitInv' /\ EventInv'
    BY <2>1, <2>2 DEF RegInv, OwnerMap, ArmedIsWaiter, WaitInv, EventInv, WaitsOn
  <2>4. WaiterIsArmed'
    BY <2>1, <2>2, ConstantsAssumption DEF RegInv, WaiterIsArmed
  <2> QED BY <2>3, <2>4 DEF RegInv
<1>4. CASE Poll
  BY <1>4, PollReg DEF Poll
<1>5. ASSUME NEW e \in evs, EventFor(e) PROVE RegInv'
  BY <1>5, EventReg
<1>6. ASSUME NEW c \in Commands, ApplyCmd(c), UNCHANGED <<current, zombie, live, stacks, open, evs>> PROVE RegInv'
  <2>1. CASE Quiet /\ UNCHANGED <<left, reg_fd, fd_owner, ep>>
    BY <1>1, <1>6, <2>1 DEF Quiet
  <2>2. CASE Resumed(c.f) /\ DetachFd(c.f)
    <3>1. c.f \in Fibers /\ state' = [state EXCEPT ![c.f] = "READY"] /\ UNCHANGED <<park, wait_fd>>
      BY <2>2 DEF Resumed, Resume, Enqueue, Commands
    <3> QED BY <1>6, <2>2, <3>1, DetachReg DEF TypeOK
  <2> QED BY <1>6, <2>1, <2>2, CommandKinds
<1>7. CASE DrainApply
  <2>1. taken' \in Commands
    BY <1>7, TakeType DEF DrainApply
  <2> QED BY <1>6, <1>7, <2>1 DEF DrainApply, poolVars
<1>8. ASSUME NEW f \in Fibers, FireTimer(f) PROVE RegInv'
  <2>1. state[f] = "PARKED"
    BY <1>8 DEF FireTimer, Expired, NoTimer, IInv, TimerIsParked
  <2>2. DetachFd(f) /\ state' = [state EXCEPT ![f] = "READY"] /\ UNCHANGED <<park, wait_fd, evs, open>>
    BY <1>8, <2>1 DEF FireTimer, Resume, Enqueue
  <2> QED BY <2>2, DetachReg DEF TypeOK
<1>9. CASE Dispatch
  <2> DEFINE f == Head(ready)
  <2>1. f \in Fibers /\ state[f] = "READY"
    BY <1>9, TailOne DEF Dispatch, Counts, InState, TypeOK
  <2>2. /\ state' = [state EXCEPT ![f] = "RUNNING"] /\ wait_fd' = [wait_fd EXCEPT ![f] = NoFd]
        /\ park' = [park EXCEPT ![f] = None] /\ UNCHANGED <<reg_fd, fd_owner, ep, open, evs>>
    BY <1>9 DEF Dispatch, EnterFiber
  <2> HIDE DEF f
  <2> QED BY <2>1, <2>2, StateReg DEF TypeOK
<1>10. CASE Back
  <2>1. CASE zombie = NoFiber
    BY <1>1, <1>10, <2>1 DEF Back
  <2>2. CASE zombie # NoFiber
    <3>1. zombie \in Fibers /\ DetachFd(zombie) /\ state' = [state EXCEPT ![zombie] = "FREE"]
          /\ UNCHANGED <<park, wait_fd, evs, open>>
      BY <1>10, <2>2 DEF Back, Recycle, TypeOK
    <3> QED BY <3>1, DetachReg DEF TypeOK
  <2> QED BY <2>1, <2>2
<1>11. ASSUME NEW f \in Fibers, SpawnLocked(f) PROVE RegInv'
  <2>1. state[f] = "FREE" /\ reg_fd[f] = NoFd
    BY <1>11 DEF SpawnLocked, Obtainable, RegInv, OwnerMap, TypeOK
  <2>2. reg_fd' = reg_fd
    BY <1>11, <2>1 DEF SpawnLocked, TypeOK
  <2>3. /\ state' = [state EXCEPT ![f] = "READY"] /\ wait_fd' = [wait_fd EXCEPT ![f] = NoFd]
        /\ UNCHANGED <<park, fd_owner, ep, open, evs>>
    BY <1>11 DEF SpawnLocked, Enqueue
  <2> QED BY <2>1, <2>2, <2>3, StateReg DEF TypeOK
<1>12. ASSUME NEW f \in Fibers, SpawnNoStack(f) \/ EvWaitAsyncPermit(f) PROVE RegInv'
  BY <1>1, <1>12 DEF SpawnNoStack, EvWaitAsyncPermit
<1>13. ASSUME NEW f \in Fibers, EvYield(f) \/ Finish(f) PROVE RegInv'
  <2>1. state[f] = "RUNNING"
    BY <1>0, <1>13 DEF EvYield, Finish
  <2>2. \E st \in {"READY", "ZOMBIE"} : state' = [state EXCEPT ![f] = st]
    BY <1>13 DEF EvYield, Enqueue, Finish
  <2>3. UNCHANGED <<park, wait_fd, reg_fd, fd_owner, ep, open, evs>>
    BY <1>13 DEF EvYield, Finish
  <2> QED BY <2>1, <2>2, <2>3, StateReg DEF TypeOK
<1>14. ASSUME NEW f \in Fibers, NEW delay, EvSleep(f, delay) \/ EvWaitAsync(f, delay) PROVE RegInv'
  <2>1. state[f] = "RUNNING" /\ evs = {} /\ wait_fd[f] = NoFd /\ current = f
    BY <1>0, <1>14 DEF EvSleep, EvWaitAsync, Running
  <2>2. /\ state' = [state EXCEPT ![f] = "PARKED"] /\ UNCHANGED <<wait_fd, reg_fd, fd_owner, ep, open, evs>>
        /\ \E kind \in {"TIMER", "ASYNC"} : park' = [park EXCEPT ![f] = kind]
    BY <1>14, <2>1 DEF EvSleep, EvWaitAsync, ParkCurrent
  <2> QED BY <2>1, <2>2, StateReg DEF TypeOK
<1>15. ASSUME NEW f \in Fibers, NEW delay, NEW fd \in Fds, EvWait(f, fd, delay) PROVE RegInv'
  BY <1>0, <1>15, WaitReg DEF EvWait
<1>16. ASSUME NEW f \in Fibers, NEW c \in Commands, EvCommand(f, c) PROVE RegInv'
  BY <1>6, <1>16 DEF EvCommand, poolVars
<1>17. ASSUME NEW f \in Fibers, NEW fd \in Fds, EvWaitBusy(f, fd) PROVE RegInv'
  <2>1. state[f] = "RUNNING"
    BY <1>0, <1>17 DEF EvWaitBusy
  <2>2. reg_fd[f] # fd
    BY <1>17 DEF EvWaitBusy, HeldByWaiter, RegInv, OwnerMap
  <2>3. DetachFd(f)
    BY <1>17, <2>2 DEF EvWaitBusy, DetachFd, OwnerAfterMove, EpAfterMove, Abandons
  <2>4. UNCHANGED <<state, park, wait_fd, evs, open>>
    BY <1>17 DEF EvWaitBusy, waitFailedVars
  <2> QED BY <2>1, <2>3, <2>4, DetachReg
<1>18. ASSUME NEW f \in Fibers, NEW fd \in Fds, EvWaitFails(f, fd) PROVE RegInv'
  BY <1>0, <1>18, FailReg DEF EvWaitFails
<1>19. ASSUME NEW f \in Fibers, NEW fd \in Fds, EvCloseHeld(f, fd) PROVE RegInv'
  <2> DEFINE g == fd_owner[fd]
  <2>1. g \in Fibers /\ DetachFd(g) /\ UNCHANGED <<park, wait_fd, evs>>
    BY <1>19 DEF EvCloseHeld, Unpark, TypeOK
  <2>2. \A x \in Fds : open'[x] = open[x] \/ fd_owner[x] = g
    BY <1>19 DEF EvCloseHeld, CloseFd, TypeOK
  <2>3. \/ state' = [state EXCEPT ![g] = "READY"]
        \/ UNCHANGED state /\ ~ WaitsOn(g, fd)
    BY <1>19 DEF EvCloseHeld, Unpark, Resume, Enqueue
  <2>4. CASE state[g] = "PARKED" /\ UNCHANGED state /\ ~ WaitsOn(g, fd)
    <3>1. reg_fd[g] = fd /\ park[g] # "FD" /\ wait_fd[g] = NoFd
      BY <2>1, <2>4 DEF RegInv, OwnerMap, WaitInv, WaitsOn, TypeOK
    <3> QED BY <2>1, <2>2, <2>4, <3>1, DetachReg
  <2> HIDE DEF g
  <2> QED BY <2>1, <2>2, <2>3, <2>4, DetachReg DEF TypeOK
<1>20. ASSUME NEW f \in Fibers, NEW fd \in Fds, Close(f, fd) \/ Open(f, fd) PROVE RegInv'
  <2>1. /\ evs = {} /\ UNCHANGED <<state, park, reg_fd, wait_fd, fd_owner, evs>>
        /\ ep' \in {ep, [ep EXCEPT ![fd] = NoEntry]}
    BY <1>0, <1>20 DEF Close, Open, worldVars
  <2>2. \A x \in Fds \ {fd} : open'[x] = open[x]
    BY <1>20 DEF Close, CloseFd, Open, TypeOK
  <2>3. \A h \in Fibers : state[h] = "PARKED" /\ park[h] = "FD" => wait_fd[h] # fd
    BY <1>20 DEF Close, Open, WaitsOn, RegInv, WaiterIsArmed
  <2> QED BY <2>1, <2>2, <2>3, CloseReg
<1>21. ASSUME NEW f \in Fibers, NEW fd \in Fds, DoIO(f, fd) PROVE RegInv'
  BY <1>1, <1>21 DEF DoIO, worldVars
<1>22. CASE Environment
  BY <1>1, <1>22 DEF Environment, PostClaim, PostPublish, PostPoke, Tick, PeerActs, worldVars
<1>23. CASE UNCHANGED vars
  BY <1>1, <1>23 DEF vars
<1> QED
  BY <1>2, <1>3, <1>4, <1>5, <1>7, <1>8, <1>9, <1>10, <1>11, <1>12, <1>13, <1>14, <1>15, <1>16,
     <1>17, <1>18, <1>19, <1>20, <1>21, <1>22, <1>23
     DEF Next, LoopStep, Spawn, Leaves, Stays

-----------------------------------------------------------------------------
(* Handles and commands *)

(* A block changes hands in spawn and in fiber_recycle only. *)
LEMMA TenantKept ==
    ASSUME IInv, [Next]_vars
    PROVE  \/ \E f \in Fibers : SpawnLocked(f)
           \/ Back /\ zombie # NoFiber
           \/ \A g \in Fibers : state'[g] = "FREE" <=> state[g] = "FREE"
<1> TypeOK /\ Counts
  BY DEF IInv, Counts, Bookkeeping, Alive
<1>1. CASE Quiet
  BY <1>1 DEF Quiet
<1>2. ASSUME NEW g \in Fibers, Resumed(g) PROVE \A h \in Fibers : state'[h] = "FREE" <=> state[h] = "FREE"
  BY <1>2 DEF Resumed, Resume, Enqueue, TypeOK
<1>3. ASSUME NEW f \in Fibers, Leaves(f) PROVE \A h \in Fibers : state'[h] = "FREE" <=> state[h] = "FREE"
  <2>1. current = f /\ state[f] = "RUNNING"
    BY <1>3, ConstantsAssumption
       DEF Leaves, EvYield, Finish, EvWaitAsync, EvWait, EvSleep, Running, Counts, InState
  <2>2. \E st \in States \ {"FREE"} : state' = [state EXCEPT ![f] = st]
    BY <1>3, <2>1 DEF Leaves, EvYield, Finish, EvWaitAsync, EvWait, EvSleep, ParkCurrent, Enqueue, States
  <2> QED BY <2>1, <2>2 DEF TypeOK
<1>4. CASE Dispatch
  <2>1. Head(ready) \in Fibers /\ state[Head(ready)] = "READY"
    BY <1>4, TailOne DEF Dispatch, Counts, InState, TypeOK
  <2> QED BY <1>4, <2>1 DEF Dispatch, EnterFiber, TypeOK
<1> QED BY <1>1, <1>2, <1>3, <1>4, StepKinds

(* Handles are issued and generations counted there only. *)
LEMMA IssuedChange ==
    ASSUME [Next]_vars
    PROVE  \/ \E f \in Fibers : SpawnLocked(f) \/ SpawnNoStack(f)
           \/ Back /\ zombie # NoFiber
           \/ UNCHANGED <<issued, generation>>
<1> USE DEF fiberVars, histVars, worldVars
<1>1. CASE LoopStep
  BY <1>1 DEF LoopStep, Run, Dispatch, RoundEmpty, Back, Poll, EventsDone, EventFor, EventForReactor,
              DrainClear, DrainApply, ApplyCmd, DrainDone, FireTimer, FireDone
<1>2. CASE PollInterrupted \/ PollFails \/ Destroy
  BY <1>2 DEF PollInterrupted, PollFails, Destroy
<1>3. ASSUME NEW f \in Fibers, Leaves(f) PROVE UNCHANGED <<issued, generation>>
  BY <1>3 DEF Leaves, EvYield, Finish, EvWaitAsync, EvWait, EvSleep
<1>4. ASSUME NEW f \in Fibers, Stays(f) PROVE UNCHANGED <<issued, generation>>
  BY <1>4 DEF Stays, EvWaitAsyncPermit, EvCommand, Issue, ApplyCmd, EvWaitBusy, EvWaitFails, waitFailedVars,
               EvCloseHeld, Close, Open, DoIO
<1>5. CASE Environment
  BY <1>5 DEF Environment, Tick, PeerActs, PostClaim, Issue, PostPublish, PostPoke
<1>6. CASE UNCHANGED vars
  BY <1>6 DEF vars
<1> QED BY <1>1, <1>2, <1>3, <1>4, <1>5, <1>6 DEF Next, Spawn

(* A handle of a block's present generation names its present fiber. *)
LEMMA HandleStep == ASSUME IInv, [Next]_vars PROVE HandleInv'
<1> TypeOK /\ HandleInv /\ Counts /\ MaxGen \in Nat /\ issued \in SUBSET Handles
    /\ \A f \in Fibers : generation[f] \in 0 .. MaxGen
  BY ConstantsAssumption DEF IInv, TypeOK, Counts, Bookkeeping, Alive
<1>1. ASSUME NEW f \in Fibers, SpawnLocked(f) PROVE HandleInv'
  <2>1. /\ state[f] = "FREE" /\ generation[f] < MaxGen /\ state' = [state EXCEPT ![f] = "READY"]
        /\ UNCHANGED generation /\ issued' = issued \cup {[f |-> f, gen |-> generation[f]]}
    BY <1>1 DEF SpawnLocked, Obtainable, Enqueue
  <2>2. \A g \in Fibers : state'[g] = IF g = f THEN "READY" ELSE state[g]
    BY <2>1 DEF TypeOK
  <2>3. \A h \in issued : h.f \in Fibers
    BY DEF Handles
  <2> QED BY <2>1, <2>2, <2>3 DEF HandleInv
<1>2. ASSUME NEW f \in Fibers, generation' = [generation EXCEPT ![f] = @ + 1], UNCHANGED issued,
             state'[f] = "FREE", \A g \in Fibers \ {f} : state'[g] = state[g]
      PROVE  HandleInv'
  <2>1. \A g \in Fibers : generation'[g] = IF g = f THEN generation[g] + 1 ELSE generation[g]
    BY <1>2 DEF TypeOK
  <2>2. \A h \in issued : h.f \in Fibers /\ h.gen \in Int /\ h.gen <= generation[h.f]
    BY DEF Handles, HandleInv
  <2>3. \A h \in issued' : /\ h.gen <= generation'[h.f]
                           /\ h.gen = generation'[h.f] => state'[h.f] # "FREE"
    <3> TAKE h \in issued'
    <3>1. h \in issued /\ h.f \in Fibers /\ h.gen \in Int /\ h.gen <= generation[h.f] /\ generation[h.f] \in Int
      BY <1>2, <2>2
    <3>2. CASE h.f = f
      BY <2>1, <3>1, <3>2
    <3>3. CASE h.f # f
      BY <1>2, <2>1, <3>1, <3>3 DEF HandleInv
    <3> QED BY <3>2, <3>3
  <2>4. \A g \in Fibers : state'[g] # "FREE" => generation'[g] < MaxGen
    BY <1>2, <2>1 DEF HandleInv
  <2> QED BY <2>3, <2>4 DEF HandleInv
<1>3. ASSUME NEW f \in Fibers, SpawnNoStack(f) PROVE HandleInv'
  BY <1>2, <1>3 DEF SpawnNoStack, Obtainable, histVars
<1>4. CASE Back /\ zombie # NoFiber
  <2>1. zombie \in Fibers /\ Recycle(zombie) /\ UNCHANGED issued
    BY <1>4 DEF Back, TypeOK, histVars
  <2> QED BY <1>2, <2>1 DEF Recycle, TypeOK
<1>5. CASE UNCHANGED <<issued, generation>> /\ \A g \in Fibers : state'[g] = "FREE" <=> state[g] = "FREE"
  BY <1>5 DEF HandleInv, Handles
<1> QED BY <1>1, <1>3, <1>4, <1>5, TenantKept, IssuedChange

(* Requests are recorded when they are made, and forgotten by spawn only. *)
LEMMA RecordChange ==
    ASSUME [Next]_vars
    PROVE  \/ \E f \in Fibers : SpawnLocked(f)
           \/ PostClaim
           \/ \E f \in Fibers, c \in Commands : EvCommand(f, c)
           \/ \E f \in Fibers, fd \in Fds : EvCloseHeld(f, fd)
           \/ UNCHANGED <<woken, cancelled>>
<1> USE DEF histVars, worldVars
<1>1. CASE LoopStep
  BY <1>1 DEF LoopStep, Run, Dispatch, RoundEmpty, Back, Poll, EventsDone, EventFor, EventForReactor,
              DrainClear, DrainApply, DrainDone, FireTimer, FireDone
<1>2. CASE PollInterrupted \/ PollFails \/ Destroy
  BY <1>2 DEF PollInterrupted, PollFails, Destroy
<1>3. ASSUME NEW f \in Fibers, Leaves(f) \/ SpawnNoStack(f) PROVE UNCHANGED <<woken, cancelled>>
  BY <1>3 DEF Leaves, EvYield, Finish, EvWaitAsync, EvWait, EvSleep, SpawnNoStack
<1>4. ASSUME NEW f \in Fibers, Stays(f)
      PROVE  \/ \E c \in Commands : EvCommand(f, c)
             \/ \E fd \in Fds : EvCloseHeld(f, fd)
             \/ UNCHANGED <<woken, cancelled>>
  BY <1>4 DEF Stays, EvWaitAsyncPermit, EvWaitBusy, EvWaitFails, waitFailedVars, Close, Open, DoIO
<1>5. CASE Environment
  BY <1>5 DEF Environment, Tick, PeerActs, PostPublish, PostPoke
<1>6. CASE UNCHANGED vars
  BY <1>6 DEF vars
<1> QED BY <1>1, <1>2, <1>3, <1>4, <1>5, <1>6 DEF Next, Spawn

(* So for a block that stays with its fiber the records only grow ... *)
LEMMA RecordsGrow ==
    ASSUME IInv, [Next]_vars, NEW g \in Fibers, state[g] # "FREE"
    PROVE  (woken[g] => woken'[g]) /\ (cancelled[g] => cancelled'[g])
<1> TypeOK
  BY DEF IInv
<1>1. ASSUME NEW c \in Commands, Issue(c) PROVE (woken[g] => woken'[g]) /\ (cancelled[g] => cancelled'[g])
  BY <1>1 DEF Issue, Asked, TypeOK
<1>2. ASSUME NEW f \in Fibers, SpawnLocked(f) PROVE woken'[g] = woken[g] /\ cancelled'[g] = cancelled[g]
  BY <1>2 DEF SpawnLocked, Obtainable, TypeOK
<1>3. ASSUME NEW f \in Fibers, NEW fd \in Fds, EvCloseHeld(f, fd)
      PROVE  (woken[g] => woken'[g]) /\ (cancelled[g] => cancelled'[g])
  BY <1>3 DEF EvCloseHeld, TypeOK
<1> QED BY <1>1, <1>2, <1>3, RecordChange DEF PostClaim, EvCommand

(* ... and a request for a handle of the present generation is recorded.    *)
LEMMA IssueRecords ==
    ASSUME IInv, NEW c \in Commands, Issue(c), c.gen = generation[c.f]
    PROVE  /\ state[c.f] # "FREE"
           /\ c.kind = "WAKE" => woken'[c.f] /\ owed'[c.f]
           /\ c.kind = "CANCEL" => cancelled'[c.f]
           /\ c.kind \in {"WAKE", "CANCEL"} /\ c.f \in Fibers
<1>1. c.f \in Fibers /\ c.kind \in {"WAKE", "CANCEL"} /\ [f |-> c.f, gen |-> c.gen] \in issued
  BY ConstantsAssumption DEF Commands, Issue
<1>2. state[c.f] # "FREE"
  BY <1>1 DEF IInv, HandleInv
<1> QED BY <1>1, <1>2 DEF IInv, TypeOK, Issue, Asked

(* The commands on their way are for handles given out, and recorded. *)
LEMMA CmdStep == ASSUME IInv, [Next]_vars PROVE CmdInv'
<1> DEFINE Good(c) == /\ [f |-> c.f, gen |-> c.gen] \in issued
                      /\ c.gen = generation[c.f] =>
                            IF c.kind = "WAKE" THEN woken[c.f] ELSE cancelled[c.f]
           StaysGood(c) == /\ [f |-> c.f, gen |-> c.gen] \in issued'
                           /\ c.gen = generation'[c.f] =>
                                 IF c.kind = "WAKE" THEN woken'[c.f] ELSE cancelled'[c.f]
<1> TypeOK /\ HandleInv /\ cmds \in Seq(Ring!Entry) /\ \A i \in DOMAIN cmds : Good(cmds[i].cmd)
  BY DEF IInv, TypeOK, CmdInv
<1>1. ASSUME NEW c \in Commands, Good(c) PROVE StaysGood(c)
  <2>1. /\ [f |-> c.f, gen |-> c.gen] \in issued /\ c.f \in Fibers /\ c.gen \in Int
        /\ c.gen <= generation[c.f] /\ generation[c.f] \in Int
        /\ c.gen = generation[c.f] => state[c.f] # "FREE"
    BY <1>1 DEF Commands, TypeOK, HandleInv
  <2>2. issued \subseteq issued'
    BY IssuedChange DEF SpawnLocked, SpawnNoStack, Back, histVars
  <2>3. generation'[c.f] = generation[c.f] \/ generation'[c.f] = generation[c.f] + 1
    BY <2>1, IssuedChange DEF SpawnLocked, SpawnNoStack, Back, Recycle, TypeOK
  <2>4. CASE c.gen = generation[c.f]
    BY <1>1, <2>1, <2>2, <2>3, <2>4, RecordsGrow
  <2>5. CASE c.gen # generation[c.f]
    BY <2>1, <2>2, <2>3, <2>5
  <2> QED BY <2>4, <2>5
<1>2. \A i \in DOMAIN cmds : cmds[i].cmd \in Commands /\ StaysGood(cmds[i].cmd)
  <2> TAKE i \in DOMAIN cmds
  <2>1. cmds[i].cmd \in Commands /\ Good(cmds[i].cmd)
    <3>1. cmds[i] \in Ring!Entry
      OBVIOUS
    <3> QED BY <3>1 DEF Ring!Entry
  <2> HIDE DEF Good, StaysGood
  <2> QED BY <1>1, <2>1
<1>3. CASE PostClaim
  <2>1. PICK c \in Commands : Issue(c) /\ cmds' = Append(cmds, [cmd |-> c, published |-> FALSE])
    BY <1>3 DEF PostClaim, Ring!Claim
  <2>2. StaysGood(c)
    BY <1>3, <2>1, IssueRecords DEF PostClaim, Issue, fiberVars
  <2>3. \A i \in DOMAIN cmds' : StaysGood(cmds'[i].cmd)
    <3>1. \A i \in DOMAIN cmds' : (i \in DOMAIN cmds /\ cmds'[i] = cmds[i]) \/ cmds'[i] = [cmd |-> c, published |-> FALSE]
      BY <2>1
    <3> HIDE DEF StaysGood
    <3> QED BY <1>2, <2>2, <3>1
  <2> QED BY <2>3 DEF CmdInv
<1>4. CASE PostPublish
  <2>1. PICK i \in DOMAIN cmds : Ring!Publish(i)
    BY <1>4 DEF PostPublish
  <2>2. DOMAIN cmds' = DOMAIN cmds /\ \A j \in DOMAIN cmds : cmds'[j].cmd = cmds[j].cmd
    BY <2>1, PublishType
  <2> QED BY <1>2, <2>2 DEF CmdInv
<1>5. CASE DrainApply
  <2>1. cmds # <<>> /\ cmds' = Tail(cmds)
    BY <1>5 DEF DrainApply, Ring!Take
  <2>2. \A i \in DOMAIN cmds' : i + 1 \in DOMAIN cmds /\ cmds'[i] = cmds[i + 1]
    BY <2>1
  <2> QED BY <1>2, <2>2 DEF CmdInv
<1>6. CASE UNCHANGED cmds
  BY <1>2, <1>6 DEF CmdInv
<1> QED BY <1>3, <1>4, <1>5, <1>6, CmdsChange DEF PostPoke

(* Whoever applies a command, the request for it is recorded. *)
LEMMA AppliedIsRecorded ==
    ASSUME IInv, [Next]_vars
    PROVE  /\ DrainApply => /\ taken' \in Commands /\ cmds # <<>> /\ cmds' = Tail(cmds)
                            /\ taken' = cmds[1].cmd /\ 1 \in DOMAIN cmds
                            /\ taken'.gen = generation[taken'.f] =>
                                 /\ taken'.kind = "WAKE" => woken'[taken'.f]
                                 /\ taken'.kind = "CANCEL" => cancelled'[taken'.f]
           /\ \A f \in Fibers, c \in Commands : EvCommand(f, c) /\ c.gen = generation[c.f] =>
                 /\ c.kind = "WAKE" => woken'[c.f]
                 /\ c.kind = "CANCEL" => cancelled'[c.f]
<1>1. ASSUME DrainApply
      PROVE  /\ taken' \in Commands /\ cmds # <<>> /\ cmds' = Tail(cmds)
             /\ taken' = cmds[1].cmd /\ 1 \in DOMAIN cmds
             /\ taken'.gen = generation[taken'.f] =>
                  /\ taken'.kind = "WAKE" => woken'[taken'.f]
                  /\ taken'.kind = "CANCEL" => cancelled'[taken'.f]
  <2>1. taken' \in Commands
    BY <1>1, TakeType DEF DrainApply, IInv
  <2>2. cmds # <<>> /\ cmds \in Seq(Ring!Entry) /\ taken' = Head(cmds).cmd /\ cmds' = Tail(cmds)
    BY <1>1 DEF DrainApply, Ring!Take, IInv, TypeOK
  <2>3. 1 \in DOMAIN cmds /\ taken' = cmds[1].cmd
    BY <2>2
  <2>4. taken'.gen = generation[taken'.f] =>
           IF taken'.kind = "WAKE" THEN woken[taken'.f] ELSE cancelled[taken'.f]
    BY <2>3 DEF IInv, CmdInv
  <2>5. UNCHANGED <<woken, cancelled>>
    BY <1>1 DEF DrainApply, histVars
  <2> QED BY <2>1, <2>2, <2>3, <2>4, <2>5
<1>2. ASSUME NEW f \in Fibers, NEW c \in Commands, EvCommand(f, c), c.gen = generation[c.f]
      PROVE  (c.kind = "WAKE" => woken'[c.f]) /\ (c.kind = "CANCEL" => cancelled'[c.f])
  BY <1>2, IssueRecords DEF EvCommand
<1> QED BY <1>1, <1>2

(* Permits and cancellations come from requests for the present fiber. *)
LEMMA OnlyAskedStep == ASSUME IInv, [Next]_vars PROVE OnlyAsked'
<1> DEFINE Fine(g) == (wake_pending'[g] => woken'[g]) /\ (wait_status'[g] = "CANCELLED" => cancelled'[g])
<1> TypeOK /\ OnlyAsked
  BY DEF IInv
<1> USE DEF fiberVars
<1>1. ASSUME NEW g \in Fibers, state[g] # "FREE", wake_pending'[g] => wake_pending[g],
             wait_status'[g] = "CANCELLED" => wait_status[g] = "CANCELLED"
      PROVE  Fine(g)
  BY <1>1, RecordsGrow DEF OnlyAsked
<1>2. ASSUME NEW g \in Fibers, state[g] # "FREE", UNCHANGED <<wake_pending, wait_status>> PROVE Fine(g)
  BY <1>1, <1>2
<1>3. ASSUME NEW c \in Commands, ApplyCmd(c), NEW g \in Fibers, state[g] # "FREE",
             c.gen = generation[c.f] =>
                 (c.kind = "WAKE" => woken'[c.f]) /\ (c.kind = "CANCEL" => cancelled'[c.f])
      PROVE  Fine(g)
  <2>1. wake_pending'[g] => wake_pending[g] \/ (c.f = g /\ c.kind = "WAKE" /\ c.gen = generation[g])
    BY <1>3 DEF ApplyCmd, Stale, KeepPermit, TypeOK
  <2>2. wait_status'[g] = "CANCELLED" =>
           wait_status[g] = "CANCELLED" \/ (c.f = g /\ c.kind = "CANCEL" /\ c.gen = generation[g])
    BY <1>3 DEF ApplyCmd, Stale, KeepPermit, Unpark, Resume, TypeOK
  <2> QED BY <1>3, <2>1, <2>2, RecordsGrow DEF OnlyAsked
<1> HIDE DEF Fine
<1>4. ASSUME NEW f \in Fibers, SpawnLocked(f), NEW g \in Fibers, state'[g] # "FREE" PROVE Fine(g)
  <2>1. CASE g = f
    BY <1>4, <2>1 DEF SpawnLocked, Wipe, TypeOK, None, Fine
  <2>2. CASE g # f
    BY <1>1, <1>4, <2>2 DEF SpawnLocked, Wipe, Enqueue, TypeOK
  <2> QED BY <2>1, <2>2
<1>5. ASSUME NEW g \in Fibers, state'[g] # "FREE", ~ (\E f \in Fibers : SpawnLocked(f)) PROVE state[g] # "FREE"
  <2>1. CASE Back /\ zombie # NoFiber
    BY <1>5, <2>1 DEF Back, Recycle, TypeOK
  <2> QED BY <1>5, <2>1, TenantKept
<1>6. ASSUME NEW g \in Fibers, state[g] # "FREE", ~ (\E f \in Fibers : SpawnLocked(f)) PROVE Fine(g)
  <2> USE DEF worldVars
  <2>1. CASE Run \/ RoundEmpty \/ FireDone \/ PollInterrupted \/ EventsDone \/ DrainClear
           \/ DrainDone \/ PollFails \/ EventForReactor \/ Poll \/ Destroy \/ Back
    BY <1>2, <1>6, <2>1 DEF Run, RoundEmpty, FireDone, PollInterrupted, EventsDone, DrainClear, DrainDone,
              PollFails, EventForReactor, Poll, Destroy, Back
  <2>2. CASE Environment
    BY <1>2, <1>6, <2>2 DEF Environment, PostClaim, PostPublish, PostPoke, Tick, PeerActs
  <2>3. CASE DrainApply
    BY <1>3, <1>6, <2>3, AppliedIsRecorded DEF DrainApply
  <2>4. ASSUME NEW f \in Fibers, NEW c \in Commands, EvCommand(f, c) PROVE Fine(g)
    BY <1>3, <1>6, <2>4, AppliedIsRecorded DEF EvCommand
  <2>5. ASSUME NEW e \in evs, EventFor(e) PROVE Fine(g)
    BY <1>1, <1>6, <2>5 DEF EventFor, Resume, TypeOK
  <2>6. ASSUME NEW f \in Fibers, FireTimer(f) PROVE Fine(g)
    BY <1>1, <1>6, <2>6 DEF FireTimer, Resume, TypeOK
  <2>7. CASE Dispatch
    <3>1. wait_status' = [wait_status EXCEPT ![Head(ready)] = None] /\ UNCHANGED wake_pending
      BY <2>7 DEF Dispatch
    <3>2. wait_status'[g] = "CANCELLED" => wait_status[g] = "CANCELLED"
      BY <3>1 DEF TypeOK, None
    <3> QED BY <1>1, <1>6, <3>1, <3>2
  <2>8. ASSUME NEW f \in Fibers, SpawnNoStack(f) PROVE Fine(g)
    BY <1>1, <1>6, <2>8 DEF SpawnNoStack, Obtainable, Wipe, TypeOK
  <2>9. ASSUME NEW f \in Fibers, Leaves(f) PROVE Fine(g)
    <3>1. UNCHANGED wake_pending
      BY <2>9 DEF Leaves, EvYield, Finish, EvWaitAsync, EvWait, EvSleep
    <3>2. wait_status'[g] = "CANCELLED" => wait_status[g] = "CANCELLED"
      BY <2>9 DEF Leaves, EvYield, Finish, EvWaitAsync, EvWait, EvSleep, ParkCurrent, TypeOK
    <3> QED BY <1>1, <1>6, <3>1, <3>2
  <2>10. ASSUME NEW f \in Fibers, EvWaitAsyncPermit(f) PROVE Fine(g)
    BY <1>1, <1>6, <2>10 DEF EvWaitAsyncPermit, TypeOK
  <2>11. ASSUME NEW f \in Fibers, NEW fd \in Fds, EvCloseHeld(f, fd) PROVE Fine(g)
    <3>1. UNCHANGED wake_pending
      BY <2>11 DEF EvCloseHeld
    <3>2. wait_status'[g] = "CANCELLED" => wait_status[g] = "CANCELLED" \/ cancelled'[g]
      BY <2>11 DEF EvCloseHeld, Unpark, Resume, TypeOK
    <3> QED BY <1>6, <3>1, <3>2, RecordsGrow DEF Fine, OnlyAsked
  <2>12. ASSUME NEW f \in Fibers, NEW fd \in Fds,
                EvWaitBusy(f, fd) \/ EvWaitFails(f, fd) \/ Close(f, fd) \/ Open(f, fd) \/ DoIO(f, fd)
         PROVE  Fine(g)
    BY <1>2, <1>6, <2>12 DEF EvWaitBusy, EvWaitFails, waitFailedVars, Close, Open, DoIO
  <2>13. CASE UNCHANGED vars
    BY <1>2, <1>6, <2>13 DEF vars
  <2> QED BY <1>6, <2>1, <2>2, <2>3, <2>4, <2>5, <2>6, <2>7, <2>8, <2>9, <2>10, <2>11, <2>12, <2>13
          DEF Next, LoopStep, Spawn, Stays
<1> QED BY <1>4, <1>5, <1>6 DEF OnlyAsked, Fine

(* A command that is on its way stays so until drain_cmds takes it. *)
LEMMA StaysOnItsWay ==
    ASSUME IInv, [Next]_vars, NEW g \in Fibers, OnItsWay(g), generation'[g] = generation[g]
    PROVE  OnItsWay(g)' \/ (DrainApply /\ taken' = [kind |-> "WAKE", f |-> g, gen |-> generation[g]])
<1>1. PICK i \in DOMAIN cmds : cmds[i].cmd = [kind |-> "WAKE", f |-> g, gen |-> generation[g]]
  BY DEF OnItsWay
<1>2. cmds \in Seq(Ring!Entry) /\ TypeOK
  BY DEF IInv, TypeOK
<1>3. CASE PostClaim
  <2>1. i \in DOMAIN cmds' /\ cmds'[i] = cmds[i]
    BY <1>2, <1>3 DEF PostClaim, Ring!Claim
  <2> QED BY <1>1, <2>1 DEF OnItsWay
<1>4. CASE PostPublish
  <2>1. i \in DOMAIN cmds' /\ cmds'[i].cmd = cmds[i].cmd
    BY <1>2, <1>4, PublishType DEF PostPublish
  <2> QED BY <1>1, <2>1 DEF OnItsWay
<1>5. CASE DrainApply
  <2>1. taken' = cmds[1].cmd /\ cmds # <<>> /\ cmds' = Tail(cmds)
    BY <1>5, AppliedIsRecorded
  <2>2. CASE i = 1
    BY <1>1, <1>5, <2>1, <2>2
  <2>3. CASE i # 1
    <3>1. i - 1 \in DOMAIN cmds' /\ cmds'[i - 1] = cmds[i]
      BY <1>2, <2>1, <2>3
    <3> QED BY <1>1, <3>1 DEF OnItsWay
  <2> QED BY <2>2, <2>3
<1>6. CASE UNCHANGED cmds
  BY <1>1, <1>6 DEF OnItsWay
<1> QED BY <1>3, <1>4, <1>5, <1>6, CmdsChange DEF PostPoke

(* What apply_cmd does to a fiber *)
LEMMA ApplyEffect ==
    ASSUME TypeOK, NEW c \in Commands, ApplyCmd(c), NEW g \in Fibers
    PROVE  /\ park'[g] = park[g] /\ generation'[g] = generation[g]
           /\ \/ /\ state'[g] = state[g] /\ wait_status'[g] = wait_status[g]
                 /\ wake_pending'[g] = wake_pending[g]
                 /\ c = [kind |-> "WAKE", f |-> g, gen |-> generation[g]] => state[g] \in {"FREE", "ZOMBIE"}
              \/ /\ c.f = g /\ state[g] = "PARKED" /\ state'[g] = "READY"
                 /\ wake_pending'[g] = wake_pending[g]
                 /\ c.kind = "WAKE" => park[g] = "ASYNC" /\ wait_status'[g] = "READY"
              \/ /\ state'[g] = state[g] /\ wait_status'[g] = wait_status[g]
                 /\ wake_pending'[g] /\ ~ (state[g] = "PARKED" /\ park[g] = "ASYNC")
<1>0. UNCHANGED <<park, generation>> /\ c.f \in Fibers
  BY DEF ApplyCmd, Commands
<1>1. CASE (Stale(c) \/ (c.kind = "CANCEL" /\ state[c.f] # "PARKED"))
           /\ UNCHANGED <<state, wait_status, wake_pending>>
  BY <1>0, <1>1 DEF Stale
<1>2. ASSUME NEW status \in Statuses, state[c.f] = "PARKED", Unpark(c.f, status), UNCHANGED wake_pending,
             c.kind = "WAKE" => park[c.f] = "ASYNC" /\ status = "READY"
      PROVE  \/ /\ state'[g] = state[g] /\ wait_status'[g] = wait_status[g]
                /\ wake_pending'[g] = wake_pending[g] /\ c.f # g
             \/ /\ c.f = g /\ state[g] = "PARKED" /\ state'[g] = "READY"
                /\ wake_pending'[g] = wake_pending[g]
                /\ c.kind = "WAKE" => park[g] = "ASYNC" /\ wait_status'[g] = "READY"
  <2>1. /\ state' = [state EXCEPT ![c.f] = "READY"] /\ wait_status' = [wait_status EXCEPT ![c.f] = status]
        /\ UNCHANGED wake_pending
    BY <1>2 DEF Unpark, Resume, Enqueue
  <2>2. CASE c.f = g
    BY <1>2, <2>1, <2>2 DEF TypeOK
  <2>3. CASE c.f # g
    BY <2>1, <2>3 DEF TypeOK
  <2> QED BY <2>2, <2>3
<1>3. CASE ~ WakeResumes(c) /\ KeepPermit(c)
  <2>1. wake_pending' = [wake_pending EXCEPT ![c.f] = TRUE] /\ UNCHANGED <<state, wait_status>>
    BY <1>3 DEF KeepPermit
  <2>2. CASE c.f = g
    <3>1. wake_pending'[g] = TRUE
      BY <1>0, <2>1, <2>2 DEF TypeOK
    <3> QED BY <1>0, <1>3, <2>1, <2>2, <3>1 DEF WakeResumes
  <2>3. CASE c.f # g
    <3>1. wake_pending'[g] = wake_pending[g]
      BY <2>1, <2>3 DEF TypeOK
    <3>2. c # [kind |-> "WAKE", f |-> g, gen |-> generation[g]]
      BY <2>3
    <3> QED BY <1>0, <2>1, <3>1, <3>2
  <2> QED BY <2>2, <2>3
<1> QED BY <1>0, <1>1, <1>2, <1>3 DEF ApplyCmd, WakeResumes, Statuses

(* A wake that is owed is on its way, a permit, or has ended the wait. *)
LEMMA WakeStep == ASSUME IInv, [Next]_vars PROVE WakeInv'
<1> DEFINE Came(g) == state[g] = "READY" /\ park[g] = "ASYNC" /\ wait_status[g] = "READY"
           Kept(g) == /\ state'[g] = "PARKED" /\ park'[g] = "ASYNC" => ~ wake_pending'[g]
                      /\ (owed'[g] /\ state'[g] \notin {"FREE", "ZOMBIE"}) =>
                            wake_pending'[g] \/ OnItsWay(g)' \/ Came(g)'
<1> TypeOK /\ Counts /\ WakeInv
  BY DEF IInv, Counts, Bookkeeping, Alive
<1> USE DEF fiberVars, histVars
<1>1. ASSUME NEW g \in Fibers, wake_pending'[g] = wake_pending[g], owed'[g] => owed[g],
             OnItsWay(g) /\ state'[g] \notin {"FREE", "ZOMBIE"} => OnItsWay(g)',
             state'[g] \notin {"FREE", "ZOMBIE"} => state[g] \notin {"FREE", "ZOMBIE"},
             owed'[g] /\ Came(g) => Came(g)' \/ state'[g] \in {"FREE", "ZOMBIE"},
             state'[g] = "PARKED" /\ park'[g] = "ASYNC" => ~ wake_pending[g]
      PROVE  Kept(g)
  BY <1>1 DEF WakeInv
<1>2. ASSUME NEW g \in Fibers, UNCHANGED <<wake_pending, state, park, wait_status, generation>>, owed'[g] => owed[g],
             ~ DrainApply
      PROVE  Kept(g)
  BY <1>1, <1>2, StaysOnItsWay DEF WakeInv
<1>3. ASSUME NEW c \in Commands, ApplyCmd(c), NEW g \in Fibers,
             owed'[g] => owed[g] \/ c = [kind |-> "WAKE", f |-> g, gen |-> generation[g]],
             OnItsWay(g) => OnItsWay(g)' \/ c = [kind |-> "WAKE", f |-> g, gen |-> generation[g]]
      PROVE  Kept(g)
  <2>1. CASE /\ state'[g] = state[g] /\ wait_status'[g] = wait_status[g] /\ park'[g] = park[g]
             /\ wake_pending'[g] = wake_pending[g]
             /\ c = [kind |-> "WAKE", f |-> g, gen |-> generation[g]] => state[g] \in {"FREE", "ZOMBIE"}
    BY <1>3, <2>1 DEF WakeInv
  <2>2. CASE /\ c.f = g /\ state[g] = "PARKED" /\ state'[g] = "READY" /\ park'[g] = park[g]
             /\ wake_pending'[g] = wake_pending[g]
             /\ c.kind = "WAKE" => park[g] = "ASYNC" /\ wait_status'[g] = "READY"
    BY <1>3, <2>2 DEF WakeInv
  <2>3. CASE /\ state'[g] = state[g] /\ park'[g] = park[g]
             /\ wake_pending'[g] /\ ~ (state[g] = "PARKED" /\ park[g] = "ASYNC")
    BY <2>3
  <2> QED BY <1>3, <2>1, <2>2, <2>3, ApplyEffect
<1>4. ASSUME NEW g \in Fibers, NEW c \in Commands, Issue(c),
             ~ (c = [kind |-> "WAKE", f |-> g, gen |-> generation[g]])
      PROVE  owed'[g] => owed[g]
  BY <1>4 DEF Issue, Asked, Commands, TypeOK
<1>5. ASSUME NEW g \in Fibers, state[g] \in {"PARKED", "RUNNING"}, ~ DrainApply, generation'[g] = generation[g],
             wake_pending'[g] = wake_pending[g], owed'[g] => owed[g],
             state'[g] = "PARKED" /\ park'[g] = "ASYNC" => ~ wake_pending[g]
      PROVE  Kept(g)
  BY <1>1, <1>5, StaysOnItsWay
<1>6. ASSUME NEW g \in Fibers, state'[g] = state[g], park'[g] = park[g], wait_status'[g] = wait_status[g],
             wake_pending'[g] = wake_pending[g], owed'[g] = owed[g], generation'[g] = generation[g],
             ~ DrainApply
      PROVE  Kept(g)
  BY <1>1, <1>6, StaysOnItsWay DEF WakeInv
<1> SUFFICES ASSUME NEW g \in Fibers PROVE Kept(g)
  BY DEF WakeInv
<1> HIDE DEF Kept
<1> USE DEF worldVars
<1>7. CASE DrainApply
  <2>1. taken' \in Commands /\ ApplyCmd(taken') /\ UNCHANGED owed
    BY <1>7, AppliedIsRecorded DEF DrainApply
  <2>2. generation'[g] = generation[g]
    BY <2>1 DEF ApplyCmd
  <2> QED BY <1>3, <2>1, <2>2, StaysOnItsWay
<1>8. ASSUME NEW f \in Fibers, NEW c \in Commands, EvCommand(f, c), ~ DrainApply PROVE Kept(g)
  <2>1. ApplyCmd(c) /\ Issue(c) /\ generation'[g] = generation[g]
    BY <1>8 DEF EvCommand, ApplyCmd
  <2> QED BY <1>3, <1>4, <1>8, <2>1, StaysOnItsWay
<1>9. CASE PostClaim /\ ~ DrainApply
  <2>1. PICK c \in Commands : Issue(c) /\ cmds' = Append(cmds, [cmd |-> c, published |-> FALSE])
    BY <1>9 DEF PostClaim, Ring!Claim
  <2>2. UNCHANGED <<wake_pending, state, park, wait_status, generation>>
    BY <1>9 DEF PostClaim
  <2>3. CASE c = [kind |-> "WAKE", f |-> g, gen |-> generation[g]]
    <3>1. Len(cmds) + 1 \in DOMAIN cmds' /\ cmds'[Len(cmds) + 1].cmd = c
      BY <2>1 DEF TypeOK
    <3>2. OnItsWay(g)'
      BY <2>2, <2>3, <3>1 DEF OnItsWay
    <3> QED BY <2>2, <3>2 DEF Kept, WakeInv
  <2> QED BY <1>2, <1>4, <1>9, <2>1, <2>2, <2>3
<1>10. CASE (Run \/ RoundEmpty \/ FireDone \/ PollInterrupted \/ EventsDone \/ DrainClear
           \/ DrainDone \/ PollFails \/ EventForReactor \/ Poll \/ Destroy) /\ ~ DrainApply
  BY <1>2, <1>10 DEF Run, RoundEmpty, FireDone, PollInterrupted, EventsDone, DrainClear, DrainDone,
              PollFails, EventForReactor, Poll, Destroy
<1>11. CASE (PostPublish \/ PostPoke \/ Tick \/ \E fd \in Fds : PeerActs(fd)) /\ ~ DrainApply
  BY <1>2, <1>11 DEF PostPublish, PostPoke, Tick, PeerActs
<1>12. ASSUME NEW e \in evs, EventFor(e), ~ DrainApply PROVE Kept(g)
  <2>1. UNCHANGED <<park, wake_pending, owed, generation>>
    BY <1>12 DEF EventFor
  <2>2. CASE e.ptr = g /\ state[g] = "PARKED"
    BY <1>5, <1>12, <2>1, <2>2 DEF EventFor, Resume, Enqueue, TypeOK
  <2>3. CASE ~ (e.ptr = g /\ state[g] = "PARKED")
    <3>1. state'[g] = state[g] /\ wait_status'[g] = wait_status[g]
      BY <1>12, <2>3 DEF EventFor, Resume, Enqueue, TypeOK
    <3> QED BY <1>6, <1>12, <2>1, <3>1
  <2> QED BY <2>2, <2>3
<1>13. ASSUME NEW f \in Fibers, FireTimer(f), ~ DrainApply PROVE Kept(g)
  <2>1. UNCHANGED <<park, wake_pending, owed, generation>>
    BY <1>13 DEF FireTimer
  <2>2. CASE f = g /\ state[g] = "PARKED"
    BY <1>5, <1>13, <2>1, <2>2 DEF FireTimer, Resume, Enqueue, TypeOK
  <2>3. CASE ~ (f = g /\ state[g] = "PARKED")
    <3>1. state'[g] = state[g] /\ wait_status'[g] = wait_status[g]
      BY <1>13, <2>3 DEF FireTimer, Resume, Enqueue, TypeOK
    <3> QED BY <1>6, <1>13, <2>1, <3>1
  <2> QED BY <2>2, <2>3
<1>14. CASE Dispatch /\ ~ DrainApply
  <2> DEFINE f == Head(ready)
  <2>1. f \in Fibers /\ state[f] = "READY"
    BY <1>14, TailOne DEF Dispatch, Counts, InState, TypeOK
  <2>2. /\ state' = [state EXCEPT ![f] = "RUNNING"] /\ park' = [park EXCEPT ![f] = None]
        /\ wait_status' = [wait_status EXCEPT ![f] = None] /\ UNCHANGED <<wake_pending, generation>>
        /\ owed' = [owed EXCEPT ![f] = @ /\ ~ (park[f] = "ASYNC" /\ wait_status[f] = "READY")]
    BY <1>14 DEF Dispatch, EnterFiber
  <2> HIDE DEF f
  <2>3. CASE g = f
    <3>1. /\ state'[g] = "RUNNING" /\ wake_pending'[g] = wake_pending[g] /\ state[g] = "READY"
          /\ owed'[g] => owed[g] /\ ~ Came(g)
      BY <2>1, <2>2, <2>3 DEF TypeOK
    <3>2. OnItsWay(g) => OnItsWay(g)'
      BY <1>14, <2>2, StaysOnItsWay
    <3> QED BY <1>1, <3>1, <3>2
  <2>4. CASE g # f
    BY <1>6, <1>14, <2>1, <2>2, <2>4 DEF TypeOK
  <2> QED BY <2>3, <2>4
<1>15. CASE Back /\ ~ DrainApply
  <2>1. UNCHANGED <<park, wake_pending, owed, wait_status>>
    BY <1>15 DEF Back
  <2>2. CASE zombie = g /\ zombie # NoFiber
    <3>1. state'[g] = "FREE"
      BY <1>15, <2>2 DEF Back, Recycle, TypeOK
    <3> QED BY <3>1 DEF Kept
  <2>3. CASE ~ (zombie = g /\ zombie # NoFiber)
    <3>1. state'[g] = state[g] /\ generation'[g] = generation[g]
      BY <1>15, <2>3 DEF Back, Recycle, TypeOK
    <3> QED BY <1>6, <1>15, <2>1, <3>1
  <2> QED BY <2>2, <2>3
<1>16. ASSUME NEW f \in Fibers, SpawnLocked(f), ~ DrainApply PROVE Kept(g)
  <2>1. CASE g = f
    BY <1>16, <2>1 DEF SpawnLocked, Enqueue, TypeOK, Kept
  <2>2. CASE g # f
    BY <1>6, <1>16, <2>2 DEF SpawnLocked, Wipe, Enqueue, TypeOK
  <2> QED BY <2>1, <2>2
<1>17. ASSUME NEW f \in Fibers, SpawnNoStack(f), ~ DrainApply PROVE Kept(g)
  <2>1. CASE g = f
    BY <1>17, <2>1 DEF SpawnNoStack, Obtainable, TypeOK, Kept
  <2>2. CASE g # f
    BY <1>6, <1>17, <2>2 DEF SpawnNoStack, Wipe, TypeOK
  <2> QED BY <2>1, <2>2
<1>18. ASSUME NEW f \in Fibers, Leaves(f), ~ DrainApply PROVE Kept(g)
  <2>1. current = f /\ state[f] = "RUNNING" /\ UNCHANGED <<wake_pending, owed, generation>>
    BY <1>18, ConstantsAssumption
       DEF Leaves, EvYield, Finish, EvWaitAsync, EvWait, EvSleep, Running, Counts, InState
  <2>2. CASE g = f
    <3>1. CASE EvYield(f) \/ Finish(f)
      <4>1. state'[g] # "PARKED"
        BY <2>2, <3>1 DEF EvYield, Enqueue, Finish, TypeOK
      <4> QED BY <1>5, <1>18, <2>1, <2>2, <4>1
    <3>2. CASE \E delay \in Timeouts : EvWaitAsync(f, delay)
      BY <1>5, <1>18, <2>1, <2>2, <3>2 DEF EvWaitAsync
    <3>3. ASSUME NEW delay, NEW kind \in {"TIMER", "FD"}, ParkCurrent(kind) PROVE Kept(g)
      <4>1. park'[g] # "ASYNC"
        BY <2>1, <2>2, <3>3 DEF ParkCurrent, TypeOK
      <4> QED BY <1>5, <1>18, <2>1, <2>2, <4>1
    <3> QED BY <1>18, <3>1, <3>2, <3>3 DEF Leaves, EvWait, EvSleep
  <2>3. CASE g # f
    <3>1. state'[g] = state[g] /\ park'[g] = park[g] /\ wait_status'[g] = wait_status[g]
      BY <1>18, <2>1, <2>3 DEF Leaves, EvYield, Finish, EvWaitAsync, EvWait, EvSleep, ParkCurrent, Enqueue, TypeOK
    <3> QED BY <1>6, <1>18, <2>1, <3>1
  <2> QED BY <2>2, <2>3
<1>19. ASSUME NEW f \in Fibers, EvWaitAsyncPermit(f), ~ DrainApply PROVE Kept(g)
  <2>1. CASE g = f
    <3>1. state[f] = "RUNNING"
      BY <1>19, ConstantsAssumption DEF EvWaitAsyncPermit, Running, Counts, InState
    <3> QED BY <1>19, <2>1, <3>1 DEF EvWaitAsyncPermit, TypeOK, Kept
  <2>2. CASE g # f
    BY <1>6, <1>19, <2>2 DEF EvWaitAsyncPermit, TypeOK
  <2> QED BY <2>1, <2>2
<1>20. ASSUME NEW f \in Fibers, NEW fd \in Fds, EvCloseHeld(f, fd), ~ DrainApply PROVE Kept(g)
  <2>1. UNCHANGED <<park, wake_pending, owed, generation>>
    BY <1>20 DEF EvCloseHeld
  <2>2. CASE g = fd_owner[fd] /\ WaitsOn(g, fd)
    BY <1>5, <1>20, <2>1, <2>2 DEF EvCloseHeld, WaitsOn, Unpark, Resume, Enqueue, TypeOK
  <2>3. CASE ~ (g = fd_owner[fd] /\ WaitsOn(g, fd))
    <3>1. state'[g] = state[g] /\ wait_status'[g] = wait_status[g]
      BY <1>20, <2>3 DEF EvCloseHeld, Unpark, Resume, Enqueue, TypeOK
    <3> QED BY <1>6, <1>20, <2>1, <3>1
  <2> QED BY <2>2, <2>3
<1>21. ASSUME NEW f \in Fibers, NEW fd \in Fds, ~ DrainApply,
              EvWaitBusy(f, fd) \/ EvWaitFails(f, fd) \/ Close(f, fd) \/ Open(f, fd) \/ DoIO(f, fd)
       PROVE  Kept(g)
  BY <1>2, <1>21 DEF EvWaitBusy, EvWaitFails, waitFailedVars, Close, Open, DoIO
<1>22. CASE UNCHANGED vars /\ ~ DrainApply
  BY <1>2, <1>22 DEF vars
<1> QED
  BY <1>7, <1>8, <1>9, <1>10, <1>11, <1>12, <1>13, <1>14, <1>15, <1>16, <1>17, <1>18, <1>19, <1>20, <1>21, <1>22
     DEF Next, LoopStep, Environment, Spawn, Stays

-----------------------------------------------------------------------------
(* The theorems *)

(* cfiber_reactor_create establishes the invariant. *)
LEMMA InitIInv == ASSUME Init PROVE IInv
<1> USE DEF Init
<1>1. TypeOK
  <2>1. cmds = <<>> /\ cmds \in Seq(Ring!Entry) /\ taken = NoCmd
    BY DEF Ring!Init
  <2>2. ep \in [Fds -> [ptr : Fibers \cup {NoFiber}, armed : BOOLEAN]]
    BY DEF NoEntry
  <2>3. /\ state \in [Fibers -> States] /\ left \in [Fibers -> Nat \cup {NoTimer}]
        /\ generation \in [Fibers -> 0 .. MaxGen] /\ pokes \in 0 .. Posters
    BY ConstantsAssumption DEF States
  <2>4. /\ park \in [Fibers -> Parks \cup {None}] /\ wait_status \in [Fibers -> Statuses \cup {None}]
        /\ lpc \in LoopPc
    BY DEF LoopPc
  <2>5. /\ ready \in Seq(Fibers) /\ live \subseteq Fibers
        /\ stacks \in Nat /\ active \in Nat /\ blocked \in Nat
        /\ {current, zombie, entered, round_end} \subseteq Fibers \cup {NoFiber}
        /\ evs \subseteq [src : Fds \cup {EvFd}, ptr : Fibers \cup {NoFiber}]
        /\ issued \subseteq Handles
    OBVIOUS
  <2>6. /\ wake_pending \in [Fibers -> BOOLEAN] /\ reg_fd \in [Fibers -> Fds \cup {NoFd}]
        /\ wait_fd \in [Fibers -> Fds \cup {NoFd}] /\ fd_owner \in [Fds -> Fibers \cup {NoFiber}]
        /\ open \in [Fds -> BOOLEAN] /\ io \in [Fds -> BOOLEAN] /\ woken \in [Fibers -> BOOLEAN]
        /\ cancelled \in [Fibers -> BOOLEAN] /\ owed \in [Fibers -> BOOLEAN] /\ evfd \in BOOLEAN
    OBVIOUS
  <2> HIDE DEF Init
  <2> QED BY <2>1, <2>2, <2>3, <2>4, <2>5, <2>6 DEF TypeOK
<1>2. \A st \in States \ {"FREE"} : InState(st) = {}
  BY DEF InState
<1>3. Counts /\ LoopInv
  <2>1. IsInjective(ready) /\ Range(ready) = {}
    BY DEF IsInjective, Range
  <2> QED BY <1>2, <2>1, FS_EmptySet DEF Counts, Alive, LoopInv, States
<1>4. Bookkeeping
  BY <1>1, <1>3, PollCanEnd
<1>5. TimerIsParked /\ NoStackLeak /\ RoundHasEnd
  BY FS_EmptySet DEF TimerIsParked, NoStackLeak, RoundHasEnd
<1>6. PostInv
  <2>1. Unpublished = {}
    BY DEF Unpublished, Ring!Init
  <2> QED BY <2>1, FS_EmptySet, ConstantsAssumption DEF PostInv
<1>7. OwnerMap /\ ArmedIsWaiter /\ WaiterIsArmed /\ WaitInv /\ EventInv
  BY ConstantsAssumption DEF OwnerMap, ArmedIsWaiter, WaiterIsArmed, WaitInv, EventInv, NoEntry
<1>8. OnlyAsked /\ HandleInv /\ WakeInv
  BY DEF OnlyAsked, HandleInv, WakeInv
<1>9. CmdInv
  BY DEF CmdInv, Ring!Init
<1> QED BY <1>1, <1>3, <1>4, <1>5, <1>6, <1>7, <1>8, <1>9 DEF IInv

(* Every step preserves it. *)
LEMMA NextIInv == ASSUME IInv, [Next]_vars PROVE IInv'
<1>1. TypeOK' /\ Counts' /\ LoopInv'
  BY TypeStep, CountsStep, LoopStepInv
<1>2. Bookkeeping'
  BY <1>1, PollCanEnd, PTL
<1> QED
  BY <1>1, <1>2, TimerStep, StackStep, PostStep, RoundStep, RegStep, OnlyAskedStep, HandleStep, CmdStep, WakeStep
     DEF IInv, RegInv

(* The invariant holds in every state of the reactor, its posters, the      *)
(* kernel and the fibers.                                                   *)
THEOREM Invariance == Spec => []IInv
<1>1. Init => IInv
  BY InitIInv
<1>2. IInv /\ [Next]_vars => IInv'
  BY NextIInv
<1> QED BY <1>1, <1>2, PTL DEF Spec

(* The queue, the counters, the deadlines and the stacks agree with the     *)
(* fibers' states, and cfiber_reactor_run never polls with nothing that     *)
(* could end the wait (its ASSERT at reactor.c:1103).                       *)
THEOREM AccountingHolds == Spec => []Accounting
<1>1. IInv => Accounting
  BY DEF IInv, Accounting
<1> QED BY <1>1, Invariance, PTL

(* The fd_owner map, the fibers' reg_fd and the epoll set agree: an event   *)
(* reaches the fiber parked on that very descriptor, and a fiber parked on  *)
(* a descriptor is never forgotten.                                         *)
THEOREM RegistrationsHold == Spec => []RegistrationsAgree
<1>1. StaleIsTaken
  BY DEF StaleIsTaken, Taken, Fits, FirstOp
<1>2. IInv => RegistrationsAgree
  BY <1>1 DEF IInv, RegistrationsAgree
<1> QED BY <1>2, Invariance, PTL

(* The dispatch loop's test f == round_end comes true. *)
THEOREM RoundsEnd == Spec => []RoundHasEnd
<1>1. IInv => RoundHasEnd
  BY DEF IInv
<1> QED BY <1>1, Invariance, PTL

(* apply_cmd acts on the fiber a handle was given for, and on no later      *)
(* tenant of its block.                                                     *)
THEOREM HandlesAreExact == Spec => []OnlyAsked
<1>1. IInv => OnlyAsked
  BY DEF IInv
<1> QED BY <1>1, Invariance, PTL

(* A fiber in cfiber_ev_wait_async to which a wake is owed has one on its   *)
(* way: no order of wakes, waits and drains loses one.                      *)
THEOREM WakesAreKept == Spec => []NoWakeLost
<1>1. IInv => NoWakeLost
  <2> SUFFICES ASSUME IInv, NEW f \in Fibers, state[f] = "PARKED", park[f] = "ASYNC", owed[f]
               PROVE  OnItsWay(f)
    BY DEF NoWakeLost, OnItsWay
  <2> QED BY DEF IInv, WakeInv
<1> QED BY <1>1, Invariance, PTL

(* What unpark writes *)
LEMMA EndingWrites ==
    ASSUME TypeOK, NEW f \in Fibers, NEW status, Resume(f, status)
    PROVE  wait_status'[f] = status /\ state'[f] = "READY"
BY DEF TypeOK, Resume, Enqueue

(* A wait ends only for a reason its caller is told: a passed deadline, an  *)
(* event of the awaited descriptor, a wake of an async wait, or a request   *)
(* to cancel.                                                               *)
THEOREM EndsHaveReasons == Spec => WaitsEndForAReason
<1> DEFINE Reasoned == \A f \in Fibers : (state[f] = "PARKED" /\ state'[f] # "PARKED")
                           => state'[f] = "READY" /\ EndsForAReason(f)
<1>1. ASSUME IInv, [Next]_vars PROVE Reasoned
  <2> SUFFICES ASSUME NEW f \in Fibers, state[f] = "PARKED", state'[f] # "PARKED"
               PROVE  state'[f] = "READY" /\ EndsForAReason(f)
    OBVIOUS
  <2> TypeOK /\ Counts
    BY <1>1 DEF IInv, Counts, Bookkeeping, Alive
  <2>1. ASSUME NEW c \in Commands, ApplyCmd(c),
               c.gen = generation[c.f] =>
                   (c.kind = "WAKE" => woken'[c.f]) /\ (c.kind = "CANCEL" => cancelled'[c.f])
        PROVE  state'[f] = "READY" /\ EndsForAReason(f)
    <3>1. c.f = f /\ c.gen = generation[c.f]
      BY <2>1 DEF ApplyCmd, Stale, Unpark, Resume, Enqueue, KeepPermit, TypeOK
    <3>2. CASE c.kind = "CANCEL" /\ Unpark(c.f, "CANCELLED")
      BY <2>1, <3>1, <3>2, EndingWrites DEF Unpark, EndsForAReason
    <3>3. CASE c.kind = "WAKE" /\ WakeResumes(c) /\ Unpark(c.f, "READY")
      BY <2>1, <3>1, <3>3, EndingWrites DEF Unpark, EndsForAReason, WakeResumes
    <3> QED BY <2>1, <3>2, <3>3 DEF ApplyCmd, KeepPermit
  <2>2. CASE DrainApply
    BY <1>1, <2>1, <2>2, AppliedIsRecorded DEF DrainApply
  <2>3. ASSUME NEW g \in Fibers, NEW c \in Commands, EvCommand(g, c)
        PROVE  state'[f] = "READY" /\ EndsForAReason(f)
    BY <1>1, <2>1, <2>3, AppliedIsRecorded DEF EvCommand
  <2>4. ASSUME NEW e \in evs, EventFor(e) PROVE state'[f] = "READY" /\ EndsForAReason(f)
    <3>1. e.ptr = f /\ Resume(e.ptr, "READY")
      BY <2>4 DEF EventFor, Resume, Enqueue, TypeOK
    <3>2. park[f] = "FD" /\ wait_fd[f] = e.src
      BY <1>1, <2>4, <3>1 DEF EventFor, IInv, EventInv
    <3>3. e = [src |-> e.src, ptr |-> e.ptr]
      BY DEF TypeOK
    <3> QED BY <3>1, <3>2, <3>3, EndingWrites DEF EndsForAReason
  <2>5. ASSUME NEW g \in Fibers, FireTimer(g) PROVE state'[f] = "READY" /\ EndsForAReason(f)
    <3>1. g = f /\ left[f] = 0
      BY <2>5 DEF FireTimer, Resume, Enqueue, Expired, TypeOK
    <3>2. Resume(f, "TIMEOUT")
      BY <2>5, <3>1 DEF FireTimer
    <3> QED BY <3>1, <3>2, EndingWrites DEF EndsForAReason
  <2>6. ASSUME NEW g \in Fibers, NEW fd \in Fds, EvCloseHeld(g, fd)
        PROVE  state'[f] = "READY" /\ EndsForAReason(f)
    <3>1. fd_owner[fd] = f /\ Resume(f, "CANCELLED") /\ cancelled' = [cancelled EXCEPT ![f] = TRUE]
      BY <2>6 DEF EvCloseHeld, Unpark, Resume, Enqueue, TypeOK
    <3>2. cancelled'[f]
      BY <3>1 DEF TypeOK
    <3> QED BY <3>1, <3>2, EndingWrites DEF EndsForAReason
  <2>7. ASSUME UNCHANGED state PROVE FALSE
    BY <2>7
  <2>8. CASE Dispatch
    <3>1. Head(ready) \in Fibers /\ state[Head(ready)] = "READY"
      BY <2>8, TailOne DEF Dispatch, Counts, InState, TypeOK
    <3> QED BY <2>8, <3>1 DEF Dispatch, EnterFiber, TypeOK
  <2>9. CASE Back
    <3>1. zombie # NoFiber => state[zombie] = "ZOMBIE"
      BY DEF Counts, InState
    <3> QED BY <2>9, <3>1 DEF Back, Recycle, TypeOK
  <2>10. ASSUME NEW g \in Fibers, SpawnLocked(g) PROVE FALSE
    BY <2>10 DEF SpawnLocked, Obtainable, Enqueue, TypeOK
  <2>11. ASSUME NEW g \in Fibers, Leaves(g) PROVE FALSE
    <3>1. current = g /\ state[g] = "RUNNING"
      BY <2>11, ConstantsAssumption
         DEF Leaves, EvYield, Finish, EvWaitAsync, EvWait, EvSleep, Running, Counts, InState
    <3> QED BY <2>11, <3>1
      DEF Leaves, EvYield, Finish, EvWaitAsync, EvWait, EvSleep, ParkCurrent, Enqueue, TypeOK
  <2>12. CASE Run \/ RoundEmpty \/ FireDone \/ PollInterrupted \/ EventsDone \/ DrainClear
           \/ DrainDone \/ PollFails \/ EventForReactor \/ Poll \/ Destroy
    BY <2>7, <2>12 DEF Run, RoundEmpty, FireDone, PollInterrupted, EventsDone, DrainClear, DrainDone,
              PollFails, EventForReactor, Poll, Destroy, worldVars, fiberVars
  <2>13. CASE Environment
    BY <2>7, <2>13 DEF Environment, PostClaim, PostPublish, PostPoke, Tick, PeerActs, worldVars, fiberVars
  <2>14. ASSUME NEW g \in Fibers, SpawnNoStack(g) \/ EvWaitAsyncPermit(g) PROVE FALSE
    BY <2>7, <2>14 DEF SpawnNoStack, EvWaitAsyncPermit
  <2>15. ASSUME NEW g \in Fibers, NEW fd \in Fds,
                EvWaitBusy(g, fd) \/ EvWaitFails(g, fd) \/ Close(g, fd) \/ Open(g, fd) \/ DoIO(g, fd)
         PROVE  FALSE
    BY <2>7, <2>15 DEF EvWaitBusy, EvWaitFails, waitFailedVars, Close, Open, DoIO, worldVars, fiberVars
  <2>16. CASE UNCHANGED vars
    BY <2>7, <2>16 DEF vars, fiberVars
  <2> QED
    BY <1>1, <2>2, <2>3, <2>4, <2>5, <2>6, <2>8, <2>9, <2>10, <2>11, <2>12, <2>13, <2>14, <2>15, <2>16
       DEF Next, LoopStep, Spawn, Stays
<1>2. IInv /\ [Next]_vars => [Reasoned]_vars
  BY <1>1
<1> QED BY <1>2, Invariance, PTL DEF Spec, WaitsEndForAReason
=============================================================================
