------------------------------ MODULE TimerHeap ------------------------------
(***************************************************************************)
(* The reactor's timers (src/cfiber/reactor/reactor.c, "Timer min-heap"):  *)
(* a binary heap of fibers ordered by deadline_ns, in which every fiber    *)
(* knows its place (timer_i) so that a wait that ends for another reason   *)
(* can take its deadline out of the middle.                                *)
(*                                                                         *)
(* One iteration of a sift loop is one action, so that the invariant of    *)
(* each loop can be stated and proved.  Nothing else runs meanwhile: the   *)
(* heap belongs to the loop thread.                                        *)
(*                                                                         *)
(* heap is the used part of the array s->heap, indexed from 0 as in the    *)
(* code; heap_cap is how much of it realloc has provided.                  *)
(***************************************************************************)
EXTENDS Integers

CONSTANTS
    Fibers,
    NoFiber,
    InitCap,     \* TIMER_HEAP_INIT_CAP
    Growth,      \* TIMER_HEAP_GROWTH
    MaxTime      \* bound of the model: the clock stops here

ASSUME FibersAssumption == NoFiber \notin Fibers
ASSUME CapAssumption == InitCap \in Nat \ {0} /\ Growth \in Nat /\ Growth >= 2
ASSUME TimeAssumption == MaxTime \in Nat

VARIABLES
    heap, heap_len, heap_cap,
    timer_i,     \* each fiber's place in the heap, or NoTimer
    deadline_ns,
    pc,          \* where the loop thread is: in a sift loop, or in neither
    i,           \* the cursor of the sift loop
    top,         \* the place timer_remove filled: heap_sift_up starts there
    firing,      \* timer_remove was called by fire_expired_timers
    now

heapVars == <<heap, heap_len, heap_cap, timer_i, deadline_ns>>
vars == <<heapVars, pc, i, top, firing, now>>

-----------------------------------------------------------------------------
NoTimer == -1

(* NO_DEADLINE: where a timeout saturates; the clock does not get there. *)
Never == MaxTime + 1

Deadlines == 0 .. Never

Slots == 0 .. heap_len - 1

Parent(j) == (j - 1) \div 2
Left(j) == 2 * j + 1
Right(j) == 2 * j + 2

(* The deadline at place j *)
At(j) == deadline_ns[heap[j]]

Init ==
    /\ heap = [j \in {} |-> NoFiber] /\ heap_len = 0 /\ heap_cap = 0
    /\ timer_i = [f \in Fibers |-> NoTimer]
    /\ deadline_ns = [f \in Fibers |-> Never]
    /\ pc = "idle" /\ i = 0 /\ top = 0
    /\ firing = FALSE /\ now = 0

-----------------------------------------------------------------------------
(* Mutant: the heap is thought large enough until it has overflowed. *)
ReservedOffByOne ==
    IF heap_len <= heap_cap THEN heap_cap
    ELSE IF heap_cap = 0 THEN InitCap ELSE heap_cap * Growth

(* heap_reserve(s, heap_len + 1): enough for one more as it is, or after    *)
(* growing.  The code's loop to reach "need" never iterates, because the    *)
(* capacity at least doubles and one more is all that is asked for.         *)
Reserved ==
    IF heap_len + 1 <= heap_cap THEN heap_cap
    ELSE IF heap_cap = 0 THEN InitCap ELSE heap_cap * Growth

(* timer_add, up to its call of heap_sift_up.  If realloc fails nothing     *)
(* changes and the fiber does not park.  Only the running fiber adds a      *)
(* timer, and it has none (Reactor!TimerIsParked).                          *)
TimerAdd(f, d) ==
    /\ pc = "idle" /\ ~ firing
    /\ timer_i[f] = NoTimer
    /\ d >= now
    /\ heap_cap' = Reserved
    /\ deadline_ns' = [deadline_ns EXCEPT ![f] = d]
    /\ timer_i' = [timer_i EXCEPT ![f] = heap_len]
    /\ heap_len' = heap_len + 1
    /\ heap' = [j \in 0 .. heap_len |-> IF j = heap_len THEN f ELSE heap[j]]
    /\ pc' = "up" /\ i' = heap_len
    /\ UNCHANGED <<top, firing, now>>

(* timer_remove of a fiber in the heap, up to its call of heap_sift_down.   *)
(* Nothing reads the deadline of a fiber that is not in the heap.           *)
Remove(f) ==
    LET hole == timer_i[f]
        last == heap_len - 1 IN
    /\ deadline_ns' = [deadline_ns EXCEPT ![f] = Never]
    /\ heap_len' = last
    /\ heap' = [j \in 0 .. last - 1 |-> IF j = hole THEN heap[last] ELSE heap[j]]
    /\ \/ /\ hole = last
          /\ timer_i' = [timer_i EXCEPT ![f] = NoTimer]
          /\ UNCHANGED <<pc, i, top>>
       \/ /\ hole # last
          /\ timer_i' = [timer_i EXCEPT ![f] = NoTimer, ![heap[last]] = hole]
          /\ pc' = "down" /\ i' = hole /\ top' = hole
    /\ UNCHANGED <<heap_cap, now>>

(* timer_remove, called by unpark or for an event; a fiber that is not in   *)
(* the heap is an early return.                                             *)
TimerRemove(f) ==
    /\ pc = "idle" /\ ~ firing
    /\ timer_i[f] # NoTimer
    /\ Remove(f)
    /\ UNCHANGED firing

-----------------------------------------------------------------------------
(* The sift loops *)

(* Mutant: only the fiber that moves up learns its new place. *)
HeapSwapOneIndex(a, b) ==
    /\ heap' = [heap EXCEPT ![a] = heap[b], ![b] = heap[a]]
    /\ timer_i' = [timer_i EXCEPT ![heap[b]] = a]
    /\ UNCHANGED <<heap_len, heap_cap, deadline_ns>>

HeapSwap(a, b) ==
    /\ heap' = [heap EXCEPT ![a] = heap[b], ![b] = heap[a]]
    /\ timer_i' = [timer_i EXCEPT ![heap[b]] = a, ![heap[a]] = b]
    /\ UNCHANGED <<heap_len, heap_cap, deadline_ns>>

(* The loop's two ways out: the root is reached, or the parent is no later. *)
Settled == i > 0 => At(Parent(i)) <= At(i)

SiftUp ==
    /\ pc = "up"
    /\ ~ Settled
    /\ HeapSwap(i, Parent(i))
    /\ i' = Parent(i)
    /\ UNCHANGED <<pc, top, firing, now>>

(* The last loop ends, and with it timer_add or timer_remove. *)
SiftUpDone ==
    /\ pc = "up"
    /\ Settled
    /\ pc' = "idle" /\ i' = 0 /\ top' = 0
    /\ UNCHANGED <<heapVars, firing, now>>

(* Mutant: the right child is only looked at if the left one is not smaller. *)
SmallestLeftFirst(j) ==
    IF Left(j) < heap_len /\ At(Left(j)) < At(j) THEN Left(j)
    ELSE IF Right(j) < heap_len /\ At(Right(j)) < At(j) THEN Right(j) ELSE j

(* Which of j and its children has the earliest deadline *)
Smallest(j) ==
    LET s == IF Left(j) < heap_len /\ At(Left(j)) < At(j) THEN Left(j) ELSE j
    IN IF Right(j) < heap_len /\ At(Right(j)) < At(s) THEN Right(j) ELSE s

SiftDown ==
    /\ pc = "down"
    /\ Smallest(i) # i
    /\ HeapSwap(i, Smallest(i))
    /\ i' = Smallest(i)
    /\ UNCHANGED <<pc, top, firing, now>>

(* Mutant: a removal from the middle only sifts down. *)
SiftDownDoneNoUp ==
    /\ pc = "down"
    /\ Smallest(i) = i
    /\ pc' = "idle" /\ i' = 0 /\ top' = 0
    /\ UNCHANGED <<heapVars, firing, now>>

(* heap_sift_down ends; heap_sift_up starts where the hole was. *)
SiftDownDone ==
    /\ pc = "down"
    /\ Smallest(i) = i
    /\ pc' = "up" /\ i' = top
    /\ UNCHANGED <<heapVars, top, firing, now>>

-----------------------------------------------------------------------------
(* fire_expired_timers *)

FireBegin ==
    /\ pc = "idle" /\ ~ firing
    /\ firing' = TRUE
    /\ UNCHANGED <<heapVars, pc, i, top, now>>

Expired == heap_len > 0 /\ At(0) <= now

FirePop ==
    /\ pc = "idle" /\ firing
    /\ Expired
    /\ Remove(heap[0])
    /\ UNCHANGED firing

FireEnd ==
    /\ pc = "idle" /\ firing
    /\ ~ Expired
    /\ firing' = FALSE
    /\ UNCHANGED <<heapVars, pc, i, top, now>>

(* The clock; fire_expired_timers reads it once. *)
Tick ==
    /\ pc = "idle" /\ ~ firing
    /\ now < MaxTime
    /\ now' = now + 1
    /\ UNCHANGED <<heapVars, pc, i, top, firing>>

Sift == SiftUp \/ SiftUpDone \/ SiftDown \/ SiftDownDone

Next ==
    \/ \E f \in Fibers : (\E d \in Deadlines : TimerAdd(f, d)) \/ TimerRemove(f)
    \/ Sift
    \/ FireBegin \/ FirePop \/ FireEnd
    \/ Tick

Spec == Init /\ [][Next]_vars

-----------------------------------------------------------------------------
(* Properties *)

TypeOK ==
    /\ heap_len \in Nat /\ heap_cap \in Nat
    /\ heap \in [Slots -> Fibers]
    /\ timer_i \in [Fibers -> Nat \cup {NoTimer}]
    /\ deadline_ns \in [Fibers -> Deadlines]
    /\ pc \in {"idle", "up", "down"}
    /\ i \in Nat /\ top \in Nat
    /\ firing \in BOOLEAN /\ now \in 0 .. MaxTime

(* The array is never written past what realloc provided. *)
WithinCapacity == heap_len <= heap_cap

(* timer_i and heap are each other's inverse through every swap: what       *)
(* timer_remove takes out is the fiber it was asked to, and no fiber keeps  *)
(* the place of another.                                                    *)
PlacesKnown ==
    /\ \A j \in Slots : timer_i[heap[j]] = j
    /\ \A f \in Fibers : timer_i[f] # NoTimer => timer_i[f] \in Slots /\ heap[timer_i[f]] = f

(* Between operations the root is the earliest of all pending deadlines,    *)
(* which is all that next_timeout_ms and fire_expired_timers look at.       *)
RootIsEarliest ==
    pc = "idle" => \A j \in Slots : At(0) <= At(j)

(* The heap implements the set of timers: every operation adds or removes   *)
(* one deadline and touches no other, timers fire earliest first, and when  *)
(* fire_expired_timers returns none of those left has expired.              *)
Timers ==
    INSTANCE TimerSet WITH
        timers <- [f \in {g \in Fibers : timer_i[g] # NoTimer} |-> deadline_ns[f]]

ImplementsTimerSet == Timers!Spec

-----------------------------------------------------------------------------
(* The inductive invariant *)

InOrder(j) == At(Parent(j)) <= At(j)

(* A child that is skipped over on the way up is not earlier than its       *)
(* grandparent.                                                             *)
Skips(c) == \A j \in Slots : (j > 0 /\ Parent(j) = c /\ c > 0) => At(Parent(c)) <= At(j)

(* While sifting up, only the edge above the cursor may be out of order. *)
UpInv ==
    /\ i \in Slots
    /\ \A j \in Slots : j > 0 /\ j # i => InOrder(j)
    /\ Skips(i)

(* While sifting down, the edges below the cursor may be; and the one above *)
(* it as long as the cursor is where the hole was.                          *)
DownInv ==
    /\ i \in Slots /\ top \in Slots
    /\ \A j \in Slots : j > 0 /\ j # i /\ Parent(j) # i => InOrder(j)
    /\ i # top => InOrder(i) /\ i > top
    /\ Skips(i)

HeapInv ==
    /\ pc = "idle" => \A j \in Slots : j > 0 => InOrder(j)
    /\ pc = "up" => UpInv
    /\ pc = "down" => DownInv

IInv == TypeOK /\ WithinCapacity /\ PlacesKnown /\ HeapInv
=============================================================================
