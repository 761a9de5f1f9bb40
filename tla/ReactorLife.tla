----------------------------- MODULE ReactorLife -----------------------------
(***************************************************************************)
(* How reactors come and go (cfiber_reactor_create and _destroy in         *)
(* src/cfiber/reactor/reactor.c), and what their fibers' stacks do to the  *)
(* pool each reactor has, next to pools that user code makes for itself.   *)
(* What happens inside a run is in Reactor; here a fiber is spawned, uses  *)
(* its stack, and is finished or left over.                                *)
(***************************************************************************)
EXTENDS StackPool

CONSTANTS
    Reactors,        \* each names its stack pool too
    StackCache,      \* config.stack_cache, or 64 for 0
    Capacities       \* cache_capacity of the pools user code makes

ASSUME LifeAssumption ==
    /\ Reactors \subseteq Pools
    /\ StackCache \in Nat \ {0} /\ Capacities \subseteq Nat \ {0}

VARIABLES
    owns,            \* what the reactor has got from the system
    live,            \* the descriptors of the fibers on the list at live_head
    closing          \* the reactors inside cfiber_reactor_destroy

lifeVars == <<owns, live, closing>>
vars == <<poolVars, lifeVars>>

-----------------------------------------------------------------------------
(* What cfiber_reactor_create gets, in this order, before it has a pool.    *)
Steps == <<"memory", "fibers", "cells", "epfd", "evfd">>

(* What a reactor gets when it is used, freed without a look *)
OnDemand == {"heap", "fd_owner"}

Init ==
    /\ InitPools
    /\ owns = [r \in Reactors |-> {}]
    /\ live = [r \in Reactors |-> {}]
    /\ closing = {}

(* Mutant: the eventfd is closed and the epoll descriptor is not. *)
UndoneKeepsEpfd == {"evfd", "cells", "fibers", "memory"}

(* What the label fail gives back; a descriptor only if it is not -1, the   *)
(* others are no-ops on a member that is still zero.                        *)
Undone == {"evfd", "epfd", "cells", "fibers", "memory"}

(* cfiber_reactor_create with a step that fails: one of Steps, or the       *)
(* registration of evfd or the stack pool once all of them are done.        *)
ReactorCreateFails(r) ==
    /\ owns[r] = {}
    /\ \E n \in 0 .. Len(Steps) : owns' = [owns EXCEPT ![r] = {Steps[i] : i \in 1 .. n} \ Undone]
    /\ UNCHANGED <<poolVars, live, closing>>

ReactorCreate(r, max) ==
    /\ owns[r] = {}
    /\ PoolCreate(r, max, StackCache, 0)
    /\ owns' = [owns EXCEPT ![r] = Range(Steps)]
    /\ UNCHANGED <<live, closing>>

(* The reactor can be used: it is there, and not on its way out.            *)
Open(r) == pool[r] # NoPool /\ r \notin closing

(* The first timer, the first wait on a descriptor *)
Grow(r) ==
    /\ Open(r)
    /\ \E x \in OnDemand \ owns[r] : owns' = [owns EXCEPT ![r] = @ \cup {x}]
    /\ UNCHANGED <<poolVars, live, closing>>

(* The descriptors of fibers, and those of other user code *)
OfFibers == UNION {live[r] : r \in Reactors}

(* spawn_locked: a fiber that got no stack is not linked *)
Spawn(r, k) ==
    /\ Open(r)
    /\ k \notin OfFibers
    /\ PoolAlloc(r, k)
    /\ live' = IF held'[k] = NoStack THEN live ELSE [live EXCEPT ![r] = @ \cup {k}]
    /\ UNCHANGED <<owns, closing>>

(* A fiber's stack goes back to the reactor's pool: fiber_recycle, when the *)
(* fiber is done, and one turn of the loop over what is left of the list in *)
(* cfiber_reactor_destroy.                                                  *)
GiveBack(r, k) ==
    /\ k \in live[r]
    /\ PoolRelease(r, k)
    /\ live' = [live EXCEPT ![r] = @ \ {k}]
    /\ UNCHANGED <<owns, closing>>

FiberRecycle(r, k) == Open(r) /\ GiveBack(r, k)

(* cfiber_reactor_destroy, first: the fibers that never finished *)
DestroyStarts(r) ==
    /\ Open(r)
    /\ closing' = closing \cup {r}
    /\ UNCHANGED <<poolVars, owns, live>>

Discard(r, k) == r \in closing /\ GiveBack(r, k)

(* and then all the reactor has, its pool with what came to be cached there *)
DestroyEnds(r) ==
    /\ r \in closing /\ live[r] = {}
    /\ PoolDestroy(r)
    /\ owns' = [owns EXCEPT ![r] = @ \ (Range(Steps) \cup OnDemand)]
    /\ closing' = closing \ {r}
    /\ UNCHANGED live

-----------------------------------------------------------------------------
(* User code with a pool of its own, which it may destroy with stacks       *)
(* outstanding.  It gives a stack to a pool that has one outstanding (what  *)
(* the pool asserts), or that can tell by the size that it is not its own.  *)
UserPools == Pools \ Reactors

UserRelease(p, k) ==
    /\ PoolRelease(p, k)
    /\ Foreign(p, held[k]) \/ pool[p].active_count > 0

UserStep ==
    /\ \E p \in UserPools :
          \/ \E max \in Sizes, capacity \in Capacities :
                \E n \in 0 .. capacity : PoolCreate(p, max, capacity, n)
          \/ PoolDestroy(p)
          \/ \E k \in Holders \ OfFibers : PoolAlloc(p, k) \/ UserRelease(p, k)
    /\ UNCHANGED lifeVars

Next ==
    \/ \E r \in Reactors :
          \/ ReactorCreateFails(r) \/ Grow(r) \/ DestroyStarts(r) \/ DestroyEnds(r)
          \/ \E max \in Sizes : ReactorCreate(r, max)
          \/ \E k \in Holders : Spawn(r, k) \/ FiberRecycle(r, k) \/ Discard(r, k)
    \/ UserStep
    \/ \E k \in Holders : Touch(k) /\ UNCHANGED lifeVars

Spec == Init /\ [][Next]_vars

-----------------------------------------------------------------------------
(* Properties *)

(* A reactor is all there or not at all: after a creation that failed at    *)
(* any step, and after a teardown with fibers left in any state, nothing it *)
(* got from the system is kept and its pool had every stack back            *)
(* (ASSERT(leaked == 0), reactor.c:1261); while it is there, in a teardown  *)
(* half done too, the stacks outstanding are those of the fibers on its     *)
(* list.                                                                    *)
WholeOrGone ==
    \A r \in Reactors :
        /\ pool[r] = NoPool => owns[r] = {} /\ live[r] = {} /\ leaked[r] = 0
        /\ pool[r] # NoPool => /\ Range(Steps) \subseteq owns[r]
                               /\ live[r] \subseteq Carrying
                               /\ pool[r].active_count = Cardinality(live[r])
=============================================================================
