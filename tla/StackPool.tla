------------------------------ MODULE StackPool ------------------------------
(***************************************************************************)
(* Growable stacks (src/cfiber/stack/growable_stack.c) and the pools that  *)
(* cache them (growable_stack_allocator.c), as a release build runs them:  *)
(* an assertion that precedes a handled case is not there.                 *)
(*                                                                         *)
(* Sizes are in pages.  mmap, mprotect, munmap and madvise are external,   *)
(* and the system may refuse any of them.  The code looks at the answer of *)
(* the first two only; what the others were refused is remembered with the *)
(* mapping, for the properties to speak of and for nothing else.           *)
(***************************************************************************)
EXTENDS Integers, FiniteSets, SequencesExt

CONSTANTS
    Pools, NoPool,
    Bases,       \* where mmap may put a stack
    Holders,     \* cfiber_stack_t variables of the pools' users
    NoStack,     \* a descriptor with mem_base = nullptr
    Sizes        \* max_stack_size of the pools

(* cfiber_stack_t, struct cfiber_growable_stack_allocator *)
Stacks == [base : Bases, total_size : Nat]
Allocators ==
    [max_stack_size : Nat, total_size : Nat, cache : Seq(Stacks),
     cache_capacity : Nat, active_count : Int]

ASSUME PoolAssumption ==
    /\ Sizes \subseteq Nat \ {0}
    /\ IsFiniteSet(Holders)
    /\ NoStack \notin Stacks /\ NoPool \notin Allocators

VARIABLES
    pool,        \* struct cfiber_growable_stack_allocator, or NoPool
    held,        \* the descriptors the users keep
    mem,         \* the mappings, for each base
    leaked       \* result of the last cfiber_growable_stack_allocator_destroy

poolVars == <<pool, held, mem, leaked>>

-----------------------------------------------------------------------------
(* Growable stacks *)

Unmapped == [pages |-> 0, guard |-> FALSE, resident |-> 0, refused |-> "nothing"]
Free(m) == {b \in Bases : m[b] = Unmapped}

Mmap(m, b, pages) ==
    [m EXCEPT ![b] = [pages |-> pages, guard |-> FALSE, resident |-> 0, refused |-> "nothing"]]
Mprotect(m, b) == [m EXCEPT ![b].guard = TRUE]

(* munmap of the mappings at B, each with an answer nobody looks at: what   *)
(* the system refuses to unmap stays.                                       *)
Munmap(m, B) ==
    {[b \in Bases |-> IF b \in S THEN [m[b] EXCEPT !.refused = "munmap"]
                      ELSE IF b \in B THEN Unmapped ELSE m[b]] : S \in SUBSET B}

(* The stack and the guard page below it *)
Stack(b, max) == [base |-> b, total_size |-> max + 1]

(* Mutant: a mapping whose guard page cannot be protected is left behind. *)
UnguardedKept(m, b, max) == {Mmap(m, b, max + 1)}

(* mprotect fails: a stack without its guard page is not one to hand out *)
Unguarded(m, b, max) == Munmap(Mmap(m, b, max + 1), {b})

(* cfiber_growable_stack_create: mmap fails, mprotect fails, or all is well *)
Create(m, max) ==
    {[mem |-> m, stack |-> NoStack]}
    \cup {[mem |-> u, stack |-> NoStack] : u \in UNION {Unguarded(m, b, max) : b \in Free(m)}}
    \cup {[mem |-> Mprotect(Mmap(m, b, max + 1), b), stack |-> Stack(b, max)] :
              b \in Free(m)}

(* Mutant: a stack is left as it is unless it has three pages or more. *)
RecycledLate(m, s) ==
    {IF s.total_size - 1 > 2 THEN [m EXCEPT ![s.base].resident = 1] ELSE m}

(* cfiber_growable_stack_recycle: of the pages used the top one stays, or   *)
(* all of them where madvise, or the size of a page, cannot be had.         *)
Recycle(m, s) ==
    {[m EXCEPT ![s.base].resident = IF @ > 1 THEN 1 ELSE @, ![s.base].refused = "nothing"]}
    \cup IF s.total_size - 1 > 1 THEN {[m EXCEPT ![s.base].refused = "madvise"]} ELSE {}

(* A fiber uses its stack: more pages come to be resident. *)
Touch(k) ==
    /\ held[k] # NoStack
    /\ mem[held[k].base].resident < mem[held[k].base].pages - 1
    /\ mem' = [mem EXCEPT ![held[k].base].resident = @ + 1]
    /\ UNCHANGED <<pool, held, leaked>>

-----------------------------------------------------------------------------
(* The allocator *)

(* growable_allocator_cleanup: what is in the cache is unmapped *)
Cleanup(m, cache) == Munmap(m, {cache[i].base : i \in DOMAIN cache})

(* Stacks created one after the other, at the places of made *)
Fill(m, made, max) ==
    [b \in Bases |-> IF b \in Range(made) THEN Mprotect(Mmap(m, b, max + 1), b)[b] ELSE m[b]]

InitPools ==
    /\ pool = [p \in Pools |-> NoPool]
    /\ held = [k \in Holders |-> NoStack]
    /\ mem = [b \in Bases |-> Unmapped]
    /\ leaked = [p \in Pools |-> 0]

(* cfiber_growable_stack_allocator_create.  made is where the stacks of the *)
(* initial cache came to be; if the next cannot be had, all go again.       *)
PoolCreate(p, max, capacity, initial_cached) ==
    /\ pool[p] = NoPool
    /\ capacity > 0 /\ initial_cached <= capacity
    /\ \E n \in 0 .. initial_cached : \E made \in Injection(1 .. n, Free(mem)) :
       LET cache == [i \in 1 .. n |-> Stack(made[i], max)]
           m == Fill(mem, made, max)
       IN  IF n < initial_cached
           THEN mem' \in Cleanup(m, cache) /\ UNCHANGED pool
           ELSE /\ mem' = m
                /\ pool' = [pool EXCEPT ![p] =
                     [max_stack_size |-> max, total_size |-> max + 1, cache |-> cache,
                      cache_capacity |-> capacity, active_count |-> 0]]
    /\ UNCHANGED <<held, leaked>>

(* cfiber_growable_stack_allocator_destroy *)
PoolDestroy(p) ==
    /\ pool[p] # NoPool
    /\ leaked' = [leaked EXCEPT ![p] = IF pool[p].active_count # 0 THEN -1 ELSE 0]
    /\ mem' \in Cleanup(mem, pool[p].cache)
    /\ pool' = [pool EXCEPT ![p] = NoPool]
    /\ UNCHANGED held

(* cfiber_growable_stack_alloc into the descriptor k *)
PoolAlloc(p, k) ==
    /\ pool[p] # NoPool
    /\ held[k] = NoStack
    /\ \/ /\ pool[p].cache # <<>>
          /\ pool' = [pool EXCEPT ![p].active_count = @ + 1, ![p].cache = Front(@)]
          /\ held' = [held EXCEPT ![k] = Last(pool[p].cache)]
          /\ UNCHANGED mem
       \/ /\ pool[p].cache = <<>>
          /\ \E r \in Create(mem, pool[p].max_stack_size) :
                /\ mem' = r.mem
                /\ held' = [held EXCEPT ![k] = r.stack]
                /\ pool' = IF r.stack = NoStack THEN pool
                           ELSE [pool EXCEPT ![p].active_count = @ + 1]
    /\ UNCHANGED leaked

(* The pool only knows its stacks by their size. *)
Foreign(p, s) == s.total_size # pool[p].total_size

CacheFull(p) == Len(pool[p].cache) >= pool[p].cache_capacity

(* cfiber_growable_stack_release: the descriptor is cleared in every case *)
PoolRelease(p, k) ==
    /\ pool[p] # NoPool
    /\ held[k] # NoStack
    /\ LET s == held[k] IN
       \/ /\ Foreign(p, s)
          /\ mem' \in Munmap(mem, {s.base})
          /\ UNCHANGED pool
       \/ /\ ~ Foreign(p, s) /\ CacheFull(p)
          /\ mem' \in Munmap(mem, {s.base})
          /\ pool' = [pool EXCEPT ![p].active_count = @ - 1]
       \/ /\ ~ Foreign(p, s) /\ ~ CacheFull(p)
          /\ mem' \in Recycle(mem, s)
          /\ pool' = [pool EXCEPT ![p].active_count = @ - 1, ![p].cache = Append(@, s)]
    /\ held' = [held EXCEPT ![k] = NoStack]
    /\ UNCHANGED leaked

-----------------------------------------------------------------------------
(* Properties *)

There == {p \in Pools : pool[p] # NoPool}
Carrying == {k \in Holders : held[k] # NoStack}
Cached == UNION {{<<p, i>> : i \in DOMAIN pool[p].cache} : p \in There}

(* Every mapping has exactly one owner, a place in one cache or a           *)
(* descriptor of one user, but those the system would not unmap, which have *)
(* none; and every owner has a mapping of the size it believes in, with its *)
(* guard page: nothing leaks through a failed creation, a full cache, a     *)
(* stack of another pool or a destroyed pool, and no two fibers run on one  *)
(* stack.                                                                   *)
OwnedOnce ==
    LET At(c) == pool[c[1]].cache[c[2]] IN
    /\ \A c, d \in Cached : At(c).base = At(d).base => c = d
    /\ \A k, l \in Carrying : held[k].base = held[l].base => k = l
    /\ \A c \in Cached, k \in Carrying : At(c).base # held[k].base
    /\ {b \in Bases : mem[b] # Unmapped /\ mem[b].refused # "munmap"}
          = {At(c).base : c \in Cached} \cup {held[k].base : k \in Carrying}
    /\ \A s \in {At(c) : c \in Cached} \cup {held[k] : k \in Carrying} :
          mem[s.base].guard /\ mem[s.base].pages = s.total_size

(* What a pool keeps in reserve can be handed out as its own: stacks of the *)
(* pool's size, no more than its capacity, however they were used and       *)
(* wherever they came from.  Each costs one page of memory at most, but for *)
(* one whose pages the system would not take when it came into the cache    *)
(* (growable_stack.c:84-93 goes on all the same).                           *)
CacheIsLean ==
    \A p \in There :
        /\ Len(pool[p].cache) <= pool[p].cache_capacity
        /\ \A i \in DOMAIN pool[p].cache :
              LET s == pool[p].cache[i] IN
              /\ s.total_size = pool[p].max_stack_size + 1
              /\ mem[s.base].resident <= 1 \/ mem[s.base].refused = "madvise"
=============================================================================
