------------------------------ MODULE Multislab ------------------------------
(***************************************************************************)
(* The multislab allocator (src/cfiber/memory/multislab_alloc.c): a chain  *)
(* of slabs that grows when all are full and gives empty ones back, under  *)
(* the scheduler's tasks and stacks and the reactor's fibers.              *)
(*                                                                         *)
(* A slab node is named by the place its raw_memory has in the address     *)
(* space; neighbouring places touch.  An allocation that fails still moves *)
(* slabs between the lists; a release that is rejected (CFIBER_DEFENSIVE   *)
(* with NDEBUG) changes nothing.                                           *)
(***************************************************************************)
EXTENDS SlabBitmap, Sequences, SequencesExt

CONSTANTS
    Places,          \* bound of the model: how many slabs fit into memory
    BlockCounts,     \* values of blocks_per_slab
    MaxSlabs,        \* values of max_slabs, 0 for no limit
    Reserves,        \* values of hysteresis_threshold
    MemFails         \* mem_alloc may fail

ASSUME MultislabAssumption ==
    /\ Places \in Nat
    /\ BlockCounts \subseteq 1 .. MaxBlocks
    /\ MaxSlabs \subseteq Nat /\ Reserves \subseteq Nat
    /\ MemFails \in BOOLEAN

Nodes == 0 .. Places - 1

VARIABLES
    \* cfiber_multislab_t
    inited, blocks_per_slab, max_slabs, max_empty_reserve,
    active, full,    \* the lists
    slab_count, empty_count,
    \* cfiber_slab_node_t, one function per field
    bitmap, used_count, is_full,
    \* the backing allocator and the user
    mem,             \* allocations outstanding with mem_alloc
    held             \* blocks handed out and not given back

confVars == <<inited, blocks_per_slab, max_slabs, max_empty_reserve>>
nodeVars == <<bitmap, used_count, is_full>>
vars == <<confVars, active, full, slab_count, empty_count, nodeVars, mem, held>>

-----------------------------------------------------------------------------
SlabMemorySize == BlockSize * blocks_per_slab
RawMemory(n) == n * SlabMemorySize
Listed == Range(active) \cup Range(full)

Init ==
    /\ inited = FALSE /\ blocks_per_slab = 0 /\ max_slabs = 0 /\ max_empty_reserve = 0
    /\ active = <<>> /\ full = <<>>
    /\ slab_count = 0 /\ empty_count = 0
    /\ bitmap = [n \in Nodes |-> EmptyBitmap]
    /\ used_count = [n \in Nodes |-> 0]
    /\ is_full = [n \in Nodes |-> FALSE]
    /\ mem = 0 /\ held = {}

(* cfiber_multislab_init_ext: an empty chain, nothing is allocated. *)
MultislabInit(count, limit, reserve) ==
    /\ ~ inited
    /\ inited' = TRUE
    /\ blocks_per_slab' = count /\ max_slabs' = limit /\ max_empty_reserve' = reserve
    /\ UNCHANGED <<active, full, slab_count, empty_count, nodeVars, mem, held>>

-----------------------------------------------------------------------------
(* cfiber_multislab_alloc *)

Free(n) == BitmapFindFree(bitmap[n], WordsFor(blocks_per_slab), blocks_per_slab)

(* How many slabs at the head of the active list turn out to be full *)
FullAhead == IF \E i \in DOMAIN active : Free(active[i]) # NotFound
             THEN SelectInSeq(active, LAMBDA n : Free(n) # NotFound) - 1
             ELSE Len(active)

(* Mutant: the slabs are moved but not marked. *)
MoveFullUnmarked ==
    /\ full' = Reverse(SubSeq(active, 1, FullAhead)) \o full
    /\ UNCHANGED is_full

(* They are pushed, one by one, onto the full list. *)
MoveFull ==
    LET moved == SubSeq(active, 1, FullAhead) IN
    /\ full' = Reverse(moved) \o full
    /\ is_full' = [n \in Nodes |-> is_full[n] \/ n \in Range(moved)]

Rest == SubSeq(active, FullAhead + 1, Len(active))

(* Block i of slab n goes to the caller. *)
HandOut(n, i) ==
    /\ bitmap' = [bitmap EXCEPT ![n] = BitmapSet(@, i)]
    /\ held' = held \cup {IndexToPtr(RawMemory(n), i)}

(* A slab of the active list has a block. *)
AllocActive ==
    /\ inited
    /\ Rest # <<>>
    /\ MoveFull
    /\ active' = Rest
    /\ LET n == Head(Rest) IN
       /\ HandOut(n, Free(n))
       /\ used_count' = [used_count EXCEPT ![n] = @ + 1]
       /\ empty_count' = IF used_count[n] = 0 THEN empty_count - 1 ELSE empty_count
    /\ UNCHANGED <<confVars, slab_count, mem>>

AtLimit == max_slabs > 0 /\ slab_count >= max_slabs

(* Every slab is full: multislab_grow, and the first block of the new slab. *)
(* The new slab counts as empty until then.                                 *)
AllocGrow(n) ==
    /\ inited
    /\ Rest = <<>>
    /\ MoveFull
    /\ ~ AtLimit
    /\ n \notin Listed
    /\ active' = <<n>>
    /\ bitmap' = [bitmap EXCEPT ![n] = BitmapSet(EmptyBitmap, 0)]
    /\ held' = held \cup {IndexToPtr(RawMemory(n), 0)}
    /\ used_count' = [used_count EXCEPT ![n] = 1]
    /\ slab_count' = slab_count + 1
    /\ mem' = mem + 2
    /\ UNCHANGED <<confVars, empty_count>>

(* multislab_grow is at the limit or gets no memory (a node allocated       *)
(* before that is freed); the caller gets NULL.                             *)
AllocFails ==
    /\ inited
    /\ Rest = <<>>
    /\ MoveFull
    /\ AtLimit \/ MemFails
    /\ active' = <<>>
    /\ UNCHANGED <<confVars, slab_count, empty_count, bitmap, used_count, mem, held>>

-----------------------------------------------------------------------------
(* cfiber_multislab_release *)

(* Mutant: the end of a slab's memory counts as part of it. *)
OwnsToTheEnd(n, ptr) == RawMemory(n) <= ptr /\ ptr <= RawMemory(n) + SlabMemorySize

Owns(n, ptr) == RawMemory(n) <= ptr /\ ptr < RawMemory(n) + SlabMemorySize

(* find_owning_slab: the first slab of either list whose memory holds ptr *)
Searched == active \o full
Owning(ptr) == Searched[SelectInSeq(Searched, LAMBDA n : Owns(n, ptr))]

(* The release is neither "not owned" nor rejected by the slab. *)
Releases(ptr) ==
    /\ \E n \in Listed : Owns(n, ptr)
    /\ LET n == Owning(ptr)
       IN Accepts(bitmap[n], RawMemory(n), blocks_per_slab, ptr)

(* The active list after a release in slab n, which leaves the full list    *)
ActiveWith(n) == IF is_full[n] THEN <<n>> \o active ELSE active

(* Mutant: the last slab is given back like any other. *)
GivesBackAny(n) == used_count[n] = 1 /\ empty_count + 1 > max_empty_reserve

(* The release empties n beyond the reserve: it goes back. *)
GivesBack(n) ==
    used_count[n] = 1 /\ empty_count + 1 > max_empty_reserve /\ slab_count > 1

Release(ptr) ==
    /\ inited
    /\ Releases(ptr)
    /\ LET n == Owning(ptr) IN
       /\ bitmap' = [bitmap EXCEPT ![n] = BitmapClear(@, PtrToIndex(RawMemory(n), ptr))]
       /\ used_count' = [used_count EXCEPT ![n] = @ - 1]
       /\ is_full' = [is_full EXCEPT ![n] = FALSE]
       /\ full' = IF is_full[n] THEN RemoveFirst(full, n) ELSE full
       /\ \/ /\ GivesBack(n)
             /\ active' = RemoveFirst(active, n)
             /\ slab_count' = slab_count - 1
             /\ mem' = mem - 2
             /\ UNCHANGED empty_count
          \/ /\ ~ GivesBack(n)
             /\ active' = ActiveWith(n)
             /\ empty_count' = IF used_count[n] = 1 THEN empty_count + 1 ELSE empty_count
             /\ UNCHANGED <<slab_count, mem>>
    /\ held' = held \ {ptr}
    /\ UNCHANGED confVars

(* cfiber_multislab_destroy: every node, and every block with it *)
MultislabDestroy ==
    /\ inited
    /\ inited' = FALSE
    /\ blocks_per_slab' = 0 /\ max_slabs' = 0 /\ max_empty_reserve' = 0
    /\ active' = <<>> /\ full' = <<>>
    /\ slab_count' = 0 /\ empty_count' = 0
    /\ bitmap' = [n \in Nodes |-> EmptyBitmap]
    /\ used_count' = [n \in Nodes |-> 0]
    /\ is_full' = [n \in Nodes |-> FALSE]
    /\ mem' = mem - 2 * Cardinality(Listed)
    /\ held' = {}

Pointers == 0 .. Places * (BlockSize * MaxBlocks)

Next ==
    \/ \E count \in BlockCounts, limit \in MaxSlabs, reserve \in Reserves :
          MultislabInit(count, limit, reserve)
    \/ AllocActive \/ AllocFails
    \/ \E n \in Nodes : AllocGrow(n)
    \/ \E ptr \in Pointers : Release(ptr)
    \/ MultislabDestroy

Spec == Init /\ [][Next]_vars

-----------------------------------------------------------------------------
(* Properties *)

TypeOK ==
    /\ inited \in BOOLEAN
    /\ blocks_per_slab \in BlockCounts \cup {0}
    /\ max_slabs \in MaxSlabs \cup {0} /\ max_empty_reserve \in Reserves \cup {0}
    /\ active \in Seq(Nodes) /\ full \in Seq(Nodes)
    /\ slab_count \in Nat /\ empty_count \in Nat /\ mem \in Nat
    /\ bitmap \in [Nodes -> Bitmaps]
    /\ used_count \in [Nodes -> 0 .. MaxBlocks]
    /\ is_full \in [Nodes -> BOOLEAN]
    /\ held \subseteq Pointers

(* The word-wise search of the bitmap finds a free block of a slab exactly  *)
(* when there is one, and then the one with the least index, whether or not *)
(* the blocks fill the last word.                                           *)
FindsLeastFree ==
    \A n \in Listed :
        LET free == {i \in 0 .. blocks_per_slab - 1 :
                        IndexToPtr(RawMemory(n), i) \notin held}
        IN Free(n) = IF free = {} THEN NotFound ELSE Min(free)

(* A release is accepted exactly for the blocks in use, among all addresses *)
(* in and around the slabs: a block's owner is found on whichever list and  *)
(* at whichever end of its memory, a stale or foreign address is refused.   *)
ReleasesExactlyHeld == \A ptr \in Pointers : Releases(ptr) <=> ptr \in held

(* The comment at multislab_alloc.c:45: "empty_count == number of nodes     *)
(* with used_count == 0", over any sequence of calls; and no more of them   *)
(* are kept than the reserve, or one if that is smaller.                    *)
EmptyCountExact ==
    /\ empty_count = Cardinality({n \in Listed : used_count[n] = 0})
    /\ empty_count <= Max({max_empty_reserve, 1})

(* Every slab is on one list, the one is_full says, its count is that of    *)
(* its marked blocks, and the full list holds no slab with room: an         *)
(* allocation fails or grows only when every block is in use, although      *)
(* slabs become full without being moved.  What was asked of the backing    *)
(* allocator is what the lists hold, through failures halfway into growing. *)
ListsAgree ==
    /\ IsInjective(active \o full)
    /\ slab_count = Cardinality(Listed)
    /\ mem = 2 * Cardinality(Listed)
    /\ \A n \in Listed :
          /\ is_full[n] <=> n \in Range(full)
          /\ used_count[n] = Cardinality(Marked(bitmap[n], RawMemory(n)))
    /\ \A n \in Range(full) : used_count[n] = blocks_per_slab

(* The allocator's books, over any sequence of calls and failures *)
BooksAgree == TypeOK /\ EmptyCountExact /\ ListsAgree

(* A slab leaves the chain only when none of its blocks is in use and one   *)
(* other remains; with the reserve the reactor asks for, larger than any    *)
(* number of slabs, never before it is destroyed.  Stale reactor handles    *)
(* are read on the strength of this.                                        *)
SlabsAreKept ==
    [][inited' =>
         \A n \in Listed : n \notin Listed' =>
             /\ max_empty_reserve < Cardinality(Nodes)
             /\ Listed' # {}
             /\ \A ptr \in held' : ~ Owns(n, ptr)]_vars
=============================================================================
