-------------------------- MODULE ReactorLifeProofs --------------------------
(***************************************************************************)
(* Stacks have one owner and reactors are whole or gone, for any number of *)
(* reactors, pools, stacks and fibers, and any sizes.                      *)
(*                                                                         *)
(* The invariant is that of the pools (StackPool), which every user of     *)
(* them keeps, and that of the reactors, whose pools only they use.        *)
(***************************************************************************)
EXTENDS ReactorLife, FiniteSetTheorems, TLAPS

(* What there may be at a place in memory *)
Mappings == [pages : Nat, guard : BOOLEAN, resident : Nat,
             refused : {"nothing", "madvise", "munmap"}]

(* The cache of p, empty where there is no pool *)
Cache(p) == IF pool[p] = NoPool THEN <<>> ELSE pool[p].cache

(* The types of StackPool's variables *)
PoolTypes ==
    /\ pool \in [Pools -> Allocators \cup {NoPool}]
    /\ held \in [Holders -> Stacks \cup {NoStack}]
    /\ mem \in [Bases -> Mappings]
    /\ leaked \in [Pools -> {0, -1}]

(* A mapping, and nobody tried to unmap it *)
Kept(b) == mem[b] # Unmapped /\ mem[b].refused # "munmap"

(* A mapping with its guard page, of the size its owner believes in *)
Backs(s) == Kept(s.base) /\ mem[s.base].guard /\ mem[s.base].pages = s.total_size

(* A mapping with an owner: a place in a cache, or a user *)
InCache(b) == \E p \in Pools : \E i \in DOMAIN Cache(p) : Cache(p)[i].base = b
InUse(b) == \E k \in Carrying : held[k].base = b

(* OwnedOnce, owner by owner *)
Owned ==
    /\ \A p, q \in Pools : \A i \in DOMAIN Cache(p), j \in DOMAIN Cache(q) :
          Cache(p)[i].base = Cache(q)[j].base => p = q /\ i = j
    /\ \A k, l \in Carrying : held[k].base = held[l].base => k = l
    /\ \A p \in Pools : \A i \in DOMAIN Cache(p) : \A k \in Carrying :
          Cache(p)[i].base # held[k].base
    /\ \A p \in Pools : \A i \in DOMAIN Cache(p) : Backs(Cache(p)[i])
    /\ \A k \in Carrying : Backs(held[k])
    /\ \A b \in Bases : Kept(b) => InCache(b) \/ InUse(b)

(* One page, or what madvise would not take *)
LeanAt(b) == mem[b].resident <= 1 \/ mem[b].refused = "madvise"

(* A pool's two sizes go together, and what it caches is of that size and   *)
(* was recycled, or should have been.                                       *)
Lean ==
    /\ \A p \in There : /\ pool[p].total_size = pool[p].max_stack_size + 1
                        /\ Len(Cache(p)) <= pool[p].cache_capacity
    /\ \A p \in There : \A i \in DOMAIN Cache(p) :
          /\ Cache(p)[i].total_size = pool[p].total_size
          /\ LeanAt(Cache(p)[i].base)

(* The invariant of the pools *)
PoolInv == PoolTypes /\ Owned /\ Lean

(* WholeOrGone for r; the stacks of its fibers are of the size its pool     *)
(* takes for its own.                                                       *)
LifeOf(r) ==
    /\ pool[r] = NoPool => owns[r] = {} /\ live[r] = {} /\ leaked[r] = 0
    /\ pool[r] # NoPool => /\ Range(Steps) \subseteq owns[r]
                           /\ pool[r].active_count = Cardinality(live[r])
    /\ \A k \in live[r] : held[k] # NoStack /\ held[k].total_size = pool[r].total_size

(* A fiber is on the list of one reactor. *)
LifeInv ==
    /\ owns \in [Reactors -> SUBSET (Range(Steps) \cup OnDemand)]
    /\ live \in [Reactors -> SUBSET Holders]
    /\ \A r, s \in Reactors : r # s => live[r] \cap live[s] = {}
    /\ \A r \in Reactors : LifeOf(r)

(* The inductive invariant *)
IInv == PoolInv /\ LifeInv

-----------------------------------------------------------------------------
(* Pools and their caches *)

(* The cache of a pool is a sequence of stacks.                             *)
LEMMA CacheType ==
    ASSUME PoolTypes, NEW p \in Pools
    PROVE  /\ Cache(p) \in Seq(Stacks)
           /\ DOMAIN Cache(p) = 1 .. Len(Cache(p)) /\ Len(Cache(p)) \in Nat
           /\ \A i \in DOMAIN Cache(p) : Cache(p)[i] \in Stacks
           /\ p \in There => pool[p] \in Allocators /\ Cache(p) = pool[p].cache
           /\ p \notin There => Cache(p) = <<>>
<1>1. Cache(p) \in Seq(Stacks)
  BY DEF PoolTypes, Cache, Allocators
<1>2. QED BY <1>1 DEF PoolTypes, There, Cache, Allocators

(* An allocator whose count and cache change is an allocator still.         *)
LEMMA AllocatorType ==
    ASSUME NEW a \in Allocators, NEW d \in Int, NEW c \in Seq(Stacks)
    PROVE  [a EXCEPT !.active_count = @ + d, !.cache = c] \in Allocators
<1>1. [a EXCEPT !.active_count = @ + d] \in Allocators
  BY DEF Allocators
<1>2. [a EXCEPT !.active_count = @ + d, !.cache = c]
         = [[a EXCEPT !.active_count = @ + d] EXCEPT !.cache = c]
  BY DEF Allocators
<1>3. QED BY <1>1, <1>2 DEF Allocators

(* What a user carries is a stack.                                          *)
LEMMA CarriedType ==
    ASSUME PoolTypes, NEW k \in Carrying
    PROVE  k \in Holders /\ held[k] \in Stacks /\ held[k].base \in Bases
BY DEF PoolTypes, Carrying, Stacks

(* The place of a stack that is backed is mapped.                           *)
LEMMA Mapped ==
    ASSUME NEW s, Backs(s)
    PROVE  mem[s.base] # Unmapped /\ Kept(s.base)
BY DEF Backs, Kept

(* munmap takes what it is to take, or is refused; the rest is as it was.   *)
LEMMA MunmapTakes ==
    ASSUME NEW m \in [Bases -> Mappings], NEW B \in SUBSET Bases, NEW n \in Munmap(m, B)
    PROVE  /\ n \in [Bases -> Mappings]
           /\ \A b \in B : n[b] = Unmapped \/ n[b].refused = "munmap"
           /\ \A b \in Bases \ B : n[b] = m[b]
<1>1. PICK S \in SUBSET B :
         n = [b \in Bases |-> IF b \in S THEN [m[b] EXCEPT !.refused = "munmap"]
                              ELSE IF b \in B THEN Unmapped ELSE m[b]]
  BY DEF Munmap
<1>2. \A b \in Bases : /\ [m[b] EXCEPT !.refused = "munmap"] \in Mappings
                       /\ [m[b] EXCEPT !.refused = "munmap"].refused = "munmap"
  BY DEF Mappings
<1>3. Unmapped \in Mappings
  BY DEF Unmapped, Mappings
<1>4. QED BY <1>1, <1>2, <1>3

-----------------------------------------------------------------------------
(* Ownership.  What every call does to it is one of the changes below.      *)

(* What is kept at b is kept, and no more than that.                        *)
Stays(b) ==
    /\ Kept(b)' <=> Kept(b)
    /\ Kept(b) => mem'[b].guard = mem[b].guard /\ mem'[b].pages = mem[b].pages

(* Stacks are used, and nothing else changes.                               *)
LEMMA OwnedWhenUsed ==
    ASSUME PoolTypes, Owned,
           \A p \in Pools : Cache(p)' = Cache(p), held' = held,
           \A b \in Bases : Stays(b)
    PROVE  Owned'
<1>1. Carrying' = Carrying
  BY DEF Carrying
<1>2. \A p \in Pools : \A i \in DOMAIN Cache(p) : Cache(p)[i].base \in Bases
  BY CacheType DEF Stacks
<1>3. \A k \in Carrying : held[k].base \in Bases
  BY CarriedType
<1>4. \A b : (InCache(b) => InCache(b)') /\ (InUse(b) => InUse(b)')
  BY <1>1 DEF InCache, InUse
<1>5. /\ \A p \in Pools : \A i \in DOMAIN Cache(p) : Backs(Cache(p)[i])'
      /\ \A k \in Carrying : Backs(held[k])'
  BY <1>1, <1>2, <1>3 DEF Owned, Backs, Stays
<1>6. QED BY <1>1, <1>4, <1>5 DEF Owned, Stays

(* A stack comes to be where nothing was, in the hands of k.                *)
LEMMA OwnedWhenCreated ==
    ASSUME PoolTypes, Owned, NEW k \in Holders, NEW s \in Stacks,
           \A p \in Pools : Cache(p)' = Cache(p),
           held[k] = NoStack, held' = [held EXCEPT ![k] = s], s # NoStack,
           mem[s.base] = Unmapped, Backs(s)',
           \A b \in Bases \ {s.base} : mem'[b] = mem[b]
    PROVE  Owned'
<1>1. Carrying' = Carrying \cup {k} /\ k \notin Carrying
  BY DEF Carrying, PoolTypes
<1>2. held'[k] = s /\ \A l \in Carrying : held'[l] = held[l]
  BY <1>1 DEF PoolTypes, Carrying
<1>3. \A p \in Pools : \A i \in DOMAIN Cache(p) :
         Cache(p)[i].base \in Bases \ {s.base} /\ Backs(Cache(p)[i])'
  BY CacheType, Mapped DEF Stacks, Owned, Backs, Kept
<1>4. \A l \in Carrying : held[l].base \in Bases \ {s.base} /\ Backs(held[l])'
  BY CarriedType, Mapped, <1>2 DEF Owned, Backs, Kept
<1>5. \A b \in Bases : Kept(b)' => InCache(b)' \/ InUse(b)'
  <2> SUFFICES ASSUME NEW b \in Bases, Kept(b)'
               PROVE  InCache(b)' \/ InUse(b)'
    OBVIOUS
  <2>1. CASE b = s.base
    BY <2>1, <1>1, <1>2 DEF InUse
  <2>2. CASE b # s.base
    <3>1. InCache(b) \/ InUse(b)
      BY <2>2 DEF Owned, Kept
    <3>2. QED BY <3>1, <1>1, <1>2 DEF InCache, InUse
  <2>3. QED BY <2>1, <2>2
<1>6. \A l, m \in Carrying' : held'[l].base = held'[m].base => l = m
  BY <1>1, <1>2, <1>4 DEF Owned
<1>7. \A p \in Pools : \A i \in DOMAIN Cache(p) : \A l \in Carrying' :
         Cache(p)[i].base # held'[l].base
  BY <1>1, <1>2, <1>3 DEF Owned
<1>8. \A l \in Carrying' : Backs(held[l])'
  BY <1>1, <1>2, <1>4 DEF Backs
<1>9. QED BY <1>3, <1>5, <1>6, <1>7, <1>8 DEF Owned

(* k gets the last stack of p's cache.                                      *)
LEMMA OwnedWhenTaken ==
    ASSUME PoolTypes, Owned, NEW p \in Pools, NEW k \in Holders,
           Cache(p) # <<>>, Cache(p)' = Front(Cache(p)),
           \A q \in Pools \ {p} : Cache(q)' = Cache(q),
           held[k] = NoStack, held' = [held EXCEPT ![k] = Last(Cache(p))],
           mem' = mem
    PROVE  Owned'
<1> DEFINE n == Len(Cache(p))
           s == Cache(p)[n]
<1>1. /\ n \in DOMAIN Cache(p) /\ s \in Stacks /\ s # NoStack
      /\ DOMAIN Cache(p)' = 1 .. n - 1 /\ n \in Nat
      /\ \A i \in 1 .. n - 1 : i \in DOMAIN Cache(p) /\ i # n /\ Cache(p)'[i] = Cache(p)[i]
      /\ \A i \in DOMAIN Cache(p) : i # n => i \in 1 .. n - 1
  BY CacheType, PoolAssumption DEF Front
<1>2. Last(Cache(p)) = s
  BY DEF Last
<1>3. Carrying' = Carrying \cup {k} /\ k \notin Carrying
  BY <1>1, <1>2 DEF Carrying, PoolTypes
<1>4. held'[k] = s /\ \A l \in Carrying : held'[l] = held[l]
  BY <1>2, <1>3 DEF PoolTypes, Carrying
<1> HIDE DEF n, s
<1>5. \A q \in Pools : \A i \in DOMAIN Cache(q)' :
         /\ i \in DOMAIN Cache(q) /\ Cache(q)'[i] = Cache(q)[i]
         /\ q # p \/ i # n
  BY <1>1
<1>6. s = Cache(p)[n]
  BY DEF s
<1>7. \A l, m \in Carrying' : held'[l].base = held'[m].base => l = m
  BY <1>1, <1>3, <1>4, <1>6 DEF Owned
<1>8. \A q \in Pools : \A i \in DOMAIN Cache(q)' : \A l \in Carrying' :
         Cache(q)'[i].base # held'[l].base
  BY <1>1, <1>3, <1>4, <1>5, <1>6 DEF Owned
<1>9. /\ \A q \in Pools : \A i \in DOMAIN Cache(q)' : Backs(Cache(q)[i])'
      /\ \A l \in Carrying' : Backs(held[l])'
  BY <1>1, <1>3, <1>4, <1>5, <1>6 DEF Owned, Backs, Kept
<1>10. \A b \in Bases : Kept(b)' => InCache(b)' \/ InUse(b)'
  <2> SUFFICES ASSUME NEW b \in Bases, Kept(b)
               PROVE  InCache(b)' \/ InUse(b)'
    BY DEF Kept
  <2>1. CASE InUse(b)
    BY <2>1, <1>3, <1>4 DEF InUse
  <2>2. CASE InCache(b)
    <3>0. PICK q \in Pools : \E i \in DOMAIN Cache(q) : Cache(q)[i].base = b
      BY <2>2 DEF InCache
    <3>1. PICK i \in DOMAIN Cache(q) : Cache(q)[i].base = b
      BY <3>0
    <3>2. CASE q = p /\ i = n
      BY <3>1, <3>2, <1>3, <1>4, <1>6 DEF InUse
    <3>3. CASE ~ (q = p /\ i = n)
      <4>1. i \in DOMAIN Cache(q)' /\ Cache(q)'[i] = Cache(q)[i]
        BY <3>3, <1>1
      <4>2. QED BY <3>1, <4>1 DEF InCache
    <3>4. QED BY <3>2, <3>3
  <2>3. QED BY <2>1, <2>2 DEF Owned
<1>11. \A q, r \in Pools : \A i \in DOMAIN Cache(q)', j \in DOMAIN Cache(r)' :
          Cache(q)'[i].base = Cache(r)'[j].base => q = r /\ i = j
  BY <1>5 DEF Owned
<1>12. QED BY <1>7, <1>8, <1>9, <1>10, <1>11 DEF Owned

(* The stack of k goes onto p's cache, its mapping as it was.               *)
LEMMA OwnedWhenCached ==
    ASSUME PoolTypes, Owned, NEW p \in Pools, NEW k \in Carrying,
           Cache(p)' = Append(Cache(p), held[k]),
           \A q \in Pools \ {p} : Cache(q)' = Cache(q),
           held' = [held EXCEPT ![k] = NoStack],
           \A b \in Bases : Stays(b)
    PROVE  Owned'
<1> DEFINE n == Len(Cache(p)) + 1
           s == held[k]
<1>1. /\ Cache(p)'[n] = s /\ DOMAIN Cache(p)' = 1 .. n /\ n \in Nat
      /\ n \in DOMAIN Cache(p)' /\ n \notin DOMAIN Cache(p)
      /\ \A i \in DOMAIN Cache(p) : i \in 1 .. n /\ Cache(p)'[i] = Cache(p)[i]
      /\ \A i \in 1 .. n : i # n => i \in DOMAIN Cache(p)
  BY CacheType, CarriedType
<1>2. Carrying' = Carrying \ {k} /\ \A l \in Carrying' : held'[l] = held[l]
  BY DEF Carrying, PoolTypes
<1>3. s = held[k]
  OBVIOUS
<1> HIDE DEF n, s
<1>4. \A q \in Pools : \A i \in DOMAIN Cache(q)' :
         \/ i \in DOMAIN Cache(q) /\ Cache(q)'[i] = Cache(q)[i]
         \/ q = p /\ i = n
  BY <1>1
<1>5. \A l, m \in Carrying' : held'[l].base = held'[m].base => l = m
  BY <1>2 DEF Owned
<1>6. \A q \in Pools : \A i \in DOMAIN Cache(q)' : \A l \in Carrying' :
         Cache(q)'[i].base # held'[l].base
  BY <1>1, <1>2, <1>3, <1>4 DEF Owned
<1>7. \A q, r \in Pools : \A i \in DOMAIN Cache(q)', j \in DOMAIN Cache(r)' :
          Cache(q)'[i].base = Cache(r)'[j].base => q = r /\ i = j
  <2> SUFFICES ASSUME NEW q \in Pools, NEW r \in Pools, NEW i \in DOMAIN Cache(q)',
                      NEW j \in DOMAIN Cache(r)', Cache(q)'[i].base = Cache(r)'[j].base
               PROVE  q = r /\ i = j
    OBVIOUS
  <2>1. CASE q = p /\ i = n
    BY <2>1, <1>1, <1>3, <1>4 DEF Owned
  <2>2. CASE r = p /\ j = n
    BY <2>2, <1>1, <1>3, <1>4 DEF Owned
  <2>3. CASE i \in DOMAIN Cache(q) /\ j \in DOMAIN Cache(r) /\ ~ (q = p /\ i = n)
             /\ ~ (r = p /\ j = n)
    BY <2>3, <1>4 DEF Owned
  <2>4. QED BY <2>1, <2>2, <2>3, <1>4
<1>8. /\ \A q \in Pools : \A i \in DOMAIN Cache(q) : Cache(q)[i].base \in Bases
      /\ \A l \in Carrying : held[l].base \in Bases
  BY CacheType, CarriedType DEF Stacks
<1>9. /\ \A q \in Pools : \A i \in DOMAIN Cache(q)' : Backs(Cache(q)[i])'
      /\ \A l \in Carrying' : Backs(held[l])'
  BY <1>1, <1>2, <1>3, <1>4, <1>8 DEF Owned, Backs, Stays
<1>10. \A b \in Bases : Kept(b)' => InCache(b)' \/ InUse(b)'
  <2> SUFFICES ASSUME NEW b \in Bases, Kept(b)
               PROVE  InCache(b)' \/ InUse(b)'
    BY DEF Stays
  <2>1. CASE InCache(b)
    BY <2>1, <1>1 DEF InCache
  <2>2. CASE InUse(b)
    <3>1. PICK l \in Carrying : held[l].base = b
      BY <2>2 DEF InUse
    <3>2. CASE l = k
      BY <3>1, <3>2, <1>1, <1>3 DEF InCache
    <3>3. CASE l # k
      BY <3>1, <3>3, <1>2 DEF InUse
    <3>4. QED BY <3>2, <3>3
  <2>3. QED BY <2>1, <2>2 DEF Owned
<1>11. QED BY <1>5, <1>6, <1>7, <1>9, <1>10 DEF Owned

(* The users K give up their stacks, p its cache if it goes, and what they  *)
(* had is unmapped, or nobody's.                                            *)
LEMMA OwnedWhenUnmapped ==
    ASSUME PoolTypes, Owned, NEW p \in Pools, NEW goes \in BOOLEAN,
           NEW K \in SUBSET Carrying,
           Cache(p)' = IF goes THEN <<>> ELSE Cache(p),
           \A q \in Pools \ {p} : Cache(q)' = Cache(q),
           held' = [k \in Holders |-> IF k \in K THEN NoStack ELSE held[k]],
           \A b \in Bases :
              IF \/ goes /\ \E i \in DOMAIN Cache(p) : Cache(p)[i].base = b
                 \/ \E k \in K : held[k].base = b
              THEN ~ Kept(b)' ELSE mem'[b] = mem[b]
    PROVE  Owned'
<1>1. Carrying' = Carrying \ K /\ \A l \in Carrying' : held'[l] = held[l]
  BY DEF Carrying, PoolTypes
<1>2. \A q \in Pools : \A i \in DOMAIN Cache(q)' :
         /\ i \in DOMAIN Cache(q) /\ Cache(q)'[i] = Cache(q)[i]
         /\ q = p => ~ goes
  OBVIOUS
<1>3. \A q \in Pools : \A i \in DOMAIN Cache(q)' : mem'[Cache(q)'[i].base] = mem[Cache(q)[i].base]
  <2> SUFFICES ASSUME NEW q \in Pools, NEW i \in DOMAIN Cache(q)'
               PROVE  mem'[Cache(q)[i].base] = mem[Cache(q)[i].base]
    BY <1>2
  <2> DEFINE b == Cache(q)[i].base
  <2>1. b \in Bases /\ i \in DOMAIN Cache(q)
    BY <1>2, CacheType DEF Stacks
  <2>2. \A k \in K : held[k].base # b
    BY <2>1 DEF Owned
  <2>3. goes => \A j \in DOMAIN Cache(p) : Cache(p)[j].base # b
    BY <2>1, <1>2 DEF Owned
  <2>4. QED BY <2>1, <2>2, <2>3
<1>4. \A l \in Carrying' : mem'[held'[l].base] = mem[held[l].base]
  <2> SUFFICES ASSUME NEW l \in Carrying'
               PROVE  mem'[held[l].base] = mem[held[l].base]
    BY <1>1
  <2> DEFINE b == held[l].base
  <2>1. b \in Bases /\ l \in Carrying \ K
    BY <1>1, CarriedType
  <2>2. \A k \in K : held[k].base # b
    BY <2>1 DEF Owned
  <2>3. \A j \in DOMAIN Cache(p) : Cache(p)[j].base # b
    BY <2>1 DEF Owned
  <2>4. QED BY <2>1, <2>2, <2>3
<1>5. \A b \in Bases : Kept(b)' => InCache(b)' \/ InUse(b)'
  <2> SUFFICES ASSUME NEW b \in Bases, Kept(b)'
               PROVE  InCache(b)' \/ InUse(b)'
    OBVIOUS
  <2>1. /\ Kept(b)
        /\ goes => \A i \in DOMAIN Cache(p) : Cache(p)[i].base # b
        /\ \A k \in K : held[k].base # b
    BY DEF Kept
  <2>2. CASE InCache(b)
    BY <2>1, <2>2 DEF InCache
  <2>3. CASE InUse(b)
    BY <2>1, <2>3, <1>1 DEF InUse
  <2>4. QED BY <2>1, <2>2, <2>3 DEF Owned
<1>6. /\ \A q \in Pools : \A i \in DOMAIN Cache(q)' : Backs(Cache(q)[i])'
      /\ \A l \in Carrying' : Backs(held[l])'
  <2>1. ASSUME NEW q \in Pools, NEW i \in DOMAIN Cache(q)'
        PROVE  Backs(Cache(q)[i])'
    <3>1. Backs(Cache(q)[i]) /\ Cache(q)'[i] = Cache(q)[i]
      BY <1>2, <2>1 DEF Owned
    <3>2. mem'[Cache(q)'[i].base] = mem[Cache(q)[i].base]
      BY <1>3, <2>1
    <3>3. QED BY <3>1, <3>2 DEF Backs, Kept
  <2>2. ASSUME NEW l \in Carrying'
        PROVE  Backs(held[l])'
    <3>1. Backs(held[l]) /\ held'[l] = held[l]
      BY <1>1, <2>2 DEF Owned
    <3>2. mem'[held'[l].base] = mem[held[l].base]
      BY <1>4, <2>2
    <3>3. QED BY <3>1, <3>2 DEF Backs, Kept
  <2>3. QED BY <2>1, <2>2
<1>7. /\ \A q, r \in Pools : \A i \in DOMAIN Cache(q)', j \in DOMAIN Cache(r)' :
            Cache(q)'[i].base = Cache(r)'[j].base => q = r /\ i = j
      /\ \A q \in Pools : \A i \in DOMAIN Cache(q)' : \A l \in Carrying' :
            Cache(q)'[i].base # held'[l].base
      /\ \A l, m \in Carrying' : held'[l].base = held'[m].base => l = m
  BY <1>1, <1>2 DEF Owned
<1>8. QED BY <1>5, <1>6, <1>7 DEF Owned

(* A pool begins with new stacks in its cache, at places that were free.    *)
LEMMA OwnedWhenFilled ==
    ASSUME PoolTypes, Owned, NEW p \in Pools, Cache(p) = <<>>,
           \A q \in Pools \ {p} : Cache(q)' = Cache(q), held' = held,
           NEW n \in Nat, DOMAIN Cache(p)' = 1 .. n,
           \A i \in 1 .. n : /\ Cache(p)'[i].base \in Free(mem)
                             /\ Backs(Cache(p)[i])',
           \A i, j \in 1 .. n : Cache(p)'[i].base = Cache(p)'[j].base => i = j,
           \A b \in Bases : \/ \E i \in 1 .. n : Cache(p)'[i].base = b
                            \/ mem'[b] = mem[b]
    PROVE  Owned'
<1>1. Carrying' = Carrying
  BY DEF Carrying
<1>2. \A q \in Pools : \A i \in DOMAIN Cache(q) :
         /\ q # p
         /\ mem[Cache(q)[i].base] # Unmapped
         /\ \A j \in 1 .. n : Cache(p)'[j].base # Cache(q)[i].base
         /\ Backs(Cache(q)[i])'
  <2> SUFFICES ASSUME NEW q \in Pools, NEW i \in DOMAIN Cache(q)
               PROVE  /\ q # p
                      /\ mem[Cache(q)[i].base] # Unmapped
                      /\ \A j \in 1 .. n : Cache(p)'[j].base # Cache(q)[i].base
                      /\ Backs(Cache(q)[i])'
    OBVIOUS
  <2>1. q # p /\ Cache(q)' = Cache(q)
    OBVIOUS
  <2>2. Backs(Cache(q)[i]) /\ Cache(q)[i].base \in Bases
    BY CacheType DEF Owned, Stacks
  <2>3. mem[Cache(q)[i].base] # Unmapped
    BY <2>2, Mapped
  <2>4. \A j \in 1 .. n : Cache(p)'[j].base # Cache(q)[i].base
    BY <2>3 DEF Free
  <2>5. Backs(Cache(q)[i])'
    BY <2>1, <2>2, <2>4 DEF Backs, Kept
  <2>6. QED BY <2>1, <2>3, <2>4, <2>5
<1>3. \A l \in Carrying :
         /\ \A j \in 1 .. n : Cache(p)'[j].base # held[l].base
         /\ Backs(held[l])'
  <2> SUFFICES ASSUME NEW l \in Carrying
               PROVE  /\ \A j \in 1 .. n : Cache(p)'[j].base # held[l].base
                      /\ Backs(held[l])'
    OBVIOUS
  <2>1. Backs(held[l]) /\ held[l].base \in Bases
    BY CarriedType DEF Owned
  <2>2. mem[held[l].base] # Unmapped
    BY <2>1, Mapped
  <2>3. \A j \in 1 .. n : Cache(p)'[j].base # held[l].base
    BY <2>2 DEF Free
  <2>4. QED BY <2>1, <2>3 DEF Backs, Kept
<1>4. \A b \in Bases : Kept(b)' => InCache(b)' \/ InUse(b)'
  <2> SUFFICES ASSUME NEW b \in Bases, Kept(b)'
               PROVE  InCache(b)' \/ InUse(b)'
    OBVIOUS
  <2>1. CASE \E i \in 1 .. n : Cache(p)'[i].base = b
    BY <2>1 DEF InCache
  <2>2. CASE mem'[b] = mem[b]
    <3>0. Kept(b)
      BY <2>2 DEF Kept
    <3>1. CASE InCache(b)
      BY <3>1, <1>2 DEF InCache
    <3>2. CASE InUse(b)
      BY <3>2, <1>1 DEF InUse
    <3>3. QED BY <3>0, <3>1, <3>2 DEF Owned
  <2>3. QED BY <2>1, <2>2
<1>5. \A q \in Pools : \A i \in DOMAIN Cache(q)' : Backs(Cache(q)[i])'
  BY <1>2
<1>6. \A q, r \in Pools : \A i \in DOMAIN Cache(q)', j \in DOMAIN Cache(r)' :
         Cache(q)'[i].base = Cache(r)'[j].base => q = r /\ i = j
  <2> SUFFICES ASSUME NEW q \in Pools, NEW r \in Pools, NEW i \in DOMAIN Cache(q)',
                      NEW j \in DOMAIN Cache(r)', Cache(q)'[i].base = Cache(r)'[j].base
               PROVE  q = r /\ i = j
    OBVIOUS
  <2>1. CASE q = p /\ r = p
    BY <2>1
  <2>2. CASE q = p /\ r # p
    BY <2>2, <1>2
  <2>3. CASE q # p /\ r = p
    BY <2>3, <1>2
  <2>4. CASE q # p /\ r # p
    BY <2>4 DEF Owned
  <2>5. QED BY <2>1, <2>2, <2>3, <2>4
<1>7. \A q \in Pools : \A i \in DOMAIN Cache(q)' : \A l \in Carrying' :
         Cache(q)'[i].base # held'[l].base
  <2> SUFFICES ASSUME NEW q \in Pools, NEW i \in DOMAIN Cache(q)', NEW l \in Carrying
               PROVE  Cache(q)'[i].base # held[l].base
    BY <1>1
  <2>1. CASE q = p
    BY <2>1, <1>3
  <2>2. CASE q # p
    BY <2>2 DEF Owned
  <2>3. QED BY <2>1, <2>2
<1>8. QED BY <1>1, <1>3, <1>4, <1>5, <1>6, <1>7 DEF Owned

-----------------------------------------------------------------------------
(* What each call of StackPool does keeps the invariant of the pools.       *)

(* A stack is used.                                                         *)
LEMMA TouchKeeps ==
    ASSUME PoolInv, NEW k \in Holders, Touch(k)
    PROVE  PoolInv'
<1> USE DEF PoolInv
<1>0. PICK x : x = held[k].base
  OBVIOUS
<1>1. k \in Carrying /\ x \in Bases /\ Backs(held[k])
  <2>1. k \in Carrying
    BY DEF Touch, Carrying
  <2>2. QED BY <1>0, <2>1, CarriedType DEF Owned
<1>2. /\ mem' = [mem EXCEPT ![x].resident = @ + 1]
      /\ pool' = pool /\ held' = held /\ leaked' = leaked
  BY <1>0 DEF Touch
<1>3. PoolTypes'
  BY <1>1, <1>2 DEF PoolTypes, Mappings
<1>4. \A p \in Pools : Cache(p)' = Cache(p)
  BY <1>2 DEF Cache
<1>5. /\ \A b \in Bases : mem'[b].guard = mem[b].guard /\ mem'[b].pages = mem[b].pages
      /\ \A b \in Bases \ {x} : mem'[b] = mem[b]
  BY <1>1, <1>2 DEF PoolTypes, Mappings
<1>6. \A b \in Bases : Stays(b)
  <2>1. /\ mem'[x].refused = mem[x].refused /\ Kept(x)
        /\ mem'[x].guard = mem[x].guard /\ mem'[x].guard
        /\ mem'[x].pages = mem[x].pages
    BY <1>0, <1>1, <1>2, <1>5 DEF PoolTypes, Mappings, Backs
  <2>2. Kept(x)'
    BY <2>1 DEF Kept, Unmapped
  <2>3. QED BY <1>5, <2>1, <2>2 DEF Stays, Kept
<1>7. Owned'
  BY <1>2, <1>4, <1>6, OwnedWhenUsed
<1>8. \A p \in Pools : \A i \in DOMAIN Cache(p) : Cache(p)[i].base \in Bases \ {x}
  BY <1>0, <1>1, CacheType DEF Stacks, Owned
<1>9. Lean'
  BY <1>2, <1>4, <1>5, <1>8 DEF Lean, LeanAt, There
<1>10. QED BY <1>3, <1>7, <1>9

(* A stack is handed out: the last one of the cache, or a new one.          *)
LEMMA PoolAllocKeeps ==
    ASSUME PoolInv, NEW p \in Pools, NEW k \in Holders, PoolAlloc(p, k)
    PROVE  PoolInv' /\ pool'[p] \in Allocators
<1> USE DEF PoolInv
<1>1. pool[p] \in Allocators /\ pool[p] # NoPool /\ held[k] = NoStack /\ p \in There
  BY DEF PoolAlloc, PoolTypes, There
<1>2. CASE pool[p].cache # <<>> /\ PoolAlloc(p, k)
  <2> DEFINE n == Len(Cache(p))
  <2>1. Cache(p) = pool[p].cache /\ Cache(p) \in Seq(Stacks) /\ Cache(p) # <<>> /\ n \in Nat \ {0}
    BY <1>1, <1>2, CacheType
  <2>2. /\ pool' = [pool EXCEPT ![p].active_count = @ + 1, ![p].cache = Front(@)]
        /\ held' = [held EXCEPT ![k] = Last(Cache(p))]
        /\ mem' = mem /\ leaked' = leaked
    BY <1>2, <2>1 DEF PoolAlloc
  <2>3. Front(Cache(p)) \in Seq(Stacks) /\ Last(Cache(p)) \in Stacks
    BY <2>1 DEF Front, Last
  <2>4. /\ pool'[p] = [pool[p] EXCEPT !.active_count = @ + 1, !.cache = Front(Cache(p))]
        /\ \A q \in Pools \ {p} : pool'[q] = pool[q]
        /\ pool' \in [Pools -> Allocators \cup {NoPool}]
        /\ pool'[p] \in Allocators
    <3> DEFINE a == [pool[p] EXCEPT !.active_count = @ + 1, !.cache = Front(@)]
    <3>1. pool' = [pool EXCEPT ![p] = a]
      BY <1>1, <2>2 DEF PoolTypes
    <3>2. a = [pool[p] EXCEPT !.active_count = @ + 1, !.cache = Front(Cache(p))]
      BY <1>1, <2>1 DEF Allocators
    <3> HIDE DEF a
    <3>3. a \in Allocators
      <4>1. 1 \in Int
        OBVIOUS
      <4>2. [pool[p] EXCEPT !.active_count = @ + 1, !.cache = Front(Cache(p))] \in Allocators
        BY <1>1, <2>3, <4>1, AllocatorType, Zenon
      <4>3. QED BY <3>2, <4>2
    <3>4. QED BY <3>1, <3>2, <3>3 DEF PoolTypes
  <2>5. PoolTypes'
    BY <2>2, <2>3, <2>4 DEF PoolTypes
  <2>6. Cache(p)' = Front(Cache(p)) /\ \A q \in Pools \ {p} : Cache(q)' = Cache(q)
    BY <1>1, <2>4, PoolAssumption DEF Cache, Allocators
  <2>7. Owned'
    BY <1>1, <2>1, <2>2, <2>6, OwnedWhenTaken
  <2>8. /\ There' = There
        /\ \A q \in There : /\ pool'[q].total_size = pool[q].total_size
                            /\ pool'[q].max_stack_size = pool[q].max_stack_size
                            /\ pool'[q].cache_capacity = pool[q].cache_capacity
    BY <1>1, <2>4, PoolAssumption DEF There, Allocators
  <2>9. /\ Len(Cache(p)') = n - 1 /\ DOMAIN Cache(p)' = 1 .. n - 1
        /\ \A i \in 1 .. n - 1 : i \in DOMAIN Cache(p) /\ Cache(p)'[i] = Cache(p)[i]
    <3>1. Cache(p)' = SubSeq(Cache(p), 1, n - 1)
      BY <2>6 DEF Front
    <3>2. n - 1 \in Nat
      BY <2>1
    <3>3. QED BY <2>1, <3>1, <3>2
  <2>10. Lean'
    <3>1. \A q \in There : Len(Cache(q)') <= pool[q].cache_capacity
      BY <2>1, <2>6, <2>8, <2>9 DEF Lean, There, PoolTypes, Allocators
    <3>2. \A q \in There : \A i \in DOMAIN Cache(q)' :
             i \in DOMAIN Cache(q) /\ Cache(q)'[i] = Cache(q)[i]
      BY <2>6, <2>9 DEF There
    <3>3. \A q \in There : \A i \in DOMAIN Cache(q)' :
             /\ Cache(q)'[i].total_size = pool[q].total_size
             /\ LeanAt(Cache(q)'[i].base)
      BY <3>2 DEF Lean
    <3>4. \A q \in There : pool[q].total_size = pool[q].max_stack_size + 1
      BY DEF Lean
    <3>5. QED BY <2>2, <2>8, <3>1, <3>3, <3>4 DEF Lean, LeanAt
  <2>11. QED BY <2>4, <2>5, <2>7, <2>10
<1>3. ASSUME pool[p].cache = <<>>, PoolAlloc(p, k)
      PROVE  PoolInv' /\ pool'[p] \in Allocators
  <2> DEFINE max == pool[p].max_stack_size
  <2>1. PICK r \in Create(mem, max) :
           /\ mem' = r.mem
           /\ held' = [held EXCEPT ![k] = r.stack]
           /\ pool' = IF r.stack = NoStack THEN pool
                      ELSE [pool EXCEPT ![p].active_count = @ + 1]
    BY <1>3 DEF PoolAlloc
  <2>2. leaked' = leaked /\ max \in Nat
    BY <1>1 DEF PoolAlloc, Allocators
  <2>3. CASE r.stack = NoStack /\ mem' = mem
    <3>1. pool' = pool /\ held' = held
      BY <1>1, <2>1, <2>3 DEF PoolTypes
    <3>2. PoolTypes' /\ Lean' /\ \A q \in Pools : Cache(q)' = Cache(q)
      BY <2>2, <2>3, <3>1 DEF PoolTypes, Lean, LeanAt, There, Cache
    <3>3. Owned'
      BY <2>3, <3>1, <3>2, OwnedWhenUsed DEF Stays, Kept
    <3>4. QED BY <1>1, <3>1, <3>2, <3>3
  <2>4. ASSUME NEW b \in Free(mem),
               r = [mem |-> Mprotect(Mmap(mem, b, max + 1), b), stack |-> Stack(b, max)]
        PROVE  PoolInv' /\ pool'[p] \in Allocators
    <3>0. PICK s : s = [base |-> b, total_size |-> max + 1]
      OBVIOUS
    <3>1. b \in Bases /\ mem[b] = Unmapped
      BY DEF Free
    <3>2. s \in Stacks /\ s # NoStack /\ r.stack = s
      BY <2>2, <2>4, <3>0, <3>1, PoolAssumption DEF Stacks, Stack
    <3>3. /\ mem' = [mem EXCEPT ![b] = [pages |-> max + 1, guard |-> TRUE, resident |-> 0,
                                     refused |-> "nothing"]]
          /\ held' = [held EXCEPT ![k] = s]
          /\ pool' = [pool EXCEPT ![p].active_count = @ + 1]
      BY <2>1, <2>4, <3>1, <3>2 DEF Mprotect, Mmap, PoolTypes, Mappings
    <3>4. /\ pool'[p] = [pool[p] EXCEPT !.active_count = @ + 1]
          /\ pool'[p] \in Allocators
          /\ \A q \in Pools \ {p} : pool'[q] = pool[q]
          /\ pool' \in [Pools -> Allocators \cup {NoPool}]
      BY <1>1, <3>3 DEF PoolTypes, Allocators
    <3>5. PoolTypes'
      BY <2>2, <3>1, <3>2, <3>3, <3>4 DEF PoolTypes, Mappings
    <3>6. \A q \in Pools : Cache(q)' = Cache(q)
      BY <1>1, <3>4, PoolAssumption DEF Cache, Allocators
    <3>7. /\ \A c \in Bases \ {b} : mem'[c] = mem[c]
          /\ mem'[b].guard /\ mem'[b].pages = max + 1 /\ mem'[b].refused = "nothing"
      BY <3>1, <3>3 DEF PoolTypes
    <3>8. s.base = b /\ s.total_size = max + 1
      BY <3>0
    <3>9. Backs(s)'
      BY <3>7, <3>8 DEF Backs, Kept, Unmapped
    <3>10. Owned'
      BY <1>1, <3>1, <3>2, <3>3, <3>6, <3>7, <3>8, <3>9, OwnedWhenCreated
    <3>11. /\ There' = There
           /\ \A q \in There : /\ pool'[q].total_size = pool[q].total_size
                               /\ pool'[q].max_stack_size = pool[q].max_stack_size
                               /\ pool'[q].cache_capacity = pool[q].cache_capacity
      BY <1>1, <3>4, PoolAssumption DEF There, Allocators
    <3>12. \A q \in Pools : \A i \in DOMAIN Cache(q) : Cache(q)[i].base \in Bases \ {b}
      BY <3>1, CacheType, Mapped DEF Stacks, Owned
    <3>13. Lean'
      BY <3>6, <3>7, <3>11, <3>12 DEF Lean, LeanAt, There
    <3>14. QED BY <3>4, <3>5, <3>10, <3>13
  <2>5. ASSUME NEW b \in Free(mem), NEW u \in Unguarded(mem, b, max),
               r = [mem |-> u, stack |-> NoStack]
        PROVE  PoolInv' /\ pool'[p] \in Allocators
    <3>0. b \in Bases /\ mem[b] = Unmapped /\ mem \in [Bases -> Mappings]
      BY DEF Free, PoolTypes
    <3>1. pool' = pool /\ held' = held /\ mem' = u
      BY <1>1, <2>1, <2>5 DEF PoolTypes
    <3>2. /\ Mmap(mem, b, max + 1) \in [Bases -> Mappings]
          /\ \A c \in Bases \ {b} : Mmap(mem, b, max + 1)[c] = mem[c]
      BY <2>2, <3>0 DEF Mmap, Mappings
    <3>3. /\ mem' \in [Bases -> Mappings] /\ \A c \in Bases \ {b} : mem'[c] = mem[c]
          /\ mem'[b] = Unmapped \/ mem'[b].refused = "munmap"
      BY <3>0, <3>1, <3>2, MunmapTakes DEF Unguarded
    <3>4. \A c \in Bases : Stays(c)
      BY <3>0, <3>3 DEF Stays, Kept
    <3>5. PoolTypes' /\ \A q \in Pools : Cache(q)' = Cache(q)
      BY <2>2, <3>1, <3>3 DEF PoolTypes, Cache
    <3>6. Owned'
      BY <3>1, <3>4, <3>5, OwnedWhenUsed
    <3>7. \A q \in There : \A i \in DOMAIN Cache(q) : Cache(q)[i].base \in Bases \ {b}
      BY <3>0, CacheType, Mapped DEF Stacks, Owned, There
    <3>8. Lean'
      BY <3>1, <3>3, <3>5, <3>7 DEF Lean, LeanAt, There
    <3>9. QED BY <1>1, <3>1, <3>5, <3>6, <3>8
  <2>6. QED BY <2>1, <2>3, <2>4, <2>5 DEF Create
<1>4. QED BY <1>2, <1>3

(* A stack is given back: unmapped, or recycled into the cache.             *)
LEMMA PoolReleaseKeeps ==
    ASSUME PoolInv, NEW p \in Pools, NEW k \in Holders, PoolRelease(p, k)
    PROVE  PoolInv'
<1> USE DEF PoolInv
<1>0. PICK s : s = held[k]
  OBVIOUS
<1>1. /\ pool[p] \in Allocators /\ pool[p] # NoPool /\ p \in There
      /\ k \in Carrying /\ s \in Stacks /\ s.base \in Bases
      /\ Cache(p) = pool[p].cache /\ Cache(p) \in Seq(Stacks)
  <2>1. p \in There /\ k \in Carrying
    BY DEF PoolRelease, There, Carrying
  <2>2. QED BY <1>0, <2>1, CarriedType, CacheType DEF There
<1>2. held' = [held EXCEPT ![k] = NoStack] /\ leaked' = leaked
  BY DEF PoolRelease
<1>3. ASSUME mem' \in Munmap(mem, {s.base}),
             pool' = pool \/ pool' = [pool EXCEPT ![p].active_count = @ - 1]
      PROVE  PoolInv'
  <2>1. /\ mem' \in [Bases -> Mappings] /\ ~ Kept(s.base)'
        /\ \A b \in Bases \ {s.base} : mem'[b] = mem[b]
    <3>1. {s.base} \in SUBSET Bases /\ mem \in [Bases -> Mappings]
      BY <1>1 DEF PoolTypes
    <3>2. QED BY <1>3, <3>1, MunmapTakes DEF Kept
  <2>2. /\ pool' \in [Pools -> Allocators \cup {NoPool}]
        /\ \A q \in Pools : pool'[q] = pool[q]
              \/ /\ pool[q] \in Allocators /\ pool'[q] \in Allocators
                 /\ pool'[q] = [pool[q] EXCEPT !.active_count = @ - 1]
    <3> DEFINE a == [pool[p] EXCEPT !.active_count = @ - 1]
    <3>1. a \in Allocators
      BY <1>1 DEF Allocators
    <3>2. pool' = pool \/ pool' = [pool EXCEPT ![p] = a]
      BY <1>3
    <3>3. a = [pool[p] EXCEPT !.active_count = @ - 1]
      OBVIOUS
    <3> HIDE DEF a
    <3>4. CASE pool' = pool
      BY <3>4 DEF PoolTypes
    <3>5. CASE pool' = [pool EXCEPT ![p] = a]
      <4>1. pool'[p] = a /\ \A q \in Pools \ {p} : pool'[q] = pool[q]
        BY <3>5 DEF PoolTypes
      <4>2. pool' \in [Pools -> Allocators \cup {NoPool}]
        BY <3>1, <3>5 DEF PoolTypes
      <4>3. QED BY <1>1, <3>1, <3>3, <4>1, <4>2
    <3>6. QED BY <3>2, <3>4, <3>5
  <2>3. PoolTypes'
    <3>1. held' \in [Holders -> Stacks \cup {NoStack}]
      BY <1>2 DEF PoolTypes
    <3>2. QED BY <1>2, <2>1, <2>2, <3>1 DEF PoolTypes
  <2>4. \A q \in Pools :
           /\ pool'[q] = NoPool <=> pool[q] = NoPool
           /\ pool[q] # NoPool => /\ pool'[q].cache = pool[q].cache
                                  /\ pool'[q].total_size = pool[q].total_size
                                  /\ pool'[q].max_stack_size = pool[q].max_stack_size
                                  /\ pool'[q].cache_capacity = pool[q].cache_capacity
    <3>1. \A q \in Pools : pool'[q] = NoPool <=> pool[q] = NoPool
      BY <2>2, PoolAssumption
    <3>2. \A x \in Allocators : LET y == [x EXCEPT !.active_count = @ - 1]
                               IN /\ y.cache = x.cache /\ y.total_size = x.total_size
                                  /\ y.max_stack_size = x.max_stack_size
                                  /\ y.cache_capacity = x.cache_capacity
      BY DEF Allocators
    <3>3. QED BY <2>2, <3>1, <3>2
  <2>5. \A q \in Pools : Cache(q)' = Cache(q)
    BY <2>4 DEF Cache
  <2>6. held' = [l \in Holders |-> IF l \in {k} THEN NoStack ELSE held[l]]
    BY <1>2 DEF PoolTypes
  <2>7. \A b \in Bases :
           IF \/ FALSE /\ \E i \in DOMAIN Cache(p) : Cache(p)[i].base = b
              \/ \E l \in {k} : held[l].base = b
           THEN ~ Kept(b)' ELSE mem'[b] = mem[b]
    BY <1>0, <1>1, <2>1
  <2>8. Owned'
    <3>1. Cache(p)' = IF FALSE THEN <<>> ELSE Cache(p)
      BY <2>5
    <3>2. {k} \in SUBSET Carrying /\ FALSE \in BOOLEAN
      BY <1>1
    <3>3. QED BY <2>5, <2>6, <2>7, <3>1, <3>2, OwnedWhenUnmapped
  <2>9. \A q \in Pools : \A i \in DOMAIN Cache(q) :
           mem'[Cache(q)[i].base] = mem[Cache(q)[i].base]
    BY <1>0, <1>1, <2>1, CacheType DEF Owned, Stacks
  <2>10. /\ There' = There
         /\ \A q \in There : /\ pool'[q].total_size = pool[q].total_size
                             /\ pool'[q].max_stack_size = pool[q].max_stack_size
                             /\ pool'[q].cache_capacity = pool[q].cache_capacity
    BY <2>4 DEF There
  <2>11. Lean'
    BY <2>5, <2>9, <2>10 DEF Lean, LeanAt, There
  <2>12. QED BY <2>3, <2>8, <2>11
<1>4. ASSUME ~ Foreign(p, s), ~ CacheFull(p), mem' \in Recycle(mem, s),
             pool' = [pool EXCEPT ![p].active_count = @ - 1, ![p].cache = Append(@, s)]
      PROVE  PoolInv'
  <2>1. \/ mem' = [mem EXCEPT ![s.base].resident = IF @ > 1 THEN 1 ELSE @,
                            ![s.base].refused = "nothing"]
        \/ mem' = [mem EXCEPT ![s.base].refused = "madvise"]
    BY <1>4 DEF Recycle
  <2>2. /\ pool'[p] = [pool[p] EXCEPT !.active_count = @ + (-1), !.cache = Append(Cache(p), s)]
        /\ \A q \in Pools \ {p} : pool'[q] = pool[q]
        /\ pool' \in [Pools -> Allocators \cup {NoPool}]
        /\ pool'[p] \in Allocators
    <3> DEFINE a == [pool[p] EXCEPT !.active_count = @ - 1, !.cache = Append(@, s)]
    <3>1. pool' = [pool EXCEPT ![p] = a]
      BY <1>1, <1>4 DEF PoolTypes
    <3>2. a = [pool[p] EXCEPT !.active_count = @ + (-1), !.cache = Append(Cache(p), s)]
      BY <1>1 DEF Allocators
    <3> HIDE DEF a
    <3>3. a \in Allocators
      <4>1. -1 \in Int /\ Append(Cache(p), s) \in Seq(Stacks)
        BY <1>1
      <4>2. [pool[p] EXCEPT !.active_count = @ + (-1), !.cache = Append(Cache(p), s)]
               \in Allocators
        BY <1>1, <4>1, AllocatorType, Zenon
      <4>3. QED BY <3>2, <4>2
    <3>4. QED BY <3>1, <3>2, <3>3 DEF PoolTypes
  <2>3. PoolTypes'
    <3>1. mem' \in [Bases -> Mappings]
      <4> DEFINE m == mem[s.base]
      <4>1. mem \in [Bases -> Mappings] /\ m \in Mappings
        BY <1>1 DEF PoolTypes
      <4>2. /\ [m EXCEPT !.refused = "madvise"] \in Mappings
            /\ [[m EXCEPT !.resident = IF @ > 1 THEN 1 ELSE @] EXCEPT !.refused = "nothing"]
                  \in Mappings
        BY <4>1 DEF Mappings
      <4>3. \/ mem' = [mem EXCEPT ![s.base] = [m EXCEPT !.refused = "madvise"]]
            \/ mem' = [mem EXCEPT ![s.base] =
                         [[m EXCEPT !.resident = IF @ > 1 THEN 1 ELSE @]
                             EXCEPT !.refused = "nothing"]]
        BY <1>1, <2>1, <4>1 DEF PoolTypes
      <4> HIDE DEF m
      <4>4. QED BY <1>1, <4>1, <4>2, <4>3
    <3>2. held' \in [Holders -> Stacks \cup {NoStack}]
      BY <1>2 DEF PoolTypes
    <3>3. QED BY <1>2, <2>2, <3>1, <3>2 DEF PoolTypes
  <2>4. Cache(p)' = Append(Cache(p), s) /\ \A q \in Pools \ {p} : Cache(q)' = Cache(q)
    BY <1>1, <2>2, PoolAssumption DEF Cache, Allocators
  <2>5. /\ \A b \in Bases : mem'[b].guard = mem[b].guard /\ mem'[b].pages = mem[b].pages
        /\ \A b \in Bases \ {s.base} : mem'[b] = mem[b]
        /\ mem'[s.base].refused # "munmap" /\ LeanAt(s.base)'
    <3>1. CASE mem' = [mem EXCEPT ![s.base].refused = "madvise"]
      BY <1>1, <3>1 DEF PoolTypes, Mappings, LeanAt
    <3>2. CASE mem' = [mem EXCEPT ![s.base].resident = IF @ > 1 THEN 1 ELSE @,
                                  ![s.base].refused = "nothing"]
      BY <1>1, <3>2 DEF PoolTypes, Mappings, LeanAt
    <3>3. QED BY <2>1, <3>1, <3>2
  <2>6. Backs(s)
    BY <1>0, <1>1 DEF Owned
  <2>7. \A b \in Bases : Stays(b)
    <3>1. Kept(s.base) /\ Kept(s.base)'
      BY <1>1, <2>5, <2>6 DEF Backs, Kept, Unmapped
    <3>2. QED BY <2>5, <3>1 DEF Stays, Kept
  <2>8. Owned'
    BY <1>0, <1>1, <1>2, <2>4, <2>7, OwnedWhenCached
  <2>9. /\ There' = There
        /\ \A q \in There : /\ pool'[q].total_size = pool[q].total_size
                            /\ pool'[q].max_stack_size = pool[q].max_stack_size
                            /\ pool'[q].cache_capacity = pool[q].cache_capacity
    <3>1. /\ pool'[p].total_size = pool[p].total_size
          /\ pool'[p].max_stack_size = pool[p].max_stack_size
          /\ pool'[p].cache_capacity = pool[p].cache_capacity
      BY <1>1, <2>2 DEF Allocators
    <3>2. pool'[p] # NoPool
      BY <2>2, PoolAssumption
    <3>3. QED BY <1>1, <2>2, <3>1, <3>2 DEF There
  <2> DEFINE n == Len(Cache(p))
  <2>10. /\ Len(Cache(p)') = n + 1 /\ DOMAIN Cache(p)' = 1 .. n + 1 /\ n \in Nat
         /\ n + 1 <= pool[p].cache_capacity
         /\ Cache(p)'[n + 1] = s
         /\ \A i \in 1 .. n : i \in DOMAIN Cache(p) /\ Cache(p)'[i] = Cache(p)[i]
    <3>1. n \in Nat /\ pool[p].cache_capacity \in Nat /\ Len(pool[p].cache) = n
      BY <1>1 DEF Allocators
    <3>2. n + 1 <= pool[p].cache_capacity
      BY <1>4, <3>1 DEF CacheFull
    <3>3. QED BY <1>1, <2>4, <3>1, <3>2
  <2>11. \A q \in Pools : \A i \in DOMAIN Cache(q) :
            mem'[Cache(q)[i].base] = mem[Cache(q)[i].base]
    BY <1>0, <1>1, <2>5, CacheType DEF Owned, Stacks
  <2>12. \A q \in There : \A i \in DOMAIN Cache(q)' :
             /\ Cache(q)'[i].total_size = pool[q].total_size
             /\ LeanAt(Cache(q)[i].base)'
    <3>1. s.total_size = pool[p].total_size
      BY <1>4 DEF Foreign
    <3>2. \A i \in DOMAIN Cache(p)' : i = n + 1 \/ i \in 1 .. n
      BY <2>10
    <3>3. \A i \in DOMAIN Cache(p)' : LeanAt(Cache(p)[i].base)'
      BY <1>1, <2>5, <2>10, <2>11, <3>2 DEF Lean, LeanAt
    <3>4. \A i \in DOMAIN Cache(p)' : Cache(p)'[i].total_size = pool[p].total_size
      BY <1>1, <2>10, <3>1, <3>2 DEF Lean
    <3>5. \A q \in There \ {p} : \A i \in DOMAIN Cache(q)' :
             /\ Cache(q)'[i].total_size = pool[q].total_size
             /\ LeanAt(Cache(q)[i].base)'
      BY <2>4, <2>11 DEF Lean, LeanAt, There
    <3>6. QED BY <3>3, <3>4, <3>5
  <2>13. \A q \in There : /\ Len(Cache(q)') <= pool[q].cache_capacity
                          /\ pool[q].total_size = pool[q].max_stack_size + 1
    BY <2>4, <2>10 DEF Lean, There
  <2>14. Lean'
    BY <2>9, <2>12, <2>13 DEF Lean
  <2>15. QED BY <2>3, <2>8, <2>14
<1>5. QED BY <1>0, <1>3, <1>4 DEF PoolRelease

(* A pool goes, with what it cached.                                        *)
LEMMA PoolDestroyKeeps ==
    ASSUME PoolInv, NEW p \in Pools, PoolDestroy(p)
    PROVE  /\ PoolInv' /\ pool[p] # NoPool /\ pool'[p] = NoPool /\ held' = held
           /\ \A q \in Pools \ {p} : pool'[q] = pool[q] /\ leaked'[q] = leaked[q]
           /\ pool[p].active_count = 0 => leaked'[p] = 0
<1> USE DEF PoolInv
<1>1. /\ pool[p] # NoPool /\ pool' = [pool EXCEPT ![p] = NoPool] /\ held' = held
      /\ leaked' = [leaked EXCEPT ![p] = IF pool[p].active_count # 0 THEN -1 ELSE 0]
      /\ mem' \in Cleanup(mem, pool[p].cache)
  BY DEF PoolDestroy
<1>2. Cache(p) = pool[p].cache
  BY <1>1 DEF Cache
<1> DEFINE B == {Cache(p)[i].base : i \in DOMAIN Cache(p)}
<1>3. B \in SUBSET Bases
  BY CacheType DEF Stacks
<1>4. /\ mem' \in [Bases -> Mappings]
      /\ \A b \in B : ~ Kept(b)'
      /\ \A b \in Bases \ B : mem'[b] = mem[b]
  <2>1. mem' \in Munmap(mem, B) /\ mem \in [Bases -> Mappings]
    BY <1>1, <1>2 DEF Cleanup, PoolTypes
  <2>2. QED BY <1>3, <2>1, MunmapTakes DEF Kept
<1>5. \A b \in Bases : b \in B <=> \E i \in DOMAIN Cache(p) : Cache(p)[i].base = b
  OBVIOUS
<1> HIDE DEF B
<1>6. /\ pool'[p] = NoPool
      /\ \A q \in Pools \ {p} : pool'[q] = pool[q] /\ leaked'[q] = leaked[q]
      /\ pool[p].active_count = 0 => leaked'[p] = 0
  BY <1>1 DEF PoolTypes
<1>7. PoolTypes'
  <2>1. pool' \in [Pools -> Allocators \cup {NoPool}] /\ leaked' \in [Pools -> {0, -1}]
    BY <1>1 DEF PoolTypes
  <2>2. QED BY <1>1, <1>4, <2>1 DEF PoolTypes
<1>8. Cache(p)' = <<>> /\ \A q \in Pools \ {p} : Cache(q)' = Cache(q)
  BY <1>6 DEF Cache
<1>9. Owned'
  <2>1. \A b \in Bases :
           IF \/ TRUE /\ \E i \in DOMAIN Cache(p) : Cache(p)[i].base = b
              \/ \E k \in {} : held[k].base = b
           THEN ~ Kept(b)' ELSE mem'[b] = mem[b]
    BY <1>4, <1>5
  <2>2. held' = [k \in Holders |-> IF k \in {} THEN NoStack ELSE held[k]]
    BY <1>1 DEF PoolTypes
  <2>3. Cache(p)' = IF TRUE THEN <<>> ELSE Cache(p)
    BY <1>8
  <2>4. TRUE \in BOOLEAN /\ {} \in SUBSET Carrying
    OBVIOUS
  <2>5. QED BY <1>8, <2>1, <2>2, <2>3, <2>4, OwnedWhenUnmapped
<1>10. /\ There' = There \ {p}
       /\ \A q \in There' : pool'[q] = pool[q] /\ Cache(q)' = Cache(q)
  BY <1>6, <1>8 DEF There
<1>11. \A q \in Pools \ {p} : \A i \in DOMAIN Cache(q) :
          mem'[Cache(q)[i].base] = mem[Cache(q)[i].base]
  <2> SUFFICES ASSUME NEW q \in Pools \ {p}, NEW i \in DOMAIN Cache(q)
               PROVE  mem'[Cache(q)[i].base] = mem[Cache(q)[i].base]
    OBVIOUS
  <2>1. Cache(q)[i].base \in Bases
    BY CacheType DEF Stacks
  <2>2. \A j \in DOMAIN Cache(p) : Cache(p)[j].base # Cache(q)[i].base
    BY DEF Owned
  <2>3. QED BY <1>4, <1>5, <2>1, <2>2
<1>12. Lean'
  BY <1>10, <1>11 DEF Lean, LeanAt, There
<1>13. QED BY <1>1, <1>6, <1>7, <1>9, <1>12

(* A pool is created, with all of its first stacks or not at all.           *)
LEMMA PoolCreateKeeps ==
    ASSUME PoolInv, NEW p \in Pools, NEW max \in Sizes, NEW capacity \in Nat,
           NEW initial_cached \in Nat, PoolCreate(p, max, capacity, initial_cached)
    PROVE  /\ PoolInv' /\ held' = held /\ leaked' = leaked
           /\ \A q \in Pools \ {p} : pool'[q] = pool[q]
           /\ initial_cached = 0 => pool'[p] # NoPool /\ pool'[p].active_count = 0
<1> USE DEF PoolInv
<1>1. pool[p] = NoPool /\ initial_cached <= capacity /\ held' = held /\ leaked' = leaked
  BY DEF PoolCreate
<1>2. max \in Nat
  BY PoolAssumption
<1> DEFINE New == [pages |-> max + 1, guard |-> TRUE, resident |-> 0, refused |-> "nothing"]
<1>3. PICK n \in 0 .. initial_cached : \E made \in Injection(1 .. n, Free(mem)) :
         LET cache == [i \in 1 .. n |-> Stack(made[i], max)]
             m == Fill(mem, made, max)
         IN  IF n < initial_cached
             THEN mem' \in Cleanup(m, cache) /\ UNCHANGED pool
             ELSE /\ mem' = m
                  /\ pool' = [pool EXCEPT ![p] =
                       [max_stack_size |-> max, total_size |-> max + 1, cache |-> cache,
                        cache_capacity |-> capacity, active_count |-> 0]]
  BY DEF PoolCreate
<1>4. PICK made \in Injection(1 .. n, Free(mem)) :
         LET cache == [i \in 1 .. n |-> Stack(made[i], max)]
             m == Fill(mem, made, max)
         IN  IF n < initial_cached
             THEN mem' \in Cleanup(m, cache) /\ UNCHANGED pool
             ELSE /\ mem' = m
                  /\ pool' = [pool EXCEPT ![p] =
                       [max_stack_size |-> max, total_size |-> max + 1, cache |-> cache,
                        cache_capacity |-> capacity, active_count |-> 0]]
  BY <1>3
<1>5. PICK c : c = [i \in 1 .. n |-> Stack(made[i], max)]
  OBVIOUS
<1>6. /\ n \in Nat /\ DOMAIN made = 1 .. n
      /\ \A i \in 1 .. n : made[i] \in Free(mem)
      /\ \A i, j \in 1 .. n : made[i] = made[j] => i = j
  BY <1>4 DEF Injection, IsInjective
<1>7. /\ c \in Seq(Stacks) /\ DOMAIN c = 1 .. n /\ Len(c) = n
      /\ \A i \in 1 .. n : c[i].base = made[i] /\ c[i].total_size = max + 1
  <2>1. \A i \in 1 .. n : Stack(made[i], max) \in Stacks
    BY <1>2, <1>6 DEF Stack, Stacks, Free
  <2>2. c \in [1 .. n -> Stacks]
    BY <1>5, <2>1
  <2>3. \A i \in 1 .. n : c[i].base = made[i] /\ c[i].total_size = max + 1
    BY <1>5 DEF Stack
  <2>4. c \in Seq(Stacks) /\ Len(c) = n
    BY <1>6, <2>2
  <2>5. QED BY <1>5, <2>3, <2>4
<1>8. \A b : b \in Range(made) <=> \E i \in DOMAIN c : c[i].base = b
  BY <1>6, <1>7 DEF Range
<1>9. Fill(mem, made, max) =
         [b \in Bases |-> IF \E i \in DOMAIN c : c[i].base = b
                          THEN New
                          ELSE mem[b]]
  <2>1. \A b \in Bases : Mprotect(Mmap(mem, b, max + 1), b)[b]
                            = New
    BY DEF Mprotect, Mmap, PoolTypes
  <2>2. QED BY <1>8, <2>1 DEF Fill
<1>10. CASE n < initial_cached
  <2>1. mem' \in Cleanup(Fill(mem, made, max), c) /\ pool' = pool
    BY <1>4, <1>5, <1>10
  <2> DEFINE B == {c[i].base : i \in DOMAIN c}
  <2>2. B \in SUBSET Bases /\ \A b \in B : mem[b] = Unmapped
    BY <1>6, <1>7 DEF Free
  <2>3. /\ Fill(mem, made, max) \in [Bases -> Mappings]
        /\ \A b \in Bases \ B : Fill(mem, made, max)[b] = mem[b]
    <3>1. New \in Mappings
      BY <1>2 DEF Mappings
    <3>2. QED BY <1>9, <3>1 DEF PoolTypes
  <2>4. /\ mem' \in [Bases -> Mappings]
        /\ \A b \in B : ~ Kept(b)'
        /\ \A b \in Bases \ B : mem'[b] = mem[b]
    <3>1. mem' \in Munmap(Fill(mem, made, max), B)
      BY <2>1 DEF Cleanup
    <3>2. QED BY <2>2, <2>3, <3>1, MunmapTakes DEF Kept
  <2> HIDE DEF B
  <2>5. PoolTypes' /\ \A q \in Pools : Cache(q)' = Cache(q)
    BY <1>1, <2>1, <2>4 DEF PoolTypes, Cache
  <2>6. \A b \in Bases : Stays(b)
    BY <2>2, <2>4 DEF Stays, Kept
  <2>7. Owned'
    BY <1>1, <2>5, <2>6, OwnedWhenUsed
  <2>8. \A q \in There : \A i \in DOMAIN Cache(q) :
           mem'[Cache(q)[i].base] = mem[Cache(q)[i].base]
    <3> SUFFICES ASSUME NEW q \in There, NEW i \in DOMAIN Cache(q)
                 PROVE  mem'[Cache(q)[i].base] = mem[Cache(q)[i].base]
      OBVIOUS
    <3>1. q \in Pools /\ Cache(q)[i].base \in Bases
      BY CacheType DEF There, Stacks
    <3>2. mem[Cache(q)[i].base] # Unmapped
      BY <3>1, Mapped DEF Owned
    <3>3. QED BY <2>2, <2>4, <3>1, <3>2
  <2>9. Lean'
    BY <2>1, <2>5, <2>8 DEF Lean, LeanAt, There
  <2>10. initial_cached # 0
    BY <1>3, <1>10
  <2>11. QED BY <1>1, <2>1, <2>5, <2>7, <2>9, <2>10
<1>11. CASE ~ (n < initial_cached)
  <2>1. PICK a : a = [max_stack_size |-> max, total_size |-> max + 1, cache |-> c,
                      cache_capacity |-> capacity, active_count |-> 0]
    OBVIOUS
  <2>2. mem' = Fill(mem, made, max) /\ pool' = [pool EXCEPT ![p] = a]
    BY <1>4, <1>5, <1>11, <2>1
  <2>3. /\ a \in Allocators /\ a # NoPool /\ a.cache = c /\ a.total_size = max + 1
        /\ a.max_stack_size = max /\ a.cache_capacity = capacity /\ a.active_count = 0
    BY <1>2, <1>7, <2>1, PoolAssumption DEF Allocators
  <2>4. pool'[p] = a /\ \A q \in Pools \ {p} : pool'[q] = pool[q]
    BY <2>2 DEF PoolTypes
  <2>5. Cache(p) = <<>> /\ Cache(p)' = c /\ \A q \in Pools \ {p} : Cache(q)' = Cache(q)
    BY <1>1, <2>3, <2>4 DEF Cache
  <2>6. \A b \in Bases :
           mem'[b] = IF \E i \in DOMAIN c : c[i].base = b
                     THEN New
                     ELSE mem[b]
    BY <1>9, <2>2
  <2>7. PoolTypes'
    <3>1. New \in Mappings
      BY <1>2 DEF Mappings
    <3>2. mem' = [b \in Bases |-> mem'[b]]
      BY <1>9, <2>2
    <3>3. mem' \in [Bases -> Mappings]
      BY <2>6, <3>1, <3>2 DEF PoolTypes
    <3>4. pool' \in [Pools -> Allocators \cup {NoPool}]
      BY <2>2, <2>3 DEF PoolTypes
    <3>5. QED BY <1>1, <3>3, <3>4 DEF PoolTypes
  <2>8. \A i \in 1 .. n : /\ c[i].base \in Free(mem) /\ c[i].base \in Bases
                          /\ mem'[c[i].base].guard
                          /\ mem'[c[i].base].pages = c[i].total_size
                          /\ mem'[c[i].base].resident = 0
                          /\ mem'[c[i].base].refused = "nothing"
    BY <1>6, <1>7, <2>6 DEF Free
  <2>9. Owned'
    <3>1. \A i \in 1 .. n : Backs(Cache(p)[i])'
      BY <2>5, <2>8 DEF Backs, Kept, Unmapped
    <3>2. \A i, j \in 1 .. n : c[i].base = c[j].base => i = j
      BY <1>6, <1>7
    <3>3. \A b \in Bases : (\E i \in 1 .. n : c[i].base = b) \/ mem'[b] = mem[b]
      BY <1>7, <2>6
    <3>4. QED BY <1>1, <1>6, <1>7, <2>5, <2>8, <3>1, <3>2, <3>3, OwnedWhenFilled
  <2>10. Lean'
    <3>1. There' = There \cup {p} /\ p \notin There
      BY <1>1, <2>3, <2>4 DEF There
    <3>2. \A q \in There : \A i \in DOMAIN Cache(q) :
             mem'[Cache(q)[i].base] = mem[Cache(q)[i].base]
      <4> SUFFICES ASSUME NEW q \in There, NEW i \in DOMAIN Cache(q)
                   PROVE  mem'[Cache(q)[i].base] = mem[Cache(q)[i].base]
        OBVIOUS
      <4>1. q \in Pools /\ Cache(q)[i].base \in Bases
        BY CacheType DEF There, Stacks
      <4>2. mem[Cache(q)[i].base] # Unmapped
        BY <4>1, Mapped DEF Owned
      <4>3. QED BY <1>7, <2>6, <2>8, <4>1, <4>2 DEF Free
    <3>3. \A q \in There : /\ Cache(q)' = Cache(q) /\ pool'[q] = pool[q]
      BY <2>4, <2>5, <3>1 DEF There
    <3>4. Len(c) <= capacity /\ n = initial_cached
      BY <1>1, <1>3, <1>7, <1>11
    <3>5. \A q \in There' : /\ pool'[q].total_size = pool'[q].max_stack_size + 1
                            /\ Len(Cache(q)') <= pool'[q].cache_capacity
      BY <2>3, <2>4, <2>5, <3>1, <3>3, <3>4 DEF Lean
    <3>6. \A q \in There' : \A i \in DOMAIN Cache(q)' :
             /\ Cache(q)'[i].total_size = pool'[q].total_size
             /\ LeanAt(Cache(q)[i].base)'
      <4>1. \A i \in DOMAIN c : /\ c[i].total_size = a.total_size
                                /\ mem'[c[i].base].resident <= 1
        BY <1>7, <2>3, <2>8
      <4>2. \A q \in There : \A i \in DOMAIN Cache(q) :
               /\ Cache(q)[i].total_size = pool[q].total_size
               /\ \/ mem'[Cache(q)[i].base].resident <= 1
                  \/ mem'[Cache(q)[i].base].refused = "madvise"
        BY <3>2 DEF Lean, LeanAt
      <4>3. \A i \in DOMAIN Cache(p)' : /\ Cache(p)'[i].total_size = pool'[p].total_size
                                         /\ LeanAt(Cache(p)[i].base)'
        BY <2>4, <2>5, <4>1 DEF LeanAt
      <4>4. \A q \in There : \A i \in DOMAIN Cache(q)' :
               /\ Cache(q)'[i].total_size = pool'[q].total_size
               /\ LeanAt(Cache(q)[i].base)'
        BY <3>3, <4>2 DEF LeanAt
      <4>5. QED BY <3>1, <4>3, <4>4
    <3>7. QED BY <3>5, <3>6 DEF Lean
  <2>11. QED BY <1>1, <2>3, <2>4, <2>7, <2>9, <2>10
<1>12. QED BY <1>10, <1>11

-----------------------------------------------------------------------------
(* What the calls mean for the reactors: what they count, and who carries.  *)

(* A stack handed out is of the pool's size and counted, a failure changes  *)
(* nothing of this.                                                         *)
LEMMA PoolAllocCounts ==
    ASSUME PoolInv, NEW p \in Pools, NEW k \in Holders, PoolAlloc(p, k)
    PROVE  /\ held[k] = NoStack /\ leaked' = leaked
           /\ \A l \in Holders \ {k} : held'[l] = held[l]
           /\ \A q \in Pools \ {p} : pool'[q] = pool[q]
           /\ pool[p] # NoPool /\ pool'[p] # NoPool
           /\ pool'[p].total_size = pool[p].total_size
           /\ IF held'[k] = NoStack THEN pool' = pool
              ELSE /\ pool'[p].active_count = pool[p].active_count + 1
                   /\ held'[k].total_size = pool[p].total_size
<1> USE DEF PoolInv
<1>1. pool[p] \in Allocators /\ pool[p] # NoPool /\ held[k] = NoStack /\ p \in There
  BY DEF PoolAlloc, PoolTypes, There
<1>3. pool'[p] \in Allocators /\ pool'[p] # NoPool
  BY PoolAllocKeeps, PoolAssumption
<1>4. \A l \in Holders \ {k} : held'[l] = held[l]
  BY DEF PoolAlloc, PoolTypes
<1>5. CASE pool[p].cache # <<>>
  <2>1. /\ pool' = [pool EXCEPT ![p].active_count = @ + 1, ![p].cache = Front(@)]
        /\ held' = [held EXCEPT ![k] = Last(pool[p].cache)]
    BY <1>5 DEF PoolAlloc
  <2>2. /\ pool'[p] = [pool[p] EXCEPT !.active_count = @ + 1, !.cache = Front(@)]
        /\ \A q \in Pools \ {p} : pool'[q] = pool[q]
    BY <1>1, <2>1 DEF PoolTypes
  <2>3. /\ pool'[p].total_size = pool[p].total_size
        /\ pool'[p].active_count = pool[p].active_count + 1
    BY <1>1, <2>2 DEF Allocators
  <2>4. Len(Cache(p)) \in DOMAIN Cache(p) /\ Cache(p) = pool[p].cache
    BY <1>1, <1>5, CacheType
  <2>5. held'[k] = Cache(p)[Len(Cache(p))] /\ held'[k] # NoStack
    BY <2>1, <2>4, CacheType, PoolAssumption DEF Last, PoolTypes
  <2>6. held'[k].total_size = pool[p].total_size
    BY <1>1, <2>4, <2>5 DEF Lean
  <2>7. QED BY <1>1, <1>3, <1>4, <2>2, <2>3, <2>5, <2>6 DEF PoolAlloc
<1>6. CASE pool[p].cache = <<>>
  <2>1. PICK r \in Create(mem, pool[p].max_stack_size) :
           /\ held' = [held EXCEPT ![k] = r.stack]
           /\ pool' = IF r.stack = NoStack THEN pool
                      ELSE [pool EXCEPT ![p].active_count = @ + 1]
    BY <1>6 DEF PoolAlloc
  <2>2. held'[k] = r.stack
    BY <2>1 DEF PoolTypes
  <2>3. CASE r.stack = NoStack
    BY <1>1, <1>3, <1>4, <2>1, <2>2, <2>3 DEF PoolAlloc
  <2>4. CASE r.stack # NoStack
    <3>1. r.stack.total_size = pool[p].max_stack_size + 1
      BY <2>4 DEF Create, Stack
    <3>2. /\ pool'[p] = [pool[p] EXCEPT !.active_count = @ + 1]
          /\ \A q \in Pools \ {p} : pool'[q] = pool[q]
      BY <1>1, <2>1, <2>4 DEF PoolTypes
    <3>3. /\ pool'[p].total_size = pool[p].total_size
          /\ pool'[p].active_count = pool[p].active_count + 1
      BY <1>1, <3>2 DEF Allocators
    <3>4. held'[k].total_size = pool[p].total_size
      BY <1>1, <2>2, <3>1 DEF Lean
    <3>5. QED BY <1>1, <1>3, <1>4, <2>2, <2>4, <3>2, <3>3, <3>4 DEF PoolAlloc
  <2>5. QED BY <2>3, <2>4
<1>7. QED BY <1>5, <1>6

(* A stack of the pool that comes back is counted.                          *)
LEMMA PoolReleaseCounts ==
    ASSUME PoolInv, NEW p \in Pools, NEW k \in Holders, PoolRelease(p, k)
    PROVE  /\ held[k] # NoStack /\ held'[k] = NoStack /\ leaked' = leaked
           /\ \A l \in Holders \ {k} : held'[l] = held[l]
           /\ \A q \in Pools \ {p} : pool'[q] = pool[q]
           /\ pool[p] # NoPool /\ pool'[p] # NoPool
           /\ pool'[p].total_size = pool[p].total_size
           /\ held[k].total_size = pool[p].total_size
                 => pool'[p].active_count = pool[p].active_count - 1
<1> USE DEF PoolInv
<1>1. pool[p] \in Allocators /\ pool[p] # NoPool /\ held[k] # NoStack
  BY DEF PoolRelease, PoolTypes
<1>2. /\ held'[k] = NoStack /\ \A l \in Holders \ {k} : held'[l] = held[l]
      /\ leaked' = leaked
  BY DEF PoolRelease, PoolTypes
<1>3. CASE Foreign(p, held[k]) /\ pool' = pool
  BY <1>1, <1>2, <1>3 DEF Foreign
<1>4. CASE pool' = [pool EXCEPT ![p].active_count = @ - 1]
  <2>1. /\ pool'[p] = [pool[p] EXCEPT !.active_count = @ - 1]
        /\ \A q \in Pools \ {p} : pool'[q] = pool[q]
    BY <1>1, <1>4 DEF PoolTypes
  <2>2. /\ pool'[p] \in Allocators /\ pool'[p].total_size = pool[p].total_size
        /\ pool'[p].active_count = pool[p].active_count - 1
    BY <1>1, <2>1 DEF Allocators
  <2>3. QED BY <1>1, <1>2, <2>1, <2>2, PoolAssumption
<1>5. CASE pool' = [pool EXCEPT ![p].active_count = @ - 1, ![p].cache = Append(@, held[k])]
  <2> DEFINE a == [pool[p] EXCEPT !.active_count = @ - 1, !.cache = Append(@, held[k])]
  <2>1. pool' = [pool EXCEPT ![p] = a]
    BY <1>1, <1>5 DEF PoolTypes
  <2>2. a.total_size = pool[p].total_size /\ a.active_count = pool[p].active_count - 1
    BY <1>1 DEF Allocators
  <2> HIDE DEF a
  <2>3. pool'[p] = a /\ \A q \in Pools \ {p} : pool'[q] = pool[q]
    BY <2>1 DEF PoolTypes
  <2>4. pool'[p] # NoPool
    <3>1. PoolInv'
      BY PoolReleaseKeeps
    <3>2. a = [pool[p] EXCEPT !.active_count = @ - 1, !.cache = Append(@, held[k])]
      BY DEF a
    <3>3. -1 \in Int /\ Append(pool[p].cache, held[k]) \in Seq(Stacks)
      BY <1>1 DEF Allocators, PoolTypes
    <3>4. [pool[p] EXCEPT !.active_count = @ + (-1), !.cache = Append(pool[p].cache, held[k])]
             \in Allocators
      BY <1>1, <3>3, AllocatorType, Zenon
    <3>5. a \in Allocators
      BY <1>1, <3>2, <3>4 DEF Allocators
    <3>6. QED BY <2>3, <3>5, PoolAssumption
  <2>5. QED BY <1>1, <1>2, <2>2, <2>3, <2>4
<1>6. QED BY <1>3, <1>4, <1>5 DEF PoolRelease

-----------------------------------------------------------------------------
(* Reactors *)

(* A reactor to which nothing happens is as it was.                         *)
LEMMA LifeUntouched ==
    ASSUME NEW r \in Reactors, LifeOf(r),
           pool'[r] = pool[r], leaked'[r] = leaked[r],
           owns'[r] = owns[r], live'[r] = live[r],
           \A k \in live[r] : held'[k] = held[k]
    PROVE  LifeOf(r)'
BY DEF LifeOf

(* The steps of a creation are there or not; those it undoes are all.       *)
LEMMA StepsUndone ==
    /\ Range(Steps) # {}
    /\ \A n \in 0 .. Len(Steps) : {Steps[i] : i \in 1 .. n} \ Undone = {}
<1>1. Len(Steps) = 5 /\ DOMAIN Steps = 1 .. 5
  BY DEF Steps
<1>2. \A i \in 1 .. 5 : Steps[i] \in Undone
  BY DEF Steps, Undone
<1>3. Steps[1] \in Range(Steps)
  BY <1>1 DEF Range
<1>4. QED BY <1>1, <1>2, <1>3

(* A fiber is counted, or no longer, among finitely many.                   *)
LEMMA CountOne ==
    ASSUME NEW S \in SUBSET Holders, NEW k \in Holders
    PROVE  /\ Cardinality(S) \in Nat
           /\ k \notin S => Cardinality(S \cup {k}) = Cardinality(S) + 1
           /\ k \in S => Cardinality(S \ {k}) = Cardinality(S) - 1
<1>1. IsFiniteSet(S)
  BY PoolAssumption, FS_Subset
<1>2. QED BY <1>1, FS_CardinalityType, FS_AddElement, FS_RemoveElement

(* Where nothing happens to the pools they are as they were.                *)
LEMMA KeptUnchanged ==
    ASSUME PoolInv, pool' = pool, held' = held, mem' = mem, leaked' = leaked
    PROVE  PoolInv'
<1>1. \A p : Cache(p)' = Cache(p)
  BY DEF Cache
<1>2. PoolTypes' /\ Lean'
  BY <1>1 DEF PoolInv, PoolTypes, Lean, LeanAt, There
<1>3. Owned'
  BY <1>1, OwnedWhenUsed DEF PoolInv, Stays, Kept
<1>4. QED BY <1>2, <1>3 DEF PoolInv

(* Every step keeps both invariants. *)
LEMMA NextKeeps == IInv /\ [Next]_vars => IInv'
<1> SUFFICES ASSUME PoolInv, LifeInv, [Next]_vars
             PROVE  PoolInv' /\ LifeInv'
  BY DEF IInv
<1> USE LifeAssumption
<1>1. /\ \A r \in Reactors : r \in Pools /\ LifeOf(r)
      /\ owns \in [Reactors -> SUBSET (Range(Steps) \cup OnDemand)]
      /\ live \in [Reactors -> SUBSET Holders]
      /\ \A r, s \in Reactors : r # s => live[r] \cap live[s] = {}
  BY DEF LifeInv
<1>2. \A r \in Reactors : pool[r] = NoPool <=> owns[r] = {}
  BY <1>1, StepsUndone DEF LifeOf
<1>3. \A r \in Reactors : live[r] \subseteq OfFibers /\ live[r] \subseteq Holders
  BY <1>1 DEF OfFibers
<1>4. ASSUME NEW r \in Reactors, ReactorCreateFails(r)
      PROVE  PoolInv' /\ LifeInv'
  <2>1. UNCHANGED <<poolVars, live>> /\ owns' = [owns EXCEPT ![r] = {}] /\ owns[r] = {}
    BY <1>4, StepsUndone DEF ReactorCreateFails
  <2>2. PoolInv'
    BY <2>1, KeptUnchanged DEF poolVars
  <2>3. owns' = owns
    BY <1>1, <2>1
  <2>4. \A s \in Reactors : LifeOf(s)'
    BY <1>1, <2>1, <2>3 DEF LifeOf, poolVars
  <2>5. QED BY <1>1, <2>1, <2>2, <2>3, <2>4 DEF LifeInv
<1>5. ASSUME NEW r \in Reactors, NEW max \in Sizes, ReactorCreate(r, max)
      PROVE  PoolInv' /\ LifeInv'
  <2>1. /\ owns[r] = {} /\ PoolCreate(r, max, StackCache, 0)
        /\ owns' = [owns EXCEPT ![r] = Range(Steps)] /\ live' = live
    BY <1>5 DEF ReactorCreate
  <2>2. PoolInv'
    BY <1>1, <2>1, PoolCreateKeeps
  <2>3. held' = held /\ leaked' = leaked
    BY <1>1, <2>1, PoolCreateKeeps
  <2>4. /\ pool'[r] # NoPool /\ pool'[r].active_count = 0
        /\ \A s \in Reactors \ {r} : pool'[s] = pool[s]
    BY <1>1, <2>1, PoolCreateKeeps
  <2>5. live[r] = {} /\ Cardinality(live[r]) = 0
    BY <1>1, <1>2, <2>1, FS_EmptySet DEF LifeOf
  <2>6. \A s \in Reactors \ {r} : LifeOf(s)'
    BY <1>1, <2>1, <2>3, <2>4, LifeUntouched
  <2>8. LifeOf(r)'
    BY <1>1, <2>1, <2>4, <2>5 DEF LifeOf
  <2>9. QED BY <1>1, <2>1, <2>2, <2>6, <2>8 DEF LifeInv
<1>6. ASSUME NEW r \in Reactors, Grow(r)
      PROVE  PoolInv' /\ LifeInv'
  <2>1. /\ UNCHANGED <<poolVars, live>> /\ pool[r] # NoPool
        /\ \E x \in OnDemand : owns' = [owns EXCEPT ![r] = @ \cup {x}]
    BY <1>6 DEF Grow, Open
  <2>2. PoolInv'
    BY <2>1, KeptUnchanged DEF poolVars
  <2>3. /\ owns' \in [Reactors -> SUBSET (Range(Steps) \cup OnDemand)]
        /\ owns[r] \subseteq owns'[r] /\ \A s \in Reactors \ {r} : owns'[s] = owns[s]
    BY <1>1, <2>1
  <2>4. \A s \in Reactors \ {r} : LifeOf(s)'
    BY <1>1, <2>1, <2>3, LifeUntouched DEF poolVars
  <2>5. LifeOf(r)'
    BY <1>1, <2>1, <2>3 DEF LifeOf, poolVars
  <2>6. QED BY <1>1, <2>1, <2>2, <2>3, <2>4, <2>5 DEF LifeInv
<1>7. ASSUME NEW r \in Reactors, NEW k \in Holders, Spawn(r, k)
      PROVE  PoolInv' /\ LifeInv'
  <2>1. /\ k \notin OfFibers /\ PoolAlloc(r, k) /\ owns' = owns
        /\ live' = IF held'[k] = NoStack THEN live ELSE [live EXCEPT ![r] = @ \cup {k}]
    BY <1>7 DEF Spawn
  <2>2. PoolInv'
    BY <1>1, <2>1, PoolAllocKeeps
  <2>3. /\ held[k] = NoStack /\ leaked' = leaked
        /\ \A l \in Holders \ {k} : held'[l] = held[l]
        /\ \A q \in Pools \ {r} : pool'[q] = pool[q]
        /\ pool[r] # NoPool /\ pool'[r] # NoPool
        /\ pool'[r].total_size = pool[r].total_size
        /\ IF held'[k] = NoStack THEN pool' = pool
           ELSE /\ pool'[r].active_count = pool[r].active_count + 1
                /\ held'[k].total_size = pool[r].total_size
    BY <1>1, <2>1, PoolAllocCounts
  <2>4. \A s \in Reactors : k \notin live[s]
    BY <1>3, <2>1
  <2>5. \A s \in Reactors \ {r} : LifeOf(s)'
    <3>1. \A s \in Reactors \ {r} : live'[s] = live[s]
      BY <1>1, <2>1
    <3>2. \A s \in Reactors : \A l \in live[s] : held'[l] = held[l]
      BY <1>3, <2>3, <2>4
    <3>3. QED BY <1>1, <2>1, <2>3, <3>1, <3>2, LifeUntouched
  <2>6. CASE held'[k] = NoStack
    <3>1. live' = live /\ pool' = pool
      BY <2>1, <2>3, <2>6
    <3>2. LifeOf(r)'
      BY <1>1, <1>3, <2>1, <2>3, <2>4, <3>1 DEF LifeOf
    <3>3. QED BY <1>1, <2>1, <2>2, <2>5, <3>1, <3>2 DEF LifeInv
  <2>7. CASE held'[k] # NoStack
    <3>1. live' = [live EXCEPT ![r] = @ \cup {k}]
      BY <2>1, <2>7
    <3>2. /\ live'[r] = live[r] \cup {k} /\ \A s \in Reactors \ {r} : live'[s] = live[s]
          /\ live' \in [Reactors -> SUBSET Holders]
      BY <1>1, <3>1
    <3>3. \A s, t \in Reactors : s # t => live'[s] \cap live'[t] = {}
      BY <1>1, <2>4, <3>2
    <3>4. Cardinality(live'[r]) = Cardinality(live[r]) + 1
      BY <1>3, <2>4, <3>2, CountOne
    <3>5. LifeOf(r)'
      BY <1>1, <1>3, <2>1, <2>3, <2>4, <2>7, <3>2, <3>4 DEF LifeOf
    <3>6. QED BY <1>1, <2>1, <2>2, <2>5, <3>2, <3>3, <3>5 DEF LifeInv
  <2>8. QED BY <2>6, <2>7
<1>8. ASSUME NEW r \in Reactors, NEW k \in Holders, GiveBack(r, k)
      PROVE  PoolInv' /\ LifeInv'
  <2>1. /\ k \in live[r] /\ PoolRelease(r, k) /\ owns' = owns
        /\ live' = [live EXCEPT ![r] = @ \ {k}]
    BY <1>8 DEF GiveBack
  <2>2. PoolInv'
    BY <1>1, <2>1, PoolReleaseKeeps
  <2>3. /\ leaked' = leaked
        /\ \A l \in Holders \ {k} : held'[l] = held[l]
        /\ \A q \in Pools \ {r} : pool'[q] = pool[q]
        /\ pool[r] # NoPool /\ pool'[r] # NoPool
        /\ pool'[r].total_size = pool[r].total_size
        /\ pool'[r].active_count = pool[r].active_count - 1
    <3>1. held[k].total_size = pool[r].total_size
      BY <1>1, <2>1 DEF LifeOf
    <3>2. QED BY <1>1, <2>1, <3>1, PoolReleaseCounts
  <2>4. /\ live'[r] = live[r] \ {k} /\ \A s \in Reactors \ {r} : live'[s] = live[s]
        /\ live' \in [Reactors -> SUBSET Holders]
    BY <1>1, <2>1
  <2>5. \A s \in Reactors \ {r} : k \notin live[s]
    BY <1>1, <2>1
  <2>6. \A s \in Reactors \ {r} : LifeOf(s)'
    <3>1. \A s \in Reactors \ {r} : \A l \in live[s] : held'[l] = held[l]
      BY <1>3, <2>3, <2>5
    <3>2. QED BY <1>1, <2>1, <2>3, <2>4, <3>1, LifeUntouched
  <2>7. LifeOf(r)'
    <3>1. Cardinality(live'[r]) = Cardinality(live[r]) - 1
      BY <1>3, <2>1, <2>4, CountOne
    <3>2. \A l \in live'[r] : held'[l] = held[l] /\ l \in live[r]
      BY <1>3, <2>3, <2>4
    <3>3. QED BY <1>1, <2>1, <2>3, <3>1, <3>2 DEF LifeOf
  <2>8. \A s, t \in Reactors : s # t => live'[s] \cap live'[t] = {}
    BY <1>1, <2>4
  <2>9. QED BY <1>1, <2>1, <2>2, <2>4, <2>6, <2>7, <2>8 DEF LifeInv
<1>9. ASSUME NEW r \in Reactors, DestroyEnds(r)
      PROVE  PoolInv' /\ LifeInv'
  <2>1. /\ live[r] = {} /\ PoolDestroy(r) /\ live' = live
        /\ owns' = [owns EXCEPT ![r] = @ \ (Range(Steps) \cup OnDemand)]
    BY <1>9 DEF DestroyEnds
  <2>2. /\ PoolInv' /\ pool[r] # NoPool /\ pool'[r] = NoPool /\ held' = held
        /\ \A s \in Reactors \ {r} : pool'[s] = pool[s] /\ leaked'[s] = leaked[s]
        /\ pool[r].active_count = 0 => leaked'[r] = 0
    BY <1>1, <2>1, PoolDestroyKeeps
  <2>3. leaked'[r] = 0
    BY <1>1, <2>1, <2>2, FS_EmptySet DEF LifeOf
  <2>4. /\ owns'[r] = {} /\ \A s \in Reactors \ {r} : owns'[s] = owns[s]
        /\ owns' \in [Reactors -> SUBSET (Range(Steps) \cup OnDemand)]
    BY <1>1, <2>1
  <2>5. \A s \in Reactors \ {r} : LifeOf(s)'
    BY <1>1, <2>1, <2>2, <2>4, LifeUntouched
  <2>6. LifeOf(r)'
    BY <2>1, <2>2, <2>3, <2>4 DEF LifeOf
  <2>7. QED BY <1>1, <2>1, <2>2, <2>4, <2>5, <2>6 DEF LifeInv
\* A user's step leaves what the reactors have to them
<1>10. ASSUME PoolInv', UNCHANGED <<owns, live>>,
              \A r \in Reactors : pool'[r] = pool[r] /\ leaked'[r] = leaked[r],
              \A r \in Reactors : \A k \in live[r] : held'[k] = held[k]
       PROVE  LifeInv'
  <2>1. \A r \in Reactors : LifeOf(r)'
    BY <1>1, <1>10, LifeUntouched
  <2>2. QED BY <1>1, <1>10, <2>1 DEF LifeInv
<1>11. ASSUME UserStep
       PROVE  PoolInv' /\ LifeInv'
  <2>1. UNCHANGED <<owns, live>>
    BY <1>11 DEF UserStep, lifeVars
  <2>2. PICK p \in UserPools :
          \/ \E max \in Sizes, capacity \in Capacities :
                \E n \in 0 .. capacity : PoolCreate(p, max, capacity, n)
          \/ PoolDestroy(p)
          \/ \E k \in Holders \ OfFibers : PoolAlloc(p, k) \/ UserRelease(p, k)
    BY <1>11 DEF UserStep
  <2>3. p \in Pools /\ \A r \in Reactors : r \in Pools \ {p}
    BY <2>2 DEF UserPools
  <2>4. ASSUME NEW max \in Sizes, NEW capacity \in Capacities, NEW n \in 0 .. capacity,
               PoolCreate(p, max, capacity, n)
        PROVE  PoolInv' /\ LifeInv'
    <3>0. capacity \in Nat /\ n \in Nat
      OBVIOUS
    <3>1. /\ PoolInv' /\ held' = held /\ leaked' = leaked
          /\ \A q \in Pools \ {p} : pool'[q] = pool[q]
      BY <2>3, <2>4, <3>0, PoolCreateKeeps
    <3>2. QED BY <1>10, <2>1, <2>3, <3>1
  <2>5. ASSUME PoolDestroy(p)
        PROVE  PoolInv' /\ LifeInv'
    <3>1. /\ PoolInv' /\ held' = held
          /\ \A q \in Pools \ {p} : pool'[q] = pool[q] /\ leaked'[q] = leaked[q]
      BY <2>3, <2>5, PoolDestroyKeeps
    <3>2. QED BY <1>10, <2>1, <2>3, <3>1
  <2>6. ASSUME NEW k \in Holders \ OfFibers, PoolAlloc(p, k) \/ PoolRelease(p, k)
        PROVE  PoolInv' /\ LifeInv'
    <3>1. /\ PoolInv' /\ leaked' = leaked
          /\ \A l \in Holders \ {k} : held'[l] = held[l]
          /\ \A q \in Pools \ {p} : pool'[q] = pool[q]
      BY <2>3, <2>6, PoolAllocKeeps, PoolReleaseKeeps, PoolAllocCounts, PoolReleaseCounts
    <3>2. \A r \in Reactors : \A l \in live[r] : held'[l] = held[l]
      BY <1>3, <3>1
    <3>3. QED BY <1>10, <2>1, <2>3, <3>1, <3>2
  <2>7. QED BY <2>2, <2>4, <2>5, <2>6 DEF UserRelease
<1>12. ASSUME NEW k \in Holders, Touch(k), UNCHANGED <<owns, live>>
       PROVE  PoolInv' /\ LifeInv'
  <2>1. PoolInv'
    BY <1>12, TouchKeeps
  <2>2. pool' = pool /\ held' = held /\ leaked' = leaked
    BY <1>12 DEF Touch
  <2>3. QED BY <1>10, <1>12, <2>1, <2>2
<1>13. ASSUME UNCHANGED <<poolVars, owns, live>>
       PROVE  PoolInv' /\ LifeInv'
  <2>1. PoolInv'
    BY <1>13, KeptUnchanged DEF poolVars
  <2>2. QED BY <1>10, <1>13, <2>1 DEF poolVars
<1>14. CASE UNCHANGED vars
  BY <1>13, <1>14 DEF vars, lifeVars
<1>15. CASE \E r \in Reactors : DestroyStarts(r)
  BY <1>13, <1>15 DEF DestroyStarts
<1>16. ASSUME NEW r \in Reactors, NEW k \in Holders, FiberRecycle(r, k) \/ Discard(r, k)
       PROVE  PoolInv' /\ LifeInv'
  BY <1>8, <1>16 DEF FiberRecycle, Discard
<1>17. QED
  BY <1>4, <1>5, <1>6, <1>7, <1>9, <1>11, <1>12, <1>14, <1>15, <1>16 DEF Next, lifeVars

(* It holds at first. *)
LEMMA InitKeeps == Init => IInv
<1> SUFFICES ASSUME Init PROVE IInv
  OBVIOUS
<1>1. /\ pool = [p \in Pools |-> NoPool] /\ held = [k \in Holders |-> NoStack]
      /\ mem = [b \in Bases |-> Unmapped] /\ leaked = [p \in Pools |-> 0]
      /\ owns = [r \in Reactors |-> {}] /\ live = [r \in Reactors |-> {}]
  BY DEF Init, InitPools
<1>2. There = {} /\ Carrying = {} /\ \A p \in Pools : Cache(p) = <<>>
  BY <1>1 DEF There, Carrying, Cache
<1>3. PoolTypes
  <2>1. Unmapped \in Mappings
    BY DEF Unmapped, Mappings
  <2>2. QED BY <1>1, <2>1 DEF PoolTypes
<1>4. Owned /\ Lean
  BY <1>1, <1>2 DEF Owned, Lean, Kept
<1>5. LifeInv
  BY <1>1, LifeAssumption DEF LifeInv, LifeOf
<1>6. QED BY <1>3, <1>4, <1>5 DEF IInv, PoolInv

-----------------------------------------------------------------------------
(* Theorems *)

(* The invariant holds in every state. *)
THEOREM Invariance == Spec => []IInv
<1>1. Init => IInv
  BY InitKeeps
<1>2. IInv /\ [Next]_vars => IInv'
  BY NextKeeps
<1>3. QED BY <1>1, <1>2, PTL DEF Spec

(* No two fibers run on one stack and no mapping is lost, whatever fails    *)
(* and whatever pool a stack is given back to.                              *)
THEOREM StacksHaveOneOwner == Spec => []OwnedOnce
<1>1. IInv => OwnedOnce
  <2> SUFFICES ASSUME PoolTypes, Owned
               PROVE  OwnedOnce
    BY DEF IInv, PoolInv
  <2> DEFINE At(c) == pool[c[1]].cache[c[2]]
  <2>1. \A c \in Cached : /\ c[1] \in Pools /\ c[2] \in DOMAIN Cache(c[1]) /\ c = <<c[1], c[2]>>
                          /\ At(c) = Cache(c[1])[c[2]] /\ At(c).base \in Bases
    <3>1. \A p \in There : /\ p \in Pools /\ Cache(p) = pool[p].cache
                           /\ \A i \in DOMAIN Cache(p) : Cache(p)[i].base \in Bases
      BY CacheType DEF There, Stacks
    <3>2. QED BY <3>1 DEF Cached
  <2>2. \A p \in Pools : \A i \in DOMAIN Cache(p) :
           <<p, i>> \in Cached /\ At(<<p, i>>) = Cache(p)[i]
    BY CacheType DEF Cached
  <2> HIDE DEF At
  <2>3. \A c, d \in Cached : At(c).base = At(d).base => c = d
    <3>1. ASSUME NEW c \in Cached, NEW d \in Cached, At(c).base = At(d).base
          PROVE  c = d
      <4>1. c[1] = d[1] /\ c[2] = d[2]
        BY <2>1, <3>1 DEF Owned
      <4>2. QED BY <2>1, <4>1
    <3>2. QED BY <3>1
  <2>4. \A c \in Cached, k \in Carrying : At(c).base # held[k].base
    BY <2>1 DEF Owned
  <2>5. \A s \in {At(c) : c \in Cached} \cup {held[k] : k \in Carrying} :
           s.base \in Bases /\ Backs(s)
    BY <2>1, CarriedType DEF Owned
  <2>6. {b \in Bases : mem[b] # Unmapped /\ mem[b].refused # "munmap"}
           = {At(c).base : c \in Cached} \cup {held[k].base : k \in Carrying}
    <3>1. ASSUME NEW b \in Bases, Kept(b)
          PROVE  b \in {At(c).base : c \in Cached} \cup {held[k].base : k \in Carrying}
      <4>1. CASE InCache(b)
        <5>1. PICK p \in Pools : \E i \in DOMAIN Cache(p) : Cache(p)[i].base = b
          BY <4>1 DEF InCache
        <5>2. PICK i \in DOMAIN Cache(p) : Cache(p)[i].base = b
          BY <5>1
        <5>3. <<p, i>> \in Cached /\ At(<<p, i>>).base = b
          BY <2>2, <5>2
        <5>4. QED BY <5>3
      <4>2. CASE InUse(b)
        BY <4>2 DEF InUse
      <4>3. QED BY <3>1, <4>1, <4>2 DEF Owned
    <3>2. ASSUME NEW b \in {At(c).base : c \in Cached} \cup {held[k].base : k \in Carrying}
          PROVE  b \in Bases /\ Kept(b)
      <4>1. CASE \E c \in Cached : b = At(c).base
        <5>1. PICK c \in Cached : b = At(c).base
          BY <4>1
        <5>2. At(c).base \in Bases /\ Backs(At(c))
          BY <2>1 DEF Owned
        <5>3. QED BY <5>1, <5>2, Mapped
      <4>2. CASE \E k \in Carrying : b = held[k].base
        <5>1. PICK k \in Carrying : b = held[k].base
          BY <4>2
        <5>2. held[k].base \in Bases /\ Backs(held[k])
          BY CarriedType DEF Owned
        <5>3. QED BY <5>1, <5>2, Mapped
      <4>3. QED BY <3>2, <4>1, <4>2
    <3>3. QED BY <3>1, <3>2 DEF Kept
  <2>7. QED BY <2>3, <2>4, <2>5, <2>6 DEF OwnedOnce, Owned, Backs, At
<1>2. QED BY <1>1, Invariance, PTL

(* What a pool keeps in reserve is of its size and within its capacity, and *)
(* a stack of which more than a page is resident there is one whose pages   *)
(* the system would not take: no release forgets to ask.                    *)
THEOREM CachesAreLean == Spec => []CacheIsLean
<1>1. IInv => CacheIsLean
  <2> SUFFICES ASSUME PoolTypes, Lean
               PROVE  CacheIsLean
    BY DEF IInv, PoolInv
  <2>1. \A p \in There : Cache(p) = pool[p].cache
    BY DEF There, Cache
  <2>2. QED BY <2>1 DEF Lean, LeanAt, CacheIsLean
<1>2. QED BY <1>1, Invariance, PTL

(* A reactor is all there or not at all, and its pool had every stack back. *)
THEOREM ReactorsAreWholeOrGone == Spec => []WholeOrGone
<1>1. IInv => WholeOrGone
  BY DEF IInv, LifeInv, LifeOf, WholeOrGone, Carrying
<1>2. QED BY <1>1, Invariance, PTL
=============================================================================
