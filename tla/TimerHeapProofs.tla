--------------------------- MODULE TimerHeapProofs ---------------------------
(***************************************************************************)
(* Proofs about TimerHeap: the invariant of the two sift loops is          *)
(* inductive, the root of the heap is the earliest deadline between        *)
(* operations, and the heap implements TimerSet, for any number of fibers. *)
(***************************************************************************)
EXTENDS TimerHeap, NaturalsInduction, WellFoundedInduction, TLAPS

(* Every place but the root has its parent above it and is its left or      *)
(* right child.                                                             *)
LEMMA ParentBelow ==
    \A j \in Nat \ {0} :
        /\ Parent(j) \in Nat /\ Parent(j) < j
        /\ j = Left(Parent(j)) \/ j = Right(Parent(j))
BY DEF Parent, Left, Right

(* The two places heap_sift_down looks at are the children. *)
LEMMA ChildrenOf ==
    \A j \in Nat :
        /\ Left(j) \in Nat \ {0} /\ Right(j) \in Nat \ {0}
        /\ Parent(Left(j)) = j /\ Parent(Right(j)) = j
        /\ Left(j) > j /\ Right(j) > j
BY DEF Parent, Left, Right

(* Growing makes room for at least one more. *)
LEMMA GrowthMakesRoom ==
    \A a \in Nat \ {0}, b \in Nat : b >= 2 => a * b \in Nat /\ a * b >= a + 1
OBVIOUS

(* The empty heap satisfies the invariant. *)
LEMMA InvInit == Init => IInv
<1> SUFFICES ASSUME Init PROVE IInv
  OBVIOUS
<1>1. Slots = {}
  BY DEF Init, Slots
<1>2. TypeOK
  <2>1. heap \in [Slots -> Fibers]
    BY <1>1 DEF Init
  <2>2. deadline_ns \in [Fibers -> Deadlines] /\ now \in 0 .. MaxTime
    BY TimeAssumption DEF Init, Deadlines, Never
  <2> QED BY <2>1, <2>2 DEF Init, TypeOK
<1>3. WithinCapacity /\ PlacesKnown /\ HeapInv
  BY <1>1 DEF Init, WithinCapacity, PlacesKnown, HeapInv, NoTimer
<1> QED BY <1>2, <1>3 DEF IInv

(* Every place holds a fiber and with it a number to compare. *)
LEMMA AtType == TypeOK => \A j \in Slots : At(j) \in Int
BY TimeAssumption DEF TypeOK, At, Deadlines, Never

(* timer_add puts the fiber at the end, where only the edge above it can    *)
(* be out of order.                                                         *)
LEMMA AddStep ==
    ASSUME IInv, NEW f \in Fibers, NEW d \in Deadlines, TimerAdd(f, d)
    PROVE  IInv'
<1> USE DEF TimerAdd
<1>1. TypeOK'
  <2>1. heap_cap' \in Nat
    BY CapAssumption, GrowthMakesRoom DEF IInv, TypeOK, Reserved
  <2>2. heap' \in [Slots' -> Fibers]
    BY DEF IInv, TypeOK, Slots
  <2> QED BY <2>1, <2>2 DEF IInv, TypeOK
<1>2. WithinCapacity'
  <2>1. /\ heap_len \in Nat /\ heap_cap \in Nat /\ heap_len <= heap_cap
        /\ heap_len' = heap_len + 1 /\ heap_cap' = Reserved
    BY DEF IInv, TypeOK, WithinCapacity
  <2>2. CASE heap_len + 1 <= heap_cap
    BY <2>1, <2>2 DEF WithinCapacity, Reserved
  <2>3. CASE ~ (heap_len + 1 <= heap_cap) /\ heap_cap = 0
    BY <2>1, <2>3, CapAssumption DEF WithinCapacity, Reserved
  <2>4. CASE ~ (heap_len + 1 <= heap_cap) /\ heap_cap # 0
    <3>1. heap_cap * Growth \in Nat /\ heap_cap * Growth >= heap_cap + 1
      BY <2>1, <2>4, CapAssumption, GrowthMakesRoom
    <3>2. heap_cap' = heap_cap * Growth
      BY <2>1, <2>4 DEF Reserved
    <3> QED BY <2>1, <3>1, <3>2 DEF WithinCapacity
  <2> QED BY <2>2, <2>3, <2>4
<1>3. \A j \in Slots : heap[j] # f /\ heap'[j] = heap[j] /\ At(j)' = At(j)
  BY DEF IInv, TypeOK, PlacesKnown, Slots, NoTimer, At
<1>4. heap'[heap_len] = f /\ Slots' = Slots \cup {heap_len} /\ heap_len \notin Slots
  BY DEF IInv, TypeOK, Slots
<1>5. PlacesKnown'
  BY <1>3, <1>4 DEF IInv, TypeOK, PlacesKnown, Slots, NoTimer
<1>6. UpInv'
  <2>0. \A j \in Slots : j > 0 => Parent(j) \in Slots
    BY ParentBelow DEF IInv, TypeOK, Slots
  <2>1. \A j \in Slots' : j > 0 /\ j # heap_len => InOrder(j)'
    BY <1>3, <1>4, <2>0 DEF IInv, HeapInv, InOrder
  <2>2. \A j \in Slots' : j > 0 => Parent(j) # heap_len
    BY <1>4, ParentBelow DEF IInv, TypeOK, Slots
  <2> QED BY <1>4, <2>1, <2>2 DEF UpInv, Skips
<1> QED BY <1>1, <1>2, <1>5, <1>6 DEF IInv, HeapInv

(* timer_remove moves the last fiber into the hole; what was in order       *)
(* through the hole stays in order past it.                                 *)
LEMMA RemoveStep ==
    ASSUME IInv, NEW f \in Fibers, timer_i[f] # NoTimer, pc = "idle", Remove(f),
           firing' = firing
    PROVE  IInv'
<1> PICK hole : hole = timer_i[f]
  OBVIOUS
<1> PICK last : last = heap_len - 1
  OBVIOUS
<1> USE DEF Remove
<1>1. hole \in Slots /\ last \in Slots /\ heap[hole] = f
  BY DEF IInv, TypeOK, PlacesKnown, Slots
<1>2. Slots' = Slots \ {last} /\ heap_len' \in Nat
  BY <1>1 DEF IInv, TypeOK, Slots
<1>3. heap[last] \in Fibers /\ timer_i[heap[last]] = last
  BY <1>1 DEF IInv, TypeOK, PlacesKnown
<1>4. heap' \in [Slots' -> Fibers]
  BY <1>1, <1>2, <1>3 DEF IInv, TypeOK, Slots
<1>5. TypeOK'
  <2>1. timer_i' \in [Fibers -> Nat \cup {NoTimer}]
    BY <1>1, <1>3 DEF IInv, TypeOK, Slots
  <2>2. deadline_ns' \in [Fibers -> Deadlines]
    BY TimeAssumption DEF IInv, TypeOK, Deadlines, Never
  <2>3. heap_len' \in Nat /\ heap_cap' \in Nat /\ pc' \in {"idle", "up", "down"}
        /\ i' \in Nat /\ top' \in Nat
    BY <1>1, <1>2 DEF IInv, TypeOK, Slots
  <2> QED BY <1>4, <2>1, <2>2, <2>3 DEF IInv, TypeOK
<1>6. WithinCapacity'
  BY <1>1 DEF IInv, TypeOK, WithinCapacity, Slots
<1>7. \A j \in Slots' : /\ j # hole => heap'[j] = heap[j] /\ heap[j] # f
                        /\ j = hole => heap'[j] = heap[last]
                        /\ heap'[j] # f
  BY <1>1, <1>2, <1>3 DEF IInv, TypeOK, PlacesKnown, Slots
<1>8. PlacesKnown'
  <2>1. CASE hole = last
    BY <1>1, <1>2, <1>7, <2>1 DEF IInv, TypeOK, PlacesKnown, NoTimer, Slots
  <2>2. CASE hole # last
    BY <1>1, <1>2, <1>3, <1>7, <2>2 DEF IInv, TypeOK, PlacesKnown, NoTimer, Slots
  <2> QED BY <2>1, <2>2
<1>9. \A j \in Slots' : j # hole => At(j)' = At(j)
  BY <1>2, <1>7 DEF IInv, TypeOK, At
<1>10. HeapInv'
  <2>0. \A j \in Slots : j > 0 => At(Parent(j)) <= At(j)
    BY DEF IInv, HeapInv, InOrder
  <2>1. CASE hole = last
    <3>1. \A j \in Slots' : j > 0 => Parent(j) \in Slots' /\ j # hole /\ Parent(j) # hole
      BY <1>1, <1>2, <2>1, ParentBelow DEF IInv, TypeOK, Slots
    <3>2. \A j \in Slots' : j > 0 => InOrder(j)'
      BY <1>2, <1>9, <2>0, <3>1 DEF InOrder, At
    <3> QED BY <2>1, <3>2 DEF HeapInv
  <2>2. CASE hole # last
    <3>1. hole \in Slots' /\ pc' = "down" /\ i' = hole /\ top' = hole
      BY <1>1, <1>2, <2>2
    <3>2. \A j \in Slots' : j > 0 => Parent(j) \in Slots' /\ Parent(j) # j
      BY <1>1, <1>2, ParentBelow DEF IInv, TypeOK, Slots
    <3>3. \A j \in Slots' : j > 0 /\ j # hole /\ Parent(j) # hole => InOrder(j)'
      BY <1>2, <1>9, <2>0, <3>2 DEF InOrder, At
    <3>4. Skips(hole)'
      <4> SUFFICES ASSUME NEW j \in Slots', j > 0, Parent(j) = hole, hole > 0
                   PROVE  At(Parent(hole))' <= At(j)'
        BY DEF Skips
      <4>1. At(Parent(hole)) <= At(hole) /\ At(hole) <= At(j)
        BY <1>1, <1>2, <2>0
      <4>2. At(j)' = At(j) /\ At(Parent(hole))' = At(Parent(hole))
        BY <1>9, <3>1, <3>2 DEF At
      <4>3. At(Parent(hole)) \in Int /\ At(hole) \in Int /\ At(j) \in Int
        BY <1>1, <1>2, <3>1, <3>2, AtType DEF IInv
      <4> QED BY <4>1, <4>2, <4>3
    <3>5. DownInv'
      BY <3>1, <3>3, <3>4 DEF DownInv, Skips
    <3> QED BY <3>1, <3>5 DEF HeapInv
  <2> QED BY <2>1, <2>2
<1> QED BY <1>5, <1>6, <1>8, <1>10 DEF IInv

(* heap_swap exchanges two places and keeps every fiber's own place known. *)
LEMMA SwapStep ==
    ASSUME TypeOK, PlacesKnown, NEW a \in Slots, NEW b \in Slots, a # b,
           HeapSwap(a, b)
    PROVE  /\ Slots' = Slots
           /\ heap' \in [Slots' -> Fibers]
           /\ timer_i' \in [Fibers -> Nat \cup {NoTimer}]
           /\ PlacesKnown'
           /\ At(a)' = At(b) /\ At(b)' = At(a)
           /\ \A j \in Slots : j # a /\ j # b => At(j)' = At(j)
<1> USE DEF HeapSwap
<1>1. Slots' = Slots
  BY DEF Slots
<1>2. heap[a] \in Fibers /\ heap[b] \in Fibers /\ heap[a] # heap[b] /\ a \in Nat /\ b \in Nat
  BY DEF TypeOK, PlacesKnown, Slots
<1>3. heap' \in [Slots' -> Fibers]
  BY <1>1, <1>2 DEF TypeOK
<1>4. timer_i' \in [Fibers -> Nat \cup {NoTimer}]
  BY <1>2 DEF TypeOK
<1>5. heap'[a] = heap[b] /\ heap'[b] = heap[a]
      /\ \A j \in Slots : j # a /\ j # b => heap'[j] = heap[j]
  BY DEF TypeOK
<1>6. timer_i'[heap[a]] = b /\ timer_i'[heap[b]] = a
      /\ \A f \in Fibers : f # heap[a] /\ f # heap[b] => timer_i'[f] = timer_i[f]
  BY <1>2 DEF TypeOK
<1>7. PlacesKnown'
  <2>1. \A j \in Slots : timer_i'[heap'[j]] = j
    BY <1>2, <1>5, <1>6 DEF TypeOK, PlacesKnown
  <2>2. \A f \in Fibers : timer_i'[f] # NoTimer =>
           timer_i'[f] \in Slots /\ heap'[timer_i'[f]] = f
    BY <1>2, <1>5, <1>6 DEF TypeOK, PlacesKnown
  <2> HIDE DEF HeapSwap
  <2> QED BY <1>1, <2>1, <2>2 DEF PlacesKnown, NoTimer
<1> QED BY <1>1, <1>3, <1>4, <1>5, <1>7 DEF At

(* One iteration of heap_sift_up moves the edge that may be out of order    *)
(* one level up.                                                            *)
LEMMA SiftUpStep == ASSUME IInv, SiftUp PROVE IInv'
<1> PICK c : c = i
  OBVIOUS
<1> PICK p : p = Parent(c)
  OBVIOUS
<1>1. c \in Slots /\ c > 0 /\ UpInv
  BY DEF SiftUp, Settled, IInv, HeapInv, UpInv, TypeOK
<1>2. p \in Slots /\ p < c /\ p \in Nat
  BY <1>1, ParentBelow DEF Slots, IInv, TypeOK
<1>3. At(c) < At(p)
  BY <1>1, <1>2, AtType DEF SiftUp, Settled, IInv
<1>4. HeapSwap(c, p) /\ i' = p /\ pc' = "up"
  BY DEF SiftUp
<1>5. /\ Slots' = Slots
      /\ heap' \in [Slots' -> Fibers]
      /\ timer_i' \in [Fibers -> Nat \cup {NoTimer}]
      /\ PlacesKnown'
      /\ At(c)' = At(p) /\ At(p)' = At(c)
      /\ \A j \in Slots : j # c /\ j # p => At(j)' = At(j)
  BY <1>1, <1>2, <1>4, SwapStep DEF IInv
<1>6. TypeOK' /\ WithinCapacity'
  BY <1>2, <1>4, <1>5 DEF SiftUp, HeapSwap, IInv, TypeOK, WithinCapacity
<1>7. \A j \in Slots : j > 0 => Parent(j) \in Slots /\ Parent(j) < j
  BY ParentBelow DEF Slots, IInv, TypeOK
<1>8. \A j \in Slots : At(j) \in Int
  BY AtType DEF IInv
<1>9. \A j \in Slots : j > 0 /\ j # p => At(Parent(j))' <= At(j)'
  <2> SUFFICES ASSUME NEW j \in Slots, j > 0, j # p
               PROVE  At(Parent(j))' <= At(j)'
    OBVIOUS
  <2> PICK q : q = Parent(j)
    OBVIOUS
  <2>0. q \in Slots /\ q # j
    BY <1>7 DEF Slots
  <2>1. j # c => At(q) <= At(j)
    BY <1>1 DEF UpInv, InOrder
  <2>2. CASE j = c
    BY <1>3, <1>5, <1>8, <1>1, <1>2, <2>2
  <2>3. CASE j # c /\ q = c
    BY <1>1, <1>5, <1>2, <2>0, <2>3 DEF UpInv, Skips
  <2>4. CASE j # c /\ q = p
    BY <1>1, <1>2, <1>3, <1>5, <1>8, <2>0, <2>1, <2>4
  <2>5. CASE j # c /\ q # c /\ q # p
    BY <1>5, <2>0, <2>1, <2>5
  <2> QED BY <2>2, <2>3, <2>4, <2>5
<1>10. \A j \in Slots : j > 0 /\ Parent(j) = p /\ p > 0 => At(Parent(p))' <= At(j)'
  <2> SUFFICES ASSUME NEW j \in Slots, j > 0, Parent(j) = p, p > 0
               PROVE  At(Parent(p))' <= At(j)'
    OBVIOUS
  <2> PICK g : g = Parent(p)
    OBVIOUS
  <2>1. g \in Slots /\ g < p
    BY <1>2, <1>7
  <2>2. At(g) <= At(p)
    BY <1>1, <1>2 DEF UpInv, InOrder
  <2>3. At(g)' = At(g)
    BY <1>2, <1>5, <2>1
  <2>4. CASE j = c
    BY <1>5, <2>2, <2>3, <2>4
  <2>5. CASE j # c
    <3>1. At(p) <= At(j)
      BY <1>1, <2>5 DEF UpInv, InOrder
    <3>0. j # p
      BY <1>7 DEF Slots
    <3>2. At(j)' = At(j)
      BY <1>5, <2>5, <3>0
    <3> QED BY <1>2, <1>8, <2>1, <2>2, <2>3, <3>1, <3>2
  <2> QED BY <2>4, <2>5
<1>11. UpInv'
  BY <1>2, <1>4, <1>5, <1>9, <1>10 DEF UpInv, Skips, InOrder
<1> QED BY <1>4, <1>5, <1>6, <1>11 DEF IInv, HeapInv

(* heap_sift_up stops when the edge above the cursor is in order too. *)
LEMMA SiftUpDoneStep == ASSUME IInv, SiftUpDone PROVE IInv'
<1> USE DEF SiftUpDone, heapVars
<1>1. \A j \in Slots : j > 0 => InOrder(j)
  BY DEF IInv, HeapInv, UpInv, Settled, InOrder
<1>2. \A j \in Slots' : j > 0 => InOrder(j)'
  BY <1>1 DEF Slots, InOrder, At
<1>3. TypeOK' /\ WithinCapacity' /\ PlacesKnown'
  BY DEF IInv, TypeOK, WithinCapacity, PlacesKnown, Slots
<1> QED BY <1>2, <1>3 DEF IInv, HeapInv

(* What heap_sift_down finds is the earliest of a place and its children. *)
LEMMA SmallestOfThree ==
    ASSUME TypeOK, NEW c \in Slots, NEW s, s = Smallest(c)
    PROVE  /\ s \in Slots
           /\ s # c => Parent(s) = c /\ At(s) < At(c) /\ s > c
           /\ \A j \in Slots : j > 0 /\ Parent(j) = c => At(s) <= At(j)
<1>1. c \in Nat /\ \A j \in Slots : j \in Nat
  BY DEF Slots
<1>2. \A j \in Nat : j < heap_len <=> j \in Slots
  BY DEF Slots, TypeOK
<1>3. /\ Left(c) \in Nat /\ Parent(Left(c)) = c /\ Left(c) > c
      /\ Right(c) \in Nat /\ Parent(Right(c)) = c /\ Right(c) > c
  BY <1>1, ChildrenOf
<1>4. \A j \in Slots : j > 0 /\ Parent(j) = c => j = Left(c) \/ j = Right(c)
  BY <1>1, ParentBelow
<1>5. \A j \in Slots : At(j) \in Int
  BY AtType
<1>6. CASE Left(c) \in Slots /\ At(Left(c)) < At(c)
  BY <1>1, <1>2, <1>3, <1>4, <1>5, <1>6 DEF Smallest
<1>7. CASE ~ (Left(c) \in Slots /\ At(Left(c)) < At(c))
  BY <1>1, <1>2, <1>3, <1>4, <1>5, <1>7 DEF Smallest
<1> QED BY <1>6, <1>7

(* One iteration of heap_sift_down moves the edges that may be out of order *)
(* one level down.                                                          *)
LEMMA SiftDownStep == ASSUME IInv, SiftDown PROVE IInv'
<1> PICK c : c = i
  OBVIOUS
<1> PICK s : s = Smallest(c)
  OBVIOUS
<1>1. c \in Slots /\ DownInv /\ top \in Slots /\ top <= c
  BY DEF SiftDown, IInv, HeapInv, DownInv, Slots, TypeOK
<1>2. /\ s \in Slots /\ s # c /\ Parent(s) = c /\ At(s) < At(c) /\ s > c
      /\ \A j \in Slots : j > 0 /\ Parent(j) = c => At(s) <= At(j)
  BY <1>1, SmallestOfThree DEF SiftDown, IInv
<1>3. HeapSwap(c, s) /\ i' = s /\ pc' = "down" /\ top' = top
  BY DEF SiftDown
<1>4. /\ Slots' = Slots
      /\ heap' \in [Slots' -> Fibers]
      /\ timer_i' \in [Fibers -> Nat \cup {NoTimer}]
      /\ PlacesKnown'
      /\ At(c)' = At(s) /\ At(s)' = At(c)
      /\ \A j \in Slots : j # c /\ j # s => At(j)' = At(j)
  BY <1>1, <1>2, <1>3, SwapStep DEF IInv
<1>5. s > 0 /\ s \in Nat /\ c \in Nat
  BY <1>1, <1>2 DEF Slots
<1>6. TypeOK' /\ WithinCapacity'
  BY <1>3, <1>4, <1>5 DEF SiftDown, HeapSwap, IInv, TypeOK, WithinCapacity
<1>7. \A j \in Slots : j > 0 => Parent(j) \in Slots /\ Parent(j) < j
  BY ParentBelow DEF Slots, IInv, TypeOK
<1>8. \A j \in Slots : At(j) \in Int /\ j \in Int
  BY AtType DEF IInv, Slots
<1>9. \A j \in Slots : j > 0 /\ j # s /\ Parent(j) # s => At(Parent(j))' <= At(j)'
  <2> SUFFICES ASSUME NEW j \in Slots, j > 0, j # s, Parent(j) # s
               PROVE  At(Parent(j))' <= At(j)'
    OBVIOUS
  <2> PICK q : q = Parent(j)
    OBVIOUS
  <2>0. q \in Slots /\ q # j /\ q # s
    BY <1>7, <1>8
  <2>1. CASE j = c
    BY <1>1, <1>2, <1>4, <1>5, <2>0, <2>1 DEF DownInv, Skips
  <2>2. CASE j # c /\ q = c
    BY <1>2, <1>4, <2>2
  <2>3. CASE j # c /\ q # c
    BY <1>1, <1>4, <2>0, <2>3 DEF DownInv, InOrder
  <2> QED BY <2>1, <2>2, <2>3
<1>10. \A j \in Slots : j > 0 /\ Parent(j) = s => At(c)' <= At(j)'
  <2> SUFFICES ASSUME NEW j \in Slots, j > 0, Parent(j) = s
               PROVE  At(c)' <= At(j)'
    OBVIOUS
  <2>1. j > s /\ j # s /\ j # c
    BY <1>2, <1>7, <1>8, <1>1
  <2>2. At(s) <= At(j)
    BY <1>1, <1>2, <2>1 DEF DownInv, InOrder
  <2> QED BY <1>4, <2>1, <2>2
<1>11. At(Parent(s))' <= At(s)'
  BY <1>1, <1>2, <1>4, <1>8
<1>12. s > top
  BY <1>1, <1>2, <1>8
<1>13. DownInv'
  <2>1. i' \in Slots' /\ top' \in Slots'
    BY <1>1, <1>2, <1>3, <1>4
  <2>2. \A j \in Slots' : j > 0 /\ j # i' /\ Parent(j) # i' => InOrder(j)'
    BY <1>3, <1>4, <1>9 DEF InOrder
  <2>3. InOrder(i)' /\ i' > top'
    BY <1>3, <1>11, <1>12 DEF InOrder
  <2>4. Skips(i)'
    BY <1>2, <1>3, <1>4, <1>10 DEF Skips
  <2> QED BY <2>1, <2>2, <2>3, <2>4 DEF DownInv
<1> QED BY <1>3, <1>4, <1>6, <1>13 DEF IInv, HeapInv

(* When heap_sift_down stops only the edge above the filled hole may still  *)
(* be out of order, which is what heap_sift_up expects.                     *)
LEMMA SiftDownDoneStep == ASSUME IInv, SiftDownDone PROVE IInv'
<1> PICK c : c = i
  OBVIOUS
<1> PICK t : t = top
  OBVIOUS
<1>1. c \in Slots /\ DownInv /\ t \in Slots /\ (c # t => c > t /\ InOrder(c))
  BY DEF SiftDownDone, IInv, HeapInv, DownInv
<1>2. \A j \in Slots : j > 0 /\ Parent(j) = c => InOrder(j)
  BY <1>1, SmallestOfThree DEF SiftDownDone, IInv, InOrder
<1>3. \A j \in Slots : j > 0 /\ j # t => InOrder(j)
  BY <1>1, <1>2 DEF DownInv
<1>4. Skips(t)
  <2>1. CASE c = t
    BY <1>1, <2>1 DEF DownInv
  <2>2. CASE c # t
    <3> SUFFICES ASSUME NEW j \in Slots, j > 0, Parent(j) = t, t > 0
                 PROVE  At(Parent(t)) <= At(j)
      BY DEF Skips
    <3>1. Parent(t) \in Slots /\ Parent(t) < t /\ t < j /\ t \in Int /\ j \in Int
      BY <1>1, ParentBelow DEF Slots, IInv, TypeOK
    <3>2. At(Parent(t)) <= At(t)
      BY <1>1, <2>2, <3>1 DEF DownInv, InOrder, Slots
    <3>3. At(t) <= At(j)
      BY <1>3, <3>1 DEF InOrder
    <3>4. At(Parent(t)) \in Int /\ At(t) \in Int /\ At(j) \in Int
      BY <1>1, <3>1, AtType DEF IInv
    <3> QED BY <3>2, <3>3, <3>4
  <2> QED BY <2>1, <2>2
<1>5. UpInv'
  <2>1. Slots' = Slots /\ i' = t /\ heap' = heap /\ deadline_ns' = deadline_ns
    BY DEF SiftDownDone, heapVars, Slots
  <2> QED BY <1>1, <1>3, <1>4, <2>1 DEF UpInv, Skips, InOrder, At
<1>6. TypeOK' /\ WithinCapacity' /\ PlacesKnown'
  BY DEF SiftDownDone, heapVars, IInv, TypeOK, WithinCapacity, PlacesKnown, Slots
<1> QED BY <1>5, <1>6 DEF IInv, HeapInv, SiftDownDone

(* fire_expired_timers and the clock leave the heap alone between pops. *)
LEMMA OutsideStep ==
    ASSUME IInv, FireBegin \/ FireEnd \/ Tick \/ UNCHANGED vars PROVE IInv'
<1>1. UNCHANGED <<heapVars, pc, i, top>> /\ firing' \in BOOLEAN
  BY DEF FireBegin, FireEnd, Tick, vars, IInv, TypeOK
<1>2. now' \in 0 .. MaxTime
  BY TimeAssumption DEF FireBegin, FireEnd, Tick, vars, IInv, TypeOK
<1>3. TypeOK' /\ WithinCapacity' /\ PlacesKnown'
  BY <1>1, <1>2 DEF heapVars, IInv, TypeOK, WithinCapacity, PlacesKnown, Slots
<1>4. HeapInv'
  BY <1>1 DEF heapVars, IInv, HeapInv, UpInv, DownInv, Skips, InOrder, At, Slots
<1> QED BY <1>3, <1>4 DEF IInv

(* Every step keeps the invariant. *)
LEMMA InvNext == IInv /\ [Next]_vars => IInv'
<1> SUFFICES ASSUME IInv, [Next]_vars PROVE IInv'
  OBVIOUS
<1>1. CASE \E f \in Fibers, d \in Deadlines : TimerAdd(f, d)
  BY <1>1, AddStep
<1>2. CASE \E f \in Fibers : TimerRemove(f)
  BY <1>2, RemoveStep DEF TimerRemove
<1>3. CASE Sift
  BY <1>3, SiftUpStep, SiftUpDoneStep, SiftDownStep, SiftDownDoneStep DEF Sift
<1>4. CASE FirePop
  <2>1. heap[0] \in Fibers /\ timer_i[heap[0]] # NoTimer
    BY <1>4 DEF FirePop, Expired, IInv, TypeOK, PlacesKnown, Slots, NoTimer
  <2> QED BY <1>4, <2>1, RemoveStep DEF FirePop
<1>5. CASE FireBegin \/ FireEnd \/ Tick \/ UNCHANGED vars
  BY <1>5, OutsideStep
<1> QED BY <1>1, <1>2, <1>3, <1>4, <1>5 DEF Next

(* The invariant behind the theorems below *)
LEMMA InductiveInvariant == Spec => []IInv
BY InvInit, InvNext, PTL DEF Spec

(* A heap in order has its earliest deadline at the root: of the places     *)
(* with an earlier one the least has a parent, which would be a lesser one. *)
LEMMA OrderPutsEarliestFirst ==
    ASSUME TypeOK, \A j \in Slots : j > 0 => InOrder(j)
    PROVE  \A j \in Slots : At(0) <= At(j)
<1> DEFINE Earlier == {j \in Slots : At(j) < At(0)}
<1> SUFFICES ASSUME NEW k \in Slots, ~ (At(0) <= At(k)) PROVE FALSE
  OBVIOUS
<1>1. 0 \in Slots /\ \A j \in Slots : At(j) \in Int /\ j \in Nat
  BY AtType DEF Slots, TypeOK
<1>2. k \in Earlier /\ Earlier \subseteq Nat
  BY <1>1
<1>3. PICK m \in Earlier : \A j \in Earlier : ~ (<<j, m>> \in OpToRel(<, Nat))
  <2> HIDE DEF Earlier
  <2> QED BY <1>2, NatLessThanWellFounded, WFMin
<1>4. m \in Slots /\ m \in Nat /\ m > 0 /\ At(m) < At(0)
  BY <1>1
<1>5. Parent(m) \in Slots /\ Parent(m) < m /\ Parent(m) \in Nat
  BY <1>4, ParentBelow DEF Slots, TypeOK
<1>6. Parent(m) \in Earlier
  BY <1>1, <1>4, <1>5 DEF InOrder
<1>7. <<Parent(m), m>> \in OpToRel(<, Nat)
  BY <1>4, <1>5 DEF OpToRel
<1> QED BY <1>3, <1>6, <1>7

(* What next_timeout_ms and fire_expired_timers look at, the root, is the   *)
(* earliest pending deadline whenever no operation is under way.            *)
THEOREM EarliestAtRoot == Spec => []RootIsEarliest
<1>1. IInv => RootIsEarliest
  BY OrderPutsEarliestFirst DEF IInv, HeapInv, RootIsEarliest
<1> QED BY <1>1, InductiveInvariant, PTL

(* timer_remove always takes out the fiber it is asked to: timer_i and heap *)
(* stay inverse to each other, in the middle of every sift.                 *)
THEOREM PlacesStayKnown == Spec => []PlacesKnown
<1>1. IInv => PlacesKnown
  BY DEF IInv
<1> QED BY <1>1, InductiveInvariant, PTL

(* The heap never outgrows its array. *)
THEOREM NeverPastCapacity == Spec => []WithinCapacity
<1>1. IInv => WithinCapacity
  BY DEF IInv
<1> QED BY <1>1, InductiveInvariant, PTL

-----------------------------------------------------------------------------
(* The heap implements the set of timers *)

(* The set of timers the heap stands for *)
HasTimer == {g \in Fibers : timer_i[g] # NoTimer}
TimersNow == [f \in HasTimer |-> deadline_ns[f]]

(* A fiber has a pending deadline exactly if it is in the heap. *)
LEMMA HeapHoldsTimers ==
    ASSUME IInv, NEW f \in HasTimer
    PROVE  timer_i[f] \in Slots /\ TimersNow[f] = At(timer_i[f])
BY DEF IInv, PlacesKnown, HasTimer, TimersNow, At

(* heap_swap moves fibers about and changes nobody's deadline. *)
LEMMA SiftKeepsTimers ==
    ASSUME IInv, Sift PROVE TimersNow' = TimersNow
<1>1. CASE SiftUpDone \/ SiftDownDone
  BY <1>1 DEF SiftUpDone, SiftDownDone, heapVars, TimersNow, HasTimer
<1>2. CASE \E a, b \in Slots : a # b /\ HeapSwap(a, b)
  <2> PICK a \in Slots, b \in Slots : a # b /\ HeapSwap(a, b)
    BY <1>2
  <2>1. heap[a] \in Fibers /\ heap[b] \in Fibers /\ heap[a] \in HasTimer /\ heap[b] \in HasTimer
    BY DEF IInv, TypeOK, PlacesKnown, HasTimer, Slots, NoTimer
  <2>2. a # NoTimer /\ b # NoTimer
    BY DEF Slots, NoTimer
  <2>3. HasTimer' = HasTimer
    BY <2>1, <2>2 DEF HeapSwap, HasTimer, IInv, TypeOK
  <2> QED BY <2>3 DEF HeapSwap, TimersNow
<1>3. CASE SiftUp
  <2>1. i \in Slots /\ i > 0
    BY <1>3 DEF SiftUp, Settled, IInv, HeapInv, UpInv, TypeOK
  <2>2. Parent(i) \in Slots /\ Parent(i) # i
    BY <2>1, ParentBelow DEF Slots, IInv, TypeOK
  <2> QED BY <1>2, <1>3, <2>1, <2>2 DEF SiftUp
<1>4. CASE SiftDown
  <2>1. i \in Slots /\ Smallest(i) # i
    BY <1>4 DEF SiftDown, IInv, HeapInv, DownInv
  <2>2. Smallest(i) \in Slots
    BY <2>1, SmallestOfThree DEF IInv
  <2> QED BY <1>2, <1>4, <2>1, <2>2 DEF SiftDown
<1> QED BY <1>1, <1>3, <1>4 DEF Sift

(* timer_remove takes away one deadline. *)
LEMMA RemoveTakesOne ==
    ASSUME IInv, NEW f \in HasTimer, Remove(f)
    PROVE  TimersNow' = [g \in HasTimer \ {f} |-> TimersNow[g]]
<1>1. timer_i[f] \in Slots /\ heap[timer_i[f]] = f /\ f \in Fibers
  BY DEF IInv, PlacesKnown, HasTimer
<1>2. heap[heap_len - 1] \in Fibers /\ timer_i[heap[heap_len - 1]] = heap_len - 1
  BY <1>1 DEF IInv, TypeOK, PlacesKnown, Slots
<1>3. timer_i[f] # NoTimer /\ heap_len - 1 # NoTimer
  BY <1>1 DEF Slots, NoTimer, IInv, TypeOK
<1>4. HasTimer' = HasTimer \ {f}
  BY <1>1, <1>2, <1>3 DEF Remove, HasTimer, IInv, TypeOK
<1>5. \A g \in HasTimer \ {f} : deadline_ns'[g] = deadline_ns[g]
  BY DEF Remove, HasTimer, IInv, TypeOK
<1> QED BY <1>4, <1>5 DEF TimersNow

(* The heap starts as the empty set of timers. *)
LEMMA AbstractInit == Init => Timers!Init
<1> SUFFICES ASSUME Init PROVE Timers!Init
  OBVIOUS
<1>1. HasTimer = {}
  BY DEF Init, HasTimer
<1> QED BY <1>1 DEF Init, Timers!Init, HasTimer

(* Every step of the heap is a step of the set of timers, or none. *)
LEMMA AbstractStep == IInv /\ [Next]_vars => [Timers!Next]_(Timers!vars)
<1> SUFFICES ASSUME IInv, [Next]_vars PROVE [Timers!Next]_(Timers!vars)
  OBVIOUS
<1> USE DEF Timers!vars
<1>0. TimersNow = [f \in {g \in Fibers : timer_i[g] # NoTimer} |-> deadline_ns[f]]
  BY DEF TimersNow, HasTimer
<1>1. CASE \E f \in Fibers, d \in Deadlines : TimerAdd(f, d)
  <2> PICK f \in Fibers, d \in Deadlines : TimerAdd(f, d)
    BY <1>1
  <2>1. HasTimer' = HasTimer \cup {f} /\ f \notin HasTimer
    BY DEF TimerAdd, HasTimer, IInv, TypeOK, NoTimer
  <2>2. TimersNow' = [g \in HasTimer \cup {f} |-> IF g = f THEN d ELSE TimersNow[g]]
    BY <2>1 DEF TimerAdd, TimersNow, HasTimer, IInv, TypeOK
  <2>3. Timers!Add(f, d)
    BY <2>1, <2>2 DEF TimerAdd, Timers!Add, Timers!Pending, TimersNow, HasTimer
  <2> QED BY <2>3 DEF Timers!Next
<1>2. CASE \E f \in Fibers : TimerRemove(f)
  <2> PICK f \in Fibers : TimerRemove(f)
    BY <1>2
  <2>1. f \in HasTimer
    BY DEF TimerRemove, HasTimer
  <2>2. TimersNow' = [g \in HasTimer \ {f} |-> TimersNow[g]]
    BY <2>1, RemoveTakesOne DEF TimerRemove
  <2>3. Timers!Remove(f)
    BY <2>1, <2>2
       DEF TimerRemove, Remove, Timers!Remove, Timers!Without, Timers!Pending, TimersNow, HasTimer
  <2> QED BY <2>3 DEF Timers!Next
<1>3. CASE Sift
  <2>1. UNCHANGED <<firing, now>>
    BY <1>3 DEF Sift, SiftUp, SiftUpDone, SiftDown, SiftDownDone
  <2> QED BY <1>3, <2>1, SiftKeepsTimers DEF TimersNow, HasTimer
<1>4. CASE FirePop
  <2> PICK f : f = heap[0]
    OBVIOUS
  <2>1. 0 \in Slots /\ f \in HasTimer /\ timer_i[f] = 0
    BY <1>4 DEF FirePop, Expired, IInv, TypeOK, PlacesKnown, Slots, NoTimer, HasTimer
  <2>2. TimersNow' = [g \in HasTimer \ {f} |-> TimersNow[g]]
    BY <1>4, <2>1, RemoveTakesOne DEF FirePop
  <2>3. \A g \in HasTimer : TimersNow[f] <= TimersNow[g]
    BY <1>4, <2>1, HeapHoldsTimers, OrderPutsEarliestFirst DEF FirePop, IInv, HeapInv
  <2>4. TimersNow[f] <= now
    BY <1>4, <2>1, HeapHoldsTimers DEF FirePop, Expired
  <2>5. Timers!Fire(f)
    BY <1>4, <2>1, <2>2, <2>3, <2>4
       DEF FirePop, Remove, Timers!Fire, Timers!Without, Timers!Pending, TimersNow, HasTimer
  <2> QED BY <2>1, <2>5 DEF Timers!Next, HasTimer
<1>5. CASE FireEnd
  <2>1. \A g \in HasTimer : TimersNow[g] > now
    <3> SUFFICES ASSUME NEW g \in HasTimer PROVE TimersNow[g] > now
      OBVIOUS
    <3> PICK j : j = timer_i[g]
      OBVIOUS
    <3>1. j \in Slots /\ TimersNow[g] = At(j) /\ 0 \in Slots
      BY HeapHoldsTimers DEF Slots, IInv, TypeOK
    <3>2. At(0) <= At(j)
      BY <1>5, <3>1, OrderPutsEarliestFirst DEF FireEnd, IInv, HeapInv
    <3>3. ~ (At(0) <= now)
      BY <1>5, <3>1 DEF FireEnd, Expired, Slots, IInv, TypeOK
    <3>4. At(0) \in Int /\ At(j) \in Int /\ now \in Int
      BY <3>1, AtType, TimeAssumption DEF IInv, TypeOK
    <3> QED BY <3>1, <3>2, <3>3, <3>4
  <2>2. Timers!FireEnd
    BY <1>5, <2>1 DEF FireEnd, heapVars, Timers!FireEnd, Timers!Pending, TimersNow, HasTimer
  <2> QED BY <2>2 DEF Timers!Next
<1>6. CASE FireBegin
  BY <1>6 DEF FireBegin, heapVars, Timers!FireBegin, Timers!Next
<1>7. CASE Tick
  BY <1>7 DEF Tick, heapVars, Timers!Tick, Timers!Next
<1>8. CASE UNCHANGED vars
  BY <1>8 DEF vars, heapVars
<1> QED BY <1>1, <1>2, <1>3, <1>4, <1>5, <1>6, <1>7, <1>8 DEF Next

(* timer_add, timer_remove and fire_expired_timers do what the reactor      *)
(* relies on: each adds or removes exactly one deadline, timers fire        *)
(* earliest first, and when firing ends none that has expired is left.      *)
THEOREM HeapImplementsTimerSet == Spec => ImplementsTimerSet
BY AbstractInit, AbstractStep, InductiveInvariant, PTL
   DEF Spec, ImplementsTimerSet, Timers!Spec
=============================================================================
