--------------------------- MODULE MultislabProofs ---------------------------
(***************************************************************************)
(* Proofs about SlabBitmap and Multislab, for words, bitmaps and blocks of *)
(* every size, any number of slabs, any limit and any reserve.             *)
(***************************************************************************)
EXTENDS Multislab, FiniteSetTheorems, SequenceTheorems, NaturalsInduction, WellFoundedInduction, TLAPS

-----------------------------------------------------------------------------
(* Arithmetic *)

(* The numbers the constants are *)
LEMMA Sizes ==
    /\ WordBits \in Nat \ {0} /\ BitmapSize \in Nat \ {0} /\ BlockSize \in Nat \ {0}
    /\ Places \in Nat
BY SizesAssumption, MultislabAssumption

(* Multiplication respects the order. *)
LEMMA TimesMonotone ==
    ASSUME NEW a \in Nat, NEW b \in Nat, NEW c \in Nat, a <= b
    PROVE  a * c \in Nat /\ b * c \in Nat /\ a * c <= b * c
<1> DEFINE d == b - a
<1>1. d \in Nat /\ b = a + d
  OBVIOUS
<1> HIDE DEF d
<1>2. b * c = a * c + d * c
  BY <1>1, Z3
<1>3. d * c \in Nat /\ a * c \in Nat
  BY <1>1, Z3
<1> QED BY <1>2, <1>3

(* ... and its steps are as large as the factor. *)
LEMMA TimesStep ==
    ASSUME NEW a \in Nat, NEW b \in Nat, NEW c \in Nat, a < b
    PROVE  a * c \in Nat /\ b * c \in Nat /\ a * c + c <= b * c
<1>1. (a + 1) * c = a * c + c
  BY Z3
<1>2. a + 1 \in Nat /\ a + 1 <= b
  OBVIOUS
<1>3. (a + 1) * c <= b * c /\ b * c \in Nat
  BY <1>2, TimesMonotone
<1>4. a * c \in Nat
  BY TimesMonotone
<1> QED BY <1>1, <1>3, <1>4

(* A place and an offset within it are determined by the address. *)
LEMMA PlaceAndOffset ==
    ASSUME NEW c \in Nat, NEW a \in Nat, NEW b \in Nat, NEW x \in 0 .. c - 1, NEW y \in 0 .. c - 1,
           a * c + x = b * c + y
    PROVE  a = b /\ x = y
<1>0. a * c \in Nat /\ b * c \in Nat
  BY TimesMonotone
<1>1. CASE a < b
  BY <1>0, <1>1, TimesStep
<1>2. CASE b < a
  BY <1>0, <1>2, TimesStep
<1>3. CASE a = b
  BY <1>0, <1>3
<1> QED BY <1>1, <1>2, <1>3

(* Division by c, in any amount *)
LEMMA DivideBy ==
    ASSUME NEW c \in Nat \ {0}, NEW x \in Nat
    PROVE  x \div c \in Nat /\ x % c \in 0 .. c - 1 /\ x = (x \div c) * c + (x % c)
<1>1. x \div c \in Nat /\ c * (x \div c) <= x /\ x < c * (x \div c) + c
  BY Z3
<1>2. x % c \in 0 .. c - 1
  BY Z3
<1>3. x = c * (x \div c) + (x % c)
  BY Z3
<1> QED BY <1>1, <1>2, <1>3, Z3

(* The quotient is less than what the number is a multiple less than of.    *)
LEMMA QuotientBound ==
    ASSUME NEW c \in Nat \ {0}, NEW x \in Nat, NEW n \in Nat, x < n * c
    PROVE  x \div c < n
<1>1. x \div c \in Nat /\ (x \div c) * c <= x
  <2>1. x \div c \in Nat /\ x % c \in Nat /\ x = (x \div c) * c + (x % c)
    BY DivideBy
  <2>2. (x \div c) * c \in Nat
    BY <2>1, TimesMonotone
  <2> QED BY <2>1, <2>2
<1>2. ASSUME n <= x \div c PROVE FALSE
  <2>1. n * c <= (x \div c) * c /\ n * c \in Nat /\ (x \div c) * c \in Nat
    BY <1>1, <1>2, TimesMonotone
  <2> QED BY <1>1, <2>1
<1> QED BY <1>1, <1>2

(* Division undoes multiplication. *)
LEMMA DivideTimes ==
    ASSUME NEW c \in Nat \ {0}, NEW a \in Nat, NEW b \in 0 .. c - 1
    PROVE  (a * c + b) \div c = a /\ (a * c + b) % c = b
<1> DEFINE x == a * c + b
<1>1. x \in Nat
  BY TimesMonotone
<1>2. x \div c \in Nat /\ x % c \in 0 .. c - 1 /\ x = (x \div c) * c + (x % c)
  BY <1>1, DivideBy
<1>3. x = a * c + b
  OBVIOUS
<1> HIDE DEF x
<1>4. x \div c = a /\ x % c = b
  BY <1>2, <1>3, PlaceAndOffset
<1> QED BY <1>4 DEF x

(* A non-empty set of naturals has a least element. *)
LEMMA LeastIs ==
    ASSUME NEW I, I \subseteq Nat, I # {}
    PROVE  Min(I) \in I /\ \A i \in I : Min(I) <= i
<1>1. PICK m \in I : \A i \in I : ~ (<<i, m>> \in OpToRel(<, Nat))
  BY NatLessThanWellFounded, WFMin
<1>2. ASSUME NEW i \in I PROVE m <= i
  <2>1. i \in Nat /\ m \in Nat
    OBVIOUS
  <2>2. i < m => <<i, m>> \in OpToRel(<, Nat)
    BY <2>1 DEF OpToRel
  <2>3. ~ (i < m)
    BY <1>1, <2>2
  <2> QED BY <2>1, <2>3
<1> QED BY <1>1, <1>2 DEF Min

(* It is the only one. *)
LEMMA LeastUnique ==
    ASSUME NEW I, I \subseteq Nat, NEW m \in I, \A i \in I : m <= i
    PROVE  Min(I) = m
<1>1. Min(I) \in I /\ \A i \in I : Min(I) <= i
  BY LeastIs
<1>2. Min(I) \in Nat /\ m \in Nat /\ m <= Min(I) /\ Min(I) <= m
  BY <1>1
<1> QED BY <1>2

-----------------------------------------------------------------------------
(* Bitmaps *)

Indices == 0 .. MaxBlocks - 1

(* Every index has its word and its bit. *)
LEMMA PlaceOfIndex ==
    ASSUME NEW i \in Indices
    PROVE  /\ Word(i) \in 0 .. BitmapSize - 1 /\ Bit(i) \in Bits
           /\ i = Word(i) * WordBits + Bit(i)
<1>1. i \in Nat /\ i < BitmapSize * WordBits
  <2>1. MaxBlocks \in Nat /\ MaxBlocks = BitmapSize * WordBits
    BY Sizes, Z3 DEF MaxBlocks
  <2> QED BY <2>1 DEF Indices
<1>2. i \div WordBits < BitmapSize
  BY <1>1, Sizes, QuotientBound
<1>3. i \div WordBits \in Nat /\ i % WordBits \in 0 .. WordBits - 1
      /\ i = (i \div WordBits) * WordBits + (i % WordBits)
  BY <1>1, Sizes, DivideBy
<1> QED BY <1>2, <1>3, Sizes DEF Word, Bit, Bits

(* ... and no other has both. *)
LEMMA PlacesDiffer ==
    ASSUME NEW i \in Indices, NEW j \in Indices, Word(i) = Word(j), Bit(i) = Bit(j)
    PROVE  i = j
<1>1. i = Word(i) * WordBits + Bit(i) /\ j = Word(j) * WordBits + Bit(j)
  BY PlaceOfIndex
<1> QED BY <1>1

(* Every word and bit has its index. *)
LEMMA IndexOfPlace ==
    ASSUME NEW w \in 0 .. BitmapSize - 1, NEW b \in Bits
    PROVE  w * WordBits + b \in Indices /\ Word(w * WordBits + b) = w /\ Bit(w * WordBits + b) = b
<1>1. Word(w * WordBits + b) = w /\ Bit(w * WordBits + b) = b
  BY Sizes, DivideTimes DEF Word, Bit, Bits
<1>2. w * WordBits \in Nat /\ w * WordBits + WordBits <= BitmapSize * WordBits
  BY Sizes, TimesStep
<1>3. MaxBlocks \in Nat /\ MaxBlocks = BitmapSize * WordBits
  BY Sizes, Z3 DEF MaxBlocks
<1>4. w * WordBits + b \in Indices
  BY <1>2, <1>3, Sizes DEF Indices, Bits
<1> QED BY <1>1, <1>4

(* Marking block i marks it and no other. *)
LEMMA SetMarks ==
    ASSUME NEW bm \in Bitmaps, NEW i \in Indices
    PROVE  BitmapSet(bm, i) \in Bitmaps /\ InUse(BitmapSet(bm, i)) = InUse(bm) \cup {i}
<1>1. Word(i) \in 0 .. BitmapSize - 1 /\ Bit(i) \in Bits
  BY PlaceOfIndex
<1>2. BitmapSet(bm, i) \in Bitmaps
  BY <1>1 DEF BitmapSet, Bitmaps
<1>3. ASSUME NEW j \in Indices
      PROVE  BitmapTest(BitmapSet(bm, i), j) <=> (BitmapTest(bm, j) \/ j = i)
  <2>1. Word(j) \in 0 .. BitmapSize - 1
    BY PlaceOfIndex
  <2>2. j = i <=> Word(j) = Word(i) /\ Bit(j) = Bit(i)
    BY PlacesDiffer
  <2> QED BY <1>1, <2>1, <2>2 DEF BitmapSet, BitmapTest, Bitmaps
<1>4. InUse(BitmapSet(bm, i)) = InUse(bm) \cup {i}
  BY <1>3 DEF InUse, Indices
<1> QED BY <1>2, <1>4

(* Clearing its bit frees it and no other. *)
LEMMA ClearFrees ==
    ASSUME NEW bm \in Bitmaps, NEW i \in Indices
    PROVE  BitmapClear(bm, i) \in Bitmaps /\ InUse(BitmapClear(bm, i)) = InUse(bm) \ {i}
<1>1. Word(i) \in 0 .. BitmapSize - 1 /\ Bit(i) \in Bits
  BY PlaceOfIndex
<1>2. BitmapClear(bm, i) \in Bitmaps
  BY <1>1 DEF BitmapClear, Bitmaps
<1>3. ASSUME NEW j \in Indices
      PROVE  BitmapTest(BitmapClear(bm, i), j) <=> (BitmapTest(bm, j) /\ j # i)
  <2>1. Word(j) \in 0 .. BitmapSize - 1
    BY PlaceOfIndex
  <2>2. j = i <=> Word(j) = Word(i) /\ Bit(j) = Bit(i)
    BY PlacesDiffer
  <2> QED BY <1>1, <2>1, <2>2 DEF BitmapClear, BitmapTest, Bitmaps
<1>4. InUse(BitmapClear(bm, i)) = InUse(bm) \ {i}
  BY <1>3 DEF InUse, Indices
<1> QED BY <1>2, <1>4

(* A fresh bitmap marks nothing. *)
LEMMA EmptyMarks == EmptyBitmap \in Bitmaps /\ InUse(EmptyBitmap) = {}
<1>1. \A i \in Indices : ~ BitmapTest(EmptyBitmap, i)
  BY PlaceOfIndex DEF EmptyBitmap, BitmapTest
<1> QED BY <1>1 DEF EmptyBitmap, Bitmaps, InUse, Indices

(* The blocks of a bitmap can be counted. *)
LEMMA MarksCount ==
    ASSUME NEW bm
    PROVE  /\ InUse(bm) \subseteq Indices /\ IsFiniteSet(InUse(bm))
           /\ Cardinality(InUse(bm)) \in 0 .. MaxBlocks
<1>1. MaxBlocks \in Nat
  BY Sizes, Z3 DEF MaxBlocks
<1>2. IsFiniteSet(Indices) /\ Cardinality(Indices) = MaxBlocks
  <2>1. IsFiniteSet(0 .. MaxBlocks - 1)
        /\ Cardinality(0 .. MaxBlocks - 1) = IF 0 > MaxBlocks - 1 THEN 0 ELSE MaxBlocks - 1 - 0 + 1
    BY <1>1, FS_Interval
  <2> QED BY <1>1, <2>1 DEF Indices
<1>3. InUse(bm) \subseteq Indices
  BY DEF InUse, Indices
<1>4. IsFiniteSet(InUse(bm)) /\ Cardinality(InUse(bm)) <= MaxBlocks
  BY <1>2, <1>3, FS_Subset
<1>5. Cardinality(InUse(bm)) \in Nat
  BY <1>4, FS_CardinalityType
<1> QED BY <1>1, <1>3, <1>4, <1>5

(* bitmap_find_free: of the blocks of a slab, the free one with the least   *)
(* index, or none; never a spare bit of the last word.                      *)
LEMMA FindsLeast ==
    ASSUME NEW bm \in Bitmaps, NEW c \in 1 .. MaxBlocks
    PROVE  LET r == BitmapFindFree(bm, WordsFor(c), c) IN
           \/ r = NotFound /\ 0 .. c - 1 \subseteq InUse(bm)
           \/ r \in 0 .. c - 1 /\ r \notin InUse(bm) /\ \A i \in 0 .. r - 1 : i \in InUse(bm)
<1> DEFINE hits == {w \in 0 .. WordsFor(c) - 1 : bm[w] # Bits /\ FirstZero(bm, w) < c}
           r == BitmapFindFree(bm, WordsFor(c), c)
<1>0. MaxBlocks \in Nat /\ MaxBlocks = BitmapSize * WordBits /\ c \in Nat /\ c \in 1 .. MaxBlocks
  BY Sizes, Z3 DEF MaxBlocks
<1>1. WordsFor(c) \in 1 .. BitmapSize
  <2>1. c + WordBits - 1 \in Nat /\ WordBits \in Nat \ {0}
    BY <1>0, Sizes
  <2>2. (BitmapSize + 1) * WordBits = BitmapSize * WordBits + WordBits
    BY Sizes, Z3
  <2>3. c + WordBits - 1 < (BitmapSize + 1) * WordBits
    BY <1>0, <2>2, Sizes
  <2>4. WordsFor(c) < BitmapSize + 1
    BY <2>1, <2>3, Sizes, QuotientBound DEF WordsFor
  <2>5. WordsFor(c) \in Nat
    BY <2>1, DivideBy DEF WordsFor
  <2>6. WordsFor(c) # 0
    <3>1. c + WordBits - 1 = WordsFor(c) * WordBits + ((c + WordBits - 1) % WordBits)
          /\ (c + WordBits - 1) % WordBits \in 0 .. WordBits - 1
      BY <2>1, DivideBy DEF WordsFor
    <3> QED BY <1>0, <2>1, <3>1
  <2> QED BY <2>4, <2>5, <2>6, Sizes
<1>2. ASSUME NEW w \in 0 .. WordsFor(c) - 1, bm[w] # Bits
      PROVE  /\ FirstZero(bm, w) \in Indices /\ Word(FirstZero(bm, w)) = w
             /\ FirstZero(bm, w) \notin InUse(bm)
             /\ \A i \in Indices : Word(i) = w /\ i \notin InUse(bm) => FirstZero(bm, w) <= i
  <2>1. w \in 0 .. BitmapSize - 1
    BY <1>1, Sizes
  <2>2. Bits \ bm[w] # {} /\ Bits \ bm[w] \subseteq Nat
    <3>1. bm[w] \subseteq Bits /\ Bits \subseteq Nat
      BY <2>1, Sizes DEF Bitmaps, Bits
    <3> QED BY <1>2, <3>1
  <2> DEFINE b == Min(Bits \ bm[w])
  <2>3. b \in Bits \ bm[w] /\ \A d \in Bits \ bm[w] : b <= d
    BY <2>2, LeastIs
  <2>4. FirstZero(bm, w) = w * WordBits + b
    BY DEF FirstZero
  <2> HIDE DEF b
  <2>5. FirstZero(bm, w) \in Indices /\ Word(FirstZero(bm, w)) = w /\ Bit(FirstZero(bm, w)) = b
    BY <2>1, <2>3, <2>4, IndexOfPlace
  <2>6. FirstZero(bm, w) \notin InUse(bm)
    BY <2>3, <2>5 DEF InUse, BitmapTest
  <2>7. ASSUME NEW i \in Indices, Word(i) = w, i \notin InUse(bm) PROVE FirstZero(bm, w) <= i
    <3>1. Bit(i) \in Bits \ bm[w] /\ i = w * WordBits + Bit(i)
      BY <2>7, PlaceOfIndex DEF InUse, BitmapTest, Indices
    <3>2. b <= Bit(i) /\ b \in Nat /\ Bit(i) \in Nat
      BY <2>3, <3>1, Sizes DEF Bits
    <3>3. w * WordBits \in Nat
      BY <2>1, Sizes, TimesMonotone
    <3> QED BY <2>4, <3>1, <3>2, <3>3
  <2> QED BY <2>5, <2>6, <2>7
<1>3. ASSUME NEW i \in 0 .. c - 1, i \notin InUse(bm)
      PROVE  Word(i) \in hits /\ FirstZero(bm, Word(i)) <= i
  <2>1. i \in Indices
    BY <1>0 DEF Indices
  <2>2. Word(i) \in 0 .. BitmapSize - 1 /\ Bit(i) \in Bits /\ i = Word(i) * WordBits + Bit(i)
    BY <2>1, PlaceOfIndex
  <2>3. Word(i) < WordsFor(c)
    <3>1. c + WordBits - 1 = WordsFor(c) * WordBits + ((c + WordBits - 1) % WordBits)
          /\ (c + WordBits - 1) % WordBits \in 0 .. WordBits - 1
      BY <1>0, Sizes, DivideBy DEF WordsFor
    <3>2. WordsFor(c) * WordBits \in Nat /\ WordsFor(c) \in Nat
      BY <1>1, Sizes, TimesMonotone
    <3>3. i < WordsFor(c) * WordBits
      BY <1>0, <3>1, <3>2, Sizes
    <3>4. i \div WordBits < WordsFor(c)
      BY <3>2, <3>3, Sizes, QuotientBound
    <3> QED BY <3>4 DEF Word
  <2>4. Word(i) \in 0 .. WordsFor(c) - 1
    BY <1>1, <2>2, <2>3, Sizes
  <2>5. bm[Word(i)] # Bits
    BY <1>3, <2>1, <2>2 DEF InUse, BitmapTest, Indices
  <2>6. FirstZero(bm, Word(i)) <= i /\ FirstZero(bm, Word(i)) \in Indices
    BY <1>2, <1>3, <2>1, <2>4, <2>5
  <2>7. FirstZero(bm, Word(i)) < c
    BY <1>0, <2>6 DEF Indices
  <2> QED BY <2>4, <2>5, <2>6, <2>7
<1>4. r = IF hits = {} THEN NotFound ELSE FirstZero(bm, Min(hits))
  BY DEF BitmapFindFree
<1>5. hits \subseteq Nat /\ \A w \in hits : w \in 0 .. WordsFor(c) - 1 /\ bm[w] # Bits /\ FirstZero(bm, w) < c
  BY <1>1, Sizes
<1> HIDE DEF hits, r
<1>6. CASE hits = {}
  BY <1>3, <1>4, <1>6 DEF r
<1>7. CASE hits # {}
  <2>1. Min(hits) \in hits /\ \A w \in hits : Min(hits) <= w
    BY <1>5, <1>7, LeastIs
  <2>2. r = FirstZero(bm, Min(hits)) /\ Min(hits) \in Nat
    BY <1>4, <1>5, <1>7, <2>1
  <2>3. r \in Indices /\ Word(r) = Min(hits) /\ r \notin InUse(bm) /\ r < c
        /\ \A i \in Indices : Word(i) = Min(hits) /\ i \notin InUse(bm) => r <= i
    BY <1>2, <1>5, <2>1, <2>2
  <2>4. r \in 0 .. c - 1
    BY <1>0, <2>3 DEF Indices
  <2>5. ASSUME NEW i \in 0 .. r - 1, i \notin InUse(bm) PROVE FALSE
    <3>1. i \in 0 .. c - 1 /\ i \in Indices /\ i < r
      BY <1>0, <2>4 DEF Indices
    <3>2. Word(i) \in hits /\ Min(hits) <= Word(i)
      BY <1>3, <2>1, <2>5, <3>1
    <3>3. Word(i) <= Word(r)
      <4>1. /\ Word(i) \in Nat /\ Bit(i) \in Bits /\ i = Word(i) * WordBits + Bit(i)
            /\ Word(r) \in Nat /\ Bit(r) \in Bits /\ r = Word(r) * WordBits + Bit(r)
        BY <2>3, <3>1, PlaceOfIndex
      <4>2. ASSUME Word(r) < Word(i) PROVE FALSE
        <5>1. Word(r) * WordBits + WordBits <= Word(i) * WordBits
              /\ Word(r) * WordBits \in Nat /\ Word(i) * WordBits \in Nat
          BY <4>1, <4>2, Sizes, TimesStep
        <5> QED BY <3>1, <4>1, <5>1, Sizes DEF Bits
      <4> QED BY <4>1, <4>2
    <3>4. Word(i) = Min(hits)
      <4>1. Word(i) \in Nat /\ Min(hits) \in Nat /\ Word(i) <= Min(hits) /\ Min(hits) <= Word(i)
        BY <1>5, <2>2, <2>3, <3>2, <3>3
      <4> QED BY <4>1
    <3>5. r <= i
      BY <2>3, <2>5, <3>1, <3>4
    <3> QED BY <2>4, <3>1, <3>5
  <2> QED BY <2>3, <2>4, <2>5 DEF r
<1> QED BY <1>6, <1>7

-----------------------------------------------------------------------------
(* Addresses *)

Blocks == 0 .. blocks_per_slab - 1

(* The address of block i of slab n *)
Ptr(n, i) == IndexToPtr(RawMemory(n), i)

(* The chain has a size of slab. *)
HasSize == blocks_per_slab \in 1 .. MaxBlocks

(* A slab's memory is that of its blocks. *)
LEMMA SlabSize ==
    ASSUME HasSize
    PROVE  /\ MaxBlocks \in Nat /\ SlabMemorySize \in Nat \ {0}
           /\ \A i \in Blocks : i * BlockSize \in Nat /\ i * BlockSize + BlockSize <= SlabMemorySize
           /\ SlabMemorySize <= BlockSize * MaxBlocks /\ BlockSize * MaxBlocks \in Nat
<1>1. MaxBlocks \in Nat
  BY Sizes, Z3 DEF MaxBlocks
<1>2. blocks_per_slab \in Nat /\ 1 <= blocks_per_slab /\ blocks_per_slab <= MaxBlocks
  BY <1>1 DEF HasSize
<1>3. SlabMemorySize = blocks_per_slab * BlockSize
  BY <1>2, Sizes, Z3 DEF SlabMemorySize
<1>4. BlockSize * MaxBlocks = MaxBlocks * BlockSize
  BY <1>1, Sizes, Z3
<1>5. blocks_per_slab * BlockSize <= MaxBlocks * BlockSize /\ MaxBlocks * BlockSize \in Nat
  BY <1>1, <1>2, Sizes, TimesMonotone
<1>6. ASSUME NEW i \in Blocks
      PROVE  /\ i * BlockSize \in Nat /\ i * BlockSize + BlockSize <= blocks_per_slab * BlockSize
             /\ blocks_per_slab * BlockSize \in Nat
  <2>1. i \in Nat /\ i < blocks_per_slab
    BY <1>2 DEF Blocks
  <2> QED BY <1>2, <2>1, Sizes, TimesStep
<1>7. 0 \in Blocks
  BY <1>2 DEF Blocks
<1>8. blocks_per_slab * BlockSize \in Nat \ {0}
  BY <1>6, <1>7, Sizes
<1> QED BY <1>1, <1>3, <1>4, <1>5, <1>6, <1>8

(* An address is in one slab. *)
LEMMA OneOwner ==
    ASSUME HasSize, NEW n \in Nodes, NEW m \in Nodes, NEW ptr \in Nat, Owns(n, ptr), Owns(m, ptr)
    PROVE  n = m
<1>1. n \in Nat /\ m \in Nat /\ SlabMemorySize \in Nat
  BY SlabSize, Sizes DEF Nodes
<1>2. RawMemory(n) = n * SlabMemorySize /\ RawMemory(m) = m * SlabMemorySize
  BY DEF RawMemory
<1>3. RawMemory(n) \in Nat /\ RawMemory(m) \in Nat
  BY <1>1, <1>2, TimesMonotone
<1> DEFINE x == ptr - RawMemory(n)
           y == ptr - RawMemory(m)
<1>4. /\ x \in 0 .. SlabMemorySize - 1 /\ y \in 0 .. SlabMemorySize - 1
      /\ RawMemory(n) + x = RawMemory(m) + y
  BY <1>1, <1>3 DEF Owns
<1> HIDE DEF x, y
<1>5. n * SlabMemorySize + x = m * SlabMemorySize + y
  BY <1>2, <1>4
<1> QED BY <1>1, <1>4, <1>5, PlaceAndOffset

(* A block's address is in its slab, on a boundary, and leads back to it.   *)
LEMMA BlockAddress ==
    ASSUME HasSize, NEW n \in Nodes, NEW i \in Blocks
    PROVE  /\ Ptr(n, i) \in Pointers /\ Ptr(n, i) \in Nat /\ Owns(n, Ptr(n, i))
           /\ RawMemory(n) <= Ptr(n, i) /\ Ptr(n, i) < RawMemory(n) + BlockSize * blocks_per_slab
           /\ (Ptr(n, i) - RawMemory(n)) % BlockSize = 0
           /\ PtrToIndex(RawMemory(n), Ptr(n, i)) = i
<1>1. n \in Nat /\ n < Places /\ i \in Nat
  BY Sizes, SlabSize DEF Nodes, Blocks, HasSize
<1>2. /\ SlabMemorySize \in Nat /\ i * BlockSize \in Nat /\ i * BlockSize + BlockSize <= SlabMemorySize
      /\ SlabMemorySize <= BlockSize * MaxBlocks /\ BlockSize * MaxBlocks \in Nat
  BY SlabSize
<1>3. RawMemory(n) \in Nat /\ RawMemory(n) + SlabMemorySize <= Places * SlabMemorySize
      /\ Places * SlabMemorySize \in Nat
  BY <1>1, <1>2, Sizes, TimesStep DEF RawMemory
<1>4. Places * SlabMemorySize <= Places * (BlockSize * MaxBlocks)
      /\ Places * (BlockSize * MaxBlocks) \in Nat
  <2>1. SlabMemorySize * Places <= (BlockSize * MaxBlocks) * Places
        /\ (BlockSize * MaxBlocks) * Places \in Nat
    BY <1>2, Sizes, TimesMonotone
  <2>2. /\ SlabMemorySize * Places = Places * SlabMemorySize
        /\ (BlockSize * MaxBlocks) * Places = Places * (BlockSize * MaxBlocks)
    BY <1>2, Sizes, Z3
  <2> QED BY <2>1, <2>2
<1>5. Ptr(n, i) = RawMemory(n) + i * BlockSize
  BY DEF Ptr, IndexToPtr
<1>6. Ptr(n, i) - RawMemory(n) = i * BlockSize + 0
  BY <1>2, <1>3, <1>5
<1>7. (i * BlockSize + 0) \div BlockSize = i /\ (i * BlockSize + 0) % BlockSize = 0
  BY <1>1, Sizes, DivideTimes
<1>8. Ptr(n, i) \in Pointers /\ Ptr(n, i) \in Nat
  BY <1>2, <1>3, <1>4, <1>5, Sizes DEF Pointers
<1>9. Ptr(n, i) < RawMemory(n) + SlabMemorySize /\ RawMemory(n) <= Ptr(n, i)
  BY <1>2, <1>3, <1>5, Sizes
<1> QED BY <1>6, <1>7, <1>8, <1>9 DEF Owns, PtrToIndex, SlabMemorySize

(* Every boundary in a slab is a block's address. *)
LEMMA AddressOfBlock ==
    ASSUME HasSize, NEW n \in Nodes, NEW ptr \in Nat, Owns(n, ptr),
           (ptr - RawMemory(n)) % BlockSize = 0
    PROVE  /\ PtrToIndex(RawMemory(n), ptr) \in Blocks
           /\ ptr = Ptr(n, PtrToIndex(RawMemory(n), ptr))
<1>1. n \in Nat /\ SlabMemorySize \in Nat
  BY SlabSize, Sizes DEF Nodes
<1>2. RawMemory(n) \in Nat
  BY <1>1, TimesMonotone DEF RawMemory
<1> DEFINE x == ptr - RawMemory(n)
           i == x \div BlockSize
<1>3. x \in Nat /\ x < SlabMemorySize
  BY <1>1, <1>2 DEF Owns
<1>4. i \in Nat /\ x = i * BlockSize + (x % BlockSize)
  <2> HIDE DEF x
  <2> QED BY <1>3, Sizes, DivideBy
<1>5. blocks_per_slab \in Nat /\ SlabMemorySize = blocks_per_slab * BlockSize
  BY SlabSize, Sizes, Z3 DEF SlabMemorySize, HasSize
<1>6. i < blocks_per_slab
  <2> HIDE DEF x
  <2> QED BY <1>3, <1>5, Sizes, QuotientBound
<1>7. PtrToIndex(RawMemory(n), ptr) = i
  BY DEF PtrToIndex
<1>8. i * BlockSize \in Nat
  <2> HIDE DEF i
  <2> QED BY <1>4, Sizes, TimesMonotone
<1>9. x % BlockSize = 0
  OBVIOUS
<1>10. ptr = RawMemory(n) + x
  BY <1>2
<1> HIDE DEF x, i
<1>11. ptr = RawMemory(n) + i * BlockSize
  BY <1>2, <1>3, <1>4, <1>8, <1>9, <1>10
<1> QED BY <1>4, <1>5, <1>6, <1>7, <1>11 DEF Ptr, IndexToPtr, Blocks

(* Two blocks have different addresses. *)
LEMMA AddressesDiffer ==
    ASSUME HasSize, NEW n \in Nodes, NEW m \in Nodes, NEW i \in Blocks, NEW j \in Blocks,
           Ptr(n, i) = Ptr(m, j)
    PROVE  n = m /\ i = j
<1>1. Ptr(n, i) \in Nat /\ Owns(n, Ptr(n, i)) /\ Owns(m, Ptr(n, i))
  BY BlockAddress
<1>2. n = m
  BY <1>1, OneOwner
<1>3. PtrToIndex(RawMemory(n), Ptr(n, i)) = i /\ PtrToIndex(RawMemory(m), Ptr(m, j)) = j
  BY BlockAddress
<1> QED BY <1>2, <1>3

-----------------------------------------------------------------------------
(* The lists *)

(* Two lists without repetition that share nothing *)
TwoLists(a, f) ==
    /\ a \in Seq(Nodes) /\ f \in Seq(Nodes)
    /\ IsInjective(a) /\ IsInjective(f)
    /\ Range(a) \cap Range(f) = {}

(* The part of a sequence after its first k elements *)
LEMMA TailPart ==
    ASSUME NEW S, NEW s \in Seq(S), NEW k \in 0 .. Len(s)
    PROVE  LET t == SubSeq(s, k + 1, Len(s)) IN
           /\ t \in Seq(S) /\ Len(t) = Len(s) - k /\ DOMAIN t = 1 .. Len(s) - k
           /\ \A i \in 1 .. Len(s) - k : t[i] = s[i + k]
<1> DEFINE t == SubSeq(s, k + 1, Len(s))
<1>1. Len(s) \in Nat /\ DOMAIN s = 1 .. Len(s) /\ k \in Nat /\ k <= Len(s)
  OBVIOUS
<1>2. \A m \in 1 .. Len(s) + 1 :
         /\ SubSeq(s, m, Len(s)) \in Seq(S)
         /\ Len(SubSeq(s, m, Len(s))) = Len(s) - m + 1
  BY <1>1, SubSeqProperties
<1>3. t \in Seq(S) /\ Len(t) = Len(s) - k
  <2>1. k + 1 \in 1 .. Len(s) + 1 /\ Len(s) - (k + 1) + 1 = Len(s) - k
    BY <1>1
  <2>2. t \in Seq(S) /\ Len(t) = Len(s) - (k + 1) + 1
    BY <1>2, <2>1
  <2> QED BY <2>1, <2>2
<1>4. ASSUME NEW i \in 1 .. Len(s) - k PROVE t[i] = s[i + k]
  <2>1. t[i] = s[(k + 1) + i - 1]
    BY <1>1
  <2>2. (k + 1) + i - 1 = i + k
    BY <1>1
  <2> QED BY <2>1, <2>2
<1> QED BY <1>3, <1>4

(* list_unlink takes one element out. *)
LEMMA RemoveFirstIs ==
    ASSUME NEW S, NEW s \in Seq(S), IsInjective(s), NEW e
    PROVE  /\ RemoveFirst(s, e) \in Seq(S) /\ IsInjective(RemoveFirst(s, e))
           /\ Range(RemoveFirst(s, e)) = Range(s) \ {e}
<1>1. CASE ~ \E i \in 1 .. Len(s) : s[i] = e
  <2>1. RemoveFirst(s, e) = s
    BY <1>1 DEF RemoveFirst
  <2>2. e \notin Range(s)
    BY <1>1 DEF Range
  <2> QED BY <2>1, <2>2
<1>2. CASE \E i \in 1 .. Len(s) : s[i] = e
  <2> DEFINE I == {i \in 1 .. Len(s) : s[i] = e}
             k == Min(I)
             t == RemoveFirst(s, e)
  <2>1. k \in I
    BY <1>2, LeastIs
  <2>2. t = SubSeq(s, 1, k - 1) \o SubSeq(s, k + 1, Len(s))
    BY <1>2 DEF RemoveFirst, RemoveAt, SelectInSeq
  <2>3. k \in 1 .. Len(s) /\ s[k] = e
    BY <2>1
  <2> HIDE DEF k, t
  <2>4. /\ t \in Seq(S) /\ Len(t) = Len(s) - 1 /\ DOMAIN t = 1 .. Len(s) - 1
        /\ \A i \in 1 .. Len(s) - 1 : t[i] = IF i < k THEN s[i] ELSE s[i + 1]
    <3> DEFINE u == SubSeq(s, 1, k - 1)
               v == SubSeq(s, k + 1, Len(s))
    <3>1. Len(s) \in Nat /\ k \in Nat
      BY <2>3
    <3>2. u \in Seq(S) /\ Len(u) = k - 1 /\ \A i \in 1 .. k - 1 : u[i] = s[i]
      BY <2>3, <3>1
    <3>3. v \in Seq(S) /\ Len(v) = Len(s) - k /\ \A i \in 1 .. Len(s) - k : v[i] = s[i + k]
      BY <2>3, <3>1, TailPart
    <3> HIDE DEF u, v
    <3>4. t = u \o v
      BY <2>2 DEF u, v
    <3>5. t \in Seq(S) /\ Len(t) = Len(s) - 1 /\ DOMAIN t = 1 .. Len(s) - 1
      <4>1. t \in Seq(S) /\ Len(t) = Len(u) + Len(v)
        BY <3>2, <3>3, <3>4, ConcatProperties
      <4> QED BY <2>3, <3>1, <3>2, <3>3, <4>1
    <3>6. ASSUME NEW i \in 1 .. Len(s) - 1 PROVE t[i] = IF i < k THEN s[i] ELSE s[i + 1]
      <4>1. CASE i < k
        <5>1. i \in 1 .. k - 1 /\ i \in 1 .. Len(u)
          BY <2>3, <3>1, <3>2, <4>1
        <5>2. t[i] = u[i]
          BY <3>2, <3>3, <3>4, <5>1
        <5> QED BY <3>2, <4>1, <5>1, <5>2
      <4>2. CASE ~ (i < k)
        <5>1. t[i] = v[i - (k - 1)] /\ i - (k - 1) \in 1 .. Len(s) - k
          <6>1. i \in 1 .. Len(u) + Len(v) /\ ~ (i <= Len(u)) /\ i - (k - 1) \in 1 .. Len(s) - k
            BY <2>3, <3>1, <3>2, <3>3, <4>2
          <6>2. t[i] = v[i - Len(u)]
            BY <3>2, <3>3, <3>4, <6>1, ConcatProperties
          <6> QED BY <3>2, <6>1, <6>2
        <5>2. i - (k - 1) + k = i + 1
          BY <3>1
        <5> QED BY <3>3, <4>2, <5>1, <5>2
      <4> QED BY <4>1, <4>2
    <3> QED BY <3>5, <3>6
  <2>5. IsInjective(t)
    <3> SUFFICES ASSUME NEW i \in 1 .. Len(s) - 1, NEW j \in 1 .. Len(s) - 1, t[i] = t[j]
                 PROVE  i = j
      BY <2>4 DEF IsInjective
    <3>1. ASSUME NEW x \in 1 .. Len(s) - 1
          PROVE  /\ (IF x < k THEN x ELSE x + 1) \in DOMAIN s
                 /\ t[x] = s[IF x < k THEN x ELSE x + 1]
      BY <2>3, <2>4
    <3>2. (IF i < k THEN i ELSE i + 1) = (IF j < k THEN j ELSE j + 1)
      BY <3>1 DEF IsInjective
    <3> QED BY <2>3, <3>2
  <2>6. Range(t) \subseteq Range(s) \ {e}
    <3> SUFFICES ASSUME NEW i \in DOMAIN t PROVE t[i] \in Range(s) /\ t[i] # e
      BY DEF Range
    <3>1. PICK j \in 1 .. Len(s) : t[i] = s[j] /\ j # k
      BY <2>3, <2>4
    <3> QED BY <2>3, <3>1 DEF Range, IsInjective
  <2>7. Range(s) \ {e} \subseteq Range(t)
    <3> SUFFICES ASSUME NEW j \in DOMAIN s, s[j] # e PROVE s[j] \in Range(t)
      BY DEF Range
    <3>1. j \in 1 .. Len(s) /\ j # k
      BY <2>3
    <3>2. CASE j < k
      BY <2>3, <2>4, <3>1, <3>2 DEF Range
    <3>3. CASE k < j
      <4>1. j - 1 \in DOMAIN t /\ t[j - 1] = s[j]
        BY <2>3, <2>4, <3>1, <3>3
      <4> QED BY <4>1 DEF Range
    <3> QED BY <2>3, <3>1, <3>2, <3>3
  <2>8. t \in Seq(S) /\ IsInjective(t) /\ Range(t) = Range(s) \ {e}
    BY <2>4, <2>5, <2>6, <2>7
  <2> QED BY <2>8 DEF t
<1> QED BY <1>1, <1>2

(* list_push puts one in front. *)
LEMMA PushIs ==
    ASSUME NEW S, NEW s \in Seq(S), NEW e \in S
    PROVE  /\ <<e>> \o s \in Seq(S) /\ Range(<<e>> \o s) = Range(s) \cup {e}
           /\ IsInjective(s) /\ e \notin Range(s) => IsInjective(<<e>> \o s)
<1> DEFINE t == <<e>> \o s
<1>1. /\ t \in Seq(S) /\ DOMAIN t = 1 .. Len(s) + 1 /\ t[1] = e
      /\ \A i \in 1 .. Len(s) : t[i + 1] = s[i]
      /\ \A j \in 1 .. Len(s) + 1 : j # 1 => t[j] = s[j - 1] /\ j - 1 \in 1 .. Len(s)
  OBVIOUS
<1>2. DOMAIN s = 1 .. Len(s)
  OBVIOUS
<1> HIDE DEF t
<1>3. Range(t) = Range(s) \cup {e}
  <2>1. Range(t) \subseteq Range(s) \cup {e}
    <3>1. ASSUME NEW j \in DOMAIN t PROVE t[j] = e \/ t[j] \in Range(s)
      <4>1. CASE j = 1
        BY <1>1, <4>1
      <4>2. CASE j # 1
        BY <1>1, <1>2, <4>2 DEF Range
      <4> QED BY <4>1, <4>2
    <3> QED BY <3>1 DEF Range
  <2>2. e \in Range(t)
    BY <1>1 DEF Range
  <2>3. ASSUME NEW i \in DOMAIN s PROVE s[i] \in Range(t)
    <3>1. i + 1 \in DOMAIN t /\ t[i + 1] = s[i]
      BY <1>1, <1>2
    <3> QED BY <3>1 DEF Range
  <2> QED BY <2>1, <2>2, <2>3 DEF Range
<1>4. ASSUME IsInjective(s), e \notin Range(s) PROVE IsInjective(t)
  <2> SUFFICES ASSUME NEW i \in DOMAIN t, NEW j \in DOMAIN t, t[i] = t[j] PROVE i = j
    BY DEF IsInjective
  <2>1. \A x \in DOMAIN t : x # 1 => x - 1 \in DOMAIN s /\ t[x] = s[x - 1] /\ t[x] # e /\ x \in Nat
    BY <1>1, <1>2, <1>4 DEF Range
  <2>2. CASE i = 1 \/ j = 1
    BY <1>1, <2>1, <2>2
  <2>3. CASE i # 1 /\ j # 1
    <3>1. i - 1 = j - 1
      BY <1>4, <2>1, <2>3 DEF IsInjective
    <3> QED BY <2>1, <2>3, <3>1
  <2> QED BY <2>2, <2>3
<1> QED BY <1>1, <1>3, <1>4 DEF t

(* The first k slabs of one list, pushed one by one onto the other          *)
LEMMA PushedOver ==
    ASSUME NEW a, NEW f, TwoLists(a, f), NEW k \in 0 .. Len(a)
    PROVE  LET rest == SubSeq(a, k + 1, Len(a))
               moved == SubSeq(a, 1, k)
               over == Reverse(moved) \o f IN
           /\ TwoLists(rest, over)
           /\ Range(moved) = {a[i] : i \in 1 .. k}
           /\ Range(over) = Range(f) \cup Range(moved)
           /\ Range(a) = Range(rest) \cup Range(moved)
           /\ k < Len(a) => rest # <<>> /\ Head(rest) = a[k + 1] /\ Head(rest) \in Range(rest)
           /\ k = Len(a) => rest = <<>>
<1> DEFINE rest == SubSeq(a, k + 1, Len(a))
           moved == SubSeq(a, 1, k)
           over == Reverse(moved) \o f
<1>1. a \in Seq(Nodes) /\ f \in Seq(Nodes) /\ Len(a) \in Nat /\ Len(f) \in Nat
      /\ DOMAIN a = 1 .. Len(a) /\ DOMAIN f = 1 .. Len(f)
  BY DEF TwoLists
<1>2. /\ moved \in Seq(Nodes) /\ Len(moved) = k /\ DOMAIN moved = 1 .. k
      /\ \A i \in 1 .. k : moved[i] = a[i]
  BY <1>1
<1>3. /\ rest \in Seq(Nodes) /\ Len(rest) = Len(a) - k /\ DOMAIN rest = 1 .. Len(a) - k
      /\ \A i \in 1 .. Len(a) - k : rest[i] = a[i + k]
  BY <1>1, TailPart
<1> HIDE DEF moved, rest
<1> DEFINE back == Reverse(moved)
<1>4. back \in Seq(Nodes) /\ Len(back) = k /\ \A i \in 1 .. k : back[i] = a[k - i + 1]
  <2>1. back = [i \in 1 .. k |-> moved[k - i + 1]]
    BY <1>2 DEF Reverse
  <2>2. \A i \in 1 .. k : k - i + 1 \in 1 .. k
    OBVIOUS
  <2>3. \A i \in 1 .. k : moved[k - i + 1] = a[k - i + 1] /\ moved[k - i + 1] \in Nodes
    BY <1>1, <1>2, <2>2
  <2> QED BY <2>1, <2>2, <2>3
<1> HIDE DEF back
<1>5. over = back \o f
  BY DEF back
<1>6. /\ over \in Seq(Nodes) /\ DOMAIN over = 1 .. k + Len(f)
      /\ \A i \in 1 .. k : over[i] = a[k - i + 1]
      /\ \A i \in k + 1 .. k + Len(f) : over[i] = f[i - k]
  <2> HIDE DEF over
  <2>1. over \in Seq(Nodes) /\ Len(over) = k + Len(f) /\ DOMAIN over = 1 .. k + Len(f)
    BY <1>1, <1>4, <1>5
  <2>2. ASSUME NEW i \in 1 .. k PROVE over[i] = a[k - i + 1]
    <3>1. over[i] = back[i]
      BY <1>1, <1>4, <1>5
    <3> QED BY <1>4, <3>1
  <2>3. ASSUME NEW i \in k + 1 .. k + Len(f) PROVE over[i] = f[i - k]
    BY <1>1, <1>4, <1>5
  <2> QED BY <2>1, <2>2, <2>3
<1> HIDE DEF over
<1>7. Range(moved) = {a[i] : i \in 1 .. k}
  BY <1>2 DEF Range
<1>8. Range(over) = Range(f) \cup Range(moved)
  <2>1. Range(over) \subseteq Range(f) \cup Range(moved)
    <3> SUFFICES ASSUME NEW i \in 1 .. k + Len(f) PROVE over[i] \in Range(f) \cup Range(moved)
      BY <1>6 DEF Range
    <3>1. CASE i \in 1 .. k
      BY <1>6, <1>7, <3>1
    <3>2. CASE i \in k + 1 .. k + Len(f)
      <4>1. over[i] = f[i - k] /\ i - k \in 1 .. Len(f)
        BY <1>1, <1>6, <3>2
      <4> QED BY <1>1, <4>1 DEF Range
    <3> QED BY <3>1, <3>2
  <2>2. ASSUME NEW i \in 1 .. k PROVE a[i] \in Range(over)
    <3>1. k - i + 1 \in 1 .. k /\ k - i + 1 \in DOMAIN over /\ over[k - i + 1] = a[k - (k - i + 1) + 1]
      BY <1>1, <1>6
    <3>2. k - (k - i + 1) + 1 = i
      OBVIOUS
    <3> QED BY <3>1, <3>2 DEF Range
  <2>3. ASSUME NEW i \in 1 .. Len(f) PROVE f[i] \in Range(over)
    <3>1. k + i \in DOMAIN over /\ over[k + i] = f[(k + i) - k]
      <4>1. k + i \in k + 1 .. k + Len(f) /\ k + i \in 1 .. k + Len(f)
        BY <1>1
      <4> QED BY <1>6, <4>1
    <3>2. (k + i) - k = i
      OBVIOUS
    <3> QED BY <3>1, <3>2 DEF Range
  <2> QED BY <1>1, <1>7, <2>1, <2>2, <2>3 DEF Range
<1>9. Range(rest) = {a[i] : i \in k + 1 .. Len(a)}
  <2>1. ASSUME NEW i \in 1 .. Len(a) - k PROVE rest[i] = a[i + k] /\ i + k \in k + 1 .. Len(a)
    BY <1>1, <1>3
  <2>2. ASSUME NEW i \in k + 1 .. Len(a) PROVE i - k \in DOMAIN rest /\ rest[i - k] = a[i]
    <3>1. i - k \in 1 .. Len(a) - k /\ (i - k) + k = i
      BY <1>1
    <3>2. rest[i - k] = a[(i - k) + k]
      BY <1>3, <3>1
    <3> QED BY <1>3, <3>1, <3>2
  <2>3. Range(rest) \subseteq {a[i] : i \in k + 1 .. Len(a)}
    BY <1>3, <2>1 DEF Range
  <2>4. {a[i] : i \in k + 1 .. Len(a)} \subseteq Range(rest)
    BY <2>2 DEF Range
  <2> QED BY <2>3, <2>4
<1>10. Range(a) = Range(rest) \cup Range(moved)
  <2>1. 1 .. Len(a) = (k + 1 .. Len(a)) \cup (1 .. k)
    BY <1>1
  <2> QED BY <1>1, <1>7, <1>9, <2>1 DEF Range
<1>11. IsInjective(a) /\ IsInjective(f) /\ \A i \in 1 .. Len(a), j \in 1 .. Len(f) : a[i] # f[j]
  BY <1>1 DEF TwoLists, Range
<1>12. IsInjective(rest)
  <2> SUFFICES ASSUME NEW i \in 1 .. Len(a) - k, NEW j \in 1 .. Len(a) - k, rest[i] = rest[j]
               PROVE  i = j
    BY <1>3 DEF IsInjective
  <2>1. i + k \in DOMAIN a /\ j + k \in DOMAIN a /\ a[i + k] = a[j + k]
    BY <1>1, <1>3
  <2>2. i + k = j + k
    BY <1>11, <2>1 DEF IsInjective
  <2> QED BY <2>2
<1>13. IsInjective(over)
  <2> SUFFICES ASSUME NEW i \in 1 .. k + Len(f), NEW j \in 1 .. k + Len(f), over[i] = over[j]
               PROVE  i = j
    BY <1>6 DEF IsInjective
  <2>1. CASE i \in 1 .. k /\ j \in 1 .. k
    <3>1. a[k - i + 1] = a[k - j + 1] /\ k - i + 1 \in DOMAIN a /\ k - j + 1 \in DOMAIN a
      BY <1>1, <1>6, <2>1
    <3>2. k - i + 1 = k - j + 1
      BY <1>11, <3>1 DEF IsInjective
    <3> QED BY <3>2
  <2>2. CASE i \in k + 1 .. k + Len(f) /\ j \in k + 1 .. k + Len(f)
    <3>1. f[i - k] = f[j - k] /\ i - k \in DOMAIN f /\ j - k \in DOMAIN f
      BY <1>1, <1>6, <2>2
    <3>2. i - k = j - k
      BY <1>11, <3>1 DEF IsInjective
    <3> QED BY <3>2
  <2>3. ASSUME NEW x \in 1 .. k, NEW y \in k + 1 .. k + Len(f), over[x] = over[y] PROVE FALSE
    <3>1. k - x + 1 \in 1 .. Len(a) /\ y - k \in 1 .. Len(f) /\ a[k - x + 1] = f[y - k]
      BY <1>1, <1>6, <2>3
    <3> QED BY <1>11, <3>1
  <2>4. i \in 1 .. k \/ i \in k + 1 .. k + Len(f)
    OBVIOUS
  <2>5. j \in 1 .. k \/ j \in k + 1 .. k + Len(f)
    OBVIOUS
  <2> QED BY <2>1, <2>2, <2>3, <2>4, <2>5
<1>14. Range(rest) \cap Range(over) = {}
  <2>1. ASSUME NEW i \in k + 1 .. Len(a), NEW j \in 1 .. k PROVE a[i] # a[j]
    BY <1>1, <1>11 DEF IsInjective
  <2>2. ASSUME NEW i \in k + 1 .. Len(a), NEW j \in 1 .. Len(f) PROVE a[i] # f[j]
    BY <1>1, <1>11
  <2> QED BY <1>1, <1>7, <1>8, <1>9, <2>1, <2>2 DEF Range
<1>15. ASSUME k < Len(a) PROVE rest # <<>> /\ Head(rest) = a[k + 1] /\ Head(rest) \in Range(rest)
  <2>1. 1 \in DOMAIN rest /\ rest[1] = a[k + 1] /\ rest # <<>> /\ Head(rest) = rest[1]
    BY <1>1, <1>3, <1>15
  <2> QED BY <2>1 DEF Range
<1>16. k = Len(a) => rest = <<>>
  BY <1>1, <1>3
<1>17. TwoLists(rest, over)
  BY <1>3, <1>6, <1>12, <1>13, <1>14 DEF TwoLists
<1> QED BY <1>7, <1>8, <1>10, <1>15, <1>16, <1>17 DEF rest, moved, over

-----------------------------------------------------------------------------
(* The invariant *)

(* The slabs none of whose blocks is in use *)
Empties == {n \in Listed : used_count[n] = 0}

(* A chain that is not there keeps nothing; one that is has its sizes.      *)
ConfInv ==
    /\ inited => HasSize /\ blocks_per_slab \in BlockCounts
    /\ ~ inited => active = <<>> /\ full = <<>>

(* The lists, and is_full of every slab, listed or not *)
ListInv ==
    /\ TwoLists(active, full)
    /\ \A n \in Nodes : is_full[n] <=> n \in Range(full)

(* What bitmaps, counts and users say of the blocks; the spare bits of the  *)
(* last word stay clear.                                                    *)
MarkInv ==
    /\ \A n \in Listed : /\ InUse(bitmap[n]) \subseteq Blocks
                         /\ used_count[n] = Cardinality(InUse(bitmap[n]))
    /\ \A ptr : ptr \in held <=> \E n \in Listed : \E i \in InUse(bitmap[n]) : ptr = Ptr(n, i)
    /\ \A n \in Range(full) : Blocks \subseteq InUse(bitmap[n])

(* The counts of the chain *)
CountInv ==
    /\ slab_count = Cardinality(Listed)
    /\ mem = 2 * Cardinality(Listed)
    /\ empty_count = Cardinality(Empties)
    /\ empty_count <= max_empty_reserve \/ empty_count <= 1

(* The inductive invariant *)
IInv == TypeOK /\ ConfInv /\ ListInv /\ MarkInv /\ CountInv

(* Slabs can be counted. *)
LEMMA Finite ==
    ASSUME TypeOK
    PROVE  /\ Listed \subseteq Nodes /\ IsFiniteSet(Listed) /\ Cardinality(Listed) \in Nat
           /\ IsFiniteSet(Empties) /\ Cardinality(Empties) \in Nat
           /\ Cardinality(Empties) <= Cardinality(Listed)
           /\ Cardinality(Listed) <= Cardinality(Nodes) /\ Cardinality(Nodes) \in Nat
<1>1. IsFiniteSet(Nodes) /\ Cardinality(Nodes) \in Nat
  BY Sizes, FS_Interval, FS_CardinalityType DEF Nodes
<1>2. Listed \subseteq Nodes /\ Empties \subseteq Listed
  BY DEF TypeOK, Listed, Range, Empties
<1>3. IsFiniteSet(Listed) /\ Cardinality(Listed) <= Cardinality(Nodes)
  BY <1>1, <1>2, FS_Subset
<1>4. IsFiniteSet(Empties) /\ Cardinality(Empties) <= Cardinality(Listed)
  BY <1>2, <1>3, FS_Subset
<1> QED BY <1>1, <1>2, <1>3, <1>4, FS_CardinalityType

(* Indices of blocks are indices of bits. *)
LEMMA BlocksAreIndices ==
    ASSUME HasSize
    PROVE  Blocks \subseteq Indices /\ Blocks \subseteq Nat /\ 0 \in Blocks /\ blocks_per_slab \in 1 .. MaxBlocks
<1>1. MaxBlocks \in Nat
  BY SlabSize
<1> QED BY <1>1 DEF HasSize, Blocks, Indices

(* cfiber_slab_alloc in slab n *)
LEMMA FreeIs ==
    ASSUME TypeOK, HasSize, NEW n \in Nodes
    PROVE  \/ Free(n) = NotFound /\ Blocks \subseteq InUse(bitmap[n])
           \/ /\ Free(n) \in Blocks /\ Free(n) # NotFound /\ Free(n) \notin InUse(bitmap[n])
              /\ \A i \in 0 .. Free(n) - 1 : i \in InUse(bitmap[n])
<1>1. bitmap[n] \in Bitmaps /\ blocks_per_slab \in 1 .. MaxBlocks
  BY DEF TypeOK, HasSize
<1>2. \A i \in Blocks : i # NotFound
  BY BlocksAreIndices DEF NotFound
<1> QED BY <1>1, <1>2, FindsLeast DEF Free, Blocks

(* The walk of cfiber_multislab_alloc stops at the first slab with a free   *)
(* block, or at the end.                                                    *)
LEMMA FullAheadIs ==
    ASSUME active \in Seq(Nodes)
    PROVE  /\ FullAhead \in 0 .. Len(active)
           /\ \A i \in 1 .. FullAhead : Free(active[i]) = NotFound
           /\ FullAhead < Len(active) => Free(active[FullAhead + 1]) # NotFound
<1>0. Len(active) \in Nat /\ DOMAIN active = 1 .. Len(active)
  OBVIOUS
<1> DEFINE I == {i \in 1 .. Len(active) : Free(active[i]) # NotFound}
<1>1. CASE I = {}
  <2>1. FullAhead = Len(active)
    BY <1>0, <1>1 DEF FullAhead
  <2> QED BY <1>0, <1>1, <2>1
<1>2. CASE I # {}
  <2> DEFINE k == Min(I)
  <2>1. k \in I /\ \A i \in I : k <= i
    <3>1. I \subseteq Nat
      BY <1>0
    <3> HIDE DEF I
    <3> QED BY <1>2, <3>1, LeastIs
  <2>2. FullAhead = k - 1
    BY <1>0, <1>2 DEF FullAhead, SelectInSeq
  <2>3. k \in 1 .. Len(active) /\ Free(active[k]) # NotFound
    BY <2>1
  <2>4. ASSUME NEW i \in 1 .. k - 1 PROVE Free(active[i]) = NotFound
    <3>1. i \in 1 .. Len(active) /\ ~ (k <= i)
      BY <1>0, <2>3
    <3> QED BY <2>1, <3>1
  <2> HIDE DEF k
  <2>5. k - 1 \in 0 .. Len(active) /\ (k - 1) + 1 = k
    BY <1>0, <2>3
  <2> QED BY <2>2, <2>3, <2>4, <2>5
<1> QED BY <1>1, <1>2

(* The walk: what it leaves of the lists, and what it finds *)
LEMMA Walk ==
    ASSUME TypeOK, ConfInv, ListInv, MarkInv, inited, MoveFull
    PROVE  /\ TwoLists(Rest, full') /\ Listed = Range(Rest) \cup Range(full')
           /\ is_full' \in [Nodes -> BOOLEAN]
           /\ \A n \in Nodes : is_full'[n] <=> n \in Range(full')
           /\ \A n \in Range(full') : n \in Nodes /\ Blocks \subseteq InUse(bitmap[n])
           /\ Rest # <<>> => /\ Head(Rest) \in Range(Rest) /\ Head(Rest) \in Nodes
                             /\ Free(Head(Rest)) \in Blocks
                             /\ Free(Head(Rest)) \notin InUse(bitmap[Head(Rest)])
<1> DEFINE k == FullAhead
           moved == SubSeq(active, 1, k)
<1>1. TwoLists(active, full) /\ active \in Seq(Nodes) /\ HasSize
  BY DEF ListInv, TwoLists, ConfInv
<1>2. /\ k \in 0 .. Len(active) /\ \A i \in 1 .. k : Free(active[i]) = NotFound
      /\ k < Len(active) => Free(active[k + 1]) # NotFound
  BY <1>1, FullAheadIs
<1>3. Rest = SubSeq(active, k + 1, Len(active)) /\ full' = Reverse(moved) \o full
  BY DEF Rest, MoveFull
<1>4. is_full' = [n \in Nodes |-> is_full[n] \/ n \in Range(moved)]
  BY DEF MoveFull
<1> HIDE DEF k, moved
<1>5. /\ TwoLists(Rest, full')
      /\ Range(moved) = {active[i] : i \in 1 .. k}
      /\ Range(full') = Range(full) \cup Range(moved)
      /\ Range(active) = Range(Rest) \cup Range(moved)
      /\ k < Len(active) => Rest # <<>> /\ Head(Rest) = active[k + 1] /\ Head(Rest) \in Range(Rest)
      /\ k = Len(active) => Rest = <<>>
  BY <1>1, <1>2, <1>3, PushedOver DEF moved
<1>6. Listed = Range(Rest) \cup Range(full')
  BY <1>5 DEF Listed
<1>7. \A n \in Range(Rest) \cup Range(full') : n \in Nodes
  BY <1>5 DEF TwoLists, Range
<1>8. \A n \in Nodes : is_full'[n] \in BOOLEAN /\ (is_full'[n] <=> n \in Range(full'))
  BY <1>4, <1>5 DEF ListInv
<1>9. ASSUME NEW n \in Range(full') PROVE Blocks \subseteq InUse(bitmap[n])
  <2>1. CASE n \in Range(full)
    BY <2>1 DEF MarkInv
  <2>2. CASE n \in Range(moved)
    <3>1. Free(n) = NotFound /\ n \in Nodes
      BY <1>2, <1>5, <1>7, <2>2
    <3> QED BY <1>1, <3>1, FreeIs
  <2> QED BY <1>5, <2>1, <2>2
<1>10. ASSUME Rest # <<>>
       PROVE  /\ Head(Rest) \in Range(Rest) /\ Head(Rest) \in Nodes
              /\ Free(Head(Rest)) \in Blocks /\ Free(Head(Rest)) \notin InUse(bitmap[Head(Rest)])
  <2>1. k < Len(active)
    BY <1>1, <1>2, <1>5, <1>10
  <2>2. Head(Rest) \in Range(Rest) /\ Head(Rest) \in Nodes /\ Free(Head(Rest)) # NotFound
    BY <1>2, <1>5, <1>7, <2>1
  <2> QED BY <1>1, <2>2, FreeIs
<1> QED BY <1>4, <1>5, <1>6, <1>7, <1>8, <1>9, <1>10

(* find_owning_slab finds a slab that owns ptr if there is one. *)
LEMMA OwningIs ==
    ASSUME TypeOK, NEW ptr, NEW m \in Listed, Owns(m, ptr)
    PROVE  Owning(ptr) \in Listed /\ Owns(Owning(ptr), ptr)
<1> DEFINE s == Searched
           I == {i \in 1 .. Len(s) : Owns(s[i], ptr)}
<1>1. active \in Seq(Nodes) /\ full \in Seq(Nodes)
  BY DEF TypeOK
<1>2. s \in Seq(Nodes) /\ Len(s) = Len(active) + Len(full)
      /\ \A i \in 1 .. Len(active) + Len(full) :
            s[i] = IF i <= Len(active) THEN active[i] ELSE full[i - Len(active)]
  BY <1>1, ConcatProperties DEF Searched
<1>3. \A i \in 1 .. Len(s) : s[i] \in Listed
  <2> SUFFICES ASSUME NEW i \in 1 .. Len(active) + Len(full) PROVE s[i] \in Listed
    BY <1>2
  <2>1. CASE i <= Len(active)
    BY <1>1, <1>2, <2>1 DEF Listed, Range
  <2>2. CASE ~ (i <= Len(active))
    <3>1. i - Len(active) \in DOMAIN full /\ s[i] = full[i - Len(active)]
      BY <1>1, <1>2, <2>2
    <3> QED BY <3>1 DEF Listed, Range
  <2> QED BY <2>1, <2>2
<1>4. \E i \in 1 .. Len(s) : s[i] = m
  <2>1. CASE m \in Range(active)
    <3>1. PICK i \in 1 .. Len(active) : active[i] = m
      BY <1>1, <2>1 DEF Range
    <3>2. i \in 1 .. Len(active) + Len(full) /\ i <= Len(active)
      BY <1>1
    <3> QED BY <1>2, <3>1, <3>2
  <2>2. CASE m \in Range(full)
    <3>1. PICK i \in 1 .. Len(full) : full[i] = m
      BY <1>1, <2>2 DEF Range
    <3>2. i + Len(active) \in 1 .. Len(active) + Len(full) /\ ~ (i + Len(active) <= Len(active))
          /\ (i + Len(active)) - Len(active) = i
      BY <1>1
    <3> QED BY <1>2, <3>1, <3>2
  <2> QED BY <2>1, <2>2 DEF Listed
<1>5. I # {} /\ I \subseteq Nat
  BY <1>4
<1>6. Min(I) \in I
  BY <1>5, LeastIs
<1>7. Owning(ptr) = s[Min(I)]
  BY <1>5 DEF Owning, SelectInSeq
<1> QED BY <1>3, <1>6, <1>7

(* A release that is not rejected is of a block in use. *)
LEMMA ReleasedBlock ==
    ASSUME TypeOK, HasSize, NEW ptr \in Pointers, Releases(ptr)
    PROVE  LET n == Owning(ptr)
               i == PtrToIndex(RawMemory(n), ptr) IN
           n \in Listed /\ n \in Nodes /\ i \in Blocks /\ i \in InUse(bitmap[n]) /\ ptr = Ptr(n, i)
<1> DEFINE n == Owning(ptr)
           i == PtrToIndex(RawMemory(n), ptr)
<1>1. n \in Listed /\ n \in Nodes /\ Owns(n, ptr)
  BY OwningIs, Finite DEF Releases
<1>2. (ptr - RawMemory(n)) % BlockSize = 0 /\ BitmapTest(bitmap[n], i)
  BY DEF Releases, Accepts
<1>3. ptr \in Nat
  BY DEF Pointers
<1> HIDE DEF n
<1>4. i \in Blocks /\ ptr = Ptr(n, i)
  BY <1>1, <1>2, <1>3, AddressOfBlock
<1> HIDE DEF i
<1>5. i \in InUse(bitmap[n])
  BY <1>2, <1>4, BlocksAreIndices DEF InUse, Indices
<1> QED BY <1>1, <1>4, <1>5 DEF n, i

(* Every block in use can be released. *)
LEMMA BlockReleased ==
    ASSUME TypeOK, HasSize, NEW n \in Listed, NEW i \in Blocks, i \in InUse(bitmap[n])
    PROVE  Releases(Ptr(n, i))
<1>1. n \in Nodes
  BY Finite
<1>2. /\ Ptr(n, i) \in Nat /\ Owns(n, Ptr(n, i))
      /\ RawMemory(n) <= Ptr(n, i) /\ Ptr(n, i) < RawMemory(n) + BlockSize * blocks_per_slab
      /\ (Ptr(n, i) - RawMemory(n)) % BlockSize = 0
      /\ PtrToIndex(RawMemory(n), Ptr(n, i)) = i
  BY <1>1, BlockAddress
<1>3. Owning(Ptr(n, i)) \in Listed /\ Owns(Owning(Ptr(n, i)), Ptr(n, i))
  BY <1>2, OwningIs
<1>4. Owning(Ptr(n, i)) = n
  BY <1>1, <1>2, <1>3, OneOwner, Finite
<1>5. BitmapTest(bitmap[n], i)
  BY DEF InUse
<1> QED BY <1>2, <1>4, <1>5 DEF Releases, Accepts

-----------------------------------------------------------------------------
(* What a step does to the marks of one slab *)

(* Block i of slab n becomes one in use. *)
LEMMA OneMore ==
    ASSUME TypeOK, HasSize, NEW n \in Nodes, NEW i \in Blocks, NEW bm \in Bitmaps,
           InUse(bm) \subseteq Blocks, i \notin InUse(bm)
    PROVE  /\ BitmapSet(bm, i) \in Bitmaps
           /\ InUse(BitmapSet(bm, i)) = InUse(bm) \cup {i}
           /\ InUse(BitmapSet(bm, i)) \subseteq Blocks
           /\ Cardinality(InUse(BitmapSet(bm, i))) = Cardinality(InUse(bm)) + 1
           /\ Cardinality(InUse(bm)) + 1 \in 1 .. MaxBlocks
<1>1. i \in Indices
  BY BlocksAreIndices
<1>2. BitmapSet(bm, i) \in Bitmaps /\ InUse(BitmapSet(bm, i)) = InUse(bm) \cup {i}
  BY <1>1, SetMarks
<1>3. IsFiniteSet(InUse(bm)) /\ Cardinality(InUse(bm)) \in 0 .. MaxBlocks
  BY MarksCount
<1>4. Cardinality(InUse(BitmapSet(bm, i))) = Cardinality(InUse(bm)) + 1
  BY <1>2, <1>3, FS_AddElement
<1>5. Cardinality(InUse(BitmapSet(bm, i))) \in 0 .. MaxBlocks
  BY MarksCount
<1> QED BY <1>2, <1>3, <1>4, <1>5, SlabSize

(* Block i of slab n is in use no more. *)
LEMMA OneLess ==
    ASSUME NEW bm \in Bitmaps, NEW i \in InUse(bm)
    PROVE  /\ BitmapClear(bm, i) \in Bitmaps
           /\ InUse(BitmapClear(bm, i)) = InUse(bm) \ {i}
           /\ Cardinality(InUse(BitmapClear(bm, i))) = Cardinality(InUse(bm)) - 1
           /\ Cardinality(InUse(bm)) - 1 \in 0 .. MaxBlocks
           /\ Cardinality(InUse(bm)) = 1 => InUse(bm) = {i}
<1>1. IsFiniteSet(InUse(bm)) /\ Cardinality(InUse(bm)) \in 0 .. MaxBlocks /\ i \in Indices
  BY MarksCount
<1>2. BitmapClear(bm, i) \in Bitmaps /\ InUse(BitmapClear(bm, i)) = InUse(bm) \ {i}
  BY <1>1, ClearFrees
<1>3. Cardinality(InUse(BitmapClear(bm, i))) = Cardinality(InUse(bm)) - 1
  BY <1>1, <1>2, FS_RemoveElement
<1>4. Cardinality(InUse(BitmapClear(bm, i))) \in 0 .. MaxBlocks
  BY MarksCount
<1>5. ASSUME Cardinality(InUse(bm)) = 1 PROVE InUse(bm) = {i}
  <2>1. Cardinality(InUse(bm) \ {i}) = 0 /\ IsFiniteSet(InUse(bm) \ {i})
    BY <1>1, <1>5, FS_RemoveElement
  <2>2. InUse(bm) \ {i} = {}
    BY <2>1, FS_EmptySet
  <2> QED BY <2>2
<1> QED BY <1>2, <1>3, <1>4, <1>5

(* held follows a block that comes into use: in slab n, whose bitmap was or *)
(* is set to be B                                                           *)
LEMMA HeldMore ==
    ASSUME MarkInv, NEW n \in Nodes, NEW i \in Blocks, NEW B,
           Listed' = Listed \cup {n},
           n \in Listed => bitmap[n] = B,
           n \notin Listed => InUse(B) = {},
           \A m \in Listed : m # n => bitmap'[m] = bitmap[m],
           InUse(bitmap'[n]) = InUse(B) \cup {i},
           held' = held \cup {Ptr(n, i)}, blocks_per_slab' = blocks_per_slab
    PROVE  \A ptr : ptr \in held' <=> \E m \in Listed' : \E j \in InUse(bitmap'[m]) : ptr = Ptr(m, j)'
<1>1. \A m, j : Ptr(m, j)' = Ptr(m, j)
  BY DEF Ptr, IndexToPtr, RawMemory, SlabMemorySize
<1>2. ASSUME NEW ptr, NEW m \in Listed, NEW j \in InUse(bitmap[m]), ptr = Ptr(m, j)
      PROVE  \E l \in Listed' : \E k \in InUse(bitmap'[l]) : ptr = Ptr(l, k)'
  BY <1>1, <1>2
<1>3. \E l \in Listed' : \E k \in InUse(bitmap'[l]) : Ptr(n, i) = Ptr(l, k)'
  BY <1>1
<1>4. ASSUME NEW m \in Listed', NEW j \in InUse(bitmap'[m]) PROVE Ptr(m, j)' \in held'
  <2>1. CASE m = n /\ j = i
    BY <1>1, <2>1
  <2>2. CASE ~ (m = n /\ j = i)
    <3>1. m \in Listed /\ j \in InUse(bitmap[m])
      BY <1>4, <2>2
    <3>2. Ptr(m, j) \in held
      BY <3>1 DEF MarkInv
    <3> QED BY <1>1, <3>2
  <2> QED BY <2>1, <2>2
<1>5. \A ptr \in held : \E m \in Listed : \E j \in InUse(bitmap[m]) : ptr = Ptr(m, j)
  BY DEF MarkInv
<1> QED BY <1>2, <1>3, <1>4, <1>5

(* ... and one that goes out of use, in a slab that may go with it if that  *)
(* was all there was in it.                                                 *)
LEMMA HeldLess ==
    ASSUME TypeOK, HasSize, MarkInv, NEW n \in Listed, NEW i \in InUse(bitmap[n]),
           \/ Listed' = Listed
           \/ Listed' = Listed \ {n} /\ InUse(bitmap[n]) = {i},
           \A m \in Listed : m # n => bitmap'[m] = bitmap[m],
           InUse(bitmap'[n]) = InUse(bitmap[n]) \ {i},
           held' = held \ {Ptr(n, i)}, blocks_per_slab' = blocks_per_slab
    PROVE  \A ptr : ptr \in held' <=> \E m \in Listed' : \E j \in InUse(bitmap'[m]) : ptr = Ptr(m, j)'
<1>1. \A m, j : Ptr(m, j)' = Ptr(m, j)
  BY DEF Ptr, IndexToPtr, RawMemory, SlabMemorySize
<1>2. \A m \in Listed : m \in Nodes /\ InUse(bitmap[m]) \subseteq Blocks
  BY Finite DEF MarkInv
<1>3. ASSUME NEW ptr \in held'
      PROVE  \E m \in Listed' : \E j \in InUse(bitmap'[m]) : ptr = Ptr(m, j)'
  <2>0. PICK m \in Listed : \E j \in InUse(bitmap[m]) : ptr = Ptr(m, j)
    BY <1>3 DEF MarkInv
  <2>1. PICK j \in InUse(bitmap[m]) : ptr = Ptr(m, j)
    BY <2>0
  <2>2. ~ (m = n /\ j = i)
    BY <1>3, <2>1
  <2>3. m \in Listed' /\ j \in InUse(bitmap'[m])
    BY <2>1, <2>2
  <2> QED BY <1>1, <2>1, <2>3
<1>4. ASSUME NEW m \in Listed', NEW j \in InUse(bitmap'[m]) PROVE Ptr(m, j)' \in held'
  <2>1. m \in Listed /\ j \in InUse(bitmap[m]) /\ ~ (m = n /\ j = i)
    BY <1>4
  <2>2. Ptr(m, j) \in held
    BY <2>1 DEF MarkInv
  <2>3. Ptr(m, j) # Ptr(n, i)
    BY <1>2, <2>1, AddressesDiffer
  <2> QED BY <1>1, <2>2, <2>3
<1> QED BY <1>3, <1>4

-----------------------------------------------------------------------------
(* The steps *)

(* cfiber_multislab_init_ext *)
LEMMA InitStep ==
    ASSUME IInv, NEW count \in BlockCounts, NEW limit \in MaxSlabs, NEW reserve \in Reserves,
           MultislabInit(count, limit, reserve)
    PROVE  IInv'
<1>1. ~ inited /\ active = <<>> /\ full = <<>> /\ TypeOK /\ ListInv /\ MarkInv /\ CountInv
  BY DEF MultislabInit, IInv, ConfInv
<1>2. Listed = {} /\ Listed' = {} /\ Range(full) = {} /\ UNCHANGED <<active, full>>
  BY <1>1 DEF MultislabInit, Listed, Range
<1>3. TypeOK'
  BY <1>1 DEF MultislabInit, TypeOK, nodeVars, Pointers
<1>4. count \in 1 .. MaxBlocks
  BY MultislabAssumption
<1>5. ConfInv'
  BY <1>4 DEF MultislabInit, ConfInv, HasSize
<1>6. ListInv'
  BY <1>1, <1>2 DEF MultislabInit, ListInv, nodeVars
<1>7. MarkInv'
  <2>1. held' = {}
    BY <1>1, <1>2 DEF MultislabInit, MarkInv
  <2> QED BY <1>2, <2>1 DEF MarkInv
<1>8. CountInv'
  <2>1. Empties' = {} /\ Empties = {}
    BY <1>2 DEF Empties
  <2>2. Cardinality(Empties) = 0
    BY <2>1, FS_EmptySet
  <2>3. empty_count' = 0
    BY <1>1, <2>2 DEF CountInv, MultislabInit
  <2>4. empty_count' <= 1
    BY <2>3
  <2> QED BY <1>1, <1>2, <2>1, <2>4 DEF CountInv, MultislabInit
<1> QED BY <1>3, <1>5, <1>6, <1>7, <1>8 DEF IInv

(* cfiber_multislab_alloc from a slab of the active list *)
LEMMA AllocActiveStep ==
    ASSUME IInv, AllocActive
    PROVE  IInv'
<1> DEFINE n == Head(Rest)
           i == Free(n)
<1>1. TypeOK /\ ConfInv /\ ListInv /\ MarkInv /\ CountInv /\ inited /\ HasSize
  BY DEF IInv, AllocActive, ConfInv
<1>2. /\ TwoLists(Rest, full') /\ Listed = Range(Rest) \cup Range(full')
      /\ is_full' \in [Nodes -> BOOLEAN]
      /\ \A m \in Nodes : is_full'[m] <=> m \in Range(full')
      /\ \A m \in Range(full') : m \in Nodes /\ Blocks \subseteq InUse(bitmap[m])
      /\ n \in Range(Rest) /\ n \in Nodes /\ i \in Blocks /\ i \notin InUse(bitmap[n])
  BY <1>1, Walk DEF AllocActive
<1>3. /\ active' = Rest
      /\ bitmap' = [bitmap EXCEPT ![n] = BitmapSet(bitmap[n], i)]
      /\ held' = held \cup {Ptr(n, i)}
      /\ used_count' = [used_count EXCEPT ![n] = used_count[n] + 1]
      /\ empty_count' = IF used_count[n] = 0 THEN empty_count - 1 ELSE empty_count
      /\ UNCHANGED <<confVars, slab_count, mem>>
  BY DEF AllocActive, HandOut, Ptr
<1> HIDE DEF n, i
<1>4. Listed' = Listed /\ n \in Listed /\ n \notin Range(full')
  BY <1>2, <1>3 DEF Listed, TwoLists
<1>5. bitmap[n] \in Bitmaps /\ InUse(bitmap[n]) \subseteq Blocks /\ used_count[n] = Cardinality(InUse(bitmap[n]))
  BY <1>1, <1>2, <1>4 DEF TypeOK, MarkInv
<1>6. /\ BitmapSet(bitmap[n], i) \in Bitmaps
      /\ InUse(BitmapSet(bitmap[n], i)) = InUse(bitmap[n]) \cup {i}
      /\ InUse(BitmapSet(bitmap[n], i)) \subseteq Blocks
      /\ Cardinality(InUse(BitmapSet(bitmap[n], i))) = used_count[n] + 1
      /\ used_count[n] + 1 \in 1 .. MaxBlocks
  BY <1>1, <1>2, <1>5, OneMore
<1>7. /\ bitmap'[n] = BitmapSet(bitmap[n], i) /\ used_count'[n] = used_count[n] + 1
      /\ \A m \in Nodes : m # n => bitmap'[m] = bitmap[m] /\ used_count'[m] = used_count[m]
  BY <1>1, <1>2, <1>3 DEF TypeOK
<1>8. Blocks' = Blocks /\ blocks_per_slab' = blocks_per_slab
  BY <1>3 DEF confVars, Blocks
<1>9. \A ptr : ptr \in held' <=> \E m \in Listed' : \E j \in InUse(bitmap'[m]) : ptr = Ptr(m, j)'
  <2>1. Listed' = Listed \cup {n} /\ \A m \in Listed : m # n => bitmap'[m] = bitmap[m]
    BY <1>1, <1>4, <1>7, Finite
  <2> QED BY <1>1, <1>2, <1>3, <1>4, <1>6, <1>7, <1>8, <2>1, HeldMore
<1>10. MarkInv'
  <2>1. \A m \in Listed : /\ InUse(bitmap'[m]) \subseteq Blocks
                          /\ used_count'[m] = Cardinality(InUse(bitmap'[m]))
    BY <1>1, <1>6, <1>7, Finite DEF MarkInv
  <2>2. \A m \in Range(full') : Blocks \subseteq InUse(bitmap'[m])
    BY <1>2, <1>4, <1>7
  <2> QED BY <1>4, <1>8, <1>9, <2>1, <2>2 DEF MarkInv
<1>11. Empties' = Empties \ {n}
  <2>1. \A m \in Listed : used_count'[m] = 0 <=> used_count[m] = 0 /\ m # n
    BY <1>1, <1>6, <1>7, Finite
  <2> QED BY <1>4, <2>1 DEF Empties
<1>12. n \in Empties <=> used_count[n] = 0
  BY <1>4 DEF Empties
<1>13. empty_count' = Cardinality(Empties') /\ empty_count' \in Nat /\ empty_count' <= empty_count
  <2>1. Cardinality(Empties') = IF n \in Empties THEN Cardinality(Empties) - 1 ELSE Cardinality(Empties)
    BY <1>1, <1>11, Finite, FS_RemoveElement
  <2>2. empty_count = Cardinality(Empties) /\ Cardinality(Empties) \in Nat
    BY <1>1, Finite DEF CountInv
  <2>3. empty_count' = Cardinality(Empties')
    BY <1>3, <1>12, <2>1, <2>2
  <2>4. IsFiniteSet(Empties')
    BY <1>1, <1>11, Finite, FS_RemoveElement
  <2>5. Cardinality(Empties') \in Nat
    BY <2>4, FS_CardinalityType
  <2> QED BY <2>1, <2>2, <2>3, <2>5
<1>14. CountInv'
  <2>1. max_empty_reserve' = max_empty_reserve /\ max_empty_reserve \in Nat /\ empty_count \in Nat
    BY <1>1, <1>3, MultislabAssumption DEF confVars, TypeOK
  <2> QED BY <1>1, <1>3, <1>4, <1>13, <2>1 DEF CountInv
<1>15. TypeOK'
  <2>1. active' \in Seq(Nodes) /\ full' \in Seq(Nodes)
    BY <1>2, <1>3 DEF TwoLists
  <2>2. bitmap' \in [Nodes -> Bitmaps]
    BY <1>1, <1>3, <1>6 DEF TypeOK
  <2>3. used_count' \in [Nodes -> 0 .. MaxBlocks]
    <3>1. used_count[n] + 1 \in 0 .. MaxBlocks
      BY <1>1, <1>6, SlabSize
    <3> QED BY <1>1, <1>3, <3>1 DEF TypeOK
  <2>4. held' \subseteq Pointers
    BY <1>1, <1>2, <1>3, BlockAddress DEF TypeOK
  <2> QED BY <1>1, <1>2, <1>3, <1>13, <2>1, <2>2, <2>3, <2>4 DEF TypeOK, confVars, Pointers
<1>16. ConfInv' /\ ListInv'
  BY <1>1, <1>2, <1>3, <1>8 DEF ConfInv, ListInv, confVars, HasSize
<1> QED BY <1>10, <1>14, <1>15, <1>16 DEF IInv

(* ... from a new slab *)
LEMMA AllocGrowStep ==
    ASSUME IInv, NEW n \in Nodes, AllocGrow(n)
    PROVE  IInv'
<1>1. TypeOK /\ ConfInv /\ ListInv /\ MarkInv /\ CountInv /\ inited /\ HasSize
  BY DEF IInv, AllocGrow, ConfInv
<1>2. /\ TwoLists(Rest, full') /\ Listed = Range(Rest) \cup Range(full')
      /\ is_full' \in [Nodes -> BOOLEAN]
      /\ \A m \in Nodes : is_full'[m] <=> m \in Range(full')
      /\ \A m \in Range(full') : m \in Nodes /\ Blocks \subseteq InUse(bitmap[m])
  BY <1>1, Walk DEF AllocGrow
<1>3. /\ Rest = <<>> /\ active' = <<n>> /\ n \notin Listed
      /\ bitmap' = [bitmap EXCEPT ![n] = BitmapSet(EmptyBitmap, 0)]
      /\ held' = held \cup {Ptr(n, 0)}
      /\ used_count' = [used_count EXCEPT ![n] = 1]
      /\ slab_count' = slab_count + 1 /\ mem' = mem + 2
      /\ UNCHANGED <<confVars, empty_count>>
  BY DEF AllocGrow, Ptr
<1>4. Range(<<n>>) = {n} /\ Range(Rest) = {}
  BY <1>3 DEF Range
<1>5. Listed = Range(full') /\ Listed' = Listed \cup {n}
  BY <1>2, <1>3, <1>4 DEF Listed
<1>6. 0 \in Blocks /\ EmptyBitmap \in Bitmaps /\ InUse(EmptyBitmap) = {}
  BY <1>1, BlocksAreIndices, EmptyMarks
<1>7. /\ BitmapSet(EmptyBitmap, 0) \in Bitmaps
      /\ InUse(BitmapSet(EmptyBitmap, 0)) = InUse(EmptyBitmap) \cup {0}
      /\ InUse(BitmapSet(EmptyBitmap, 0)) \subseteq Blocks
      /\ Cardinality(InUse(BitmapSet(EmptyBitmap, 0))) = 1
      /\ 1 \in 0 .. MaxBlocks
  <2>1. Cardinality(InUse(EmptyBitmap)) = 0
    BY <1>6, FS_EmptySet
  <2>2. InUse(EmptyBitmap) \subseteq Blocks /\ 0 \notin InUse(EmptyBitmap)
    BY <1>6
  <2>3. /\ BitmapSet(EmptyBitmap, 0) \in Bitmaps
        /\ InUse(BitmapSet(EmptyBitmap, 0)) = InUse(EmptyBitmap) \cup {0}
        /\ InUse(BitmapSet(EmptyBitmap, 0)) \subseteq Blocks
        /\ Cardinality(InUse(BitmapSet(EmptyBitmap, 0))) = Cardinality(InUse(EmptyBitmap)) + 1
        /\ Cardinality(InUse(EmptyBitmap)) + 1 \in 1 .. MaxBlocks
    BY <1>1, <1>6, <2>2, OneMore
  <2> QED BY <1>1, <2>1, <2>3, SlabSize
<1>8. /\ bitmap'[n] = BitmapSet(EmptyBitmap, 0) /\ used_count'[n] = 1
      /\ \A m \in Nodes : m # n => bitmap'[m] = bitmap[m] /\ used_count'[m] = used_count[m]
  BY <1>1, <1>3 DEF TypeOK
<1>9. Blocks' = Blocks /\ blocks_per_slab' = blocks_per_slab
  BY <1>3 DEF confVars, Blocks
<1>10. \A ptr : ptr \in held' <=> \E m \in Listed' : \E j \in InUse(bitmap'[m]) : ptr = Ptr(m, j)'
  <2>1. \A m \in Listed : m # n => bitmap'[m] = bitmap[m]
    BY <1>1, <1>8, Finite
  <2> QED BY <1>1, <1>3, <1>5, <1>6, <1>7, <1>8, <1>9, <2>1, HeldMore
<1>11. MarkInv'
  <2>1. \A m \in Listed' : /\ InUse(bitmap'[m]) \subseteq Blocks
                           /\ used_count'[m] = Cardinality(InUse(bitmap'[m]))
    BY <1>1, <1>5, <1>7, <1>8, Finite DEF MarkInv
  <2>2. \A m \in Range(full') : Blocks \subseteq InUse(bitmap'[m])
    BY <1>2, <1>3, <1>5, <1>8
  <2> QED BY <1>9, <1>10, <2>1, <2>2 DEF MarkInv
<1>12. Empties' = Empties
  <2>1. \A m \in Listed : used_count'[m] = used_count[m]
    BY <1>1, <1>3, <1>8, Finite
  <2> QED BY <1>5, <1>8, <2>1 DEF Empties
<1>13. Cardinality(Listed') = Cardinality(Listed) + 1 /\ Cardinality(Listed) \in Nat
  BY <1>1, <1>3, <1>5, Finite, FS_AddElement
<1>14. CountInv'
  <2>1. max_empty_reserve' = max_empty_reserve /\ empty_count' = empty_count
    BY <1>3 DEF confVars
  <2> QED BY <1>1, <1>3, <1>12, <1>13, <2>1 DEF CountInv
<1>15. TypeOK'
  <2>1. active' \in Seq(Nodes) /\ full' \in Seq(Nodes)
    BY <1>2, <1>3 DEF TwoLists
  <2>2. bitmap' \in [Nodes -> Bitmaps]
    BY <1>1, <1>3, <1>7 DEF TypeOK
  <2>3. used_count' \in [Nodes -> 0 .. MaxBlocks]
    BY <1>1, <1>3, <1>7 DEF TypeOK
  <2>4. held' \subseteq Pointers
    BY <1>1, <1>3, <1>6, BlockAddress DEF TypeOK
  <2>5. slab_count' \in Nat /\ mem' \in Nat
    BY <1>1, <1>3 DEF TypeOK
  <2> QED BY <1>1, <1>2, <1>3, <2>1, <2>2, <2>3, <2>4, <2>5 DEF TypeOK, confVars, Pointers
<1>16. ListInv'
  <2>1. active' \in Seq(Nodes) /\ IsInjective(active') /\ Range(active') = {n}
    BY <1>3, <1>4 DEF IsInjective
  <2> QED BY <1>2, <1>3, <1>5, <2>1 DEF ListInv, TwoLists
<1>17. ConfInv'
  BY <1>1, <1>3, <1>9 DEF ConfInv, confVars, HasSize
<1> QED BY <1>11, <1>14, <1>15, <1>16, <1>17 DEF IInv

(* ... and in vain: the full slabs have moved all the same *)
LEMMA AllocFailsStep ==
    ASSUME IInv, AllocFails
    PROVE  IInv'
<1>1. TypeOK /\ ConfInv /\ ListInv /\ MarkInv /\ CountInv /\ inited /\ HasSize
  BY DEF IInv, AllocFails, ConfInv
<1>2. /\ TwoLists(Rest, full') /\ Listed = Range(Rest) \cup Range(full')
      /\ is_full' \in [Nodes -> BOOLEAN]
      /\ \A m \in Nodes : is_full'[m] <=> m \in Range(full')
      /\ \A m \in Range(full') : m \in Nodes /\ Blocks \subseteq InUse(bitmap[m])
  BY <1>1, Walk DEF AllocFails
<1>3. /\ Rest = <<>> /\ active' = Rest
      /\ UNCHANGED <<confVars, slab_count, empty_count, bitmap, used_count, mem, held>>
  BY DEF AllocFails
<1>4. Listed' = Listed
  BY <1>2, <1>3 DEF Listed
<1>5. Empties' = Empties /\ Blocks' = Blocks /\ \A m, j : Ptr(m, j)' = Ptr(m, j)
  BY <1>3, <1>4 DEF Empties, Blocks, Ptr, IndexToPtr, RawMemory, SlabMemorySize, confVars
<1>6. MarkInv'
  <2>1. \A m \in Listed' : /\ InUse(bitmap'[m]) \subseteq Blocks
                           /\ used_count'[m] = Cardinality(InUse(bitmap'[m]))
    BY <1>1, <1>3, <1>4 DEF MarkInv
  <2>2. \A ptr : ptr \in held' <=> \E m \in Listed' : \E j \in InUse(bitmap'[m]) : ptr = Ptr(m, j)'
    BY <1>1, <1>3, <1>4, <1>5 DEF MarkInv
  <2>3. \A m \in Range(full') : Blocks \subseteq InUse(bitmap'[m])
    BY <1>2, <1>3
  <2> QED BY <1>5, <2>1, <2>2, <2>3 DEF MarkInv
<1>7. CountInv'
  BY <1>1, <1>3, <1>4, <1>5 DEF CountInv, confVars
<1>8. TypeOK'
  BY <1>1, <1>2, <1>3 DEF TypeOK, confVars, Pointers, TwoLists
<1>9. ListInv' /\ ConfInv'
  BY <1>1, <1>2, <1>3 DEF ListInv, ConfInv, confVars, HasSize
<1> QED BY <1>6, <1>7, <1>8, <1>9 DEF IInv

(* The lists after a release in n: it leaves the full list, and is put on   *)
(* the active one or goes back.                                             *)
LEMMA ReleaseLists ==
    ASSUME TypeOK, ListInv, NEW n \in Listed,
           is_full' = [is_full EXCEPT ![n] = FALSE],
           full' = IF is_full[n] THEN RemoveFirst(full, n) ELSE full,
           active' = ActiveWith(n) \/ active' = RemoveFirst(active, n)
    PROVE  /\ TwoLists(active', full') /\ Range(full') = Range(full) \ {n}
           /\ is_full' \in [Nodes -> BOOLEAN]
           /\ \A m \in Nodes : is_full'[m] <=> m \in Range(full')
           /\ active' = ActiveWith(n) => Listed' = Listed
           /\ active' = RemoveFirst(active, n) => Listed' = Listed \ {n}
<1>1. n \in Nodes /\ TwoLists(active, full)
  BY Finite DEF ListInv
<1>2. active \in Seq(Nodes) /\ full \in Seq(Nodes) /\ IsInjective(active) /\ IsInjective(full)
      /\ Range(active) \cap Range(full) = {}
  BY <1>1 DEF TwoLists
<1>3. is_full[n] <=> n \in Range(full)
  BY <1>1 DEF ListInv
<1>4. full' \in Seq(Nodes) /\ IsInjective(full') /\ Range(full') = Range(full) \ {n}
  <2>1. CASE is_full[n]
    BY <1>2, <2>1, RemoveFirstIs
  <2>2. CASE ~ is_full[n]
    BY <1>2, <1>3, <2>2
  <2> QED BY <2>1, <2>2
<1>5. is_full' \in [Nodes -> BOOLEAN] /\ \A m \in Nodes : is_full'[m] <=> m \in Range(full')
  <2>1. \A m \in Nodes : is_full'[m] = IF m = n THEN FALSE ELSE is_full[m]
    BY DEF TypeOK
  <2>2. is_full' \in [Nodes -> BOOLEAN]
    BY DEF TypeOK
  <2> QED BY <1>4, <2>1, <2>2 DEF ListInv
<1>6. CASE active' = ActiveWith(n)
  <2>1. /\ active' \in Seq(Nodes) /\ IsInjective(active')
        /\ Range(active') = IF is_full[n] THEN Range(active) \cup {n} ELSE Range(active)
    <3>1. CASE is_full[n]
      <4>1. active' = <<n>> \o active /\ n \notin Range(active)
        BY <1>2, <1>3, <1>6, <3>1 DEF ActiveWith
      <4> QED BY <1>1, <1>2, <3>1, <4>1, PushIs
    <3>2. CASE ~ is_full[n]
      BY <1>2, <1>6, <3>2 DEF ActiveWith
    <3> QED BY <3>1, <3>2
  <2>2. Range(active') \cap Range(full') = {} /\ Range(active') \cup Range(full') = Listed
    BY <1>2, <1>3, <1>4, <2>1 DEF Listed
  <2>3. active' = RemoveFirst(active, n) => Listed' = Listed \ {n}
    <3>1. Range(RemoveFirst(active, n)) = Range(active) \ {n}
      BY <1>2, RemoveFirstIs
    <3> QED BY <1>4, <3>1 DEF Listed
  <2> QED BY <1>4, <1>5, <2>1, <2>2, <2>3 DEF TwoLists, Listed
<1>7. CASE active' = RemoveFirst(active, n) /\ active' # ActiveWith(n)
  <2>1. active' \in Seq(Nodes) /\ IsInjective(active') /\ Range(active') = Range(active) \ {n}
    BY <1>2, <1>7, RemoveFirstIs
  <2>2. Range(active') \cap Range(full') = {} /\ Listed' = Listed \ {n}
    BY <1>2, <1>4, <2>1 DEF Listed
  <2> QED BY <1>4, <1>5, <1>7, <2>1, <2>2 DEF TwoLists
<1> QED BY <1>6, <1>7

(* cfiber_multislab_release of a block in use *)
LEMMA ReleaseStep ==
    ASSUME IInv, NEW ptr \in Pointers, Release(ptr)
    PROVE  IInv'
<1> DEFINE n == Owning(ptr)
           i == PtrToIndex(RawMemory(n), ptr)
<1>1. TypeOK /\ ConfInv /\ ListInv /\ MarkInv /\ CountInv /\ inited /\ HasSize
  BY DEF IInv, Release, ConfInv
<1>2. n \in Listed /\ n \in Nodes /\ i \in Blocks /\ i \in InUse(bitmap[n]) /\ ptr = Ptr(n, i)
  BY <1>1, ReleasedBlock DEF Release
<1>3. /\ bitmap' = [bitmap EXCEPT ![n] = BitmapClear(bitmap[n], i)]
      /\ used_count' = [used_count EXCEPT ![n] = used_count[n] - 1]
      /\ is_full' = [is_full EXCEPT ![n] = FALSE]
      /\ full' = IF is_full[n] THEN RemoveFirst(full, n) ELSE full
      /\ held' = held \ {ptr} /\ UNCHANGED confVars
      /\ \/ /\ GivesBack(n)
            /\ active' = RemoveFirst(active, n)
            /\ slab_count' = slab_count - 1 /\ mem' = mem - 2
            /\ empty_count' = empty_count
         \/ /\ ~ GivesBack(n)
            /\ active' = ActiveWith(n)
            /\ empty_count' = IF used_count[n] = 1 THEN empty_count + 1 ELSE empty_count
            /\ slab_count' = slab_count /\ mem' = mem
  BY DEF Release
<1> HIDE DEF n, i
<1>4. bitmap[n] \in Bitmaps /\ used_count[n] = Cardinality(InUse(bitmap[n])) /\ InUse(bitmap[n]) \subseteq Blocks
  BY <1>1, <1>2 DEF TypeOK, MarkInv
<1>5. /\ BitmapClear(bitmap[n], i) \in Bitmaps
      /\ InUse(BitmapClear(bitmap[n], i)) = InUse(bitmap[n]) \ {i}
      /\ Cardinality(InUse(BitmapClear(bitmap[n], i))) = used_count[n] - 1
      /\ used_count[n] - 1 \in 0 .. MaxBlocks
      /\ used_count[n] = 1 => InUse(bitmap[n]) = {i}
  BY <1>2, <1>4, OneLess
<1>6. /\ bitmap'[n] = BitmapClear(bitmap[n], i) /\ used_count'[n] = used_count[n] - 1
      /\ \A m \in Nodes : m # n => bitmap'[m] = bitmap[m] /\ used_count'[m] = used_count[m]
  BY <1>1, <1>2, <1>3 DEF TypeOK
<1>7. Blocks' = Blocks /\ blocks_per_slab' = blocks_per_slab /\ max_empty_reserve' = max_empty_reserve
  BY <1>3 DEF confVars, Blocks
<1>8. /\ TwoLists(active', full') /\ Range(full') = Range(full) \ {n}
      /\ is_full' \in [Nodes -> BOOLEAN]
      /\ \A m \in Nodes : is_full'[m] <=> m \in Range(full')
      /\ active' = ActiveWith(n) => Listed' = Listed
      /\ active' = RemoveFirst(active, n) => Listed' = Listed \ {n}
  <2>1. active' = ActiveWith(n) \/ active' = RemoveFirst(active, n)
    BY <1>3
  <2> QED BY <1>1, <1>2, <1>3, <2>1, ReleaseLists
<1>9. \A p : p \in held' <=> \E m \in Listed' : \E j \in InUse(bitmap'[m]) : p = Ptr(m, j)'
  <2>1. \/ Listed' = Listed
        \/ Listed' = Listed \ {n} /\ InUse(bitmap[n]) = {i}
    BY <1>3, <1>5, <1>8 DEF GivesBack
  <2>2. \A m \in Listed : m # n => bitmap'[m] = bitmap[m]
    BY <1>1, <1>6, Finite
  <2>3. InUse(bitmap'[n]) = InUse(bitmap[n]) \ {i} /\ held' = held \ {Ptr(n, i)}
    BY <1>2, <1>3, <1>5, <1>6
  <2> QED BY <1>1, <1>2, <1>7, <2>1, <2>2, <2>3, HeldLess
<1>10. MarkInv'
  <2>1. \A m \in Listed' : /\ InUse(bitmap'[m]) \subseteq Blocks
                           /\ used_count'[m] = Cardinality(InUse(bitmap'[m]))
    <3> SUFFICES ASSUME NEW m \in Listed' PROVE /\ InUse(bitmap'[m]) \subseteq Blocks
                                                /\ used_count'[m] = Cardinality(InUse(bitmap'[m]))
      OBVIOUS
    <3>1. m \in Listed /\ m \in Nodes
      BY <1>1, <1>3, <1>8, Finite
    <3>2. CASE m = n
      BY <1>4, <1>5, <1>6, <3>2
    <3>3. CASE m # n
      BY <1>1, <1>6, <3>1, <3>3 DEF MarkInv
    <3> QED BY <3>2, <3>3
  <2>2. \A m \in Range(full') : Blocks \subseteq InUse(bitmap'[m])
    <3> SUFFICES ASSUME NEW m \in Range(full') PROVE Blocks \subseteq InUse(bitmap'[m])
      OBVIOUS
    <3>1. m \in Range(full) /\ m # n /\ m \in Nodes
      BY <1>1, <1>8, Finite DEF Listed
    <3> QED BY <1>1, <1>6, <3>1 DEF MarkInv
  <2> QED BY <1>7, <1>9, <2>1, <2>2 DEF MarkInv
<1>11. /\ IsFiniteSet(Listed) /\ Cardinality(Listed) \in Nat /\ IsFiniteSet(Empties)
       /\ Cardinality(Empties) \in Nat /\ empty_count = Cardinality(Empties)
       /\ slab_count = Cardinality(Listed) /\ mem = 2 * Cardinality(Listed)
  BY <1>1, Finite DEF CountInv
<1>12. \A m \in Listed : used_count'[m] = 0 <=> (m # n /\ used_count[m] = 0) \/ (m = n /\ used_count[n] = 1)
  <2> SUFFICES ASSUME NEW m \in Listed
               PROVE  used_count'[m] = 0 <=> (m # n /\ used_count[m] = 0) \/ (m = n /\ used_count[n] = 1)
    OBVIOUS
  <2>1. m \in Nodes /\ used_count[n] \in Nat
    BY <1>1, <1>2, Finite, SlabSize DEF TypeOK
  <2> QED BY <1>6, <2>1
<1>13. used_count[n] # 0 /\ n \notin Empties
  <2>1. used_count[n] # 0
    BY <1>1, <1>2, <1>5, SlabSize DEF TypeOK
  <2> QED BY <2>1 DEF Empties
<1>14. CountInv' /\ slab_count' \in Nat /\ mem' \in Nat /\ empty_count' \in Nat
  <2>1. CASE GivesBack(n)
    <3>1. Listed' = Listed \ {n} /\ slab_count' = slab_count - 1 /\ mem' = mem - 2 /\ empty_count' = empty_count
      BY <1>3, <1>8, <2>1
    <3>2. Empties' = Empties
      BY <1>12, <1>13, <3>1 DEF Empties
    <3>3. Cardinality(Listed') = Cardinality(Listed) - 1 /\ IsFiniteSet(Listed')
      BY <1>2, <1>11, <3>1, FS_RemoveElement
    <3>4. Cardinality(Listed') \in Nat
      BY <3>3, FS_CardinalityType
    <3> QED BY <1>1, <1>7, <1>11, <3>1, <3>2, <3>3, <3>4 DEF CountInv
  <2>2. CASE ~ GivesBack(n) /\ used_count[n] = 1
    <3>1. Listed' = Listed /\ slab_count' = slab_count /\ mem' = mem /\ empty_count' = empty_count + 1
      BY <1>3, <1>8, <2>2
    <3>2. Empties' = Empties \cup {n}
      BY <1>2, <1>12, <2>2, <3>1 DEF Empties
    <3>3. Cardinality(Empties') = Cardinality(Empties) + 1
      BY <1>11, <1>13, <3>2, FS_AddElement
    <3>4. empty_count + 1 <= max_empty_reserve \/ empty_count + 1 <= 1
      <4>1. CASE empty_count + 1 <= max_empty_reserve
        BY <4>1
      <4>2. CASE ~ (empty_count + 1 <= max_empty_reserve)
        <5>1. max_empty_reserve \in Nat
          BY <1>1, MultislabAssumption DEF TypeOK
        <5>2. Cardinality(Listed) <= 1
          BY <1>11, <2>2, <4>2, <5>1 DEF GivesBack
        <5>3. Empties' \subseteq Listed
          BY <1>2, <3>2 DEF Empties
        <5>4. Cardinality(Empties') <= Cardinality(Listed)
          BY <1>11, <5>3, FS_Subset
        <5> QED BY <1>11, <3>3, <5>2, <5>4
      <4> QED BY <4>1, <4>2
    <3> QED BY <1>7, <1>11, <3>1, <3>3, <3>4 DEF CountInv
  <2>3. CASE ~ GivesBack(n) /\ used_count[n] # 1
    <3>1. Listed' = Listed /\ slab_count' = slab_count /\ mem' = mem /\ empty_count' = empty_count
      BY <1>3, <1>8, <2>3
    <3>2. Empties' = Empties
      BY <1>12, <1>13, <2>3, <3>1 DEF Empties
    <3> QED BY <1>1, <1>7, <1>11, <3>1, <3>2 DEF CountInv
  <2> QED BY <2>1, <2>2, <2>3
<1>15. TypeOK'
  <2>1. active' \in Seq(Nodes) /\ full' \in Seq(Nodes)
    BY <1>8 DEF TwoLists
  <2>2. bitmap' \in [Nodes -> Bitmaps]
    BY <1>1, <1>3, <1>5 DEF TypeOK
  <2>3. used_count' \in [Nodes -> 0 .. MaxBlocks]
    BY <1>1, <1>3, <1>5 DEF TypeOK
  <2>4. held' \subseteq Pointers
    BY <1>1, <1>3 DEF TypeOK
  <2> QED BY <1>1, <1>3, <1>8, <1>14, <2>1, <2>2, <2>3, <2>4 DEF TypeOK, confVars, Pointers
<1>16. ConfInv' /\ ListInv'
  BY <1>1, <1>3, <1>7, <1>8 DEF ConfInv, ListInv, confVars, HasSize
<1> QED BY <1>10, <1>14, <1>15, <1>16 DEF IInv

(* The state before cfiber_multislab_init and after cfiber_multislab_destroy *)
Cleared ==
    /\ inited = FALSE /\ blocks_per_slab = 0 /\ max_slabs = 0 /\ max_empty_reserve = 0
    /\ active = <<>> /\ full = <<>> /\ slab_count = 0 /\ empty_count = 0
    /\ bitmap = [n \in Nodes |-> EmptyBitmap]
    /\ used_count = [n \in Nodes |-> 0]
    /\ is_full = [n \in Nodes |-> FALSE]
    /\ mem = 0 /\ held = {}

(* It is a state of the invariant, *)
LEMMA ClearedIInv == Cleared => IInv
<1> SUFFICES ASSUME Cleared PROVE IInv
  OBVIOUS
<1>1. Range(active) = {} /\ Range(full) = {} /\ Listed = {} /\ Empties = {}
  BY DEF Cleared, Listed, Range, Empties
<1>2. MaxBlocks \in Nat
  BY Sizes, Z3 DEF MaxBlocks
<1>3. TypeOK
  <2>1. bitmap \in [Nodes -> Bitmaps] /\ used_count \in [Nodes -> 0 .. MaxBlocks]
        /\ is_full \in [Nodes -> BOOLEAN]
    BY <1>2, EmptyMarks DEF Cleared
  <2>2. active \in Seq(Nodes) /\ full \in Seq(Nodes)
    BY DEF Cleared
  <2>3. inited \in BOOLEAN /\ slab_count \in Nat /\ empty_count \in Nat /\ mem \in Nat
        /\ held \subseteq Pointers
    BY DEF Cleared
  <2>4. blocks_per_slab \in {0} /\ max_slabs \in {0} /\ max_empty_reserve \in {0}
    BY DEF Cleared
  <2> QED BY <2>1, <2>2, <2>3, <2>4 DEF TypeOK
<1>4. ListInv
  BY <1>1 DEF Cleared, ListInv, TwoLists, IsInjective
<1>5. MarkInv
  BY <1>1 DEF Cleared, MarkInv
<1>6. CountInv
  BY <1>1, FS_EmptySet DEF Cleared, CountInv
<1> QED BY <1>3, <1>4, <1>5, <1>6 DEF IInv, ConfInv, Cleared

(* ... also after a step, *)
LEMMA ClearedAfter == Cleared' => IInv'
BY ClearedIInv, PTL

(* and cfiber_multislab_destroy returns to such a state. *)
LEMMA DestroyStep ==
    ASSUME IInv, MultislabDestroy
    PROVE  IInv'
<1>1. mem = 2 * Cardinality(Listed) /\ Cardinality(Listed) \in Nat
  BY Finite DEF IInv, CountInv
<1>2. Cleared'
  BY <1>1 DEF MultislabDestroy, Cleared
<1> QED BY <1>2, ClearedAfter

(* Every step keeps the invariant. *)
LEMMA NextIInv == IInv /\ [Next]_vars => IInv'
<1> SUFFICES ASSUME IInv, [Next]_vars PROVE IInv'
  OBVIOUS
<1>1. ASSUME NEW count \in BlockCounts, NEW limit \in MaxSlabs, NEW reserve \in Reserves,
             MultislabInit(count, limit, reserve)
      PROVE  IInv'
  BY <1>1, InitStep
<1>2. CASE AllocActive
  BY <1>2, AllocActiveStep
<1>3. CASE AllocFails
  BY <1>3, AllocFailsStep
<1>4. ASSUME NEW n \in Nodes, AllocGrow(n) PROVE IInv'
  BY <1>4, AllocGrowStep
<1>5. ASSUME NEW ptr \in Pointers, Release(ptr) PROVE IInv'
  BY <1>5, ReleaseStep
<1>6. CASE MultislabDestroy
  BY <1>6, DestroyStep
<1>7. CASE UNCHANGED vars
  <2>1. Listed' = Listed /\ Empties' = Empties /\ Blocks' = Blocks /\ \A m, j : Ptr(m, j)' = Ptr(m, j)
    BY <1>7 DEF vars, confVars, nodeVars, Listed, Empties, Blocks, Ptr, IndexToPtr, RawMemory, SlabMemorySize
  <2>2. TypeOK' /\ ConfInv' /\ ListInv' /\ CountInv'
    BY <1>7, <2>1 DEF IInv, vars, confVars, nodeVars, TypeOK, ConfInv, ListInv, CountInv, HasSize, Pointers
  <2>3. MarkInv'
    BY <1>7, <2>1 DEF IInv, vars, nodeVars, MarkInv
  <2> QED BY <2>2, <2>3 DEF IInv
<1> QED BY <1>1, <1>2, <1>3, <1>4, <1>5, <1>6, <1>7 DEF Next

(* The invariant holds whatever is allocated, released or refused. *)
THEOREM Invariance == Spec => []IInv
<1>1. Init => IInv
  BY ClearedIInv DEF Init, Cleared
<1> QED BY <1>1, NextIInv, PTL DEF Spec

-----------------------------------------------------------------------------
(* The properties *)

(* A block of a listed slab is in use exactly if its bit is set. *)
LEMMA HeldIffMarked ==
    ASSUME IInv, NEW n \in Listed, NEW i \in Blocks
    PROVE  HasSize /\ (Ptr(n, i) \in held <=> i \in InUse(bitmap[n]))
<1>1. TypeOK /\ ConfInv /\ MarkInv
  BY DEF IInv
<1>2. HasSize
  BY <1>1 DEF ConfInv, Listed, Range
<1>3. i \in InUse(bitmap[n]) => Ptr(n, i) \in held
  BY <1>1 DEF MarkInv
<1>4. ASSUME Ptr(n, i) \in held PROVE i \in InUse(bitmap[n])
  <2>1. PICK m \in Listed : \E j \in InUse(bitmap[m]) : Ptr(n, i) = Ptr(m, j)
    BY <1>1, <1>4 DEF MarkInv
  <2>2. PICK j \in InUse(bitmap[m]) : Ptr(n, i) = Ptr(m, j)
    BY <2>1
  <2>3. n \in Nodes /\ m \in Nodes /\ j \in Blocks
    BY <1>1, <2>2, Finite DEF MarkInv
  <2>4. n = m /\ i = j
    BY <1>2, <2>2, <2>3, AddressesDiffer
  <2> QED BY <2>2, <2>4
<1> QED BY <1>2, <1>3, <1>4

(* bitmap_find_free and cfiber_slab_alloc: the search finds a free block    *)
(* exactly when the slab has one, and then the one with the least index,    *)
(* whether or not the blocks fill the last word, for words of every size.   *)
THEOREM SearchFindsLeast == Spec => []FindsLeastFree
<1>1. ASSUME IInv PROVE FindsLeastFree
  <2> SUFFICES ASSUME NEW n \in Listed
               PROVE  LET free == {i \in 0 .. blocks_per_slab - 1 :
                                      IndexToPtr(RawMemory(n), i) \notin held}
                      IN  Free(n) = IF free = {} THEN NotFound ELSE Min(free)
    BY DEF FindsLeastFree
  <2> DEFINE free == {i \in 0 .. blocks_per_slab - 1 : IndexToPtr(RawMemory(n), i) \notin held}
  <2>1. TypeOK /\ ConfInv /\ n \in Nodes
    BY <1>1, Finite DEF IInv
  <2>2. HasSize
    BY <2>1 DEF ConfInv, Listed, Range
  <2>3. free = {i \in Blocks : i \notin InUse(bitmap[n])}
    BY <1>1, HeldIffMarked DEF Blocks, Ptr
  <2>4. \/ Free(n) = NotFound /\ Blocks \subseteq InUse(bitmap[n])
        \/ /\ Free(n) \in Blocks /\ Free(n) # NotFound /\ Free(n) \notin InUse(bitmap[n])
           /\ \A i \in 0 .. Free(n) - 1 : i \in InUse(bitmap[n])
    BY <2>1, <2>2, FreeIs
  <2> HIDE DEF free
  <2>5. CASE Free(n) = NotFound /\ Blocks \subseteq InUse(bitmap[n])
    <3>1. free = {}
      BY <2>3, <2>5
    <3> QED BY <2>5, <3>1 DEF free
  <2>6. CASE /\ Free(n) \in Blocks /\ Free(n) # NotFound /\ Free(n) \notin InUse(bitmap[n])
             /\ \A i \in 0 .. Free(n) - 1 : i \in InUse(bitmap[n])
    <3>1. Free(n) \in free /\ free \subseteq Nat
      BY <2>2, <2>3, <2>6, BlocksAreIndices
    <3>2. ASSUME NEW i \in free PROVE Free(n) <= i
      <4>1. i \in Nat /\ Free(n) \in Nat /\ i \notin InUse(bitmap[n])
        BY <2>3, <3>1
      <4> QED BY <2>6, <4>1
    <3>3. Min(free) = Free(n)
      BY <3>1, <3>2, LeastUnique
    <3> QED BY <3>1, <3>3 DEF free
  <2> QED BY <2>4, <2>5, <2>6
<1> QED BY <1>1, Invariance, PTL

(* cfiber_multislab_release: among all addresses in and around the slabs,   *)
(* the blocks in use and no others can be given back.                       *)
THEOREM ReleasesAreExact == Spec => []ReleasesExactlyHeld
<1>1. ASSUME IInv PROVE ReleasesExactlyHeld
  <2> SUFFICES ASSUME NEW ptr \in Pointers PROVE Releases(ptr) <=> ptr \in held
    BY DEF ReleasesExactlyHeld
  <2>1. TypeOK /\ ConfInv /\ MarkInv
    BY <1>1 DEF IInv
  <2>2. \A n \in Listed : HasSize
    BY <2>1 DEF ConfInv, Listed, Range
  <2>3. ASSUME Releases(ptr) PROVE ptr \in held
    <3>1. HasSize
      BY <2>2, <2>3 DEF Releases
    <3>2. /\ Owning(ptr) \in Listed
          /\ PtrToIndex(RawMemory(Owning(ptr)), ptr) \in InUse(bitmap[Owning(ptr)])
          /\ ptr = Ptr(Owning(ptr), PtrToIndex(RawMemory(Owning(ptr)), ptr))
      BY <2>1, <2>3, <3>1, ReleasedBlock
    <3> QED BY <2>1, <3>2 DEF MarkInv
  <2>4. ASSUME ptr \in held PROVE Releases(ptr)
    <3>1. PICK n \in Listed : \E i \in InUse(bitmap[n]) : ptr = Ptr(n, i)
      BY <2>1, <2>4 DEF MarkInv
    <3>2. PICK i \in InUse(bitmap[n]) : ptr = Ptr(n, i)
      BY <3>1
    <3>3. HasSize /\ i \in Blocks
      BY <2>1, <2>2, <3>2 DEF MarkInv
    <3> QED BY <2>1, <3>2, <3>3, BlockReleased
  <2> QED BY <2>3, <2>4
<1> QED BY <1>1, Invariance, PTL

(* The marks of a bitmap by address are as many as by index. *)
LEMMA AddressesCount ==
    ASSUME HasSize, NEW n \in Nodes, NEW bm, InUse(bm) \subseteq Blocks
    PROVE  Cardinality(Marked(bm, RawMemory(n))) = Cardinality(InUse(bm))
<1> DEFINE S == InUse(bm)
           T == Marked(bm, RawMemory(n))
           f == [i \in S |-> Ptr(n, i)]
<1>1. T = {Ptr(n, i) : i \in S}
  BY DEF Marked, Ptr
<1>2. f \in Injection(S, T)
  <2>1. f \in [S -> T]
    BY <1>1
  <2>2. \A i, j \in S : f[i] = f[j] => i = j
    <3> SUFFICES ASSUME NEW i \in S, NEW j \in S, f[i] = f[j] PROVE i = j
      OBVIOUS
    <3>1. i \in Blocks /\ j \in Blocks /\ Ptr(n, i) = Ptr(n, j)
      OBVIOUS
    <3> QED BY <3>1, AddressesDiffer
  <2>3. IsInjective(f)
    BY <2>2 DEF IsInjective
  <2> QED BY <2>1, <2>3 DEF Injection
<1>3. f \in Surjection(S, T)
  BY <1>1 DEF Surjection
<1>4. ExistsBijection(S, T)
  BY <1>2, <1>3 DEF ExistsBijection, Bijection
<1>5. IsFiniteSet(S)
  BY MarksCount
<1> HIDE DEF S, T
<1>6. Cardinality(T) = Cardinality(S)
  BY <1>4, <1>5, FS_Bijection
<1> QED BY <1>6 DEF S, T

(* Two lists that share nothing are one without repetition. *)
LEMMA JoinedOnce ==
    ASSUME NEW a, NEW f, TwoLists(a, f)
    PROVE  IsInjective(a \o f)
<1>1. a \in Seq(Nodes) /\ f \in Seq(Nodes) /\ IsInjective(a) /\ IsInjective(f)
      /\ \A i \in 1 .. Len(a), j \in 1 .. Len(f) : a[i] # f[j]
  BY DEF TwoLists, Range
<1> DEFINE s == a \o f
<1>2. s \in Seq(Nodes) /\ DOMAIN s = 1 .. Len(a) + Len(f)
      /\ \A i \in 1 .. Len(a) + Len(f) : s[i] = IF i <= Len(a) THEN a[i] ELSE f[i - Len(a)]
  BY <1>1, ConcatProperties
<1> HIDE DEF s
<1>3. \A i \in 1 .. Len(a) + Len(f) :
         \/ i <= Len(a) /\ i \in DOMAIN a /\ s[i] = a[i]
         \/ i > Len(a) /\ i - Len(a) \in DOMAIN f /\ s[i] = f[i - Len(a)]
  BY <1>1, <1>2
<1>4. ASSUME NEW i \in 1 .. Len(a) + Len(f), NEW j \in 1 .. Len(a) + Len(f), s[i] = s[j]
      PROVE  i = j
  <2>1. CASE i <= Len(a) /\ j <= Len(a)
    BY <1>1, <1>3, <1>4, <2>1 DEF IsInjective
  <2>2. CASE i > Len(a) /\ j > Len(a)
    <3>1. i - Len(a) = j - Len(a)
      BY <1>1, <1>3, <1>4, <2>2 DEF IsInjective
    <3> QED BY <1>1, <3>1
  <2>3. CASE i <= Len(a) /\ j > Len(a)
    BY <1>1, <1>3, <1>4, <2>3
  <2>4. CASE i > Len(a) /\ j <= Len(a)
    BY <1>1, <1>3, <1>4, <2>4
  <2> QED BY <1>1, <2>1, <2>2, <2>3, <2>4
<1> QED BY <1>2, <1>4 DEF IsInjective, s

(* The comment at multislab_alloc.c:45 and the rest of the allocator's      *)
(* books, over any sequence of calls and failures: empty_count is exact and *)
(* within the reserve, the lists and is_full agree, a slab on the full list *)
(* has no room, and what was got from the backing allocator is listed.      *)
THEOREM BooksAreKept == Spec => []BooksAgree
<1>1. ASSUME IInv PROVE BooksAgree
  <2>1. TypeOK /\ ConfInv /\ ListInv /\ MarkInv /\ CountInv
    BY <1>1 DEF IInv
  <2>2. Listed \subseteq Nodes /\ \A n \in Listed : HasSize
    BY <2>1, Finite DEF ConfInv, Listed, Range
  <2>3. EmptyCountExact
    <3>1. max_empty_reserve \in Nat /\ empty_count \in Nat
      BY <2>1, MultislabAssumption DEF TypeOK
    <3>2. \E x \in {max_empty_reserve, 1} : \A y \in {max_empty_reserve, 1} : x >= y
      BY <3>1
    <3>3. /\ Max({max_empty_reserve, 1}) \in {max_empty_reserve, 1}
          /\ \A y \in {max_empty_reserve, 1} : Max({max_empty_reserve, 1}) >= y
      BY <3>2 DEF Max
    <3>4. empty_count <= Max({max_empty_reserve, 1})
      BY <2>1, <3>1, <3>3 DEF CountInv
    <3>5. empty_count = Cardinality(Empties)
      BY <2>1 DEF CountInv
    <3> QED BY <3>4, <3>5 DEF EmptyCountExact, Empties
  <2>4. IsInjective(active \o full)
    BY <2>1, JoinedOnce DEF ListInv
  <2>5. slab_count = Cardinality(Listed) /\ mem = 2 * Cardinality(Listed)
    BY <2>1 DEF CountInv
  <2>6. ASSUME NEW n \in Listed
        PROVE  /\ is_full[n] <=> n \in Range(full)
               /\ used_count[n] = Cardinality(Marked(bitmap[n], RawMemory(n)))
    <3>1. n \in Nodes /\ HasSize /\ InUse(bitmap[n]) \subseteq Blocks
      BY <2>1, <2>2 DEF MarkInv
    <3>2. used_count[n] = Cardinality(InUse(bitmap[n]))
      BY <2>1 DEF MarkInv
    <3>3. is_full[n] <=> n \in Range(full)
      BY <2>1, <3>1 DEF ListInv
    <3> QED BY <3>1, <3>2, <3>3, AddressesCount
  <2>7. ASSUME NEW n \in Range(full) PROVE used_count[n] = blocks_per_slab
    <3>1. n \in Listed
      BY DEF Listed
    <3>2. InUse(bitmap[n]) = Blocks /\ used_count[n] = Cardinality(InUse(bitmap[n]))
      BY <2>1, <3>1 DEF MarkInv
    <3>3. blocks_per_slab \in Nat /\ blocks_per_slab > 0
      BY <2>2, <3>1, SlabSize DEF HasSize
    <3>4. Cardinality(Blocks) = blocks_per_slab
      <4>1. Cardinality(0 .. blocks_per_slab - 1)
              = IF 0 > blocks_per_slab - 1 THEN 0 ELSE blocks_per_slab - 1 - 0 + 1
        BY <3>3, FS_Interval
      <4> QED BY <3>3, <4>1 DEF Blocks
    <3> QED BY <3>2, <3>4
  <2>8. ListsAgree
    BY <2>4, <2>5, <2>6, <2>7 DEF ListsAgree
  <2> QED BY <2>1, <2>3, <2>8 DEF BooksAgree
<1> QED BY <1>1, Invariance, PTL

(* A release that gives a slab back gives back that one, had a reserve in   *)
(* the other empty slabs, and leaves another slab.                          *)
LEMMA GivenBack ==
    ASSUME IInv, NEW ptr \in Pointers, Release(ptr), NEW n \in Listed, n \notin Listed'
    PROVE  /\ max_empty_reserve < Cardinality(Nodes)
           /\ Listed' # {}
           /\ \A p \in held' : ~ Owns(n, p)
<1> DEFINE o == Owning(ptr)
           i == PtrToIndex(RawMemory(o), ptr)
<1>1. TypeOK /\ ConfInv /\ ListInv /\ MarkInv /\ CountInv /\ HasSize
  BY DEF IInv, Release, ConfInv
<1>2. o \in Listed /\ o \in Nodes /\ i \in InUse(bitmap[o]) /\ ptr = Ptr(o, i)
  BY <1>1, ReleasedBlock DEF Release
<1>3. /\ is_full' = [is_full EXCEPT ![o] = FALSE]
      /\ full' = IF is_full[o] THEN RemoveFirst(full, o) ELSE full
      /\ held' = held \ {ptr}
      /\ \/ GivesBack(o) /\ active' = RemoveFirst(active, o)
         \/ active' = ActiveWith(o)
  BY DEF Release
<1> HIDE DEF o, i
<1>4. /\ active' = ActiveWith(o) => Listed' = Listed
      /\ active' = RemoveFirst(active, o) => Listed' = Listed \ {o}
  BY <1>1, <1>2, <1>3, ReleaseLists
<1>5. GivesBack(o) /\ n = o /\ Listed' = Listed \ {n}
  BY <1>3, <1>4
<1>6. used_count[n] = 1 /\ empty_count + 1 > max_empty_reserve /\ slab_count > 1
  BY <1>5 DEF GivesBack
<1>7. /\ IsFiniteSet(Listed) /\ Cardinality(Listed) \in Nat /\ Cardinality(Listed) <= Cardinality(Nodes)
      /\ Cardinality(Nodes) \in Nat /\ Listed \subseteq Nodes
      /\ Cardinality(Empties) \in Nat /\ empty_count = Cardinality(Empties) /\ slab_count = Cardinality(Listed)
      /\ max_empty_reserve \in Nat
  BY <1>1, Finite, MultislabAssumption DEF CountInv, TypeOK
<1>8. Cardinality(Empties) + 1 <= Cardinality(Listed)
  <2>1. Empties \subseteq Listed \ {n}
    BY <1>6 DEF Empties
  <2>2. IsFiniteSet(Listed \ {n}) /\ Cardinality(Listed \ {n}) = Cardinality(Listed) - 1
    BY <1>7, FS_RemoveElement
  <2>3. Cardinality(Empties) <= Cardinality(Listed \ {n})
    BY <2>1, <2>2, FS_Subset
  <2> QED BY <1>7, <2>2, <2>3
<1>9. max_empty_reserve < Cardinality(Nodes)
  BY <1>6, <1>7, <1>8
<1>10. Listed' # {}
  <2>1. Cardinality(Listed \ {n}) = Cardinality(Listed) - 1
    BY <1>7, FS_RemoveElement
  <2>2. Cardinality(Listed') # 0
    BY <1>5, <1>6, <1>7, <2>1
  <2> QED BY <2>2, FS_EmptySet
<1>11. ASSUME NEW p \in held', Owns(n, p) PROVE FALSE
  <2>1. p \in held /\ p # ptr
    BY <1>3, <1>11
  <2>2. PICK m \in Listed : \E j \in InUse(bitmap[m]) : p = Ptr(m, j)
    BY <1>1, <2>1 DEF MarkInv
  <2>3. PICK j \in InUse(bitmap[m]) : p = Ptr(m, j)
    BY <2>2
  <2>4. n \in Nodes /\ m \in Nodes /\ j \in Blocks
    BY <1>1, <1>7, <2>3 DEF MarkInv
  <2>5. Owns(m, p) /\ p \in Nat
    BY <1>1, <2>3, <2>4, BlockAddress
  <2>6. m = n
    BY <1>1, <1>11, <2>4, <2>5, OneOwner
  <2>7. InUse(bitmap[n]) = {i}
    <3>1. bitmap[n] \in Bitmaps /\ Cardinality(InUse(bitmap[n])) = 1
      BY <1>1, <1>6, <2>4 DEF TypeOK, MarkInv
    <3> QED BY <1>2, <1>5, <3>1, OneLess
  <2> QED BY <1>2, <1>5, <2>1, <2>3, <2>6, <2>7
<1> QED BY <1>9, <1>10, <1>11

(* A slab goes back only when none of its blocks is in use and another      *)
(* slab remains; under the reactor's reserve, larger than any number of     *)
(* slabs, none goes back before cfiber_multislab_destroy, on which the      *)
(* reading of stale handles relies.                                         *)
THEOREM SlabsStay == Spec => SlabsAreKept
<1> DEFINE A == inited' =>
                  \A n \in Listed : n \notin Listed' =>
                      /\ max_empty_reserve < Cardinality(Nodes)
                      /\ Listed' # {}
                      /\ \A ptr \in held' : ~ Owns(n, ptr)
<1>1. ASSUME IInv, [Next]_vars PROVE A
  <2> SUFFICES ASSUME inited', NEW n \in Listed, n \notin Listed'
               PROVE  /\ max_empty_reserve < Cardinality(Nodes)
                      /\ Listed' # {}
                      /\ \A ptr \in held' : ~ Owns(n, ptr)
    OBVIOUS
  <2>0. TypeOK /\ ConfInv /\ ListInv /\ MarkInv /\ n \in Nodes
    BY <1>1, Finite DEF IInv
  <2>1. CASE UNCHANGED vars \/ \E count \in BlockCounts, limit \in MaxSlabs, reserve \in Reserves :
                                  MultislabInit(count, limit, reserve)
    BY <2>1 DEF vars, MultislabInit, Listed
  <2>2. CASE AllocActive
    <3>1. inited /\ MoveFull /\ active' = Rest
      BY <2>2 DEF AllocActive
    <3>2. Listed = Range(Rest) \cup Range(full')
      BY <2>0, <3>1, Walk
    <3> QED BY <3>1, <3>2 DEF Listed
  <2>3. CASE AllocFails \/ \E m \in Nodes : AllocGrow(m)
    <3>1. inited /\ MoveFull /\ Rest = <<>>
      BY <2>3 DEF AllocFails, AllocGrow
    <3>2. Listed = Range(Rest) \cup Range(full') /\ Range(Rest) = {}
      BY <2>0, <3>1, Walk DEF Range
    <3> QED BY <3>2 DEF Listed
  <2>4. ASSUME NEW ptr \in Pointers, Release(ptr)
        PROVE  /\ max_empty_reserve < Cardinality(Nodes)
               /\ Listed' # {}
               /\ \A p \in held' : ~ Owns(n, p)
    BY <1>1, <2>4, GivenBack
  <2>5. CASE MultislabDestroy
    BY <2>5 DEF MultislabDestroy
  <2> QED BY <1>1, <2>1, <2>2, <2>3, <2>4, <2>5 DEF Next
<1> HIDE DEF A
<1>2. Spec => [][A]_vars
  BY <1>1, Invariance, PTL DEF Spec
<1> QED BY <1>2 DEF A, SlabsAreKept
=============================================================================
