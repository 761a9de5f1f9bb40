----------------------------- MODULE SlabBitmap ------------------------------
(***************************************************************************)
(* A slab's bitmap and the address arithmetic of its blocks                *)
(* (src/cfiber/memory/slab_alloc.c).  A word is the set of its bits that   *)
(* are one, an address an integer.                                         *)
(***************************************************************************)
EXTENDS Integers, FiniteSetsExt

CONSTANTS
    WordBits,    \* CFIBER_BITMAP_WORD_BITS
    BitmapSize,  \* CFIBER_BITMAP_SIZE
    BlockSize    \* block_size, in the unit addresses are counted in

ASSUME SizesAssumption == {WordBits, BitmapSize, BlockSize} \subseteq Nat \ {0}

MaxBlocks == WordBits * BitmapSize     \* CFIBER_SLAB_MAX_BLOCKS
Bits == 0 .. WordBits - 1
Bitmaps == [0 .. BitmapSize - 1 -> SUBSET Bits]
EmptyBitmap == [w \in 0 .. BitmapSize - 1 |-> {}]
NotFound == -1

(* The words in use, bitmap_count *)
WordsFor(count) == (count + WordBits - 1) \div WordBits

Word(index) == index \div WordBits
Bit(index) == index % WordBits

BitmapTest(bitmap, index) == Bit(index) \in bitmap[Word(index)]
BitmapSet(bitmap, index) == [bitmap EXCEPT ![Word(index)] = @ \cup {Bit(index)}]
BitmapClear(bitmap, index) == [bitmap EXCEPT ![Word(index)] = @ \ {Bit(index)}]

(* The least zero bit of word w, as an index: count trailing zeros of ~word *)
FirstZero(bitmap, w) == w * WordBits + Min(Bits \ bitmap[w])

(* Mutant: the spare bits of the last word count as blocks. *)
BitmapFindFreeSpareBits(bitmap, words, capacity) ==
    LET hits == {w \in 0 .. words - 1 : bitmap[w] # Bits}
    IN IF hits = {} THEN NotFound ELSE FirstZero(bitmap, Min(hits))

(* bitmap_find_free: the first word with a zero bit that is a block *)
BitmapFindFree(bitmap, words, capacity) ==
    LET hits == {w \in 0 .. words - 1 :
                    bitmap[w] # Bits /\ FirstZero(bitmap, w) < capacity}
    IN IF hits = {} THEN NotFound ELSE FirstZero(bitmap, Min(hits))

PtrToIndex(memory, ptr) == (ptr - memory) \div BlockSize
IndexToPtr(memory, index) == memory + index * BlockSize

(* cfiber_slab_release does not reject ptr: inside the slab, on a block     *)
(* boundary, and allocated (CFIBER_DEFENSIVE with NDEBUG)                   *)
Accepts(bitmap, memory, count, ptr) ==
    /\ memory <= ptr /\ ptr < memory + BlockSize * count
    /\ (ptr - memory) % BlockSize = 0
    /\ BitmapTest(bitmap, PtrToIndex(memory, ptr))

(* The blocks marked as allocated, by index *)
InUse(bitmap) == {i \in 0 .. MaxBlocks - 1 : BitmapTest(bitmap, i)}

(* ... and by address *)
Marked(bitmap, memory) == {IndexToPtr(memory, i) : i \in InUse(bitmap)}
=============================================================================
