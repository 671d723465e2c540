----------------------------- MODULE BlockBitmap -----------------------------
(* The block bitmap of core/cache.c.  A bitmap is the set of the blocks whose *)
(* bit is set; bit 0 of a byte is its most significant one, so that block b   *)
(* is bit b % 8 of byte b \div 8.                                             *)
EXTENDS Integers

\* 0xffffffffffffffff
NoBlock == -1

\* Blocks of a bitmap of the given number of blocks that do not exist: the bits
\* uwsgi_cache_init sets in the last byte.
BitmapSize(blocks) == (blocks + 7) \div 8
\* Mutant: the bits after the last block are left clear.
PaddingNone(blocks) == {}

Padding(blocks) == blocks .. 8 * BitmapSize(blocks) - 1

\* The bits of one byte, from bit lo to bit hi.
ByteMask(byte, lo, hi) == {8 * byte + bit : bit \in lo .. hi}

\* Mutant: the last bit is taken to be index + needed.
BlockMaskLong(index, needed) == index .. index + needed

\* The blocks cache_mark_blocks sets and cache_unmark_blocks clears, from a mask
\* for the first byte, one for the last, and the whole bytes between them.
BlockMask(index, needed) ==
    LET last == index + needed - 1
        first_byte == index \div 8
        last_byte == last \div 8
    IN  IF first_byte = last_byte
        THEN ByteMask(first_byte, index % 8, last % 8)
        ELSE ByteMask(first_byte, index % 8, 7)
             \cup ByteMask(last_byte, 0, last % 8)
             \cup {b \in index .. last : b \div 8 \in first_byte + 1 .. last_byte - 1}

Mark(used, index, needed) == used \cup BlockMask(index, needed)
Unmark(used, index, needed) == used \ BlockMask(index, needed)

\* Where a run of free blocks starts, if it lies between lo and hi.
FreeRuns(used, needed, lo, hi) ==
    {b \in lo .. hi + 1 - needed : \A i \in 0 .. needed - 1 : b + i \notin used}

FirstOf(S) == IF S = {} THEN NoBlock ELSE CHOOSE b \in S : \A d \in S : b <= d

\* uwsgi_cache_find_free_blocks: from pos to the end of the bitmap, then from the
\* start up to the byte of pos, which is scanned again only when pos is not its
\* first bit.  A run does not wrap around.
FindFreeBlocks(used, blocks, pos, needed) ==
    LET top == 8 * BitmapSize(blocks) - 1
        again == IF pos % 8 > 0 THEN 8 * (pos \div 8) + 7 ELSE 8 * (pos \div 8) - 1
        ahead == FirstOf(FreeRuns(used, needed, pos, top))
    IN  IF ahead # NoBlock THEN ahead ELSE FirstOf(FreeRuns(used, needed, 0, again))

\* The next scan starts after the blocks just taken.
NextPos(blocks, first, needed) == IF first + needed >= blocks THEN 0 ELSE first + needed
=============================================================================
