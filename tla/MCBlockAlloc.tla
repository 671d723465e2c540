---------------------------- MODULE MCBlockAlloc ----------------------------
(* A bitmap of two bytes, the second of them partly padding, with runs that   *)
(* lie in one byte and runs that cross from one to the other.                 *)
EXTENDS BlockAlloc, BlockScan

ItemSymmetry == Permutations(Item)

ScanAgrees(bits, blocks) ==
    \A n \in 1 .. blocks : ScanBlocks(bits, blocks, pos, n) = FindFreeBlocks(bits, blocks, pos, n)

\* The bit by bit scan of uwsgi_cache_find_free_blocks finds the first run from
\* blocks_bitmap_pos on, or else the first one from the start of the bitmap; also
\* where the last byte has no padding, so that a run can end with the bitmap.  It
\* misses a run of free blocks only when the run lies across blocks_bitmap_pos.
ScanExact ==
    /\ ScanAgrees(used, Blocks)
    /\ ScanAgrees(used \ Padding(Blocks), 8 * BitmapSize(Blocks))
    /\ \A n \in 1 .. Blocks :
          FindFreeBlocks(used, Blocks, pos, n) = NoBlock =>
              \A b \in FreeRuns(used, n, 0, Blocks - 1) : pos \in b + 1 .. b + n - 1
=============================================================================
