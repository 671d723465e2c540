------------------------------ MODULE BlockScan ------------------------------
(* uwsgi_cache_find_free_blocks as it is written: one bit after the other,    *)
(* counting the free ones, from the byte and bit of blocks_bitmap_pos.        *)
EXTENDS BlockBitmap, SequencesExt

\* The bits the two loops look at.  The first byte is scanned from the bit of pos;
\* it comes up again, from its first bit, when that was not where it started.
ScannedBytes(blocks, pos) == BitmapSize(blocks) + (IF pos % 8 > 0 THEN 1 ELSE 0)

ScannedBits(blocks, pos) ==
    LET byte(n) == (pos \div 8 + n) % BitmapSize(blocks)
        bits(n) == [bit \in 1 .. 8 |-> 8 * byte(n) + bit - 1]
        skipped == pos % 8
    IN  FlattenSeq([n \in 1 .. ScannedBytes(blocks, pos) |->
                       IF n = 1 THEN SubSeq(bits(0), skipped + 1, 8) ELSE bits(n - 1)])

\* Mutant: a run goes on from the end of the bitmap to its start.
ScanBitWraps(used, needed, scan, block) ==
    LET found == IF block \in used THEN 0 ELSE scan.found + 1
    IN  IF scan.first # NoBlock THEN scan
        ELSE [found |-> found,
              first |-> IF found = needed THEN block - needed + 1 ELSE NoBlock]

\* One round of the inner loop.  A run that reaches the end of the bitmap does
\* not go on at its start.
ScanBit(used, needed, scan, block) ==
    LET found == IF block \in used THEN 0 ELSE IF block = 0 THEN 1 ELSE scan.found + 1
    IN  IF scan.first # NoBlock THEN scan
        ELSE [found |-> found,
              first |-> IF found = needed THEN block - needed + 1 ELSE NoBlock]

ScanBlocks(used, blocks, pos, needed) ==
    FoldLeft(LAMBDA scan, block : ScanBit(used, needed, scan, block),
             [found |-> 0, first |-> NoBlock], ScannedBits(blocks, pos)).first
=============================================================================
