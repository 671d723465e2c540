------------------------------ MODULE BlockAlloc ------------------------------
(* The blocks of a cache with bitmap=1, apart from everything else in it: an  *)
(* item takes consecutive blocks when it is added, moves to others when it is *)
(* updated and gives them back when it is deleted.                            *)
EXTENDS BlockBitmap

CONSTANTS Item, Blocks,
          Needed          \* the numbers of blocks the values take

ASSUME BlockSizes == Blocks \in Nat \ {0} /\ Needed \subseteq 1 .. Blocks

VARIABLES used,           \* blocks_bitmap
          pos,            \* blocks_bitmap_pos
          held            \* first_block and valsize of each item, 0 blocks if it is free

vars == <<used, pos, held>>

BlocksOf(i) == held[i].first .. held[i].first + held[i].size - 1

Init ==
    /\ used = Padding(Blocks)
    /\ pos = 0
    /\ held = [i \in Item |-> [first |-> 0, size |-> 0]]

\* The new blocks are marked before the old ones are unmarked.
Place(i, n, marked) ==
    LET first == FindFreeBlocks(used, Blocks, pos, n)
    IN  /\ first # NoBlock
        /\ used' = IF marked THEN Unmark(Mark(used, first, n), held[i].first, held[i].size)
                   ELSE Mark(used, first, n)
        /\ pos' = NextPos(Blocks, first, n)
        /\ held' = [held EXCEPT ![i] = [first |-> first, size |-> n]]

\* uwsgi_cache_set2 on a new key, and on one that exists.
Take(i, n) == held[i].size = 0 /\ Place(i, n, FALSE)
Move(i, n) == held[i].size # 0 /\ Place(i, n, TRUE)

\* uwsgi_cache_del2.
Drop(i) ==
    /\ held[i].size # 0
    /\ used' = Unmark(used, held[i].first, held[i].size)
    /\ held' = [held EXCEPT ![i] = [first |-> 0, size |-> 0]]
    /\ UNCHANGED pos

Next == \E i \in Item : Drop(i) \/ \E n \in Needed : Take(i, n) \/ Move(i, n)

Spec == Init /\ [][Next]_vars

(****************************************************************************)
(* Properties                                                               *)
(****************************************************************************)
\* The bitmap, the scan position and the blocks of the items are well typed, and
\* an item holds only blocks that exist.
TypeOK ==
    /\ used \subseteq 0 .. 8 * BitmapSize(Blocks) - 1
    /\ pos \in 0 .. Blocks - 1
    /\ held \in [Item -> [first : 0 .. Blocks - 1, size : 0 .. Blocks]]

\* The bits that are set are those of the padding and of the blocks some item
\* holds: a block neither leaks nor is free while it is in use, whichever bytes
\* the masks of cache_mark_blocks and cache_unmark_blocks reach into.
BitsExact == used = Padding(Blocks) \cup UNION {BlocksOf(i) : i \in Item}

\* No block belongs to two items, or lies past the end of the cache.
Disjoint ==
    /\ \A i \in Item : BlocksOf(i) \subseteq 0 .. Blocks - 1
    /\ \A i, j \in Item : i # j => BlocksOf(i) \cap BlocksOf(j) = {}
=============================================================================
