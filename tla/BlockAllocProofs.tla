--------------------------- MODULE BlockAllocProofs ---------------------------
(* Proofs about the block bitmap, for every number of blocks and of items.    *)
EXTENDS BlockAlloc, WellFoundedInduction, TLAPS

\* A mask for one byte, made by the shifts of 0xff, covers an interval of blocks.
LEMMA ByteMaskIsInterval ==
    ASSUME NEW byte \in Nat, NEW lo \in 0 .. 7, NEW hi \in 0 .. 7
    PROVE  ByteMask(byte, lo, hi) = (8 * byte + lo) .. (8 * byte + hi)
<1>1. ASSUME NEW x \in (8 * byte + lo) .. (8 * byte + hi)
      PROVE  x \in ByteMask(byte, lo, hi)
  <2>1. x - 8 * byte \in lo .. hi /\ x = 8 * byte + (x - 8 * byte)
    OBVIOUS
  <2> QED  BY <2>1 DEF ByteMask
<1>2. ASSUME NEW x \in ByteMask(byte, lo, hi)
      PROVE  x \in (8 * byte + lo) .. (8 * byte + hi)
  BY DEF ByteMask
<1> QED  BY <1>1, <1>2

\* The masks of cache_mark_blocks and cache_unmark_blocks (one for the first byte,
\* one for the last, memset for the bytes between) reach exactly the blocks of the
\* value.
LEMMA MaskIsInterval ==
    ASSUME NEW index \in Nat, NEW n \in Nat \ {0}
    PROVE  BlockMask(index, n) = index .. index + n - 1
<1> DEFINE last == index + n - 1
           fb == index \div 8
           lb == last \div 8
<1>1. /\ fb \in Nat /\ index % 8 \in 0 .. 7 /\ index = 8 * fb + (index % 8)
      /\ lb \in Nat /\ last % 8 \in 0 .. 7 /\ last = 8 * lb + (last % 8)
      /\ last \in Nat /\ fb <= lb /\ 0 \in 0 .. 7 /\ 7 \in 0 .. 7
  OBVIOUS
<1> DEFINE mid == {b \in index .. last : b \div 8 \in fb + 1 .. lb - 1}
<1>2. /\ fb = lb => BlockMask(index, n) = ByteMask(fb, index % 8, last % 8)
      /\ fb # lb => BlockMask(index, n) = ByteMask(fb, index % 8, 7)
                                          \cup ByteMask(lb, 0, last % 8) \cup mid
  BY DEF BlockMask
<1>3. last = index + n - 1
  OBVIOUS
<1> HIDE DEF last, fb, lb
<1>4. CASE fb = lb
  <2>1. BlockMask(index, n) = ByteMask(fb, index % 8, last % 8)
    BY <1>2, <1>4
  <2>2. ByteMask(fb, index % 8, last % 8) = (8 * fb + (index % 8)) .. (8 * fb + (last % 8))
    BY <1>1, ByteMaskIsInterval
  <2>3. 8 * fb + (index % 8) = index /\ 8 * fb + (last % 8) = index + n - 1
    BY <1>1, <1>4, <1>3
  <2> QED  BY <2>1, <2>2, <2>3
<1>5. CASE fb # lb
  <2>1. BlockMask(index, n) = ByteMask(fb, index % 8, 7) \cup ByteMask(lb, 0, last % 8) \cup mid
    BY <1>2, <1>5
  <2>2. ByteMask(fb, index % 8, 7) = index .. 8 * fb + 7
    <3>1. ByteMask(fb, index % 8, 7) = (8 * fb + (index % 8)) .. (8 * fb + 7)
      BY <1>1, ByteMaskIsInterval
    <3> QED  BY <3>1, <1>1
  <2>3. ByteMask(lb, 0, last % 8) = 8 * lb .. last
    <3>1. ByteMask(lb, 0, last % 8) = (8 * lb + 0) .. (8 * lb + (last % 8))
      BY <1>1, ByteMaskIsInterval
    <3>2. 8 * lb + 0 = 8 * lb /\ 8 * lb + (last % 8) = last
      BY <1>1
    <3> QED  BY <3>1, <3>2
  <2>4. ASSUME NEW b \in index .. last, b > 8 * fb + 7, b < 8 * lb
        PROVE  b \div 8 \in fb + 1 .. lb - 1
    BY <2>4, <1>1
  <2>5. ASSUME NEW b \in index .. last
        PROVE  b \in (index .. 8 * fb + 7) \cup (8 * lb .. last) \cup mid
    BY <2>4, <1>1
  <2>6. (index .. 8 * fb + 7) \cup (8 * lb .. last) \cup mid \subseteq index .. last
    BY <1>1, <1>5
  <2> QED  BY <2>1, <2>2, <2>3, <2>5, <2>6, <1>3
<1> QED  BY <1>4, <1>5

\* The first of a set of blocks is one of them: the scan returns the start of a run.
LEMMA FirstIsMember ==
    ASSUME NEW S \in SUBSET Nat, S # {}
    PROVE  FirstOf(S) \in S
<1>1. PICK b \in S : \A d \in S : ~(<<d, b>> \in OpToRel(<, Nat))
  BY NatLessThanWellFounded, WFMin
<1>2. ASSUME NEW d \in S
      PROVE  b <= d
  <2>1. SUFFICES ASSUME d < b PROVE FALSE
    OBVIOUS
  <2>2. <<d, b>> \in {ss \in Nat \X Nat : ss[1] < ss[2]}
    BY <2>1
  <2>3. <<d, b>> \in OpToRel(<, Nat)
    BY <2>2, Zenon DEF OpToRel
  <2> QED  BY <1>1, <2>3, Zenon
<1> QED  BY <1>2 DEF FirstOf

\* What uwsgi_cache_find_free_blocks returns is the start of a run of free blocks
\* that lies within the cache, given that the padding is marked.
LEMMA FoundIsFree ==
    ASSUME NEW S, NEW blocks \in Nat \ {0}, NEW p \in 0 .. blocks - 1, NEW n \in Nat \ {0},
           Padding(blocks) \subseteq S,
           FindFreeBlocks(S, blocks, p, n) # NoBlock
    PROVE  LET first == FindFreeBlocks(S, blocks, p, n)
           IN  /\ first \in 0 .. blocks - 1
               /\ first + n - 1 \in 0 .. blocks - 1
               /\ (first .. first + n - 1) \cap S = {}
<1> DEFINE top == 8 * BitmapSize(blocks) - 1
           again == IF p % 8 > 0 THEN 8 * (p \div 8) + 7 ELSE 8 * (p \div 8) - 1
           ahead == FirstOf(FreeRuns(S, n, p, top))
           first == FindFreeBlocks(S, blocks, p, n)
<1>1. top \in Nat /\ top >= blocks - 1 /\ again \in Int /\ again <= top
  BY DEF BitmapSize
<1>2. first = IF ahead # NoBlock THEN ahead ELSE FirstOf(FreeRuns(S, n, 0, again))
  BY DEF FindFreeBlocks
<1>3. ASSUME NEW lo \in Nat, NEW hi \in Int, hi <= top,
             FirstOf(FreeRuns(S, n, lo, hi)) # NoBlock
      PROVE  LET f == FirstOf(FreeRuns(S, n, lo, hi))
             IN  /\ f \in Nat /\ f + n - 1 <= top
                 /\ \A i \in 0 .. n - 1 : f + i \notin S
  <2>1. FreeRuns(S, n, lo, hi) \in SUBSET Nat
    BY DEF FreeRuns
  <2>2. FreeRuns(S, n, lo, hi) # {}
    BY <1>3 DEF FirstOf
  <2>3. FirstOf(FreeRuns(S, n, lo, hi)) \in FreeRuns(S, n, lo, hi)
    BY <2>1, <2>2, FirstIsMember
  <2> QED  BY <2>3, <1>3, <1>1 DEF FreeRuns
<1>4. first \in Nat /\ first + n - 1 <= top /\ \A i \in 0 .. n - 1 : first + i \notin S
  BY <1>1, <1>2, <1>3
<1>5. ASSUME NEW b \in first .. first + n - 1
      PROVE  b \notin S
  <2>1. b - first \in 0 .. n - 1 /\ first + (b - first) = b
    BY <1>4
  <2> QED  BY <2>1, <1>4
<1>6. first + n - 1 < blocks
  <2>1. SUFFICES ASSUME first + n - 1 >= blocks PROVE FALSE
    BY <1>4
  <2>2. first + n - 1 \in Padding(blocks)
    BY <2>1, <1>4, <1>1 DEF Padding
  <2> QED  BY <2>2, <1>4, <1>5
<1> QED  BY <1>4, <1>5, <1>6

\* The inductive invariant: an item that moves or leaves clears only its own bits,
\* because no other item and no padding shares them.
IInv == TypeOK /\ BitsExact /\ Disjoint

\* One item exchanges its blocks for the free blocks N, which may be none.
LEMMA ExchangeKeepsInv ==
    ASSUME BitsExact, Disjoint, BlockSizes,
           NEW i \in Item, NEW N \in SUBSET (0 .. Blocks - 1),
           N \cap used = {},
           used' = (used \cup N) \ BlocksOf(i),
           BlocksOf(i)' = N,
           \A j \in Item \ {i} : BlocksOf(j)' = BlocksOf(j)
    PROVE  BitsExact' /\ Disjoint'
<1>1. \A x : x \in used <=> x \in Padding(Blocks) \/ \E j \in Item : x \in BlocksOf(j)
  BY DEF BitsExact
<1>2. \A x \in Padding(Blocks) : x \notin 0 .. Blocks - 1
  BY DEF Padding, BitmapSize, BlockSizes
<1>3. BlocksOf(i) \subseteq 0 .. Blocks - 1 /\ BlocksOf(i) \subseteq used
  BY <1>1 DEF Disjoint
<1>4. N \cap BlocksOf(i) = {}
  BY <1>3
<1>5. \A j \in Item \ {i} : BlocksOf(j) \cap BlocksOf(i) = {} /\ BlocksOf(j) \subseteq used
  BY <1>1 DEF Disjoint
<1>6. ASSUME NEW x
      PROVE  x \in used' <=> x \in Padding(Blocks) \/ \E j \in Item : x \in BlocksOf(j)'
  <2>1. CASE x \in N
    BY <2>1, <1>4
  <2>2. CASE x \in BlocksOf(i)
    <3>1. x \notin used' /\ x \notin N /\ x \notin Padding(Blocks)
      BY <2>2, <1>2, <1>3, <1>4
    <3>2. \A j \in Item \ {i} : x \notin BlocksOf(j)
      BY <2>2, <1>5
    <3> QED  BY <3>1, <3>2
  <2>3. CASE x \notin N /\ x \notin BlocksOf(i)
    BY <2>3, <1>1
  <2> QED  BY <2>1, <2>2, <2>3
<1>7. BitsExact'
  <2>1. used' = Padding(Blocks) \cup UNION {BlocksOf(j)' : j \in Item}
    BY <1>6, Zenon
  <2> QED  BY <2>1, Zenon DEF BitsExact
<1>8. Disjoint'
  <2>1. \A j \in Item : BlocksOf(j)' \subseteq 0 .. Blocks - 1
    BY DEF Disjoint
  <2>2. \A j \in Item \ {i} : BlocksOf(j)' \cap N = {}
    BY <1>5
  <2>3. \A j, k \in Item : j # k => BlocksOf(j)' \cap BlocksOf(k)' = {}
    BY <2>2 DEF Disjoint
  <2> QED  BY <2>1, <2>3 DEF Disjoint
<1> QED  BY <1>7, <1>8

\* Taking or changing the blocks of one item.
LEMMA PlaceKeepsInv ==
    ASSUME IInv, BlockSizes,
           NEW i \in Item, NEW n \in Needed, NEW marked \in BOOLEAN,
           marked <=> held[i].size # 0,
           Place(i, n, marked)
    PROVE  IInv'
<1> DEFINE first == FindFreeBlocks(used, Blocks, pos, n)
           N == first .. first + n - 1
<1>1. n \in Nat \ {0} /\ n <= Blocks /\ Blocks \in Nat \ {0} /\ pos \in 0 .. Blocks - 1
  BY DEF BlockSizes, IInv, TypeOK
<1>2. Padding(Blocks) \subseteq used
  BY DEF IInv, BitsExact
<1>3. first # NoBlock
  BY DEF Place
<1>4. first \in 0 .. Blocks - 1 /\ first + n - 1 \in 0 .. Blocks - 1 /\ N \cap used = {}
  BY <1>1, <1>2, <1>3, FoundIsFree
<1>5. held' = [held EXCEPT ![i] = [first |-> first, size |-> n]] /\ pos' = NextPos(Blocks, first, n)
  BY DEF Place
<1>6. held \in [Item -> [first : 0 .. Blocks - 1, size : 0 .. Blocks]]
  BY DEF IInv, TypeOK
<1>7. BlocksOf(i)' = N /\ \A j \in Item \ {i} : BlocksOf(j)' = BlocksOf(j)
  BY <1>5, <1>6 DEF BlocksOf
<1>8. Mark(used, first, n) = used \cup N
  <2>1. first \in Nat
    BY <1>4
  <2>2. BlockMask(first, n) = N
    BY <2>1, <1>1, MaskIsInterval, Zenon
  <2> QED  BY <2>2 DEF Mark
<1>9. used' = (used \cup N) \ BlocksOf(i)
  <2>1. CASE marked
    <3>1. held[i].first \in Nat /\ held[i].size \in Nat \ {0}
      BY <1>6, <2>1
    <3>2. BlockMask(held[i].first, held[i].size) = BlocksOf(i)
      BY <3>1, MaskIsInterval DEF BlocksOf
    <3> QED  BY <1>8, <2>1, <3>2 DEF Place, Unmark
  <2>2. CASE ~marked
    <3>1. held[i].first \in Nat /\ held[i].size = 0
      BY <1>6, <2>2
    <3>2. BlocksOf(i) = {}
      BY <3>1 DEF BlocksOf
    <3> QED  BY <1>8, <2>2, <3>2 DEF Place
  <2> QED  BY <2>1, <2>2
<1>10. N \in SUBSET (0 .. Blocks - 1)
  BY <1>1, <1>4
<1>11. BitsExact' /\ Disjoint'
  BY <1>4, <1>7, <1>9, <1>10, ExchangeKeepsInv DEF IInv
<1>12. used' \subseteq 0 .. 8 * BitmapSize(Blocks) - 1
  <2>1. 0 .. Blocks - 1 \subseteq 0 .. 8 * BitmapSize(Blocks) - 1
    BY <1>1 DEF BitmapSize
  <2> QED  BY <2>1, <1>9, <1>10 DEF IInv, TypeOK
<1>13. pos' \in 0 .. Blocks - 1
  BY <1>1, <1>4, <1>5 DEF NextPos
<1>14. held' \in [Item -> [first : 0 .. Blocks - 1, size : 0 .. Blocks]]
  BY <1>1, <1>4, <1>5, <1>6
<1> QED  BY <1>11, <1>12, <1>13, <1>14 DEF IInv, TypeOK

LEMMA DropKeepsInv ==
    ASSUME IInv, BlockSizes, NEW i \in Item, Drop(i)
    PROVE  IInv'
<1>1. held \in [Item -> [first : 0 .. Blocks - 1, size : 0 .. Blocks]] /\ Blocks \in Nat \ {0}
  BY DEF IInv, TypeOK, BlockSizes
<1>2. held' = [held EXCEPT ![i] = [first |-> 0, size |-> 0]] /\ held[i].size # 0 /\ pos' = pos
  BY DEF Drop
<1>3. BlocksOf(i)' = {} /\ \A j \in Item \ {i} : BlocksOf(j)' = BlocksOf(j)
  BY <1>1, <1>2 DEF BlocksOf
<1>4. BlockMask(held[i].first, held[i].size) = BlocksOf(i)
  <2>1. held[i].first \in Nat /\ held[i].size \in Nat \ {0}
    BY <1>1, <1>2
  <2> QED  BY <2>1, MaskIsInterval DEF BlocksOf
<1>5. used' = (used \cup {}) \ BlocksOf(i)
  BY <1>4 DEF Drop, Unmark
<1>6. BitsExact' /\ Disjoint'
  <2>1. {} \in SUBSET (0 .. Blocks - 1) /\ {} \cap used = {}
    OBVIOUS
  <2> QED  BY <2>1, <1>3, <1>5, ExchangeKeepsInv DEF IInv
<1>7. TypeOK'
  <2>1. used' \subseteq 0 .. 8 * BitmapSize(Blocks) - 1
    BY <1>5 DEF IInv, TypeOK
  <2>2. pos' \in 0 .. Blocks - 1
    BY <1>2 DEF IInv, TypeOK
  <2>3. held' \in [Item -> [first : 0 .. Blocks - 1, size : 0 .. Blocks]]
    BY <1>1, <1>2
  <2> QED  BY <2>1, <2>2, <2>3 DEF TypeOK
<1> QED  BY <1>6, <1>7 DEF IInv

\* For every size of the cache and every mixture of sets, updates and deletes, the
\* bitmap stays exactly the blocks that are held, and no two items share a block.
THEOREM AllocInvariant == Spec => []IInv
<1>1. Init => IInv
  <2> SUFFICES ASSUME Init PROVE IInv
    OBVIOUS
  <2>1. \A i \in Item : BlocksOf(i) = {}
    BY DEF Init, BlocksOf
  <2>2. BitsExact
    BY <2>1 DEF BitsExact, Init
  <2>3. Disjoint
    BY <2>1 DEF Disjoint
  <2>4. TypeOK
    BY BlockSizes DEF TypeOK, Init, Padding, BitmapSize, BlockSizes
  <2> QED  BY <2>2, <2>3, <2>4 DEF IInv
<1>2. IInv /\ [Next]_vars => IInv'
  <2> SUFFICES ASSUME IInv, [Next]_vars PROVE IInv'
    OBVIOUS
  <2>1. ASSUME NEW i \in Item, Drop(i) PROVE IInv'
    BY <2>1, DropKeepsInv, BlockSizes
  <2>2. ASSUME NEW i \in Item, NEW n \in Needed, Take(i, n) PROVE IInv'
    BY <2>2, PlaceKeepsInv, BlockSizes DEF Take
  <2>3. ASSUME NEW i \in Item, NEW n \in Needed, Move(i, n) PROVE IInv'
    BY <2>3, PlaceKeepsInv, BlockSizes DEF Move
  <2>4. CASE UNCHANGED vars
    BY <2>4 DEF vars, IInv, TypeOK, BitsExact, Disjoint, BlocksOf
  <2> QED  BY <2>1, <2>2, <2>3, <2>4 DEF Next
<1> QED  BY <1>1, <1>2, PTL DEF Spec

\* The bits of the bitmap are the blocks in use.
THEOREM AllocBitsExact == Spec => []BitsExact
<1>1. IInv => BitsExact
  BY DEF IInv
<1> QED  BY <1>1, AllocInvariant, PTL

\* No block has two owners or lies past the end of the cache.
THEOREM AllocDisjoint == Spec => []Disjoint
<1>1. IInv => Disjoint
  BY DEF IInv
<1> QED  BY <1>1, AllocInvariant, PTL

\* The bitmap, the scan position and the items' blocks stay well typed.
THEOREM AllocTypeCorrect == Spec => []TypeOK
<1>1. IInv => TypeOK
  BY DEF IInv
<1> QED  BY <1>1, AllocInvariant, PTL
=============================================================================
