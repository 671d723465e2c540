------------------------------- MODULE MCCache -------------------------------
(* Small caches: two or three slots, two buckets of which one is shared, and  *)
(* values of one and of two blocks; zero, one and two are 8 byte integers.    *)
EXTENDS Cache

CONSTANTS k1, k2, k3, k4, zero, one, two, wide

KeyHash == [k \in Key |-> IF k = k3 THEN 1 ELSE 2]

ValSize == [v \in Val |-> IF v = wide THEN 2 ELSE 1]

\* cache_inc by one, modulo three.
IncOf == [v \in Val |-> CASE v = zero -> one [] v = one -> two [] OTHER -> zero]

\* A cache of two fixed size slots and two keys that share a bucket.
Plain ==
    [max_items |-> 3, blocks |-> 3, use_blocks_bitmap |-> FALSE, purge_lru |-> FALSE,
     lazy_expire |-> FALSE, clear_on_full |-> FALSE, sweep_on_full |-> 0, store |-> FALSE,
     udp_servers |-> FALSE, keys |-> {k1, k2, k3}, vals |-> {zero}, ttl |-> {0, 1},
     math |-> FALSE, until |-> 1]

Stored == [Plain EXCEPT !.store = TRUE, !.vals = {zero, one}]
Counting == [Plain EXCEPT !.math = TRUE, !.keys = {k1, k2}]
Expiring == [Plain EXCEPT !.keys = {k1, k2}, !.ttl = {1, 2}, !.until = 3]
Bitmap == [Plain EXCEPT !.use_blocks_bitmap = TRUE, !.vals = {zero, wide}]
Moving == [Bitmap EXCEPT !.blocks = 4, !.ttl = {0}, !.until = 0]
Swept == [Bitmap EXCEPT !.keys = {k1, k2}, !.sweep_on_full = 2]
Cleared == [Bitmap EXCEPT !.sweep_on_full = 1, !.clear_on_full = TRUE, !.ttl = {1}]
Lazy == [Bitmap EXCEPT !.keys = {k1, k2}, !.lazy_expire = TRUE, !.udp_servers = TRUE]
Lru == [Plain EXCEPT !.purge_lru = TRUE, !.store = TRUE, !.udp_servers = TRUE,
                     !.max_items = 4, !.blocks = 4, !.keys = {k1, k2, k3, k4},
                     !.ttl = {0}, !.until = 0]
LruBitmap == [Moving EXCEPT !.purge_lru = TRUE]

Postponed == [Plain EXCEPT !.sweep_on_full = 1, !.until = 2]

AllConfigs == {Stored, Counting, Expiring, Moving, Swept, Postponed, Cleared, Lazy, Lru, LruBitmap}
StoreBitmapConfigs == {[Bitmap EXCEPT !.store = TRUE]}
MathBitmapConfigs == {[Moving EXCEPT !.math = TRUE, !.vals = {zero, one}]}

(* What the cache holds for every key, as a variable that is set in each step *)
(* so that TLC computes it once for each state.                               *)
VARIABLE store

View(c) == [k \in Key |-> Entry(c, k)]

MCInit == Init /\ store = View(uc)
MCNext == Next /\ store' = View(uc')
MCSpec == MCInit /\ [][MCNext]_<<vars, store>>
MCFairSpec == MCSpec /\ Fairness

Map == INSTANCE CacheMap WITH evicts <- uc.conf.purge_lru \/ uc.conf.clear_on_full,
                              TTL <- UNION {conf.ttl : conf \in Configs}

\* The slots, chains, blocks and the sweeper together implement the map of
\* CacheMap: a value read back is the one stored last under that key, whole, and
\* goes away only when it is deleted, expires, or room is made for another.
Implements == Map!Spec

\* cache_inc adds to the value the key has, and leaves its expiration alone; if
\* the cache is full it may do nothing but make room.
IncCounts ==
    [][\A k \in Key :
          GetIndex(uc, k) # 0 /\ Inc(k) =>
              store'[k] \in {NoEntry, store[k], [store[k] EXCEPT !.val = Delta[@]]}]_<<vars, store>>
=============================================================================
