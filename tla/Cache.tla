------------------------------- MODULE Cache -------------------------------
(* The shared cache of core/cache.c: a table of item slots in shared memory,  *)
(* linked into hash chains and into a least recently used list, a stack of    *)
(* the unused slots, the blocks that hold the values and their bitmap, and    *)
(* the sweeper thread of the master that frees the expired items.             *)
(*                                                                            *)
(* Every operation runs under the cache's lock, so it is one step; the        *)
(* sweeper takes the lock once for each slot and is a step for each slot.     *)
(* A size is counted in blocks; piece j of value v is the pair <<v, j>>.      *)
EXTENDS BlockBitmap, FiniteSets, SequencesExt

CONSTANTS
    Key, NoKey,      \* a slot is free when its keysize is 0: NoKey
    Hash,            \* the hash of each key
    HashSize,
    Val, Size,       \* the values and the number of blocks of each
    Delta,           \* what cache_inc makes of each value, read as an integer
    MathInitial,
    StartTime,
    Configs,         \* the options of --cache2, each with the scope of its callers
    Torn, NoEntry    \* what a get finds that is no value

\* max_items counts slot 0, which is never used.  keys, vals and ttl bound what
\* the callers ask for, math says whether they use cache_inc and its like, and
\* until is the time after StartTime at which the clock of the model stops.
Config ==
    [max_items : Nat \ {0, 1}, blocks : Nat \ {0}, use_blocks_bitmap : BOOLEAN,
     purge_lru : BOOLEAN, lazy_expire : BOOLEAN, clear_on_full : BOOLEAN,
     sweep_on_full : Nat, store : BOOLEAN, udp_servers : BOOLEAN,
     keys : SUBSET Key, vals : SUBSET Val, ttl : SUBSET Nat, math : BOOLEAN, until : Nat]

ASSUME CacheSizes ==
    /\ NoKey \notin Key
    /\ HashSize \in Nat \ {0}
    /\ Hash \in [Key -> Nat]
    /\ Size \in [Val -> Nat \ {0}]
    /\ Delta \in [Val -> Val] /\ MathInitial \in Val
    /\ Size[MathInitial] = 1 /\ \A v \in Val : Size[Delta[v]] = 1
    /\ StartTime \in Nat \ {0}
    /\ Configs \subseteq Config
    /\ \A conf \in Configs : conf.max_items <= conf.blocks

VARIABLES
    uc,              \* struct uwsgi_cache, its items and its data
    now,             \* uwsgi_now()
    current_time,    \* the master's copy of it
    sweep            \* the slot the sweeper visits next, 0 when it sleeps

vars == <<uc, now, current_time, sweep>>

Bucket == 0 .. HashSize - 1
SlotsOf(conf) == 1 .. conf.max_items - 1
Slot == SlotsOf(uc.conf)
Block == 0 .. uc.conf.blocks - 1

\* cache_sweeper_loop is started for a cache that expires its items by itself.
Sweeps(c) == ~c.conf.purge_lru /\ ~c.conf.lazy_expire

NoItem == [key |-> NoKey, valsize |-> 0, first_block |-> 0, expires |-> 0,
           prev |-> 0, next |-> 0, lru_prev |-> 0, lru_next |-> 0]

Live(c, i) == c.items[i].key # NoKey

\* uwsgi_cache_item.hash modulo the size of the table; a freed item has hash 0.
BucketOf(item) == IF item.key = NoKey THEN 0 ELSE Hash[item.key] % HashSize

\* The slots met from slot i on along a link: next, or lru_next.
Link(c, i, link) == IF i = 0 THEN 0 ELSE c.items[i][link]

After(c, i, link) ==
    LET hop[n \in 0 .. c.conf.max_items] == IF n = 0 THEN i ELSE Link(c, hop[n - 1], link)
    IN  SelectSeq([n \in 1 .. c.conf.max_items + 1 |-> hop[n - 1]], LAMBDA s : s # 0)

Chain(c, b) == After(c, c.hashtable[b], "next")

(****************************************************************************)
(* The least recently used list                                             *)
(****************************************************************************)
SetLink(c, i, link, to) == IF i = 0 THEN c ELSE [c EXCEPT !.items[i][link] = to]

LruRemove(c, index) ==
    LET curr == c.items[index]
    IN  [SetLink(SetLink(c, curr.lru_next, "lru_prev", curr.lru_prev),
                 curr.lru_prev, "lru_next", curr.lru_next)
            EXCEPT !.lru_tail = IF curr.lru_next = 0 THEN curr.lru_prev ELSE @,
                   !.lru_head = IF curr.lru_prev = 0 THEN curr.lru_next ELSE @]

LruAdd(c, index) ==
    [SetLink(c, c.lru_tail, "lru_next", index)
        EXCEPT !.items[index].lru_next = 0,
               !.items[index].lru_prev = c.lru_tail,
               !.lru_head = IF c.lru_tail = 0 THEN index ELSE @,
               !.lru_tail = index]

Touch(c, index) == IF c.conf.purge_lru THEN LruAdd(LruRemove(c, index), index) ELSE c

(****************************************************************************)
(* uwsgi_cache_del2, for the slot it is given or has found.  What it leaves *)
(* in the first_block and lru fields of a free slot is never read again.    *)
(****************************************************************************)
\* Mutant: the next item keeps pointing back to the one that leaves.
UnlinkOneWay(c, index) ==
    LET uci == c.items[index]
    IN  [SetLink(c, uci.prev, "next", uci.next)
            EXCEPT !.hashtable[BucketOf(uci)] = IF uci.prev = 0 THEN uci.next ELSE @]

Unlink(c, index) ==
    LET uci == c.items[index]
    IN  [SetLink(SetLink(c, uci.prev, "next", uci.next), uci.next, "prev", uci.prev)
            EXCEPT !.hashtable[BucketOf(uci)] = IF uci.prev = 0 THEN uci.next ELSE @]

\* Mutant: only the first block of the value is unmarked.
ReleaseFirst(c, uci) ==
    IF c.conf.use_blocks_bitmap THEN [c EXCEPT !.used = Unmark(@, uci.first_block, 1)] ELSE c

Release(c, uci) ==
    IF c.conf.use_blocks_bitmap THEN [c EXCEPT !.used = Unmark(@, uci.first_block, uci.valsize)] ELSE c

Forget(c, index) == IF c.conf.purge_lru THEN LruRemove(c, index) ELSE c

Del(c, index) ==
    IF Live(c, index)
    THEN [Forget(Unlink(Release(c, c.items[index]), index), index)
             EXCEPT !.unused = Append(@, index), !.n_items = @ - 1, !.items[index] = NoItem]
    ELSE c

DelAll(c, slots) == FoldLeft(Del, c, SetToSortSeq(slots, <))

(****************************************************************************)
(* cache_full: make room as the cache is configured to.                     *)
(****************************************************************************)
\* Mutant: items are removed a second before they expire.
ExpiredSlotsEarly(c, t) == {i \in Slot : c.items[i].expires \in 1 .. t + 1}

ExpiredSlots(c, t) == {i \in Slot : c.items[i].expires \in 1 .. t}

\* Expired items go first, and everything goes when there were none.
MakeRoom(c) ==
    LET due == c.conf.sweep_on_full > 0 /\ c.next_scan <= now
        expired == IF due THEN ExpiredSlots(c, now) ELSE {}
    IN  DelAll(IF due THEN [c EXCEPT !.next_scan = now + c.conf.sweep_on_full] ELSE c,
               IF c.conf.clear_on_full /\ expired = {} THEN Slot ELSE expired)

CacheFull(c) ==
    MakeRoom(IF c.conf.purge_lru /\ c.lru_head # 0 THEN Del(c, c.lru_head) ELSE c)

(****************************************************************************)
(* uwsgi_cache_get_index and check_lazy: the slot of a key, 0 if there is   *)
(* none, and the cache without the item when it was found to be expired.    *)
(****************************************************************************)
Find(c, key) ==
    LET b == Hash[key] % HashSize
        head == c.hashtable[b]
        hits == SelectSeq(Chain(c, b), LAMBDA i : c.items[i].key = key)
    IN  IF head = 0 \/ BucketOf(c.items[head]) # b \/ hits = <<>> THEN 0 ELSE hits[1]

Stale(c, i) == c.conf.lazy_expire /\ c.items[i].expires \in 1 .. now

CheckLazy(c, i) == IF i # 0 /\ Stale(c, i) THEN 0 ELSE i

GetIndex(c, key) == CheckLazy(c, Find(c, key))

DropStale(c, i) == IF i # 0 /\ Stale(c, i) THEN Del(c, i) ELSE c

Checked(c, key) == DropStale(c, Find(c, key))

(****************************************************************************)
(* uwsgi_cache_set2.  req is what the caller asks for: the key and value,   *)
(* the expiration and the flags.                                            *)
(****************************************************************************)
\* The expiration that is stored, and the time of the next scan.
Expires(c, req) ==
    IF ~c.conf.purge_lru /\ req.expires > 0 /\ ~req.abs THEN now + req.expires ELSE req.expires

\* Mutant: a scan that is due later is not brought forward.
ScheduleFirst(c, req) ==
    IF ~c.conf.purge_lru /\ req.expires > 0 /\ ~req.abs /\ c.next_scan = 0
    THEN [c EXCEPT !.next_scan = Expires(c, req)] ELSE c

Schedule(c, req) ==
    LET e == Expires(c, req)
    IN  IF ~c.conf.purge_lru /\ req.expires > 0 /\ ~req.abs /\ (c.next_scan = 0 \/ c.next_scan > e)
        THEN [c EXCEPT !.next_scan = e] ELSE c

FirstBlock(c, index, val) ==
    IF c.conf.use_blocks_bitmap THEN FindFreeBlocks(c.used, c.conf.blocks, c.pos, Size[val]) ELSE index

Reserve(c, first, val) ==
    IF c.conf.use_blocks_bitmap
    THEN [c EXCEPT !.used = Mark(@, first, Size[val]), !.pos = NextPos(c.conf.blocks, first, Size[val])]
    ELSE c

\* memcpy of the value into its blocks.
Write(c, first, val) ==
    [c EXCEPT !.data = [b \in Block |-> IF b \in first .. first + Size[val] - 1
                                        THEN <<val, b - first>> ELSE @[b]]]

\* Appended at the end of its chain.
Enlist(c, index) ==
    LET b == BucketOf(c.items[index])
        chain == Chain(c, b)
    IN  IF chain = <<>> THEN [c EXCEPT !.hashtable[b] = index]
        ELSE [c EXCEPT !.items[Last(chain)].next = index, !.items[index].prev = Last(chain)]

\* The item that leaves the stack of the unused ones.
Fill(c, index, first, val, req) ==
    [(IF c.conf.purge_lru THEN LruAdd(c, index) ELSE Schedule(c, req))
        EXCEPT !.unused = Front(@),
               !.items[index].key = req.key,
               !.items[index].valsize = Size[val],
               !.items[index].first_block = first,
               !.items[index].expires = Expires(c, req),
               !.n_items = @ + 1]

Add(c, index, first, val, req) ==
    IF first = NoBlock THEN CacheFull(c)
    ELSE Enlist(Write(Fill(Reserve(c, first, val), index, first, val, req), first, val), index)

AddIn(room, req) ==
    LET index == Last(room.unused)
        val == IF req.math THEN Delta[MathInitial] ELSE req.val
    IN  IF room.unused = <<>> THEN room
        ELSE Add(room, index, FirstBlock(room, index, val), val, req)

SetNew(c, req) == AddIn(IF c.unused = <<>> THEN CacheFull(c) ELSE c, req)

\* Mutant: UWSGI_CACHE_FLAG_FIXEXPIRE is ignored.
TimedAlways(c, index, req) ==
    [Schedule(Touch(c, index), req) EXCEPT !.items[index].expires = Expires(c, req)]

\* An update keeps the slot.  The expiration, unless FIXEXPIRE says otherwise,
\* changes before the blocks are looked for, and a value in a bitmap moves to new
\* ones, from which an arithmetic update then reads its operand.
Timed(c, index, req) ==
    IF req.math THEN c
    ELSE [Schedule(Touch(c, index), req) EXCEPT !.items[index].expires = Expires(c, req)]

Rewrite(c, index, first, val) ==
    [Write(c, first, val) EXCEPT !.items[index].first_block = first,
                                 !.items[index].valsize = Size[val]]

Move(c, index, first, req) ==
    IF first = NoBlock THEN CacheFull(c)
    ELSE Rewrite(Release(Reserve(c, first, req.val), c.items[index]), index, first,
                 IF req.math THEN Delta[c.data[first][1]] ELSE req.val)

MoveIn(c, index, req) ==
    Move(c, index, IF c.conf.use_blocks_bitmap THEN FirstBlock(c, index, req.val)
                   ELSE c.items[index].first_block, req)

SetOld(c, index, req) == MoveIn(Timed(c, index, req), index, req)

MaxItemSize(c) == IF c.conf.use_blocks_bitmap THEN c.conf.blocks ELSE 1

SetAt(c, index, req) ==
    IF index = 0 THEN SetNew(Checked(c, req.key), req)
    ELSE IF req.update THEN SetOld(c, index, req)
    ELSE c

Set2(c, req) ==
    IF Size[req.val] > MaxItemSize(c) THEN c ELSE SetAt(c, GetIndex(c, req.key), req)

(****************************************************************************)
(* uwsgi_cache_init and uwsgi_cache_fix: what a process that starts finds.  *)
(* The items and the data come from the backing store, all else is new; the *)
(* bitmap and its position are.                                             *)
(****************************************************************************)
Lowest(S) == IF S = {} THEN 0 ELSE CHOOSE i \in S : \A j \in S : i <= j

Start(conf, items, data) ==
    LET live == {i \in SlotsOf(conf) : items[i].key # NoKey}
        heads(b) == {i \in live : items[i].prev = 0 /\ BucketOf(items[i]) = b}
    IN  [conf |-> conf, items |-> items, data |-> data,
         hashtable |-> [b \in Bucket |-> IF heads(b) = {} THEN 0
                                         ELSE CHOOSE i \in heads(b) : \A j \in heads(b) : j <= i],
         unused |-> SetToSortSeq(SlotsOf(conf) \ live, <),
         used |-> IF conf.use_blocks_bitmap THEN Padding(conf.blocks) ELSE {},
         pos |-> 0,
         lru_head |-> Lowest({i \in live : items[i].lru_prev = 0}),
         lru_tail |-> Lowest({i \in live : items[i].lru_next = 0}),
         next_scan |-> Lowest({items[i].expires : i \in live} \ {0}),
         n_items |-> Cardinality(live)]

(****************************************************************************)
(* The operations                                                           *)
(****************************************************************************)
Init ==
    /\ \E conf \in Configs :
           uc = Start(conf, [i \in SlotsOf(conf) |-> NoItem],
                      [b \in 0 .. conf.blocks - 1 |-> <<MathInitial, 0>>])
    /\ now = StartTime
    /\ current_time = StartTime
    /\ sweep = 0

Request(k, v, e) == [key |-> k, val |-> v, expires |-> e, update |-> FALSE,
                     math |-> FALSE, abs |-> FALSE]

\* uwsgi_cache_magic_set and its variants: cache_set, cache_update, cache_inc.
Set(k) ==
    /\ \E v \in uc.conf.vals, e \in uc.conf.ttl : uc' = Set2(uc, Request(k, v, e))
    /\ UNCHANGED <<now, current_time, sweep>>

Update(k) ==
    /\ \E v \in uc.conf.vals, e \in uc.conf.ttl : uc' = Set2(uc, [Request(k, v, e) EXCEPT !.update = TRUE])
    /\ UNCHANGED <<now, current_time, sweep>>

Inc(k) ==
    /\ uc.conf.math
    /\ \E e \in uc.conf.ttl :
           uc' = Set2(uc, [Request(k, MathInitial, e) EXCEPT !.update = TRUE, !.math = TRUE])
    /\ UNCHANGED <<now, current_time, sweep>>

\* uwsgi_cache_magic_get.
Get(k) ==
    /\ uc' = IF GetIndex(uc, k) # 0 THEN Touch(uc, GetIndex(uc, k)) ELSE Checked(uc, k)
    /\ UNCHANGED <<now, current_time, sweep>>

\* uwsgi_cache_magic_del, and the delete command of cache_udp_server_loop.
Delete(k) ==
    /\ uc' = IF GetIndex(uc, k) # 0 THEN Del(uc, GetIndex(uc, k)) ELSE Checked(uc, k)
    /\ UNCHANGED <<now, current_time, sweep>>

\* uwsgi_cache_magic_clear.
Clear ==
    /\ uc' = DelAll(uc, Slot)
    /\ UNCHANGED <<now, current_time, sweep>>

\* cache_udp_server_loop: the sender has made the expiration absolute.
UdpSet(k) ==
    /\ uc.conf.udp_servers
    /\ \E v \in uc.conf.vals, e \in {0} \cup {now + t : t \in uc.conf.ttl \ {0}} :
           uc' = Set2(uc, [Request(k, v, e) EXCEPT !.update = TRUE, !.abs = TRUE])
    /\ UNCHANGED <<now, current_time, sweep>>

\* cache_sweeper_free_items: the test of next_scan, then a visit to each slot.
SweepStart ==
    /\ Sweeps(uc)
    /\ sweep = 0
    /\ uc.next_scan \in 1 .. current_time
    /\ sweep' = 1
    /\ UNCHANGED <<uc, now, current_time>>

\* Mutant: the scan deletes what has expired and does not look for the next time.
SweepSlotUnscheduled ==
    LET c == IF sweep = 1 THEN [uc EXCEPT !.next_scan = 0] ELSE uc
    IN  /\ sweep # 0
        /\ uc' = IF c.items[sweep].expires \in 1 .. current_time THEN Del(c, sweep) ELSE c
        /\ sweep' = IF sweep + 1 = uc.conf.max_items THEN 0 ELSE sweep + 1
        /\ UNCHANGED <<now, current_time>>

SweepSlot ==
    LET c == IF sweep = 1 THEN [uc EXCEPT !.next_scan = 0] ELSE uc
        e == c.items[sweep].expires
    IN  /\ sweep # 0
        /\ uc' = IF e \in 1 .. current_time THEN Del(c, sweep)
                 ELSE IF e > 0 /\ (c.next_scan = 0 \/ c.next_scan > e)
                      THEN [c EXCEPT !.next_scan = e]
                 ELSE c
        /\ sweep' = IF sweep + 1 = uc.conf.max_items THEN 0 ELSE sweep + 1
        /\ UNCHANGED <<now, current_time>>

Tick ==
    /\ now < StartTime + uc.conf.until
    /\ now' = now + 1
    /\ UNCHANGED <<uc, current_time, sweep>>

\* One turn of master_loop.
Cycle ==
    /\ current_time < now
    /\ current_time' = now
    /\ UNCHANGED <<uc, now, sweep>>

\* The whole uWSGI stack is stopped, or killed, and started again.
Restart ==
    /\ uc.conf.store
    /\ uc' = Start(uc.conf, uc.items, uc.data)
    /\ sweep' = 0
    /\ current_time' = now
    /\ UNCHANGED now

Next ==
    \/ \E k \in uc.conf.keys : Set(k) \/ Update(k) \/ Inc(k) \/ Get(k) \/ Delete(k) \/ UdpSet(k)
    \/ Clear \/ SweepStart \/ SweepSlot \/ Tick \/ Cycle \/ Restart

Spec == Init /\ [][Next]_vars

\* The sweeper thread and the master loop never stop.
Fairness == WF_vars(SweepStart \/ SweepSlot) /\ WF_vars(Cycle)

(****************************************************************************)
(* Properties                                                               *)
(****************************************************************************)
BlocksOf(i) == uc.items[i].first_block .. uc.items[i].first_block + uc.items[i].valsize - 1

LiveSlots == {i \in Slot : Live(uc, i)}

Item == [key : Key \cup {NoKey}, valsize : 0 .. uc.conf.blocks, first_block : Block, expires : Nat,
         prev : Slot \cup {0}, next : Slot \cup {0},
         lru_prev : Slot \cup {0}, lru_next : Slot \cup {0}]

\* The state of struct uwsgi_cache, its item table and its data is well typed.
TypeOK ==
    /\ uc.conf \in Configs
    /\ uc.items \in [Slot -> Item]
    /\ uc.hashtable \in [Bucket -> Slot \cup {0}]
    /\ uc.unused \in Seq(Slot)
    /\ uc.used \subseteq 0 .. 8 * BitmapSize(uc.conf.blocks) - 1
    /\ uc.pos \in Block
    /\ uc.data \in [Block -> Val \X Nat]
    /\ uc.lru_head \in Slot \cup {0} /\ uc.lru_tail \in Slot \cup {0}
    /\ uc.next_scan \in Nat /\ uc.n_items \in 0 .. uc.conf.max_items - 1
    /\ now \in Nat /\ current_time \in Nat /\ sweep \in Slot \cup {0}

\* seq visits exactly the slots of S, once each, and back is the link by which
\* each of them points to the one before.
DoublyLinked(seq, S, back) ==
    /\ IsInjective(seq)
    /\ ToSet(seq) = S
    /\ \A n \in 1 .. Len(seq) :
           uc.items[seq[n]][back] = IF n = 1 THEN 0 ELSE seq[n - 1]

\* After any mixture of set2, del2, cache_full, the sweeper and cache_fix every
\* slot is either once in the stack of the unused ones or once in the chain of
\* its own bucket, with prev the inverse of next: no slot leaks, none is handed
\* out twice, and no chain has the loop uwsgi_cache_get_index raises an alarm for.
\* A key has one item, even when making room for it has deleted and relinked others.
\* With purge_lru the list from lru_head to lru_tail holds exactly the items of the
\* cache, so the slot cache_full purges is always one that is in use.
SlotsAccounted ==
    /\ TypeOK
    /\ IsInjective(uc.unused)
    /\ ToSet(uc.unused) = Slot \ LiveSlots
    /\ uc.n_items = Cardinality(LiveSlots)
    /\ \A b \in Bucket :
           DoublyLinked(Chain(uc, b), {i \in LiveSlots : BucketOf(uc.items[i]) = b}, "prev")
    /\ \A i, j \in LiveSlots : uc.items[i].key = uc.items[j].key => i = j
    /\ uc.conf.purge_lru =>
          LET lru == After(uc, uc.lru_head, "lru_next")
          IN  /\ DoublyLinked(lru, LiveSlots, "lru_prev")
              /\ uc.lru_tail = IF lru = <<>> THEN 0 ELSE Last(lru)

\* No two items share a block, whichever of the paths that take, move and release
\* blocks their slots went through; with a bitmap the bits that are set are exactly
\* those of the blocks in use and of the padding of the last byte: no block leaks,
\* and none in use looks free, when a value moves, fails to move, or is deleted.
BlocksExact ==
    /\ \A i, j \in LiveSlots : i # j => BlocksOf(i) \cap BlocksOf(j) = {}
    /\ uc.conf.use_blocks_bitmap =>
          uc.used = Padding(uc.conf.blocks) \cup UNION {BlocksOf(i) : i \in LiveSlots}

\* An item that can expire is never out of the sweeper's sight: either the scan
\* under way has still to visit its slot, or the next one is due, and no later
\* than the item expires unless cache_full has just used next_scan for itself.
ScanScheduled ==
    Sweeps(uc) =>
        \A i \in Slot :
            LET e == uc.items[i].expires
            IN  e > 0 /\ (sweep = 0 \/ i < sweep) =>
                    uc.next_scan > 0 /\ (uc.conf.sweep_on_full = 0 => uc.next_scan <= e)

\* The value a get returns for a slot, unless its blocks hold the pieces of
\* several values.
Value(c, i) ==
    LET first == c.items[i].first_block
        v == c.data[first][1]
        whole == /\ c.items[i].valsize = Size[v]
                 /\ \A j \in 0 .. Size[v] - 1 : c.data[first + j] = <<v, j>>
    IN  IF whole THEN v ELSE Torn

\* What the cache holds for a key.
Entry(c, k) ==
    LET i == Find(c, k)
    IN  IF i = 0 THEN NoEntry
        ELSE [val |-> Value(c, i), expires |-> IF c.conf.purge_lru THEN 0 ELSE c.items[i].expires]

\* Every item that expires is removed, or given a new expiration, by the sweeper
\* and not only by a caller that happens to use its key (an instance that is
\* restarted on its store over and over, each time in the middle of a scan, aside).
SweepEventually ==
    \A i \in UNION {SlotsOf(conf) : conf \in Configs} :
        Sweeps(uc) /\ ~uc.conf.store /\ i \in ExpiredSlots(uc, now) ~> i \notin ExpiredSlots(uc, now)
=============================================================================
