------------------------------ MODULE CacheMap ------------------------------
(* What a uWSGI cache promises: a key maps to the value stored last under it, *)
(* until it is deleted or expires; only a cache configured to make room for   *)
(* new items (purge_lru, clear_on_full) may lose an item that did not expire. *)
EXTENDS Naturals

CONSTANTS Key, Val, NoEntry,
          TTL,        \* the expirations callers ask for, 0 for never
          Delta       \* what an arithmetic operation makes of a value

VARIABLES store, now,
          evicts      \* whether the cache is configured to make room

\* What a caller may find under a key it has just set.
Fresh == [val : Val, expires : {0} \cup {now + t : t \in TTL \ {0}}]

Expired == {k \in Key : store[k] # NoEntry /\ store[k].expires \in 1 .. now}

\* The other keys keep their entries, or lose them for a reason.
Kept(k) == \/ store'[k] = store[k]
           \/ store'[k] = NoEntry /\ (evicts \/ k \in Expired)

Others(k) == \A j \in Key \ {k} : Kept(j)

Init == store = [k \in Key |-> NoEntry] /\ now \in Nat /\ evicts \in BOOLEAN

Put(k) == store'[k] \in Fresh /\ Others(k) /\ now' = now

\* An update that finds no room has already changed the expiration.
FailedPut(k) ==
    /\ store[k] # NoEntry
    /\ \/ Kept(k)
       \/ store'[k] \in Fresh /\ store'[k].val = store[k].val
    /\ Others(k)
    /\ now' = now

Count(k) ==
    /\ store[k] # NoEntry
    /\ store'[k] = [store[k] EXCEPT !.val = Delta[@]]
    /\ Others(k)
    /\ now' = now

Delete(k) == store' = [store EXCEPT ![k] = NoEntry] /\ now' = now

Clear == store' = [k \in Key |-> NoEntry] /\ now' = now

Lose == (\A k \in Key : Kept(k)) /\ now' = now

Tick == now' = now + 1 /\ UNCHANGED store

Next == \/ \E k \in Key : Put(k) \/ FailedPut(k) \/ Count(k) \/ Delete(k)
        \/ Clear \/ Lose \/ Tick

Spec == Init /\ [][Next /\ UNCHANGED evicts]_<<store, now, evicts>>
=============================================================================
