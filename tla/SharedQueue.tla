---------------------------- MODULE SharedQueue ----------------------------
(* The message queue that every worker shares through one mmap()ed ring      *)
(* (core/queue.c): a header {pos, pull_pos} and queue_size slots, where a    *)
(* slot whose item size is 0 is free.  The language plugins bracket every    *)
(* call with uwsgi_wlock(queue_lock) / uwsgi_rwunlock(queue_lock), but the   *)
(* header and the slot are separate stores, and a worker that is killed      *)
(* (harakiri, mercy) between two of them leaves them as they are; the        *)
(* master's deadlock detector then frees the lock.                           *)
EXTENDS Naturals, Sequences, FiniteSets

CONSTANTS Proc,        \* the processes that use the queue
          Msg,         \* the messages; each is pushed or set at most once
          QueueSize,   \* uwsgi.queue_size
          NoMsg, NoProc

ASSUME QueueSizeAssumption == QueueSize \in Nat \ {0}
ASSUME NoMsgAssumption == NoMsg \notin Msg
ASSUME NoProcAssumption == NoProc \notin Proc

Slot == 0 .. QueueSize - 1

VARIABLES slots,       \* the item of every slot, NoMsg when its size is 0
          pos,         \* queue_header->pos, where the next push writes
          pull_pos,    \* queue_header->pull_pos, where the next pull reads
          queue_lock,  \* the process holding the write lock
          pc,          \* where each process is
          arg,         \* the message a process is pushing, or has copied out
          at,          \* the slot a process is working on
          delivered,   \* every message handed to an application, in order
          pushed,      \* every message stored by a completed push, in order
          disturbed    \* an overwrite, a pop, a set or a kill has happened

vars == <<slots, pos, pull_pos, queue_lock, pc, arg, at,
          delivered, pushed, disturbed>>

PC == {"idle", "push", "pushed", "pull", "pulled", "pop", "popped",
       "set", "unlock", "dead"}

Init ==
    /\ slots = [i \in Slot |-> NoMsg]
    /\ pos = 0
    /\ pull_pos = 0
    /\ queue_lock = NoProc
    /\ pc = [p \in Proc |-> "idle"]
    /\ arg = [p \in Proc |-> NoMsg]
    /\ at = [p \in Proc |-> 0]
    /\ delivered = <<>>
    /\ pushed = <<>>
    /\ disturbed = FALSE

Forward(i) == IF i + 1 >= QueueSize THEN 0 ELSE i + 1
Backward(i) == IF i = 0 THEN QueueSize - 1 ELSE i - 1

\* Messages already given to the queue: applications never send one twice.
Used == {slots[i] : i \in Slot} \cup {arg[p] : p \in Proc}
          \cup {delivered[k] : k \in DOMAIN delivered}
          \cup {pushed[k] : k \in DOMAIN pushed}

-----------------------------------------------------------------------------
(* uwsgi_wlock(uwsgi.queue_lock), then the call.                             *)

\* Mutant: a read lock, as uwsgi_queue_get takes, admits several processes.
LockShared(p, next) ==
    /\ pc[p] = "idle"
    /\ queue_lock' = p
    /\ pc' = [pc EXCEPT ![p] = next]

Lock(p, next) ==
    /\ pc[p] = "idle"
    /\ queue_lock = NoProc
    /\ queue_lock' = p
    /\ pc' = [pc EXCEPT ![p] = next]

BeginPush(p) ==
    /\ Lock(p, "push")
    /\ \E m \in Msg \ Used : arg' = [arg EXCEPT ![p] = m]
    /\ UNCHANGED <<slots, pos, pull_pos, at, delivered, pushed, disturbed>>

BeginPull(p) ==
    /\ Lock(p, "pull")
    /\ UNCHANGED <<slots, pos, pull_pos, arg, at, delivered, pushed, disturbed>>

BeginPop(p) ==
    /\ Lock(p, "pop")
    /\ UNCHANGED <<slots, pos, pull_pos, arg, at, delivered, pushed, disturbed>>

BeginSet(p) ==
    /\ Lock(p, "set")
    /\ \E m \in Msg \ Used : arg' = [arg EXCEPT ![p] = m]
    /\ \E i \in Slot : at' = [at EXCEPT ![p] = i]
    /\ UNCHANGED <<slots, pos, pull_pos, delivered, pushed, disturbed>>

\* uwsgi_queue_push: the item goes to slot pos whatever is there ...
PushStore(p) ==
    /\ pc[p] = "push"
    /\ slots' = [slots EXCEPT ![pos] = arg[p]]
    /\ disturbed' = (disturbed \/ slots[pos] # NoMsg)
    /\ pc' = [pc EXCEPT ![p] = "pushed"]
    /\ UNCHANGED <<pos, pull_pos, queue_lock, arg, at, delivered, pushed>>

\* ... and pos moves on.
PushAdvance(p) ==
    /\ pc[p] = "pushed"
    /\ pos' = Forward(pos)
    /\ pushed' = Append(pushed, arg[p])
    /\ arg' = [arg EXCEPT ![p] = NoMsg]
    /\ pc' = [pc EXCEPT ![p] = "unlock"]
    /\ UNCHANGED <<slots, pull_pos, queue_lock, at, delivered, disturbed>>

\* Mutant: pull_pos moves even when the slot is free, as pos does in a pop.
PullAdvanceAlways(p) ==
    /\ pc[p] = "pull"
    /\ pc' = [pc EXCEPT ![p] = "pulled"]
    /\ at' = [at EXCEPT ![p] = pull_pos]
    /\ pull_pos' = Forward(pull_pos)
    /\ UNCHANGED <<slots, pos, queue_lock, arg, delivered, pushed, disturbed>>

\* uwsgi_queue_pull: NULL when slot pull_pos is free; otherwise pull_pos moves
\* on first ...
PullAdvance(p) ==
    /\ pc[p] = "pull"
    /\ IF slots[pull_pos] = NoMsg
       THEN /\ pc' = [pc EXCEPT ![p] = "unlock"]
            /\ UNCHANGED <<pull_pos, at>>
       ELSE /\ pc' = [pc EXCEPT ![p] = "pulled"]
            /\ at' = [at EXCEPT ![p] = pull_pos]
            /\ pull_pos' = Forward(pull_pos)
    /\ UNCHANGED <<slots, pos, queue_lock, arg, delivered, pushed, disturbed>>

\* Mutant: the item size is not zeroed.
TakeSlotKeepSize(p) ==
    /\ slots' = slots
    /\ arg' = [arg EXCEPT ![p] = slots[at[p]]]
    /\ pc' = [pc EXCEPT ![p] = "unlock"]

\* ... the slot is freed, and the caller copies the message out.
TakeSlot(p) ==
    /\ slots' = [slots EXCEPT ![at[p]] = NoMsg]
    /\ arg' = [arg EXCEPT ![p] = slots[at[p]]]
    /\ pc' = [pc EXCEPT ![p] = "unlock"]

PullTake(p) ==
    /\ pc[p] = "pulled"
    /\ TakeSlot(p)
    /\ UNCHANGED <<pos, pull_pos, queue_lock, at, delivered, pushed, disturbed>>

\* uwsgi_queue_pop: pos moves back first, whether or not an item is there ...
PopRetreat(p) ==
    /\ pc[p] = "pop"
    /\ pos' = Backward(pos)
    /\ at' = [at EXCEPT ![p] = Backward(pos)]
    /\ disturbed' = TRUE
    /\ pc' = [pc EXCEPT ![p] = "popped"]
    /\ UNCHANGED <<slots, pull_pos, queue_lock, arg, delivered, pushed>>

\* ... then the slot is freed; a free one is a NULL result.
PopTake(p) ==
    /\ pc[p] = "popped"
    /\ TakeSlot(p)
    /\ UNCHANGED <<pos, pull_pos, queue_lock, at, delivered, pushed, disturbed>>

\* uwsgi_queue_set: the item replaces whatever slot `at' holds.
SetStore(p) ==
    /\ pc[p] = "set"
    /\ slots' = [slots EXCEPT ![at[p]] = arg[p]]
    /\ arg' = [arg EXCEPT ![p] = NoMsg]
    /\ disturbed' = TRUE
    /\ pc' = [pc EXCEPT ![p] = "unlock"]
    /\ UNCHANGED <<pos, pull_pos, queue_lock, at, delivered, pushed>>

\* uwsgi_rwunlock, and the copied message is returned to the application.
Unlock(p) ==
    /\ pc[p] = "unlock"
    /\ queue_lock' = NoProc
    /\ delivered' = IF arg[p] = NoMsg THEN delivered
                                      ELSE Append(delivered, arg[p])
    /\ arg' = [arg EXCEPT ![p] = NoMsg]
    /\ pc' = [pc EXCEPT ![p] = "idle"]
    /\ UNCHANGED <<slots, pos, pull_pos, at, pushed, disturbed>>

-----------------------------------------------------------------------------
\* SIGKILL from the master in the middle of a call.
Kill(p) ==
    /\ queue_lock = p
    /\ pc[p] # "dead"
    /\ pc' = [pc EXCEPT ![p] = "dead"]
    /\ arg' = [arg EXCEPT ![p] = NoMsg]
    /\ disturbed' = TRUE
    /\ UNCHANGED <<slots, pos, pull_pos, queue_lock, at, delivered, pushed>>

\* uwsgi_deadlock_check(diedpid) frees the lock and the worker is respawned.
DeadlockCheck(p) ==
    /\ pc[p] = "dead"
    /\ queue_lock' = NoProc
    /\ pc' = [pc EXCEPT ![p] = "idle"]
    /\ UNCHANGED <<slots, pos, pull_pos, arg, at, delivered, pushed, disturbed>>

\* The whole server is restarted on its --queue-store: uwsgi_init_queue maps the
\* file as it was left, with a fresh lock.
Restart ==
    /\ queue_lock' = NoProc
    /\ pc' = [p \in Proc |-> "idle"]
    /\ arg' = [p \in Proc |-> NoMsg]
    /\ disturbed' = (disturbed \/ queue_lock # NoProc)
    /\ UNCHANGED <<slots, pos, pull_pos, at, delivered, pushed>>

Next ==
    \/ Restart
    \/ \E p \in Proc :
          \/ BeginPush(p) \/ PushStore(p) \/ PushAdvance(p)
          \/ BeginPull(p) \/ PullAdvance(p) \/ PullTake(p)
          \/ BeginPop(p) \/ PopRetreat(p) \/ PopTake(p)
          \/ BeginSet(p) \/ SetStore(p)
          \/ Unlock(p) \/ Kill(p) \/ DeadlockCheck(p)

Spec == Init /\ [][Next]_vars

-----------------------------------------------------------------------------
\* The ring of core/queue.c and the locals of its callers are well typed: pos and
\* pull_pos stay inside the ring after every wrap, forwards and backwards.
TypeOK ==
    /\ slots \in [Slot -> Msg \cup {NoMsg}]
    /\ pos \in Slot
    /\ pull_pos \in Slot
    /\ queue_lock \in Proc \cup {NoProc}
    /\ pc \in [Proc -> PC]
    /\ arg \in [Proc -> Msg \cup {NoMsg}]
    /\ at \in [Proc -> Slot]
    /\ delivered \in Seq(Msg)
    /\ pushed \in Seq(Msg)
    /\ disturbed \in BOOLEAN

\* No message reaches the applications twice, whatever mix of push, pull, pop,
\* set, kills and restarts the workers go through: uwsgi_queue_pull and
\* uwsgi_queue_pop zero the item size before the lock is released.
AtMostOnce ==
    \A i, j \in DOMAIN delivered : delivered[i] = delivered[j] => i = j

\* What consecutive pulls would return from here on.
Ahead(k) == (pull_pos + k) % QueueSize
Contents ==
    LET n == CHOOSE n \in 0 .. QueueSize :
                 /\ \A k \in 0 .. n - 1 : slots[Ahead(k)] # NoMsg
                 /\ n < QueueSize => slots[Ahead(n)] = NoMsg
    IN  [k \in 1 .. n |-> slots[Ahead(k - 1)]]

\* As long as nothing was overwritten, popped, set or killed in the middle of a
\* call, push and pull (also across restarts on the store file) are a lossless
\* FIFO: what was pushed is what was delivered followed by what further pulls
\* return, in push order.
Fifo ==
    ~disturbed /\ queue_lock = NoProc => pushed = delivered \o Contents

-----------------------------------------------------------------------------
(* The strengthening that makes AtMostOnce inductive.                        *)

\* Everyone inside a call holds the write lock; everyone outside holds nothing.
Exclusive ==
    \A p \in Proc : IF pc[p] = "idle" THEN arg[p] = NoMsg
                                      ELSE queue_lock = p

\* A stored message sits in one slot and has not been delivered.
StoredOnce ==
    /\ \A i, j \in Slot : slots[i] = slots[j] /\ slots[i] # NoMsg => i = j
    /\ \A i \in Slot : \A k \in DOMAIN delivered : slots[i] # delivered[k]

\* A message on its way in, or on its way out, is nowhere else.
InTransit ==
    \A p \in Proc :
        /\ pc[p] \in {"push", "set", "unlock"} /\ arg[p] # NoMsg =>
              /\ \A i \in Slot : slots[i] # arg[p]
              /\ \A k \in DOMAIN delivered : delivered[k] # arg[p]
        /\ pc[p] \in {"pull", "pulled", "pop", "popped", "dead"} =>
              arg[p] = NoMsg
        /\ pc[p] \in {"push", "pushed", "set"} => arg[p] # NoMsg

\* The invariant of the proof: the ring is well typed, calls exclude each other, and every
\* message is in one place.
QueueInv == TypeOK /\ Exclusive /\ StoredOnce /\ InTransit /\ AtMostOnce

=============================================================================
