---------------------------- MODULE SharedArea ----------------------------
(***************************************************************************)
(* Memory shared by the processes of an instance (core/sharedarea.c) under  *)
(* a process-shared read-write lock, and the lock itself (core/lock.c): the  *)
(* pid word next to the pthread lock, written after it is taken and cleared  *)
(* after it is released, with which the master's deadlock detector decides   *)
(* whether a process that died was holding it.                               *)
(***************************************************************************)
EXTENDS Naturals, FiniteSets

CONSTANTS
    Proc,         \* processes that use the area; a pid is never used again
    Modulus,      \* 2^w for the width w of the counters
    MaxUpdates,   \* bound: calls that change the area
    MaxFaults     \* bound: kills and failed waits

ASSUME SharedAreaAssumption ==
    /\ IsFiniteSet(Proc) /\ "none" \notin Proc
    /\ Modulus \in Nat \ {0}
    /\ MaxUpdates \in Nat /\ MaxFaults \in Nat

VARIABLES
    rw,        \* pthread_rwlock_t: whether a writer holds it, how many readers do
    pidWord,   \* uli->pid
    cells,     \* the two words of a value in the area
    updates,   \* sa->updates
    proc,      \* what each process is doing
    result,    \* history: what the finished calls add up to
    sound,     \* history: nothing released a lock that it does not hold
    whole,     \* history: nobody was killed between the stores of a change
    named,     \* history: the pid word was never missing or erased when it mattered
    faults

vars == <<rw, pidWord, cells, updates, proc, result, sound, whole, named, faults>>

NoProc == "none"
Value == 0 .. Modulus - 1

Change == {"write", "inc"}
Op == Change \cup {"read", "wait", "poll"}

\* "taken": has the lock, its pid is not stored; "released": the lock is free, the pid is
\* not cleared; "asleep": in the wait hook; "reaped": the master has noticed its death.
Place == {"idle", "taken", "first", "second", "count", "unlock", "released", "asleep", "dead",
          "reaped"}

TypeOK ==
    /\ rw \in [writer : BOOLEAN, readers : 0 .. Cardinality(Proc)]
    /\ pidWord \in Proc \cup {NoProc}
    /\ cells \in [1 .. 2 -> Value]
    /\ updates \in 0 .. MaxUpdates
    /\ proc \in [Proc -> [pc : Place, op : Op, holds : {"none", "r", "w"}, value : Value,
                          got : [1 .. 2 -> Value], seen : 0 .. MaxUpdates, woken : BOOLEAN]]
    /\ result \in Value
    /\ sound \in BOOLEAN /\ whole \in BOOLEAN /\ named \in BOOLEAN
    /\ faults \in 0 .. MaxFaults

Idle == [pc |-> "idle", op |-> "read", holds |-> "none", value |-> 0,
         got |-> [i \in 1 .. 2 |-> 0], seen |-> 0, woken |-> FALSE]

Init ==
    /\ rw = [writer |-> FALSE, readers |-> 0]
    /\ pidWord = NoProc
    /\ cells = [i \in 1 .. 2 |-> 0]
    /\ updates = 0
    /\ proc = [p \in Proc |-> Idle]
    /\ result = 0
    /\ sound = TRUE /\ whole = TRUE /\ named = TRUE
    /\ faults = 0

Fault == faults < MaxFaults /\ faults' = faults + 1

At(p, pc) == proc[p].pc = pc
-----------------------------------------------------------------------------
(* The lock *)

Locked == rw.writer \/ rw.readers > 0

\* Mutant: the counters are changed under the read lock.
LockModeInc(op) == IF op = "write" THEN "w" ELSE "r"

\* uwsgi_wlock for what changes the area, uwsgi_rlock for the rest
LockMode(op) == IF op \in Change THEN "w" ELSE "r"

Acquired(mode) ==
    IF mode = "w" THEN [rw EXCEPT !.writer = TRUE] ELSE [rw EXCEPT !.readers = @ + 1]

CanAcquire(mode) == ~rw.writer /\ (mode = "w" => rw.readers = 0)

\* pthread_rwlock_unlock; a count of readers that is already 0 is the undefined case
Released ==
    IF rw.writer \/ rw.readers = 0 THEN [rw EXCEPT !.writer = FALSE]
    ELSE [rw EXCEPT !.readers = @ - 1]

\* uwsgi_rlock_fast and uwsgi_wlock_fast: first the lock, then the pid
Acquire(p, op) ==
    /\ CanAcquire(LockMode(op))
    /\ rw' = Acquired(LockMode(op))
    /\ proc' = [proc EXCEPT ![p].pc = "taken", ![p].op = op, ![p].holds = LockMode(op)]

\* Mutant: only uwsgi_rlock_fast stores the pid.
StorePidReader(p) ==
    /\ At(p, "taken")
    /\ pidWord' = IF proc[p].holds = "r" THEN p ELSE pidWord
    /\ proc' = [proc EXCEPT ![p].pc = "first"]
    /\ UNCHANGED <<rw, cells, updates, result, sound, whole, named, faults>>

StorePid(p) ==
    /\ At(p, "taken")
    /\ pidWord' = p
    /\ proc' = [proc EXCEPT ![p].pc = "first"]
    /\ UNCHANGED <<rw, cells, updates, result, sound, whole, named, faults>>

\* uwsgi_rwunlock_fast: first the lock, then the pid
Release(p) ==
    /\ At(p, "unlock")
    /\ rw' = Released
    /\ proc' = [proc EXCEPT ![p].pc = "released", ![p].holds = "none"]
    /\ UNCHANGED <<pidWord, cells, updates, result, sound, whole, named, faults>>

\* A wait sleeps until it sees an update.
ClearPid(p) ==
    /\ At(p, "released")
    /\ pidWord' = NoProc
    /\ LET sleeps == proc[p].op \in {"wait", "poll"} /\ ~proc[p].woken
       IN  proc' = [proc EXCEPT ![p] = IF sleeps THEN [@ EXCEPT !.pc = "asleep"] ELSE Idle]
    /\ named' = (named /\ pidWord \in {p, NoProc})
    /\ UNCHANGED <<rw, cells, updates, result, sound, whole, faults>>
-----------------------------------------------------------------------------
(* The calls on the area *)

\* uwsgi_sharedarea_write and the inc and dec functions; bounded by MaxUpdates
CallChange(p, op) ==
    /\ At(p, "idle")
    /\ updates + Cardinality({q \in Proc : proc[q].pc \in {"taken", "first", "second", "count"}
                                           /\ proc[q].op \in Change}) < MaxUpdates
    /\ Acquire(p, op)
    /\ UNCHANGED <<pidWord, cells, updates, result, sound, whole, named, faults>>

\* uwsgi_sharedarea_read, and uwsgi_sharedarea_wait up to its first unlock
CallRead(p, op) ==
    /\ At(p, "idle")
    /\ Acquire(p, op)
    /\ UNCHANGED <<pidWord, cells, updates, result, sound, whole, named, faults>>

\* *n_ptr += amount computes with what it loads; a write brings its own value.
NewValue(p) ==
    IF proc[p].op = "inc" THEN (cells[1] + 1) % Modulus ELSE (Modulus - 1)

StoreFirst(p) ==
    /\ At(p, "first") /\ proc[p].op \in Change
    /\ cells' = [cells EXCEPT ![1] = NewValue(p)]
    /\ proc' = [proc EXCEPT ![p].pc = "second", ![p].value = NewValue(p)]
    /\ UNCHANGED <<rw, pidWord, updates, result, sound, whole, named, faults>>

StoreSecond(p) ==
    /\ At(p, "second") /\ proc[p].op \in Change
    /\ cells' = [cells EXCEPT ![2] = proc[p].value]
    /\ result' = IF proc[p].op = "inc" THEN (result + 1) % Modulus ELSE proc[p].value
    /\ proc' = [proc EXCEPT ![p].pc = "count"]
    /\ UNCHANGED <<rw, pidWord, updates, sound, whole, named, faults>>

CountUpdate(p) ==
    /\ At(p, "count")
    /\ updates' = updates + 1
    /\ proc' = [proc EXCEPT ![p].pc = "unlock"]
    /\ UNCHANGED <<rw, pidWord, cells, result, sound, whole, named, faults>>

CopyFirst(p) ==
    /\ At(p, "first") /\ proc[p].op = "read"
    /\ proc' = [proc EXCEPT ![p].pc = "second", ![p].got[1] = cells[1]]
    /\ UNCHANGED <<rw, pidWord, cells, updates, result, sound, whole, named, faults>>

CopySecond(p) ==
    /\ At(p, "second") /\ proc[p].op = "read"
    /\ proc' = [proc EXCEPT ![p].pc = "unlock", ![p].got[2] = cells[2]]
    /\ UNCHANGED <<rw, pidWord, cells, updates, result, sound, whole, named, faults>>

\* The first time a wait notes the counter, afterwards it compares.
LookAtUpdates(p) ==
    /\ At(p, "first") /\ proc[p].op \in {"wait", "poll"}
    /\ proc' = [proc EXCEPT ![p].pc = "unlock",
                            ![p].seen = IF proc[p].op = "wait" THEN updates ELSE @,
                            ![p].woken = proc[p].op = "poll" /\ updates # proc[p].seen]
    /\ UNCHANGED <<rw, pidWord, cells, updates, result, sound, whole, named, faults>>

\* The wait hook slept for freq milliseconds.
Wake(p) ==
    /\ At(p, "asleep")
    /\ Acquire(p, "poll")
    /\ UNCHANGED <<pidWord, cells, updates, result, sound, whole, named, faults>>

\* The hook fails (poll() was interrupted): the call unlocks what it does not hold, which
\* is undefined: it can free the lock of others, change nothing or leave it locked.
WakeFails(p) ==
    /\ At(p, "asleep")
    /\ Fault
    /\ rw' \in {rw, Released, [writer |-> TRUE, readers |-> 0]}
    /\ pidWord' = NoProc
    /\ proc' = [proc EXCEPT ![p] = Idle]
    /\ sound' = FALSE
    /\ UNCHANGED <<cells, updates, result, whole, named>>
-----------------------------------------------------------------------------
(* Kills, and the master *)

Kill(p) ==
    /\ proc[p].pc \notin {"dead", "reaped"}
    /\ Fault
    /\ proc' = [proc EXCEPT ![p] = [Idle EXCEPT !.pc = "dead", !.holds = proc[p].holds]]
    /\ sound' = (sound /\ ~At(p, "released"))
    /\ whole' = (whole /\ ~(At(p, "second") /\ proc[p].op \in Change))
    /\ named' = (named /\ ~At(p, "taken"))
    /\ UNCHANGED <<rw, pidWord, cells, updates, result>>

\* Mutant: whoever holds the lock, it is released when a process dies.
WasHoldingAny(p) == Locked

\* uwsgi_rwlock_fast_check: a lock that cannot be taken is held by the pid of the word.
WasHolding(p) == Locked /\ pidWord = p

\* uwsgi_deadlock_check, when the master has waited for the process
DeadlockCheck(p) ==
    /\ At(p, "dead")
    /\ IF WasHolding(p)
       THEN /\ rw' = Released
            /\ pidWord' = NoProc
            /\ proc' = [proc EXCEPT ![p].pc = "reaped", ![p].holds = "none"]
       ELSE /\ proc' = [proc EXCEPT ![p].pc = "reaped"]
            /\ UNCHANGED <<rw, pidWord>>
    /\ UNCHANGED <<cells, updates, result, sound, whole, named, faults>>

\* What a process does once it has called: it does not stop in the middle.
Inside(p) ==
    \/ StorePid(p) \/ StoreFirst(p) \/ StoreSecond(p) \/ CountUpdate(p)
    \/ CopyFirst(p) \/ CopySecond(p) \/ LookAtUpdates(p)
    \/ Release(p) \/ ClearPid(p)

Next ==
    \E p \in Proc :
        \/ \E op \in Change : CallChange(p, op)
        \/ \E op \in {"read", "wait"} : CallRead(p, op)
        \/ Inside(p) \/ Wake(p) \/ WakeFails(p)
        \/ Kill(p) \/ DeadlockCheck(p)

Spec == Init /\ [][Next]_vars

-----------------------------------------------------------------------------
\* The pid word never makes the detector release a lock somebody else holds: readers and
\* a writer, or two writers, are never inside together, also while processes are killed
\* and reaped, unless one was killed between the release and the clearing of the word, or
\* a failed wait released a lock.
Exclusion ==
    /\ TypeOK
    /\ sound => \A p, q \in Proc : (p # q /\ proc[p].holds = "w") => proc[q].holds = "none"

\* A read returns what one call stored, and after the calls of all processes the area
\* holds what they add up to, unless a process was killed between the stores of a change.
AreaConsistent ==
    sound /\ whole =>
        /\ \A p \in Proc : (At(p, "unlock") /\ proc[p].op = "read") => proc[p].got[1] = proc[p].got[2]
        /\ (\A p \in Proc : proc[p].holds # "w") => cells[1] = result /\ cells[2] = result

\* A writer that was killed is found by its pid and its lock released, unless it was killed
\* before it stored its pid or a late unlock cleared the pid of another holder: nothing
\* else leaves the area locked for ever by a process that is gone.
DeadWriterReleased ==
    sound /\ named => \A p \in Proc : At(p, "reaped") => proc[p].holds # "w"

=============================================================================
