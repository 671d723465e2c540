------------------------------ MODULE Spooler ------------------------------
(***************************************************************************)
(* The spooler (core/spooler.c): any process stores a task in a file of the *)
(* spool directory, and several spooler processes scan that directory, lock  *)
(* a file, run its task and unlink it.  One action is one system call (or a  *)
(* few that nobody can observe apart), so every interleaving of producers,   *)
(* spoolers, kills and the master's respawn is explored.                     *)
(***************************************************************************)
EXTENDS Naturals, FiniteSets

CONSTANTS
    Task,        \* one uwsgi_spool_request each, also the name of its file
    Spooler,     \* the processes on one directory
    MaxTasks,    \* --spooler-max-tasks, 0 for none
    CheapModes,  \* the values of --spooler-cheap to explore
    MaxFaults    \* bound: kills and failed system calls

ASSUME SpoolerAssumption ==
    /\ "none" \notin Task
    /\ {"free", "producer"} \cap Spooler = {}
    /\ MaxTasks \in Nat /\ MaxFaults \in Nat
    /\ CheapModes \subseteq BOOLEAN

VARIABLES
    file,       \* the directory: inode of each task
    lock,       \* owner of the fcntl lock of each inode
    producer,   \* progress of uwsgi_spool_request
    spooler,    \* the processes and their struct uwsgi_spooler
    history,    \* what happened to each task
    cheap,      \* --spooler-cheap
    faults

vars == <<file, lock, producer, spooler, history, cheap, faults>>

Free == "free"
Producer == "producer"

Content == {"empty", "header", "args", "full"}
Writing == {"created", "locked", "header", "args", "full"}

NoTask == "none"

TypeOK ==
    /\ file \in [Task -> [there : BOOLEAN, content : Content, future : BOOLEAN]]
    /\ lock \in [Task -> {Free, Producer} \cup Spooler]
    /\ producer \in [Task -> Writing \cup {"idle", "clear", "spooled", "failed", "killed"}]
    /\ spooler \in [Spooler ->
            [pc : {"down", "wait", "scan", "stat", "open", "locked", "header", "lstat",
                   "content", "run", "unlink", "close", "destroy"},
             task : Task \cup {NoTask},
             todo : SUBSET Task,
             tasks : 0..MaxTasks,
             managed : {"never", "same", "newer"}]]   \* last_task_managed
    /\ history \in [Task -> [at : BOOLEAN, ran : BOOLEAN, done : BOOLEAN, cut : BOOLEAN,
                             again : BOOLEAN, torn : BOOLEAN, early : BOOLEAN]]
    /\ cheap \in BOOLEAN
    /\ faults \in 0..MaxFaults

NewSpooler == [pc |-> "wait", task |-> NoTask, todo |-> {}, tasks |-> 0,
               managed |-> "never"]

\* history[t].at: the request has a time in the future.
Init ==
    /\ file = [t \in Task |-> [there |-> FALSE, content |-> "empty", future |-> FALSE]]
    /\ lock = [t \in Task |-> Free]
    /\ producer = [t \in Task |-> "idle"]
    /\ cheap \in CheapModes
    /\ spooler = [s \in Spooler |-> [NewSpooler EXCEPT !.pc = IF cheap THEN "down" ELSE "wait"]]
    /\ \E at \in [Task -> BOOLEAN] :
        history = [t \in Task |-> [at |-> at[t], ran |-> FALSE, done |-> FALSE, cut |-> FALSE,
                                   again |-> FALSE, torn |-> FALSE, early |-> FALSE]]
    /\ faults = 0

Fault == faults < MaxFaults /\ faults' = faults + 1
-----------------------------------------------------------------------------
(* uwsgi_spool_request *)

\* uspool->lock; a robust mutex, so a producer that was killed does not keep it.
Busy == \E t \in Task : producer[t] \in Writing

ProducerAt(t, pc, next) ==
    /\ producer[t] = pc
    /\ producer' = [producer EXCEPT ![t] = next]

Create(t) ==
    /\ ~Busy
    /\ ProducerAt(t, "idle", "created")
    /\ file' = [file EXCEPT ![t].there = TRUE]
    /\ UNCHANGED <<lock, spooler, history, cheap, faults>>

\* Mutant: the file is written without a lock.
LockFileSkipped(t) ==
    /\ ProducerAt(t, "created", "locked")
    /\ UNCHANGED <<file, lock, spooler, history, cheap, faults>>

\* uwsgi_fcntl_lock waits for a spooler that opened the empty file first.
LockFile(t) ==
    /\ ProducerAt(t, "created", "locked")
    /\ lock[t] = Free
    /\ lock' = [lock EXCEPT ![t] = Producer]
    /\ UNCHANGED <<file, spooler, history, cheap, faults>>

\* The wait is interrupted: the request fails and the empty file stays.
LockFileFails(t) ==
    /\ ProducerAt(t, "created", "failed")
    /\ Fault
    /\ UNCHANGED <<file, lock, spooler, history, cheap>>

\* The header, the arguments and the body are three writes.
Write(t, from, to) ==
    /\ ProducerAt(t, from, to)
    /\ file' = [file EXCEPT ![t].content = to]
    /\ UNCHANGED <<lock, spooler, history, cheap, faults>>

WriteFails(t) ==
    /\ producer[t] \in {"locked", "header", "args"}
    /\ producer' = [producer EXCEPT ![t] = "clear"]
    /\ Fault
    /\ UNCHANGED <<file, lock, spooler, history, cheap>>

\* The error path unlinks the file before the lock goes with the descriptor.
Clear(t) ==
    /\ producer[t] = "clear"
    /\ IF file[t].there
       THEN /\ file' = [file EXCEPT ![t].there = FALSE]
            /\ UNCHANGED <<lock, producer>>
       ELSE /\ lock' = [lock EXCEPT ![t] = Free]
            /\ producer' = [producer EXCEPT ![t] = "failed"]
            /\ UNCHANGED file
    /\ UNCHANGED <<spooler, history, cheap, faults>>

\* The time of the task becomes the time of the file.
SetTime(t) ==
    /\ producer[t] = "full" /\ history[t].at /\ ~file[t].future
    /\ file' = [file EXCEPT ![t].future = TRUE]
    /\ UNCHANGED <<lock, producer, spooler, history, cheap, faults>>

\* Closing the file unlocks it; the signal that wakes the idle spoolers only shortens
\* their wait.
Close(t) ==
    /\ ProducerAt(t, "full", "spooled")
    /\ history[t].at => file[t].future
    /\ lock' = [lock EXCEPT ![t] = Free]
    /\ UNCHANGED <<file, spooler, history, cheap, faults>>

KillProducer(t) ==
    /\ producer[t] \in Writing \cup {"clear"}
    /\ Fault
    /\ producer' = [producer EXCEPT ![t] = "killed"]
    /\ lock' = [lock EXCEPT ![t] = IF lock[t] = Producer THEN Free ELSE lock[t]]
    /\ UNCHANGED <<file, spooler, history, cheap>>

\* The time of a task comes.
TimeComes(t) ==
    /\ producer[t] = "spooled" /\ file[t].future
    /\ file' = [file EXCEPT ![t].future = FALSE]
    /\ history' = [history EXCEPT ![t].at = FALSE]
    /\ UNCHANGED <<lock, producer, spooler, cheap, faults>>
-----------------------------------------------------------------------------
(* The spooler process *)

At(s, pc) == spooler[s].pc = pc

Goto(s, pc) == spooler' = [spooler EXCEPT ![s].pc = pc]

\* Back to the list of files.
Skipped(s) == [spooler EXCEPT ![s].pc = "scan", ![s].task = NoTask]

Released(s) == [t \in Task |-> IF lock[t] = s THEN Free ELSE lock[t]]

\* The process ends; what it kept in shared memory stays.
Ended(s) == [spooler EXCEPT ![s].pc = "down", ![s].task = NoTask, ![s].todo = {}]

\* spooler_readdir and spooler_scandir
Scan(s) ==
    /\ At(s, "wait")
    /\ spooler' = [spooler EXCEPT ![s].pc = "scan", ![s].todo = {t \in Task : file[t].there}]
    /\ UNCHANGED <<file, lock, producer, history, cheap, faults>>

\* The first lstat of spooler_manage_task
Stat(s, t) ==
    /\ At(s, "scan") /\ t \in spooler[s].todo
    /\ LET taken == file[t].there /\ ~file[t].future
       IN  spooler' = [spooler EXCEPT ![s].todo = @ \ {t},
                                      ![s].task = IF taken THEN t ELSE NoTask,
                                      ![s].pc = IF taken THEN "stat" ELSE "scan"]
    /\ UNCHANGED <<file, lock, producer, history, cheap, faults>>

Open(s) ==
    /\ At(s, "stat")
    /\ IF file[spooler[s].task].there THEN Goto(s, "open") ELSE spooler' = Skipped(s)
    /\ UNCHANGED <<file, lock, producer, history, cheap, faults>>

\* Mutant: F_GETLK in place of F_SETLK, the lock is tested and not taken.
TryLockOnlyTest(s) ==
    /\ At(s, "open")
    /\ IF lock[spooler[s].task] \in {Free, s} THEN Goto(s, "locked") ELSE spooler' = Skipped(s)
    /\ UNCHANGED <<file, lock, producer, history, cheap, faults>>

\* uwsgi_fcntl_is_locked, which takes the lock when it is free
TryLock(s) ==
    /\ At(s, "open")
    /\ IF lock[spooler[s].task] \in {Free, s}
       THEN Goto(s, "locked") /\ lock' = [lock EXCEPT ![spooler[s].task] = s]
       ELSE spooler' = Skipped(s) /\ UNCHANGED lock
    /\ UNCHANGED <<file, producer, history, cheap, faults>>

\* unlink() can destroy the lock: the file of a finished task can still be opened here.
Recheck(s) ==
    /\ At(s, "locked")
    /\ IF file[spooler[s].task].there
       THEN Goto(s, "header") /\ UNCHANGED lock
       ELSE spooler' = Skipped(s) /\ lock' = Released(s)
    /\ UNCHANGED <<file, producer, history, cheap, faults>>

\* Mutant: a file without a header is skipped without closing it.
ReadHeaderLeaks(s) ==
    /\ At(s, "header")
    /\ IF file[spooler[s].task].content = "empty"
       THEN spooler' = Skipped(s)
       ELSE Goto(s, "lstat")
    /\ UNCHANGED <<file, lock, producer, history, cheap, faults>>

\* A file whose header is not written yet is left for a later scan.
ReadHeader(s) ==
    /\ At(s, "header")
    /\ IF file[spooler[s].task].content = "empty"
       THEN spooler' = Skipped(s) /\ lock' = Released(s)
       ELSE Goto(s, "lstat") /\ UNCHANGED lock
    /\ UNCHANGED <<file, producer, history, cheap, faults>>

\* The second lstat; when it fails the descriptor, and the lock of the lost file, leak.
Lstat(s) ==
    /\ At(s, "lstat")
    /\ IF file[spooler[s].task].there THEN Goto(s, "content") ELSE spooler' = Skipped(s)
    /\ UNCHANGED <<file, lock, producer, history, cheap, faults>>

\* The arguments must be complete.  The body is whatever follows them.
ReadContent(s) ==
    /\ At(s, "content")
    /\ IF file[spooler[s].task].content = "header"
       THEN Goto(s, "destroy") /\ lock' = Released(s)
       ELSE /\ spooler' = [spooler EXCEPT ![s].pc = "run", ![s].managed = "newer"]
            /\ UNCHANGED lock
    /\ UNCHANGED <<file, producer, history, cheap, faults>>

Executed(t) ==
    [history EXCEPT ![t].ran = TRUE,
                    ![t].again = @ \/ (history[t].done /\ ~history[t].cut),
                    ![t].torn = @ \/ (file[t].content # "full" /\ producer[t] # "killed"),
                    ![t].early = @ \/ (history[t].at /\ producer[t] = "spooled")]

\* The callable ends with -2 (the task is done), or anything else: the task stays.
Run(s) ==
    /\ At(s, "run")
    /\ LET t == spooler[s].task
       IN  \/ Goto(s, "unlink") /\ history' = [Executed(t) EXCEPT ![t].done = TRUE]
           \/ Goto(s, "close") /\ history' = Executed(t)
    /\ UNCHANGED <<file, lock, producer, cheap, faults>>

\* destroy_spool, and the spooler ends if the file is not there any more.
Destroy(s, next) ==
    LET t == spooler[s].task
    IN  IF file[t].there
        THEN /\ file' = [file EXCEPT ![t].there = FALSE]
             /\ spooler' = next
             /\ UNCHANGED lock
        ELSE /\ spooler' = Ended(s)
             /\ lock' = Released(s)
             /\ UNCHANGED file

DestroyBroken(s) ==
    /\ At(s, "destroy")
    /\ Destroy(s, Skipped(s))
    /\ UNCHANGED <<producer, history, cheap, faults>>

\* Mutant: the file is closed before it is unlinked.
UnlinkAfterClose(s) ==
    /\ At(s, "unlink")
    /\ Goto(s, "destroy")
    /\ lock' = Released(s)
    /\ UNCHANGED <<file, producer, history, cheap, faults>>

Unlink(s) ==
    /\ At(s, "unlink")
    /\ Destroy(s, [spooler EXCEPT ![s].pc = "close"])
    /\ UNCHANGED <<producer, history, cheap, faults>>

\* The lock goes with the descriptor; --spooler-max-tasks recycles the process.
Finish(s) ==
    /\ At(s, "close")
    /\ lock' = Released(s)
    /\ LET tasks == spooler[s].tasks + 1
       IN  spooler' = IF MaxTasks = 0 THEN Skipped(s)
                      ELSE IF tasks < MaxTasks THEN [Skipped(s) EXCEPT ![s].tasks = tasks]
                      ELSE [Ended(s) EXCEPT ![s].tasks = tasks]
    /\ UNCHANGED <<file, producer, history, cheap, faults>>

\* The scan is over: sleep, or end in cheap mode if last_task_managed is what the loop
\* saw before (a task managed in the same second as the one before does not change it).
ScanEnds(s) ==
    /\ At(s, "scan") /\ spooler[s].todo = {}
    /\ \/ /\ cheap => spooler[s].managed = "newer"
          /\ spooler' = [spooler EXCEPT ![s].pc = "wait",
                              ![s].managed = IF @ = "never" THEN @ ELSE "same"]
          /\ UNCHANGED lock
       \/ /\ cheap
          /\ spooler' = Ended(s)
          /\ lock' = Released(s)
    /\ UNCHANGED <<file, producer, history, cheap, faults>>

\* A crash, the harakiri of a task or the mercy of a reload (SIGHUP itself is ignored).
KillSpooler(s) ==
    /\ ~At(s, "down")
    /\ Fault
    /\ spooler' = Ended(s)
    /\ lock' = Released(s)
    /\ history' = [t \in Task |->
            [history[t] EXCEPT !.cut = @ \/ (t = spooler[s].task /\ At(s, "unlink"))]]
    /\ UNCHANGED <<file, producer, cheap>>
-----------------------------------------------------------------------------
(* The master *)

\* uwsgi_master_check_spoolers_death, and uwsgi_spooler_cheap_check when a file is there.
\* The new loop compares last_task_managed with 0.
Respawn(s) ==
    /\ At(s, "down")
    /\ cheap => \E t \in Task : file[t].there
    /\ spooler' = [spooler EXCEPT ![s].pc = "wait", ![s].tasks = 0,
                        ![s].managed = IF @ = "never" THEN @ ELSE "newer"]
    /\ UNCHANGED <<file, lock, producer, history, cheap, faults>>

SpoolRequest(t) ==
    \/ Create(t) \/ LockFile(t) \/ LockFileFails(t)
    \/ Write(t, "locked", "header") \/ Write(t, "header", "args") \/ Write(t, "args", "full")
    \/ WriteFails(t) \/ Clear(t) \/ SetTime(t) \/ Close(t)

ManageTask(s) ==
    \/ \E t \in Task : Stat(s, t)
    \/ Open(s) \/ TryLock(s) \/ Recheck(s) \/ ReadHeader(s) \/ Lstat(s) \/ ReadContent(s)
    \/ Run(s) \/ DestroyBroken(s) \/ Unlink(s) \/ Finish(s)

SpoolerStep(s) == Scan(s) \/ ManageTask(s) \/ ScanEnds(s)

\* Nothing is left to do for the spoolers that ended in cheap mode.
Rest ==
    /\ \A t \in Task : ~file[t].there /\ producer[t] \in {"spooled", "failed", "killed"}
    /\ \A s \in Spooler : At(s, "down")
    /\ UNCHANGED vars

Next ==
    \/ Rest
    \/ \E t \in Task : SpoolRequest(t) \/ KillProducer(t) \/ TimeComes(t)
    \/ \E s \in Spooler : SpoolerStep(s) \/ KillSpooler(s) \/ Respawn(s)

Spec == Init /\ [][Next]_vars

\* A blocked F_SETLKW is granted when the lock gets free often enough (the spoolers only
\* try it).  Processes run, the spooler's wait ends after spooler_frequency seconds, the master
\* respawns what died, and time passes.
Fairness ==
    /\ \A t \in Task : SF_vars(LockFile(t)) /\ WF_vars(SpoolRequest(t)) /\ WF_vars(TimeComes(t))
    /\ \A s \in Spooler : WF_vars(SpoolerStep(s)) /\ WF_vars(Respawn(s))

FairSpec == Spec /\ Fairness
-----------------------------------------------------------------------------
\* The fcntl lock keeps two spoolers from running one task at the same time, also when
\* the file is unlinked while another spooler has it open.
OneRunner ==
    /\ TypeOK
    /\ \A a, b \in Spooler :
          (At(a, "run") /\ At(b, "run") /\ spooler[a].task = spooler[b].task) => a = b

\* A task that is done is executed again only if its spooler was killed before it could
\* unlink the file.
DoneOnce == \A t \in Task : ~history[t].again

\* A task is executed with everything uwsgi_spool_request had to write, unless the
\* process that wrote it was killed: no spooler looks into a file that is being written,
\* and none runs the file of a request that failed.
WholeTask == \A t \in Task : ~history[t].torn

\* A request that created its file returns, and if it succeeds its task is executed,
\* whatever spoolers are killed, recycled or cheaped meanwhile.
SpooledRuns ==
    \A t \in Task : file[t].there ~> (history[t].ran \/ producer[t] \in {"failed", "killed"})

\* core/spooler.c:614: a spool request for the future is not run before its time.
NotEarly == \A t \in Task : ~history[t].early
=============================================================================
