--------------------------- MODULE SpoolerProofs ---------------------------
(***************************************************************************)
(* One runner at a time, no second execution and no half written task, for  *)
(* every set of tasks and of spoolers.                                      *)
(***************************************************************************)
EXTENDS Spooler, TLAPS

\* A spooler that has opened the file of a task, and one that has its lock.
Opened == {"stat", "open", "locked", "header", "lstat", "content", "run", "unlink", "close",
           "destroy"}
Holding == {"locked", "header", "lstat", "content", "run", "unlink", "close"}

\* The file was there when the spooler had the lock.
Checked == {"header", "lstat", "content", "run"}

TasksOpen ==
    \A s \in Spooler : spooler[s].pc \in Opened =>
        spooler[s].task \in Task /\ producer[spooler[s].task] # "idle"

\* --spooler-max-tasks ends a process in time.
TasksCounted ==
    \A s \in Spooler : spooler[s].pc # "down" => MaxTasks = 0 \/ spooler[s].tasks < MaxTasks

LockHeld ==
    /\ \A s \in Spooler : spooler[s].pc \in Holding => lock[spooler[s].task] = s
    /\ \A t \in Task :
          lock[t] = Producer <=> producer[t] \in {"locked", "header", "args", "full", "clear"}

\* What a request has written, and that nothing is there before it starts.
WrittenSoFar ==
    \A t \in Task :
        /\ producer[t] \in {"idle", "created", "locked"} => file[t].content = "empty"
        /\ producer[t] \in {"header", "args", "full"} => file[t].content = producer[t]
        /\ producer[t] = "spooled" => file[t].content = "full"
        /\ producer[t] = "failed" => file[t].content = "empty" \/ file[t].there = FALSE
        /\ producer[t] = "idle" => file[t].there = FALSE /\ history[t].done = FALSE

\* What a spooler knows of the file while it has the lock.
FileWhole ==
    \A s \in Spooler :
        /\ spooler[s].pc \in Checked /\ producer[spooler[s].task] = "failed" =>
              file[spooler[s].task].content = "empty"
        /\ spooler[s].pc \in {"lstat", "content", "run"} =>
              file[spooler[s].task].content # "empty"
        /\ spooler[s].pc = "run" => file[spooler[s].task].content # "header"

\* A task that is done has no file, or its spooler is about to unlink it or was killed there.
DoneGone ==
    /\ \A t \in Task : history[t].done = TRUE /\ history[t].cut = FALSE /\ file[t].there = TRUE =>
          \E s \in Spooler : spooler[s].pc = "unlink" /\ spooler[s].task = t
    /\ \A s \in Spooler : spooler[s].pc \in Checked =>
          history[spooler[s].task].done = FALSE \/ history[spooler[s].task].cut = TRUE

\* The inductive invariant.
SpoolerInv ==
    /\ TypeOK /\ TasksOpen /\ TasksCounted /\ LockHeld /\ WrittenSoFar /\ FileWhole
    /\ DoneGone /\ DoneOnce /\ WholeTask
-----------------------------------------------------------------------------
SpoolerType ==
    [pc : {"down", "wait", "scan", "stat", "open", "locked", "header", "lstat",
           "content", "run", "unlink", "close", "destroy"},
     task : Task \cup {NoTask},
     todo : SUBSET Task,
     tasks : 0..MaxTasks,
     managed : {"never", "same", "newer"}]

\* What the invariant asks of one spooler, with its record r and the owners l of the locks.
Fits(s, r, l) ==
    /\ r \in SpoolerType
    /\ r.pc # "down" => MaxTasks = 0 \/ r.tasks < MaxTasks
    /\ r.pc \in Opened => r.task \in Task /\ producer[r.task] # "idle"
    /\ r.pc \in Holding => l[r.task] = s
    /\ r.pc \in Checked =>
          /\ producer[r.task] = "failed" => file[r.task].content = "empty"
          /\ history[r.task].done = FALSE \/ history[r.task].cut = TRUE
    /\ r.pc \in {"lstat", "content", "run"} => file[r.task].content # "empty"
    /\ r.pc = "run" => file[r.task].content # "header"

\* A step of spooler s that neither touches files nor leaves the unlink to others.
LEMMA OwnStep ==
  ASSUME SpoolerInv, NEW s \in Spooler,
         UNCHANGED <<file, producer, history, cheap>>, faults' \in 0..MaxFaults,
         spooler[s].pc # "unlink",
         NEW r, spooler' = [spooler EXCEPT ![s] = r], Fits(s, r, lock'),
         lock' \in [Task -> {Free, Producer} \cup Spooler],
         \A t \in Task : lock'[t] = lock[t] \/ (lock[t] \in {Free, s} /\ lock'[t] \in {Free, s})
  PROVE  SpoolerInv'
<1> USE SpoolerAssumption DEF SpoolerInv
<1> spooler \in [Spooler -> SpoolerType]
  BY DEF TypeOK, SpoolerType
<1>1. /\ spooler' \in [Spooler -> SpoolerType]
      /\ spooler'[s] = r
      /\ \A q \in Spooler \ {s} : spooler'[q] = spooler[q]
  BY DEF Fits
<1>2. TypeOK'
  BY <1>1 DEF TypeOK, SpoolerType
<1>3. TasksOpen'
  BY <1>1 DEF TasksOpen, Fits
<1>8. TasksCounted'
  BY <1>1 DEF TasksCounted, Fits
<1>4. LockHeld'
  BY <1>1 DEF LockHeld, TasksOpen, Fits, Opened, Holding, Free, Producer
<1>5. WrittenSoFar' /\ DoneOnce' /\ WholeTask'
  BY DEF WrittenSoFar, DoneOnce, WholeTask
<1>6. FileWhole'
  BY <1>1 DEF FileWhole, Fits
<1>7. DoneGone'
  BY <1>1 DEF DoneGone, Fits
<1> QED
  BY <1>2, <1>3, <1>4, <1>5, <1>6, <1>7, <1>8 DEF SpoolerInv

\* The record of a spooler after it goes to another place.
LEMMA Moved ==
  ASSUME NEW r \in SpoolerType,
         NEW p \in {"down", "wait", "scan", "stat", "open", "locked", "header", "lstat",
                   "content", "run", "unlink", "close", "destroy"}
  PROVE  /\ [r EXCEPT !.pc = p] \in SpoolerType
         /\ [r EXCEPT !.pc = p].pc = p
         /\ [r EXCEPT !.pc = p].task = r.task
         /\ [r EXCEPT !.pc = p].tasks = r.tasks
BY DEF SpoolerType

\* ... or gives up its task.
LEMMA GivenUp ==
  ASSUME NEW r \in SpoolerType
  PROVE  /\ [r EXCEPT !.pc = "scan", !.task = NoTask] \in SpoolerType
         /\ [r EXCEPT !.pc = "scan", !.task = NoTask].pc = "scan"
         /\ [r EXCEPT !.pc = "scan", !.task = NoTask].tasks = r.tasks
BY DEF SpoolerType

\* ... or counts it.
LEMMA Counted ==
  ASSUME NEW r \in SpoolerType, NEW n \in 0..MaxTasks
  PROVE  /\ [r EXCEPT !.pc = "scan", !.task = NoTask, !.tasks = n] \in SpoolerType
         /\ [r EXCEPT !.pc = "scan", !.task = NoTask, !.tasks = n].pc = "scan"
         /\ [r EXCEPT !.pc = "scan", !.task = NoTask, !.tasks = n].tasks = n
         /\ [r EXCEPT !.pc = "down", !.task = NoTask, !.todo = {}, !.tasks = n] \in SpoolerType
         /\ [r EXCEPT !.pc = "down", !.task = NoTask, !.todo = {}, !.tasks = n].pc = "down"
BY DEF SpoolerType

\* ... or is started again.
LEMMA Reborn ==
  ASSUME NEW r \in SpoolerType, NEW m \in {"never", "same", "newer"}
  PROVE  /\ [r EXCEPT !.pc = "wait", !.tasks = 0, !.managed = m] \in SpoolerType
         /\ [r EXCEPT !.pc = "wait", !.tasks = 0, !.managed = m].pc = "wait"
         /\ [r EXCEPT !.pc = "wait", !.tasks = 0, !.managed = m].tasks = 0
<1>1. 0 \in 0..MaxTasks
  BY SpoolerAssumption
<1> QED
  BY <1>1, Zenon DEF SpoolerType

\* Reading the directory only fills the list of files.
LEMMA StepScan ==
  ASSUME SpoolerInv, NEW s \in Spooler, Scan(s)
  PROVE  SpoolerInv'
<1> USE SpoolerAssumption DEF SpoolerInv
<1> DEFINE r == [spooler[s] EXCEPT !.pc = "scan", !.todo = {t \in Task : file[t].there}]
<1> spooler[s] \in SpoolerType /\ spooler \in [Spooler -> SpoolerType]
  BY DEF TypeOK, SpoolerType
<1>1. spooler' = [spooler EXCEPT ![s] = r]
  BY DEF Scan, At, SpoolerType
<1>2. /\ lock' \in [Task -> {Free, Producer} \cup Spooler]
      /\ \A t \in Task : lock'[t] = lock[t] \/ (lock[t] \in {Free, s} /\ lock'[t] \in {Free, s})
  BY DEF Scan, At, TypeOK, TasksOpen, Opened
<1>3. r \in SpoolerType /\ r.pc = "scan" /\ r.tasks = spooler[s].tasks
  BY DEF SpoolerType
<1>4. Fits(s, r, lock')
  <2> HIDE DEF r
  <2> QED
    BY <1>3 DEF Fits, TasksCounted, At, Scan, Opened, Holding, Checked
<1>5. spooler[s].pc # "unlink" /\ UNCHANGED <<file, producer, history, cheap>>
      /\ faults' \in 0..MaxFaults
  BY DEF Scan, At, TypeOK
<1> QED
  BY <1>1, <1>2, <1>4, <1>5, OwnStep

\* Opening the file takes no lock yet: the task only has to have been created.
LEMMA StepOpen ==
  ASSUME SpoolerInv, NEW s \in Spooler, Open(s)
  PROVE  SpoolerInv'
<1> USE SpoolerAssumption DEF SpoolerInv
<1> DEFINE r == IF file[spooler[s].task].there THEN [spooler[s] EXCEPT !.pc = "open"]
               ELSE [spooler[s] EXCEPT !.pc = "scan", !.task = NoTask]
<1> spooler[s] \in SpoolerType /\ spooler \in [Spooler -> SpoolerType]
  BY DEF TypeOK, SpoolerType
<1>1. spooler' = [spooler EXCEPT ![s] = r]
  BY DEF Open, At, Goto, Skipped, SpoolerType
<1>2. /\ lock' \in [Task -> {Free, Producer} \cup Spooler]
      /\ \A t \in Task : lock'[t] = lock[t] \/ (lock[t] \in {Free, s} /\ lock'[t] \in {Free, s})
  BY DEF Open, At, Goto, Skipped, TypeOK, TasksOpen, Opened
<1>3. /\ r \in SpoolerType /\ r.tasks = spooler[s].tasks
      /\ IF file[spooler[s].task].there
         THEN r.pc = "open" /\ r.task = spooler[s].task
         ELSE r.pc = "scan"
  BY Moved, GivenUp
<1>4. Fits(s, r, lock')
  <2> HIDE DEF r
  <2> QED
    BY <1>3 DEF Fits, TasksCounted, Open, At, TasksOpen, Opened, Holding, Checked
<1>5. spooler[s].pc # "unlink" /\ UNCHANGED <<file, producer, history, cheap>>
      /\ faults' \in 0..MaxFaults
  BY DEF Open, At, Goto, Skipped, TypeOK
<1> QED
  BY <1>1, <1>2, <1>4, <1>5, OwnStep

\* The lock is taken only where nobody else has it.
LEMMA StepTryLock ==
  ASSUME SpoolerInv, NEW s \in Spooler, TryLock(s)
  PROVE  SpoolerInv'
<1> USE SpoolerAssumption DEF SpoolerInv
<1> DEFINE r == IF lock[spooler[s].task] \in {Free, s} THEN [spooler[s] EXCEPT !.pc = "locked"]
               ELSE [spooler[s] EXCEPT !.pc = "scan", !.task = NoTask]
<1> spooler[s] \in SpoolerType /\ spooler \in [Spooler -> SpoolerType]
  BY DEF TypeOK, SpoolerType
<1>1. spooler' = [spooler EXCEPT ![s] = r]
  BY DEF TryLock, At, Goto, Skipped, SpoolerType
<1>2. /\ lock' \in [Task -> {Free, Producer} \cup Spooler]
      /\ \A t \in Task : lock'[t] = lock[t] \/ (lock[t] \in {Free, s} /\ lock'[t] \in {Free, s})
  BY DEF TryLock, At, Goto, Skipped, TypeOK, TasksOpen, Opened
<1>3. /\ r \in SpoolerType /\ r.tasks = spooler[s].tasks
      /\ IF lock[spooler[s].task] \in {Free, s}
         THEN r.pc = "locked" /\ r.task = spooler[s].task
         ELSE r.pc = "scan"
  BY Moved, GivenUp
<1>4. Fits(s, r, lock')
  <2> HIDE DEF r
  <2> QED
    BY <1>3 DEF Fits, TasksCounted, TryLock, At, TasksOpen, TypeOK, Opened, Holding, Checked
<1>5. spooler[s].pc # "unlink" /\ UNCHANGED <<file, producer, history, cheap>>
      /\ faults' \in 0..MaxFaults
  BY DEF TryLock, At, Goto, Skipped, TypeOK
<1> QED
  BY <1>1, <1>2, <1>4, <1>5, OwnStep

\* Past the header the content is not empty: a request that is writing has the lock.
LEMMA StepReadHeader ==
  ASSUME SpoolerInv, NEW s \in Spooler, ReadHeader(s)
  PROVE  SpoolerInv'
<1> USE SpoolerAssumption DEF SpoolerInv
<1> DEFINE r == IF file[spooler[s].task].content = "empty"
               THEN [spooler[s] EXCEPT !.pc = "scan", !.task = NoTask]
               ELSE [spooler[s] EXCEPT !.pc = "lstat"]
<1> spooler[s] \in SpoolerType /\ spooler \in [Spooler -> SpoolerType]
  BY DEF TypeOK, SpoolerType
<1>1. spooler' = [spooler EXCEPT ![s] = r]
  BY DEF ReadHeader, At, Goto, Skipped, Released, SpoolerType
<1>2. /\ lock' \in [Task -> {Free, Producer} \cup Spooler]
      /\ \A t \in Task : lock'[t] = lock[t] \/ (lock[t] \in {Free, s} /\ lock'[t] \in {Free, s})
  BY DEF ReadHeader, At, Goto, Skipped, Released, TypeOK, TasksOpen, Opened
<1>3. /\ r \in SpoolerType /\ r.tasks = spooler[s].tasks
      /\ IF file[spooler[s].task].content = "empty"
         THEN r.pc = "scan"
         ELSE r.pc = "lstat" /\ r.task = spooler[s].task
  BY Moved, GivenUp
<1>4. Fits(s, r, lock')
  <2> HIDE DEF r
  <2> QED
    BY <1>3 DEF Fits, TasksCounted, ReadHeader, At, TasksOpen, LockHeld, FileWhole, DoneGone, Opened, Holding, Checked
<1>5. spooler[s].pc # "unlink" /\ UNCHANGED <<file, producer, history, cheap>>
      /\ faults' \in 0..MaxFaults
  BY DEF ReadHeader, At, Goto, Skipped, Released, TypeOK
<1> QED
  BY <1>1, <1>2, <1>4, <1>5, OwnStep

\* The leaked lock of a lost file stays with the spooler that had it.
LEMMA StepLstat ==
  ASSUME SpoolerInv, NEW s \in Spooler, Lstat(s)
  PROVE  SpoolerInv'
<1> USE SpoolerAssumption DEF SpoolerInv
<1> DEFINE r == IF file[spooler[s].task].there THEN [spooler[s] EXCEPT !.pc = "content"]
               ELSE [spooler[s] EXCEPT !.pc = "scan", !.task = NoTask]
<1> spooler[s] \in SpoolerType /\ spooler \in [Spooler -> SpoolerType]
  BY DEF TypeOK, SpoolerType
<1>1. spooler' = [spooler EXCEPT ![s] = r]
  BY DEF Lstat, At, Goto, Skipped, SpoolerType
<1>2. /\ lock' \in [Task -> {Free, Producer} \cup Spooler]
      /\ \A t \in Task : lock'[t] = lock[t] \/ (lock[t] \in {Free, s} /\ lock'[t] \in {Free, s})
  BY DEF Lstat, At, Goto, Skipped, TypeOK, TasksOpen, Opened
<1>3. /\ r \in SpoolerType /\ r.tasks = spooler[s].tasks
      /\ IF file[spooler[s].task].there
         THEN r.pc = "content" /\ r.task = spooler[s].task
         ELSE r.pc = "scan"
  BY Moved, GivenUp
<1>4. Fits(s, r, lock')
  <2> HIDE DEF r
  <2> QED
    BY <1>3 DEF Fits, TasksCounted, Lstat, At, TasksOpen, LockHeld, FileWhole, DoneGone, Opened, Holding, Checked
<1>5. spooler[s].pc # "unlink" /\ UNCHANGED <<file, producer, history, cheap>>
      /\ faults' \in 0..MaxFaults
  BY DEF Lstat, At, Goto, Skipped, TypeOK
<1> QED
  BY <1>1, <1>2, <1>4, <1>5, OwnStep

\* Past the arguments the content is not only a header.
LEMMA StepReadContent ==
  ASSUME SpoolerInv, NEW s \in Spooler, ReadContent(s)
  PROVE  SpoolerInv'
<1> USE SpoolerAssumption DEF SpoolerInv
<1> DEFINE r == IF file[spooler[s].task].content = "header"
               THEN [spooler[s] EXCEPT !.pc = "destroy"]
               ELSE [spooler[s] EXCEPT !.pc = "run", !.managed = "newer"]
<1> spooler[s] \in SpoolerType /\ spooler \in [Spooler -> SpoolerType]
  BY DEF TypeOK, SpoolerType
<1>1. spooler' = [spooler EXCEPT ![s] = r]
  BY DEF ReadContent, At, Goto, Released, SpoolerType
<1>2. /\ lock' \in [Task -> {Free, Producer} \cup Spooler]
      /\ \A t \in Task : lock'[t] = lock[t] \/ (lock[t] \in {Free, s} /\ lock'[t] \in {Free, s})
  BY DEF ReadContent, At, Goto, Released, TypeOK, TasksOpen, Opened
<1>3. /\ r \in SpoolerType /\ r.tasks = spooler[s].tasks
      /\ IF file[spooler[s].task].content = "header"
         THEN r.pc = "destroy" /\ r.task = spooler[s].task
         ELSE r.pc = "run" /\ r.task = spooler[s].task
  BY Moved DEF SpoolerType
<1>4. Fits(s, r, lock')
  <2> HIDE DEF r
  <2> QED
    BY <1>3 DEF Fits, TasksCounted, ReadContent, At, TasksOpen, LockHeld, FileWhole, DoneGone, Opened, Holding, Checked
<1>5. spooler[s].pc # "unlink" /\ UNCHANGED <<file, producer, history, cheap>>
      /\ faults' \in 0..MaxFaults
  BY DEF ReadContent, At, Goto, Released, TypeOK
<1> QED
  BY <1>1, <1>2, <1>4, <1>5, OwnStep

\* The lock goes, and the count of the process stays within its limit.
LEMMA StepFinish ==
  ASSUME SpoolerInv, NEW s \in Spooler, Finish(s)
  PROVE  SpoolerInv'
<1> USE SpoolerAssumption DEF SpoolerInv
<1> DEFINE r == IF MaxTasks = 0 THEN [spooler[s] EXCEPT !.pc = "scan", !.task = NoTask]
               ELSE IF spooler[s].tasks + 1 < MaxTasks
               THEN [spooler[s] EXCEPT !.pc = "scan", !.task = NoTask, !.tasks = spooler[s].tasks + 1]
               ELSE [spooler[s] EXCEPT !.pc = "down", !.task = NoTask, !.todo = {},
                                       !.tasks = spooler[s].tasks + 1]
<1> spooler[s] \in SpoolerType /\ spooler \in [Spooler -> SpoolerType]
  BY DEF TypeOK, SpoolerType
<1>1. spooler' = [spooler EXCEPT ![s] = r]
  BY DEF Finish, At, Skipped, Ended, Released, SpoolerType
<1>2. /\ lock' \in [Task -> {Free, Producer} \cup Spooler]
      /\ \A t \in Task : lock'[t] = lock[t] \/ (lock[t] \in {Free, s} /\ lock'[t] \in {Free, s})
  BY DEF Finish, At, Skipped, Ended, Released, TypeOK, TasksOpen, Opened
<1>3. /\ r \in SpoolerType /\ r.pc \in {"scan", "down"}
      /\ r.pc = "scan" => MaxTasks = 0 \/ r.tasks < MaxTasks
  <2> DEFINE n == spooler[s].tasks + 1
  <2>1. spooler[s].tasks \in 0..MaxTasks /\ (MaxTasks = 0 \/ spooler[s].tasks < MaxTasks)
    BY DEF SpoolerType, TasksCounted, Finish, At
  <2>2. CASE MaxTasks = 0
    BY <2>2, GivenUp
  <2>3. CASE MaxTasks # 0
    <3>1. n \in 0..MaxTasks
      BY <2>1, <2>3
    <3>2. CASE n < MaxTasks
      <4>1. r = [spooler[s] EXCEPT !.pc = "scan", !.task = NoTask, !.tasks = n]
        BY <2>3, <3>2
      <4> HIDE DEF r
      <4>2. r \in SpoolerType /\ r.pc = "scan" /\ r.tasks = n
        BY <3>1, <4>1, Counted
      <4> QED
        BY <3>2, <4>2
    <3>3. CASE ~(n < MaxTasks)
      <4>1. r = [spooler[s] EXCEPT !.pc = "down", !.task = NoTask, !.todo = {}, !.tasks = n]
        BY <2>3, <3>3
      <4> HIDE DEF r
      <4>2. r \in SpoolerType /\ r.pc = "down"
        BY <3>1, <4>1, Counted
      <4> QED
        BY <4>2
    <3> QED
      BY <3>2, <3>3
  <2> QED
    BY <2>2, <2>3
<1>4. Fits(s, r, lock')
  <2> HIDE DEF r
  <2> QED
    BY <1>3 DEF Fits, TasksCounted, Opened, Holding, Checked
<1>5. spooler[s].pc # "unlink" /\ UNCHANGED <<file, producer, history, cheap>>
      /\ faults' \in 0..MaxFaults
  BY DEF Finish, At, Skipped, Ended, Released, TypeOK
<1> QED
  BY <1>1, <1>2, <1>4, <1>5, OwnStep

\* A new process starts its count again.
LEMMA StepRespawn ==
  ASSUME SpoolerInv, NEW s \in Spooler, Respawn(s)
  PROVE  SpoolerInv'
<1> USE SpoolerAssumption DEF SpoolerInv
<1> DEFINE r == [spooler[s] EXCEPT !.pc = "wait", !.tasks = 0,
                    !.managed = IF spooler[s].managed = "never" THEN "never" ELSE "newer"]
<1> spooler[s] \in SpoolerType /\ spooler \in [Spooler -> SpoolerType]
  BY DEF TypeOK, SpoolerType
<1>1. spooler' = [spooler EXCEPT ![s] = r]
  BY DEF Respawn, At, SpoolerType
<1>2. /\ lock' \in [Task -> {Free, Producer} \cup Spooler]
      /\ \A t \in Task : lock'[t] = lock[t] \/ (lock[t] \in {Free, s} /\ lock'[t] \in {Free, s})
  BY DEF Respawn, At, TypeOK, TasksOpen, Opened
<1>3. r \in SpoolerType /\ r.pc = "wait" /\ r.tasks = 0
  <2> DEFINE m == IF spooler[s].managed = "never" THEN "never" ELSE "newer"
  <2>1. m \in {"never", "same", "newer"}
    OBVIOUS
  <2>2. r = [spooler[s] EXCEPT !.pc = "wait", !.tasks = 0, !.managed = m]
    OBVIOUS
  <2> HIDE DEF m, r
  <2> QED
    BY <2>1, <2>2, Reborn
<1>4. Fits(s, r, lock')
  <2> HIDE DEF r
  <2> QED
    BY <1>3 DEF Fits, TasksCounted, SpoolerType, Opened, Holding, Checked
<1>5. spooler[s].pc # "unlink" /\ UNCHANGED <<file, producer, history, cheap>>
      /\ faults' \in 0..MaxFaults
  BY DEF Respawn, At, TypeOK
<1> QED
  BY <1>1, <1>2, <1>4, <1>5, OwnStep

\* With the lock and the file there nobody else is at the unlink of this task, so a task
\* that is done was cut off.
LEMMA StepRecheck ==
  ASSUME SpoolerInv, NEW s \in Spooler, Recheck(s)
  PROVE  SpoolerInv'
<1> USE SpoolerAssumption DEF SpoolerInv
<1> DEFINE t == spooler[s].task
<1> DEFINE r == IF file[t].there THEN [spooler[s] EXCEPT !.pc = "header"]
               ELSE [spooler[s] EXCEPT !.pc = "scan", !.task = NoTask]
<1> spooler[s] \in SpoolerType /\ spooler \in [Spooler -> SpoolerType]
  BY DEF TypeOK, SpoolerType
<1>1. spooler' = [spooler EXCEPT ![s] = r]
  BY DEF Recheck, At, Goto, Skipped, SpoolerType
<1>2. /\ lock' \in [Task -> {Free, Producer} \cup Spooler]
      /\ \A u \in Task : lock'[u] = lock[u] \/ (lock[u] \in {Free, s} /\ lock'[u] \in {Free, s})
  BY DEF Recheck, Released, TypeOK
<1>3. /\ r \in SpoolerType /\ r.tasks = spooler[s].tasks
      /\ IF file[t].there THEN r.pc = "header" /\ r.task = t ELSE r.pc = "scan"
  BY Moved, GivenUp
<1>6. t \in Task /\ producer[t] # "idle" /\ lock[t] = s
  BY DEF Recheck, At, TasksOpen, LockHeld, Opened, Holding
<1>7. file[t].there => /\ producer[t] = "failed" => file[t].content = "empty"
                       /\ history[t].done = FALSE \/ history[t].cut = TRUE
  <2> SUFFICES ASSUME file[t].there = TRUE
               PROVE  /\ producer[t] = "failed" => file[t].content = "empty"
                      /\ history[t].done = FALSE \/ history[t].cut = TRUE
    BY <1>6 DEF TypeOK
  <2>1. producer[t] = "failed" => file[t].content = "empty"
    BY <1>6 DEF WrittenSoFar
  <2>2. history[t].done \in BOOLEAN /\ history[t].cut \in BOOLEAN
    BY <1>6 DEF TypeOK
  <2>3. ~\E q \in Spooler : spooler[q].pc = "unlink" /\ spooler[q].task = t
    BY <1>6 DEF LockHeld, Recheck, At, Holding
  <2> QED
    BY <1>6, <2>1, <2>2, <2>3 DEF DoneGone
<1>4. Fits(s, r, lock')
  <2> HIDE DEF r
  <2> QED
    BY <1>3, <1>6, <1>7 DEF Fits, TasksCounted, Recheck, At, Opened, Holding, Checked
<1>5. spooler[s].pc # "unlink" /\ UNCHANGED <<file, producer, history, cheap>>
      /\ faults' \in 0..MaxFaults
  BY DEF Recheck, At, TypeOK
<1> QED
  BY <1>1, <1>2, <1>4, <1>5, OwnStep

\* A file that is there was created by its request.
LEMMA StepStat ==
  ASSUME SpoolerInv, NEW s \in Spooler, NEW t \in Task, Stat(s, t)
  PROVE  SpoolerInv'
<1> USE SpoolerAssumption DEF SpoolerInv
<1> DEFINE taken == file[t].there /\ ~file[t].future
<1> DEFINE r == IF taken THEN [spooler[s] EXCEPT !.todo = spooler[s].todo \ {t}, !.task = t, !.pc = "stat"]
               ELSE [spooler[s] EXCEPT !.todo = spooler[s].todo \ {t}, !.task = NoTask, !.pc = "scan"]
<1> spooler[s] \in SpoolerType /\ spooler \in [Spooler -> SpoolerType]
  BY DEF TypeOK, SpoolerType
<1>1. spooler' = [spooler EXCEPT ![s] = r]
  <2>1. CASE taken
    BY <2>1 DEF Stat, SpoolerType
  <2>2. CASE ~taken
    BY <2>2 DEF Stat, SpoolerType
  <2> QED
    BY <2>1, <2>2
<1>2. /\ lock' \in [Task -> {Free, Producer} \cup Spooler]
      /\ \A u \in Task : lock'[u] = lock[u] \/ (lock[u] \in {Free, s} /\ lock'[u] \in {Free, s})
  BY DEF Stat, TypeOK
<1>3. /\ r \in SpoolerType /\ r.tasks = spooler[s].tasks
      /\ IF taken THEN r.pc = "stat" /\ r.task = t ELSE r.pc = "scan"
  <2> HIDE DEF taken
  <2>1. CASE taken
    <3>1. r = [spooler[s] EXCEPT !.todo = spooler[s].todo \ {t}, !.task = t, !.pc = "stat"]
      BY <2>1
    <3> HIDE DEF r
    <3> QED
      BY <2>1, <3>1 DEF SpoolerType
  <2>2. CASE ~taken
    <3>1. r = [spooler[s] EXCEPT !.todo = spooler[s].todo \ {t}, !.task = NoTask, !.pc = "scan"]
      BY <2>2
    <3> HIDE DEF r
    <3> QED
      BY <2>2, <3>1 DEF SpoolerType
  <2> QED
    BY <2>1, <2>2
<1>6. taken => producer[t] # "idle"
  <2>1. file[t].there \in BOOLEAN
    BY DEF TypeOK
  <2> QED
    BY <2>1 DEF WrittenSoFar
<1>4. Fits(s, r, lock')
  <2> HIDE DEF r
  <2> QED
    BY <1>3, <1>6 DEF Fits, TasksCounted, Stat, At, Opened, Holding, Checked
<1>5. spooler[s].pc # "unlink" /\ UNCHANGED <<file, producer, history, cheap>>
      /\ faults' \in 0..MaxFaults
  BY DEF Stat, At, TypeOK
<1> QED
  BY <1>1, <1>2, <1>4, <1>5, OwnStep

\* A spooler goes to sleep.
LEMMA Asleep ==
  ASSUME NEW r \in SpoolerType, NEW m \in {"never", "same", "newer"}
  PROVE  /\ [r EXCEPT !.pc = "wait", !.managed = m] \in SpoolerType
         /\ [r EXCEPT !.pc = "wait", !.managed = m].pc = "wait"
         /\ [r EXCEPT !.pc = "wait", !.managed = m].tasks = r.tasks
BY DEF SpoolerType

\* ... or its process ends.
LEMMA Gone ==
  ASSUME NEW r \in SpoolerType
  PROVE  /\ [r EXCEPT !.pc = "down", !.task = NoTask, !.todo = {}] \in SpoolerType
         /\ [r EXCEPT !.pc = "down", !.task = NoTask, !.todo = {}].pc = "down"
BY DEF SpoolerType

\* A spooler sleeps or ends without a task.
LEMMA StepScanEnds ==
  ASSUME SpoolerInv, NEW s \in Spooler, ScanEnds(s)
  PROVE  SpoolerInv'
<1> USE SpoolerAssumption DEF SpoolerInv
<1> DEFINE m == IF spooler[s].managed = "never" THEN "never" ELSE "same"
<1> DEFINE sleeps == [spooler[s] EXCEPT !.pc = "wait", !.managed = m]
<1> DEFINE ends == [spooler[s] EXCEPT !.pc = "down", !.task = NoTask, !.todo = {}]
<1> spooler[s] \in SpoolerType /\ spooler \in [Spooler -> SpoolerType]
  BY DEF TypeOK, SpoolerType
<1>2. /\ lock' \in [Task -> {Free, Producer} \cup Spooler]
      /\ \A u \in Task : lock'[u] = lock[u] \/ (lock[u] \in {Free, s} /\ lock'[u] \in {Free, s})
  BY DEF ScanEnds, Released, TypeOK
<1>5. spooler[s].pc # "unlink" /\ UNCHANGED <<file, producer, history, cheap>>
      /\ faults' \in 0..MaxFaults
  BY DEF ScanEnds, At, TypeOK
<1>1. PICK r \in {sleeps, ends} : spooler' = [spooler EXCEPT ![s] = r]
  <2>1. CASE spooler' = Ended(s)
    <3>1. spooler' = [spooler EXCEPT ![s] = ends]
      BY <2>1 DEF Ended, SpoolerType
    <3> QED
      BY <3>1
  <2>2. CASE spooler' = [spooler EXCEPT ![s].pc = "wait",
                              ![s].managed = IF @ = "never" THEN @ ELSE "same"]
    <3>1. CASE spooler[s].managed = "never"
      <4>1. spooler' = [spooler EXCEPT ![s] = sleeps]
        BY <2>2, <3>1 DEF SpoolerType
      <4> QED
        BY <4>1
    <3>2. CASE spooler[s].managed # "never"
      <4>1. spooler' = [spooler EXCEPT ![s] = sleeps]
        BY <2>2, <3>2 DEF SpoolerType
      <4> QED
        BY <4>1
    <3> QED
      BY <3>1, <3>2
  <2> QED
    BY <2>1, <2>2 DEF ScanEnds
<1>3. r \in SpoolerType /\ (r.pc = "down" \/ (r.pc = "wait" /\ r.tasks = spooler[s].tasks))
  <2>1. m \in {"never", "same", "newer"}
    OBVIOUS
  <2> HIDE DEF m
  <2>2. sleeps \in SpoolerType /\ sleeps.pc = "wait" /\ sleeps.tasks = spooler[s].tasks
    BY <2>1, Asleep
  <2>3. ends \in SpoolerType /\ ends.pc = "down"
    BY Gone
  <2> HIDE DEF sleeps, ends
  <2> QED
    BY <2>2, <2>3
<1>4. Fits(s, r, lock')
  <2> HIDE DEF sleeps, ends
  <2> QED
    BY <1>3 DEF Fits, TasksCounted, ScanEnds, At, Opened, Holding, Checked
<1> QED
  BY <1>1, <1>2, <1>4, <1>5, OwnStep

HistoryType == [at : BOOLEAN, ran : BOOLEAN, done : BOOLEAN, cut : BOOLEAN,
                again : BOOLEAN, torn : BOOLEAN, early : BOOLEAN]

\* The history of a task that is done.
LEMMA RecordedDone ==
  ASSUME NEW h \in HistoryType, NEW g, g = [h EXCEPT !.done = TRUE]
  PROVE  /\ g \in HistoryType /\ g.cut = h.cut /\ g.again = h.again /\ g.torn = h.torn
BY DEF HistoryType

\* The execution is a first one of a whole task, and a task that is done is left to the
\* unlink of its own spooler.
LEMMA StepRun ==
  ASSUME SpoolerInv, NEW s \in Spooler, Run(s)
  PROVE  SpoolerInv'
<1> USE SpoolerAssumption DEF SpoolerInv
<1> DEFINE t == spooler[s].task
<1> DEFINE h == history[t]
<1> spooler[s] \in SpoolerType /\ spooler \in [Spooler -> SpoolerType]
  BY DEF TypeOK, SpoolerType
<1>1. t \in Task /\ producer[t] # "idle" /\ lock[t] = s /\ history[t] \in HistoryType
  BY DEF Run, At, TasksOpen, LockHeld, TypeOK, HistoryType, Opened, Holding
<1>2. /\ file[t].content # "full" /\ producer[t] # "killed" => FALSE
      /\ h.done = TRUE /\ h.cut = FALSE => FALSE
  <2>1. file[t].content \in {"args", "full"} /\ (producer[t] = "failed" => FALSE)
    BY <1>1 DEF FileWhole, TypeOK, Run, At, Checked, Content
  <2>2. producer[t] \notin {"locked", "header", "args", "full", "clear"}
    BY <1>1 DEF LockHeld, Producer
  <2>3. producer[t] \in {"spooled", "killed"}
    BY <1>1, <2>1, <2>2 DEF WrittenSoFar, TypeOK, Writing
  <2> QED
    BY <1>1, <2>3 DEF WrittenSoFar, DoneGone, Run, At, Checked
<1>3. h.again = FALSE /\ h.torn = FALSE
  BY <1>1 DEF DoneOnce, WholeTask, HistoryType
<1> DEFINE a == h.again \/ (h.done /\ ~h.cut)
<1> DEFINE o == h.torn \/ (file[t].content # "full" /\ producer[t] # "killed")
<1> DEFINE e == h.early \/ (h.at /\ producer[t] = "spooled")
<1> DEFINE g == [h EXCEPT !.ran = TRUE, !.again = a, !.torn = o, !.early = e]
<1> DEFINE d == [g EXCEPT !.done = TRUE]
<1>4. a = FALSE /\ o = FALSE /\ e \in BOOLEAN
  BY <1>1, <1>2, <1>3 DEF HistoryType
<1>5. /\ g \in HistoryType /\ g.done = h.done /\ g.cut = h.cut /\ g.again = FALSE /\ g.torn = FALSE
      /\ d \in HistoryType /\ d.cut = h.cut /\ d.again = FALSE /\ d.torn = FALSE
  <2>1. h \in HistoryType /\ a \in BOOLEAN /\ o \in BOOLEAN /\ e \in BOOLEAN
    BY <1>1, <1>4
  <2>2. g = [h EXCEPT !.ran = TRUE, !.again = a, !.torn = o, !.early = e]
    OBVIOUS
  <2>3. d = [g EXCEPT !.done = TRUE]
    OBVIOUS
  <2> HIDE DEF a, o, e, h, g, d
  <2>4. /\ g \in HistoryType /\ g.done = h.done /\ g.cut = h.cut
        /\ g.again = a /\ g.torn = o
    BY <2>1, <2>2, Zenon DEF HistoryType
  <2>5. d \in HistoryType /\ d.cut = g.cut /\ d.again = g.again /\ d.torn = g.torn
    BY <2>3, <2>4, RecordedDone, Zenon
  <2> QED
    BY <1>4, <2>4, <2>5
<1>6. PICK p \in {"unlink", "close"}, n \in {g, d} :
        /\ spooler' = [spooler EXCEPT ![s].pc = p]
        /\ history' = [history EXCEPT ![t] = n]
        /\ p = "close" => n = g
  <2>1. history \in [Task -> HistoryType]
    BY DEF TypeOK, HistoryType
  <2>2. Executed(t) = [history EXCEPT ![t] = g]
    BY <1>1, <2>1, Zenon DEF Executed
  <2>3. [Executed(t) EXCEPT ![t].done = TRUE] = [history EXCEPT ![t] = d]
    BY <1>1, <2>1, <2>2, Zenon
  <2> HIDE DEF g, d
  <2> QED
    BY <2>2, <2>3 DEF Run, Goto
<1> HIDE DEF g, d, a, o, e
<1>7. /\ history' \in [Task -> HistoryType]
      /\ history'[t] = n
      /\ \A u \in Task \ {t} : history'[u] = history[u]
      /\ n.cut = h.cut /\ n.again = FALSE /\ n.torn = FALSE
      /\ p = "close" => n.done = h.done
  BY <1>1, <1>5, <1>6 DEF TypeOK, HistoryType
<1>8. /\ spooler' \in [Spooler -> SpoolerType]
      /\ spooler'[s].pc = p /\ spooler'[s].task = t /\ spooler'[s].tasks = spooler[s].tasks
      /\ \A q \in Spooler \ {s} : spooler'[q] = spooler[q]
  <2>1. spooler' = [spooler EXCEPT ![s] = [spooler[s] EXCEPT !.pc = p]]
    BY <1>6 DEF SpoolerType
  <2> DEFINE r == [spooler[s] EXCEPT !.pc = p]
  <2>2. r \in SpoolerType /\ r.pc = p /\ r.task = t /\ r.tasks = spooler[s].tasks
    <3>1. p \in {"down", "wait", "scan", "stat", "open", "locked", "header", "lstat",
                 "content", "run", "unlink", "close", "destroy"}
      BY <1>6
    <3> QED
      BY <3>1 DEF SpoolerType
  <2>3. spooler' = [spooler EXCEPT ![s] = r]
    BY <2>1
  <2> HIDE DEF r
  <2> QED
    BY <2>2, <2>3
<1>9. UNCHANGED <<file, lock, producer, cheap, faults>>
  BY DEF Run
<1>10. TypeOK'
  BY <1>7, <1>8, <1>9 DEF TypeOK, SpoolerType, HistoryType
<1>11. TasksOpen' /\ TasksCounted'
  BY <1>1, <1>8, <1>9 DEF TasksOpen, TasksCounted, Run, At
<1>12. LockHeld'
  BY <1>1, <1>8, <1>9 DEF LockHeld, Run, At, Holding
<1>13. WrittenSoFar'
  BY <1>1, <1>7, <1>9 DEF WrittenSoFar
<1>14. FileWhole'
  BY <1>6, <1>8, <1>9 DEF FileWhole, Checked
<1>15. DoneOnce' /\ WholeTask'
  BY <1>1, <1>7 DEF DoneOnce, WholeTask
<1>16. DoneGone'
  <2>1. \A q \in Spooler \ {s} : spooler[q].pc \in Checked => spooler[q].task # t
    BY <1>1 DEF LockHeld, Checked, Holding
  <2>2. ASSUME NEW u \in Task, history'[u].done = TRUE, history'[u].cut = FALSE, file'[u].there = TRUE
        PROVE  \E q \in Spooler : spooler'[q].pc = "unlink" /\ spooler'[q].task = u
    <3>1. CASE u # t
      BY <1>7, <1>8, <1>9, <2>2, <3>1 DEF DoneGone, Run, At
    <3>2. CASE u = t
      BY <1>1, <1>2, <1>6, <1>7, <1>8, <2>2, <3>2
    <3> QED
      BY <3>1, <3>2
  <2>3. ASSUME NEW q \in Spooler, spooler'[q].pc \in Checked
        PROVE  history'[spooler'[q].task].done = FALSE \/ history'[spooler'[q].task].cut = TRUE
    <3>1. q # s
      BY <1>6, <1>8, <2>3 DEF Checked
    <3>2. spooler[q].task \in Task \ {t}
      BY <1>8, <2>1, <2>3, <3>1 DEF TasksOpen, Checked, Opened
    <3> QED
      BY <1>7, <1>8, <2>3, <3>1, <3>2 DEF DoneGone
  <2> QED
    BY <2>2, <2>3 DEF DoneGone
<1> QED
  BY <1>10, <1>11, <1>12, <1>13, <1>14, <1>15, <1>16 DEF SpoolerInv

\* A step of spooler s that removes the file of its task, or finds that it is gone, and
\* leaves the task.
LEMMA RemoveStep ==
  ASSUME SpoolerInv, NEW s \in Spooler, UNCHANGED <<producer, history, cheap, faults>>,
         file' \in [Task -> [there : BOOLEAN, content : Content, future : BOOLEAN]],
         \A u \in Task : file'[u].content = file[u].content,
         \A u \in Task : file'[u].there = TRUE => file[u].there = TRUE,
         spooler[s].pc = "unlink" => file'[spooler[s].task].there = FALSE,
         NEW r, spooler' = [spooler EXCEPT ![s] = r], r \in SpoolerType,
         r.pc \in {"scan", "down"} \/
             (r.pc = "close" /\ r.task = spooler[s].task /\ lock' = lock /\ spooler[s].pc = "unlink"),
         r.pc # "down" => r.tasks = spooler[s].tasks,
         spooler[s].pc # "down",
         lock' = lock \/ lock' = Released(s)
  PROVE  SpoolerInv'
<1> USE SpoolerAssumption DEF SpoolerInv
<1> spooler \in [Spooler -> SpoolerType]
  BY DEF TypeOK, SpoolerType
<1>1. /\ spooler' \in [Spooler -> SpoolerType]
      /\ spooler'[s] = r
      /\ \A q \in Spooler \ {s} : spooler'[q] = spooler[q]
  OBVIOUS
<1>2. /\ lock' \in [Task -> {Free, Producer} \cup Spooler]
      /\ \A u \in Task : lock'[u] = lock[u] \/ (lock[u] = s /\ lock'[u] = Free)
  BY DEF Released, TypeOK
<1>3. TypeOK'
  BY <1>1, <1>2 DEF TypeOK, SpoolerType
<1>4. TasksOpen'
  BY <1>1 DEF TasksOpen, Opened
<1>5. TasksCounted'
  BY <1>1 DEF TasksCounted
<1>6. LockHeld'
  BY <1>1, <1>2 DEF LockHeld, TasksOpen, Opened, Holding, Free, Producer
<1>7. WrittenSoFar'
  <2>1. \A u \in Task : file[u].there = FALSE => file'[u].there = FALSE
    BY DEF TypeOK
  <2> QED
    BY <2>1 DEF WrittenSoFar
<1>8. FileWhole'
  <2>1. \A q \in Spooler : spooler'[q].pc \in {"header", "lstat", "content", "run"} =>
          spooler'[q] = spooler[q] /\ spooler[q].task \in Task
    BY <1>1 DEF TasksOpen, Opened
  <2> QED
    BY <2>1 DEF FileWhole, Checked
<1>9. DoneGone'
  <2>1. \A q \in Spooler : spooler'[q].pc \in {"header", "lstat", "content", "run"} =>
          spooler'[q] = spooler[q]
    BY <1>1
  <2>2. ASSUME NEW u \in Task, history'[u].done = TRUE, history'[u].cut = FALSE, file'[u].there = TRUE
        PROVE  \E q \in Spooler : spooler'[q].pc = "unlink" /\ spooler'[q].task = u
    <3>1. PICK q \in Spooler : spooler[q].pc = "unlink" /\ spooler[q].task = u
      BY <2>2 DEF DoneGone
    <3> QED
      BY <1>1, <2>2, <3>1
  <2> QED
    BY <2>1, <2>2 DEF DoneGone, Checked
<1>10. DoneOnce' /\ WholeTask'
  BY DEF DoneOnce, WholeTask
<1> QED
  BY <1>3, <1>4, <1>5, <1>6, <1>7, <1>8, <1>9, <1>10 DEF SpoolerInv

\* Without the lock, only a file that never got past its header is removed.
LEMMA StepDestroyBroken ==
  ASSUME SpoolerInv, NEW s \in Spooler, DestroyBroken(s)
  PROVE  SpoolerInv'
<1> USE SpoolerAssumption DEF SpoolerInv
<1> DEFINE t == spooler[s].task
<1> DEFINE stays == [spooler[s] EXCEPT !.pc = "scan", !.task = NoTask]
<1> DEFINE ends == [spooler[s] EXCEPT !.pc = "down", !.task = NoTask, !.todo = {}]
<1> spooler[s] \in SpoolerType /\ spooler \in [Spooler -> SpoolerType]
  BY DEF TypeOK, SpoolerType
<1>1. t \in Task /\ file \in [Task -> [there : BOOLEAN, content : Content, future : BOOLEAN]]
  BY DEF DestroyBroken, At, TasksOpen, Opened, TypeOK
<1>2. UNCHANGED <<producer, history, cheap, faults>> /\ spooler[s].pc = "destroy"
  BY DEF DestroyBroken, At
<1>3. CASE file[t].there
  <2>1. /\ file' = [file EXCEPT ![t].there = FALSE] /\ lock' = lock
        /\ spooler' = [spooler EXCEPT ![s] = stays]
    BY <1>3 DEF DestroyBroken, Destroy, Skipped, SpoolerType
  <2>2. /\ file' \in [Task -> [there : BOOLEAN, content : Content, future : BOOLEAN]]
        /\ \A u \in Task : file'[u].content = file[u].content
        /\ \A u \in Task : file'[u].there = TRUE => file[u].there = TRUE
        /\ file'[t].there = FALSE
    <3> DEFINE f == [file[t] EXCEPT !.there = FALSE]
    <3>1. /\ f \in [there : BOOLEAN, content : Content, future : BOOLEAN]
          /\ f.content = file[t].content
          /\ f.there = FALSE
      BY <1>1, Zenon
    <3>2. file' = [file EXCEPT ![t] = f]
      BY <2>1, Zenon
    <3> HIDE DEF f
    <3> QED
      BY <1>1, <3>1, <3>2
  <2>3. stays \in SpoolerType /\ stays.pc = "scan" /\ stays.tasks = spooler[s].tasks
    BY DEF SpoolerType
  <2> HIDE DEF stays
  <2> QED
    BY <1>2, <2>1, <2>2, <2>3, RemoveStep
<1>4. CASE ~file[t].there
  <2>1. file' = file /\ lock' = Released(s) /\ spooler' = [spooler EXCEPT ![s] = ends]
    BY <1>4 DEF DestroyBroken, Destroy, Ended, SpoolerType
  <2>2. ends \in SpoolerType /\ ends.pc = "down"
    BY DEF SpoolerType
  <2>3. file[t].there = FALSE
    BY <1>1, <1>4
  <2> HIDE DEF ends
  <2> QED
    BY <1>1, <1>2, <2>1, <2>2, <2>3, RemoveStep
<1> QED
  BY <1>3, <1>4

\* The file of a task that is done goes.
LEMMA StepUnlink ==
  ASSUME SpoolerInv, NEW s \in Spooler, Unlink(s)
  PROVE  SpoolerInv'
<1> USE SpoolerAssumption DEF SpoolerInv
<1> DEFINE t == spooler[s].task
<1> DEFINE stays == [spooler[s] EXCEPT !.pc = "close"]
<1> DEFINE ends == [spooler[s] EXCEPT !.pc = "down", !.task = NoTask, !.todo = {}]
<1> spooler[s] \in SpoolerType /\ spooler \in [Spooler -> SpoolerType]
  BY DEF TypeOK, SpoolerType
<1>1. t \in Task /\ file \in [Task -> [there : BOOLEAN, content : Content, future : BOOLEAN]]
  BY DEF Unlink, At, TasksOpen, Opened, TypeOK
<1>2. UNCHANGED <<producer, history, cheap, faults>> /\ spooler[s].pc = "unlink"
  BY DEF Unlink, At
<1>3. CASE file[t].there
  <2>1. /\ file' = [file EXCEPT ![t].there = FALSE] /\ lock' = lock
        /\ spooler' = [spooler EXCEPT ![s] = stays]
    BY <1>3 DEF Unlink, Destroy, Skipped, SpoolerType
  <2>2. /\ file' \in [Task -> [there : BOOLEAN, content : Content, future : BOOLEAN]]
        /\ \A u \in Task : file'[u].content = file[u].content
        /\ \A u \in Task : file'[u].there = TRUE => file[u].there = TRUE
        /\ file'[t].there = FALSE
    <3> DEFINE f == [file[t] EXCEPT !.there = FALSE]
    <3>1. /\ f \in [there : BOOLEAN, content : Content, future : BOOLEAN]
          /\ f.content = file[t].content
          /\ f.there = FALSE
      BY <1>1, Zenon
    <3>2. file' = [file EXCEPT ![t] = f]
      BY <2>1, Zenon
    <3> HIDE DEF f
    <3> QED
      BY <1>1, <3>1, <3>2
  <2>3. stays \in SpoolerType /\ stays.pc = "close" /\ stays.tasks = spooler[s].tasks /\ stays.task = t
    BY DEF SpoolerType
  <2> HIDE DEF stays
  <2> QED
    BY <1>2, <2>1, <2>2, <2>3, RemoveStep
<1>4. CASE ~file[t].there
  <2>1. file' = file /\ lock' = Released(s) /\ spooler' = [spooler EXCEPT ![s] = ends]
    BY <1>4 DEF Unlink, Destroy, Ended, SpoolerType
  <2>2. ends \in SpoolerType /\ ends.pc = "down"
    BY DEF SpoolerType
  <2>3. file[t].there = FALSE
    BY <1>1, <1>4
  <2> HIDE DEF ends
  <2> QED
    BY <1>1, <1>2, <2>1, <2>2, <2>3, RemoveStep
<1> QED
  BY <1>3, <1>4

\* A spooler killed at the unlink is recorded as cut off; its locks are free.
LEMMA StepKillSpooler ==
  ASSUME SpoolerInv, NEW s \in Spooler, KillSpooler(s)
  PROVE  SpoolerInv'
<1> USE SpoolerAssumption DEF SpoolerInv
<1> DEFINE ends == [spooler[s] EXCEPT !.pc = "down", !.task = NoTask, !.todo = {}]
<1> DEFINE hit(u) == u = spooler[s].task /\ spooler[s].pc = "unlink"
<1> spooler[s] \in SpoolerType /\ spooler \in [Spooler -> SpoolerType]
  BY DEF TypeOK, SpoolerType
<1>1. /\ spooler' \in [Spooler -> SpoolerType] /\ spooler'[s].pc = "down"
      /\ \A q \in Spooler \ {s} : spooler'[q] = spooler[q]
  <2>1. spooler' = [spooler EXCEPT ![s] = ends]
    BY DEF KillSpooler, Ended, SpoolerType
  <2>2. ends \in SpoolerType /\ ends.pc = "down"
    BY DEF SpoolerType
  <2> HIDE DEF ends
  <2> QED
    BY <2>1, <2>2
<1>2. /\ lock' \in [Task -> {Free, Producer} \cup Spooler]
      /\ \A u \in Task : lock'[u] = lock[u] \/ (lock[u] = s /\ lock'[u] = Free)
  BY DEF KillSpooler, Released, TypeOK
<1>3. UNCHANGED <<file, producer, cheap>> /\ faults' \in 0..MaxFaults
  BY DEF KillSpooler, Fault, TypeOK
<1>4. /\ history' \in [Task -> HistoryType]
      /\ \A u \in Task : /\ history'[u].done = history[u].done
                         /\ history'[u].again = history[u].again
                         /\ history'[u].torn = history[u].torn
                         /\ history'[u].cut = (history[u].cut \/ hit(u))
  <2> DEFINE h(u) == [history[u] EXCEPT !.cut = @ \/ hit(u)]
  <2>1. ASSUME NEW u \in Task
        PROVE  /\ h(u) \in HistoryType /\ h(u).done = history[u].done
               /\ h(u).again = history[u].again /\ h(u).torn = history[u].torn
               /\ h(u).cut = (history[u].cut \/ hit(u))
    <3>1. history[u] \in HistoryType
      BY DEF TypeOK, HistoryType
    <3> HIDE DEF hit
    <3>2. (history[u].cut \/ hit(u)) \in BOOLEAN
      BY Zenon
    <3> QED
      BY <3>1, <3>2, Zenon DEF HistoryType
  <2>2. history' = [u \in Task |-> h(u)]
    BY Zenon DEF KillSpooler, At
  <2> HIDE DEF h, hit
  <2> QED
    BY <2>1, <2>2, Zenon
<1>5. TypeOK'
  BY <1>1, <1>2, <1>3, <1>4 DEF TypeOK, SpoolerType, HistoryType
<1>6. TasksOpen' /\ TasksCounted'
  BY <1>1, <1>3 DEF TasksOpen, TasksCounted, Opened
<1>7. LockHeld'
  BY <1>1, <1>2, <1>3 DEF LockHeld, TasksOpen, Opened, Holding, Free, Producer
<1>8. WrittenSoFar' /\ DoneOnce' /\ WholeTask'
  BY <1>3, <1>4 DEF WrittenSoFar, DoneOnce, WholeTask
<1>9. FileWhole'
  BY <1>1, <1>3 DEF FileWhole, Checked
<1>10. DoneGone'
  <2>1. ASSUME NEW u \in Task, history'[u].done = TRUE, history'[u].cut = FALSE, file'[u].there = TRUE
        PROVE  \E q \in Spooler : spooler'[q].pc = "unlink" /\ spooler'[q].task = u
    <3>1. ~hit(u) /\ history[u].cut = FALSE
      <4>1. history[u].cut \in BOOLEAN
        BY DEF TypeOK
      <4> QED
        BY <1>4, <2>1, <4>1
    <3>2. PICK q \in Spooler : spooler[q].pc = "unlink" /\ spooler[q].task = u
      BY <1>3, <1>4, <2>1, <3>1 DEF DoneGone
    <3> QED
      BY <1>1, <3>1, <3>2
  <2>2. ASSUME NEW q \in Spooler, spooler'[q].pc \in Checked
        PROVE  history'[spooler'[q].task].done = FALSE \/ history'[spooler'[q].task].cut = TRUE
    <3>1. q # s /\ spooler'[q] = spooler[q] /\ spooler[q].task \in Task
      BY <1>1, <2>2 DEF Checked, TasksOpen, Opened
    <3>2. history[spooler[q].task].done = FALSE \/ history[spooler[q].task].cut = TRUE
      BY <2>2, <3>1 DEF DoneGone
    <3> DEFINE u == spooler[q].task
    <3>3. history'[u].done = history[u].done /\ history'[u].cut = (history[u].cut \/ hit(u))
      BY <1>4, <3>1
    <3> HIDE DEF hit, u
    <3> QED
      BY <3>1, <3>2, <3>3 DEF u
  <2> QED
    BY <2>1, <2>2 DEF DoneGone
<1> QED
  BY <1>5, <1>6, <1>7, <1>8, <1>9, <1>10 DEF SpoolerInv

InodeType == [there : BOOLEAN, content : Content, future : BOOLEAN]
RequestType == Writing \cup {"idle", "clear", "spooled", "failed", "killed"}

\* What the invariant asks of the request for task t: its progress p, its file f, its lock l.
Written(t, p, f, l) ==
    /\ p \in RequestType \ {"idle"} /\ f \in InodeType
    /\ l = Producer <=> p \in {"locked", "header", "args", "full", "clear"}
    /\ l = lock[t] \/ (lock[t] \in {Free, Producer} /\ l \in {Free, Producer})
    /\ p \in {"created", "locked"} => f.content = "empty"
    /\ p \in {"header", "args", "full"} => f.content = p
    /\ p = "spooled" => f.content = "full"
    /\ p = "failed" => f.content = "empty" \/ f.there = FALSE

\* A step of a request: it writes, and fails after a write, only while it has the lock.
LEMMA RequestStep ==
  ASSUME SpoolerInv, NEW t \in Task, UNCHANGED <<spooler, cheap>>, faults' \in 0..MaxFaults,
         history' \in [Task -> HistoryType],
         \A u \in Task : /\ history'[u].done = history[u].done /\ history'[u].cut = history[u].cut
                         /\ history'[u].again = history[u].again /\ history'[u].torn = history[u].torn,
         NEW p, producer' = [producer EXCEPT ![t] = p],
         NEW f, file' = [file EXCEPT ![t] = f],
         NEW l, lock' = [lock EXCEPT ![t] = l],
         Written(t, p, f, l),
         lock[t] = Producer \/ (f.content = file[t].content /\ (p = "failed" => f.content = "empty")),
         f.there = TRUE => file[t].there = TRUE \/ producer[t] = "idle"
  PROVE  SpoolerInv'
<1> USE SpoolerAssumption DEF SpoolerInv
<1>1. /\ file \in [Task -> InodeType] /\ producer \in [Task -> RequestType]
      /\ lock \in [Task -> {Free, Producer} \cup Spooler]
  BY DEF TypeOK, InodeType, RequestType
<1>2. /\ file'[t] = f /\ producer'[t] = p /\ lock'[t] = l
      /\ \A u \in Task \ {t} : file'[u] = file[u] /\ producer'[u] = producer[u] /\ lock'[u] = lock[u]
      /\ file' \in [Task -> InodeType] /\ producer' \in [Task -> RequestType]
      /\ lock' \in [Task -> {Free, Producer} \cup Spooler]
  BY <1>1 DEF Written
<1>3. TypeOK'
  BY <1>2 DEF TypeOK, InodeType, RequestType, HistoryType
<1>4. TasksOpen'
  BY <1>2 DEF TasksOpen, Written
<1>5. LockHeld'
  BY <1>2 DEF LockHeld, TasksOpen, Opened, Holding, Written, Free, Producer
<1>6. WrittenSoFar'
  BY <1>2 DEF WrittenSoFar, Written
<1>7. FileWhole'
  <2>1. ASSUME NEW q \in Spooler, spooler[q].pc \in Checked
        PROVE  spooler[q].task \in Task /\ (spooler[q].task = t => lock[t] # Producer)
    BY <2>1 DEF TasksOpen, LockHeld, Checked, Opened, Holding, Free, Producer
  <2> QED
    BY <1>2, <2>1 DEF FileWhole, Checked
<1>8. DoneGone'
  <2>1. ASSUME NEW u \in Task, history'[u].done = TRUE, history'[u].cut = FALSE, file'[u].there = TRUE
        PROVE  \E q \in Spooler : spooler'[q].pc = "unlink" /\ spooler'[q].task = u
    <3>1. file[u].there = TRUE
      BY <1>2, <2>1 DEF WrittenSoFar
    <3> QED
      BY <2>1, <3>1 DEF DoneGone
  <2>2. \A q \in Spooler : spooler[q].pc \in Checked => spooler[q].task \in Task
    BY DEF TasksOpen, Checked, Opened
  <2> QED
    BY <2>1, <2>2 DEF DoneGone
<1>9. TasksCounted' /\ DoneOnce' /\ WholeTask'
  BY DEF TasksCounted, DoneOnce, WholeTask
<1> QED
  BY <1>3, <1>4, <1>5, <1>6, <1>7, <1>8, <1>9 DEF SpoolerInv

\* A request starts with an empty file.
LEMMA StepCreate ==
  ASSUME SpoolerInv, NEW t \in Task, Create(t)
  PROVE  SpoolerInv'
<1> USE SpoolerAssumption DEF SpoolerInv
<1> DEFINE f == [file[t] EXCEPT !.there = TRUE]
<1>1. file \in [Task -> InodeType] /\ file[t] \in InodeType
  BY DEF TypeOK, InodeType
<1>2. f \in InodeType /\ f.content = file[t].content
  BY <1>1, Zenon DEF InodeType
<1>3. file' = [file EXCEPT ![t] = f]
  BY Zenon DEF Create
<1>4. producer' = [producer EXCEPT ![t] = "created"] /\ lock' = [lock EXCEPT ![t] = lock[t]]
  BY DEF Create, ProducerAt, TypeOK
<1>5. UNCHANGED <<spooler, cheap, history>> /\ faults' \in 0..MaxFaults /\ history \in [Task -> HistoryType]
  BY DEF Create, ProducerAt, Fault, TypeOK, HistoryType
<1> HIDE DEF f
<1>6. Written(t, "created", f, lock[t])
  BY <1>1, <1>2 DEF Create, ProducerAt, Written, RequestType, Writing, LockHeld, WrittenSoFar, Free, Producer, TypeOK
<1>7. lock[t] = Producer \/ (f.content = file[t].content /\ ("created" = "failed" => f.content = "empty"))
  BY <1>2 DEF Create, ProducerAt, LockHeld, WrittenSoFar
<1>8. f.there = TRUE => file[t].there = TRUE \/ producer[t] = "idle"
  BY <1>2 DEF Create, ProducerAt
<1> QED
  BY <1>3, <1>4, <1>5, <1>6, <1>7, <1>8, RequestStep

\* The request takes a free lock before it writes.
LEMMA StepLockFile ==
  ASSUME SpoolerInv, NEW t \in Task, LockFile(t)
  PROVE  SpoolerInv'
<1> USE SpoolerAssumption DEF SpoolerInv
<1> DEFINE f == file[t]
<1>1. file \in [Task -> InodeType] /\ file[t] \in InodeType
  BY DEF TypeOK, InodeType
<1>2. f \in InodeType /\ f.content = file[t].content /\ f.there = file[t].there
  BY <1>1
<1>3. file' = [file EXCEPT ![t] = f]
  BY <1>1 DEF LockFile, ProducerAt
<1>4. producer' = [producer EXCEPT ![t] = "locked"] /\ lock' = [lock EXCEPT ![t] = Producer]
  BY DEF LockFile, ProducerAt, TypeOK
<1>5. UNCHANGED <<spooler, cheap, history>> /\ faults' \in 0..MaxFaults /\ history \in [Task -> HistoryType]
  BY DEF LockFile, ProducerAt, Fault, TypeOK, HistoryType
<1> HIDE DEF f
<1>6. Written(t, "locked", f, Producer)
  BY <1>1, <1>2 DEF LockFile, ProducerAt, Written, RequestType, Writing, LockHeld, WrittenSoFar, Free, Producer, TypeOK
<1>7. lock[t] = Producer \/ (f.content = file[t].content /\ ("locked" = "failed" => f.content = "empty"))
  BY <1>2 DEF LockFile, ProducerAt, LockHeld, WrittenSoFar
<1>8. f.there = TRUE => file[t].there = TRUE \/ producer[t] = "idle"
  BY <1>2 DEF LockFile, ProducerAt
<1> QED
  BY <1>3, <1>4, <1>5, <1>6, <1>7, <1>8, RequestStep

\* A request without the lock fails with an empty file.
LEMMA StepLockFileFails ==
  ASSUME SpoolerInv, NEW t \in Task, LockFileFails(t)
  PROVE  SpoolerInv'
<1> USE SpoolerAssumption DEF SpoolerInv
<1> DEFINE f == file[t]
<1>1. file \in [Task -> InodeType] /\ file[t] \in InodeType
  BY DEF TypeOK, InodeType
<1>2. f \in InodeType /\ f.content = file[t].content /\ f.there = file[t].there
  BY <1>1
<1>3. file' = [file EXCEPT ![t] = f]
  BY <1>1 DEF LockFileFails, ProducerAt
<1>4. producer' = [producer EXCEPT ![t] = "failed"] /\ lock' = [lock EXCEPT ![t] = lock[t]]
  BY DEF LockFileFails, ProducerAt, TypeOK
<1>5. UNCHANGED <<spooler, cheap, history>> /\ faults' \in 0..MaxFaults /\ history \in [Task -> HistoryType]
  BY DEF LockFileFails, ProducerAt, Fault, TypeOK, HistoryType
<1> HIDE DEF f
<1>6. Written(t, "failed", f, lock[t])
  BY <1>1, <1>2 DEF LockFileFails, ProducerAt, Written, RequestType, Writing, LockHeld, WrittenSoFar, Free, Producer, TypeOK
<1>7. lock[t] = Producer \/ (f.content = file[t].content /\ ("failed" = "failed" => f.content = "empty"))
  BY <1>2 DEF LockFileFails, ProducerAt, LockHeld, WrittenSoFar
<1>8. f.there = TRUE => file[t].there = TRUE \/ producer[t] = "idle"
  BY <1>2 DEF LockFileFails, ProducerAt
<1> QED
  BY <1>3, <1>4, <1>5, <1>6, <1>7, <1>8, RequestStep

\* The first write, with the lock.
LEMMA StepWriteHeader ==
  ASSUME SpoolerInv, NEW t \in Task, Write(t, "locked", "header")
  PROVE  SpoolerInv'
<1> USE SpoolerAssumption DEF SpoolerInv
<1> DEFINE f == [file[t] EXCEPT !.content = "header"]
<1>1. file \in [Task -> InodeType] /\ file[t] \in InodeType
  BY DEF TypeOK, InodeType
<1>2. f \in InodeType /\ f.content = "header" /\ f.there = file[t].there
  BY <1>1 DEF InodeType, Content
<1>3. file' = [file EXCEPT ![t] = f]
  BY <1>1 DEF Write, InodeType
<1>4. producer' = [producer EXCEPT ![t] = "header"] /\ lock' = [lock EXCEPT ![t] = lock[t]]
  BY DEF Write, ProducerAt, TypeOK
<1>5. UNCHANGED <<spooler, cheap, history>> /\ faults' \in 0..MaxFaults /\ history \in [Task -> HistoryType]
  BY DEF Write, ProducerAt, Fault, TypeOK, HistoryType
<1> HIDE DEF f
<1>6. Written(t, "header", f, lock[t])
  BY <1>1, <1>2 DEF Write, ProducerAt, Written, RequestType, Writing, LockHeld, WrittenSoFar, Free, Producer, TypeOK
<1>7. lock[t] = Producer \/ (f.content = file[t].content /\ ("header" = "failed" => f.content = "empty"))
  BY <1>2 DEF Write, ProducerAt, LockHeld, WrittenSoFar
<1>8. f.there = TRUE => file[t].there = TRUE \/ producer[t] = "idle"
  BY <1>2 DEF Write, ProducerAt
<1> QED
  BY <1>3, <1>4, <1>5, <1>6, <1>7, <1>8, RequestStep

\* The second write, with the lock.
LEMMA StepWriteArgs ==
  ASSUME SpoolerInv, NEW t \in Task, Write(t, "header", "args")
  PROVE  SpoolerInv'
<1> USE SpoolerAssumption DEF SpoolerInv
<1> DEFINE f == [file[t] EXCEPT !.content = "args"]
<1>1. file \in [Task -> InodeType] /\ file[t] \in InodeType
  BY DEF TypeOK, InodeType
<1>2. f \in InodeType /\ f.content = "args" /\ f.there = file[t].there
  BY <1>1 DEF InodeType, Content
<1>3. file' = [file EXCEPT ![t] = f]
  BY <1>1 DEF Write, InodeType
<1>4. producer' = [producer EXCEPT ![t] = "args"] /\ lock' = [lock EXCEPT ![t] = lock[t]]
  BY DEF Write, ProducerAt, TypeOK
<1>5. UNCHANGED <<spooler, cheap, history>> /\ faults' \in 0..MaxFaults /\ history \in [Task -> HistoryType]
  BY DEF Write, ProducerAt, Fault, TypeOK, HistoryType
<1> HIDE DEF f
<1>6. Written(t, "args", f, lock[t])
  BY <1>1, <1>2 DEF Write, ProducerAt, Written, RequestType, Writing, LockHeld, WrittenSoFar, Free, Producer, TypeOK
<1>7. lock[t] = Producer \/ (f.content = file[t].content /\ ("args" = "failed" => f.content = "empty"))
  BY <1>2 DEF Write, ProducerAt, LockHeld, WrittenSoFar
<1>8. f.there = TRUE => file[t].there = TRUE \/ producer[t] = "idle"
  BY <1>2 DEF Write, ProducerAt
<1> QED
  BY <1>3, <1>4, <1>5, <1>6, <1>7, <1>8, RequestStep

\* The third write, with the lock.
LEMMA StepWriteFull ==
  ASSUME SpoolerInv, NEW t \in Task, Write(t, "args", "full")
  PROVE  SpoolerInv'
<1> USE SpoolerAssumption DEF SpoolerInv
<1> DEFINE f == [file[t] EXCEPT !.content = "full"]
<1>1. file \in [Task -> InodeType] /\ file[t] \in InodeType
  BY DEF TypeOK, InodeType
<1>2. f \in InodeType /\ f.content = "full" /\ f.there = file[t].there
  BY <1>1 DEF InodeType, Content
<1>3. file' = [file EXCEPT ![t] = f]
  BY <1>1 DEF Write, InodeType
<1>4. producer' = [producer EXCEPT ![t] = "full"] /\ lock' = [lock EXCEPT ![t] = lock[t]]
  BY DEF Write, ProducerAt, TypeOK
<1>5. UNCHANGED <<spooler, cheap, history>> /\ faults' \in 0..MaxFaults /\ history \in [Task -> HistoryType]
  BY DEF Write, ProducerAt, Fault, TypeOK, HistoryType
<1> HIDE DEF f
<1>6. Written(t, "full", f, lock[t])
  BY <1>1, <1>2 DEF Write, ProducerAt, Written, RequestType, Writing, LockHeld, WrittenSoFar, Free, Producer, TypeOK
<1>7. lock[t] = Producer \/ (f.content = file[t].content /\ ("full" = "failed" => f.content = "empty"))
  BY <1>2 DEF Write, ProducerAt, LockHeld, WrittenSoFar
<1>8. f.there = TRUE => file[t].there = TRUE \/ producer[t] = "idle"
  BY <1>2 DEF Write, ProducerAt
<1> QED
  BY <1>3, <1>4, <1>5, <1>6, <1>7, <1>8, RequestStep

\* A failed write goes to the error path with the lock.
LEMMA StepWriteFails ==
  ASSUME SpoolerInv, NEW t \in Task, WriteFails(t)
  PROVE  SpoolerInv'
<1> USE SpoolerAssumption DEF SpoolerInv
<1> DEFINE f == file[t]
<1>1. file \in [Task -> InodeType] /\ file[t] \in InodeType
  BY DEF TypeOK, InodeType
<1>2. f \in InodeType /\ f.content = file[t].content /\ f.there = file[t].there
  BY <1>1
<1>3. file' = [file EXCEPT ![t] = f]
  BY <1>1 DEF WriteFails
<1>4. producer' = [producer EXCEPT ![t] = "clear"] /\ lock' = [lock EXCEPT ![t] = lock[t]]
  BY DEF WriteFails, TypeOK
<1>5. UNCHANGED <<spooler, cheap, history>> /\ faults' \in 0..MaxFaults /\ history \in [Task -> HistoryType]
  BY DEF WriteFails, Fault, TypeOK, HistoryType
<1> HIDE DEF f
<1>6. Written(t, "clear", f, lock[t])
  BY <1>1, <1>2 DEF WriteFails, Written, RequestType, Writing, LockHeld, WrittenSoFar, Free, Producer, TypeOK
<1>7. lock[t] = Producer \/ (f.content = file[t].content /\ ("clear" = "failed" => f.content = "empty"))
  BY <1>2 DEF WriteFails, LockHeld, WrittenSoFar
<1>8. f.there = TRUE => file[t].there = TRUE \/ producer[t] = "idle"
  BY <1>2 DEF WriteFails
<1> QED
  BY <1>3, <1>4, <1>5, <1>6, <1>7, <1>8, RequestStep

\* The error path unlinks first ...
LEMMA StepClearFile ==
  ASSUME SpoolerInv, NEW t \in Task, Clear(t), file[t].there
  PROVE  SpoolerInv'
<1> USE SpoolerAssumption DEF SpoolerInv
<1> DEFINE f == [file[t] EXCEPT !.there = FALSE]
<1>1. file \in [Task -> InodeType] /\ file[t] \in InodeType
  BY DEF TypeOK, InodeType
<1>2. f \in InodeType /\ f.content = file[t].content /\ f.there = FALSE
  BY <1>1, Zenon DEF InodeType
<1>3. file' = [file EXCEPT ![t] = f]
  BY Zenon DEF Clear
<1>4. producer' = [producer EXCEPT ![t] = "clear"] /\ lock' = [lock EXCEPT ![t] = lock[t]]
  BY DEF Clear, TypeOK
<1>5. UNCHANGED <<spooler, cheap, history>> /\ faults' \in 0..MaxFaults /\ history \in [Task -> HistoryType]
  BY DEF Clear, Fault, TypeOK, HistoryType
<1> HIDE DEF f
<1>6. Written(t, "clear", f, lock[t])
  BY <1>1, <1>2 DEF Clear, Written, RequestType, Writing, LockHeld, WrittenSoFar, Free, Producer, TypeOK
<1>7. lock[t] = Producer \/ (f.content = file[t].content /\ ("clear" = "failed" => f.content = "empty"))
  BY <1>2 DEF Clear, LockHeld, WrittenSoFar
<1>8. f.there = TRUE => file[t].there = TRUE \/ producer[t] = "idle"
  BY <1>2 DEF Clear
<1> QED
  BY <1>3, <1>4, <1>5, <1>6, <1>7, <1>8, RequestStep

\* ... and unlocks when nothing is there any more.
LEMMA StepClearLock ==
  ASSUME SpoolerInv, NEW t \in Task, Clear(t), ~file[t].there
  PROVE  SpoolerInv'
<1> USE SpoolerAssumption DEF SpoolerInv
<1> DEFINE f == file[t]
<1>1. file \in [Task -> InodeType] /\ file[t] \in InodeType
  BY DEF TypeOK, InodeType
<1>2. f \in InodeType /\ f.content = file[t].content /\ f.there = FALSE
  BY <1>1 DEF InodeType
<1>3. file' = [file EXCEPT ![t] = f]
  BY <1>1 DEF Clear
<1>4. producer' = [producer EXCEPT ![t] = "failed"] /\ lock' = [lock EXCEPT ![t] = Free]
  BY DEF Clear, TypeOK
<1>5. UNCHANGED <<spooler, cheap, history>> /\ faults' \in 0..MaxFaults /\ history \in [Task -> HistoryType]
  BY DEF Clear, Fault, TypeOK, HistoryType
<1> HIDE DEF f
<1>6. Written(t, "failed", f, Free)
  BY <1>1, <1>2 DEF Clear, Written, RequestType, Writing, LockHeld, WrittenSoFar, Free, Producer, TypeOK
<1>7. lock[t] = Producer \/ (f.content = file[t].content /\ ("failed" = "failed" => f.content = "empty"))
  BY <1>2 DEF Clear, LockHeld, WrittenSoFar
<1>8. f.there = TRUE => file[t].there = TRUE \/ producer[t] = "idle"
  BY <1>2 DEF Clear
<1> QED
  BY <1>3, <1>4, <1>5, <1>6, <1>7, <1>8, RequestStep

\* The time of the file is not its content.
LEMMA StepSetTime ==
  ASSUME SpoolerInv, NEW t \in Task, SetTime(t)
  PROVE  SpoolerInv'
<1> USE SpoolerAssumption DEF SpoolerInv
<1> DEFINE f == [file[t] EXCEPT !.future = TRUE]
<1>1. file \in [Task -> InodeType] /\ file[t] \in InodeType
  BY DEF TypeOK, InodeType
<1>2. f \in InodeType /\ f.content = file[t].content /\ f.there = file[t].there
  BY <1>1, Zenon DEF InodeType
<1>3. file' = [file EXCEPT ![t] = f]
  BY Zenon DEF SetTime
<1>4. producer' = [producer EXCEPT ![t] = "full"] /\ lock' = [lock EXCEPT ![t] = lock[t]]
  BY DEF SetTime, TypeOK
<1>5. UNCHANGED <<spooler, cheap, history>> /\ faults' \in 0..MaxFaults /\ history \in [Task -> HistoryType]
  BY DEF SetTime, Fault, TypeOK, HistoryType
<1> HIDE DEF f
<1>6. Written(t, "full", f, lock[t])
  BY <1>1, <1>2 DEF SetTime, Written, RequestType, Writing, LockHeld, WrittenSoFar, Free, Producer, TypeOK
<1>7. lock[t] = Producer \/ (f.content = file[t].content /\ ("full" = "failed" => f.content = "empty"))
  BY <1>2 DEF SetTime, LockHeld, WrittenSoFar
<1>8. f.there = TRUE => file[t].there = TRUE \/ producer[t] = "idle"
  BY <1>2 DEF SetTime
<1> QED
  BY <1>3, <1>4, <1>5, <1>6, <1>7, <1>8, RequestStep

\* The lock of the request goes when everything is written.
LEMMA StepClose ==
  ASSUME SpoolerInv, NEW t \in Task, Close(t)
  PROVE  SpoolerInv'
<1> USE SpoolerAssumption DEF SpoolerInv
<1> DEFINE f == file[t]
<1>1. file \in [Task -> InodeType] /\ file[t] \in InodeType
  BY DEF TypeOK, InodeType
<1>2. f \in InodeType /\ f.content = file[t].content /\ f.there = file[t].there
  BY <1>1
<1>3. file' = [file EXCEPT ![t] = f]
  BY <1>1 DEF Close, ProducerAt
<1>4. producer' = [producer EXCEPT ![t] = "spooled"] /\ lock' = [lock EXCEPT ![t] = Free]
  BY DEF Close, ProducerAt, TypeOK
<1>5. UNCHANGED <<spooler, cheap, history>> /\ faults' \in 0..MaxFaults /\ history \in [Task -> HistoryType]
  BY DEF Close, ProducerAt, Fault, TypeOK, HistoryType
<1> HIDE DEF f
<1>6. Written(t, "spooled", f, Free)
  BY <1>1, <1>2 DEF Close, ProducerAt, Written, RequestType, Writing, LockHeld, WrittenSoFar, Free, Producer, TypeOK
<1>7. lock[t] = Producer \/ (f.content = file[t].content /\ ("spooled" = "failed" => f.content = "empty"))
  BY <1>2 DEF Close, ProducerAt, LockHeld, WrittenSoFar
<1>8. f.there = TRUE => file[t].there = TRUE \/ producer[t] = "idle"
  BY <1>2 DEF Close, ProducerAt
<1> QED
  BY <1>3, <1>4, <1>5, <1>6, <1>7, <1>8, RequestStep

\* The lock of a killed request goes; its file may be torn.
LEMMA StepKillProducer ==
  ASSUME SpoolerInv, NEW t \in Task, KillProducer(t)
  PROVE  SpoolerInv'
<1> USE SpoolerAssumption DEF SpoolerInv
<1> DEFINE f == file[t]
<1>1. file \in [Task -> InodeType] /\ file[t] \in InodeType
  BY DEF TypeOK, InodeType
<1>2. f \in InodeType /\ f.content = file[t].content /\ f.there = file[t].there
  BY <1>1
<1>3. file' = [file EXCEPT ![t] = f]
  BY <1>1 DEF KillProducer
<1>4. producer' = [producer EXCEPT ![t] = "killed"] /\ lock' = [lock EXCEPT ![t] = IF lock[t] = Producer THEN Free ELSE lock[t]]
  BY DEF KillProducer, TypeOK
<1>5. UNCHANGED <<spooler, cheap, history>> /\ faults' \in 0..MaxFaults /\ history \in [Task -> HistoryType]
  BY DEF KillProducer, Fault, TypeOK, HistoryType
<1> HIDE DEF f
<1>6. Written(t, "killed", f, IF lock[t] = Producer THEN Free ELSE lock[t])
  BY <1>1, <1>2 DEF KillProducer, Written, RequestType, Writing, LockHeld, WrittenSoFar, Free, Producer, TypeOK
<1>7. lock[t] = Producer \/ (f.content = file[t].content /\ ("killed" = "failed" => f.content = "empty"))
  BY <1>2 DEF KillProducer, LockHeld, WrittenSoFar
<1>8. f.there = TRUE => file[t].there = TRUE \/ producer[t] = "idle"
  BY <1>2 DEF KillProducer
<1> QED
  BY <1>3, <1>4, <1>5, <1>6, <1>7, <1>8, RequestStep

\* The time of a task comes.
LEMMA StepTimeComes ==
  ASSUME SpoolerInv, NEW t \in Task, TimeComes(t)
  PROVE  SpoolerInv'
<1> USE SpoolerAssumption DEF SpoolerInv
<1> DEFINE f == [file[t] EXCEPT !.future = FALSE]
<1> DEFINE h == [history[t] EXCEPT !.at = FALSE]
<1>1. /\ file \in [Task -> InodeType] /\ file[t] \in InodeType
      /\ history \in [Task -> HistoryType] /\ history[t] \in HistoryType
  BY DEF TypeOK, InodeType, HistoryType
<1>2. f \in InodeType /\ f.content = file[t].content /\ f.there = file[t].there
  BY <1>1, Zenon DEF InodeType
<1>3. /\ h \in HistoryType /\ h.done = history[t].done /\ h.cut = history[t].cut
      /\ h.again = history[t].again /\ h.torn = history[t].torn
  BY <1>1, Zenon DEF HistoryType
<1>4. file' = [file EXCEPT ![t] = f] /\ history' = [history EXCEPT ![t] = h]
  BY Zenon DEF TimeComes
<1>5. producer' = [producer EXCEPT ![t] = "spooled"] /\ lock' = [lock EXCEPT ![t] = lock[t]]
  BY DEF TimeComes, TypeOK
<1>6. UNCHANGED <<spooler, cheap>> /\ faults' \in 0..MaxFaults
  BY DEF TimeComes, TypeOK
<1> HIDE DEF f, h
<1>7. /\ history' \in [Task -> HistoryType]
      /\ \A u \in Task : /\ history'[u].done = history[u].done /\ history'[u].cut = history[u].cut
                         /\ history'[u].again = history[u].again /\ history'[u].torn = history[u].torn
  BY <1>1, <1>3, <1>4
<1>8. Written(t, "spooled", f, lock[t])
  BY <1>1, <1>2 DEF TimeComes, Written, RequestType, LockHeld, WrittenSoFar
<1> QED
  BY <1>2, <1>4, <1>5, <1>6, <1>7, <1>8, RequestStep

\* The invariant holds of the empty directory.
LEMMA SpoolerInit ==
  ASSUME Init
  PROVE  SpoolerInv
<1> USE SpoolerAssumption
<1> DEFINE r == [NewSpooler EXCEPT !.pc = IF cheap THEN "down" ELSE "wait"]
<1>1. r \in SpoolerType /\ r.pc \in {"down", "wait"} /\ r.tasks = 0
  <2>1. NewSpooler \in SpoolerType /\ NewSpooler.tasks = 0
    BY DEF NewSpooler, SpoolerType
  <2>2. CASE cheap
    <3>1. r = [NewSpooler EXCEPT !.pc = "down"]
      BY <2>2
    <3> HIDE DEF r
    <3> QED
      BY <2>1, <3>1 DEF SpoolerType
  <2>3. CASE ~cheap
    <3>1. r = [NewSpooler EXCEPT !.pc = "wait"]
      BY <2>3
    <3> HIDE DEF r
    <3> QED
      BY <2>1, <3>1 DEF SpoolerType
  <2> QED
    BY <2>2, <2>3
<1>2. spooler = [s \in Spooler |-> r]
  BY DEF Init
<1> HIDE DEF r
<1>3. /\ spooler \in [Spooler -> SpoolerType]
      /\ \A s \in Spooler : spooler[s].pc \in {"down", "wait"} /\ spooler[s].tasks = 0
  BY <1>1, <1>2
<1>4. /\ history \in [Task -> HistoryType]
      /\ \A t \in Task : /\ history[t].done = FALSE /\ history[t].cut = FALSE
                         /\ history[t].again = FALSE /\ history[t].torn = FALSE
  <2>1. PICK at \in [Task -> BOOLEAN] :
          history = [t \in Task |-> [at |-> at[t], ran |-> FALSE, done |-> FALSE, cut |-> FALSE,
                                     again |-> FALSE, torn |-> FALSE, early |-> FALSE]]
    BY DEF Init
  <2>2. \A t \in Task : at[t] \in BOOLEAN
    OBVIOUS
  <2> QED
    BY <2>1, <2>2 DEF HistoryType
<1>5. /\ file \in [Task -> InodeType]
      /\ \A t \in Task : file[t].there = FALSE /\ file[t].content = "empty"
  BY DEF Init, InodeType, Content
<1>6. /\ lock = [t \in Task |-> Free] /\ producer = [t \in Task |-> "idle"]
      /\ cheap \in BOOLEAN /\ faults \in 0..MaxFaults
  BY DEF Init
<1>7. TypeOK
  BY <1>3, <1>4, <1>5, <1>6 DEF TypeOK, SpoolerType, HistoryType, InodeType
<1>8. TasksOpen /\ TasksCounted /\ LockHeld
  BY <1>3, <1>6 DEF TasksOpen, TasksCounted, LockHeld, Opened, Holding, Free, Producer
<1>9. WrittenSoFar /\ FileWhole /\ DoneGone /\ DoneOnce /\ WholeTask
  BY <1>3, <1>4, <1>5, <1>6 DEF WrittenSoFar, FileWhole, DoneGone, DoneOnce, WholeTask, Checked
<1> QED
  BY <1>7, <1>8, <1>9 DEF SpoolerInv

\* Every step of a request, a spooler, the master or a fault preserves the invariant.
LEMMA SpoolerNext ==
  ASSUME SpoolerInv, [Next]_vars
  PROVE  SpoolerInv'
<1>1. CASE UNCHANGED vars
  BY <1>1 DEF vars, SpoolerInv, TypeOK, TasksOpen, TasksCounted, LockHeld, WrittenSoFar,
     FileWhole, DoneGone, DoneOnce, WholeTask
<1>2. ASSUME NEW t \in Task, SpoolRequest(t) \/ KillProducer(t) \/ TimeComes(t)
      PROVE  SpoolerInv'
  <2>1. CASE Clear(t)
    BY <2>1, StepClearFile, StepClearLock
  <2> QED
    BY <1>2, <2>1, StepCreate, StepLockFile, StepLockFileFails, StepWriteHeader, StepWriteArgs,
       StepWriteFull, StepWriteFails, StepSetTime, StepClose, StepKillProducer, StepTimeComes
       DEF SpoolRequest
<1>3. ASSUME NEW s \in Spooler, SpoolerStep(s) \/ KillSpooler(s) \/ Respawn(s)
      PROVE  SpoolerInv'
  BY <1>3, StepScan, StepStat, StepOpen, StepTryLock, StepRecheck, StepReadHeader, StepLstat,
     StepReadContent, StepRun, StepDestroyBroken, StepUnlink, StepFinish, StepScanEnds,
     StepKillSpooler, StepRespawn DEF SpoolerStep, ManageTask
<1> QED
  BY <1>1, <1>2, <1>3 DEF Next, Rest

\* uwsgi_spool_request, spooler_manage_task, the kills and the respawn preserve the
\* inductive invariant.
THEOREM SpoolerInvariant == Spec => []SpoolerInv
<1>1. Init => SpoolerInv
  BY SpoolerInit
<1>2. SpoolerInv /\ [Next]_vars => SpoolerInv'
  BY SpoolerNext
<1> QED
  BY <1>1, <1>2, PTL DEF Spec

\* uwsgi_fcntl_is_locked and the lstat after it keep two spoolers from running one task at
\* the same time, for every number of tasks, of spoolers and of kills.
THEOREM OneRunnerAlways == Spec => []OneRunner
<1>1. SpoolerInv => OneRunner
  <2> SUFFICES ASSUME SpoolerInv
               PROVE  OneRunner
    OBVIOUS
  <2>1. ASSUME NEW a \in Spooler, NEW b \in Spooler,
               At(a, "run"), At(b, "run"), spooler[a].task = spooler[b].task
        PROVE  a = b
    BY <2>1 DEF SpoolerInv, LockHeld, Holding, At
  <2> QED
    BY <2>1 DEF OneRunner, SpoolerInv
<1> QED
  BY <1>1, SpoolerInvariant, PTL

\* A task that spooler_manage_task has done runs again only if its spooler was killed before
\* destroy_spool.
THEOREM DoneOnceAlways == Spec => []DoneOnce
<1>1. SpoolerInv => DoneOnce
  BY DEF SpoolerInv
<1> QED
  BY <1>1, SpoolerInvariant, PTL

\* What spooler_manage_task runs is everything uwsgi_spool_request had to write, unless the
\* process that wrote it was killed.
THEOREM WholeTaskAlways == Spec => []WholeTask
<1>1. SpoolerInv => WholeTask
  BY DEF SpoolerInv
<1> QED
  BY <1>1, SpoolerInvariant, PTL
=============================================================================
