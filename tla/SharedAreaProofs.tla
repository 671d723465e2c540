-------------------------- MODULE SharedAreaProofs --------------------------
(***************************************************************************)
(* Exclusion, the consistency of the area and the release of a dead         *)
(* writer's lock, for every number of processes, of updates and of kills.   *)
(***************************************************************************)
EXTENDS SharedArea, FiniteSetTheorems, TLAPS

ProcType == [pc : Place, op : Op, holds : {"none", "r", "w"}, value : Value,
             got : [1 .. 2 -> Value], seen : 0 .. MaxUpdates, woken : BOOLEAN]

Busy == {"taken", "first", "second", "count"}

\* The processes with a read lock, and the calls that will still count an update.
Readers(f) == {q \in Proc : f[q].holds = "r"}
Pending(f) == {q \in Proc : f[q].pc \in Busy /\ f[q].op \in Change}

\* What holds also after the lock was released by somebody who did not hold it.
Counts ==
    /\ rw.writer = TRUE => rw.readers = 0
    /\ rw.readers <= Cardinality(Readers(proc))
    /\ updates + Cardinality(Pending(proc)) <= MaxUpdates

Places ==
    \A p \in Proc :
        /\ proc[p].pc \in {"taken", "first", "second", "count", "unlock"} =>
              proc[p].holds = LockMode(proc[p].op)
        /\ proc[p].pc \in {"idle", "released", "asleep"} => proc[p].holds = "none"
        /\ proc[p].pc = "second" => proc[p].op \in Change \cup {"read"}
        /\ proc[p].pc = "count" => proc[p].op \in Change

\* The lock is what the processes hold.
LockKept ==
    /\ rw.readers = Cardinality(Readers(proc))
    /\ rw.writer = TRUE <=> \E p \in Proc : proc[p].holds = "w"
    /\ \A p, q \in Proc : p # q /\ proc[p].holds = "w" => proc[q].holds = "none"

\* The process of the pid word holds the lock, or is about to clear its pid.
WordKept ==
    \A p \in Proc : pidWord = p =>
        \/ proc[p].pc \in {"first", "second", "count", "unlock", "released"}
        \/ proc[p].pc = "dead" /\ proc[p].holds # "none"

\* A writer is named by the word from the moment it stored its pid.
WriterNamed ==
    \A p \in Proc : proc[p].holds = "w" =>
        /\ proc[p].pc # "taken" => pidWord = p
        /\ proc[p].pc # "reaped"

Changing(p) == proc[p].pc = "second" /\ proc[p].op \in Change

\* Where a change is between its stores, and what a read has seen.
CellsKept ==
    /\ (\A p \in Proc : ~Changing(p)) => cells[1] = result /\ cells[2] = result
    /\ \A p \in Proc : Changing(p) =>
          /\ cells[1] = proc[p].value /\ cells[2] = result
          /\ proc[p].op = "inc" => proc[p].value = (result + 1) % Modulus
    /\ \A p \in Proc : proc[p].op = "read" =>
          /\ proc[p].pc = "second" => proc[p].got[1] = cells[1]
          /\ proc[p].pc = "unlock" => proc[p].got[1] = proc[p].got[2]

\* The inductive invariant.
AreaInv ==
    /\ TypeOK /\ Counts /\ Places
    /\ sound = TRUE => LockKept /\ WordKept
    /\ sound = TRUE /\ named = TRUE => WriterNamed
    /\ sound = TRUE /\ whole = TRUE => CellsKept
-----------------------------------------------------------------------------
(* Counting *)

\* Two sets of processes that differ at most in p.
LEMMA OneApart ==
  ASSUME NEW S \in SUBSET Proc, NEW T \in SUBSET Proc, NEW p \in Proc,
         \A q \in Proc \ {p} : q \in S <=> q \in T
  PROVE  /\ Cardinality(S) \in Nat /\ Cardinality(T) \in Nat
         /\ Cardinality(S) <= Cardinality(Proc)
         /\ (p \in S <=> p \in T) => Cardinality(S) = Cardinality(T)
         /\ p \in S /\ p \notin T => Cardinality(S) = Cardinality(T) + 1
         /\ p \notin S /\ p \in T => Cardinality(S) = Cardinality(T) - 1 /\ Cardinality(T) > 0
<1>1. /\ IsFiniteSet(S) /\ IsFiniteSet(T)
      /\ Cardinality(S) \in Nat /\ Cardinality(T) \in Nat /\ Cardinality(S) <= Cardinality(Proc)
  BY SharedAreaAssumption, FS_Subset, FS_CardinalityType
<1>2. (p \in S <=> p \in T) => S = T
  OBVIOUS
<1>3. p \in S /\ p \notin T => Cardinality(S) = Cardinality(T) + 1
  <2> SUFFICES ASSUME p \in S, p \notin T
               PROVE  Cardinality(S) = Cardinality(T) + 1
    OBVIOUS
  <2>1. S = T \cup {p}
    OBVIOUS
  <2> QED
    BY <1>1, <2>1, FS_AddElement
<1>4. p \notin S /\ p \in T => Cardinality(S) = Cardinality(T) - 1 /\ Cardinality(T) > 0
  <2> SUFFICES ASSUME p \notin S, p \in T
               PROVE  Cardinality(S) = Cardinality(T) - 1 /\ Cardinality(T) > 0
    OBVIOUS
  <2>1. T = S \cup {p}
    OBVIOUS
  <2>2. Cardinality(T) = Cardinality(S) + 1
    BY <1>1, <2>1, FS_AddElement
  <2> QED
    BY <1>1, <2>2
<1> QED
  BY <1>1, <1>2, <1>3, <1>4

\* A step of p leaves the others alone.
LEMMA Stepped ==
  ASSUME NEW p \in Proc, NEW r \in ProcType,
         proc \in [Proc -> ProcType], proc' = [proc EXCEPT ![p] = r]
  PROVE  /\ proc' \in [Proc -> ProcType] /\ proc'[p] = r
         /\ \A q \in Proc \ {p} : proc'[q] = proc[q]
OBVIOUS

\* The number of readers changes with what p holds.
LEMMA ReadersStepped ==
  ASSUME NEW p \in Proc, \A q \in Proc \ {p} : proc'[q] = proc[q]
  PROVE  /\ Cardinality(Readers(proc)) \in Nat /\ Cardinality(Readers(proc')) \in Nat
         /\ Cardinality(Readers(proc')) <= Cardinality(Proc)
         /\ (proc'[p].holds = "r" <=> proc[p].holds = "r") =>
               Cardinality(Readers(proc')) = Cardinality(Readers(proc))
         /\ proc'[p].holds = "r" /\ proc[p].holds # "r" =>
               Cardinality(Readers(proc')) = Cardinality(Readers(proc)) + 1
         /\ proc'[p].holds # "r" /\ proc[p].holds = "r" =>
               /\ Cardinality(Readers(proc')) = Cardinality(Readers(proc)) - 1
               /\ Cardinality(Readers(proc)) > 0
<1>2. /\ Readers(proc) \in SUBSET Proc /\ Readers(proc') \in SUBSET Proc
      /\ \A q \in Proc \ {p} : q \in Readers(proc') <=> q \in Readers(proc)
      /\ p \in Readers(proc) <=> proc[p].holds = "r"
      /\ p \in Readers(proc') <=> proc'[p].holds = "r"
  BY DEF Readers
<1> QED
  BY <1>2, OneApart

\* The number of updates to come changes with what p is doing.
LEMMA PendingStepped ==
  ASSUME NEW p \in Proc, \A q \in Proc \ {p} : proc'[q] = proc[q]
  PROVE  /\ Cardinality(Pending(proc)) \in Nat /\ Cardinality(Pending(proc')) \in Nat
         /\ (p \in Pending(proc') <=> p \in Pending(proc)) =>
               Cardinality(Pending(proc')) = Cardinality(Pending(proc))
         /\ p \in Pending(proc') /\ p \notin Pending(proc) =>
               Cardinality(Pending(proc')) = Cardinality(Pending(proc)) + 1
         /\ p \notin Pending(proc') /\ p \in Pending(proc) =>
               Cardinality(Pending(proc')) = Cardinality(Pending(proc)) - 1
<1>3. /\ Pending(proc) \in SUBSET Proc /\ Pending(proc') \in SUBSET Proc
      /\ \A q \in Proc \ {p} : q \in Pending(proc') <=> q \in Pending(proc)
  BY DEF Pending
<1> QED
  BY <1>3, OneApart
-----------------------------------------------------------------------------
(* Inside a call *)

RwType == [writer : BOOLEAN, readers : 0 .. Cardinality(Proc)]

\* A step of a process that has the lock and keeps it.
LEMMA InsideStep ==
  ASSUME AreaInv, NEW p \in Proc, NEW r \in ProcType, proc' = [proc EXCEPT ![p] = r],
         UNCHANGED <<rw, sound, whole, named, faults>>,
         proc[p].pc \in {"taken", "first", "second", "count"},
         r.pc \in {"first", "second", "count", "unlock"},
         r.op = proc[p].op, r.holds = proc[p].holds,
         r.pc = "second" => r.op \in Change \cup {"read"}, r.pc = "count" => r.op \in Change,
         pidWord' = pidWord \/ pidWord' = p, proc[p].pc = "taken" => pidWord' = p,
         cells' \in [1 .. 2 -> Value], result' \in Value,
         updates' = IF proc[p].pc = "count" THEN updates + 1 ELSE updates,
         proc[p].pc = "count" => r.pc = "unlock",
         sound = TRUE /\ whole = TRUE => CellsKept'
  PROVE  AreaInv'
<1> USE SharedAreaAssumption DEF AreaInv
<1>1. proc \in [Proc -> ProcType]
  BY DEF TypeOK, ProcType
<1>8. /\ proc' \in [Proc -> ProcType] /\ proc'[p] = r
      /\ \A q \in Proc \ {p} : proc'[q] = proc[q]
  BY <1>1, Stepped
<1>9. Cardinality(Readers(proc')) = Cardinality(Readers(proc))
  BY <1>8, ReadersStepped
<1>10. /\ Cardinality(Pending(proc)) \in Nat /\ Cardinality(Pending(proc')) \in Nat
       /\ Cardinality(Pending(proc')) <= Cardinality(Pending(proc))
       /\ proc[p].pc = "count" => Cardinality(Pending(proc')) = Cardinality(Pending(proc)) - 1
  <2>1. p \in Pending(proc') => p \in Pending(proc)
    BY <1>8 DEF Pending, Busy
  <2>2. proc[p].pc = "count" => p \in Pending(proc) /\ p \notin Pending(proc')
    BY <1>8 DEF Pending, Busy, Places
  <2> DEFINE c == Cardinality(Pending(proc))
  <2> DEFINE d == Cardinality(Pending(proc'))
  <2>3. c \in Nat /\ d \in Nat /\ (d = c \/ d = c - 1)
    BY <1>8, <2>1, PendingStepped
  <2>4. proc[p].pc = "count" => d = c - 1
    BY <1>8, <2>2, PendingStepped
  <2> HIDE DEF c, d
  <2>5. d <= c
    BY <2>3
  <2> QED
    BY <2>3, <2>4, <2>5 DEF c, d
<1>3. Counts' /\ updates' \in 0 .. MaxUpdates
  BY <1>8, <1>9, <1>10 DEF Counts, TypeOK
<1>4. TypeOK'
  BY <1>8, <1>3 DEF TypeOK, ProcType
<1>5. Places'
  BY <1>8 DEF Places
<1>6. sound' = TRUE => LockKept' /\ WordKept'
  BY <1>8, <1>9 DEF LockKept, WordKept
<1>7. sound' = TRUE /\ named' = TRUE => WriterNamed'
  <2> SUFFICES ASSUME sound = TRUE, named = TRUE
               PROVE  WriterNamed'
    OBVIOUS
  <2>1. proc[p].holds # "none"
    BY DEF Places, LockMode
  <2>2. \A q \in Proc \ {p} : proc[q].holds # "w"
    BY <2>1 DEF LockKept
  <2>3. proc[p].holds = "w" => pidWord' = p
    BY DEF WriterNamed
  <2> QED
    BY <1>8, <2>2, <2>3 DEF WriterNamed
<1> QED
  BY <1>3, <1>4, <1>5, <1>6, <1>7 DEF AreaInv

\* The word names the process that stores its pid; another writer would exclude it.
LEMMA StepStorePid ==
  ASSUME AreaInv, NEW p \in Proc, StorePid(p)
  PROVE  AreaInv'
<1> USE SharedAreaAssumption DEF AreaInv
<1> DEFINE r == [proc[p] EXCEPT !.pc = "first"]
<1>1. proc \in [Proc -> ProcType] /\ proc[p] \in ProcType /\ cells \in [1 .. 2 -> Value]
      /\ result \in Value
  BY DEF TypeOK, ProcType
<1>2. proc' = [proc EXCEPT ![p] = r]
  BY <1>1 DEF StorePid, ProcType
<1>3. r \in ProcType /\ r.op = proc[p].op /\ r.holds = proc[p].holds /\ r.pc = "first"
  BY <1>1 DEF ProcType, Place
<1> HIDE DEF r
<1>4. /\ proc'[p] = r /\ \A q \in Proc \ {p} : proc'[q] = proc[q]
  BY <1>1, <1>2
<1>5. sound = TRUE /\ whole = TRUE => CellsKept'
  <2> SUFFICES ASSUME sound = TRUE, whole = TRUE
               PROVE  CellsKept'
    OBVIOUS
  <2>1. Changing(p)' = Changing(p) /\ \A q \in Proc \ {p} : Changing(q)' = Changing(q)
    BY <1>3, <1>4 DEF Changing, StorePid, At, Change
  <2>2. r.op = "read" => r.pc \notin {"second", "unlock"}
    BY <1>3 DEF StorePid, At, Change, Places
  <2>3. cells' = cells /\ result' = result
    BY DEF StorePid
  <2>4. Changing(p) => r.value = proc[p].value
    BY DEF Changing, StorePid, At
  <2> HIDE DEF AreaInv
  <2>5. CellsKept
    BY DEF AreaInv
  <2> QED
    BY <1>3, <1>4, <2>1, <2>2, <2>3, <2>4, <2>5 DEF CellsKept
<1>6. cells' \in [1 .. 2 -> Value] /\ result' \in Value
  BY <1>1 DEF StorePid
<1>8. r.pc = "second" => r.op \in Change \cup {"read"}
  BY <1>3 DEF StorePid
<1> QED
  BY <1>2, <1>3, <1>5, <1>6, <1>8, InsideStep DEF StorePid, At, Places

\* The first store: nobody else is inside, so the area is what the calls add up to.
LEMMA StepStoreFirst ==
  ASSUME AreaInv, NEW p \in Proc, StoreFirst(p)
  PROVE  AreaInv'
<1> USE SharedAreaAssumption DEF AreaInv
<1> DEFINE r == [proc[p] EXCEPT !.pc = "second", !.value = NewValue(p)]
<1>1. proc \in [Proc -> ProcType] /\ proc[p] \in ProcType /\ cells \in [1 .. 2 -> Value]
      /\ result \in Value
  BY DEF TypeOK, ProcType
<1>7. NewValue(p) \in Value
  BY <1>1 DEF NewValue, Value
<1>2. proc' = [proc EXCEPT ![p] = r]
  BY <1>1 DEF StoreFirst, ProcType
<1>3. r \in ProcType /\ r.op = proc[p].op /\ r.holds = proc[p].holds /\ r.pc = "second" /\ r.value = NewValue(p)
  BY <1>1, <1>7 DEF ProcType, Place
<1> HIDE DEF r
<1>4. /\ proc'[p] = r /\ \A q \in Proc \ {p} : proc'[q] = proc[q]
  BY <1>1, <1>2
<1>5. sound = TRUE /\ whole = TRUE => CellsKept'
  <2> SUFFICES ASSUME sound = TRUE, whole = TRUE
               PROVE  CellsKept'
    OBVIOUS
  <2>1. proc[p].holds = "w" /\ \A q \in Proc \ {p} : proc[q].holds = "none"
    BY DEF StoreFirst, At, Places, LockMode, LockKept
  <2>2. \A q \in Proc \ {p} : proc[q].pc \notin {"taken", "first", "second", "count", "unlock"}
    BY <2>1 DEF Places, LockMode
  <2>3. cells[1] = result /\ cells[2] = result
    BY <2>2 DEF CellsKept, Changing, StoreFirst, At
  <2>4. cells'[1] = NewValue(p) /\ cells'[2] = cells[2] /\ result' = result
    BY <1>1 DEF StoreFirst
  <2>5. proc[p].op = "inc" => NewValue(p) = (result + 1) % Modulus
    BY <2>3 DEF NewValue
  <2>6. Changing(p)' /\ \A q \in Proc \ {p} : ~Changing(q)'
    BY <1>3, <1>4, <2>2 DEF Changing, StoreFirst
  <2>7. r.op # "read"
    BY <1>3 DEF StoreFirst, Change
  <2> QED
    BY <1>3, <1>4, <2>2, <2>3, <2>4, <2>5, <2>6, <2>7 DEF CellsKept
<1>6. cells' \in [1 .. 2 -> Value] /\ result' \in Value
  BY <1>1, <1>7 DEF StoreFirst
<1>8. r.pc = "second" => r.op \in Change \cup {"read"}
  BY <1>3 DEF StoreFirst
<1> QED
  BY <1>2, <1>3, <1>5, <1>6, <1>8, InsideStep DEF StoreFirst, At, Places

\* The second store completes the change.
LEMMA StepStoreSecond ==
  ASSUME AreaInv, NEW p \in Proc, StoreSecond(p)
  PROVE  AreaInv'
<1> USE SharedAreaAssumption DEF AreaInv
<1> DEFINE r == [proc[p] EXCEPT !.pc = "count"]
<1>1. proc \in [Proc -> ProcType] /\ proc[p] \in ProcType /\ cells \in [1 .. 2 -> Value]
      /\ result \in Value
  BY DEF TypeOK, ProcType
<1>2. proc' = [proc EXCEPT ![p] = r]
  BY <1>1 DEF StoreSecond, ProcType
<1>3. r \in ProcType /\ r.op = proc[p].op /\ r.holds = proc[p].holds /\ r.pc = "count"
  BY <1>1 DEF ProcType, Place
<1> HIDE DEF r
<1>4. /\ proc'[p] = r /\ \A q \in Proc \ {p} : proc'[q] = proc[q]
  BY <1>1, <1>2
<1>5. sound = TRUE /\ whole = TRUE => CellsKept'
  <2> SUFFICES ASSUME sound = TRUE, whole = TRUE
               PROVE  CellsKept'
    OBVIOUS
  <2>1. proc[p].holds = "w" /\ \A q \in Proc \ {p} : proc[q].holds = "none"
    BY DEF StoreSecond, At, Places, LockMode, LockKept
  <2>2. \A q \in Proc \ {p} : proc[q].pc \notin {"taken", "first", "second", "count", "unlock"}
    BY <2>1 DEF Places, LockMode
  <2>3. Changing(p)
    BY DEF Changing, StoreSecond, At
  <2>4. cells'[1] = cells[1] /\ cells'[2] = proc[p].value
    BY <1>1 DEF StoreSecond
  <2>5. proc[p].op = "inc" => result' = (result + 1) % Modulus
    BY DEF StoreSecond
  <2>6. proc[p].op # "inc" => result' = proc[p].value
    BY DEF StoreSecond
  <2>7. cells'[1] = result' /\ cells'[2] = result'
    BY <2>3, <2>4, <2>5, <2>6 DEF CellsKept
  <2>8. \A q \in Proc : ~Changing(q)'
    BY <1>3, <1>4, <2>2 DEF Changing
  <2> QED
    BY <1>3, <1>4, <2>2, <2>7, <2>8 DEF CellsKept
<1>6. cells' \in [1 .. 2 -> Value] /\ result' \in Value
  <2>1. proc[p].value \in Value /\ (result + 1) % Modulus \in Value
    BY <1>1 DEF ProcType, Value
  <2> QED
    BY <1>1, <2>1 DEF StoreSecond
<1>8. r.pc = "second" => r.op \in Change \cup {"read"}
  BY <1>3 DEF StoreSecond
<1> QED
  BY <1>2, <1>3, <1>5, <1>6, <1>8, InsideStep DEF StoreSecond, At, Places

\* The update is counted once, within the bound.
LEMMA StepCountUpdate ==
  ASSUME AreaInv, NEW p \in Proc, CountUpdate(p)
  PROVE  AreaInv'
<1> USE SharedAreaAssumption DEF AreaInv
<1> DEFINE r == [proc[p] EXCEPT !.pc = "unlock"]
<1>1. proc \in [Proc -> ProcType] /\ proc[p] \in ProcType /\ cells \in [1 .. 2 -> Value]
      /\ result \in Value
  BY DEF TypeOK, ProcType
<1>2. proc' = [proc EXCEPT ![p] = r]
  BY <1>1 DEF CountUpdate, ProcType
<1>3. r \in ProcType /\ r.op = proc[p].op /\ r.holds = proc[p].holds /\ r.pc = "unlock"
  BY <1>1 DEF ProcType, Place
<1> HIDE DEF r
<1>4. /\ proc'[p] = r /\ \A q \in Proc \ {p} : proc'[q] = proc[q]
  BY <1>1, <1>2
<1>5. sound = TRUE /\ whole = TRUE => CellsKept'
  <2> SUFFICES ASSUME sound = TRUE, whole = TRUE
               PROVE  CellsKept'
    OBVIOUS
  <2>1. Changing(p)' = Changing(p) /\ \A q \in Proc \ {p} : Changing(q)' = Changing(q)
    BY <1>3, <1>4 DEF Changing, CountUpdate, At, Change
  <2>2. r.op = "read" => r.pc \notin {"second", "unlock"}
    BY <1>3 DEF CountUpdate, At, Change, Places
  <2>3. cells' = cells /\ result' = result
    BY DEF CountUpdate
  <2>4. Changing(p) => r.value = proc[p].value
    BY DEF Changing, CountUpdate, At
  <2> HIDE DEF AreaInv
  <2>5. CellsKept
    BY DEF AreaInv
  <2> QED
    BY <1>3, <1>4, <2>1, <2>2, <2>3, <2>4, <2>5 DEF CellsKept
<1>6. cells' \in [1 .. 2 -> Value] /\ result' \in Value
  BY <1>1 DEF CountUpdate
<1>8. r.pc = "second" => r.op \in Change \cup {"read"}
  BY <1>3 DEF CountUpdate
<1> QED
  BY <1>2, <1>3, <1>5, <1>6, <1>8, InsideStep DEF CountUpdate, At, Places

\* A wait looks at the counter.
LEMMA StepLookAtUpdates ==
  ASSUME AreaInv, NEW p \in Proc, LookAtUpdates(p)
  PROVE  AreaInv'
<1> USE SharedAreaAssumption DEF AreaInv
<1> DEFINE n == IF proc[p].op = "wait" THEN updates ELSE proc[p].seen
<1> DEFINE w == proc[p].op = "poll" /\ updates # proc[p].seen
<1>7. n \in 0 .. MaxUpdates /\ w \in BOOLEAN
  BY DEF TypeOK
<1> DEFINE r == [proc[p] EXCEPT !.pc = "unlock", !.seen = n, !.woken = w]
<1>1. proc \in [Proc -> ProcType] /\ proc[p] \in ProcType /\ cells \in [1 .. 2 -> Value]
      /\ result \in Value
  BY DEF TypeOK, ProcType
<1>2. proc' = [proc EXCEPT ![p] = r]
  BY <1>1, Zenon DEF LookAtUpdates
<1>3. r \in ProcType /\ r.op = proc[p].op /\ r.holds = proc[p].holds /\ r.pc = "unlock"
  BY <1>1, <1>7, Zenon DEF ProcType, Place
<1> HIDE DEF r
<1>4. /\ proc'[p] = r /\ \A q \in Proc \ {p} : proc'[q] = proc[q]
  BY <1>1, <1>2
<1>5. sound = TRUE /\ whole = TRUE => CellsKept'
  <2> SUFFICES ASSUME sound = TRUE, whole = TRUE
               PROVE  CellsKept'
    OBVIOUS
  <2>1. Changing(p)' = Changing(p) /\ \A q \in Proc \ {p} : Changing(q)' = Changing(q)
    BY <1>3, <1>4 DEF Changing, LookAtUpdates, At, Change
  <2>2. r.op = "read" => r.pc \notin {"second", "unlock"}
    BY <1>3 DEF LookAtUpdates, At, Change, Places
  <2>3. cells' = cells /\ result' = result
    BY DEF LookAtUpdates
  <2>4. Changing(p) => r.value = proc[p].value
    BY DEF Changing, LookAtUpdates, At
  <2> HIDE DEF AreaInv
  <2>5. CellsKept
    BY DEF AreaInv
  <2> QED
    BY <1>3, <1>4, <2>1, <2>2, <2>3, <2>4, <2>5 DEF CellsKept
<1>6. cells' \in [1 .. 2 -> Value] /\ result' \in Value
  BY <1>1 DEF LookAtUpdates
<1>8. r.pc = "second" => r.op \in Change \cup {"read"}
  BY <1>3 DEF LookAtUpdates
<1> QED
  BY <1>2, <1>3, <1>5, <1>6, <1>8, InsideStep DEF LookAtUpdates, At, Places

\* A read copies the first word ...
LEMMA StepCopyFirst ==
  ASSUME AreaInv, NEW p \in Proc, CopyFirst(p)
  PROVE  AreaInv'
<1> USE SharedAreaAssumption DEF AreaInv
<1> DEFINE g == [proc[p].got EXCEPT ![1] = cells[1]]
<1> DEFINE r == [proc[p] EXCEPT !.pc = "second", !.got = g]
<1>1. proc \in [Proc -> ProcType] /\ proc[p] \in ProcType /\ cells \in [1 .. 2 -> Value]
      /\ result \in Value
  BY DEF TypeOK, ProcType
<1>7. g \in [1 .. 2 -> Value] /\ g[1] = cells[1]
  BY <1>1 DEF ProcType
<1>2. proc' = [proc EXCEPT ![p] = r]
  BY <1>1 DEF CopyFirst, ProcType
<1>3. r \in ProcType /\ r.op = proc[p].op /\ r.holds = proc[p].holds /\ r.pc = "second" /\ r.got = g
  BY <1>1, <1>7 DEF ProcType, Place
<1> HIDE DEF r, g
<1>4. /\ proc'[p] = r /\ \A q \in Proc \ {p} : proc'[q] = proc[q]
  BY <1>1, <1>2
<1>5. sound = TRUE /\ whole = TRUE => CellsKept'
  <2> SUFFICES ASSUME sound = TRUE, whole = TRUE
               PROVE  CellsKept'
    OBVIOUS
  <2>1. proc[p].holds = "r"
    BY DEF CopyFirst, At, Places, LockMode, Change
  <2>2. \A q \in Proc : ~Changing(q)
    BY <2>1 DEF Places, LockMode, LockKept, Changing
  <2>3. cells[1] = result /\ cells[2] = result
    BY <2>2 DEF CellsKept
  <2>4. \A q \in Proc : ~Changing(q)'
    BY <1>3, <1>4, <2>2 DEF Changing, CopyFirst, Change
  <2> QED
    BY <1>3, <1>4, <1>7, <2>3, <2>4 DEF CellsKept, CopyFirst
<1>6. cells' \in [1 .. 2 -> Value] /\ result' \in Value
  BY <1>1 DEF CopyFirst
<1>8. r.pc = "second" => r.op \in Change \cup {"read"}
  BY <1>3 DEF CopyFirst
<1> QED
  BY <1>2, <1>3, <1>5, <1>6, <1>8, InsideStep DEF CopyFirst, At, Places

\* ... and the second one, which no writer has changed in between.
LEMMA StepCopySecond ==
  ASSUME AreaInv, NEW p \in Proc, CopySecond(p)
  PROVE  AreaInv'
<1> USE SharedAreaAssumption DEF AreaInv
<1> DEFINE g == [proc[p].got EXCEPT ![2] = cells[2]]
<1> DEFINE r == [proc[p] EXCEPT !.pc = "unlock", !.got = g]
<1>1. proc \in [Proc -> ProcType] /\ proc[p] \in ProcType /\ cells \in [1 .. 2 -> Value]
      /\ result \in Value
  BY DEF TypeOK, ProcType
<1>7. g \in [1 .. 2 -> Value] /\ g[1] = proc[p].got[1] /\ g[2] = cells[2]
  BY <1>1 DEF ProcType
<1>2. proc' = [proc EXCEPT ![p] = r]
  BY <1>1 DEF CopySecond, ProcType
<1>3. r \in ProcType /\ r.op = proc[p].op /\ r.holds = proc[p].holds /\ r.pc = "unlock" /\ r.got = g
  BY <1>1, <1>7 DEF ProcType, Place
<1> HIDE DEF r, g
<1>4. /\ proc'[p] = r /\ \A q \in Proc \ {p} : proc'[q] = proc[q]
  BY <1>1, <1>2
<1>5. sound = TRUE /\ whole = TRUE => CellsKept'
  <2> SUFFICES ASSUME sound = TRUE, whole = TRUE
               PROVE  CellsKept'
    OBVIOUS
  <2>1. proc[p].holds = "r"
    BY DEF CopySecond, At, Places, LockMode, Change
  <2>2. \A q \in Proc : ~Changing(q)
    BY <2>1 DEF Places, LockMode, LockKept, Changing
  <2>3. cells[1] = result /\ cells[2] = result
    BY <2>2 DEF CellsKept
  <2>4. \A q \in Proc : ~Changing(q)'
    BY <1>3, <1>4, <2>2 DEF Changing, CopySecond, Change
  <2>5. g[1] = cells[1] /\ g[2] = cells[2]
    BY <1>7 DEF CellsKept, CopySecond, At
  <2>6. cells' = cells /\ result' = result
    BY DEF CopySecond
  <2>7. g[1] = g[2]
    BY <2>3, <2>5
  <2> QED
    BY <1>3, <1>4, <2>3, <2>4, <2>6, <2>7 DEF CellsKept
<1>6. cells' \in [1 .. 2 -> Value] /\ result' \in Value
  BY <1>1 DEF CopySecond
<1>8. r.pc = "second" => r.op \in Change \cup {"read"}
  BY <1>3 DEF CopySecond
<1> QED
  BY <1>2, <1>3, <1>5, <1>6, <1>8, InsideStep DEF CopySecond, At, Places
-----------------------------------------------------------------------------
(* Taking and releasing the lock *)

\* The lock after it was taken.
LEMMA AcquiredLock ==
  ASSUME NEW m \in {"r", "w"}, rw \in [writer : BOOLEAN, readers : Nat], CanAcquire(m)
  PROVE  /\ rw.writer = FALSE
         /\ Acquired(m) \in [writer : BOOLEAN, readers : Nat]
         /\ m = "w" => rw.readers = 0 /\ Acquired(m).writer = TRUE /\ Acquired(m).readers = 0
         /\ m = "r" => Acquired(m).writer = FALSE /\ Acquired(m).readers = rw.readers + 1
<1>1. rw.writer = FALSE /\ (m = "w" => rw.readers = 0)
  BY DEF CanAcquire
<1>2. CASE m = "w"
  <2>1. Acquired(m) = [rw EXCEPT !.writer = TRUE]
    BY <1>2 DEF Acquired
  <2>2. /\ Acquired(m) \in [writer : BOOLEAN, readers : Nat]
        /\ Acquired(m).writer = TRUE /\ Acquired(m).readers = rw.readers
    BY <2>1, Zenon
  <2> QED
    BY <1>1, <1>2, <2>2
<1>3. CASE m = "r"
  <2>1. Acquired(m) = [rw EXCEPT !.readers = rw.readers + 1]
    BY <1>3 DEF Acquired
  <2>2. /\ Acquired(m) \in [writer : BOOLEAN, readers : Nat]
        /\ Acquired(m).writer = rw.writer /\ Acquired(m).readers = rw.readers + 1
    BY <2>1
  <2> QED
    BY <1>1, <1>3, <2>2
<1> QED
  BY <1>2, <1>3

\* The lock after it was released: of a writer if there is one, of a reader otherwise.
LEMMA ReleasedLock ==
  ASSUME rw \in [writer : BOOLEAN, readers : Nat]
  PROVE  /\ Released \in [writer : BOOLEAN, readers : Nat]
         /\ rw.writer = TRUE => Released.writer = FALSE /\ Released.readers = rw.readers
         /\ rw.writer = FALSE /\ rw.readers = 0 => Released.writer = FALSE /\ Released.readers = 0
         /\ rw.writer = FALSE /\ rw.readers > 0 =>
               Released.writer = FALSE /\ Released.readers = rw.readers - 1
<1>1. CASE rw.writer \/ rw.readers = 0
  <2>1. Released = [rw EXCEPT !.writer = FALSE]
    BY <1>1 DEF Released
  <2>2. /\ Released \in [writer : BOOLEAN, readers : Nat]
        /\ Released.writer = FALSE /\ Released.readers = rw.readers
    BY <2>1, Zenon
  <2> QED
    BY <1>1, <2>2
<1>2. CASE ~(rw.writer \/ rw.readers = 0)
  <2>1. Released = [rw EXCEPT !.readers = rw.readers - 1]
    BY <1>2 DEF Released
  <2>2. rw.writer = FALSE /\ rw.readers > 0 /\ rw.readers - 1 \in Nat
    BY <1>2
  <2>3. /\ Released \in [writer : BOOLEAN, readers : Nat]
        /\ Released.writer = rw.writer /\ Released.readers = rw.readers - 1
    BY <2>1, <2>2
  <2> QED
    BY <2>2, <2>3
<1> QED
  BY <1>1, <1>2

\* A process without a lock takes it: a writer finds nobody inside, a reader no writer.
LEMMA AcquireStep ==
  ASSUME AreaInv, NEW p \in Proc, NEW op \in Op, Acquire(p, op), proc[p].pc \in {"idle", "asleep"},
         op \in Change => updates + Cardinality(Pending(proc)) < MaxUpdates,
         UNCHANGED <<pidWord, cells, updates, result, sound, whole, named, faults>>
  PROVE  AreaInv'
<1> USE SharedAreaAssumption DEF AreaInv
<1> DEFINE m == LockMode(op)
<1> DEFINE r == [proc[p] EXCEPT !.pc = "taken", !.op = op, !.holds = m]
<1>1. proc \in [Proc -> ProcType] /\ proc[p] \in ProcType /\ m \in {"r", "w"}
  BY DEF TypeOK, ProcType, LockMode
<1>2. proc' = [proc EXCEPT ![p] = r]
  BY <1>1 DEF Acquire, ProcType
<1>3. r \in ProcType /\ r.pc = "taken" /\ r.op = op /\ r.holds = m
  BY <1>1 DEF ProcType, Place
<1> HIDE DEF r
<1>4. /\ proc' \in [Proc -> ProcType] /\ proc'[p] = r
      /\ \A q \in Proc \ {p} : proc'[q] = proc[q]
  BY <1>1, <1>2, <1>3, Stepped
<1>5. rw \in [writer : BOOLEAN, readers : Nat] /\ rw' = Acquired(m) /\ CanAcquire(m)
  <2>1. Cardinality(Proc) \in Nat
    BY FS_CardinalityType
  <2> QED
    BY <2>1 DEF TypeOK, Acquire
<1>6. /\ rw.writer = FALSE /\ rw' \in [writer : BOOLEAN, readers : Nat]
      /\ m = "w" => rw.readers = 0 /\ rw'.writer = TRUE /\ rw'.readers = 0
      /\ m = "r" => rw'.writer = FALSE /\ rw'.readers = rw.readers + 1
  BY <1>1, <1>5, AcquiredLock
<1>7. proc[p].holds = "none"
  BY DEF Places
<1> DEFINE a == Cardinality(Readers(proc))
<1> DEFINE b == Cardinality(Readers(proc'))
<1>8. /\ a \in Nat /\ b \in Nat /\ b <= Cardinality(Proc)
      /\ m = "r" => b = a + 1
      /\ m = "w" => b = a
  BY <1>3, <1>4, <1>7, ReadersStepped
<1>9. updates' + Cardinality(Pending(proc')) <= MaxUpdates
  <2> DEFINE c == Cardinality(Pending(proc))
  <2> DEFINE d == Cardinality(Pending(proc'))
  <2>1. p \notin Pending(proc) /\ (p \in Pending(proc') <=> op \in Change)
    BY <1>3, <1>4 DEF Pending, Busy
  <2>2. c \in Nat /\ d \in Nat /\ (op \in Change => d = c + 1) /\ (op \notin Change => d = c)
    BY <1>4, <2>1, PendingStepped
  <2>3. updates + c <= MaxUpdates /\ updates \in Nat
    BY DEF Counts, TypeOK
  <2>4. op \in Change => updates + c < MaxUpdates
    OBVIOUS
  <2> HIDE DEF c, d
  <2>5. updates + d <= MaxUpdates
    BY <2>2, <2>3, <2>4
  <2> QED
    BY <2>5 DEF d
<1>10. rw.readers <= a
  BY DEF Counts
<1> HIDE DEF a, b
<1>11. rw'.readers <= b /\ (rw'.writer = TRUE => rw'.readers = 0)
  BY <1>1, <1>5, <1>6, <1>8, <1>10
<1>12. rw' \in RwType
  <2>1. Cardinality(Proc) \in Nat
    BY FS_CardinalityType
  <2>2. rw'.readers \in 0 .. Cardinality(Proc)
    BY <1>6, <1>8, <1>11, <2>1
  <2> QED
    BY <1>6, <2>2 DEF RwType
<1>13. TypeOK'
  BY <1>4, <1>12 DEF TypeOK, ProcType, RwType
<1>14. Counts'
  BY <1>9, <1>11 DEF Counts, b
<1>15. Places'
  BY <1>3, <1>4 DEF Places
<1>16. sound = TRUE => LockKept'
  <2> SUFFICES ASSUME sound = TRUE
               PROVE  LockKept'
    OBVIOUS
  <2>1. \A q \in Proc : proc[q].holds # "w"
    BY <1>6 DEF LockKept
  <2>2. m = "w" => \A q \in Proc : proc[q].holds = "none"
    <3> SUFFICES ASSUME m = "w"
                 PROVE  Readers(proc) = {}
      BY <1>1, <2>1 DEF Readers, ProcType
    <3>1. Cardinality(Readers(proc)) = 0
      BY <1>6 DEF LockKept
    <3>2. IsFiniteSet(Readers(proc))
      BY FS_Subset DEF Readers
    <3> QED
      BY <3>1, <3>2, FS_EmptySet
  <2>3. rw'.readers = b
    BY <1>1, <1>6, <1>8 DEF LockKept, a
  <2>4. rw'.writer = TRUE <=> \E q \in Proc : proc'[q].holds = "w"
    BY <1>1, <1>3, <1>4, <1>6, <2>1
  <2>5. \A q, s \in Proc : q # s /\ proc'[q].holds = "w" => proc'[s].holds = "none"
    BY <1>1, <1>3, <1>4, <2>1, <2>2
  <2> QED
    BY <2>3, <2>4, <2>5 DEF LockKept, b
<1>17. sound = TRUE => WordKept'
  BY <1>4 DEF WordKept
<1>18. sound = TRUE /\ named = TRUE => WriterNamed'
  BY <1>3, <1>4 DEF WriterNamed
<1>19. sound = TRUE /\ whole = TRUE => CellsKept'
  <2> SUFFICES ASSUME sound = TRUE, whole = TRUE
               PROVE  CellsKept'
    OBVIOUS
  <2>1. ~Changing(p) /\ ~Changing(p)' /\ \A q \in Proc \ {p} : Changing(q)' = Changing(q)
    BY <1>3, <1>4 DEF Changing
  <2>2. CellsKept
    OBVIOUS
  <2> QED
    BY <1>3, <1>4, <2>1, <2>2 DEF CellsKept
<1> QED
  BY <1>13, <1>14, <1>15, <1>16, <1>17, <1>18, <1>19 DEF AreaInv

\* The calls that change the area, that read it, and a wait that wakes up.
LEMMA StepCalls ==
  ASSUME AreaInv, NEW p \in Proc,
         \/ \E op \in Change : CallChange(p, op)
         \/ \E op \in {"read", "wait"} : CallRead(p, op)
         \/ Wake(p)
  PROVE  AreaInv'
<1>1. CASE \E op \in Change : CallChange(p, op)
  <2>1. PICK op \in Change : CallChange(p, op)
    BY <1>1
  <2>2. op \in Op /\ updates + Cardinality(Pending(proc)) < MaxUpdates
    BY <2>1 DEF Op, CallChange, Pending, Busy
  <2> QED
    BY <2>1, <2>2, AcquireStep DEF CallChange, At
<1>2. CASE \E op \in {"read", "wait"} : CallRead(p, op)
  <2>1. PICK op \in {"read", "wait"} : CallRead(p, op)
    BY <1>2
  <2>2. op \in Op /\ op \notin Change
    BY DEF Op, Change
  <2> QED
    BY <2>1, <2>2, AcquireStep DEF CallRead, At
<1>3. CASE Wake(p)
  <2>1. "poll" \in Op /\ "poll" \notin Change
    BY DEF Op, Change
  <2> QED
    BY <1>3, <2>1, AcquireStep DEF Wake, At
<1> QED
  BY <1>1, <1>2, <1>3

\* The lock of a process is released, by itself or by the detector.
LEMMA LockReleased ==
  ASSUME AreaInv, NEW p \in Proc, \A q \in Proc \ {p} : proc'[q] = proc[q],
         proc'[p].holds = "none", rw' = Released,
         sound = TRUE => proc[p].holds # "none"
  PROVE  /\ rw' \in RwType
         /\ rw'.writer = TRUE => rw'.readers = 0
         /\ rw'.readers <= Cardinality(Readers(proc'))
         /\ sound = TRUE => LockKept'
<1> USE SharedAreaAssumption DEF AreaInv
<1> DEFINE a == Cardinality(Readers(proc))
<1> DEFINE b == Cardinality(Readers(proc'))
<1>1. Cardinality(Proc) \in Nat /\ proc[p].holds \in {"none", "r", "w"}
  BY FS_CardinalityType DEF TypeOK
<1>2. rw \in [writer : BOOLEAN, readers : Nat] /\ rw.readers <= a
      /\ (rw.writer = TRUE => rw.readers = 0)
  BY <1>1 DEF TypeOK, Counts
<1>3. /\ rw' \in [writer : BOOLEAN, readers : Nat] /\ rw'.writer = FALSE
      /\ rw.writer = TRUE \/ rw.readers = 0 => rw'.readers = rw.readers
      /\ rw.writer = FALSE /\ rw.readers > 0 => rw'.readers = rw.readers - 1
  <2>1. rw.writer \in BOOLEAN /\ (rw.readers = 0 \/ rw.readers > 0)
    BY <1>2
  <2>2. CASE rw.writer = TRUE
    BY <1>2, <2>2, ReleasedLock
  <2>3. CASE rw.writer = FALSE /\ rw.readers = 0
    BY <1>2, <2>3, ReleasedLock
  <2>4. CASE rw.writer = FALSE /\ rw.readers > 0
    BY <1>2, <2>4, ReleasedLock
  <2> QED
    BY <2>1, <2>2, <2>3, <2>4
<1>4. /\ a \in Nat /\ b \in Nat /\ b <= Cardinality(Proc)
      /\ proc[p].holds = "r" => b = a - 1 /\ a > 0
      /\ proc[p].holds # "r" => b = a
  BY ReadersStepped
<1> HIDE DEF a, b
<1>5. rw'.readers <= b
  BY <1>2, <1>3, <1>4
<1>6. rw' \in RwType
  <2>1. rw'.readers \in 0 .. Cardinality(Proc)
    BY <1>1, <1>3, <1>4, <1>5
  <2> QED
    BY <1>3, <2>1 DEF RwType
<1>7. sound = TRUE => LockKept'
  <2> SUFFICES ASSUME sound = TRUE
               PROVE  LockKept'
    OBVIOUS
  <2>1. rw.readers = a
    BY DEF LockKept, a
  <2>2. CASE proc[p].holds = "w"
    <3>1. rw.writer = TRUE /\ \A q \in Proc \ {p} : proc[q].holds = "none"
      BY <2>2 DEF LockKept
    <3> QED
      BY <1>2, <1>3, <1>4, <2>1, <2>2, <3>1 DEF LockKept, b
  <2>3. CASE proc[p].holds = "r"
    <3>1. rw.writer = FALSE /\ \A q \in Proc : proc[q].holds # "w"
      BY <1>2, <1>4, <2>1, <2>3 DEF LockKept
    <3> QED
      BY <1>2, <1>3, <1>4, <2>1, <2>3, <3>1 DEF LockKept, b
  <2> QED
    BY <1>1, <2>2, <2>3
<1> QED
  BY <1>3, <1>5, <1>6, <1>7 DEF b

\* A process leaves the calls: nothing is pending for it any more.
LEMMA PendingLess ==
  ASSUME AreaInv, NEW p \in Proc, \A q \in Proc \ {p} : proc'[q] = proc[q],
         proc'[p].pc \notin Busy, updates' = updates
  PROVE  updates' + Cardinality(Pending(proc')) <= MaxUpdates
<1> USE SharedAreaAssumption DEF AreaInv
<1> DEFINE c == Cardinality(Pending(proc))
<1> DEFINE d == Cardinality(Pending(proc'))
<1>1. p \notin Pending(proc')
  BY DEF Pending
<1>2. c \in Nat /\ d \in Nat /\ (d = c \/ d = c - 1)
  BY <1>1, PendingStepped
<1>3. updates + c <= MaxUpdates /\ updates \in Nat
  BY DEF Counts, TypeOK
<1> HIDE DEF c, d
<1>4. updates + d <= MaxUpdates
  BY <1>2, <1>3
<1> QED
  BY <1>4 DEF d

\* uwsgi_rwunlock_fast releases what the process holds; its pid is still in the word.
LEMMA StepRelease ==
  ASSUME AreaInv, NEW p \in Proc, Release(p)
  PROVE  AreaInv'
<1> USE SharedAreaAssumption DEF AreaInv
<1> DEFINE r == [proc[p] EXCEPT !.pc = "released", !.holds = "none"]
<1>1. proc \in [Proc -> ProcType] /\ proc[p] \in ProcType
  BY DEF TypeOK, ProcType
<1>2. proc' = [proc EXCEPT ![p] = r]
  BY <1>1 DEF Release, ProcType
<1>3. r \in ProcType /\ r.pc = "released" /\ r.holds = "none"
  BY <1>1 DEF ProcType, Place
<1> HIDE DEF r
<1>4. /\ proc' \in [Proc -> ProcType] /\ proc'[p] = r
      /\ \A q \in Proc \ {p} : proc'[q] = proc[q]
  BY <1>1, <1>2, <1>3, Stepped
<1>5. proc[p].holds # "none" /\ proc[p].pc = "unlock"
  BY DEF Release, At, Places, LockMode
<1>6. UNCHANGED <<pidWord, cells, updates, result, sound, whole, named, faults>> /\ rw' = Released
  BY DEF Release
<1>7. /\ rw' \in RwType
      /\ rw'.writer = TRUE => rw'.readers = 0
      /\ rw'.readers <= Cardinality(Readers(proc'))
      /\ sound = TRUE => LockKept'
  BY <1>3, <1>4, <1>5, <1>6, LockReleased
<1>8. updates' + Cardinality(Pending(proc')) <= MaxUpdates
  BY <1>3, <1>4, <1>6, PendingLess DEF Busy
<1>9. TypeOK' /\ Counts'
  BY <1>4, <1>6, <1>7, <1>8 DEF TypeOK, Counts, ProcType, RwType
<1>10. Places'
  BY <1>3, <1>4 DEF Places
<1>11. sound = TRUE => WordKept'
  BY <1>3, <1>4, <1>6 DEF WordKept
<1>12. sound = TRUE /\ named = TRUE => WriterNamed'
  BY <1>3, <1>4, <1>6 DEF WriterNamed
<1>13. sound = TRUE /\ whole = TRUE => CellsKept'
  <2> SUFFICES ASSUME sound = TRUE, whole = TRUE
               PROVE  CellsKept'
    OBVIOUS
  <2>1. ~Changing(p) /\ ~Changing(p)' /\ \A q \in Proc \ {p} : Changing(q)' = Changing(q)
    BY <1>3, <1>4, <1>5 DEF Changing
  <2>2. CellsKept
    OBVIOUS
  <2> QED
    BY <1>3, <1>4, <1>6, <2>1, <2>2 DEF CellsKept
<1> QED
  BY <1>6, <1>7, <1>9, <1>10, <1>11, <1>12, <1>13 DEF AreaInv

\* The pid is cleared; another holder that it named is one the history records.
LEMMA StepClearPid ==
  ASSUME AreaInv, NEW p \in Proc, ClearPid(p)
  PROVE  AreaInv'
<1> USE SharedAreaAssumption DEF AreaInv
<1> DEFINE sleeps == proc[p].op \in {"wait", "poll"} /\ ~proc[p].woken
<1> DEFINE r == IF sleeps THEN [proc[p] EXCEPT !.pc = "asleep"] ELSE Idle
<1>1. proc \in [Proc -> ProcType] /\ proc[p] \in ProcType
  BY DEF TypeOK, ProcType
<1>2. proc' = [proc EXCEPT ![p] = r]
  BY <1>1, Zenon DEF ClearPid
<1>5. proc[p].holds = "none" /\ proc[p].pc = "released"
  BY DEF ClearPid, At, Places
<1>3. r \in ProcType /\ r.pc \in {"idle", "asleep"} /\ r.holds = "none"
  <2> HIDE DEF sleeps
  <2>1. CASE sleeps
    <3>1. r = [proc[p] EXCEPT !.pc = "asleep"]
      BY <2>1
    <3> HIDE DEF r
    <3> QED
      BY <1>1, <1>5, <3>1 DEF ProcType, Place
  <2>2. CASE ~sleeps
    <3>1. r = Idle
      BY <2>2
    <3>2. 0 \in Value
      BY DEF Value
    <3> HIDE DEF r
    <3> QED
      BY <3>1, <3>2 DEF Idle, ProcType, Place, Op
  <2> QED
    BY <2>1, <2>2
<1> HIDE DEF r
<1>4. /\ proc' \in [Proc -> ProcType] /\ proc'[p] = r
      /\ \A q \in Proc \ {p} : proc'[q] = proc[q]
  BY <1>1, <1>2, <1>3, Stepped
<1>6. /\ UNCHANGED <<rw, cells, updates, result, sound, whole, faults>> /\ pidWord' = NoProc
      /\ named' \in BOOLEAN
      /\ named' = TRUE => named = TRUE /\ pidWord \in {p, NoProc}
  BY DEF ClearPid, TypeOK
<1>7. Cardinality(Readers(proc')) = Cardinality(Readers(proc))
  BY <1>3, <1>4, <1>5, ReadersStepped
<1>8. updates' + Cardinality(Pending(proc')) <= MaxUpdates
  BY <1>3, <1>4, <1>6, PendingLess DEF Busy
<1>9. TypeOK' /\ Counts'
  BY <1>4, <1>6, <1>7, <1>8 DEF TypeOK, Counts, ProcType
<1>10. Places'
  BY <1>3, <1>4 DEF Places
<1>11. sound = TRUE => LockKept' /\ WordKept'
  BY <1>3, <1>4, <1>5, <1>6, <1>7 DEF LockKept, WordKept, NoProc
<1>12. sound = TRUE /\ named' = TRUE => WriterNamed'
  BY <1>3, <1>4, <1>6 DEF WriterNamed, NoProc
<1>13. sound = TRUE /\ whole = TRUE => CellsKept'
  <2> SUFFICES ASSUME sound = TRUE, whole = TRUE
               PROVE  CellsKept'
    OBVIOUS
  <2>1. ~Changing(p) /\ ~Changing(p)' /\ \A q \in Proc \ {p} : Changing(q)' = Changing(q)
    BY <1>3, <1>4, <1>5 DEF Changing
  <2>2. CellsKept
    OBVIOUS
  <2> QED
    BY <1>3, <1>4, <1>6, <2>1, <2>2 DEF CellsKept
<1> QED
  BY <1>6, <1>9, <1>10, <1>11, <1>12, <1>13 DEF AreaInv
-----------------------------------------------------------------------------
(* Faults and the detector *)

\* A process that does nothing.
LEMMA IdleType == Idle \in ProcType /\ Idle.pc = "idle" /\ Idle.holds = "none"
<1>1. 0 \in Value /\ 0 \in 0 .. MaxUpdates
  BY SharedAreaAssumption DEF Value
<1> QED
  BY <1>1 DEF Idle, ProcType, Place, Op

\* The unlock after a failed wait: only what holds without a sound lock is left.
LEMMA StepWakeFails ==
  ASSUME AreaInv, NEW p \in Proc, WakeFails(p)
  PROVE  AreaInv'
<1> USE SharedAreaAssumption DEF AreaInv
<1>1. proc \in [Proc -> ProcType] /\ proc' = [proc EXCEPT ![p] = Idle]
  BY DEF TypeOK, ProcType, WakeFails
<1>2. /\ proc' \in [Proc -> ProcType] /\ proc'[p] = Idle
      /\ \A q \in Proc \ {p} : proc'[q] = proc[q]
  BY <1>1, IdleType, Stepped
<1>3. /\ UNCHANGED <<cells, updates, result, whole, named>> /\ pidWord' = NoProc /\ sound' = FALSE
      /\ faults' \in 0 .. MaxFaults
  BY DEF WakeFails, Fault, TypeOK
<1>4. Cardinality(Proc) \in Nat /\ proc[p].holds = "none"
  BY FS_CardinalityType DEF WakeFails, At, Places
<1>5. /\ Cardinality(Readers(proc')) = Cardinality(Readers(proc))
      /\ Cardinality(Readers(proc)) \in Nat
  BY <1>2, <1>4, IdleType, ReadersStepped
<1>6. updates' + Cardinality(Pending(proc')) <= MaxUpdates
  BY <1>2, <1>3, IdleType, PendingLess DEF Busy
<1>7. /\ rw \in [writer : BOOLEAN, readers : Nat] /\ rw.readers <= Cardinality(Proc)
      /\ rw.writer = TRUE => rw.readers = 0
      /\ rw.readers <= Cardinality(Readers(proc))
  BY <1>4 DEF TypeOK, Counts
<1>8. /\ rw' \in RwType
      /\ rw'.writer = TRUE => rw'.readers = 0
      /\ rw'.readers <= Cardinality(Readers(proc))
  <2>1. CASE rw' = rw
    BY <1>7, <2>1 DEF TypeOK, RwType
  <2>2. CASE rw' = Released
    <3>1. rw' \in [writer : BOOLEAN, readers : Nat] /\ rw'.writer = FALSE /\ rw'.readers <= rw.readers
      <4>1. rw.writer \in BOOLEAN /\ rw.readers \in Nat
        BY <1>7
      <4>2. rw' \in [writer : BOOLEAN, readers : Nat]
        BY <1>7, <2>2, ReleasedLock
      <4>3. CASE rw.writer = TRUE \/ rw.readers = 0
        <5>1. rw'.writer = FALSE /\ rw'.readers = rw.readers
          BY <1>7, <2>2, <4>1, <4>3, ReleasedLock
        <5> QED
          BY <4>1, <4>2, <5>1
      <4>4. CASE rw.writer = FALSE /\ rw.readers > 0
        <5>1. rw'.writer = FALSE /\ rw'.readers = rw.readers - 1
          BY <1>7, <2>2, <4>4, ReleasedLock
        <5> QED
          BY <4>1, <4>2, <5>1
      <4>5. rw.readers = 0 \/ rw.readers > 0
        BY <4>1
      <4> QED
        BY <4>1, <4>3, <4>4, <4>5
    <3> DEFINE n == rw'.readers
    <3>2. n \in Nat /\ n <= rw.readers /\ rw.readers \in Nat
      BY <1>7, <3>1
    <3> HIDE DEF n
    <3>3. n \in 0 .. Cardinality(Proc) /\ n <= Cardinality(Readers(proc))
      BY <1>4, <1>5, <1>7, <3>2
    <3> QED
      BY <3>1, <3>3 DEF RwType, n
  <2>3. CASE rw' = [writer |-> TRUE, readers |-> 0]
    BY <1>4, <1>5, <2>3 DEF RwType
  <2> QED
    BY <2>1, <2>2, <2>3 DEF WakeFails
<1>9. TypeOK' /\ Counts'
  BY <1>2, <1>3, <1>5, <1>6, <1>8 DEF TypeOK, Counts, ProcType, RwType
<1>10. Places'
  BY <1>2, IdleType DEF Places
<1> QED
  BY <1>3, <1>9, <1>10 DEF AreaInv

\* A killed process keeps its lock, and its name in the word if it had stored it.
LEMMA StepKill ==
  ASSUME AreaInv, NEW p \in Proc, Kill(p)
  PROVE  AreaInv'
<1> USE SharedAreaAssumption DEF AreaInv
<1> DEFINE r == [Idle EXCEPT !.pc = "dead", !.holds = proc[p].holds]
<1>1. proc \in [Proc -> ProcType] /\ proc[p] \in ProcType
  BY DEF TypeOK, ProcType
<1>2. proc' = [proc EXCEPT ![p] = r]
  BY <1>1 DEF Kill
<1>3. r \in ProcType /\ r.pc = "dead" /\ r.holds = proc[p].holds
  BY <1>1, IdleType DEF ProcType, Place
<1> HIDE DEF r
<1>4. /\ proc' \in [Proc -> ProcType] /\ proc'[p] = r
      /\ \A q \in Proc \ {p} : proc'[q] = proc[q]
  BY <1>1, <1>2, <1>3, Stepped
<1>5. /\ UNCHANGED <<rw, pidWord, cells, updates, result>> /\ faults' \in 0 .. MaxFaults
      /\ sound' \in BOOLEAN /\ whole' \in BOOLEAN /\ named' \in BOOLEAN
      /\ sound' = TRUE => sound = TRUE /\ proc[p].pc # "released"
      /\ whole' = TRUE => whole = TRUE /\ ~Changing(p)
      /\ named' = TRUE => named = TRUE /\ proc[p].pc # "taken"
  <2>1. UNCHANGED <<rw, pidWord, cells, updates, result>> /\ faults' \in 0 .. MaxFaults
    BY DEF Kill, Fault, TypeOK
  <2>2. sound \in BOOLEAN /\ whole \in BOOLEAN /\ named \in BOOLEAN
    BY DEF TypeOK
  <2>3. sound' \in BOOLEAN /\ (sound' = TRUE => sound = TRUE /\ proc[p].pc # "released")
    BY <2>2, Zenon DEF Kill, At
  <2>4. whole' \in BOOLEAN /\ (whole' = TRUE => whole = TRUE /\ ~Changing(p))
    BY <2>2, Zenon DEF Kill, At, Changing
  <2>5. named' \in BOOLEAN /\ (named' = TRUE => named = TRUE /\ proc[p].pc # "taken")
    BY <2>2, Zenon DEF Kill, At
  <2> QED
    BY <2>1, <2>3, <2>4, <2>5
<1>6. proc[p].pc \notin {"dead", "reaped"}
  BY DEF Kill
<1>7. Cardinality(Readers(proc')) = Cardinality(Readers(proc))
  BY <1>3, <1>4, ReadersStepped
<1>8. updates' + Cardinality(Pending(proc')) <= MaxUpdates
  BY <1>3, <1>4, <1>5, PendingLess DEF Busy
<1>9. TypeOK' /\ Counts'
  BY <1>4, <1>5, <1>7, <1>8 DEF TypeOK, Counts, ProcType
<1>10. Places'
  BY <1>3, <1>4 DEF Places
<1>11. sound' = TRUE => LockKept'
  BY <1>3, <1>4, <1>5, <1>7 DEF LockKept
<1>12. sound' = TRUE => WordKept'
  <2>1. proc[p].pc \in {"first", "second", "count", "unlock"} => proc[p].holds # "none"
    BY DEF Places, LockMode
  <2> QED
    BY <1>3, <1>4, <1>5, <1>6, <2>1 DEF WordKept
<1>13. sound' = TRUE /\ named' = TRUE => WriterNamed'
  BY <1>3, <1>4, <1>5 DEF WriterNamed
<1>14. sound' = TRUE /\ whole' = TRUE => CellsKept'
  <2> SUFFICES ASSUME sound' = TRUE, whole' = TRUE
               PROVE  CellsKept'
    OBVIOUS
  <2>1. ~Changing(p) /\ ~Changing(p)' /\ \A q \in Proc \ {p} : Changing(q)' = Changing(q)
    BY <1>3, <1>4, <1>5 DEF Changing
  <2>2. CellsKept
    BY <1>5
  <2> QED
    BY <1>3, <1>4, <1>5, <2>1, <2>2 DEF CellsKept
<1> QED
  BY <1>9, <1>10, <1>11, <1>12, <1>13, <1>14 DEF AreaInv

\* The detector: with a sound lock the process of the word held it, and a dead writer that
\* stored its pid is the process of the word.
LEMMA StepDeadlockCheck ==
  ASSUME AreaInv, NEW p \in Proc, DeadlockCheck(p)
  PROVE  AreaInv'
<1> USE SharedAreaAssumption DEF AreaInv
<1>1. proc \in [Proc -> ProcType] /\ proc[p] \in ProcType /\ proc[p].pc = "dead"
  BY DEF TypeOK, ProcType, DeadlockCheck, At
<1>2. UNCHANGED <<cells, updates, result, sound, whole, named, faults>>
  BY DEF DeadlockCheck
<1>3. CASE WasHolding(p)
  <2> DEFINE r == [proc[p] EXCEPT !.pc = "reaped", !.holds = "none"]
  <2>1. proc' = [proc EXCEPT ![p] = r] /\ rw' = Released /\ pidWord' = NoProc /\ pidWord = p
    BY <1>1, <1>3 DEF DeadlockCheck, WasHolding, ProcType
  <2>2. r \in ProcType /\ r.pc = "reaped" /\ r.holds = "none"
    BY <1>1 DEF ProcType, Place
  <2> HIDE DEF r
  <2>3. /\ proc' \in [Proc -> ProcType] /\ proc'[p] = r
        /\ \A q \in Proc \ {p} : proc'[q] = proc[q]
    BY <1>1, <2>1, <2>2, Stepped
  <2>4. sound = TRUE => proc[p].holds # "none"
    BY <1>1, <2>1 DEF WordKept
  <2>5. /\ rw' \in RwType
        /\ rw'.writer = TRUE => rw'.readers = 0
        /\ rw'.readers <= Cardinality(Readers(proc'))
        /\ sound = TRUE => LockKept'
    BY <2>1, <2>2, <2>3, <2>4, LockReleased
  <2>6. updates' + Cardinality(Pending(proc')) <= MaxUpdates
    BY <1>2, <2>2, <2>3, PendingLess DEF Busy
  <2>7. TypeOK' /\ Counts'
    BY <1>2, <2>1, <2>3, <2>5, <2>6 DEF TypeOK, Counts, ProcType, RwType
  <2>8. Places'
    BY <2>2, <2>3 DEF Places
  <2>9. sound = TRUE => WordKept'
    BY <2>1 DEF WordKept, NoProc
  <2>10. sound = TRUE /\ named = TRUE => WriterNamed'
    BY <2>1, <2>2, <2>3 DEF WriterNamed
  <2>11. sound = TRUE /\ whole = TRUE => CellsKept'
    <3> SUFFICES ASSUME sound = TRUE, whole = TRUE
                 PROVE  CellsKept'
      OBVIOUS
    <3>1. ~Changing(p) /\ ~Changing(p)' /\ \A q \in Proc \ {p} : Changing(q)' = Changing(q)
      BY <1>1, <2>2, <2>3 DEF Changing
    <3>2. CellsKept
      OBVIOUS
    <3> QED
      BY <1>2, <2>2, <2>3, <3>1, <3>2 DEF CellsKept
  <2> QED
    BY <1>2, <2>5, <2>7, <2>8, <2>9, <2>10, <2>11 DEF AreaInv
<1>4. CASE ~WasHolding(p)
  <2> DEFINE r == [proc[p] EXCEPT !.pc = "reaped"]
  <2>1. proc' = [proc EXCEPT ![p] = r] /\ UNCHANGED <<rw, pidWord>>
    BY <1>1, <1>4 DEF DeadlockCheck, ProcType
  <2>2. r \in ProcType /\ r.pc = "reaped" /\ r.holds = proc[p].holds
    BY <1>1 DEF ProcType, Place
  <2> HIDE DEF r
  <2>3. /\ proc' \in [Proc -> ProcType] /\ proc'[p] = r
        /\ \A q \in Proc \ {p} : proc'[q] = proc[q]
    BY <1>1, <2>1, <2>2, Stepped
  <2>4. /\ Cardinality(Readers(proc')) = Cardinality(Readers(proc))
        /\ Cardinality(Readers(proc)) \in Nat
    BY <2>2, <2>3, ReadersStepped
  <2>5. updates' + Cardinality(Pending(proc')) <= MaxUpdates
    BY <1>2, <2>2, <2>3, PendingLess DEF Busy
  <2>6. TypeOK' /\ Counts'
    BY <1>2, <2>1, <2>3, <2>4, <2>5 DEF TypeOK, Counts, ProcType
  <2>7. Places'
    BY <2>2, <2>3 DEF Places
  <2>8. sound = TRUE => LockKept'
    BY <2>1, <2>2, <2>3, <2>4 DEF LockKept
  <2>9. sound = TRUE /\ proc[p].holds # "none" => Locked
    <3> SUFFICES ASSUME sound = TRUE, proc[p].holds # "none"
                 PROVE  Locked
      OBVIOUS
    <3>1. CASE proc[p].holds = "w"
      BY <3>1 DEF LockKept, Locked
    <3>2. CASE proc[p].holds = "r"
      <4>1. p \in Readers(proc) /\ IsFiniteSet(Readers(proc))
        BY <3>2, FS_Subset DEF Readers
      <4>2. rw.readers # 0 /\ rw.readers \in Nat
        BY <2>4, <4>1, FS_EmptySet DEF LockKept
      <4> QED
        BY <4>2 DEF Locked
    <3> QED
      BY <1>1, <3>1, <3>2 DEF ProcType
  <2>10. sound = TRUE => pidWord # p
    BY <1>1, <1>4, <2>9 DEF WordKept, WasHolding
  <2>11. sound = TRUE => WordKept'
    BY <2>1, <2>3, <2>10 DEF WordKept
  <2>12. sound = TRUE /\ named = TRUE => WriterNamed'
    BY <1>1, <2>1, <2>2, <2>3, <2>10 DEF WriterNamed
  <2>13. sound = TRUE /\ whole = TRUE => CellsKept'
    <3> SUFFICES ASSUME sound = TRUE, whole = TRUE
                 PROVE  CellsKept'
      OBVIOUS
    <3>1. ~Changing(p) /\ ~Changing(p)' /\ \A q \in Proc \ {p} : Changing(q)' = Changing(q)
      BY <1>1, <2>2, <2>3 DEF Changing
    <3>2. CellsKept
      OBVIOUS
    <3> QED
      BY <1>2, <2>2, <2>3, <3>1, <3>2 DEF CellsKept
  <2> QED
    BY <1>2, <2>6, <2>7, <2>8, <2>11, <2>12, <2>13 DEF AreaInv
<1> QED
  BY <1>3, <1>4
-----------------------------------------------------------------------------
(* The theorems *)

\* Nobody has called yet.
LEMMA AreaInit ==
  ASSUME Init
  PROVE  AreaInv
<1> USE SharedAreaAssumption
<1>1. proc \in [Proc -> ProcType] /\ \A p \in Proc : proc[p] = Idle
  BY IdleType DEF Init
<1>2. Readers(proc) = {} /\ Pending(proc) = {} /\ Cardinality({}) = 0 /\ Cardinality(Proc) \in Nat
  BY <1>1, IdleType, FS_EmptySet, FS_CardinalityType DEF Readers, Pending, Busy
<1>3. 0 \in Value
  BY DEF Value
<1>4. TypeOK
  BY <1>1, <1>2, <1>3 DEF Init, TypeOK, ProcType
<1>5. Counts
  BY <1>2 DEF Init, Counts
<1>6. Places
  BY <1>1, IdleType DEF Places
<1>7. LockKept
  BY <1>1, <1>2, IdleType DEF Init, LockKept
<1>8. WordKept /\ WriterNamed
  BY <1>1, IdleType DEF Init, WordKept, WriterNamed, NoProc
<1>9. CellsKept
  BY <1>1, IdleType DEF Init, CellsKept, Changing
<1> QED
  BY <1>4, <1>5, <1>6, <1>7, <1>8, <1>9 DEF AreaInv

\* Every step of a process, a fault or the master preserves the invariant.
LEMMA AreaNext ==
  ASSUME AreaInv, [Next]_vars
  PROVE  AreaInv'
<1>1. CASE UNCHANGED vars
  <2> USE <1>1 DEF vars
  <2>1. TypeOK' = TypeOK /\ Counts' = Counts /\ Places' = Places
    BY DEF TypeOK, Counts, Places
  <2>2. LockKept' = LockKept /\ WordKept' = WordKept /\ WriterNamed' = WriterNamed
    BY DEF LockKept, WordKept, WriterNamed
  <2>3. CellsKept' = CellsKept
    BY DEF CellsKept, Changing
  <2> QED
    BY <2>1, <2>2, <2>3 DEF AreaInv
<1>2. CASE Next
  <2>1. PICK p \in Proc :
          \/ \E op \in Change : CallChange(p, op)
          \/ \E op \in {"read", "wait"} : CallRead(p, op)
          \/ Inside(p) \/ Wake(p) \/ WakeFails(p)
          \/ Kill(p) \/ DeadlockCheck(p)
    BY <1>2 DEF Next
  <2> QED
    BY <2>1, StepCalls, StepStorePid, StepStoreFirst, StepStoreSecond, StepCountUpdate, StepCopyFirst,
       StepCopySecond, StepLookAtUpdates, StepRelease, StepClearPid, StepWakeFails, StepKill,
       StepDeadlockCheck DEF Inside
<1> QED
  BY <1>1, <1>2

\* Every call on the area, every kill, failed wait and deadlock check preserves the
\* inductive invariant.
THEOREM AreaInvariant == Spec => []AreaInv
<1>1. Init => AreaInv
  BY AreaInit
<1>2. AreaInv /\ [Next]_vars => AreaInv'
  BY AreaNext
<1> QED
  BY <1>1, <1>2, PTL DEF Spec

\* uwsgi_rlock, uwsgi_wlock, uwsgi_rwunlock and the release by uwsgi_deadlock_check keep a
\* writer alone in the area, for every number of processes and of kills.
THEOREM ExclusionAlways == Spec => []Exclusion
<1>1. AreaInv => Exclusion
  BY DEF AreaInv, Exclusion, LockKept, TypeOK
<1> QED
  BY <1>1, AreaInvariant, PTL

\* uwsgi_sharedarea_read returns what one call stored, and the inc and write calls add up.
THEOREM AreaConsistentAlways == Spec => []AreaConsistent
<1>1. AreaInv => AreaConsistent
  <2> SUFFICES ASSUME AreaInv, sound, whole
               PROVE  /\ \A p \in Proc : (At(p, "unlock") /\ proc[p].op = "read") =>
                                            proc[p].got[1] = proc[p].got[2]
                      /\ (\A p \in Proc : proc[p].holds # "w") => cells[1] = result /\ cells[2] = result
    BY DEF AreaConsistent
  <2>1. CellsKept /\ Places
    BY DEF AreaInv, TypeOK
  <2>2. \A p \in Proc : Changing(p) => proc[p].holds = "w"
    BY <2>1 DEF Places, Changing, LockMode
  <2> QED
    BY <2>1, <2>2 DEF CellsKept, At
<1> QED
  BY <1>1, AreaInvariant, PTL

\* uwsgi_deadlock_check releases the lock of a writer that was killed, unless the pid word
\* was missing or erased.
THEOREM DeadWriterReleasedAlways == Spec => []DeadWriterReleased
<1>1. AreaInv => DeadWriterReleased
  BY DEF AreaInv, DeadWriterReleased, WriterNamed, TypeOK, At
<1> QED
  BY <1>1, AreaInvariant, PTL
=============================================================================
