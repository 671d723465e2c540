---------------------------- MODULE MasterProofs ----------------------------
(* Type correctness of Master, the safety argument behind exit, reload and  *)
(* respawn (SlotInv, inductive with TypeOK), and the chain reload.           *)
EXTENDS Master, TLAPS, WellFoundedInduction

\* Least is what the loops over the worker table find first.
LEMMA LeastFirst ==
    ASSUME NEW S \in SUBSET Nat, S # {}
    PROVE  Least(S) \in S /\ \A v \in S : Least(S) <= v
<1>1. PICK w \in S : \A v \in S : ~(<<v, w>> \in OpToRel(<, Nat))
    BY WFMin, NatLessThanWellFounded
<1>2. \A v \in S : v < w => <<v, w>> \in OpToRel(<, Nat)
    BY DEF OpToRel
<1>3. \A v \in S : ~(v < w)
    BY <1>1, <1>2, Zenon
<1>4. \A v \in S : w <= v
    BY <1>3
<1> QED
    BY <1>4 DEF Least

\* The fields of a table entry are assigned values of their types.
LEMMA EntryUpdate ==
    ASSUME NEW r \in WorkerRecord
    PROVE  /\ [r EXCEPT !.pid = 0] \in WorkerRecord
           /\ [r EXCEPT !.pid = 1] \in WorkerRecord
           /\ [r EXCEPT !.cheaped = 1] \in WorkerRecord
           /\ [r EXCEPT !.cheaped = 1, !.pid = 0] \in WorkerRecord
           /\ [r EXCEPT !.cursed_at = "mercy"] \in WorkerRecord
           /\ [r EXCEPT !.cursed_at = "never"] \in WorkerRecord
BY DEF WorkerRecord

LEMMA CheapedEntry ==
    ASSUME NEW r \in WorkerRecord
    PROVE  [r EXCEPT !.cheaped = 1, !.manage_next_request = 0,
                     !.cursed_at = "mercy"] \in WorkerRecord
BY DEF WorkerRecord

LEMMA RespawnedEntry ==
    ASSUME NEW r \in WorkerRecord
    PROVE  [r EXCEPT !.accepting = 0, !.cheaped = 0,
                     !.cursed_at = "never"] \in WorkerRecord
BY DEF WorkerRecord

\* The same, for the whole table at once or for one entry of it.
LEMMA TableUpdate ==
    ASSUME TypeOK
    PROVE  /\ [w \in Worker |-> [worker[w] EXCEPT !.pid = 0]] \in [Worker -> WorkerRecord]
           /\ [w \in Worker |-> [worker[w] EXCEPT !.cheaped = 1]]
                 \in [Worker -> WorkerRecord]
           /\ [w \in Worker |-> IF proc[w] = "none" THEN [worker[w] EXCEPT !.cheaped = 1]
                                ELSE [worker[w] EXCEPT !.cheaped = 1, !.pid = 0]]
                 \in [Worker -> WorkerRecord]
<1> worker \in [Worker -> WorkerRecord]
    BY DEF TypeOK, TableOK
<1>1. [w \in Worker |-> [worker[w] EXCEPT !.pid = 0]] \in [Worker -> WorkerRecord]
    BY EntryUpdate
<1>2. [w \in Worker |-> [worker[w] EXCEPT !.cheaped = 1]] \in [Worker -> WorkerRecord]
    BY EntryUpdate
<1>3. [w \in Worker |-> IF proc[w] = "none" THEN [worker[w] EXCEPT !.cheaped = 1]
                         ELSE [worker[w] EXCEPT !.cheaped = 1, !.pid = 0]]
        \in [Worker -> WorkerRecord]
    BY EntryUpdate
<1> QED
    BY <1>1, <1>2, <1>3

LEMMA SlotUpdate ==
    ASSUME TypeOK, NEW w \in Worker, NEW r \in WorkerRecord, NEW t,
           t = [worker EXCEPT ![w] = r]
    PROVE  t \in [Worker -> WorkerRecord]
BY DEF TypeOK, TableOK

\* The curses and the signals keep the table well typed, and touch neither the
\* pids nor the flags.
LEMMA CursedTable ==
    ASSUME TypeOK, NEW S
    PROVE  /\ Cursed(S) \in [Worker -> WorkerRecord]
           /\ \A w \in Worker : Cursed(S)[w].pid = worker[w].pid
BY DEF TypeOK, TableOK, Cursed, WorkerRecord

LEMMA SignalledTable ==
    ASSUME TypeOK, NEW S, NEW s \in {"HUP", "INT", "WINCH"}
    PROVE  Signalled(S, s) \in [Worker -> SUBSET {"HUP", "INT", "WINCH"}]
BY DEF TypeOK, TableOK, Signalled

LEMMA KilledTable ==
    ASSUME TypeOK, NEW S
    PROVE  /\ Killed(S) \in [Worker -> Process]
           /\ \A w \in Worker : Killed(S)[w] = "none" <=> proc[w] = "none"
BY DEF TypeOK, TableOK, Killed, Process, Booting, Running, Zombie, Alive

-----------------------------------------------------------------------------
(* Type correctness                                                          *)

\* What an operator's command does to the table.
LEMMA CommandTable ==
    ASSUME TypeOK, NEW c, Command(c)
    PROVE  /\ worker' \in [Worker -> WorkerRecord]
           /\ proc' \in [Worker -> Process]
           /\ sig' \in [Worker -> SUBSET {"HUP", "INT", "WINCH"}]
<1>1. CASE GraceThemAll
    BY <1>1, CursedTable, SignalledTable DEF GraceThemAll, CurseAll, TypeOK, TableOK
<1>2. CASE ReapThemAll
    BY <1>2, CursedTable, SignalledTable DEF ReapThemAll, CurseAll, TypeOK, TableOK
<1>3. CASE KillThemAll
    BY <1>3, CursedTable, SignalledTable DEF KillThemAll, CurseAll, TypeOK, TableOK
<1>4. CASE GracefullyKillThemAll
    BY <1>4, CursedTable, SignalledTable
       DEF GracefullyKillThemAll, CurseAll, TypeOK, TableOK
<1>5. ASSUME NEW s \in {"HUP", "INT"}, ReloadWorkers(s)
      PROVE  /\ worker' \in [Worker -> WorkerRecord]
             /\ proc' \in [Worker -> Process]
             /\ sig' \in [Worker -> SUBSET {"HUP", "INT", "WINCH"}]
    BY <1>5, CursedTable, SignalledTable DEF ReloadWorkers, CurseAll, TypeOK, TableOK
<1>6. CASE ChainReload
    BY <1>6 DEF ChainReload, TypeOK, TableOK
<1>7. CASE GoCheap
  <2>1. worker' \in [Worker -> WorkerRecord]
    BY <1>7, TableUpdate DEF GoCheap, TypeOK, TableOK
  <2>2. proc' \in [Worker -> Process]
    BY <1>7 DEF GoCheap, TypeOK, TableOK, Process
  <2>3. sig' \in [Worker -> SUBSET {"HUP", "INT", "WINCH"}]
    BY <1>7 DEF GoCheap, TypeOK, TableOK
  <2> QED
    BY <2>1, <2>2, <2>3
<1> QED
    BY <1>1, <1>2, <1>3, <1>4, <1>5, <1>6, <1>7 DEF Command

\* The shared table stays well typed.
LEMMA TableStep ==
    ASSUME TypeOK, Next
    PROVE  TableOK'
<1> /\ worker \in [Worker -> WorkerRecord] /\ proc \in [Worker -> Process]
    /\ sig \in [Worker -> SUBSET {"HUP", "INT", "WINCH"}]
    /\ own \in [Worker -> SUBSET {"reloading", "dying"}]
    BY DEF TypeOK, TableOK
<1> USE DEF TableOK
<1>1. ASSUME NEW w \in Worker, ChildStart(w) \/ Ignition(w) \/ LoopHead(w)
             \/ AcceptRequest(w) \/ CloseRequest(w)
      PROVE  TableOK'
  <2>1. worker' \in [Worker -> WorkerRecord]
    <3>1. CASE ChildStart(w)
        BY <3>1 DEF ChildStart, WorkerRecord
    <3>2. CASE Ignition(w)
        BY <3>2 DEF Ignition, WorkerRecord
    <3>3. CASE CloseRequest(w)
        BY <3>3 DEF CloseRequest, WorkerRecord
    <3> QED
        BY <1>1, <3>1, <3>2, <3>3 DEF LoopHead, AcceptRequest
  <2>2. proc' \in [Worker -> Process]
    BY <1>1 DEF ChildStart, Ignition, LoopHead, AcceptRequest, CloseRequest,
                Process, Booting, Running, Zombie
  <2>3. /\ sig' \in [Worker -> SUBSET {"HUP", "INT", "WINCH"}]
        /\ own' \in [Worker -> SUBSET {"reloading", "dying"}]
    BY <1>1 DEF ChildStart, Ignition, LoopHead, AcceptRequest, CloseRequest
  <2> QED
    BY <2>1, <2>2, <2>3
<1>2. ASSUME NEW w \in Worker, GracefullyKill(w) \/ EndMe(w) \/ Wakeup(w)
      PROVE  TableOK'
  <2>1. worker' \in [Worker -> WorkerRecord]
    <3>1. CASE GracefullyKill(w)
        BY <3>1 DEF GracefullyKill, WorkerRecord
    <3> QED
        BY <1>2, <3>1 DEF EndMe, Wakeup
  <2>2. proc' \in [Worker -> Process]
    BY <1>2 DEF GracefullyKill, EndMe, Wakeup, Process, Running, Zombie
  <2>3. sig' \in [Worker -> SUBSET {"HUP", "INT", "WINCH"}] /\ own' = own
    BY <1>2 DEF GracefullyKill, EndMe, Wakeup, Consume
  <2> QED
    BY <2>1, <2>2, <2>3
<1>3. ASSUME NEW w \in Worker, InheritedHandler(w)
      PROVE  TableOK'
    BY <1>3, CursedTable DEF InheritedHandler
<1>4. ASSUME NEW w \in Worker, Fail(w) \/ MercyExpires(w)
      PROVE  TableOK'
  <2>1. worker' \in [Worker -> WorkerRecord]
    <3>1. CASE MercyExpires(w)
        BY <3>1 DEF MercyExpires, WorkerRecord
    <3> QED
        BY <1>4, <3>1 DEF Fail
  <2>2. proc' \in [Worker -> Process] /\ sig' = sig /\ own' = own
    BY <1>4 DEF Fail, MercyExpires, Process, Zombie
  <2> QED
    BY <2>1, <2>2
<1>5. CASE UnixSignal
    BY <1>5, CommandTable DEF UnixSignal
<1>6. CASE CheckEnd \/ CheaperNone \/ CheaperSpawn \/ NothingDue \/ WakeFromCheap \/ Over
    BY <1>6 DEF CheckEnd, CheaperNone, CheaperSpawn, NothingDue, WakeFromCheap, Over, vars
<1>7. CASE CheckChain
    BY <1>7, CursedTable, SignalledTable DEF CheckChain
<1>8. CASE CheckMercy
    BY <1>8, CursedTable, KilledTable DEF CheckMercy
<1>9. CASE CheaperCheap
  <2>1. worker' \in [Worker -> WorkerRecord]
    <3>1. PICK w \in Worker :
            worker' = [worker EXCEPT ![w].cheaped = 1, ![w].manage_next_request = 0,
                                     ![w].cursed_at = "mercy"]
        BY <1>9 DEF CheaperCheap, Known
    <3>2. [worker[w] EXCEPT !.cheaped = 1, !.manage_next_request = 0,
                            !.cursed_at = "mercy"] \in WorkerRecord
        BY CheapedEntry
    <3> QED
        BY <3>1, <3>2, SlotUpdate
  <2>2. sig' \in [Worker -> SUBSET {"HUP", "INT", "WINCH"}] /\ own' = own /\ proc' = proc
    BY <1>9, SignalledTable DEF CheaperCheap
  <2> QED
    BY <2>1, <2>2
<1>10. ASSUME NEW w \in Worker, Bury(w)
       PROVE  TableOK'
  <2> DEFINE dead == [worker EXCEPT ![w].pid = 0]
             others == Known \ {w}
  <2>1. dead \in [Worker -> WorkerRecord]
    BY DEF WorkerRecord
  <2>2. proc' \in [Worker -> Process] /\ own' = own
    BY <1>10 DEF Bury, Process
  <2> HIDE DEF dead, others
  <2>3. /\ [v \in Worker |-> IF v \in others THEN [dead[v] EXCEPT !.cursed_at = "mercy"]
                                            ELSE dead[v]] \in [Worker -> WorkerRecord]
        /\ [dead EXCEPT ![w].cursed_at = "never"] \in [Worker -> WorkerRecord]
    BY <2>1, EntryUpdate
  <2>4. worker' \in [Worker -> WorkerRecord]
    BY <1>10, <2>1, <2>3 DEF Bury, dead, others
  <2>5. sig' \in [Worker -> SUBSET {"HUP", "INT", "WINCH"}]
    BY <1>10, SignalledTable DEF Bury
  <2> QED
    BY <2>2, <2>4, <2>5
<1>11. ASSUME NEW w \in Worker, Fork(w) \/ ForkFails(w) \/ SetPid(w)
       PROVE  TableOK'
  <2>1. worker' \in [Worker -> WorkerRecord]
    <3>1. Respawned(w) \in [Worker -> WorkerRecord]
      <4>1. [worker[w] EXCEPT !.accepting = 0, !.cheaped = 0,
                              !.cursed_at = "never"] \in WorkerRecord
        BY RespawnedEntry
      <4> QED
        BY <4>1, SlotUpdate DEF Respawned
    <3>2. CASE SetPid(w)
        BY <3>2 DEF SetPid, WorkerRecord
    <3> QED
        BY <1>11, <3>1, <3>2 DEF Fork, ForkFails
  <2>2. proc' \in [Worker -> Process]
    BY <1>11 DEF Fork, ForkFails, SetPid, Process, Booting
  <2>3. /\ sig' \in [Worker -> SUBSET {"HUP", "INT", "WINCH"}]
        /\ own' \in [Worker -> SUBSET {"reloading", "dying"}]
    BY <1>11 DEF Fork, ForkFails, SetPid
  <2> QED
    BY <2>1, <2>2, <2>3
<1>12. ASSUME NEW w \in Worker, Harakiri(w)
       PROVE  TableOK'
    BY <1>12, KilledTable DEF Harakiri
<1>13. CASE NobodyDied \/ BlockedWait \/ CheckIdle
  <2>1. worker' \in [Worker -> WorkerRecord]
    BY <1>13, TableUpdate DEF NobodyDied, BlockedWait, CheckIdle
  <2>2. proc' \in [Worker -> Process]
    BY <1>13 DEF NobodyDied, BlockedWait, CheckIdle, Process
  <2>3. sig' \in [Worker -> SUBSET {"HUP", "INT", "WINCH"}] /\ own' = own
    BY <1>13 DEF NobodyDied, BlockedWait, CheckIdle
  <2> QED
    BY <2>1, <2>2, <2>3
<1>14. CASE FifoCommand
    BY <1>14, CommandTable DEF FifoCommand
<1> QED
    BY <1>1, <1>2, <1>3, <1>4, <1>5, <1>6, <1>7, <1>8, <1>9, <1>10, <1>11, <1>12,
       <1>13, <1>14 DEF Next, MasterNext, WorkerNext

\* The status flags are set and reset, nothing else.
LEMMA StatusStep ==
    ASSUME TypeOK, Next
    PROVE  StatusOK'
<1> USE DEF TypeOK, StatusOK, status
<1>1. ASSUME NEW w \in Worker, WorkerNext(w)
      PROVE  StatusOK'
    BY <1>1, Zenon DEF WorkerNext, ChildStart, Ignition, LoopHead, AcceptRequest,
       CloseRequest, GracefullyKill, EndMe, Wakeup, InheritedHandler, Fail, MercyExpires
<1>2. ASSUME NEW c, Command(c)
      PROVE  StatusOK'
    BY <1>2, Zenon DEF Command, GraceThemAll, ReapThemAll, KillThemAll,
       GracefullyKillThemAll, ReloadWorkers, ChainReload, GoCheap
<1>3. CASE UnixSignal \/ FifoCommand
    BY <1>2, <1>3, Zenon DEF UnixSignal, FifoCommand
<1>4. CASE CheckEnd \/ CheckMercy \/ CheaperNone \/ CheaperSpawn \/ CheaperCheap
           \/ NobodyDied \/ NothingDue \/ BlockedWait
    BY <1>4, Zenon DEF CheckEnd, CheckMercy, CheaperNone, CheaperSpawn, CheaperCheap,
       NobodyDied, NothingDue, BlockedWait
<1>5. CASE CheckChain \/ CheckIdle \/ WakeFromCheap \/ Over
    BY <1>5, Zenon DEF CheckChain, CheckIdle, WakeFromCheap, Over, vars
<1>6. ASSUME NEW w \in Worker, Fork(w) \/ ForkFails(w) \/ SetPid(w) \/ Harakiri(w)
      PROVE  StatusOK'
    BY <1>6, Zenon DEF Fork, ForkFails, SetPid, Harakiri
<1>7. ASSUME NEW w \in Worker, Bury(w)
      PROVE  StatusOK'
    BY <1>7, Zenon DEF Bury
<1> QED
    BY <1>1, <1>3, <1>4, <1>5, <1>6, <1>7, Zenon DEF Next, MasterNext

\* The master's loop variables; the chain reload stays within the table.
LEMMA LoopStep ==
    ASSUME TypeOK, Next
    PROVE  LoopOK'
<1> USE ConfigAssumption DEF TypeOK, LoopOK, MasterPC, Worker
<1>1. ASSUME NEW w \in Worker, WorkerNext(w)
      PROVE  LoopOK'
    BY <1>1 DEF WorkerNext, ChildStart, Ignition, LoopHead, AcceptRequest,
       CloseRequest, GracefullyKill, EndMe, Wakeup, InheritedHandler, Fail, MercyExpires,
       status, master, bounds, history
<1>2. ASSUME NEW c, Command(c)
      PROVE  /\ chain' \in 0 .. NumProc + 1
             /\ served' \subseteq Worker /\ old' \subseteq served'
    BY <1>2 DEF Command, GraceThemAll, ReapThemAll, KillThemAll,
       GracefullyKillThemAll, ReloadWorkers, ChainReload, GoCheap, status
<1>3. CASE UnixSignal
  <2>1. /\ chain' \in 0 .. NumProc + 1
        /\ served' \subseteq Worker /\ old' \subseteq served'
    BY <1>2, <1>3, Zenon DEF UnixSignal
  <2>2. /\ mpc' = mpc /\ mret' = mret /\ lost' = lost /\ faults' = faults
        /\ todo' \subseteq todo /\ commands' \in 0 .. MaxCommands
    BY <1>3 DEF UnixSignal
  <2> QED
    BY <2>1, <2>2
<1>4. CASE FifoCommand
  <2>1. /\ chain' \in 0 .. NumProc + 1
        /\ served' \subseteq Worker /\ old' \subseteq served'
    BY <1>2, <1>4, Zenon DEF FifoCommand
  <2>2. /\ mret' = mret /\ lost' = lost /\ faults' = faults
        /\ commands' \in 0 .. MaxCommands
    BY <1>4 DEF FifoCommand
  <2>3. mpc' \in {"blocked", "check"} /\ (todo' = todo \/ todo' = Known)
    BY <1>4, Zenon DEF FifoCommand
  <2> QED
    BY <2>1, <2>2, <2>3 DEF Known
<1>5. CASE CheckEnd \/ CheckMercy \/ CheaperNone \/ CheaperCheap
           \/ NobodyDied \/ NothingDue \/ BlockedWait \/ CheckIdle \/ Over
    BY <1>5 DEF CheckEnd, CheckMercy, CheaperNone, CheaperCheap, NobodyDied,
       NothingDue, BlockedWait, CheckIdle, Over, vars, status, bounds, history
<1>6. CASE CheaperSpawn
  <2> DEFINE free == {w \in Worker : worker[w].cheaped = 1 /\ worker[w].pid = 0}
  <2>1. free # {} /\ todo' = {Least(free)}
    BY <1>6 DEF CheaperSpawn
  <2>2. Least(free) \in free
    BY <2>1, LeastFirst
  <2> QED
    BY <1>6, <2>1, <2>2 DEF CheaperSpawn, status, bounds, history
<1>7. CASE WakeFromCheap
    BY <1>7 DEF WakeFromCheap, bounds, history
<1>8. CASE CheckChain
  <2>1. ChainNext \in 0 .. NumProc + 1
    <3>1. ChainVictims \subseteq Worker
        BY DEF ChainVictims
    <3>2. ChainVictims # {} => Least(ChainVictims) \in ChainVictims
        BY <3>1, LeastFirst
    <3>3. CASE ChainVictims = {}
        BY <3>3 DEF ChainNext
    <3>4. CASE ChainVictims # {}
      <4>1. ChainNext \in Worker
        BY <3>1, <3>2, <3>4 DEF ChainNext
      <4> QED
        BY <4>1
    <3> QED
        BY <3>3, <3>4
  <2> QED
    BY <1>8, <2>1 DEF CheckChain, bounds, history
<1>9. ASSUME NEW w \in Worker, Fork(w) \/ ForkFails(w) \/ SetPid(w) \/ Harakiri(w)
      PROVE  LoopOK'
    BY <1>9 DEF Fork, ForkFails, SetPid, Harakiri, NextRespawn, status, bounds, history
<1>10. ASSUME NEW w \in Worker, Bury(w)
       PROVE  LoopOK'
  <2>1. chain' \in 0 .. NumProc + 1
    BY <1>10 DEF Bury, ChainAfterDeath
  <2>2. mpc' \in MasterPC /\ mret' \in {"check", "waitpid"} /\ todo' \subseteq Worker
    BY <1>10 DEF Bury
  <2>3. bounds' = bounds /\ history' = history
    BY <1>10 DEF Bury
  <2> QED
    BY <2>1, <2>2, <2>3 DEF bounds, history
<1> QED
    BY <1>1, <1>3, <1>4, <1>5, <1>6, <1>7, <1>8, <1>9, <1>10 DEF Next, MasterNext

LEMMA TypeInit == ASSUME Init PROVE TypeOK
<1>1. TableOK
    BY DEF Init, TableOK, WorkerRecord, Process, Booting
<1>2. StatusOK
    BY DEF Init, StatusOK
<1>3. LoopOK
    BY ConfigAssumption DEF Init, LoopOK, MasterPC
<1> QED
    BY <1>1, <1>2, <1>3 DEF TypeOK

LEMMA TypeStep == ASSUME TypeOK, [Next]_vars PROVE TypeOK'
<1>1. CASE Next
    BY <1>1, TableStep, StatusStep, LoopStep DEF TypeOK
<1>2. CASE UNCHANGED vars
  <2>1. TableOK'
    BY <1>2 DEF vars, TypeOK, TableOK
  <2>2. StatusOK'
    BY <1>2, Zenon DEF vars, TypeOK, StatusOK
  <2>3. LoopOK'
    BY <1>2 DEF vars, TypeOK, LoopOK
  <2> QED
    BY <2>1, <2>2, <2>3 DEF TypeOK
<1> QED
    BY <1>1, <1>2

\* The worker table, the status flags and the master's loop are well typed, for
\* every number of workers and every configuration: in particular the chain
\* reload of uwsgi_master_check_chain never points past the end of the table.
THEOREM MasterTypeCorrect == Spec => []TypeOK
BY TypeInit, TypeStep, PTL DEF Spec

-----------------------------------------------------------------------------
(* Slots and processes                                                       *)

Leaving == {"exited", "exec"}
Respawning == {"fork", "setpid"}

\* A step that neither moves the master, nor creates, buries or renames a
\* process.
LEMMA QuietStep ==
    ASSUME TypeOK, SlotInv, mpc' = mpc, todo' = todo, is_cheap' = is_cheap,
           \A w \in Worker : /\ proc'[w] = "none" <=> proc[w] = "none"
                             /\ worker'[w].pid = worker[w].pid
    PROVE  SlotInv'
<1>1. \A w \in Worker : proc'[w] # "none" => \/ worker'[w].pid = 1
                                             \/ mpc' = "setpid" /\ w = Least(todo')
    BY DEF SlotInv
<1>2. mpc' \in {"fork", "setpid"} => todo' # {} /\ ~is_cheap'
    BY Zenon DEF SlotInv
<1>3. mpc' = "fork" => \A w \in todo' : proc'[w] = "none"
    BY DEF SlotInv, TypeOK, LoopOK
<1>4. mpc' = "setpid" => \A w \in todo' \ {Least(todo')} : proc'[w] = "none"
    BY DEF SlotInv, TypeOK, LoopOK
<1>5. is_cheap' => \A w \in Worker : proc'[w] = "none"
    BY Zenon DEF SlotInv
<1>6. mpc' \in {"exited", "exec"} => \A w \in Worker : proc'[w] = "none"
    BY DEF SlotInv
<1> QED
    BY <1>1, <1>2, <1>3, <1>4, <1>5, <1>6, Zenon DEF SlotInv

\* A step of the master outside of a respawn that only buries processes, and
\* forgets the pids of buried ones only.
LEMMA BuryingStep ==
    ASSUME SlotInv,
           mpc \notin Leaving \cup Respawning, mpc' \notin Leaving \cup Respawning,
           \A w \in Worker : proc'[w] # "none" => /\ proc[w] # "none"
                                                 /\ worker'[w].pid = worker[w].pid,
           is_cheap' = is_cheap \/ \A w \in Worker : proc'[w] = "none"
    PROVE  SlotInv'
BY DEF SlotInv, Leaving, Respawning

\* The processes' own steps.
LEMMA WorkerSlots ==
    ASSUME TypeOK, SlotInv, NEW w \in Worker, WorkerNext(w)
    PROVE  SlotInv'
<1>1. mpc' = mpc /\ todo' = todo /\ is_cheap' = is_cheap
    BY DEF WorkerNext, ChildStart, Ignition, LoopHead, AcceptRequest, CloseRequest,
       GracefullyKill, EndMe, Wakeup, InheritedHandler, Fail, MercyExpires, master, status
<1>2. \A v \in Worker : worker'[v].pid = worker[v].pid
    BY CursedTable DEF WorkerNext, ChildStart, Ignition, LoopHead, AcceptRequest, CloseRequest,
       GracefullyKill, EndMe, Wakeup, InheritedHandler, Fail, MercyExpires,
       TypeOK, TableOK, WorkerRecord
<1>3. \A v \in Worker : proc'[v] = "none" <=> proc[v] = "none"
    BY DEF WorkerNext, ChildStart, Ignition, LoopHead, AcceptRequest, CloseRequest,
       GracefullyKill, EndMe, Wakeup, InheritedHandler, Fail, MercyExpires,
       TypeOK, TableOK, Running, Booting
<1> QED
    BY <1>1, <1>2, <1>3, QuietStep

\* Every command but uwsgi_go_cheap only curses and signals.
LEMMA CommandSlots ==
    ASSUME TypeOK, NEW c, Command(c), c # "go_cheap"
    PROVE  /\ proc' = proc /\ is_cheap' = is_cheap
           /\ \A w \in Worker : worker'[w].pid = worker[w].pid
<1>1. proc' = proc /\ is_cheap' = is_cheap
    BY Zenon DEF Command, GraceThemAll, ReapThemAll, KillThemAll, GracefullyKillThemAll,
       ReloadWorkers, ChainReload, status
<1>2. \A w \in Worker : worker'[w].pid = worker[w].pid
    BY CursedTable DEF Command, GraceThemAll, ReapThemAll, KillThemAll,
       GracefullyKillThemAll, ReloadWorkers, ChainReload, CurseAll
<1> QED
    BY <1>1, <1>2

\* In particular a command that interrupts the master between fork() and the
\* assignment of the pid leaves the slots as they are.
LEMMA UnixSignalSlots ==
    ASSUME TypeOK, SlotInv, UnixSignal
    PROVE  SlotInv'
<1>1. PICK c \in UnixCommands : Command(c)
    BY Zenon DEF UnixSignal
<1>2. c # "go_cheap"
    BY ConfigAssumption
<1>3. /\ proc' = proc /\ is_cheap' = is_cheap
      /\ \A w \in Worker : worker'[w].pid = worker[w].pid
    BY <1>1, <1>2, CommandSlots
<1>4. /\ mpc' = mpc /\ mpc \notin Leaving
      /\ mpc # "blocked" => todo' = todo
    BY DEF UnixSignal, Leaving
<1>5. CASE mpc = "blocked"
    BY <1>3, <1>4, <1>5, BuryingStep DEF Leaving, Respawning
<1>6. CASE mpc # "blocked"
    BY <1>3, <1>4, <1>6, QuietStep
<1> QED
    BY <1>5, <1>6

\* The steps of the loop that respawn nobody.
LEMMA LoopSlots ==
    ASSUME TypeOK, SlotInv,
           \/ CheckChain \/ CheckMercy \/ CheaperNone \/ CheaperCheap
           \/ NobodyDied \/ NothingDue \/ BlockedWait \/ CheckIdle
           \/ \E w \in Worker : Harakiri(w)
    PROVE  SlotInv'
<1> USE DEF Leaving, Respawning, TypeOK, TableOK
<1>1. CASE CheckChain
    BY <1>1, CursedTable, BuryingStep DEF CheckChain
<1>2. CASE CheckMercy
    BY <1>2, CursedTable, KilledTable, BuryingStep DEF CheckMercy, status
<1>3. CASE CheaperNone \/ NothingDue
    BY <1>3, BuryingStep DEF CheaperNone, NothingDue, status
<1>4. CASE CheaperCheap
  <2>1. \A w \in Worker : worker'[w].pid = worker[w].pid
    <3>1. PICK w \in Worker :
            worker' = [worker EXCEPT ![w].cheaped = 1, ![w].manage_next_request = 0,
                                     ![w].cursed_at = "mercy"]
        BY <1>4 DEF CheaperCheap, Known
    <3>2. worker'[w].pid = worker[w].pid
        BY <3>1 DEF WorkerRecord
    <3> QED
        BY <3>1, <3>2
  <2> QED
    BY <1>4, <2>1, BuryingStep DEF CheaperCheap, status
<1>5. CASE NobodyDied
    BY <1>5, BuryingStep DEF NobodyDied, status
<1>6. CASE BlockedWait
    BY <1>6, BuryingStep DEF BlockedWait, status
<1>7. CASE CheckIdle
  <2>1. \A w \in Worker : proc'[w] = "none"
    BY <1>7 DEF CheckIdle, Known, SlotInv
  <2> QED
    BY <1>7, <2>1, BuryingStep DEF CheckIdle
<1>8. ASSUME NEW w \in Worker, Harakiri(w)
      PROVE  SlotInv'
    BY <1>8, KilledTable, BuryingStep DEF Harakiri, status
<1> QED
    BY <1>1, <1>2, <1>3, <1>4, <1>5, <1>6, <1>7, <1>8

\* The master leaves its loop only when it knows of no process, and outside of a
\* respawn it knows of all of them.
LEMMA CheckEndSlots ==
    ASSUME TypeOK, SlotInv, CheckEnd
    PROVE  SlotInv'
<1>1. /\ mpc = "check" /\ worker' = worker /\ proc' = proc /\ is_cheap' = is_cheap
      /\ todo' = todo
    BY DEF CheckEnd, status
<1>2. CASE Known = {}
  <2>1. \A w \in Worker : proc[w] = "none"
    BY <1>1, <1>2 DEF Known, SlotInv
  <2>2. mpc' \notin Respawning
    BY DEF CheckEnd, Respawning
  <2> QED
    BY <1>1, <2>1, <2>2 DEF SlotInv, Respawning
<1>3. CASE Known # {}
  <2>1. mpc' = "chain"
    BY <1>3 DEF CheckEnd
  <2> QED
    BY <1>1, <2>1, BuryingStep DEF Leaving, Respawning
<1> QED
    BY <1>2, <1>3

\* A respawn starts with empty slots: the cheaper algorithm picks slots without
\* a pid, a cheap instance has no process at all, a dead worker was waited for.
LEMMA RespawnStarts ==
    ASSUME TypeOK, SlotInv, mpc \notin Leaving \cup Respawning, mpc' = "fork",
           todo' # {}, todo' \subseteq Worker,
           \A w \in todo' : proc'[w] = "none",
           \A w \in Worker : proc'[w] # "none" => /\ proc[w] # "none"
                                                 /\ worker'[w].pid = worker[w].pid,
           ~is_cheap'
    PROVE  SlotInv'
BY DEF SlotInv, Leaving, Respawning

LEMMA CheaperSpawnSlots ==
    ASSUME TypeOK, SlotInv, CheaperSpawn
    PROVE  SlotInv'
<1> DEFINE free == {w \in Worker : worker[w].cheaped = 1 /\ worker[w].pid = 0}
<1>1. /\ free # {} /\ todo' = {Least(free)} /\ mpc = "cheaper" /\ mpc' = "fork"
      /\ worker' = worker /\ proc' = proc
    BY DEF CheaperSpawn
<1>2. Least(free) \in free
    BY <1>1, LeastFirst DEF Worker
<1>3. ~is_cheap'
    BY Zenon DEF CheaperSpawn, CheaperActive, status
<1>4. proc[Least(free)] = "none"
    BY <1>1, <1>2 DEF SlotInv
<1> QED
    BY <1>1, <1>2, <1>3, <1>4, RespawnStarts DEF Leaving, Respawning

LEMMA WakeSlots ==
    ASSUME TypeOK, SlotInv, WakeFromCheap
    PROVE  SlotInv'
<1>1. /\ mpc = "tasks" /\ mpc' = "fork" /\ worker' = worker /\ proc' = proc
      /\ todo' = IF CheaperCount > 0 THEN 1 .. CheaperCount ELSE Worker
    BY DEF WakeFromCheap
<1>2. ~is_cheap'
    BY Zenon DEF WakeFromCheap
<1>3. \A w \in Worker : proc[w] = "none"
    BY Zenon DEF WakeFromCheap, SlotInv
<1>4. todo' # {} /\ todo' \subseteq Worker
    BY <1>1, ConfigAssumption DEF Worker
<1> QED
    BY <1>1, <1>2, <1>3, <1>4, RespawnStarts DEF Leaving, Respawning

LEMMA BurySlots ==
    ASSUME TypeOK, SlotInv, NEW w \in Worker, Bury(w)
    PROVE  SlotInv'
<1> DEFINE dead == [worker EXCEPT ![w].pid = 0]
<1>1. mpc = "waitpid" /\ proc[w] \in Zombie /\ proc' = [proc EXCEPT ![w] = "none"]
    BY DEF Bury
<1>2. is_cheap' = is_cheap
    BY DEF Bury
<1>3. ~is_cheap
    BY <1>1 DEF SlotInv, Zombie
<1>4. \A v \in Worker \ {w} : worker'[v].pid = worker[v].pid
  <2>1. \A v \in Worker \ {w} : /\ dead[v] = worker[v]
                                /\ [dead EXCEPT ![w].cursed_at = "never"][v] = worker[v]
    BY DEF TypeOK, TableOK
  <2>2. \A v \in Worker \ {w} : [dead[v] EXCEPT !.cursed_at = "mercy"].pid = worker[v].pid
    BY <2>1 DEF TypeOK, TableOK, WorkerRecord
  <2> HIDE DEF dead
  <2>3. \/ worker' = dead \/ worker' = [dead EXCEPT ![w].cursed_at = "never"]
        \/ worker' = [v \in Worker |-> IF v \in Known \ {w}
                                       THEN [dead[v] EXCEPT !.cursed_at = "mercy"]
                                       ELSE dead[v]]
    BY Zenon DEF Bury, dead
  <2> QED
    BY <2>1, <2>2, <2>3
<1>5. \A v \in Worker : proc'[v] # "none" => /\ proc[v] # "none"
                                            /\ worker'[v].pid = worker[v].pid
    BY <1>1, <1>4 DEF TypeOK, TableOK
<1>6. mpc' = "check" \/ (mpc' = "fork" /\ todo' = {w})
    BY Zenon DEF Bury
<1>7. CASE mpc' = "check"
    BY <1>1, <1>2, <1>5, <1>7, BuryingStep DEF Leaving, Respawning
<1>8. CASE mpc' = "fork" /\ todo' = {w}
  <2>1. ~is_cheap'
    BY <1>2, <1>3, Zenon
  <2>2. proc'[w] = "none"
    BY <1>1 DEF TypeOK, TableOK
  <2> QED
    BY <1>1, <1>5, <1>8, <2>1, <2>2, RespawnStarts DEF Leaving, Respawning
<1> QED
    BY <1>6, <1>7, <1>8

\* fork(), its failure, and the assignment of the pid.
LEMMA RespawnSlots ==
    ASSUME TypeOK, SlotInv, NEW w \in Worker, Fork(w) \/ ForkFails(w) \/ SetPid(w)
    PROVE  SlotInv'
<1>1. is_cheap' = is_cheap
    BY DEF Fork, ForkFails, SetPid, status
<1>2. mpc \in Respawning /\ todo # {}
    BY DEF Fork, ForkFails, SetPid, Respawning, SlotInv
<1>3. ~is_cheap'
    BY <1>1, <1>2 DEF SlotInv, Respawning
<1>4. \A v \in Worker \ {w} : worker'[v].pid = worker[v].pid
    BY DEF Fork, ForkFails, SetPid, Respawned, TypeOK, TableOK, WorkerRecord
<1>5. CASE Fork(w)
  <2>1. /\ mpc = "fork" /\ w = Least(todo) /\ mpc' = "setpid" /\ todo' = todo
        /\ proc' = [proc EXCEPT ![w] = "fork"]
    BY <1>5 DEF Fork
  <2>2. \A v \in Worker \ {w} : proc'[v] = proc[v]
    BY <2>1 DEF TypeOK, TableOK
  <2> QED
    BY <1>2, <1>3, <1>4, <2>1, <2>2 DEF SlotInv, TypeOK, LoopOK
<1>6. ASSUME NextRespawn(w), proc' = proc, w = Least(todo),
             \A v \in Worker : proc[v] # "none" => worker'[v].pid = 1,
             \A v \in todo \ {w} : proc[v] = "none"
      PROVE  SlotInv'
  <2>1. todo' = todo \ {w} /\ mpc' \in {"check", "waitpid", "fork"}
        /\ (mpc' = "fork" => todo' # {})
    BY <1>2, <1>6 DEF NextRespawn, TypeOK, LoopOK
  <2> QED
    BY <1>3, <1>6, <2>1 DEF SlotInv
<1>7. CASE ForkFails(w)
  <2>1. /\ mpc = "fork" /\ w = Least(todo) /\ proc' = proc /\ NextRespawn(w)
    BY <1>7 DEF ForkFails
  <2>2. worker'[w].pid = worker[w].pid
    BY <1>7 DEF ForkFails, Respawned, TypeOK, TableOK, WorkerRecord
  <2> QED
    BY <1>4, <1>6, <2>1, <2>2 DEF SlotInv
<1>8. CASE SetPid(w)
  <2>1. /\ mpc = "setpid" /\ w = Least(todo) /\ proc' = proc /\ NextRespawn(w)
    BY <1>8 DEF SetPid
  <2>2. worker'[w].pid = 1
    BY <1>8 DEF SetPid, TypeOK, TableOK, WorkerRecord
  <2> QED
    BY <1>4, <1>6, <2>1, <2>2 DEF SlotInv
<1> QED
    BY <1>5, <1>7, <1>8

LEMMA FifoSlots ==
    ASSUME TypeOK, SlotInv, FifoCommand
    PROVE  SlotInv'
<1>1. PICK c \in FifoCommands : Command(c)
    BY Zenon DEF FifoCommand
<1>2. mpc = "tasks" /\ mpc' \in {"blocked", "check"}
    BY DEF FifoCommand
<1>3. CASE c # "go_cheap"
    BY <1>1, <1>2, <1>3, CommandSlots, BuryingStep DEF Leaving, Respawning
<1>4. CASE c = "go_cheap"
  <2>1. GoCheap
    BY <1>1, <1>4 DEF Command
  <2>2. CASE is_cheap
    BY <1>2, <2>1, <2>2, BuryingStep DEF GoCheap, Leaving, Respawning
  <2>3. CASE ~is_cheap
    <3>1. \A w \in Worker : proc'[w] = "none"
        BY <1>2, <2>1, <2>3 DEF GoCheap, Known, SlotInv
    <3> QED
        BY <1>2, <3>1, BuryingStep DEF Leaving, Respawning
  <2> QED
    BY <2>2, <2>3
<1> QED
    BY <1>3, <1>4

LEMMA SlotInit == ASSUME Init PROVE SlotInv
BY DEF Init, SlotInv

LEMMA SlotStep == ASSUME TypeOK, SlotInv, [Next]_vars PROVE SlotInv'
<1>1. CASE UNCHANGED vars \/ Over
    BY <1>1, QuietStep DEF vars, Over
<1>2. CASE MasterNext
    BY <1>2, LoopSlots, CheckEndSlots, CheaperSpawnSlots, WakeSlots, BurySlots,
       RespawnSlots, FifoSlots, Zenon DEF MasterNext
<1>3. ASSUME NEW w \in Worker, WorkerNext(w)
      PROVE  SlotInv'
    BY <1>3, WorkerSlots
<1> QED
    BY <1>1, <1>2, <1>3, UnixSignalSlots, Zenon DEF Next

\* Processes unknown to the master exist only between fork() and the assignment
\* of their pid, and slots about to be filled are empty.
THEOREM MasterSlots == Spec => []SlotInv
BY TypeInit, TypeStep, SlotInit, SlotStep, PTL DEF Spec

\* Whatever the operator, the signals, the crashes and the failed forks do, when
\* the master exits or exec()s the next instance no worker is left running.
THEOREM MasterNoOrphans == Spec => []NoOrphans
<1>1. SlotInv => NoOrphans
    BY DEF SlotInv, NoOrphans, Alive, Booting, Running
<1> QED
    BY <1>1, MasterSlots, PTL

\* uwsgi_respawn_worker forks only into a slot without a process.
THEOREM MasterOneProcessPerSlot == Spec => OneProcessPerSlot
<1>1. ASSUME TypeOK, SlotInv, NEW w \in Worker, Fork(w)
      PROVE  proc[w] = "none"
  <2>1. Least(todo) \in todo
    BY <1>1, LeastFirst DEF Fork, TypeOK, LoopOK, Worker
  <2> QED
    BY <1>1, <2>1 DEF Fork, SlotInv
<1>2. TypeOK /\ SlotInv => [\A w \in Worker : Fork(w) => proc[w] = "none"]_vars
    BY <1>1
<1> QED
    BY <1>2, MasterTypeCorrect, MasterSlots, PTL DEF OneProcessPerSlot
-----------------------------------------------------------------------------
(* The chain reload replaces everybody                                       *)

\* What is inductive: a worker that serves accepts, so the chain does not skip it; the workers
\* it still has to replace were not forked since; and it has left none of them behind.
ChainInv ==
    /\ \A w \in Worker : proc[w] \in Running => worker[w].accepting = 1
    /\ \A w \in old : proc[w] \notin Booting
    /\ chain # 0 => \A w \in old : w < chain => ~Alive(w) \/ worker[w].cheaped = 1

\* A step that neither forks w, nor takes back that it was cheaped.
Tame(w) ==
    /\ proc'[w] \in Booting => proc[w] \in Booting
    /\ proc'[w] \in Running =>
          \/ proc[w] \in Running /\ worker'[w].accepting = worker[w].accepting
          \/ proc[w] \in Booting /\ worker'[w].accepting = 1
    /\ worker[w].cheaped = 1 => worker'[w].cheaped = 1

\* Such a step, if the chain stays where it is.
LEMMA TameStep ==
    ASSUME TypeOK, ChainInv, chain' = chain, old' = old, \A w \in Worker : Tame(w)
    PROVE  ChainInv'
<1>1. old \subseteq Worker
    BY DEF TypeOK, LoopOK
<1>2. \A w \in Worker : proc'[w] \in Running => worker'[w].accepting = 1
    BY DEF ChainInv, Tame
<1>3. \A w \in old' : proc'[w] \notin Booting
    BY <1>1 DEF ChainInv, Tame
<1>4. \A w \in Worker : Alive(w)' => Alive(w)
    BY DEF Alive, Tame
<1>5. chain' # 0 => \A w \in old' : w < chain' => ~Alive(w)' \/ worker'[w].cheaped = 1
    BY <1>1, <1>4 DEF ChainInv, Tame
<1> QED
    BY <1>2, <1>3, <1>5 DEF ChainInv

\* The curses leave these fields alone.
LEMMA CursedFields ==
    ASSUME TypeOK, NEW S, NEW w \in Worker
    PROVE  Cursed(S)[w].accepting = worker[w].accepting /\ Cursed(S)[w].cheaped = worker[w].cheaped
BY DEF TypeOK, TableOK, Cursed, WorkerRecord

\* The processes' own steps.
LEMMA WorkerTame ==
    ASSUME TypeOK, ChainInv, NEW w \in Worker, WorkerNext(w)
    PROVE  ChainInv'
<1>1. chain' = chain /\ old' = old
    BY DEF WorkerNext, ChildStart, Ignition, LoopHead, AcceptRequest, CloseRequest,
       GracefullyKill, EndMe, Wakeup, InheritedHandler, Fail, MercyExpires, status, history
<1> /\ worker \in [Worker -> WorkerRecord] /\ proc \in [Worker -> Process]
    BY DEF TypeOK, TableOK
<1> USE DEF Booting, Running
<1>2. CASE ChildStart(w)
    BY <1>1, <1>2, TameStep DEF ChildStart, Tame, WorkerRecord
<1>3. CASE Ignition(w)
    BY <1>1, <1>3, TameStep DEF Ignition, Tame, WorkerRecord
<1>4. CASE LoopHead(w) \/ AcceptRequest(w) \/ EndMe(w) \/ Wakeup(w)
    BY <1>1, <1>4, TameStep DEF LoopHead, AcceptRequest, EndMe, Wakeup, Tame
<1>5. CASE CloseRequest(w)
  <2>1. \A v \in Worker : worker'[v].accepting = worker[v].accepting /\ worker'[v].cheaped = worker[v].cheaped
    BY <1>5 DEF CloseRequest, WorkerRecord
  <2> QED
    BY <1>1, <1>5, <2>1, TameStep DEF CloseRequest, Tame
<1>6. CASE GracefullyKill(w)
    BY <1>1, <1>6, TameStep DEF GracefullyKill, Tame, WorkerRecord
<1>7. CASE InheritedHandler(w)
  <2>1. proc' = proc /\ (worker' = worker \/ worker' = Cursed(Known))
    BY <1>7 DEF InheritedHandler
  <2> QED
    BY <1>1, <2>1, CursedFields, TameStep DEF Tame
<1>8. CASE Fail(w)
    BY <1>1, <1>8, TameStep DEF Fail, Tame
<1>9. CASE MercyExpires(w)
    BY <1>1, <1>9, TameStep DEF MercyExpires, Tame, WorkerRecord
<1> QED
    BY <1>2, <1>3, <1>4, <1>5, <1>6, <1>7, <1>8, <1>9 DEF WorkerNext

\* The commands; a chain reload starts with those who serve.
LEMMA CommandTame ==
    ASSUME TypeOK, ChainInv, NEW c, Command(c)
    PROVE  ChainInv'
<1>0. proc \in [Worker -> Process] /\ chain \in Nat
    BY ConfigAssumption DEF TypeOK, TableOK, LoopOK
<1>1. CASE c \notin {"chain", "go_cheap"}
  <2>1. proc' = proc /\ chain' = chain /\ old' = old
    BY <1>1, Zenon DEF Command, GraceThemAll, ReapThemAll, KillThemAll, GracefullyKillThemAll,
       ReloadWorkers, status
  <2>2. worker' = worker \/ worker' = Cursed(Known)
    BY <1>1 DEF Command, GraceThemAll, ReapThemAll, KillThemAll, GracefullyKillThemAll,
       ReloadWorkers, CurseAll
  <2> QED
    BY <2>1, <2>2, CursedFields, TameStep DEF Tame
<1>2. CASE c = "go_cheap"
  <2>1. GoCheap
    BY <1>2 DEF Command
  <2>2. chain' = chain /\ old' = old
    BY <2>1 DEF GoCheap
  <2>3. CASE is_cheap
    BY <2>1, <2>2, <2>3, TameStep DEF GoCheap, Tame
  <2>4. CASE ~is_cheap
    BY <1>0, <2>1, <2>2, <2>4, TameStep DEF GoCheap, Tame, TypeOK, TableOK, WorkerRecord, Booting, Running
  <2> QED
    BY <2>3, <2>4
<1>3. CASE c = "chain"
  <2>1. ChainReload
    BY <1>3 DEF Command
  <2>2. worker' = worker /\ proc' = proc
    BY <2>1 DEF ChainReload
  <2>3. CASE chain # 0
    BY <2>1, <2>2, <2>3, TameStep DEF ChainReload, Tame
  <2>4. CASE chain = 0
    <3>1. chain' = 1 /\ old' = {w \in Worker : proc[w] \in Running}
        BY <2>1, <2>4 DEF ChainReload
    <3>2. \A w \in old' : proc'[w] \notin Booting
        BY <2>2, <3>1 DEF Booting, Running
    <3>3. \A w \in old' : ~(w < chain')
        BY <3>1 DEF Worker
    <3> QED
        BY <2>2, <3>2, <3>3 DEF ChainInv
  <2> QED
    BY <2>3, <2>4
<1> QED
    BY <1>1, <1>2, <1>3

\* The turns of the loop without a death.
LEMMA LoopTame ==
    ASSUME TypeOK, ChainInv,
           \/ CheckEnd \/ CheckMercy \/ CheaperNone \/ CheaperSpawn \/ CheaperCheap
           \/ NobodyDied \/ NothingDue \/ BlockedWait \/ CheckIdle \/ WakeFromCheap
           \/ \E w \in Worker : Harakiri(w) \/ SetPid(w)
    PROVE  ChainInv'
<1>0. worker \in [Worker -> WorkerRecord] /\ proc \in [Worker -> Process] /\ todo \subseteq Worker
    BY DEF TypeOK, TableOK, LoopOK
<1>1. chain' = chain /\ old' = old
    BY DEF CheckEnd, CheckMercy, CheaperNone, CheaperSpawn, CheaperCheap, NobodyDied, NothingDue,
       BlockedWait, CheckIdle, WakeFromCheap, Harakiri, SetPid, status, history
<1> USE DEF Booting, Running
<1>2. CASE CheckEnd \/ CheaperNone \/ CheaperSpawn \/ NothingDue \/ WakeFromCheap
    BY <1>1, <1>2, TameStep DEF CheckEnd, CheaperNone, CheaperSpawn, NothingDue, WakeFromCheap, Tame
<1>3. CASE CheckMercy
  <2>1. PICK late : worker' = Cursed(late) /\ proc' = Killed(late)
    BY <1>3 DEF CheckMercy
  <2> QED
    BY <1>1, <2>1, CursedFields, TameStep DEF Killed, Tame
<1>4. CASE CheaperCheap
  <2>1. PICK w \in Worker :
            worker' = [worker EXCEPT ![w].cheaped = 1, ![w].manage_next_request = 0,
                                     ![w].cursed_at = "mercy"]
    BY <1>4 DEF CheaperCheap, Known
  <2>2. \A v \in Worker : /\ worker'[v].accepting = worker[v].accepting
                          /\ worker[v].cheaped = 1 => worker'[v].cheaped = 1
    BY <1>0, <2>1 DEF WorkerRecord
  <2>3. proc' = proc
    BY <1>4 DEF CheaperCheap
  <2> QED
    BY <1>1, <2>2, <2>3, TameStep DEF Tame
<1>5. CASE NobodyDied
  <2>1. \A v \in Worker : worker'[v].accepting = worker[v].accepting /\ worker'[v].cheaped = worker[v].cheaped
    BY <1>0, <1>5 DEF NobodyDied, WorkerRecord
  <2>2. proc' = proc
    BY <1>5 DEF NobodyDied
  <2> QED
    BY <1>1, <2>1, <2>2, TameStep DEF Tame
<1>6. CASE BlockedWait
    BY <1>0, <1>1, <1>6, TameStep DEF BlockedWait, Tame
<1>7. CASE CheckIdle
  <2>1. \A v \in Worker : worker'[v].accepting = worker[v].accepting /\ worker'[v].cheaped = 1
    BY <1>0, <1>7 DEF CheckIdle, WorkerRecord
  <2>2. proc' = [w \in Worker |-> IF w \in Known THEN "none" ELSE proc[w]]
    BY <1>7 DEF CheckIdle
  <2> QED
    BY <1>1, <2>1, <2>2, TameStep DEF Tame
<1>8. ASSUME NEW w \in Worker, Harakiri(w)
      PROVE  ChainInv'
    BY <1>0, <1>1, <1>8, TameStep DEF Harakiri, Killed, Tame
<1>9. ASSUME NEW w \in Worker, SetPid(w)
      PROVE  ChainInv'
    BY <1>0, <1>1, <1>9, TameStep DEF SetPid, Tame, WorkerRecord
<1> QED
    BY <1>2, <1>3, <1>4, <1>5, <1>6, <1>7, <1>8, <1>9

\* uwsgi_master_check_chain: whom it skips is cheaped or gone.
LEMMA CheckChainTame ==
    ASSUME TypeOK, SlotInv, ChainInv, CheckChain
    PROVE  /\ ChainInv'
           /\ chain # 0 /\ chain' = 0 => \A w \in old : ~Alive(w) \/ worker[w].cheaped = 1
<1>1. mpc = "chain" /\ proc' = proc /\ old' = old
    BY DEF CheckChain, history
<1>2. worker' = worker \/ \E S : worker' = Cursed(S)
    BY DEF CheckChain
<1>3. \A w \in Worker : worker'[w].accepting = worker[w].accepting /\ worker'[w].cheaped = worker[w].cheaped
    BY <1>2, CursedFields
<1>4. \A w \in Worker : Tame(w)
    BY <1>1, <1>3 DEF Tame
<1>5. old \subseteq Worker /\ chain \in Nat /\ NumProc \in Nat
    BY ConfigAssumption DEF TypeOK, LoopOK
<1>6. CASE chain' = chain
    BY <1>1, <1>4, <1>6, TameStep
<1>7. CASE chain > NumProc /\ chain' = 0
  <2>1. \A w \in old : w < chain
    BY <1>5, <1>7 DEF Worker
  <2>2. \A w \in old : ~Alive(w) \/ worker[w].cheaped = 1
    BY <1>5, <1>7, <2>1 DEF ChainInv
  <2>3. ChainInv'
    BY <1>1, <1>3, <1>7 DEF ChainInv
  <2> QED
    BY <2>2, <2>3
<1>8. CASE chain \in Worker /\ chain' = ChainNext
  <2>1. ASSUME NEW w \in old, w < ChainNext, Alive(w), worker[w].cheaped # 1
        PROVE  FALSE
    <3>1. w \in Worker /\ w \in Nat
        BY <1>5 DEF Worker
    <3>2. ~(w < chain)
        BY <1>8, <2>1 DEF ChainInv, Worker
    <3>3. proc[w] \in Running /\ worker[w].accepting = 1
        BY <2>1, <3>1 DEF ChainInv, Alive
    <3>4. worker[w].pid = 1
        BY <1>1, <3>1, <3>3 DEF SlotInv, Running
    <3>5. worker[w].cheaped = 0
        BY <2>1, <3>1 DEF TypeOK, TableOK, WorkerRecord
    <3>6. w \in ChainVictims
        BY <1>5, <3>1, <3>2, <3>3, <3>4, <3>5 DEF ChainVictims
    <3>7. ChainVictims \subseteq Nat /\ ChainVictims # {}
        BY <3>6 DEF ChainVictims, Worker
    <3>8. Least(ChainVictims) \in Nat /\ Least(ChainVictims) <= w
        BY <3>6, <3>7, LeastFirst
    <3>9. ChainNext = Least(ChainVictims)
        BY <3>7 DEF ChainNext
    <3> QED
        BY <2>1, <3>1, <3>8, <3>9
  <2>2. \A w \in old : w < ChainNext => ~Alive(w) \/ worker[w].cheaped = 1
    BY <2>1
  <2>3. ChainInv'
    <3>1. \A w \in old' : w < chain' => ~Alive(w)' \/ worker'[w].cheaped = 1
        BY <1>1, <1>3, <1>5, <1>8, <2>2 DEF Alive
    <3> QED
        BY <1>1, <1>3, <3>1 DEF ChainInv
  <2>4. chain' # 0
    <3>1. ChainVictims \subseteq Nat \ {0}
        BY DEF ChainVictims, Worker
    <3>2. ChainVictims # {} => Least(ChainVictims) \in ChainVictims
        BY <3>1, LeastFirst
    <3> QED
        BY <1>5, <1>8, <3>1, <3>2 DEF ChainNext
  <2> QED
    BY <2>3, <2>4
<1>9. \/ chain' = chain
      \/ chain > NumProc /\ chain' = 0
      \/ chain \in Worker /\ chain' = ChainNext
    BY DEF CheckChain
<1>10. CASE chain # 0 /\ chain' = 0
    BY <1>6, <1>7, <1>8, <1>9, <1>10
<1> QED
    BY <1>6, <1>7, <1>8, <1>9, <1>10

\* A death moves the chain past the dead worker.
LEMMA BuryTame ==
    ASSUME TypeOK, ChainInv, NEW w \in Worker, Bury(w)
    PROVE  ChainInv' /\ (chain # 0 => chain' # 0)
<1> DEFINE dead == [worker EXCEPT ![w].pid = 0]
<1>0. worker \in [Worker -> WorkerRecord] /\ proc \in [Worker -> Process] /\ old \subseteq Worker
      /\ chain \in Nat
    BY ConfigAssumption DEF TypeOK, TableOK, LoopOK
<1>1. proc' = [proc EXCEPT ![w] = "none"] /\ old' = old
    BY DEF Bury, history
<1>2. \A v \in Worker : worker'[v].accepting = worker[v].accepting /\ worker'[v].cheaped = worker[v].cheaped
  <2>1. /\ dead \in [Worker -> WorkerRecord]
        /\ \A v \in Worker : dead[v].accepting = worker[v].accepting /\ dead[v].cheaped = worker[v].cheaped
    BY <1>0 DEF WorkerRecord
  <2> HIDE DEF dead
  <2>2. \/ worker' = dead \/ worker' = [dead EXCEPT ![w].cursed_at = "never"]
        \/ worker' = [v \in Worker |-> IF v \in Known \ {w}
                                       THEN [dead[v] EXCEPT !.cursed_at = "mercy"]
                                       ELSE dead[v]]
    BY Zenon DEF Bury, dead
  <2>3. CASE worker' = dead
    BY <2>1, <2>3
  <2>4. CASE worker' = [dead EXCEPT ![w].cursed_at = "never"]
    BY <2>1, <2>4 DEF WorkerRecord
  <2>5. CASE worker' = [v \in Worker |-> IF v \in Known \ {w}
                                       THEN [dead[v] EXCEPT !.cursed_at = "mercy"]
                                       ELSE dead[v]]
    BY <2>1, <2>5 DEF WorkerRecord
  <2> QED
    BY <2>2, <2>3, <2>4, <2>5
<1>3. \A v \in Worker : Tame(v)
    BY <1>0, <1>1, <1>2 DEF Tame, Booting, Running
<1>4. chain' = chain \/ (chain = w /\ chain' = w + 1)
    BY Zenon DEF Bury, ChainAfterDeath
<1>5. CASE chain' = chain
    BY <1>1, <1>3, <1>5, TameStep
<1>6. CASE chain = w /\ chain' = w + 1
  <2>1. \A v \in old : v < w + 1 => v < w \/ v = w
    BY <1>0 DEF Worker
  <2>2. ~Alive(w)'
    BY <1>0, <1>1 DEF Alive, Booting, Running
  <2>3. \A v \in old : v < w => ~Alive(v) \/ worker[v].cheaped = 1
    BY <1>6 DEF ChainInv, Worker
  <2>4. \A v \in old : Alive(v)' => Alive(v)
    BY <1>0, <1>1 DEF Alive, Booting, Running
  <2>5. \A v \in old' : v < chain' => ~Alive(v)' \/ worker'[v].cheaped = 1
    BY <1>0, <1>1, <1>2, <1>6, <2>1, <2>2, <2>3, <2>4
  <2>6. \A v \in Worker : proc'[v] \in Running => worker'[v].accepting = 1
    BY <1>0, <1>1, <1>2 DEF ChainInv, Running
  <2>7. \A v \in old' : proc'[v] \notin Booting
    BY <1>0, <1>1 DEF ChainInv, Booting
  <2> QED
    BY <1>6, <2>5, <2>6, <2>7 DEF ChainInv, Worker
<1> QED
    BY <1>4, <1>5, <1>6

\* A fork replaces a worker, a failed one leaves no process.
LEMMA ForkTame ==
    ASSUME TypeOK, SlotInv, ChainInv, NEW w \in Worker, Fork(w) \/ ForkFails(w)
    PROVE  ChainInv'
<1>0. worker \in [Worker -> WorkerRecord] /\ proc \in [Worker -> Process] /\ old \subseteq Worker
      /\ todo \subseteq Nat
    BY DEF TypeOK, TableOK, LoopOK, Worker
<1>1. worker' = Respawned(w) /\ chain' = chain
    BY DEF Fork, ForkFails, status
<1>2. \A v \in Worker : v # w => worker'[v] = worker[v]
    BY <1>0, <1>1 DEF Respawned
<1>3. proc[w] = "none"
  <2>1. todo # {} /\ w = Least(todo) /\ mpc = "fork"
    BY DEF Fork, ForkFails
  <2> QED
    BY <1>0, <2>1, LeastFirst DEF SlotInv
<1>4. CASE Fork(w)
  <2>1. proc' = [proc EXCEPT ![w] = "fork"] /\ old' = old \ {w}
    BY <1>4 DEF Fork
  <2>2. \A v \in Worker : proc'[v] \in Running => worker'[v].accepting = 1
    BY <1>0, <1>2, <2>1 DEF ChainInv, Running
  <2>3. \A v \in old' : proc'[v] \notin Booting
    BY <1>0, <2>1 DEF ChainInv
  <2>4. chain' # 0 => \A v \in old' : v < chain' => ~Alive(v)' \/ worker'[v].cheaped = 1
    BY <1>0, <1>1, <1>2, <2>1 DEF ChainInv, Alive
  <2> QED
    BY <2>2, <2>3, <2>4 DEF ChainInv
<1>5. CASE ForkFails(w)
  <2>1. proc' = proc /\ old' = old
    BY <1>5 DEF ForkFails
  <2>2. \A v \in Worker : proc'[v] \in Running => worker'[v].accepting = 1
    BY <1>2, <1>3, <2>1 DEF ChainInv, Running
  <2>3. \A v \in old' : proc'[v] \notin Booting
    BY <2>1 DEF ChainInv
  <2>4. chain' # 0 => \A v \in old' : v < chain' => ~Alive(v)' \/ worker'[v].cheaped = 1
    BY <1>0, <1>1, <1>2, <1>3, <2>1 DEF ChainInv, Alive, Running, Booting
  <2> QED
    BY <2>2, <2>3, <2>4 DEF ChainInv
<1> QED
    BY <1>4, <1>5

LEMMA ChainInit == ASSUME Init PROVE ChainInv
BY DEF Init, ChainInv, Running

LEMMA ChainStep == ASSUME TypeOK, SlotInv, ChainInv, [Next]_vars PROVE ChainInv'
<1>1. CASE UNCHANGED vars \/ Over
    BY <1>1, TameStep DEF vars, Over, Tame
<1>2. CASE MasterNext
  <2>1. CASE FifoCommand
    BY <2>1, CommandTame DEF FifoCommand
  <2> QED
    BY <1>2, <2>1, CheckChainTame, LoopTame, BuryTame, ForkTame, Zenon DEF MasterNext
<1>3. ASSUME NEW w \in Worker, WorkerNext(w)
      PROVE  ChainInv'
    BY <1>3, WorkerTame
<1>4. CASE UnixSignal
    BY <1>4, CommandTame DEF UnixSignal
<1> QED
    BY <1>1, <1>2, <1>3, <1>4, Zenon DEF Next

\* The chain reload leaves no worker behind that it has to replace.
THEOREM MasterChain == Spec => []ChainInv
BY TypeInit, TypeStep, SlotInit, SlotStep, ChainInit, ChainStep, PTL DEF Spec

\* A chain reload ends in uwsgi_master_check_chain alone.
LEMMA ChainEndsThere ==
    ASSUME TypeOK, SlotInv, ChainInv, [Next]_vars, chain # 0, chain' = 0
    PROVE  CheckChain
<1>1. ASSUME NEW w \in Worker, WorkerNext(w)
      PROVE  chain' = chain
    BY <1>1 DEF WorkerNext, ChildStart, Ignition, LoopHead, AcceptRequest, CloseRequest,
       GracefullyKill, EndMe, Wakeup, InheritedHandler, Fail, MercyExpires, status
<1>2. ASSUME NEW c, Command(c)
      PROVE  chain' = chain
    BY <1>2 DEF Command, GraceThemAll, ReapThemAll, KillThemAll, GracefullyKillThemAll,
       ReloadWorkers, ChainReload, GoCheap, status
<1>3. CASE UnixSignal \/ FifoCommand
    BY <1>2, <1>3, Zenon DEF UnixSignal, FifoCommand
<1>4. CASE CheckEnd \/ CheckMercy \/ CheaperNone \/ CheaperSpawn \/ CheaperCheap
           \/ NobodyDied \/ NothingDue \/ BlockedWait \/ CheckIdle \/ WakeFromCheap
           \/ Over \/ UNCHANGED vars
    BY <1>4 DEF CheckEnd, CheckMercy, CheaperNone, CheaperSpawn, CheaperCheap, NobodyDied,
       NothingDue, BlockedWait, CheckIdle, WakeFromCheap, Over, vars, status
<1>5. ASSUME NEW w \in Worker, Fork(w) \/ ForkFails(w) \/ SetPid(w) \/ Harakiri(w)
      PROVE  chain' = chain
    BY <1>5 DEF Fork, ForkFails, SetPid, Harakiri, status
<1>6. ASSUME NEW w \in Worker, Bury(w)
      PROVE  chain' # 0
    BY <1>6, BuryTame
<1> QED
    BY <1>1, <1>3, <1>4, <1>5, <1>6, Zenon DEF Next, MasterNext

\* When a chain reload is declared complete every worker that was serving at its start has been
\* replaced or is gone, for every number of workers and whatever crashes, failed forks, cheaper
\* decisions, reloads and idle times came in between.
THEOREM MasterChainReplacesAll == Spec => ChainReplacesAll
<1>1. ASSUME TypeOK, SlotInv, ChainInv, [Next]_vars, chain # 0, chain' = 0
      PROVE  \A w \in old : ~Alive(w) \/ worker[w].cheaped = 1
    BY <1>1, ChainEndsThere, CheckChainTame
<1>2. TypeOK /\ SlotInv /\ ChainInv /\ [Next]_vars =>
        [chain # 0 /\ chain' = 0 => \A w \in old : ~Alive(w) \/ worker[w].cheaped = 1]_vars
    BY <1>1
<1> QED
    BY <1>2, MasterTypeCorrect, MasterSlots, MasterChain, PTL DEF ChainReplacesAll, Spec

-----------------------------------------------------------------------------
(* The chain reload takes down one worker at a time                          *)

\* Nothing but the chain reload stops workers: no other command, no crash, and no worker that
\* retires or is cheaped.
OnlyChainStops ==
    /\ FifoCommands \subseteq {"chain"} /\ UnixCommands = {}
    /\ MaxFaults = 0 /\ CheaperCount = 0 /\ Recycle = FALSE /\ Idle = FALSE

\* Then a worker serves, ...
Serving(w) ==
    /\ proc[w] \in Running
    /\ worker[w].cursed_at = "never" /\ worker[w].manage_next_request = 1 /\ sig[w] = {}

\* ... or it starts: if it served when the chain reload did, the chain waits for it, ...
Starting(w) ==
    /\ proc[w] \in Booting
    /\ worker[w].accepting = 0 /\ worker[w].cursed_at = "never" /\ sig[w] = {}
    /\ proc[w] = "boot" => worker[w].manage_next_request = 1
    /\ w \in served /\ chain # 0 => chain = w + 1

\* ... or it is buried and not yet forked again, ...
Replaced(w) ==
    proc[w] = "none" /\ mpc = "fork" /\ todo = {w} /\ chain = w + 1

\* ... or it is the one that the chain reload has cursed.
Retiring(w) ==
    /\ proc[w] \in Running \cup {"exited"}
    /\ chain = w /\ mpc # "fork" /\ worker[w].accepting = 1
    /\ worker[w].cursed_at # "never" /\ sig[w] \subseteq {"HUP"}

Phase(w) ==
    /\ worker[w].cheaped = 0
    /\ Serving(w) \/ Starting(w) \/ Replaced(w) \/ Retiring(w)

\* What is inductive: the phases, and that the one that leaves is the only one that is down.
CalmInv ==
    /\ reloading = FALSE /\ dying = FALSE /\ is_cheap = FALSE
    /\ mpc \notin {"blocked", "exited", "exec"}
    /\ \A w \in Worker : Phase(w)
    /\ \A w \in Worker : worker[w].cursed_at # "never" =>
                            \A v \in served \ {w} : proc[v] \in Running

\* A step of one worker.
LEMMA CalmWorkerStep ==
    ASSUME TypeOK, CalmInv, NEW w \in Worker, Phase(w)',
           \A v \in Worker \ {w} : proc'[v] = proc[v] /\ worker'[v] = worker[v] /\ sig'[v] = sig[v],
           proc[w] \in Running => proc'[w] \in Running \/ worker[w].cursed_at # "never",
           worker'[w].cursed_at # "never" => worker[w].cursed_at # "never",
           UNCHANGED <<status, master, served>>
    PROVE  CalmInv'
<1> USE DEF status, master
<1>1. \A v \in Worker : Phase(v)'
  <2>1. ASSUME NEW v \in Worker, v # w
        PROVE  Phase(v)'
    <3>1. Phase(v)
        BY DEF CalmInv
    <3> QED
        BY <2>1, <3>1 DEF Phase, Serving, Starting, Replaced, Retiring
  <2> QED
    BY <2>1
<1>2. ASSUME NEW u \in Worker, worker'[u].cursed_at # "never", NEW v \in served \ {u}
      PROVE  proc'[v] \in Running
  <2>1. worker[u].cursed_at # "never" /\ v \in Worker
    BY <1>2 DEF TypeOK, LoopOK
  <2>2. proc[v] \in Running
    BY <2>1 DEF CalmInv
  <2>3. CASE v = w /\ worker[w].cursed_at # "never"
    <3>1. Phase(u) /\ Phase(w)
        BY DEF CalmInv
    <3>2. chain = w /\ mpc # "fork"
        BY <2>2, <2>3, <3>1 DEF Phase, Serving, Starting, Replaced, Retiring, Running, Booting
    <3>3. chain = u
        BY <2>1, <3>1, <3>2 DEF Phase, Serving, Starting, Replaced, Retiring
    <3> QED
        BY <1>2, <2>3, <3>2, <3>3
  <2> QED
    BY <2>1, <2>2, <2>3
<1> QED
    BY <1>1, <1>2 DEF CalmInv

\* A turn of the master that changes nothing but its place.
LEMMA CalmTurn ==
    ASSUME CalmInv, UNCHANGED <<worker, proc, sig, status, served>>, mpc # "fork",
           mpc' \notin {"fork", "blocked", "exited", "exec"}
    PROVE  CalmInv'
<1>1. ASSUME NEW w \in Worker
      PROVE  Phase(w)'
  <2>1. Phase(w)
    BY DEF CalmInv
  <2> QED
    BY <2>1 DEF Phase, Serving, Starting, Replaced, Retiring, status
<1> QED
    BY <1>1 DEF CalmInv, status

\* The processes' own steps.
LEMMA CalmWorkers ==
    ASSUME OnlyChainStops, TypeOK, SlotInv, ChainInv, CalmInv, NEW w \in Worker, WorkerNext(w)
    PROVE  CalmInv'
<1>0. /\ worker \in [Worker -> WorkerRecord] /\ proc \in [Worker -> Process]
      /\ sig \in [Worker -> SUBSET {"HUP", "INT", "WINCH"}] /\ faults \in 0 .. MaxFaults
    BY DEF TypeOK, TableOK, LoopOK
<1>1. Phase(w) /\ (proc[w] \in Running => worker[w].accepting = 1)
    BY DEF CalmInv, ChainInv
<1>2. CASE ChildStart(w)
  <2>1. /\ worker'[w].accepting = worker[w].accepting /\ worker'[w].cursed_at = worker[w].cursed_at
        /\ worker'[w].cheaped = worker[w].cheaped /\ worker'[w].manage_next_request = 1
        /\ proc'[w] = "boot" /\ proc[w] = "fork" /\ sig' = sig
        /\ UNCHANGED <<status, master, served>>
        /\ \A v \in Worker \ {w} : proc'[v] = proc[v] /\ worker'[v] = worker[v]
    BY <1>0, <1>2 DEF ChildStart, WorkerRecord, history
  <2>2. Starting(w) /\ worker[w].cheaped = 0
    BY <1>1, <2>1 DEF Phase, Serving, Replaced, Retiring, Running
  <2>3. Phase(w)'
    BY <2>1, <2>2 DEF Phase, Starting, Booting, status
  <2> QED
    BY <2>1, <2>2, <2>3, CalmWorkerStep DEF Starting, Booting, Running
<1>3. CASE Ignition(w)
  <2>1. /\ worker'[w].manage_next_request = worker[w].manage_next_request
        /\ worker'[w].cursed_at = worker[w].cursed_at /\ worker'[w].cheaped = worker[w].cheaped
        /\ proc'[w] = "loop" /\ proc[w] = "boot" /\ sig' = sig
        /\ UNCHANGED <<status, master, served>>
        /\ \A v \in Worker \ {w} : proc'[v] = proc[v] /\ worker'[v] = worker[v]
    BY <1>0, <1>3 DEF Ignition, WorkerRecord, history
  <2>2. Starting(w) /\ worker[w].cheaped = 0
    BY <1>1, <2>1 DEF Phase, Serving, Replaced, Retiring, Running
  <2>3. Phase(w)'
    BY <2>1, <2>2 DEF Phase, Starting, Serving, Running
  <2> QED
    BY <2>1, <2>2, <2>3, CalmWorkerStep DEF Starting, Booting, Running
<1>4. CASE LoopHead(w) \/ AcceptRequest(w) \/ CloseRequest(w)
  <2>1. /\ worker' = worker /\ sig' = sig /\ UNCHANGED <<status, master, served>>
        /\ \A v \in Worker \ {w} : proc'[v] = proc[v]
        /\ proc[w] \in Running /\ proc'[w] \in Running \cup {"exited"}
        /\ worker[w].manage_next_request = 1 => proc'[w] \in Running
    BY <1>0, <1>4 DEF LoopHead, AcceptRequest, CloseRequest, Running, OnlyChainStops, history
  <2>2. (Serving(w) \/ Retiring(w)) /\ worker[w].cheaped = 0
    BY <1>1, <2>1 DEF Phase, Starting, Replaced, Running, Booting
  <2>3. Phase(w)' /\ (proc'[w] \in Running \/ worker[w].cursed_at # "never")
    BY <2>1, <2>2 DEF Phase, Serving, Retiring, status, master
  <2> QED
    BY <2>1, <2>3, CalmWorkerStep
<1>5. CASE GracefullyKill(w)
  <2>1. /\ worker'[w].accepting = worker[w].accepting /\ worker'[w].cursed_at = worker[w].cursed_at
        /\ worker'[w].cheaped = worker[w].cheaped /\ sig'[w] \subseteq sig[w] /\ sig[w] # {}
        /\ proc[w] \in Running /\ proc'[w] \in Running \cup {"exited"}
        /\ UNCHANGED <<status, master, served>>
        /\ \A v \in Worker \ {w} : proc'[v] = proc[v] /\ worker'[v] = worker[v] /\ sig'[v] = sig[v]
    BY <1>0, <1>5 DEF GracefullyKill, Consume, WorkerRecord, Running, history
  <2>2. Retiring(w) /\ worker[w].cheaped = 0
    BY <1>1, <2>1 DEF Phase, Serving, Starting, Replaced, Running, Booting
  <2>3. Phase(w)'
    BY <2>1, <2>2 DEF Phase, Retiring, status, master
  <2> QED
    BY <2>1, <2>2, <2>3, CalmWorkerStep DEF Retiring
<1>6. ~EndMe(w) /\ ~Wakeup(w) /\ ~InheritedHandler(w)
  <2>1. sig[w] \subseteq {"HUP"} \/ proc[w] = "none"
    BY <1>1 DEF Phase, Serving, Starting, Replaced, Retiring
  <2>2. proc[w] \in Booting => sig[w] = {}
    BY <1>1 DEF Phase, Serving, Starting, Replaced, Retiring, Booting, Running
  <2> QED
    BY <2>1, <2>2 DEF EndMe, Wakeup, InheritedHandler, Consume, Running, Booting
<1>7. ~Fail(w)
    BY <1>0 DEF Fail, OnlyChainStops
<1>8. CASE MercyExpires(w)
  <2>1. /\ worker'[w].accepting = worker[w].accepting /\ worker'[w].cursed_at # "never"
        /\ worker[w].cursed_at # "never" /\ worker'[w].cheaped = worker[w].cheaped
        /\ proc' = proc /\ sig' = sig /\ UNCHANGED <<status, master, served>>
        /\ \A v \in Worker \ {w} : worker'[v] = worker[v]
    BY <1>0, <1>8 DEF MercyExpires, WorkerRecord, history
  <2>2. (Replaced(w) \/ Retiring(w)) /\ worker[w].cheaped = 0
    BY <1>1, <2>1 DEF Phase, Serving, Starting
  <2>3. Phase(w)'
    BY <2>1, <2>2 DEF Phase, Replaced, Retiring, status, master
  <2> QED
    BY <2>1, <2>3, CalmWorkerStep
<1> QED
    BY <1>2, <1>3, <1>4, <1>5, <1>6, <1>7, <1>8 DEF WorkerNext

\* uwsgi_master_check_chain: it curses the worker its index points at, and only when all others
\* that served when it started do serve.
LEMMA CalmChain ==
    ASSUME TypeOK, SlotInv, ChainInv, CalmInv, CheckChain
    PROVE  /\ CalmInv'
           /\ \A w \in Worker : worker[w].cursed_at = "never" /\ worker'[w].cursed_at # "never" =>
                 \A v \in served \ {w} : proc[v] \in Running /\ worker[v].accepting = 1
<1>0. /\ worker \in [Worker -> WorkerRecord] /\ served \subseteq Worker /\ chain \in Nat /\ NumProc \in Nat
      /\ sig \in [Worker -> SUBSET {"HUP", "INT", "WINCH"}]
    BY ConfigAssumption DEF TypeOK, TableOK, LoopOK
<1>1. mpc = "chain" /\ mpc' = "mercy" /\ UNCHANGED <<proc, reloading, dying, is_cheap, served>>
    BY DEF CheckChain, history
<1>2. \A w \in Worker : /\ worker[w].cheaped = 0 /\ proc[w] # "none" /\ worker[w].pid = 1
                        /\ Serving(w) \/ Starting(w) \/ Retiring(w)
                        /\ Retiring(w) => chain = w
                        /\ Serving(w) \/ Retiring(w) => worker[w].accepting = 1
                        /\ Serving(w) => proc[w] \in Running /\ worker[w].cursed_at = "never"
                        /\ Starting(w) => worker[w].cursed_at = "never" /\ worker[w].accepting = 0
                        /\ Starting(w) /\ w \in served /\ chain # 0 => chain = w + 1
  <2>1. ASSUME NEW w \in Worker
        PROVE  worker[w].cheaped = 0 /\ (Serving(w) \/ Starting(w) \/ Retiring(w))
    BY <1>1 DEF CalmInv, Phase, Replaced
  <2>2. ASSUME NEW w \in Worker
        PROVE  proc[w] # "none" /\ worker[w].pid = 1
    BY <1>1, <2>1 DEF Serving, Starting, Retiring, Running, Booting, SlotInv
  <2> QED
    BY <2>1, <2>2 DEF Serving, Starting, Retiring, ChainInv
<1>3. CASE worker' = worker /\ sig' = sig /\ chain' = chain
  <2>1. CalmInv'
    BY <1>1, <1>3, CalmTurn DEF status
  <2> QED
    BY <1>3, <2>1
\* At the end of the table nobody leaves.
<1>4. CASE worker' = worker /\ sig' = sig /\ chain' = 0 /\ chain > NumProc
  <2>1. ASSUME NEW w \in Worker
        PROVE  Phase(w)'
    <3>1. chain # w
        BY <1>0, <1>4 DEF Worker
    <3> QED
        BY <1>1, <1>2, <1>4, <3>1 DEF Phase, Serving, Starting
  <2>2. \A w \in Worker : worker'[w].cursed_at # "never" =>
                            \A v \in served' \ {w} : proc'[v] \in Running
    BY <1>1, <1>4 DEF CalmInv
  <2>3. CalmInv'
    BY <1>1, <2>1, <2>2 DEF CalmInv
  <2> QED
    BY <1>4, <2>3
<1>5. ASSUME chain \in Worker, ~ChainWaits, chain' = ChainNext,
             NEW victim,
             victim = {w \in ChainVictims : w = ChainNext /\ worker[w].cursed_at = "never"},
             worker' = Cursed(victim), sig' = Signalled(victim, "HUP")
      PROVE  /\ CalmInv'
             /\ \A w \in Worker : worker[w].cursed_at = "never" /\ worker'[w].cursed_at # "never" =>
                   \A v \in served \ {w} : proc[v] \in Running /\ worker[v].accepting = 1
  <2> USE <1>5
  <2>0. chain \in Nat \ {0}
    BY DEF Worker
  <2>1. \A w \in served : ~Starting(w)
    <3>1. ASSUME NEW w \in served, Starting(w)
          PROVE  ChainWaits
        <4>1. w \in Worker /\ w \in Nat \ {0} /\ chain = w + 1
            BY <1>0, <1>2, <2>0, <3>1 DEF Worker
        <4> QED
            BY <1>2, <3>1, <4>1 DEF ChainWaits
    <3> QED
        BY <3>1
  <2>2. \A w \in Worker : Retiring(w) => ChainNext = w
    <3>1. ASSUME NEW w \in Worker, Retiring(w)
          PROVE  ChainNext = w
        <4>0. chain = w /\ worker[w].pid = 1 /\ worker[w].cheaped = 0 /\ worker[w].accepting = 1
            BY <1>2, <3>1
        <4>1. chain = w /\ w >= chain /\ w \in ChainVictims
            BY <2>0, <4>0 DEF ChainVictims
        <4>2. ChainVictims \subseteq Nat /\ \A v \in ChainVictims : w <= v
            BY <4>1 DEF ChainVictims, Worker
        <4>3. Least(ChainVictims) \in ChainVictims /\ Least(ChainVictims) <= w
            BY <4>1, <4>2, LeastFirst
        <4>4. Least(ChainVictims) = w
          <5>1. PICK l \in Nat : l = Least(ChainVictims) /\ l <= w /\ w <= l
            BY <4>2, <4>3
          <5> QED
            BY <2>0, <4>1, <5>1
        <4> QED
            BY <4>1, <4>4 DEF ChainNext
    <3> QED
        BY <3>1
  <2>3. \A w \in Worker : /\ w \notin victim => worker'[w] = worker[w] /\ sig'[w] = sig[w]
                          /\ w \in victim => /\ worker'[w].cursed_at = "mercy"
                                             /\ worker'[w].accepting = worker[w].accepting
                                             /\ worker'[w].cheaped = worker[w].cheaped
                                             /\ sig'[w] \subseteq sig[w] \cup {"HUP"}
    BY <1>0 DEF Cursed, Signalled, WorkerRecord
  <2>4. \A w \in victim : w \in Worker /\ w = ChainNext /\ worker[w].accepting = 1 /\ Serving(w)
    BY <1>2 DEF ChainVictims, Retiring
  <2>5. ASSUME NEW w \in victim, NEW v \in served \ {w}
        PROVE  proc[v] \in Running /\ worker[v].accepting = 1
    <3>1. v \in Worker /\ w \in Worker /\ ChainNext = w /\ v # w
        BY <1>0, <2>4
    <3>2. ~Starting(v) /\ ~Retiring(v)
        BY <2>1, <2>2, <2>5, <3>1
    <3> QED
        BY <1>2, <3>1, <3>2
  <2>6. ASSUME NEW w \in Worker
        PROVE  Phase(w)'
    <3>1. CASE w \in victim
        BY <1>1, <2>3, <2>4, <1>2, <3>1 DEF Phase, Serving, Retiring
    <3>2. CASE w \notin victim
      <4>1. worker'[w] = worker[w] /\ sig'[w] = sig[w]
        BY <2>3, <3>2
      <4>2. CASE Serving(w)
        BY <1>1, <1>2, <4>1, <4>2 DEF Phase, Serving
      <4>3. CASE Starting(w)
        BY <1>1, <1>2, <2>1, <4>1, <4>3 DEF Phase, Starting
      <4>4. CASE Retiring(w)
        BY <1>1, <1>2, <2>2, <4>1, <4>4 DEF Phase, Retiring
      <4> QED
        BY <1>2, <4>2, <4>3, <4>4
    <3> QED
        BY <3>1, <3>2
  <2>7. ASSUME NEW w \in Worker, worker'[w].cursed_at # "never", NEW v \in served' \ {w}
        PROVE  proc'[v] \in Running
    <3>1. CASE w \in victim
        BY <1>1, <2>5, <3>1
    <3>2. CASE w \notin victim
        BY <1>1, <2>3, <2>7, <3>2 DEF CalmInv
    <3> QED
        BY <3>1, <3>2
  <2>8. CalmInv'
    BY <1>1, <2>6, <2>7 DEF CalmInv
  <2> QED
    BY <2>3, <2>5, <2>8
<1>6. \/ worker' = worker /\ sig' = sig /\ chain' = chain
      \/ worker' = worker /\ sig' = sig /\ chain' = 0 /\ chain > NumProc
      \/ /\ chain \in Worker /\ ~ChainWaits /\ chain' = ChainNext
         /\ LET victim == {w \in ChainVictims : w = ChainNext /\ worker[w].cursed_at = "never"}
            IN  worker' = Cursed(victim) /\ sig' = Signalled(victim, "HUP")
    BY DEF CheckChain
<1> QED
    BY <1>3, <1>4, <1>5, <1>6

\* uwsgi_master_check_mercy kills only the one that leaves.
LEMMA CalmMercy ==
    ASSUME TypeOK, CalmInv, CheckMercy
    PROVE  CalmInv'
<1> DEFINE late == {w \in Known : worker[w].cursed_at = "late"}
<1>0. worker \in [Worker -> WorkerRecord] /\ proc \in [Worker -> Process] /\ served \subseteq Worker
    BY DEF TypeOK, TableOK, LoopOK
<1>1. /\ mpc = "mercy" /\ mpc' = "cheaper" /\ worker' = Cursed(late) /\ proc' = Killed(late)
      /\ UNCHANGED <<sig, status, served>>
    BY DEF CheckMercy, history
<1>2. \A w \in late : w \in Worker /\ Retiring(w) /\ chain = w
  <2>1. ASSUME NEW w \in late
        PROVE  w \in Worker /\ worker[w].cursed_at = "late"
    BY DEF Known
  <2> QED
    BY <1>1, <2>1 DEF CalmInv, Phase, Serving, Starting, Replaced, Retiring
<1> HIDE DEF late
<1>3. \A w \in Worker : /\ w \notin late => worker'[w] = worker[w] /\ proc'[w] = proc[w]
                        /\ w \in late => /\ worker'[w].cursed_at = "mercy"
                                         /\ worker'[w].accepting = worker[w].accepting
                                         /\ worker'[w].cheaped = worker[w].cheaped
    BY <1>0, <1>1 DEF Cursed, Killed, WorkerRecord
<1>4. \A w \in late : proc'[w] = "exited"
    BY <1>0, <1>1, <1>2 DEF Killed, Retiring, Alive
<1>5. ASSUME NEW w \in Worker
      PROVE  Phase(w)'
  <2>1. Phase(w)
    BY DEF CalmInv
  <2>2. CASE w \in late
    BY <1>1, <1>2, <1>3, <1>4, <2>1, <2>2 DEF Phase, Retiring, status
  <2>3. CASE w \notin late
    <3>1. worker'[w] = worker[w] /\ proc'[w] = proc[w] /\ sig'[w] = sig[w]
        BY <1>1, <1>3, <2>3
    <3> QED
        BY <1>1, <2>1, <3>1 DEF Phase, Serving, Starting, Replaced, Retiring, status
  <2> QED
    BY <2>2, <2>3
<1>6. ASSUME NEW w \in Worker, worker'[w].cursed_at # "never", NEW v \in served' \ {w}
      PROVE  proc'[v] \in Running
  <2>1. worker[w].cursed_at # "never"
    BY <1>2, <1>3, <1>6 DEF Retiring
  <2>2. v \in Worker /\ v # w /\ proc[v] \in Running
    BY <1>0, <1>1, <1>6, <2>1 DEF CalmInv
  <2>3. v \notin late
    <3>1. SUFFICES ASSUME v \in late PROVE FALSE
        OBVIOUS
    <3>2. Phase(w) /\ chain = v
        BY <1>2, <3>1 DEF CalmInv
    <3>3. chain = w
        BY <1>1, <2>1, <3>2 DEF Phase, Serving, Starting, Replaced, Retiring
    <3> QED
        BY <2>2, <3>2, <3>3
  <2> QED
    BY <1>3, <2>2, <2>3
<1> QED
    BY <1>1, <1>5, <1>6 DEF CalmInv, status

\* The one that leaves dies, and the chain moves on.
LEMMA CalmBury ==
    ASSUME TypeOK, CalmInv, NEW w \in Worker, Bury(w)
    PROVE  CalmInv'
<1>0. worker \in [Worker -> WorkerRecord] /\ proc \in [Worker -> Process] /\ served \subseteq Worker
      /\ sig \in [Worker -> SUBSET {"HUP", "INT", "WINCH"}]
    BY DEF TypeOK, TableOK, LoopOK
<1>1. mpc = "waitpid" /\ proc[w] \in Zombie /\ Phase(w) /\ reloading = FALSE /\ dying = FALSE
    BY DEF Bury, CalmInv
<1>2. Retiring(w) /\ proc[w] = "exited" /\ chain = w /\ worker[w].cheaped = 0
    BY <1>1 DEF Phase, Serving, Starting, Replaced, Retiring, Zombie, Running, Booting
<1>3. /\ worker' = [worker EXCEPT ![w].pid = 0] /\ sig' = [sig EXCEPT ![w] = {}]
      /\ proc' = [proc EXCEPT ![w] = "none"] /\ chain' = w + 1
      /\ mpc' = "fork" /\ todo' = {w} /\ UNCHANGED <<reloading, dying, is_cheap, served>>
    BY <1>1, <1>2 DEF Bury, MustRespawn, ChainAfterDeath, history
<1>4. /\ \A v \in Worker \ {w} : worker'[v] = worker[v] /\ proc'[v] = proc[v] /\ sig'[v] = sig[v]
      /\ worker'[w].cheaped = worker[w].cheaped /\ worker'[w].cursed_at = worker[w].cursed_at
      /\ proc'[w] = "none"
    BY <1>0, <1>3 DEF WorkerRecord
<1>5. \A v \in served \ {w} : proc[v] \in Running
    BY <1>2 DEF CalmInv, Retiring
<1>6. ASSUME NEW v \in Worker
      PROVE  Phase(v)' /\ (v # w => worker[v].cursed_at = "never")
  <2>1. CASE v = w
    BY <1>2, <1>3, <1>4, <2>1 DEF Phase, Replaced
  <2>2. CASE v # w
    <3>1. Phase(v)
        BY DEF CalmInv
    <3>2. worker[v].cheaped = 0 /\ (Serving(v) \/ Starting(v))
        BY <1>1, <1>2, <2>2, <3>1 DEF Phase, Replaced, Retiring
    <3>3. Starting(v) => v \notin served
        BY <1>5, <2>2 DEF Starting, Running, Booting
    <3>4. worker'[v] = worker[v] /\ proc'[v] = proc[v] /\ sig'[v] = sig[v] /\ served' = served
        BY <1>3, <1>4, <2>2
    <3> QED
        BY <3>2, <3>3, <3>4 DEF Phase, Serving, Starting
  <2> QED
    BY <2>1, <2>2
<1>7. ASSUME NEW u \in Worker, worker'[u].cursed_at # "never", NEW v \in served' \ {u}
      PROVE  proc'[v] \in Running
    BY <1>0, <1>3, <1>4, <1>5, <1>6, <1>7
<1> QED
    BY <1>1, <1>3, <1>6, <1>7 DEF CalmInv

\* It is forked again, and the chain waits for it.
LEMMA CalmFork ==
    ASSUME TypeOK, SlotInv, CalmInv, NEW w \in Worker, Fork(w)
    PROVE  CalmInv'
<1>0. worker \in [Worker -> WorkerRecord] /\ proc \in [Worker -> Process] /\ served \subseteq Worker
      /\ sig \in [Worker -> SUBSET {"HUP", "INT", "WINCH"}] /\ todo \subseteq Nat
    BY DEF TypeOK, TableOK, LoopOK, Worker
<1>1. /\ mpc = "fork" /\ mpc' = "setpid" /\ w = Least(todo) /\ todo # {} /\ todo' = todo
      /\ UNCHANGED <<status, served>>
    BY DEF Fork
<1>2. proc[w] = "none" /\ Phase(w)
    BY <1>0, <1>1, LeastFirst DEF SlotInv, CalmInv
<1>3. todo = {w} /\ chain = w + 1 /\ worker[w].cheaped = 0
    BY <1>2 DEF Phase, Serving, Starting, Replaced, Retiring, Running, Booting
<1>4. /\ \A v \in Worker \ {w} : worker'[v] = worker[v] /\ proc'[v] = proc[v] /\ sig'[v] = sig[v]
      /\ worker'[w].cheaped = 0 /\ worker'[w].cursed_at = "never" /\ worker'[w].accepting = 0
      /\ proc'[w] = "fork" /\ sig'[w] = {}
    BY <1>0 DEF Fork, Respawned, WorkerRecord
<1>5. ASSUME NEW v \in Worker
      PROVE  Phase(v)' /\ worker'[v].cursed_at = "never"
  <2>1. CASE v = w
    BY <1>1, <1>3, <1>4, <2>1 DEF Phase, Starting, Booting, status
  <2>2. CASE v # w
    <3>1. Phase(v) /\ ~Replaced(v) /\ ~Retiring(v)
        BY <1>1, <1>3, <2>2 DEF CalmInv, Replaced, Retiring
    <3>2. worker'[v] = worker[v] /\ proc'[v] = proc[v] /\ sig'[v] = sig[v]
        BY <1>4, <2>2
    <3> QED
        BY <1>1, <3>1, <3>2 DEF Phase, Serving, Starting, status
  <2> QED
    BY <2>1, <2>2
<1> QED
    BY <1>1, <1>5 DEF CalmInv, status

\* Its pid becomes known.
LEMMA CalmSetPid ==
    ASSUME TypeOK, SlotInv, CalmInv, NEW w \in Worker, SetPid(w)
    PROVE  CalmInv'
<1>0. worker \in [Worker -> WorkerRecord] /\ todo \subseteq Worker /\ mret \in {"check", "waitpid"}
    BY DEF TypeOK, TableOK, LoopOK
<1>1. /\ mpc = "setpid" /\ w = Least(todo) /\ mpc' = IF todo = {w} THEN mret ELSE "fork"
      /\ UNCHANGED <<proc, sig, status, served>>
    BY DEF SetPid, NextRespawn, history
<1>2. \A v \in Worker : Phase(v) /\ ~Replaced(v) /\ proc[v] # "none"
  <2>1. ASSUME NEW v \in Worker
        PROVE  Phase(v) /\ ~Replaced(v)
    BY <1>1 DEF CalmInv, Replaced
  <2> QED
    BY <2>1 DEF Phase, Serving, Starting, Retiring, Running, Booting
<1>3. todo = {w}
  <2>1. todo # {} /\ \A v \in todo \ {w} : proc[v] = "none"
    BY <1>1 DEF SlotInv
  <2> QED
    BY <1>0, <1>2, <2>1
<1>4. \A v \in Worker : /\ worker'[v].accepting = worker[v].accepting
                        /\ worker'[v].cheaped = worker[v].cheaped
                        /\ worker'[v].cursed_at = worker[v].cursed_at
                        /\ worker'[v].manage_next_request = worker[v].manage_next_request
    BY <1>0 DEF SetPid, WorkerRecord
<1>5. ASSUME NEW v \in Worker
      PROVE  Phase(v)'
    BY <1>0, <1>1, <1>2, <1>3, <1>4 DEF Phase, Serving, Starting, Retiring, status
<1>6. mpc' \notin {"blocked", "exited", "exec"}
    BY <1>0, <1>1, <1>3
<1> QED
    BY <1>1, <1>4, <1>5, <1>6 DEF CalmInv, status

\* A chain reload starts with those that serve.
LEMMA CalmCommand ==
    ASSUME OnlyChainStops, TypeOK, CalmInv, FifoCommand
    PROVE  CalmInv'
<1>1. ChainReload /\ mpc = "tasks" /\ mpc' = "check"
    BY DEF FifoCommand, OnlyChainStops, Command
<1>2. CASE chain # 0
    BY <1>1, <1>2, CalmTurn DEF ChainReload, status
<1>3. CASE chain = 0
  <2>1. /\ chain' = 1 /\ served' = {w \in Worker : proc[w] \in Running}
        /\ UNCHANGED <<worker, proc, sig, reloading, dying, is_cheap>>
    BY <1>1, <1>3 DEF ChainReload
  <2>2. \A w \in Worker : worker[w].cheaped = 0 /\ (Serving(w) \/ Starting(w))
    BY <1>1, <1>3 DEF CalmInv, Phase, Replaced, Retiring, Worker
  <2>3. \A w \in Worker : Starting(w) => w \notin served'
    BY <2>1 DEF Starting, Running, Booting
  <2>4. ASSUME NEW w \in Worker
        PROVE  Phase(w)'
    BY <2>1, <2>2, <2>3 DEF Phase, Serving, Starting
  <2>5. \A w \in Worker : worker'[w].cursed_at = "never"
    BY <2>1, <2>2 DEF Serving, Starting
  <2> QED
    BY <1>1, <2>1, <2>4, <2>5 DEF CalmInv
<1> QED
    BY <1>2, <1>3

\* The phases are kept by every step.
LEMMA CalmNext ==
    ASSUME OnlyChainStops, TypeOK, SlotInv, ChainInv, CalmInv, [Next]_vars
    PROVE  CalmInv'
<1>0. faults \in 0 .. MaxFaults /\ proc \in [Worker -> Process] /\ 1 \in Worker
    BY ConfigAssumption DEF TypeOK, TableOK, LoopOK, Worker
<1>1. CASE CheckEnd \/ CheaperNone \/ NothingDue
    BY <1>1, CalmTurn DEF CheckEnd, CheaperNone, NothingDue, history, CalmInv
<1>2. CASE NobodyDied
  <2>1. proc[1] # "none"
    BY <1>0, <1>2 DEF NobodyDied, CalmInv, Phase, Serving, Starting, Replaced, Retiring, Running, Booting
  <2>2. worker' = worker
    BY <1>0, <1>2, <2>1, Zenon DEF NobodyDied
  <2>3. mpc = "waitpid" /\ mpc' = "tasks" /\ UNCHANGED <<proc, sig, status, served>>
    BY <1>2 DEF NobodyDied, history
  <2> QED
    BY <2>2, <2>3, CalmTurn
<1>3. ~CheaperSpawn /\ ~CheaperCheap /\ ~CheckIdle /\ ~WakeFromCheap /\ ~BlockedWait
  <2>1. ~CheaperSpawn /\ ~CheaperCheap
    BY DEF CheaperSpawn, CheaperCheap, CheaperActive, OnlyChainStops
  <2>2. ~CheckIdle /\ ~WakeFromCheap /\ ~BlockedWait
    BY DEF CheckIdle, WakeFromCheap, BlockedWait, OnlyChainStops, CalmInv
  <2> QED
    BY <2>1, <2>2
<1>4. \A w \in Worker : ~ForkFails(w) /\ ~Harakiri(w)
    BY <1>0 DEF ForkFails, Harakiri, OnlyChainStops
<1>5. ~UnixSignal /\ ~Over
    BY DEF UnixSignal, Over, OnlyChainStops, CalmInv
<1>6. CASE UNCHANGED vars
  <2>1. ASSUME NEW w \in Worker
        PROVE  Phase(w)'
    <3>1. Phase(w)
        BY DEF CalmInv
    <3> QED
        BY <1>6, <3>1 DEF Phase, Serving, Starting, Replaced, Retiring, vars
  <2> QED
    BY <1>6, <2>1 DEF CalmInv, vars
<1> QED
    BY <1>1, <1>2, <1>3, <1>4, <1>5, <1>6, CalmWorkers, CalmChain, CalmMercy, CalmBury, CalmFork,
       CalmSetPid, CalmCommand DEF Next, MasterNext

\* At the chain check only the chain curses.
LEMMA CalmCurses ==
    ASSUME OnlyChainStops, TypeOK, SlotInv, ChainInv, CalmInv, [Next]_vars, mpc = "chain",
           NEW w \in Worker, worker[w].cursed_at = "never", worker'[w].cursed_at # "never"
    PROVE  \A v \in served \ {w} : proc[v] \in Running /\ worker[v].accepting = 1
<1>0. worker \in [Worker -> WorkerRecord] /\ faults \in 0 .. MaxFaults
    BY DEF TypeOK, TableOK, LoopOK
<1>1. ~\E u \in Worker : WorkerNext(u)
  <2>1. ASSUME NEW u \in Worker, WorkerNext(u)
        PROVE  FALSE
    <3>1. Phase(u)
        BY DEF CalmInv
    <3>2. ~InheritedHandler(u)
        BY <3>1 DEF InheritedHandler, Phase, Serving, Starting, Replaced, Retiring, Booting, Running
    <3>3. worker'[w].cursed_at = worker[w].cursed_at \/ MercyExpires(u)
        BY <1>0, <2>1, <3>2 DEF WorkerNext, ChildStart, Ignition, LoopHead, AcceptRequest, CloseRequest,
           GracefullyKill, EndMe, Wakeup, Fail, WorkerRecord, OnlyChainStops
    <3>4. CASE MercyExpires(u)
        BY <1>0, <3>4 DEF MercyExpires, WorkerRecord
    <3> QED
        BY <3>3, <3>4
  <2> QED
    BY <2>1
<1>2. ~UnixSignal /\ ~Over
    BY DEF UnixSignal, Over, OnlyChainStops
<1>3. MasterNext => CheckChain
    BY DEF MasterNext, CheckEnd, CheckMercy, CheaperNone, CheaperSpawn, CheaperCheap, Bury, Fork,
       ForkFails, SetPid, Harakiri, NobodyDied, NothingDue, FifoCommand, BlockedWait, CheckIdle,
       WakeFromCheap
<1>4. CheckChain
    BY <1>1, <1>2, <1>3 DEF Next, vars
<1> QED
    BY <1>4, CalmChain

\* While nothing else stops workers: at any moment at most one worker that served when the chain
\* reload started does not serve, the one it has cursed (uwsgi_master_check_chain).
THEOREM MasterCalm ==
    ASSUME OnlyChainStops
    PROVE  Spec => []CalmInv
<1>1. Init => CalmInv
    BY DEF Init, CalmInv, Phase, Starting, Booting
<1>2. TypeOK /\ SlotInv /\ ChainInv /\ CalmInv /\ [Next]_vars => CalmInv'
    BY CalmNext
<1> QED
    BY <1>1, <1>2, MasterTypeCorrect, MasterSlots, MasterChain, PTL DEF Spec

\* While nothing else stops workers: uwsgi_master_check_chain takes a worker down only when all the
\* others that served at its start serve again, for every number of workers.
THEOREM MasterChainOneAtATime ==
    ASSUME OnlyChainStops
    PROVE  Spec => ChainOneAtATime
<1>1. TypeOK /\ SlotInv /\ ChainInv /\ CalmInv /\ [Next]_vars =>
        [\A w \in Worker :
           /\ mpc = "chain"
           /\ worker[w].cursed_at = "never" /\ worker'[w].cursed_at # "never"
           => \A v \in served \ {w} : proc[v] \in Running /\ worker[v].accepting = 1]_vars
    BY CalmCurses
<1> QED
    BY <1>1, MasterTypeCorrect, MasterSlots, MasterChain, MasterCalm, PTL DEF Spec, ChainOneAtATime
=============================================================================
