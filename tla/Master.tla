------------------------------- MODULE Master -------------------------------
(* The master process and its workers: the loop of core/master.c, the checks *)
(* of core/master_checks.c, uwsgi_respawn_worker and the reload / shutdown   *)
(* handlers of core/uwsgi.c, against single-threaded workers running         *)
(* simple_loop_run.  The shared worker table (struct uwsgi_worker) is        *)
(* written by the master and by the workers; signals are delivered           *)
(* asynchronously on both sides.                                             *)
EXTENDS Naturals, FiniteSets

CONSTANTS
    NumProc,       \* uwsgi.numproc
    CheaperCount,  \* uwsgi.cheaper_count, 0 when --cheaper is off
    NeedApp,       \* --need-app with --lazy-apps
    Idle,          \* --idle
    Recycle,       \* --max-requests: a worker may retire after a request
    FifoCommands,  \* commands the operator may send through the master FIFO
    UnixCommands,  \* commands the operator may send as UNIX signals
    MaxCommands,   \* bound: commands in one run
    MaxFaults      \* bound: crashes, harakiri, failed forks, failed app loads

AllCommands == {"reload", "brutal_reload", "kill", "graceful_kill",
                "workers_reload", "workers_brutal", "chain", "go_cheap"}

ASSUME ConfigAssumption ==
    /\ NumProc \in Nat \ {0}
    /\ CheaperCount \in 0 .. NumProc
    /\ NeedApp \in BOOLEAN /\ Idle \in BOOLEAN /\ Recycle \in BOOLEAN
    /\ FifoCommands \subseteq AllCommands
    /\ UnixCommands \subseteq {"reload", "brutal_reload", "kill"}
    /\ MaxCommands \in Nat /\ MaxFaults \in Nat

Worker == 1 .. NumProc

VARIABLES
    worker,        \* the shared table, one record per worker
    proc,          \* what the process of each slot is doing
    sig,           \* signals sent to it and not yet handled
    own,           \* status flags it has in its own copy of `uwsgi'
    reloading,     \* uwsgi_instance_is_reloading
    dying,         \* uwsgi_instance_is_dying
    chain,         \* uwsgi.status.chain_reloading
    is_cheap,      \* uwsgi.status.is_cheap
    mpc,           \* where the master is in its loop
    mret,          \* where it goes on after respawning
    todo,          \* workers it still has to respawn, or to wait for
    commands, faults,  \* bounded counters
    served,        \* workers that were serving when the chain reload started
    old,           \* those of them it still has to replace
    lost           \* workers whose last fork() failed

vars == <<worker, proc, sig, own, reloading, dying, chain, is_cheap,
          mpc, mret, todo, commands, faults, served, old, lost>>

status == <<reloading, dying, chain, is_cheap>>
master == <<mpc, mret, todo>>
bounds == <<commands, faults>>
history == <<served, old, lost>>

\* The fields of struct uwsgi_worker that the control flow reads.  cursed_at is
\* "late" once uwsgi_now() > no_mercy_at.
WorkerRecord == [pid : {0, 1}, accepting : {0, 1}, cheaped : {0, 1},
                 manage_next_request : {0, 1},
                 cursed_at : {"never", "mercy", "late"}]

\* "fork": forked, still a copy of the master; "boot": loading apps, still with
\* the master's signal handlers; "loop", "wait", "request": in simple_loop_run;
\* "exited", "failed", "brutal": zombies with an exit status.
Zombie == {"exited", "failed", "brutal"}
Booting == {"fork", "boot"}
Running == {"loop", "wait", "request"}
Process == {"none"} \cup Booting \cup Running \cup Zombie

MasterPC == {"check", "chain", "mercy", "cheaper", "waitpid", "tasks",
             "fork", "setpid", "blocked", "exited", "exec"}

Alive(w) == proc[w] \in Booting \cup Running
Known == {w \in Worker : worker[w].pid = 1}

Least(S) == CHOOSE w \in S : \A v \in S : w <= v

Init ==
    /\ worker = [w \in Worker |->
                   [pid |-> 1, accepting |-> 0, cheaped |-> 0,
                    manage_next_request |-> 1, cursed_at |-> "never"]]
    /\ proc = [w \in Worker |-> "boot"]
    /\ sig = [w \in Worker |-> {}]
    /\ own = [w \in Worker |-> {}]
    /\ reloading = FALSE /\ dying = FALSE /\ chain = 0 /\ is_cheap = FALSE
    /\ mpc = "check" /\ mret = "check" /\ todo = {}
    /\ commands = 0 /\ faults = 0
    /\ served = {} /\ old = {} /\ lost = {}

-----------------------------------------------------------------------------
(* Signals                                                                   *)

\* uwsgi_curse marks the worker and restarts its mercy; kill() reaches only a
\* process that still exists.
Cursed(S) == [w \in Worker |->
                IF w \in S THEN [worker[w] EXCEPT !.cursed_at = "mercy"]
                           ELSE worker[w]]

Signalled(S, s) == [w \in Worker |->
                      IF w \in S /\ Alive(w) THEN sig[w] \cup {s} ELSE sig[w]]

CurseAll(s) ==
    /\ worker' = Cursed(Known)
    /\ sig' = Signalled(Known, s)

\* SIGKILL is not handled by anyone.
Killed(S) == [w \in Worker |->
                IF w \in S /\ Alive(w) THEN "exited" ELSE proc[w]]

-----------------------------------------------------------------------------
(* The worker                                                                *)

\* The child of uwsgi_respawn_worker marks itself as serving.
ChildStart(w) ==
    /\ proc[w] = "fork"
    /\ proc' = [proc EXCEPT ![w] = "boot"]
    /\ worker' = [worker EXCEPT ![w].manage_next_request = 1]
    /\ UNCHANGED <<sig, own, status, master, bounds, history>>

\* uwsgi_worker_run: apps are loaded, the worker installs its own handlers and
\* uwsgi_ignition marks it as accepting.
Ignition(w) ==
    /\ proc[w] = "boot"
    /\ proc' = [proc EXCEPT ![w] = "loop"]
    /\ worker' = [worker EXCEPT ![w].accepting = 1]
    /\ own' = [own EXCEPT ![w] = {}]
    /\ UNCHANGED <<sig, status, master, bounds, history>>

\* The head of simple_loop_run, with the recheck of wsgi_req_accept.
LoopHead(w) ==
    /\ proc[w] = "loop"
    /\ proc' = [proc EXCEPT ![w] = IF worker[w].manage_next_request = 1
                                   THEN "wait" ELSE "exited"]
    /\ UNCHANGED <<worker, sig, own, status, master, bounds, history>>

AcceptRequest(w) ==
    /\ proc[w] = "wait"
    /\ proc' = [proc EXCEPT ![w] = "request"]
    /\ UNCHANGED <<worker, sig, own, status, master, bounds, history>>

\* uwsgi_close_request; with max-requests reached goodbye_cruel_world curses the
\* worker itself, without a signal.
CloseRequest(w) ==
    /\ proc[w] = "request"
    /\ proc' = [proc EXCEPT ![w] = "loop"]
    /\ \/ UNCHANGED worker
       \/ /\ Recycle
          /\ worker' = [worker EXCEPT ![w].manage_next_request = 0,
                                      ![w].cursed_at = "mercy"]
    /\ UNCHANGED <<sig, own, status, master, bounds, history>>

Consume(w, s) ==
    /\ s \in sig[w]
    /\ sig' = [sig EXCEPT ![w] = @ \ {s}]

\* SIGHUP in a running worker: gracefully_kill.
GracefullyKill(w) ==
    /\ proc[w] \in Running
    /\ Consume(w, "HUP")
    /\ worker' = [worker EXCEPT ![w].manage_next_request = 0]
    /\ proc' = [proc EXCEPT ![w] = IF proc[w] = "request" THEN "request"
                                                          ELSE "exited"]
    /\ UNCHANGED <<own, status, master, bounds, history>>

\* SIGINT or SIGTERM in a running worker: end_me.
EndMe(w) ==
    /\ proc[w] \in Running
    /\ Consume(w, "INT")
    /\ proc' = [proc EXCEPT ![w] = "exited"]
    /\ UNCHANGED <<worker, own, status, master, bounds, history>>

\* SIGWINCH: worker_wakeup only interrupts the wait for an event.
Wakeup(w) ==
    /\ proc[w] \in Running \cup Booting
    /\ Consume(w, "WINCH")
    /\ proc' = [proc EXCEPT ![w] = IF proc[w] = "wait" THEN "loop" ELSE proc[w]]
    /\ UNCHANGED <<worker, own, status, master, bounds, history>>

\* A worker that is still booting runs the handlers it inherited from the
\* master, on its own copy of the status flags and the shared worker table: it
\* curses every worker and does not exit.  (The signal it sends to itself is
\* delivered as soon as the handler returns, and ignored.)
InheritedHandler(w) ==
    /\ proc[w] \in Booting
    /\ \E s \in sig[w] \cap {"HUP", "INT"} :
         LET flag == IF s = "HUP" THEN "reloading" ELSE "dying"
             ignored == IF s = "HUP" THEN own[w] # {} ELSE "dying" \in own[w]
             rest == [sig EXCEPT ![w] = @ \ {s}]
         IN  IF ignored
             THEN /\ sig' = rest
                  /\ UNCHANGED <<worker, own>>
             ELSE /\ own' = [own EXCEPT ![w] = @ \cup {flag}]
                  /\ worker' = Cursed(Known)
                  /\ sig' = [v \in Worker |->
                               IF v \in Known \ {w} /\ Alive(v)
                               THEN rest[v] \cup {s} ELSE rest[v]]
    /\ UNCHANGED <<proc, status, master, bounds, history>>

\* A crash, a failed app load, or a worker that reports an inconsistent state.
Fail(w) ==
    /\ faults < MaxFaults
    /\ faults' = faults + 1
    /\ \/ /\ proc[w] = "boot"
          /\ proc' = [proc EXCEPT ![w] = "failed"]
       \/ /\ proc[w] = "request"
          /\ \E z \in {"exited", "brutal"} : proc' = [proc EXCEPT ![w] = z]
    /\ UNCHANGED <<worker, sig, own, status, master, commands, history>>

\* no_mercy_at passes: a mercy is far longer than the delivery of a signal.
MercyExpires(w) ==
    /\ worker[w].cursed_at = "mercy"
    /\ \A v \in Worker : Alive(v) => sig[v] = {}
    /\ worker' = [worker EXCEPT ![w].cursed_at = "late"]
    /\ UNCHANGED <<proc, sig, own, status, master, bounds, history>>

-----------------------------------------------------------------------------
(* Commands: the handlers of core/uwsgi.c and core/master.c                  *)

\* kill_them_all
KillThemAll ==
    /\ IF dying THEN UNCHANGED <<worker, sig, dying>>
                ELSE dying' = TRUE /\ CurseAll("INT")
    /\ UNCHANGED <<proc, reloading, chain, is_cheap, served, old>>

\* gracefully_kill_them_all: after the curses it waits for one worker after the
\* other (BlockedWait), inside the handler.
GracefullyKillThemAll ==
    /\ IF dying THEN UNCHANGED <<worker, sig, dying>>
                ELSE dying' = TRUE /\ CurseAll("HUP")
    /\ UNCHANGED <<proc, reloading, chain, is_cheap, served, old>>

\* Mutant: the workers are signalled but not cursed.
GraceThemAllUncursed ==
    /\ IF reloading \/ dying THEN UNCHANGED <<sig, reloading>>
                             ELSE reloading' = TRUE /\ sig' = Signalled(Known, "HUP")
    /\ UNCHANGED <<worker, proc, dying, chain, is_cheap, served, old>>

\* grace_them_all
GraceThemAll ==
    /\ IF reloading \/ dying THEN UNCHANGED <<worker, sig, reloading>>
                             ELSE reloading' = TRUE /\ CurseAll("HUP")
    /\ UNCHANGED <<proc, dying, chain, is_cheap, served, old>>

\* reap_them_all
ReapThemAll ==
    /\ IF reloading THEN UNCHANGED <<worker, sig, reloading>>
                    ELSE reloading' = TRUE /\ CurseAll("INT")
    /\ UNCHANGED <<proc, dying, chain, is_cheap, served, old>>

\* uwsgi_reload_workers and uwsgi_brutally_reload_workers
ReloadWorkers(s) ==
    /\ CurseAll(s)
    /\ UNCHANGED <<proc, status, served, old>>

\* uwsgi_chain_reload
ChainReload ==
    /\ IF chain # 0 THEN UNCHANGED <<chain, served, old>>
       ELSE /\ chain' = 1
            /\ served' = {w \in Worker : proc[w] \in Running}
            /\ old' = served'
    /\ UNCHANGED <<worker, proc, sig, reloading, dying, is_cheap>>

\* uwsgi_go_cheap: SIGKILL and waitpid() for each worker; pid is not reset.
GoCheap ==
    /\ IF is_cheap THEN UNCHANGED <<worker, proc, sig, is_cheap>>
       ELSE /\ is_cheap' = TRUE
            /\ worker' = [w \in Worker |-> [worker[w] EXCEPT !.cheaped = 1]]
            /\ proc' = [w \in Worker |-> IF w \in Known THEN "none" ELSE proc[w]]
            /\ sig' = [w \in Worker |-> {}]
    /\ UNCHANGED <<reloading, dying, chain, served, old>>

Command(c) ==
    \/ c = "reload" /\ GraceThemAll
    \/ c = "brutal_reload" /\ ReapThemAll
    \/ c = "kill" /\ KillThemAll
    \/ c = "graceful_kill" /\ GracefullyKillThemAll
    \/ c = "workers_reload" /\ ReloadWorkers("HUP")
    \/ c = "workers_brutal" /\ ReloadWorkers("INT")
    \/ c = "chain" /\ ChainReload
    \/ c = "go_cheap" /\ GoCheap

\* SIGHUP, SIGQUIT, SIGTERM and SIGINT interrupt the master anywhere; without
\* SA_RESTART a blocked waitpid() ends with EINTR.
UnixSignal ==
    /\ mpc \notin {"exited", "exec"}
    /\ commands < MaxCommands
    /\ commands' = commands + 1
    /\ \E c \in UnixCommands : Command(c)
    /\ todo' = IF mpc = "blocked" /\ todo # {} THEN todo \ {Least(todo)} ELSE todo
    /\ UNCHANGED <<own, mpc, mret, faults, lost>>

-----------------------------------------------------------------------------
(* The master loop                                                           *)

\* Mutant: the last worker of the table is not looked at.
CheckEndOffByOne ==
    /\ mpc = "check"
    /\ mpc' = IF dying /\ Known \ {NumProc} = {} THEN "exited"
              ELSE IF reloading /\ Known \ {NumProc} = {} THEN "exec"
              ELSE "chain"
    /\ UNCHANGED <<worker, proc, sig, own, status, mret, todo, bounds, history>>

\* uwsgi_master_check_death ("before reload !!!") and uwsgi_master_check_reload
CheckEnd ==
    /\ mpc = "check"
    /\ mpc' = IF dying /\ Known = {} THEN "exited"
              ELSE IF reloading /\ Known = {} THEN "exec"
              ELSE "chain"
    /\ UNCHANGED <<worker, proc, sig, own, status, mret, todo, bounds, history>>

\* Mutant: the chain goes on at once.
ChainNeverWaits == FALSE

\* The chain waits while the worker it replaced last is not accepting again.
ChainWaits ==
    /\ chain > 1
    /\ worker[chain - 1].pid = 1
    /\ worker[chain - 1].cheaped = 0
    /\ worker[chain - 1].accepting = 0

\* Workers that are gone, cheaped or not accepting are skipped.
ChainVictims == {w \in Worker : /\ w >= chain
                                /\ worker[w].pid = 1
                                /\ worker[w].cheaped = 0
                                /\ worker[w].accepting = 1}

\* Mutant: the loop over the workers runs one step too far.
ChainNextTooFar == IF ChainVictims = {} THEN NumProc + 2 ELSE Least(ChainVictims)

ChainNext == IF ChainVictims = {} THEN NumProc + 1 ELSE Least(ChainVictims)

\* uwsgi_master_check_chain
CheckChain ==
    /\ mpc = "chain"
    /\ mpc' = "mercy"
    /\ \/ /\ chain = 0 \/ ChainWaits
          /\ UNCHANGED <<worker, sig, chain>>
       \/ /\ chain > NumProc /\ ~ChainWaits
          /\ chain' = 0
          /\ UNCHANGED <<worker, sig>>
       \/ /\ chain \in Worker /\ ~ChainWaits
          /\ chain' = ChainNext
          /\ LET victim == {w \in ChainVictims : /\ w = ChainNext
                                                /\ worker[w].cursed_at = "never"}
             IN  /\ worker' = Cursed(victim)
                 /\ sig' = Signalled(victim, "HUP")
    /\ UNCHANGED <<proc, own, reloading, dying, is_cheap, mret, todo, bounds,
                   history>>

\* Mutant: nobody is killed.
CheckMercyForgiving ==
    /\ mpc = "mercy"
    /\ mpc' = "cheaper"
    /\ UNCHANGED <<worker, proc, sig, own, status, mret, todo, bounds, history>>

\* uwsgi_master_check_mercy
CheckMercy ==
    /\ mpc = "mercy"
    /\ mpc' = "cheaper"
    /\ LET late == {w \in Known : worker[w].cursed_at = "late"}
       IN  /\ worker' = Cursed(late)
           /\ proc' = Killed(late)
    /\ UNCHANGED <<sig, own, status, mret, todo, bounds, history>>

\* uwsgi_calc_cheaper with needed_workers in {-1, 0, 1}, whatever the algorithm.
CheaperActive == CheaperCount > 0 /\ ~is_cheap /\ ~reloading /\ ~dying

CheaperNone ==
    /\ mpc = "cheaper"
    /\ mpc' = "waitpid"
    /\ UNCHANGED <<worker, proc, sig, own, status, mret, todo, bounds, history>>

\* Mutant: a cheaped slot is reused while its process is still going away.
CheaperSpawnEarly ==
    /\ mpc = "cheaper"
    /\ CheaperActive
    /\ LET free == {w \in Worker : worker[w].cheaped = 1}
       IN  free # {} /\ todo' = {Least(free)}
    /\ mpc' = "fork" /\ mret' = "waitpid"
    /\ UNCHANGED <<worker, proc, sig, own, status, bounds, history>>

CheaperSpawn ==
    /\ mpc = "cheaper"
    /\ CheaperActive
    /\ LET free == {w \in Worker : worker[w].cheaped = 1 /\ worker[w].pid = 0}
       IN  free # {} /\ todo' = {Least(free)}
    /\ mpc' = "fork" /\ mret' = "waitpid"
    /\ UNCHANGED <<worker, proc, sig, own, status, bounds, history>>

\* Any worker that is not busy may be the one that was spawned first.
CheaperCheap ==
    /\ mpc = "cheaper"
    /\ CheaperActive
    /\ \E w \in Known :
         /\ worker[w].cheaped = 0
         /\ proc[w] # "request"
         /\ worker' = [worker EXCEPT ![w].cheaped = 1,
                                     ![w].manage_next_request = 0,
                                     ![w].cursed_at = "mercy"]
         /\ sig' = Signalled({w}, "WINCH")
    /\ mpc' = "waitpid"
    /\ UNCHANGED <<proc, own, status, mret, todo, bounds, history>>

\* Mutants: any death, or no death, moves the chain on.
ChainAfterAnyDeath(w) == IF chain \in Worker THEN chain + 1 ELSE chain
ChainAfterNoDeath(w) == chain

ChainAfterDeath(w) == IF chain = w THEN chain + 1 ELSE chain

\* Mutant: a worker that retired is not respawned.
MustRespawnServing(w) == worker[w].cheaped # 1 /\ worker[w].manage_next_request = 1

MustRespawn(w) == worker[w].cheaped # 1

\* waitpid() returned worker w: the master buries or respawns it.
Bury(w) ==
    /\ mpc = "waitpid"
    /\ proc[w] \in Zombie
    /\ proc' = [proc EXCEPT ![w] = "none"]
    /\ UNCHANGED <<own, is_cheap, bounds, history>>
    /\ LET dead == [worker EXCEPT ![w].pid = 0]
           others == Known \ {w}
           curse(s) == /\ worker' = [v \in Worker |->
                                       IF v \in others
                                       THEN [dead[v] EXCEPT !.cursed_at = "mercy"]
                                       ELSE dead[v]]
                       /\ sig' = [Signalled(others, s) EXCEPT ![w] = {}]
           quietly == /\ worker' = dead
                      /\ sig' = [sig EXCEPT ![w] = {}]
           again == mpc' = "check" /\ UNCHANGED <<mret, todo>>
       IN  \/ /\ proc[w] = "failed" /\ NeedApp
              /\ IF dying THEN quietly ELSE curse("INT")
              /\ dying' = TRUE
              /\ again /\ UNCHANGED <<reloading, chain>>
           \/ /\ ~(proc[w] = "failed" /\ NeedApp)
              /\ reloading \/ dying
              /\ worker' = [dead EXCEPT ![w].cursed_at = "never"]
              /\ sig' = [sig EXCEPT ![w] = {}]
              /\ again /\ UNCHANGED <<reloading, dying, chain>>
           \/ /\ proc[w] = "brutal"
              /\ ~reloading /\ ~dying
              /\ curse("INT")
              /\ reloading' = TRUE
              /\ again /\ UNCHANGED <<dying, chain>>
           \/ /\ ~(proc[w] = "failed" /\ NeedApp) /\ proc[w] # "brutal"
              /\ ~reloading /\ ~dying
              /\ quietly
              /\ IF MustRespawn(w)
                 THEN /\ chain' = ChainAfterDeath(w)
                      /\ mpc' = "fork" /\ mret' = "check" /\ todo' = {w}
                 ELSE again /\ UNCHANGED chain
              /\ UNCHANGED <<reloading, dying>>

\* uwsgi_respawn_worker up to fork(); a failed fork leaves the slot empty.
Respawned(w) == [worker EXCEPT ![w].accepting = 0, ![w].cheaped = 0,
                               ![w].cursed_at = "never"]

Fork(w) ==
    /\ mpc = "fork"
    /\ todo # {} /\ w = Least(todo)
    /\ worker' = Respawned(w)
    /\ proc' = [proc EXCEPT ![w] = "fork"]
    /\ sig' = [sig EXCEPT ![w] = {}]
    /\ own' = [own EXCEPT ![w] = (IF reloading THEN {"reloading"} ELSE {})
                                  \cup (IF dying THEN {"dying"} ELSE {})]
    /\ old' = old \ {w} /\ lost' = lost \ {w}
    /\ mpc' = "setpid"
    /\ UNCHANGED <<status, mret, todo, bounds, served>>

NextRespawn(w) ==
    /\ todo' = todo \ {w}
    /\ mpc' = IF todo = {w} THEN mret ELSE "fork"

ForkFails(w) ==
    /\ mpc = "fork"
    /\ todo # {} /\ w = Least(todo)
    /\ faults < MaxFaults
    /\ faults' = faults + 1
    /\ worker' = Respawned(w)
    /\ NextRespawn(w)
    /\ lost' = lost \cup {w}
    /\ UNCHANGED <<proc, sig, own, status, mret, commands, served, old>>

\* ... and after fork(), where the pid becomes known to the master.
SetPid(w) ==
    /\ mpc = "setpid"
    /\ w = Least(todo)
    /\ worker' = [worker EXCEPT ![w].pid = 1]
    /\ NextRespawn(w)
    /\ UNCHANGED <<proc, sig, own, status, mret, bounds, history>>

\* waitpid() returned 0, or ECHILD: uwsgi_master_commit_status.
NobodyDied ==
    /\ mpc = "waitpid"
    /\ \A w \in Worker : proc[w] \notin Zombie
    /\ worker' = IF \E w \in Worker : proc[w] # "none" THEN worker
                 ELSE [w \in Worker |-> [worker[w] EXCEPT !.pid = 0]]
    /\ mpc' = "tasks"
    /\ UNCHANGED <<proc, sig, own, status, mret, todo, bounds, history>>

\* The standard tasks of a cycle in which nothing is due.
NothingDue ==
    /\ mpc = "tasks"
    /\ mpc' = "check"
    /\ UNCHANGED <<worker, proc, sig, own, status, mret, todo, bounds, history>>

\* uwsgi_master_fifo_manage
FifoCommand ==
    /\ mpc = "tasks"
    /\ commands < MaxCommands
    /\ commands' = commands + 1
    /\ \E c \in FifoCommands :
         /\ Command(c)
         /\ IF c = "graceful_kill" /\ ~dying
            THEN mpc' = "blocked" /\ todo' = Known
            ELSE mpc' = "check" /\ UNCHANGED todo
    /\ UNCHANGED <<own, mret, faults, lost>>

\* The waitpid() loop inside gracefully_kill_them_all; pid is not reset.
BlockedWait ==
    /\ mpc = "blocked"
    /\ IF todo = {}
       THEN /\ mpc' = "check"
            /\ UNCHANGED <<proc, sig, todo>>
       ELSE LET w == Least(todo)
            IN  /\ ~Alive(w)
                /\ proc' = [proc EXCEPT ![w] = "none"]
                /\ sig' = [sig EXCEPT ![w] = {}]
                /\ todo' = todo \ {w}
                /\ UNCHANGED mpc
    /\ UNCHANGED <<worker, own, status, mret, bounds, history>>

\* uwsgi_master_check_workers_deadline: harakiri of a stuck request.
Harakiri(w) ==
    /\ mpc = "tasks"
    /\ proc[w] = "request" /\ worker[w].pid = 1
    /\ faults < MaxFaults /\ faults' = faults + 1
    /\ proc' = Killed({w})
    /\ mpc' = "check"
    /\ UNCHANGED <<worker, sig, own, status, mret, todo, commands, history>>

\* uwsgi_master_check_idle: every worker is stopped and waited for; the pid of a
\* worker that was already waited for elsewhere is not reset.
CheckIdle ==
    /\ mpc = "tasks"
    /\ Idle /\ ~is_cheap
    /\ \A w \in Known : worker[w].cheaped = 0 => proc[w] # "request"
    /\ is_cheap' = TRUE
    /\ worker' = [w \in Worker |->
                    IF proc[w] = "none" THEN [worker[w] EXCEPT !.cheaped = 1]
                    ELSE [worker[w] EXCEPT !.cheaped = 1, !.pid = 0]]
    /\ proc' = [w \in Worker |-> IF w \in Known THEN "none" ELSE proc[w]]
    /\ sig' = [w \in Worker |-> {}]
    /\ mpc' = "check"
    /\ UNCHANGED <<own, reloading, dying, chain, mret, todo, bounds, history>>

\* A connection wakes a cheap instance up (uwsgi_master_manage_events).
WakeFromCheap ==
    /\ mpc = "tasks"
    /\ is_cheap
    /\ is_cheap' = FALSE
    /\ todo' = IF CheaperCount > 0 THEN 1 .. CheaperCount ELSE Worker
    /\ mpc' = "fork" /\ mret' = "check"
    /\ UNCHANGED <<worker, proc, sig, own, reloading, dying, chain, bounds, history>>

-----------------------------------------------------------------------------
WorkerNext(w) ==
    \/ ChildStart(w) \/ Ignition(w) \/ LoopHead(w)
    \/ AcceptRequest(w) \/ CloseRequest(w)
    \/ GracefullyKill(w) \/ EndMe(w) \/ Wakeup(w) \/ InheritedHandler(w)
    \/ Fail(w) \/ MercyExpires(w)

MasterNext ==
    \/ CheckEnd \/ CheckChain \/ CheckMercy
    \/ CheaperNone \/ CheaperSpawn \/ CheaperCheap
    \/ \E w \in Worker : Bury(w) \/ Fork(w) \/ ForkFails(w) \/ SetPid(w)
                         \/ Harakiri(w)
    \/ NobodyDied \/ NothingDue \/ FifoCommand \/ BlockedWait
    \/ CheckIdle \/ WakeFromCheap

\* The master has exited, or has exec()ed a new instance.
Over == mpc \in {"exited", "exec"} /\ UNCHANGED vars

Next == MasterNext \/ UnixSignal \/ Over \/ \E w \in Worker : WorkerNext(w)

Spec == Init /\ [][Next]_vars

\* The master loop keeps running, pending signals are handled, time passes, and
\* a worker outside of the application's code makes progress.  Nothing is
\* assumed of the application: apps may load and requests may run forever.
Fairness ==
    /\ WF_vars(MasterNext)
    /\ \A w \in Worker :
         /\ WF_vars(ChildStart(w)) /\ WF_vars(LoopHead(w))
         /\ WF_vars(GracefullyKill(w)) /\ WF_vars(EndMe(w))
         /\ WF_vars(Wakeup(w)) /\ WF_vars(InheritedHandler(w))
         /\ WF_vars(MercyExpires(w))

FairSpec == Spec /\ Fairness

\* Applications that always finish loading.
LoadingSpec == FairSpec /\ \A w \in Worker : WF_vars(Ignition(w))

-----------------------------------------------------------------------------
TableOK ==
    /\ worker \in [Worker -> WorkerRecord]
    /\ proc \in [Worker -> Process]
    /\ sig \in [Worker -> SUBSET {"HUP", "INT", "WINCH"}]
    /\ own \in [Worker -> SUBSET {"reloading", "dying"}]

StatusOK == reloading \in BOOLEAN /\ dying \in BOOLEAN /\ is_cheap \in BOOLEAN

LoopOK ==
    /\ chain \in 0 .. NumProc + 1
    /\ mpc \in MasterPC
    /\ mret \in {"check", "waitpid"}
    /\ todo \subseteq Worker
    /\ served \subseteq Worker /\ old \subseteq served /\ lost \subseteq Worker
    /\ commands \in 0 .. MaxCommands /\ faults \in 0 .. MaxFaults

\* The shared table, the status flags and the position of the master's loop are
\* well typed; the chain reload never leaves the worker table.
TypeOK == TableOK /\ StatusOK /\ LoopOK

\* When the master exits, or exec()s the next instance over itself, no worker
\* process is left behind: pid = 0 in the shared table means what
\* uwsgi_master_check_death and uwsgi_master_check_reload take it to mean.
NoOrphans ==
    mpc \in {"exited", "exec"} => \A w \in Worker : ~Alive(w)

\* uwsgi_respawn_worker never forks a worker into a slot whose previous process
\* is still running or not yet waited for, whoever asked for the respawn: a
\* death, the cheaper algorithm or the end of cheap mode.
OneProcessPerSlot ==
    [][\A w \in Worker : Fork(w) => proc[w] = "none"]_vars

\* Why: a process the master does not know by its pid exists only between
\* fork() and the assignment that follows it; the slots waiting for a respawn
\* are empty; a cheap instance has no workers.
SlotInv ==
    /\ \A w \in Worker :
         proc[w] # "none" => \/ worker[w].pid = 1
                             \/ mpc = "setpid" /\ w = Least(todo)
    /\ mpc \in {"fork", "setpid"} => todo # {} /\ ~is_cheap
    /\ mpc = "fork" => \A w \in todo : proc[w] = "none"
    /\ mpc = "setpid" => \A w \in todo \ {Least(todo)} : proc[w] = "none"
    /\ is_cheap => \A w \in Worker : proc[w] = "none"
    /\ mpc \in {"exited", "exec"} => \A w \in Worker : proc[w] = "none"

\* When a chain reload is declared complete, every worker that was serving when
\* it started has been replaced or is gone.
ChainReplacesAll ==
    [][chain # 0 /\ chain' = 0 =>
         \A w \in old : ~Alive(w) \/ worker[w].cheaped = 1]_vars

\* "we need to ensure the previous worker (if alive) is accepting new requests
\* before going on": while nothing else stops workers, a chain reload takes a
\* worker down only when all the others that served at its start do serve.
ChainOneAtATime ==
    [][\A w \in Worker :
         /\ mpc = "chain"
         /\ worker[w].cursed_at = "never" /\ worker'[w].cursed_at # "never"
         => \A v \in served \ {w} : proc[v] \in Running /\ worker[v].accepting = 1]_vars

\* A chain reload ends once every worker finishes loading its apps: each death
\* moves it on, and a worker that does not obey SIGHUP falls to the mercy.
ChainEnds == chain # 0 ~> chain = 0 \/ reloading \/ dying

\* A shutdown ends: whatever the workers do, the mercy of the master is finite
\* (worker-reload-mercy, "the maximum time (in seconds) a worker can take to
\* reload/shutdown").
ShutdownEnds == dying ~> mpc = "exited"

\* A reload ends in the exec() of a new instance, or in a shutdown.
ReloadEnds == reloading ~> mpc \in {"exec", "exited"}

\* A dead worker is replaced unless it was cheaped, its fork() failed or the
\* instance is going down.
WorkerComesBack ==
    \A w \in Worker :
        proc[w] \in Zombie ~> \/ proc[w] = "boot"
                              \/ worker[w].cheaped = 1 \/ w \in lost
                              \/ reloading \/ dying

=============================================================================
