------------------------------- MODULE Signals -------------------------------
(***************************************************************************)
(* uWSGI signals (core/signal.c, core/mule.c, core/master_events.c): one    *)
(* byte messages that workers and mules send to the master over socketpairs *)
(* and that the master, or one of its timers, routes to the processes of    *)
(* the receiver their handler was registered for.  The table of handlers    *)
(* and the table of timers are in shared memory; a handler is a pointer     *)
(* into the memory of the process that registered it.                       *)
(***************************************************************************)
EXTENDS Integers, Sequences, FiniteSets

CONSTANTS
    NumProc,        \* workers 1 .. NumProc
    NumMules,       \* mules NumProc + 1 .. NumProc + NumMules
    Sig,
    Receivers,      \* the receivers handlers may be registered for
    Iterations,     \* of rb_timers
    Capacity,       \* of a pipe, in signals: signal_bufsize
    MaxTimers,      \* 64 in the code
    MaxSends,       \* bound on the signals sent by applications and event sources
    MaxKills        \* bound on deaths and on workers that are cheaped

ASSUME SignalsAssumption ==
    /\ NumProc \in Nat \ {0} /\ NumMules \in Nat \ {0} /\ Capacity \in Nat \ {0}
    /\ MaxTimers \in Nat /\ MaxSends \in Nat /\ MaxKills \in Nat
    /\ Iterations \subseteq Nat \ {0} /\ "none" \notin Sig
    /\ Receivers \subseteq {"", "worker", "workers", "active-workers", "worker1",
                            "mule", "mules", "mule1"}

VARIABLES
    conf,           \* lazy: lazy-apps; recv: the receiver the application asks for
    table,          \* signal_table, one row for each worker and row 0
    proc,           \* the processes
    pipe,           \* the socketpairs: own, pool, and inbox for the way to the master
    timers, timers_cnt,     \* rb_timers, rb_timers_cnt
    asked,          \* what the callers of uwsgi_signal_add_rb_timer asked for (history)
    dyn,            \* the registrations made in a request (history)
    sends, kills

vars == <<conf, table, proc, pipe, timers, timers_cnt, asked, dyn, sends, kills>>

Worker == 1 .. NumProc
Mule == NumProc + 1 .. NumProc + NumMules
Proc == Worker \cup Mule
Pool == {"workers", "mules"}
PoolOf(p) == IF p \in Worker THEN "workers" ELSE "mules"

\* uwsgi.mywid: every process that is no worker uses row 0.
Row(p) == IF p \in Worker THEN p ELSE 0

\* Memory: the master's, which its children inherit, or that of one incarnation of a worker.
MasterMemory == <<0, 0>>
Memory(p) == <<p, proc[p].gen>>
NoHandler == <<-1, 0>>
Entry == [handler : {NoHandler, MasterMemory} \cup (Worker \X (0 .. MaxKills)),
          receiver : Receivers \cup {""}, wid : 0 .. NumProc]
NoEntry == [handler |-> NoHandler, receiver |-> "", wid |-> 0]

\* "fill", "sign" and "count": in uwsgi_signal_add_rb_timer; "cheaped": no process.
Place == {"loading", "idle", "request", "handler", "fill", "sign", "count", "down", "cheaped"}
NoSig == "none"
NoCall == [sig |-> NoSig, iterations |-> 0]
Call == [sig : Sig \cup {NoSig}, iterations : Iterations \cup {0}]
Timer == [sig : Sig \cup {NoSig}, iterations : Iterations \cup {0}, done : Nat,
          registered : BOOLEAN, armed : BOOLEAN]
NoTimer == [sig |-> NoSig, iterations |-> 0, done |-> 0, registered |-> FALSE, armed |-> FALSE]

Queue == UNION {[1 .. n -> Sig] : n \in 0 .. Capacity}

TypeOK ==
    /\ conf \in [lazy : BOOLEAN, recv : [Sig -> Receivers]]
    /\ table \in [0 .. NumProc -> [Sig -> Entry]]
    /\ proc \in [Proc -> [pc : Place, gen : 0 .. MaxKills, sig : Sig \cup {NoSig}, call : Call,
                          runs : {NoHandler, MasterMemory} \cup (Worker \X (0 .. MaxKills))]]
    /\ pipe \in [own : [Proc -> Queue], pool : [Pool -> Queue], inbox : [Pool -> Queue]]
    /\ timers \in [1 .. MaxTimers -> Timer]
    /\ timers_cnt \in 0 .. MaxTimers /\ Len(asked) = timers_cnt
    /\ dyn \subseteq Worker \X Sig
    /\ sends \in 0 .. MaxSends /\ kills \in 0 .. MaxKills

(***************************************************************************)
(* Registration                                                             *)
(***************************************************************************)
\* Mutant: what only the master may not do, to register a signal twice, nobody may.
RegisteredOnce(row, s, wid, mem) ==
    IF row[s].handler # NoHandler THEN row
    ELSE [row EXCEPT ![s] = [handler |-> mem, receiver |-> conf.recv[s], wid |-> wid]]

Registered(row, s, wid, mem) ==
    [row EXCEPT ![s] = [handler |-> mem, receiver |-> conf.recv[s], wid |-> wid]]

\* The master loads the application before it forks, and copies its row to those of the
\* workers; with lazy-apps it registers nothing.
Init ==
    /\ conf \in [lazy : BOOLEAN, recv : [Sig -> Receivers]]
    /\ table = [w \in 0 .. NumProc |->
                   [s \in Sig |-> IF conf.lazy THEN NoEntry
                                  ELSE [handler |-> MasterMemory, receiver |-> conf.recv[s], wid |-> 0]]]
    /\ proc = [p \in Proc |-> [pc |-> IF conf.lazy /\ p \in Worker THEN "loading" ELSE "idle",
                               gen |-> 0, sig |-> NoSig, runs |-> NoHandler, call |-> NoCall]]
    /\ pipe = [own |-> [p \in Proc |-> << >>], pool |-> [k \in Pool |-> << >>],
               inbox |-> [k \in Pool |-> << >>]]
    /\ timers = [i \in 1 .. MaxTimers |-> NoTimer] /\ timers_cnt = 0 /\ asked = << >>
    /\ dyn = {} /\ sends = 0 /\ kills = 0

At(p, pc) == proc[p].pc = pc
Goto(p, pc) == proc' = [proc EXCEPT ![p].pc = pc]

\* The application of a worker registers its signals while it is loaded.
Load(w) ==
    /\ At(w, "loading")
    /\ table' = [table EXCEPT ![w] = [s \in Sig |-> Registered(@, s, w, Memory(w))[s]]]
    /\ dyn' = dyn \ ({w} \X Sig)
    /\ Goto(w, "idle")
    /\ UNCHANGED <<conf, pipe, timers, timers_cnt, asked, sends, kills>>

\* ... or later, in a request.
Register(w, s) ==
    /\ At(w, "request")
    /\ table' = [table EXCEPT ![w] = Registered(@, s, w, Memory(w))]
    /\ dyn' = dyn \cup {<<w, s>>}
    /\ UNCHANGED <<conf, proc, pipe, timers, timers_cnt, asked, sends, kills>>

(***************************************************************************)
(* Routing                                                                  *)
(***************************************************************************)
\* uwsgi_signal_send: a signal that finds the pipe full is dropped.
Sent(q, s) == IF Len(q) < Capacity THEN Append(q, s) ELSE q

Active == {w \in Worker : proc[w].pc # "cheaped"}

\* The pools and the processes whose pipes a signal for receiver r is written to.
PoolsOf(r) == CASE r \in {"", "worker"} -> {"workers"} [] r = "mule" -> {"mules"} [] OTHER -> {}

ProcsOf(r) == CASE r = "workers" -> Worker
                [] r = "active-workers" -> Active
                [] r = "worker1" -> {1}
                [] r = "mules" -> Mule
                [] r = "mule1" -> {NumProc + 1}
                [] OTHER -> {}

\* uwsgi_route_signal in the master, whose row is 0 also for signals workers registered.
Route(t, s) ==
    LET r == table[0][s].receiver
    IN  [t EXCEPT !.pool = [k \in Pool |-> IF k \in PoolsOf(r) THEN Sent(@[k], s) ELSE @[k]],
                  !.own = [p \in Proc |-> IF p \in ProcsOf(r) THEN Sent(@[p], s) ELSE @[p]]]

\* An application, in a request or in a handler, calls uwsgi.signal().
Signal(p, s) ==
    /\ proc[p].pc \in {"request", "handler"} /\ sends < MaxSends
    /\ pipe' = [pipe EXCEPT !.inbox[PoolOf(p)] = Sent(@, s)]
    /\ sends' = sends + 1
    /\ UNCHANGED <<conf, table, proc, timers, timers_cnt, asked, dyn, kills>>

\* A file monitor, a timerfd, cron, a touched file or an alarm.
Event(s) ==
    /\ sends < MaxSends
    /\ pipe' = Route(pipe, s)
    /\ sends' = sends + 1
    /\ UNCHANGED <<conf, table, proc, timers, timers_cnt, asked, dyn, kills>>

\* The master reads one byte of a pipe and routes it.
ManageSignal(k) ==
    /\ pipe.inbox[k] # << >>
    /\ pipe' = Route([pipe EXCEPT !.inbox[k] = Tail(@)], Head(pipe.inbox[k]))
    /\ UNCHANGED <<conf, table, proc, timers, timers_cnt, asked, dyn, sends, kills>>

(***************************************************************************)
(* uwsgi_receive_signal and uwsgi_signal_handler                            *)
(***************************************************************************)
\* The check for COW: a handler registered after the fork is good for one worker.
MayRun(p, e) == e.handler # NoHandler /\ (e.wid # 0 => e.wid = Row(p))

Handle(p, s) ==
    LET e == table[Row(p)][s]
    IN  IF MayRun(p, e)
        THEN proc' = [proc EXCEPT ![p].pc = "handler", ![p].sig = s, ![p].runs = e.handler]
        ELSE UNCHANGED proc

\* Mutant: the process waits for the signals of its pool only.
ReceiveOwnNever(p) == FALSE

\* An idle process reads a byte of its own pipe, or of the pipe it shares.
ReceiveOwn(p) ==
    /\ At(p, "idle") /\ pipe.own[p] # << >>
    /\ pipe' = [pipe EXCEPT !.own[p] = Tail(@)]
    /\ Handle(p, Head(pipe.own[p]))
    /\ UNCHANGED <<conf, table, timers, timers_cnt, asked, dyn, sends, kills>>

ReceivePool(p) ==
    /\ At(p, "idle") /\ pipe.pool[PoolOf(p)] # << >>
    /\ pipe' = [pipe EXCEPT !.pool[PoolOf(p)] = Tail(@)]
    /\ Handle(p, Head(pipe.pool[PoolOf(p)]))
    /\ UNCHANGED <<conf, table, timers, timers_cnt, asked, dyn, sends, kills>>

HandlerEnds(p) ==
    /\ At(p, "handler")
    /\ proc' = [proc EXCEPT ![p].pc = "idle", ![p].sig = NoSig, ![p].runs = NoHandler]
    /\ UNCHANGED <<conf, table, pipe, timers, timers_cnt, asked, dyn, sends, kills>>

RequestStarts(w) ==
    /\ At(w, "idle") /\ Goto(w, "request")
    /\ UNCHANGED <<conf, table, pipe, timers, timers_cnt, asked, dyn, sends, kills>>

RequestEnds(w) ==
    /\ At(w, "request") /\ Goto(w, "idle")
    /\ UNCHANGED <<conf, table, pipe, timers, timers_cnt, asked, dyn, sends, kills>>

(***************************************************************************)
(* rb_timers: workers fill the next entry of the table under a lock and     *)
(* count it; the master reads the table without the lock.                   *)
(***************************************************************************)
\* rb_timer_table_lock; the death of its holder frees it.
Locked == \E p \in Worker : proc[p].pc \in {"fill", "sign", "count"}

\* uwsgi_signal_add_rb_timer; it returns -1 if the table is full.
AddTimer(w, s, n) ==
    /\ At(w, "request") /\ ~Locked /\ timers_cnt < MaxTimers
    /\ proc' = [proc EXCEPT ![w].pc = "fill", ![w].call = [sig |-> s, iterations |-> n]]
    /\ UNCHANGED <<conf, table, pipe, timers, timers_cnt, asked, dyn, sends, kills>>

FillTimer(w) ==
    /\ At(w, "fill")
    /\ timers' = [timers EXCEPT ![timers_cnt + 1].registered = FALSE,
                                ![timers_cnt + 1].iterations = proc[w].call.iterations,
                                ![timers_cnt + 1].done = 0]
    /\ Goto(w, "sign")
    /\ UNCHANGED <<conf, table, pipe, timers_cnt, asked, dyn, sends, kills>>

SignTimer(w) ==
    /\ At(w, "sign")
    /\ timers' = [timers EXCEPT ![timers_cnt + 1].sig = proc[w].call.sig]
    /\ Goto(w, "count")
    /\ UNCHANGED <<conf, table, pipe, timers_cnt, asked, dyn, sends, kills>>

CountTimer(w) ==
    /\ At(w, "count")
    /\ timers_cnt' = timers_cnt + 1
    /\ asked' = Append(asked, proc[w].call)
    /\ proc' = [proc EXCEPT ![w].pc = "request", ![w].call = NoCall]
    /\ UNCHANGED <<conf, table, pipe, timers, dyn, sends, kills>>

\* Mutant: the master looks at the entry that is being filled too.
NewTimersEager == {i \in 1 .. MaxTimers : ~timers[i].registered /\ timers[i].iterations > 0}

NewTimers == {i \in 1 .. timers_cnt : ~timers[i].registered}

\* The master loop puts the new timers into its tree.
ScanTimers ==
    /\ NewTimers # {}
    /\ timers' = [i \in 1 .. MaxTimers |->
                     IF i \in NewTimers THEN [timers[i] EXCEPT !.registered = TRUE, !.armed = TRUE]
                     ELSE timers[i]]
    /\ UNCHANGED <<conf, table, proc, pipe, timers_cnt, asked, dyn, sends, kills>>

\* expire_rb_timeouts
Expire(i) ==
    /\ timers[i].armed
    /\ timers' = [timers EXCEPT ![i].done = @ + 1, ![i].armed = timers[i].done + 1 < timers[i].iterations]
    /\ pipe' = Route(pipe, timers[i].sig)
    /\ UNCHANGED <<conf, table, proc, timers_cnt, asked, dyn, sends, kills>>

(***************************************************************************)
(* Death and respawn: the pipes and the tables outlive the processes.       *)
(***************************************************************************)
Kill(p) ==
    /\ proc[p].pc \notin {"down", "cheaped"} /\ kills < MaxKills
    /\ proc' = [proc EXCEPT ![p] = [pc |-> "down", gen |-> @.gen, sig |-> NoSig, runs |-> NoHandler,
                                    call |-> NoCall]]
    /\ kills' = kills + 1
    /\ UNCHANGED <<conf, table, pipe, timers, timers_cnt, asked, dyn, sends>>

Cheap(w) ==
    /\ At(w, "idle") /\ Cardinality(Active) > 1 /\ kills < MaxKills
    /\ Goto(w, "cheaped")
    /\ kills' = kills + 1
    /\ UNCHANGED <<conf, table, pipe, timers, timers_cnt, asked, dyn, sends>>

Respawn(p) ==
    /\ proc[p].pc \in {"down", "cheaped"}
    /\ proc' = [proc EXCEPT ![p].pc = IF conf.lazy /\ p \in Worker THEN "loading" ELSE "idle",
                            ![p].gen = @ + 1]
    /\ UNCHANGED <<conf, table, pipe, timers, timers_cnt, asked, dyn, sends, kills>>

-----------------------------------------------------------------------------
WorkerStep(w) ==
    \/ Load(w) \/ RequestStarts(w) \/ RequestEnds(w)
    \/ \E s \in Sig : Register(w, s) \/ \E n \in Iterations : AddTimer(w, s, n)
    \/ FillTimer(w) \/ SignTimer(w) \/ CountTimer(w)
    \/ Cheap(w)

Next ==
    \/ \E w \in Worker : WorkerStep(w)
    \/ \E p \in Proc : \/ ReceiveOwn(p) \/ ReceivePool(p) \/ HandlerEnds(p)
                       \/ \E s \in Sig : Signal(p, s)
                       \/ Kill(p) \/ Respawn(p)
    \/ \E k \in Pool : ManageSignal(k)
    \/ \E s \in Sig : Event(s)
    \/ ScanTimers
    \/ \E i \in 1 .. MaxTimers : Expire(i)

Spec == Init /\ [][Next]_vars

\* The master's loop runs and respawns the dead; applications load, and requests and
\* handlers end, if only by harakiri; epoll does not for ever pass over a pipe that can be
\* read.
Fairness ==
    /\ \A k \in Pool : WF_vars(ManageSignal(k))
    /\ WF_vars(ScanTimers) /\ \A i \in 1 .. MaxTimers : WF_vars(Expire(i))
    /\ \A w \in Worker : /\ WF_vars(Load(w)) /\ WF_vars(RequestEnds(w))
                         /\ WF_vars(FillTimer(w) \/ SignTimer(w) \/ CountTimer(w))
    /\ \A p \in Proc : /\ WF_vars(HandlerEnds(p)) /\ WF_vars(At(p, "down") /\ Respawn(p))
                       /\ SF_vars(ReceiveOwn(p)) /\ SF_vars(ReceivePool(p))

FairSpec == Spec /\ Fairness

-----------------------------------------------------------------------------
\* A process runs no handler of another memory than the master's and its own, although the
\* table outlives workers: a respawned one has registered its handlers again before it looks
\* at the signals its predecessor left.  Not so for a handler registered in a request, whose
\* pointer a successor with the same mywid takes for its own.
OwnHandler ==
    /\ TypeOK
    /\ \A p \in Proc : At(p, "handler") /\ <<p, proc[p].sig>> \notin dyn =>
          proc[p].runs \in {MasterMemory, Memory(p)}

\* "locking is not needed as rb_timers can only increase": the master never arms an entry
\* that is half written or that belongs to a caller killed in the middle, and a timer fires
\* as many times as was asked for.
TimersExact ==
    \A i \in 1 .. MaxTimers :
        LET t == timers[i]
        IN  IF i > timers_cnt THEN ~t.registered /\ ~t.armed
            ELSE /\ [sig |-> t.sig, iterations |-> t.iterations] = asked[i]
                 /\ t.done <= t.iterations
                 /\ t.registered => (t.armed <=> t.done < t.iterations)

\* Signals are not left behind: every pipe is drained once nothing is sent any more, whoever
\* of its readers died meanwhile, unless it is the pipe of a cheaped worker; and every timer
\* fires to its end.
SignalsReach ==
    <>[] /\ \A k \in Pool : pipe.inbox[k] = << >> /\ pipe.pool[k] = << >>
         /\ \A p \in Proc : pipe.own[p] = << >> \/ At(p, "cheaped")
         /\ \A i \in 1 .. timers_cnt : timers[i].done = timers[i].iterations
=============================================================================
