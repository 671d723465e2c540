------------------------------ MODULE Emperor ------------------------------
(***************************************************************************)
(* The Emperor (core/emperor.c): it starts one uWSGI instance, a vassal, for *)
(* every configuration file in a directory, reloads it when the file         *)
(* changes, stops it when the file goes, restarts it when it dies, and       *)
(* throttles the ones that die before they are loyal.                        *)
(*                                                                           *)
(* The loop of the Emperor is: the events of the vassals' pipes, of the      *)
(* on-demand sockets and of the command socket; a scan of the directory; a   *)
(* pass over the vassals after each waitpid() that returns a dead one.       *)
(***************************************************************************)
EXTENDS Naturals, SequencesExt

CONSTANTS
    Name,         \* configuration files, in the order of the scan: 1 .. n
    Pid,          \* pids the kernel gives to vassals: 1 .. n
    Kinds,        \* what the configurations may be: see kind
    StopHook,     \* vassals-stop-hook is configured
    MaxFaults,    \* bound: vassals that die unasked, failed starts, lost heartbeats
    MaxChanges    \* bound: changes of files, commands, reloads

ASSUME EmperorAssumption ==
    /\ Pid \subseteq Nat \ {0}
    /\ Kinds \subseteq [Name -> {"plain", "ondemand", "waiting"}]

VARIABLES
    kind,       \* "ondemand": has a socket the Emperor listens on until the first request;
                \* "waiting": is not started before a spawn command
    list,       \* ui->ui_next ...: the vassals
    proc,       \* the children of the Emperor
    file,       \* the directory: "newer" than last_mod of the vassal, "same" or "none"
    black,      \* the blacklist: not in it, throttled, or allowed another attempt
    pc,         \* where the loop is
    death,      \* on_royal_death, whether the loop waited for the vassals since, and whether
                \* reload_mercy seconds have gone by
    astray,     \* history: a SIGKILL went to every process of the system
    faults, changes

vars == <<kind, list, proc, file, black, pc, death, astray, faults, changes>>

NoPid == 0      \* -1 in the code
Place == {"top", "events", "scan", "reap", "buried"}

TypeOK ==
    /\ kind \in Kinds
    /\ list \in Seq([name : Name, pid : Pid \cup {NoPid}, status : 0 .. 2,
                     cursed : {"no", "fresh", "old"}, loyal : {"no", "sent", "yes"},
                     quit : BOOLEAN, suspended : BOOLEAN, socket : {"none", "polled", "idle"},
                     pipe : {"none", "open", "eof", "closed"}])
    /\ proc \in [Pid -> {"free", "up", "told", "dead", "exile"}]
    /\ file \in [Name -> {"none", "same", "newer"}]
    /\ black \in [Name -> {"no", "hot", "cool"}]
    /\ pc \in Place /\ death \in {"no", "ragnarok", "waited", "mercyless"}
    /\ astray \in BOOLEAN /\ faults \in 0 .. MaxFaults /\ changes \in 0 .. MaxChanges

Init ==
    /\ kind \in Kinds
    /\ list = << >>
    /\ proc = [p \in Pid |-> "free"]
    /\ file \in [Name -> {"none", "same"}]
    /\ black = [n \in Name |-> "no"]
    /\ pc = "top" /\ death = "no" /\ astray = FALSE
    /\ faults = 0 /\ changes = 0

(***************************************************************************)
(* What the operations make of the state e = [list, proc, black, file].     *)
(***************************************************************************)
State == [list |-> list, proc |-> proc, black |-> black, file |-> file]

SetState(e) == UNCHANGED kind /\ list' = e.list /\ proc' = e.proc /\ black' = e.black /\ file' = e.file

Indices(e) == DOMAIN e.list
Find(e, n) == {i \in Indices(e) : e.list[i].name = n}
First(S) == CHOOSE i \in S : \A j \in S : i <= j

Alive(e, p) == p # NoPid /\ e.proc[p] \in {"up", "told"}
\* Pids of children that are not reaped yet. The kernel gives none of them to a new process,
\* nor one that an instance in the list still holds: pids come round too slowly.
Unreaped(e) == {p \in Pid : e.proc[p] # "free"}
Free(e) == {p \in Pid \ Unreaped(e) : \A i \in Indices(e) : e.list[i].pid # p}
Zombies(e) == {p \in Pid : e.proc[p] \in {"dead", "exile"}}

Blacklisted(e, n) == [e EXCEPT !.black[n] = "hot"]

\* emperor_del: a vassal that never became loyal is blacklisted, or throttled more.
Del(e, i) ==
    LET gone == [e EXCEPT !.list = RemoveAt(@, i)]
    IN  IF e.list[i].loyal = "yes" THEN gone ELSE Blacklisted(gone, e.list[i].name)

NewVassal(n) ==
    [name |-> n, pid |-> NoPid, status |-> 0, cursed |-> "no", loyal |-> "no", quit |-> FALSE,
     suspended |-> FALSE, socket |-> "none", pipe |-> "none"]

\* uwsgi_emperor_vassal_start; a start that fails ends with emperor_del.
Start(e, i, ok) ==
    IF ok /\ Free(e) # {}
    THEN LET p == First(Free(e))
         IN  [e EXCEPT !.proc[p] = "up", !.list[i].pid = p, !.list[i].pipe = "open",
                       !.list[i].suspended = FALSE]
    ELSE Del(e, i)

\* emperor_add: throttled, or waiting for a command, or for a connection, or started.
Add(e, n, ok) ==
    LET i == Len(e.list) + 1
        added(v) == [e EXCEPT !.list = Append(@, v), !.file[n] = IF @ = "newer" THEN "same" ELSE @]
    IN  CASE e.black[n] = "hot" -> e
          [] e.black[n] # "hot" /\ kind[n] = "waiting" ->
                added([NewVassal(n) EXCEPT !.suspended = TRUE])
          [] e.black[n] # "hot" /\ kind[n] = "ondemand" ->
                IF ok THEN added([NewVassal(n) EXCEPT !.socket = "polled"])
                ELSE Del(added(NewVassal(n)), i)
          [] OTHER -> Start(added(NewVassal(n)), i, ok)

\* The stop byte is written to the pipe; a vassal that is gone does not read it.
Told(e, i) ==
    LET p == e.list[i].pid
    IN  IF p # NoPid /\ e.list[i].pipe = "open" /\ e.proc[p] = "up"
        THEN [e EXCEPT !.proc[p] = "told"] ELSE e

\* Mutant: a vassal that was told to stop is trusted to do so.
StopUncursed(e, i) ==
    IF e.list[i].status = 1 THEN e
    ELSE [Told(e, i) EXCEPT !.list[i].status = 1]

Stop(e, i) ==
    IF e.list[i].status = 1 THEN e
    ELSE [Told(e, i) EXCEPT !.list[i].status = 1, !.list[i].cursed = "fresh"]

BackToOnDemand(e, i) ==
    IF e.list[i].status > 0 THEN e
    ELSE [Told(e, i) EXCEPT !.list[i].status = 2, !.list[i].cursed = "fresh"]

Curse(e, i) ==
    IF e.list[i].status = 1 THEN e
    ELSE [e EXCEPT !.list[i].status = IF @ = 0 THEN 1 ELSE @, !.list[i].cursed = "fresh"]

\* emperor_respawn: a reload, unless the vassal is on its way out or not started; a pipe
\* nobody reads curses the vassal.
Respawn(e, i) ==
    LET v == e.list[i]
        seen == [e EXCEPT !.file[v.name] = IF @ = "newer" THEN "same" ELSE @]
    IN  IF v.status > 0 \/ (v.pid = NoPid /\ v.suspended) THEN e
        ELSE IF v.pid = NoPid /\ v.socket # "none" THEN seen
        ELSE IF v.pipe = "open" THEN seen
        ELSE Curse(e, i)

\* kill(pid, SIGKILL); the caller looks at whether the pid exists.
Killed(e, p) == IF Alive(e, p) THEN [e EXCEPT !.proc[p] = "dead"] ELSE e

\* The other end of the pipes of a dead process is closed.
HungUp(e) ==
    [e EXCEPT !.list = [i \in DOMAIN @ |->
        IF @[i].pipe = "open" /\ ~Alive(e, @[i].pid) THEN [@[i] EXCEPT !.pipe = "eof"] ELSE @[i]]]

(***************************************************************************)
(* Events.                                                                  *)
(***************************************************************************)
EmperorUnchanged == UNCHANGED <<kind, death, astray>>

Fault(ok) ==
    /\ ok \/ faults < MaxFaults
    /\ faults' = faults + (IF ok THEN 0 ELSE 1)

Wake ==
    /\ pc = "top" /\ death = "no"
    /\ pc' = "events"
    /\ UNCHANGED <<list, proc, file, black, faults, changes>> /\ EmperorUnchanged

Readable(i) ==
    \/ list[i].pipe \in {"open", "eof"} /\ (list[i].loyal = "sent" \/ list[i].quit)
    \/ list[i].pipe = "eof"

\* Byte 17: loyal, and out of the blacklist.
ReadLoyal(i) ==
    /\ pc = "events" /\ i \in DOMAIN list
    /\ list[i].loyal = "sent" /\ list[i].pipe \in {"open", "eof"}
    /\ list' = [list EXCEPT ![i].loyal = "yes"]
    /\ black' = [black EXCEPT ![list[i].name] = "no"]
    /\ UNCHANGED <<proc, file, pc, faults, changes>> /\ EmperorUnchanged

\* Byte 22: the vassal asks to be stopped, or to go back to waiting for requests.
ReadQuit(i) ==
    /\ pc = "events" /\ i \in DOMAIN list
    /\ list[i].quit /\ list[i].pipe \in {"open", "eof"}
    /\ LET e == [State EXCEPT !.list[i].quit = FALSE]
       IN  SetState(IF list[i].socket # "none" THEN BackToOnDemand(e, i) ELSE Stop(e, i))
    /\ UNCHANGED <<pc, faults, changes>> /\ EmperorUnchanged

\* End of file: the pipe is left alone from now on and the vassal is cursed.
ReadEof(i) ==
    /\ pc = "events" /\ i \in DOMAIN list
    /\ list[i].pipe = "eof" /\ list[i].loyal # "sent" /\ ~list[i].quit
    /\ SetState(Curse([State EXCEPT !.list[i].pipe = "closed"], i))
    /\ UNCHANGED <<pc, faults, changes>> /\ EmperorUnchanged

\* The first connection to the socket of an on-demand vassal.
ReadSocket(i, ok) ==
    /\ pc = "events" /\ i \in DOMAIN list
    /\ list[i].socket = "polled"
    /\ Fault(ok)
    /\ SetState(Start([State EXCEPT !.list[i].socket = "idle"], i, ok))
    /\ UNCHANGED <<pc, changes>> /\ EmperorUnchanged

\* emperor_manage_command: spawn, respawn, stop.
Command(cmd, n, ok) ==
    /\ pc = "events" /\ changes < MaxChanges
    /\ Find(State, n) # {}
    /\ LET i == First(Find(State, n))
       IN  \/ /\ cmd = "spawn" /\ list[i].suspended
              /\ SetState(Start(State, i, ok)) /\ Fault(ok)
           \/ /\ cmd = "respawn"
              /\ SetState(Respawn(State, i)) /\ UNCHANGED faults
           \/ /\ cmd = "stop"
              /\ SetState(Stop(State, i)) /\ UNCHANGED faults
    /\ changes' = changes + 1
    /\ UNCHANGED pc /\ EmperorUnchanged

\* The loop reads what is there to read: what comes after is like what comes after EndEvents.
EndEvents ==
    /\ pc = "events"
    /\ \A i \in DOMAIN list : ~Readable(i)
    /\ pc' = "scan"
    /\ UNCHANGED <<list, proc, file, black, faults, changes>> /\ EmperorUnchanged

(***************************************************************************)
(* The scan of the directory.                                               *)
(***************************************************************************)
ScanFile(e, n, ok) ==
    IF e.file[n] = "none" THEN e
    ELSE IF Find(e, n) = {} THEN Add(e, n, ok)
    ELSE IF e.file[n] = "newer" THEN Respawn(e, First(Find(e, n)))
    ELSE e

StopIfRemoved(e, i) == IF e.file[e.list[i].name] = "none" THEN Stop(e, i) ELSE e

\* No heartbeat for emperor_heartbeat seconds: the vassal is killed; its pid may be gone.
NoHeartbeat(e, i) ==
    IF e.list[i].pid \in Unreaped(e) THEN HungUp(Killed(e, e.list[i].pid)) ELSE Del(e, i)

\* Starts fail all together or not at all; at most one vassal at a time has lost its beat.
Scan(ok, lost) ==
    LET added == FoldLeft(LAMBDA e, n : ScanFile(e, n, ok), State, SetToSortSeq(Name, <))
        scanned == FoldLeft(StopIfRemoved, added, [i \in 1 .. Len(added.list) |-> i])
    IN  /\ pc = "scan"
        /\ lost \subseteq {i \in DOMAIN scanned.list : scanned.list[i].loyal = "yes"
                                                       /\ scanned.list[i].pid # NoPid}
        /\ Fault(ok /\ lost = {})
        /\ SetState(IF lost = {} THEN scanned ELSE NoHeartbeat(scanned, First(lost)))
        /\ pc' = "reap"
        /\ UNCHANGED changes /\ EmperorUnchanged

(***************************************************************************)
(* One pass over the vassals, with the pid of a dead one or without.        *)
(***************************************************************************)
Reaped(e, p) == IF p = NoPid THEN e ELSE [e EXCEPT !.proc[p] = "free"]

\* Mutant: a curse has no end.
DueDead(e, died) ==
    {i \in Indices(e) : \/ died # NoPid /\ e.list[i].pid = died
                        \/ e.list[i].cursed # "no" /\ e.list[i].pid = NoPid}

\* The vassals the pass stops at: the first of them is handled, the others are left alone.
Due(e, died) ==
    {i \in Indices(e) : \/ died # NoPid /\ e.list[i].pid = died
                        \/ e.list[i].cursed # "no" /\ e.list[i].pid = NoPid
                        \/ e.list[i].cursed = "old"}

\* Mutant: the dead instance stays in the list.
BuriedLater(e, i, exile, ok) ==
    LET v == e.list[i]
    IN  IF v.status = 0 /\ ~exile THEN [Add(e, v.name, ok) EXCEPT !.file = e.file] ELSE Del(e, i)

\* A vassal is dead: restarted, with the last_mod it had, if nobody wanted it to die;
\* removed; or waiting again. The new one is added before the old one is blacklisted.
Buried(e, i, exile, ok) ==
    LET v == e.list[i]
    IN  CASE v.status = 0 /\ exile -> Del(e, i)
          [] v.status = 0 /\ ~exile -> [Del(Add(e, v.name, ok), i) EXCEPT !.file = e.file]
          [] v.status = 1 -> Del(e, i)
          [] v.status = 2 ->
                IF ok THEN [e EXCEPT !.list[i] =
                              [NewVassal(v.name) EXCEPT !.socket = "polled",
                               !.loyal = IF v.loyal = "yes" THEN "yes" ELSE "no"]]
                ELSE Del(e, i)

Handled(e, i, died, exile, ok) ==
    LET v == e.list[i]
    IN  IF died # NoPid /\ v.pid = died THEN Buried(e, i, exile, ok)
        ELSE IF v.pid = NoPid \/ v.pid \notin Unreaped(e) THEN Del(e, i)
        ELSE HungUp([Killed(e, v.pid) EXCEPT !.list[i].cursed = "fresh"])

HasChildren(e) == \E i \in Indices(e) : e.list[i].pid # NoPid

\* With no vassal that has a pid, what waitpid() returns is thrown away. A waitpid() that
\* finds no child, although vassals have pids, deletes every vassal.
Reap(p, ok) ==
    LET died == IF HasChildren(State) THEN p ELSE NoPid
        e == Reaped(State, p)
    IN  /\ pc = "reap"
        /\ IF Zombies(State) = {} THEN p = NoPid ELSE p \in Zombies(State)
        /\ Fault(ok)
        /\ IF HasChildren(State) /\ Unreaped(State) = {}
           THEN SetState(FoldLeft(LAMBDA f, i : Del(f, 1), State, list))
           ELSE SetState(IF Due(e, died) = {} THEN e
                         ELSE Handled(e, First(Due(e, died)), died,
                                      died # NoPid /\ proc[p] = "exile", ok))
        /\ pc' = IF died # NoPid THEN "reap" ELSE "top"
        /\ UNCHANGED changes /\ EmperorUnchanged

(***************************************************************************)
(* The death of the Emperor.                                                *)
(***************************************************************************)
\* SIGTERM, SIGINT or SIGQUIT: with a stop hook the walk of the list has reached its end
\* before the vassals are told to stop. A second signal changes nothing.
RoyalDeath ==
    /\ pc # "buried" /\ death = "no"
    /\ IF StopHook THEN SetState(State)
       ELSE SetState(FoldLeft(Stop, State, [i \in 1 .. Len(list) |-> i]))
    /\ death' = "ragnarok"
    /\ UNCHANGED <<pc, astray, faults, changes>>

\* reload_mercy is more than the second between two passes.
MercyEnds ==
    /\ death = "waited" /\ pc # "buried"
    /\ death' = "mercyless"
    /\ UNCHANGED <<kind, list, proc, file, black, pc, astray, faults, changes>>

\* waitpid() for every vassal; for one without pid it is waitpid(-1), any child.
WaitedFor(e, kept, v) ==
    LET none == Unreaped(e) = {}
        p == IF v.pid # NoPid THEN v.pid
             ELSE IF Zombies(e) # {} THEN First(Zombies(e)) ELSE NoPid
    IN  IF (v.pid = NoPid /\ none) \/ (p # NoPid /\ e.proc[p] \in {"free", "dead", "exile"})
        THEN [e |-> Reaped(e, p), kept |-> kept]
        ELSE [e |-> e, kept |-> Append(kept, v)]

Ragnarok ==
    /\ pc = "top" /\ death \in {"ragnarok", "waited"}
    /\ LET w == FoldLeft(LAMBDA a, v : WaitedFor(a.e, a.kept, v),
                         [e |-> State, kept |-> << >>], list)
       IN  SetState([w.e EXCEPT !.list = w.kept])
    /\ pc' = IF list = << >> THEN "buried" ELSE "top"
    /\ death' = "waited"
    /\ UNCHANGED <<astray, faults, changes>>

\* NO MERCY: every vassal is killed, up to one that is not there any more; a pid of -1
\* stands for every process there is.
NoMercy ==
    /\ pc = "top" /\ death = "mercyless"
    /\ LET gone == {i \in DOMAIN list : list[i].pid \notin Unreaped(State) \cup {NoPid}}
           hit == {i \in DOMAIN list : \A j \in gone : i < j}
           e == [State EXCEPT !.proc = [p \in Pid |->
                    IF Alive(State, p) /\ \E i \in hit : list[i].pid \in {p, NoPid}
                    THEN "dead" ELSE proc[p]]]
       IN  /\ SetState(IF gone = {} THEN e ELSE Del(e, First(gone)))
           /\ astray' = (astray \/ \E i \in hit : list[i].pid = NoPid)
    /\ pc' = "buried"
    /\ UNCHANGED <<death, faults, changes>>

(***************************************************************************)
(* SIGHUP, and the world around the Emperor.                                *)
(***************************************************************************)
World == UNCHANGED <<kind, pc, death, astray>>

MassiveReload ==
    /\ pc # "buried" /\ changes < MaxChanges
    /\ changes' = changes + 1
    /\ SetState(FoldLeft(Respawn, State, [i \in 1 .. Len(list) |-> i]))
    /\ UNCHANGED faults /\ World

Change(n, now) ==
    /\ changes < MaxChanges
    /\ now # file[n] /\ (now = "same" => file[n] = "none") /\ (now = "newer" => file[n] = "same")
    /\ file' = [file EXCEPT ![n] = IF now = "same" /\ Find(State, n) # {} THEN "newer" ELSE now]
    /\ changes' = changes + 1
    /\ UNCHANGED <<list, proc, black, faults>> /\ World

BecomesLoyal(i) ==
    /\ i \in DOMAIN list /\ list[i].loyal = "no" /\ list[i].pipe = "open"
    /\ list' = [list EXCEPT ![i].loyal = "sent"]
    /\ UNCHANGED <<proc, file, black, faults, changes>> /\ World

AsksToQuit(i) ==
    /\ i \in DOMAIN list /\ list[i].pipe = "open" /\ ~list[i].quit
    /\ changes < MaxChanges
    /\ list' = [list EXCEPT ![i].quit = TRUE]
    /\ changes' = changes + 1
    /\ UNCHANGED <<proc, file, black, faults>> /\ World

Dies(p, how) ==
    /\ Alive(State, p)
    /\ IF proc[p] = "told" THEN how = "dead" /\ UNCHANGED faults ELSE Fault(FALSE)
    /\ SetState(HungUp([State EXCEPT !.proc[p] = how]))
    /\ UNCHANGED changes /\ World

\* Time: a throttle level or emperor_curse_tolerance seconds.
Cools(n) ==
    /\ black[n] = "hot"
    /\ black' = [black EXCEPT ![n] = "cool"]
    /\ UNCHANGED <<list, proc, file, faults, changes>> /\ World

Ages(i) ==
    /\ i \in DOMAIN list /\ list[i].cursed = "fresh"
    /\ list' = [list EXCEPT ![i].cursed = "old"]
    /\ UNCHANGED <<proc, file, black, faults, changes>> /\ World

Loop ==
    \/ Wake \/ EndEvents
    \/ \E ok \in BOOLEAN, lost \in {{}} \cup {{i} : i \in DOMAIN list} : Scan(ok, lost)
    \/ \E p \in Pid \cup {NoPid}, ok \in BOOLEAN : Reap(p, ok)
    \/ Ragnarok \/ NoMercy

Events ==
    \/ \E i \in DOMAIN list : ReadLoyal(i) \/ ReadQuit(i) \/ ReadEof(i)
    \/ \E i \in DOMAIN list, ok \in BOOLEAN : ReadSocket(i, ok)
    \/ \E cmd \in {"spawn", "respawn", "stop"}, n \in Name, ok \in BOOLEAN : Command(cmd, n, ok)

Outside ==
    \/ RoyalDeath \/ MercyEnds \/ MassiveReload
    \/ \E n \in Name, now \in {"none", "same", "newer"} : Change(n, now)
    \/ \E i \in DOMAIN list : BecomesLoyal(i) \/ AsksToQuit(i) \/ Ages(i)
    \/ \E p \in Pid, how \in {"dead", "exile"} : Dies(p, how)
    \/ \E n \in Name : Cools(n)

Next == Loop \/ Events \/ Outside

Spec == Init /\ [][Next]_vars

\* The loop goes round until the Emperor dies, and the clock goes on; no vassal is assumed
\* to die, to become loyal or to obey. (The loop's fairness is stated by where it comes by:
\* all its steps but the ones that leave a place are finitely many.)
LoopGoesRound == []<>(pc = "top" \/ death # "no") /\ []<>(pc # "top" \/ death # "no")

FairSpec ==
    /\ Spec /\ LoopGoesRound
    /\ \A n \in Name : WF_vars(Cools(n))
    /\ WF_vars(\E i \in DOMAIN list : Ages(i))

(***************************************************************************)
(* Properties.                                                              *)
(***************************************************************************)
Runs(n) == {i \in Find(State, n) : Alive(State, list[i].pid)}

\* A configuration has at most one instance, although the reaper starts the next one before
\* it deletes the dead one and files come and go while instances stop; the Emperor knows
\* every vassal that runs; and one that is loyal is not in the blacklist, so that its next
\* start is not throttled for the death of its predecessor (emperor_add, emperor_del, byte
\* 17, the reaper, the scan).
OneInstance ==
    /\ TypeOK
    /\ \A i, j \in DOMAIN list : list[i].name = list[j].name => i = j
    /\ pc # "buried" => \A p \in Pid :
          Alive(State, p) => \E i \in DOMAIN list : list[i].pid = p
    /\ \A i \in DOMAIN list : list[i].loyal = "yes" => black[list[i].name] = "no"

\* Once its file is gone a vassal stops, even one that does not obey: the curse ends with a
\* SIGKILL (scan, emperor_curse_tolerance).
RemovedStops ==
    \A n \in Name : (file[n] = "none") ~> (file[n] # "none" \/ Runs(n) = {} \/ death # "no")

\* A vassal with a configuration file that waits for neither a command nor a connection runs
\* again, whatever happened to it: dead, missed by the reaper, throttled, cursed, stopped.
VassalRecovers ==
    \A n \in Name :
        (kind[n] = "plain" /\ file[n] # "none") ~>
            (file[n] = "none" \/ death # "no" \/ \E i \in Runs(n) : list[i].status = 0)

\* NO MERCY is "for vassal %s": SIGKILL goes to vassals and to nothing else.
KillsOnlyVassals == ~astray
=============================================================================
