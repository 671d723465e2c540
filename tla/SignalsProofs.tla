--------------------------- MODULE SignalsProofs ---------------------------
(***************************************************************************)
(* No process runs a handler of another memory, and timers fire what was    *)
(* asked for, for every number of processes, signals, timers and kills.     *)
(***************************************************************************)
EXTENDS Signals, SequenceTheorems, TLAPS

Handler == {NoHandler, MasterMemory} \cup (Worker \X (0 .. MaxKills))
ProcRecord == [pc : Place, gen : 0 .. MaxKills, sig : Sig \cup {NoSig}, call : Call, runs : Handler]
PipeType == [own : [Proc -> Queue], pool : [Pool -> Queue], inbox : [Pool -> Queue]]

\* Every incarnation of a process after the first follows a death or a cheaped worker.
GensCounted ==
    \A p \in Proc :
        /\ proc[p].gen <= kills
        /\ proc[p].pc \in {"down", "cheaped"} => proc[p].gen < kills

\* What is in the table for a process that can look at signals.
TableKept ==
    /\ \A s \in Sig : table[0][s].handler \in {NoHandler, MasterMemory}
    /\ \A w \in Worker, s \in Sig :
          \/ <<w, s>> \in dyn
          \/ table[w][s].handler \in {NoHandler, MasterMemory}
          \/ /\ conf.lazy = TRUE
             /\ table[w][s].handler = Memory(w) \/ proc[w].pc \in {"loading", "down", "cheaped"}
    /\ \A w \in Worker : proc[w].pc = "loading" => conf.lazy = TRUE

RunsKept ==
    \A p \in Proc : proc[p].pc = "handler" =>
        <<p, proc[p].sig>> \in dyn \/ proc[p].runs \in {MasterMemory, Memory(p)}

Adding == {"fill", "sign", "count"}

\* The caller that has the lock, and how far it is with the entry after the last one.
CallerKept ==
    /\ \A v, w \in Worker : proc[v].pc \in Adding /\ proc[w].pc \in Adding => v = w
    /\ \A w \in Worker : proc[w].pc \in Adding =>
          /\ timers_cnt < MaxTimers
          /\ proc[w].call.sig \in Sig /\ proc[w].call.iterations \in Iterations
          /\ proc[w].pc # "fill" =>
                /\ timers[timers_cnt + 1].iterations = proc[w].call.iterations
                /\ timers[timers_cnt + 1].done = 0
          /\ proc[w].pc = "count" => timers[timers_cnt + 1].sig = proc[w].call.sig

\* The entries that are counted.
TimersKept ==
    \A i \in 1 .. MaxTimers :
        /\ i > timers_cnt => timers[i].registered = FALSE /\ timers[i].armed = FALSE
        /\ i <= timers_cnt =>
              /\ timers[i].sig \in Sig /\ timers[i].iterations \in Iterations
              /\ timers[i].sig = asked[i].sig /\ timers[i].iterations = asked[i].iterations
              /\ timers[i].done <= timers[i].iterations
              /\ timers[i].registered = FALSE => timers[i].armed = FALSE /\ timers[i].done = 0
              /\ timers[i].registered = TRUE => (timers[i].armed = TRUE <=> timers[i].done < timers[i].iterations)

\* The inductive invariant.
SignalsInv ==
    /\ TypeOK /\ asked \in Seq([sig : Sig, iterations : Iterations])
    /\ GensCounted /\ TableKept /\ RunsKept /\ CallerKept /\ TimersKept
-----------------------------------------------------------------------------
(* The pipes *)

\* A pipe holds at most Capacity signals.
LEMMA QueueSeq ==
  ASSUME NEW q
  PROVE  q \in Queue <=> q \in Seq(Sig) /\ Len(q) <= Capacity
<1>0. Capacity \in Nat
  BY SignalsAssumption
<1>1. ASSUME q \in Queue
      PROVE  q \in Seq(Sig) /\ Len(q) <= Capacity
  <2>1. PICK n \in 0 .. Capacity : q \in [1 .. n -> Sig]
    BY <1>1 DEF Queue
  <2>2. n \in Nat /\ n <= Capacity
    BY <1>0
  <2>3. q \in Seq(Sig)
    <3>1. q \in UNION {[1 .. k -> Sig] : k \in Nat}
      BY <2>1, <2>2, Zenon
    <3> QED
      BY <3>1, SeqDef, Zenon
  <2>4. DOMAIN q = 1 .. n
    BY <2>1
  <2>5. DOMAIN q = 1 .. Len(q) /\ Len(q) \in Nat
    BY <2>3, LenProperties
  <2>6. Len(q) = n
    BY <2>2, <2>4, <2>5
  <2> QED
    BY <2>2, <2>3, <2>6
<1>2. ASSUME q \in Seq(Sig), Len(q) <= Capacity
      PROVE  q \in Queue
  <2>1. Len(q) \in Nat /\ q \in [1 .. Len(q) -> Sig]
    BY <1>2, LenProperties
  <2>2. Len(q) \in 0 .. Capacity
    BY <1>0, <1>2, <2>1
  <2> QED
    BY <2>1, <2>2, Zenon DEF Queue
<1> QED
  BY <1>1, <1>2

\* uwsgi_signal_send keeps it so, ...
LEMMA SentQueue ==
  ASSUME NEW q \in Queue, NEW s \in Sig
  PROVE  Sent(q, s) \in Queue
<1>0. Capacity \in Nat
  BY SignalsAssumption
<1>1. q \in Seq(Sig) /\ Len(q) <= Capacity /\ Len(q) \in Nat
  BY QueueSeq, LenProperties
<1>2. Append(q, s) \in Seq(Sig) /\ Len(Append(q, s)) = Len(q) + 1
  BY <1>1, AppendProperties
<1>3. Len(q) < Capacity => Append(q, s) \in Queue
  <2> SUFFICES ASSUME Len(q) < Capacity
               PROVE  Append(q, s) \in Queue
    OBVIOUS
  <2>1. Len(Append(q, s)) <= Capacity
    BY <1>0, <1>1, <1>2
  <2> QED
    BY <1>2, <2>1, QueueSeq
<1> QED
  BY <1>3 DEF Sent

\* ... and so does a read.
LEMMA ReadQueue ==
  ASSUME NEW q \in Queue, q # << >>
  PROVE  Head(q) \in Sig /\ Tail(q) \in Queue
<1>0. Capacity \in Nat
  BY SignalsAssumption
<1>1. q \in Seq(Sig) /\ Len(q) <= Capacity /\ Len(q) \in Nat
  BY QueueSeq, LenProperties
<1>2. Head(q) \in Sig /\ Tail(q) \in Seq(Sig) /\ Len(Tail(q)) = Len(q) - 1
  BY <1>1, HeadTailProperties
<1>3. Len(Tail(q)) <= Capacity
  BY <1>0, <1>1, <1>2
<1> QED
  BY <1>2, <1>3, QueueSeq

\* A signal that is routed leaves pipes.
LEMMA RouteType ==
  ASSUME NEW t \in PipeType, NEW s \in Sig
  PROVE  Route(t, s) \in PipeType
<1> DEFINE r == table[0][s].receiver
<1> DEFINE f == [k \in Pool |-> IF k \in PoolsOf(r) THEN Sent(t.pool[k], s) ELSE t.pool[k]]
<1> DEFINE g == [p \in Proc |-> IF p \in ProcsOf(r) THEN Sent(t.own[p], s) ELSE t.own[p]]
<1>1. f \in [Pool -> Queue]
  BY SentQueue DEF PipeType
<1>2. g \in [Proc -> Queue]
  BY SentQueue DEF PipeType
<1>3. Route(t, s) = [t EXCEPT !.pool = f, !.own = g]
  BY Zenon DEF Route
<1> HIDE DEF f, g
<1> QED
  BY <1>1, <1>2, <1>3 DEF PipeType

\* The pipes after a signal is read from a process's own, from one of the shared ones, or
\* sent to the master.
LEMMA OneQueue ==
  ASSUME NEW t \in PipeType, NEW q \in Queue
  PROVE  /\ \A p \in Proc : [t EXCEPT !.own[p] = q] \in PipeType
         /\ \A k \in Pool : [t EXCEPT !.pool[k] = q] \in PipeType
         /\ \A k \in Pool : [t EXCEPT !.inbox[k] = q] \in PipeType
BY DEF PipeType
-----------------------------------------------------------------------------
(* Steps of the processes *)

\* A step of process p that leaves the tables alone.
LEMMA ProcStep ==
  ASSUME SignalsInv, NEW p \in Proc, NEW r \in ProcRecord, proc' = [proc EXCEPT ![p] = r],
         pipe' \in PipeType, sends' \in 0 .. MaxSends,
         UNCHANGED <<conf, table, timers, timers_cnt, asked, dyn>>,
         kills' = kills \/ kills' = kills + 1, kills' \in 0 .. MaxKills,
         r.gen <= kills', r.pc \in {"down", "cheaped"} => r.gen < kills',
         p \in Worker /\ r.pc = "loading" => conf.lazy = TRUE,
         \/ conf.lazy = TRUE /\ r.pc \in {"loading", "down", "cheaped"}
         \/ conf.lazy = FALSE
         \/ p \notin Worker
         \/ r.gen = proc[p].gen /\ proc[p].pc \notin {"loading", "down", "cheaped"},
         r.pc = "handler" => <<p, r.sig>> \in dyn \/ r.runs \in {MasterMemory, <<p, r.gen>>},
         p \in Worker /\ r.pc \in Adding =>
            /\ r.pc = "fill" /\ ~Locked /\ timers_cnt < MaxTimers
            /\ r.call.sig \in Sig /\ r.call.iterations \in Iterations
  PROVE  SignalsInv'
<1> USE DEF SignalsInv
<1>0. MaxKills \in Nat
  BY SignalsAssumption
<1>1. proc \in [Proc -> ProcRecord] /\ Worker \subseteq Proc
  BY DEF TypeOK, ProcRecord, Handler, Proc
<1>2. /\ proc' \in [Proc -> ProcRecord] /\ proc'[p] = r
      /\ \A q \in Proc \ {p} : proc'[q] = proc[q]
  BY <1>1
<1>3. TypeOK'
  BY <1>2 DEF TypeOK, ProcRecord, Handler, PipeType
<1>4. GensCounted'
  <2>1. ASSUME NEW q \in Proc
        PROVE  proc[q].gen \in Nat
    <3>1. proc[q].gen \in 0 .. MaxKills
      BY <1>1 DEF ProcRecord
    <3> QED
      BY <1>0, <3>1
  <2>2. kills \in Nat /\ kills' \in Nat /\ kills <= kills'
    <3>1. kills \in 0 .. MaxKills
      BY DEF TypeOK
    <3> HIDE DEF SignalsInv
    <3> QED
      BY <1>0, <3>1
  <2>3. ASSUME NEW q \in Proc
        PROVE  proc'[q].gen <= kills' /\ (proc'[q].pc \in {"down", "cheaped"} => proc'[q].gen < kills')
    <3>1. CASE q = p
      BY <1>2, <3>1
    <3>2. CASE q # p
      <4>1. proc'[q] = proc[q] /\ proc[q].gen <= kills /\ (proc[q].pc \in {"down", "cheaped"} => proc[q].gen < kills)
        BY <1>2, <3>2 DEF GensCounted
      <4>2. proc[q].gen \in Nat
        BY <2>1
      <4> HIDE DEF SignalsInv
      <4> QED
        BY <2>2, <4>1, <4>2
    <3> QED
      BY <3>1, <3>2
  <2> QED
    BY <2>3 DEF GensCounted
<1>5. TableKept'
  <2>1. ASSUME NEW w \in Worker, NEW s \in Sig, <<w, s>> \notin dyn,
               table[w][s].handler \notin {NoHandler, MasterMemory}
        PROVE  /\ conf.lazy = TRUE
               /\ table[w][s].handler = <<w, proc'[w].gen>> \/ proc'[w].pc \in {"loading", "down", "cheaped"}
    <3>1. /\ conf.lazy = TRUE
          /\ table[w][s].handler = <<w, proc[w].gen>> \/ proc[w].pc \in {"loading", "down", "cheaped"}
      BY <2>1 DEF TableKept, Memory
    <3>2. CASE w = p
      BY <1>1, <1>2, <3>1, <3>2
    <3>3. CASE w # p
      BY <1>1, <1>2, <3>1, <3>3
    <3> QED
      BY <3>2, <3>3
  <2>2. \A s \in Sig : table[0][s].handler \in {NoHandler, MasterMemory}
    BY DEF TableKept
  <2>3. \A w \in Worker : proc'[w].pc = "loading" => conf.lazy = TRUE
    BY <1>1, <1>2 DEF TableKept
  <2> HIDE DEF SignalsInv
  <2> QED
    BY <2>1, <2>2, <2>3 DEF TableKept, Memory
<1>6. RunsKept'
  BY <1>2 DEF RunsKept, Memory
<1>7. CallerKept'
  BY <1>1, <1>2 DEF CallerKept, Locked, Adding
<1>8. TimersKept'
  BY DEF TimersKept
<1> QED
  BY <1>3, <1>4, <1>5, <1>6, <1>7, <1>8 DEF SignalsInv

\* A step that only moves signals.
LEMMA PipeStep ==
  ASSUME SignalsInv, pipe' \in PipeType, sends' \in 0 .. MaxSends,
         UNCHANGED <<conf, table, proc, timers, timers_cnt, asked, dyn, kills>>
  PROVE  SignalsInv'
<1>1. TypeOK'
  BY DEF SignalsInv, TypeOK, PipeType
<1>2. GensCounted' /\ TableKept' /\ RunsKept'
  BY DEF SignalsInv, GensCounted, TableKept, RunsKept, Memory
<1>3. CallerKept' /\ TimersKept'
  BY DEF SignalsInv, CallerKept, TimersKept
<1> QED
  BY <1>1, <1>2, <1>3 DEF SignalsInv

\* What the type invariant says of one process, the pipes and the counters.
LEMMA ProcTyped ==
  ASSUME SignalsInv, NEW p \in Proc
  PROVE  /\ proc \in [Proc -> ProcRecord] /\ proc[p] \in ProcRecord
         /\ proc[p].gen \in Nat /\ kills \in 0 .. MaxKills /\ kills \in Nat
         /\ proc[p].gen <= kills /\ (proc[p].pc \in {"down", "cheaped"} => proc[p].gen < kills)
         /\ pipe \in PipeType /\ sends \in 0 .. MaxSends
         /\ conf.lazy \in BOOLEAN
         /\ MaxKills \in Nat /\ MaxSends \in Nat
<1>0. MaxKills \in Nat /\ MaxSends \in Nat
  BY SignalsAssumption
<1>1. /\ proc \in [Proc -> ProcRecord] /\ pipe \in PipeType /\ sends \in 0 .. MaxSends
      /\ conf.lazy \in BOOLEAN /\ kills \in 0 .. MaxKills
  BY DEF SignalsInv, TypeOK, ProcRecord, PipeType, Handler
<1>2. proc[p] \in ProcRecord
  BY <1>1
<1>3. proc[p].gen \in 0 .. MaxKills
  BY <1>2 DEF ProcRecord
<1>4. proc[p].gen \in Nat /\ kills \in Nat
  BY <1>0, <1>1, <1>3
<1> QED
  BY <1>0, <1>1, <1>2, <1>4 DEF SignalsInv, GensCounted

\* A request starts.
LEMMA StepRequestStarts ==
  ASSUME SignalsInv, NEW w \in Worker, RequestStarts(w)
  PROVE  SignalsInv'
<1> DEFINE r == [proc[w] EXCEPT !.pc = "request"]
<1>1. w \in Proc
  BY DEF Proc
<1>2. proc[w] \in ProcRecord /\ proc \in [Proc -> ProcRecord]
  BY <1>1, ProcTyped
<1>3. proc' = [proc EXCEPT ![w] = r]
  BY <1>1, <1>2 DEF RequestStarts, Goto, ProcRecord
<1>4. r \in ProcRecord /\ r.pc = "request" /\ r.gen = proc[w].gen
  BY <1>2 DEF ProcRecord, Place
<1>5. UNCHANGED <<conf, table, pipe, timers, timers_cnt, asked, dyn, sends, kills>> /\ proc[w].pc = "idle"
  BY DEF RequestStarts, At
<1> HIDE DEF r
<1> QED
  BY <1>1, <1>3, <1>4, <1>5, ProcTyped, ProcStep DEF Adding

\* A request ends.
LEMMA StepRequestEnds ==
  ASSUME SignalsInv, NEW w \in Worker, RequestEnds(w)
  PROVE  SignalsInv'
<1> DEFINE r == [proc[w] EXCEPT !.pc = "idle"]
<1>1. w \in Proc
  BY DEF Proc
<1>2. proc[w] \in ProcRecord /\ proc \in [Proc -> ProcRecord]
  BY <1>1, ProcTyped
<1>3. proc' = [proc EXCEPT ![w] = r]
  BY <1>1, <1>2 DEF RequestEnds, Goto, ProcRecord
<1>4. r \in ProcRecord /\ r.pc = "idle" /\ r.gen = proc[w].gen
  BY <1>2 DEF ProcRecord, Place
<1>5. UNCHANGED <<conf, table, pipe, timers, timers_cnt, asked, dyn, sends, kills>> /\ proc[w].pc = "request"
  BY DEF RequestEnds, At
<1> HIDE DEF r
<1> QED
  BY <1>1, <1>3, <1>4, <1>5, ProcTyped, ProcStep DEF Adding

\* A caller takes the lock of the timers while the table has a free entry.
LEMMA StepAddTimer ==
  ASSUME SignalsInv, NEW w \in Worker, NEW s \in Sig, NEW n \in Iterations, AddTimer(w, s, n)
  PROVE  SignalsInv'
<1> DEFINE c == [sig |-> s, iterations |-> n]
<1> DEFINE r == [proc[w] EXCEPT !.pc = "fill", !.call = c]
<1>1. w \in Proc
  BY DEF Proc
<1>2. proc[w] \in ProcRecord /\ proc \in [Proc -> ProcRecord]
  BY <1>1, ProcTyped
<1>3. proc' = [proc EXCEPT ![w] = r]
  BY <1>1, <1>2 DEF AddTimer, ProcRecord
<1>6. c \in Call /\ c.sig \in Sig /\ c.iterations \in Iterations
  BY DEF Call
<1> HIDE DEF c
<1>4. r \in ProcRecord /\ r.pc = "fill" /\ r.gen = proc[w].gen /\ r.call = c
  BY <1>2, <1>6 DEF ProcRecord, Place
<1>5. UNCHANGED <<conf, table, pipe, timers, timers_cnt, asked, dyn, sends, kills>> /\ proc[w].pc = "request"
  BY DEF AddTimer, At
<1> HIDE DEF r
<1>7. ~Locked /\ timers_cnt < MaxTimers
  BY DEF AddTimer
<1> QED
  BY <1>1, <1>3, <1>4, <1>5, <1>6, <1>7, ProcTyped, ProcStep DEF Adding

\* A worker is cheaped.
LEMMA StepCheap ==
  ASSUME SignalsInv, NEW w \in Worker, Cheap(w)
  PROVE  SignalsInv'
<1> DEFINE r == [proc[w] EXCEPT !.pc = "cheaped"]
<1>1. w \in Proc
  BY DEF Proc
<1>2. proc[w] \in ProcRecord /\ proc \in [Proc -> ProcRecord]
  BY <1>1, ProcTyped
<1>3. proc' = [proc EXCEPT ![w] = r]
  BY <1>1, <1>2 DEF Cheap, Goto, ProcRecord
<1>4. r \in ProcRecord /\ r.pc = "cheaped" /\ r.gen = proc[w].gen
  BY <1>2 DEF ProcRecord, Place
<1>5. /\ UNCHANGED <<conf, table, pipe, timers, timers_cnt, asked, dyn, sends>> /\ proc[w].pc = "idle"
      /\ kills < MaxKills /\ kills' = kills + 1
  BY DEF Cheap, At
<1> HIDE DEF r
<1>6. kills' \in 0 .. MaxKills /\ proc[w].gen < kills' /\ proc[w].gen <= kills'
  BY <1>1, <1>5, ProcTyped
<1> QED
  BY <1>1, <1>3, <1>4, <1>5, <1>6, ProcTyped, ProcStep DEF Adding

\* A process dies; its row, its pipes and the entries it was writing stay.
LEMMA StepKill ==
  ASSUME SignalsInv, NEW p \in Proc, Kill(p)
  PROVE  SignalsInv'
<1> DEFINE r == [pc |-> "down", gen |-> proc[p].gen, sig |-> NoSig, runs |-> NoHandler, call |-> NoCall]
<1>2. proc[p] \in ProcRecord /\ proc \in [Proc -> ProcRecord]
  BY ProcTyped
<1>3. proc' = [proc EXCEPT ![p] = r]
  BY <1>2 DEF Kill, ProcRecord
<1>4. r \in ProcRecord /\ r.pc = "down" /\ r.gen = proc[p].gen
  <2>1. NoCall \in Call /\ NoHandler \in Handler
    BY DEF Call, NoCall, Handler
  <2> QED
    BY <1>2, <2>1 DEF ProcRecord, Place
<1>5. /\ UNCHANGED <<conf, table, pipe, timers, timers_cnt, asked, dyn, sends>>
      /\ kills < MaxKills /\ kills' = kills + 1
  BY DEF Kill
<1> HIDE DEF r
<1>6. kills' \in 0 .. MaxKills /\ proc[p].gen < kills' /\ proc[p].gen <= kills'
  BY <1>5, ProcTyped
<1>7. conf.lazy = TRUE \/ conf.lazy = FALSE
  BY ProcTyped
<1> QED
  BY <1>3, <1>4, <1>5, <1>6, <1>7, ProcTyped, ProcStep DEF Adding

\* A successor starts with the application of the master, or loads its own first.
LEMMA StepRespawn ==
  ASSUME SignalsInv, NEW p \in Proc, Respawn(p)
  PROVE  SignalsInv'
<1> DEFINE to == IF conf.lazy /\ p \in Worker THEN "loading" ELSE "idle"
<1> DEFINE n == proc[p].gen + 1
<1> DEFINE r == [proc[p] EXCEPT !.pc = to, !.gen = n]
<1>2. proc[p] \in ProcRecord /\ proc \in [Proc -> ProcRecord]
  BY ProcTyped
<1>3. proc' = [proc EXCEPT ![p] = r]
  BY <1>2, Zenon DEF Respawn
<1>5. UNCHANGED <<conf, table, pipe, timers, timers_cnt, asked, dyn, sends, kills>>
  BY DEF Respawn
<1>6. n \in 0 .. MaxKills /\ n <= kills
  <2>1. proc[p].gen < kills
    BY ProcTyped DEF Respawn
  <2> QED
    BY <2>1, ProcTyped
<1>7. /\ to \in {"loading", "idle"} /\ (to = "loading" => conf.lazy = TRUE)
      /\ conf.lazy = FALSE \/ p \notin Worker \/ (conf.lazy = TRUE /\ to = "loading")
  BY ProcTyped
<1> HIDE DEF to, n
<1>4. r \in ProcRecord /\ r.pc = to /\ r.gen = n
  BY <1>2, <1>6, <1>7 DEF ProcRecord, Place
<1> HIDE DEF r
<1> QED
  BY <1>3, <1>4, <1>5, <1>6, <1>7, ProcTyped, ProcStep DEF Adding

\* A handler ends.
LEMMA StepHandlerEnds ==
  ASSUME SignalsInv, NEW p \in Proc, HandlerEnds(p)
  PROVE  SignalsInv'
<1> DEFINE r == [proc[p] EXCEPT !.pc = "idle", !.sig = NoSig, !.runs = NoHandler]
<1>2. proc[p] \in ProcRecord /\ proc \in [Proc -> ProcRecord]
  BY ProcTyped
<1>3. proc' = [proc EXCEPT ![p] = r]
  BY <1>2, Zenon DEF HandlerEnds
<1>4. r \in ProcRecord /\ r.pc = "idle" /\ r.gen = proc[p].gen
  <2>1. NoHandler \in Handler
    BY DEF Handler
  <2> HIDE DEF NoHandler
  <2> QED
    BY <1>2, <2>1 DEF ProcRecord, Place
<1>5. UNCHANGED <<conf, table, pipe, timers, timers_cnt, asked, dyn, sends, kills>> /\ proc[p].pc = "handler"
  BY DEF HandlerEnds, At
<1> HIDE DEF r
<1> QED
  BY <1>3, <1>4, <1>5, ProcTyped, ProcStep DEF Adding

\* uwsgi_signal_handler: an idle process has loaded its application, so what it finds in its
\* row is of its own memory, the master's, or was registered in a request.
LEMMA HandleStep ==
  ASSUME SignalsInv, NEW p \in Proc, NEW s \in Sig, proc[p].pc = "idle", Handle(p, s),
         pipe' \in PipeType, UNCHANGED <<conf, table, timers, timers_cnt, asked, dyn, sends, kills>>
  PROVE  SignalsInv'
<1> DEFINE e == table[Row(p)][s]
<1>1. proc[p] \in ProcRecord /\ proc \in [Proc -> ProcRecord]
  BY ProcTyped
<1>2. CASE MayRun(p, e)
  <2> DEFINE h == e.handler
  <2> DEFINE r == [proc[p] EXCEPT !.pc = "handler", !.sig = s, !.runs = h]
  <2>1. proc' = [proc EXCEPT ![p] = r]
    BY <1>1, <1>2, Zenon DEF Handle
  <2>2. h \in Handler /\ h # NoHandler
    <3>1. Row(p) \in 0 .. NumProc
      <4>1. NumProc \in Nat
        BY SignalsAssumption
      <4>2. CASE p \in Worker
        <5>1. p \in 1 .. NumProc
          BY <4>2 DEF Worker
        <5>2. p \in 0 .. NumProc
          BY <4>1, <5>1
        <5> QED
          BY <4>2, <5>2 DEF Row
      <4>3. CASE p \notin Worker
        <5>1. 0 \in 0 .. NumProc
          BY <4>1
        <5> QED
          BY <4>3, <5>1 DEF Row
      <4> QED
        BY <4>2, <4>3
    <3>2. e \in Entry
      BY <3>1 DEF SignalsInv, TypeOK
    <3> QED
      BY <1>2, <3>2 DEF Entry, Handler, MayRun
  <2>3. <<p, s>> \in dyn \/ h \in {MasterMemory, <<p, proc[p].gen>>}
    <3>1. CASE p \in Worker
      <4>1. Row(p) = p
        BY <3>1 DEF Row
      <4> HIDE DEF NoHandler, MasterMemory
      <4> QED
        BY <2>2, <3>1, <4>1 DEF SignalsInv, TableKept, Memory
    <3>2. CASE p \notin Worker
      <4>1. Row(p) = 0
        BY <3>2 DEF Row
      <4> QED
        BY <2>2, <4>1 DEF SignalsInv, TableKept
    <3> QED
      BY <3>1, <3>2
  <2> HIDE DEF h, e
  <2>4. r \in ProcRecord /\ r.pc = "handler" /\ r.gen = proc[p].gen /\ r.sig = s /\ r.runs = h
    BY <1>1, <2>2 DEF ProcRecord, Place
  <2> HIDE DEF r
  <2> QED
    BY <2>1, <2>3, <2>4, ProcTyped, ProcStep DEF Adding
<1>3. CASE ~MayRun(p, e)
  <2>1. proc' = proc
    BY <1>3 DEF Handle
  <2> QED
    BY <2>1, ProcTyped, PipeStep
<1> QED
  BY <1>2, <1>3

\* A process reads a signal of its own pipe ...
LEMMA StepReceiveOwn ==
  ASSUME SignalsInv, NEW p \in Proc, ReceiveOwn(p)
  PROVE  SignalsInv'
<1>1. pipe \in PipeType
  BY ProcTyped
<1>2. pipe.own[p] \in Queue
  BY <1>1 DEF PipeType
<1>3. Head(pipe.own[p]) \in Sig /\ Tail(pipe.own[p]) \in Queue
  BY <1>2, ReadQueue DEF ReceiveOwn
<1>4. pipe' = [pipe EXCEPT !.own[p] = Tail(pipe.own[p])]
  BY Zenon DEF ReceiveOwn
<1>5. pipe' \in PipeType
  <2> DEFINE q == Tail(pipe.own[p])
  <2>1. q \in Queue /\ pipe' = [pipe EXCEPT !.own[p] = q]
    BY <1>3, <1>4
  <2> HIDE DEF q
  <2> QED
    BY <1>1, <2>1 DEF PipeType
<1> QED
  BY <1>3, <1>5, HandleStep DEF ReceiveOwn, At

\* ... or of the one it shares.
LEMMA StepReceivePool ==
  ASSUME SignalsInv, NEW p \in Proc, ReceivePool(p)
  PROVE  SignalsInv'
<1> DEFINE k == PoolOf(p)
<1>1. pipe \in PipeType /\ k \in Pool
  BY ProcTyped DEF PoolOf, Pool
<1>2. pipe.pool[k] \in Queue
  BY <1>1 DEF PipeType
<1>3. Head(pipe.pool[k]) \in Sig /\ Tail(pipe.pool[k]) \in Queue
  BY <1>2, ReadQueue DEF ReceivePool
<1>4. pipe' = [pipe EXCEPT !.pool[k] = Tail(pipe.pool[k])]
  BY Zenon DEF ReceivePool
<1>5. pipe' \in PipeType
  <2> DEFINE q == Tail(pipe.pool[k])
  <2>1. q \in Queue /\ pipe' = [pipe EXCEPT !.pool[k] = q]
    BY <1>3, <1>4
  <2> HIDE DEF q, k
  <2> QED
    BY <1>1, <2>1 DEF PipeType
<1> QED
  BY <1>3, <1>5, HandleStep DEF ReceivePool, At

\* An application sends a signal to the master.
LEMMA StepSignal ==
  ASSUME SignalsInv, NEW p \in Proc, NEW s \in Sig, Signal(p, s)
  PROVE  SignalsInv'
<1> DEFINE k == PoolOf(p)
<1>1. pipe \in PipeType /\ k \in Pool
  BY ProcTyped DEF PoolOf, Pool
<1>2. pipe.inbox[k] \in Queue
  BY <1>1 DEF PipeType
<1> DEFINE q == Sent(pipe.inbox[k], s)
<1>3. q \in Queue
  BY <1>2, SentQueue
<1>4. pipe' = [pipe EXCEPT !.inbox[k] = q]
  BY Zenon DEF Signal
<1>5. sends' \in 0 .. MaxSends
  <2>1. sends \in 0 .. MaxSends /\ MaxSends \in Nat
    BY ProcTyped
  <2> QED
    BY <2>1 DEF Signal
<1> HIDE DEF q, k
<1>6. pipe' \in PipeType
  BY <1>1, <1>3, <1>4 DEF PipeType
<1> QED
  BY <1>5, <1>6, PipeStep DEF Signal

\* Something happens that the master routes a signal for.
LEMMA StepEvent ==
  ASSUME SignalsInv, NEW s \in Sig, Event(s)
  PROVE  SignalsInv'
<1>1. pipe \in PipeType /\ sends \in 0 .. MaxSends /\ MaxSends \in Nat
  BY SignalsAssumption DEF SignalsInv, TypeOK, PipeType
<1>2. pipe' \in PipeType
  BY <1>1, RouteType DEF Event
<1>3. sends' \in 0 .. MaxSends
  BY <1>1 DEF Event
<1> QED
  BY <1>2, <1>3, PipeStep DEF Event

\* The master routes a signal it read.
LEMMA StepManageSignal ==
  ASSUME SignalsInv, NEW k \in Pool, ManageSignal(k)
  PROVE  SignalsInv'
<1>1. pipe \in PipeType /\ sends \in 0 .. MaxSends
  BY DEF SignalsInv, TypeOK, PipeType
<1>2. pipe.inbox[k] \in Queue
  BY <1>1 DEF PipeType
<1> DEFINE q == Tail(pipe.inbox[k])
<1> DEFINE t == [pipe EXCEPT !.inbox[k] = q]
<1>3. Head(pipe.inbox[k]) \in Sig /\ q \in Queue
  BY <1>2, ReadQueue DEF ManageSignal
<1>4. pipe' = Route(t, Head(pipe.inbox[k]))
  BY Zenon DEF ManageSignal
<1> HIDE DEF q
<1>5. t \in PipeType
  BY <1>1, <1>3 DEF PipeType
<1> HIDE DEF t
<1>6. pipe' \in PipeType
  BY <1>3, <1>4, <1>5, RouteType
<1> QED
  BY <1>1, <1>6, PipeStep DEF ManageSignal
-----------------------------------------------------------------------------
(* Registration *)

\* A worker that is loading, or in a request, changes its row.
LEMMA TableStep ==
  ASSUME SignalsInv, NEW w \in Worker,
         proc' \in [Proc -> ProcRecord], \A q \in Proc \ {w} : proc'[q] = proc[q],
         table' \in [0 .. NumProc -> [Sig -> Entry]],
         \A v \in 0 .. NumProc : v # w => table'[v] = table[v],
         UNCHANGED <<conf, pipe, timers, timers_cnt, asked, sends, kills>>,
         proc'[w].gen = proc[w].gen, proc[w].pc \in {"loading", "request"}, proc'[w].pc \in {"idle", "request"},
         dyn' \subseteq Worker \X Sig,
         \A v \in Worker \ {w}, s \in Sig : <<v, s>> \in dyn' <=> <<v, s>> \in dyn,
         \A s \in Sig : \/ <<w, s>> \in dyn'
                        \/ conf.lazy = TRUE /\ table'[w][s].handler = <<w, proc[w].gen>>
                        \/ table'[w][s] = table[w][s] /\ proc[w].pc = "request" /\ <<w, s>> \notin dyn
  PROVE  SignalsInv'
<1> USE DEF SignalsInv
<1>1. proc \in [Proc -> ProcRecord] /\ Worker \subseteq Proc /\ table \in [0 .. NumProc -> [Sig -> Entry]]
  BY DEF TypeOK, ProcRecord, Handler, Proc
<1>2. /\ proc' \in [Proc -> ProcRecord]
      /\ \A q \in Proc \ {w} : proc'[q] = proc[q]
  OBVIOUS
<1>3. w \in 0 .. NumProc /\ w # 0
  <2>1. NumProc \in Nat
    BY SignalsAssumption
  <2>2. w \in 1 .. NumProc
    BY DEF Worker
  <2> HIDE DEF SignalsInv
  <2> QED
    BY <2>1, <2>2
<1>4. /\ table' \in [0 .. NumProc -> [Sig -> Entry]]
      /\ \A v \in 0 .. NumProc : v # w => table'[v] = table[v]
  OBVIOUS
<1>5. TypeOK'
  BY <1>2, <1>4 DEF TypeOK, ProcRecord, Handler
<1>6. GensCounted'
  BY <1>2 DEF GensCounted
<1>7. TableKept'
  <2>1. \A s \in Sig : table'[0][s].handler \in {NoHandler, MasterMemory}
    <3>0. NumProc \in Nat
      BY SignalsAssumption
    <3>1. 0 \in 0 .. NumProc
      <4> HIDE DEF SignalsInv
      <4> QED
        BY <3>0
    <3> QED
      BY <1>3, <1>4, <3>1 DEF TableKept
  <2>2. ASSUME NEW v \in Worker, NEW s \in Sig
        PROVE  \/ <<v, s>> \in dyn'
               \/ table'[v][s].handler \in {NoHandler, MasterMemory}
               \/ /\ conf.lazy = TRUE
                  /\ table'[v][s].handler = <<v, proc'[v].gen>> \/ proc'[v].pc \in {"loading", "down", "cheaped"}
    <3>1. v \in 0 .. NumProc
      <4>1. NumProc \in Nat
        BY SignalsAssumption
      <4>2. v \in 1 .. NumProc
        BY DEF Worker
      <4> HIDE DEF SignalsInv
      <4> QED
        BY <4>1, <4>2
    <3>2. \/ <<v, s>> \in dyn
          \/ table[v][s].handler \in {NoHandler, MasterMemory}
          \/ /\ conf.lazy = TRUE
             /\ table[v][s].handler = <<v, proc[v].gen>> \/ proc[v].pc \in {"loading", "down", "cheaped"}
      BY DEF TableKept, Memory
    <3> HIDE DEF SignalsInv
    <3>3. CASE v = w
      BY <1>2, <1>4, <3>2, <3>3
    <3>4. CASE v # w
      BY <1>1, <1>2, <1>4, <3>1, <3>2, <3>4
    <3> QED
      BY <3>3, <3>4
  <2>3. \A v \in Worker : proc'[v].pc = "loading" => conf.lazy = TRUE
    BY <1>1, <1>2 DEF TableKept
  <2> HIDE DEF SignalsInv
  <2> QED
    BY <2>1, <2>2, <2>3 DEF TableKept, Memory
<1>8. RunsKept'
  <2>1. ASSUME NEW q \in Proc, proc'[q].pc = "handler"
        PROVE  <<q, proc'[q].sig>> \in dyn' \/ proc'[q].runs \in {MasterMemory, <<q, proc'[q].gen>>}
    <3>1. q # w /\ proc'[q] = proc[q]
      BY <1>2, <2>1
    <3>2. <<q, proc[q].sig>> \in dyn \/ proc[q].runs \in {MasterMemory, <<q, proc[q].gen>>}
      BY <2>1, <3>1 DEF RunsKept, Memory
    <3>3. <<q, proc[q].sig>> \in dyn => q \in Worker /\ proc[q].sig \in Sig
      BY DEF TypeOK
    <3> HIDE DEF SignalsInv
    <3> QED
      BY <3>1, <3>2, <3>3
  <2> QED
    BY <2>1 DEF RunsKept, Memory
<1>9. CallerKept'
  BY <1>1, <1>2 DEF CallerKept, Adding
<1>10. TimersKept'
  BY DEF TimersKept
<1> QED
  BY <1>5, <1>6, <1>7, <1>8, <1>9, <1>10 DEF SignalsInv

\* Every worker has a row.
LEMMA RowTyped ==
  ASSUME SignalsInv, NEW w \in Worker
  PROVE  w \in 0 .. NumProc /\ table \in [0 .. NumProc -> [Sig -> Entry]] /\ table[w] \in [Sig -> Entry]
<1>1. NumProc \in Nat
  BY SignalsAssumption
<1>2. w \in 1 .. NumProc
  BY DEF Worker
<1>3. w \in 0 .. NumProc
  BY <1>1, <1>2
<1>4. table \in [0 .. NumProc -> [Sig -> Entry]]
  BY DEF SignalsInv, TypeOK
<1> QED
  BY <1>3, <1>4

\* What a worker registers fits the table.
LEMMA EntryType ==
  ASSUME SignalsInv, NEW w \in Worker, NEW s \in Sig
  PROVE  [handler |-> Memory(w), receiver |-> conf.recv[s], wid |-> w] \in Entry
<1>1. w \in Proc /\ proc[w] \in ProcRecord
  BY ProcTyped DEF Proc
<1>2. proc[w].gen \in 0 .. MaxKills
  BY <1>1 DEF ProcRecord
<1>3. conf.recv[s] \in Receivers
  BY DEF SignalsInv, TypeOK
<1>4. w \in 0 .. NumProc
  BY RowTyped
<1>5. Memory(w) \in Worker \X (0 .. MaxKills)
  BY <1>2 DEF Memory
<1> HIDE DEF Memory
<1> QED
  BY <1>3, <1>4, <1>5 DEF Entry

\* The application is loaded: every handler of the row is of this incarnation.
LEMMA StepLoad ==
  ASSUME SignalsInv, NEW w \in Worker, Load(w)
  PROVE  SignalsInv'
<1> DEFINE e(s) == [handler |-> Memory(w), receiver |-> conf.recv[s], wid |-> w]
<1> DEFINE row == [s \in Sig |-> e(s)]
<1> DEFINE r == [proc[w] EXCEPT !.pc = "idle"]
<1>1. w \in Proc /\ proc[w] \in ProcRecord /\ proc \in [Proc -> ProcRecord]
  BY ProcTyped DEF Proc
<1>2. proc' = [proc EXCEPT ![w] = r]
  BY <1>1 DEF Load, Goto, ProcRecord
<1>3. r \in ProcRecord /\ r.pc = "idle" /\ r.gen = proc[w].gen
  BY <1>1 DEF ProcRecord, Place
<1>4. \A s \in Sig : e(s) \in Entry /\ e(s).handler = Memory(w)
  BY EntryType
<1>5. table' = [table EXCEPT ![w] = row]
  <2>1. table[w] \in [Sig -> Entry]
    BY RowTyped
  <2>2. ASSUME NEW s \in Sig
        PROVE  Registered(table[w], s, w, Memory(w))[s] = e(s)
    BY <2>1, Zenon DEF Registered
  <2>3. row = [s \in Sig |-> Registered(table[w], s, w, Memory(w))[s]]
    BY <2>2, Zenon
  <2> HIDE DEF row
  <2> QED
    BY <2>3, Zenon DEF Load
<1> HIDE DEF e
<1>6. row \in [Sig -> Entry] /\ \A s \in Sig : row[s].handler = Memory(w)
  BY <1>4
<1>7. conf.lazy = TRUE /\ proc[w].pc = "loading"
  BY DEF Load, At, SignalsInv, TableKept
<1>8. /\ UNCHANGED <<conf, pipe, timers, timers_cnt, asked, sends, kills>>
      /\ dyn' = dyn \ ({w} \X Sig) /\ dyn \subseteq Worker \X Sig
  BY DEF Load, SignalsInv, TypeOK
<1> HIDE DEF r, row
<1>9. /\ dyn' \subseteq Worker \X Sig
      /\ \A v \in Worker \ {w}, s \in Sig : <<v, s>> \in dyn' <=> <<v, s>> \in dyn
  BY <1>8
<1>10. \A s \in Sig : row[s].handler = <<w, r.gen>>
  BY <1>3, <1>6 DEF Memory
<1>11. \A s \in Sig : conf.lazy = TRUE /\ row[s].handler = <<w, proc[w].gen>>
  BY <1>3, <1>7, <1>10
<1>12. /\ proc' \in [Proc -> ProcRecord] /\ proc'[w].gen = proc[w].gen
       /\ \A q \in Proc \ {w} : proc'[q] = proc[q]
       /\ proc[w].pc \in {"loading", "request"} /\ proc'[w].pc \in {"idle", "request"}
  BY <1>1, <1>2, <1>3, <1>7
<1>13. /\ table' \in [0 .. NumProc -> [Sig -> Entry]] /\ table'[w] = row
       /\ \A v \in 0 .. NumProc : v # w => table'[v] = table[v]
  BY <1>5, <1>6, RowTyped
<1>14. \A s \in Sig : conf.lazy = TRUE /\ table'[w][s].handler = <<w, proc[w].gen>>
  BY <1>11, <1>13
<1>15. \A s \in Sig : \/ <<w, s>> \in dyn'
                      \/ conf.lazy = TRUE /\ table'[w][s].handler = <<w, proc[w].gen>>
                      \/ table'[w][s] = table[w][s] /\ proc[w].pc = "request" /\ <<w, s>> \notin dyn
  BY <1>14
<1> QED
  BY <1>8, <1>9, <1>12, <1>13, <1>15, TableStep

\* A handler registered in a request is recorded.
LEMMA StepRegister ==
  ASSUME SignalsInv, NEW w \in Worker, NEW s \in Sig, Register(w, s)
  PROVE  SignalsInv'
<1> DEFINE e == [handler |-> Memory(w), receiver |-> conf.recv[s], wid |-> w]
<1> DEFINE row == [table[w] EXCEPT ![s] = e]
<1> DEFINE r == proc[w]
<1>1. w \in Proc /\ proc[w] \in ProcRecord /\ proc \in [Proc -> ProcRecord]
  BY ProcTyped DEF Proc
<1>2. proc' = [proc EXCEPT ![w] = r]
  BY <1>1 DEF Register
<1>4. e \in Entry
  BY EntryType
<1>5. table[w] \in [Sig -> Entry]
  BY RowTyped
<1>6. table' = [table EXCEPT ![w] = row]
  BY Zenon DEF Register, Registered
<1> HIDE DEF e
<1>7. row \in [Sig -> Entry] /\ \A u \in Sig : u # s => row[u] = table[w][u]
  BY <1>4, <1>5
<1>8. /\ UNCHANGED <<conf, pipe, timers, timers_cnt, asked, sends, kills>>
      /\ dyn' = dyn \cup {<<w, s>>} /\ dyn \subseteq Worker \X Sig /\ proc[w].pc = "request"
  BY DEF Register, At, SignalsInv, TypeOK
<1> HIDE DEF row
<1>9. /\ dyn' \subseteq Worker \X Sig
      /\ \A v \in Worker \ {w}, u \in Sig : <<v, u>> \in dyn' <=> <<v, u>> \in dyn
      /\ \A u \in Sig : <<w, u>> \in dyn' \/ (u # s /\ <<w, u>> \notin dyn)
  BY <1>8
<1>12. /\ proc' \in [Proc -> ProcRecord] /\ proc'[w].gen = proc[w].gen
       /\ \A q \in Proc \ {w} : proc'[q] = proc[q]
       /\ proc[w].pc \in {"loading", "request"} /\ proc'[w].pc \in {"idle", "request"}
  BY <1>1, <1>2, <1>8
<1>13. /\ table' \in [0 .. NumProc -> [Sig -> Entry]] /\ table'[w] = row
       /\ \A v \in 0 .. NumProc : v # w => table'[v] = table[v]
  BY <1>6, <1>7, RowTyped
<1>14. \A u \in Sig : \/ <<w, u>> \in dyn'
                      \/ table'[w][u] = table[w][u] /\ proc[w].pc = "request" /\ <<w, u>> \notin dyn
  BY <1>7, <1>8, <1>9, <1>13
<1> QED
  BY <1>8, <1>9, <1>12, <1>13, <1>14, TableStep
-----------------------------------------------------------------------------
(* The timers *)

\* What a step on the table of timers leaves alone.
LEMMA TimerStep ==
  ASSUME SignalsInv, timers' \in [1 .. MaxTimers -> Timer], proc' \in [Proc -> ProcRecord],
         pipe' \in PipeType, timers_cnt' \in 0 .. MaxTimers, Len(asked') = timers_cnt',
         asked' \in Seq([sig : Sig, iterations : Iterations]),
         \A q \in Proc : /\ proc'[q].gen = proc[q].gen /\ proc'[q].sig = proc[q].sig
                         /\ proc'[q].runs = proc[q].runs
                         /\ \/ proc'[q].pc = proc[q].pc
                            \/ proc[q].pc \in Adding /\ proc'[q].pc \in Adding \cup {"request"},
         UNCHANGED <<conf, table, dyn, sends, kills>>, CallerKept', TimersKept'
  PROVE  SignalsInv'
<1>1. TypeOK'
  BY DEF SignalsInv, TypeOK, ProcRecord, Handler, PipeType
<1>2. GensCounted'
  BY DEF SignalsInv, GensCounted, Adding
<1>3. Worker \subseteq Proc
  BY DEF Proc
<1>4. /\ \A q \in Proc : Memory(q)' = Memory(q)
      /\ \A q \in Proc : proc[q].pc \in {"loading", "down", "cheaped"} => proc'[q].pc = proc[q].pc
      /\ \A q \in Proc : proc'[q].pc \in {"loading", "handler"} => proc'[q].pc = proc[q].pc
  BY DEF Memory, Adding
<1>5. TableKept'
  <2>1. TableKept
    BY DEF SignalsInv
  <2>2. \A s \in Sig : table'[0][s].handler \in {NoHandler, MasterMemory}
    BY <2>1 DEF TableKept
  <2>3. ASSUME NEW w \in Worker, NEW s \in Sig
        PROVE  \/ <<w, s>> \in dyn'
               \/ table'[w][s].handler \in {NoHandler, MasterMemory}
               \/ /\ conf'.lazy = TRUE
                  /\ table'[w][s].handler = Memory(w)' \/ proc'[w].pc \in {"loading", "down", "cheaped"}
    BY <1>3, <1>4, <2>1 DEF TableKept
  <2>4. \A w \in Worker : proc'[w].pc = "loading" => conf'.lazy = TRUE
    BY <1>3, <1>4, <2>1 DEF TableKept
  <2> QED
    BY <2>2, <2>3, <2>4 DEF TableKept
<1>6. RunsKept'
  <2>1. RunsKept
    BY DEF SignalsInv
  <2> QED
    BY <1>4, <2>1 DEF RunsKept
<1> QED
  BY <1>1, <1>2, <1>5, <1>6 DEF SignalsInv

\* The entry a caller writes is the one after those that are counted.
LEMMA NextEntry ==
  ASSUME SignalsInv, NEW w \in Worker, proc[w].pc \in Adding
  PROVE  /\ w \in Proc /\ proc \in [Proc -> ProcRecord] /\ proc[w] \in ProcRecord /\ pipe \in PipeType
         /\ timers_cnt \in Nat /\ timers_cnt \in 0 .. MaxTimers /\ timers_cnt + 1 \in 1 .. MaxTimers
         /\ timers \in [1 .. MaxTimers -> Timer] /\ timers[timers_cnt + 1] \in Timer
         /\ proc[w].call \in Call /\ proc[w].call.sig \in Sig /\ proc[w].call.iterations \in Iterations
         /\ timers[timers_cnt + 1].registered = FALSE /\ timers[timers_cnt + 1].armed = FALSE
         /\ Len(asked) = timers_cnt /\ asked \in Seq([sig : Sig, iterations : Iterations])
         /\ MaxTimers \in Nat
         /\ \A v \in Worker : proc[v].pc \in Adding => v = w
<1>1. MaxTimers \in Nat
  BY SignalsAssumption
<1>2. /\ timers_cnt \in 0 .. MaxTimers /\ timers \in [1 .. MaxTimers -> Timer] /\ timers_cnt < MaxTimers
      /\ Len(asked) = timers_cnt /\ asked \in Seq([sig : Sig, iterations : Iterations])
      /\ proc[w].call.sig \in Sig /\ proc[w].call.iterations \in Iterations
      /\ \A v \in Worker : proc[v].pc \in Adding => v = w
  BY DEF SignalsInv, TypeOK, CallerKept
<1>3. timers_cnt \in Nat /\ timers_cnt + 1 \in 1 .. MaxTimers /\ timers_cnt + 1 > timers_cnt
  BY <1>1, <1>2
<1>4. timers[timers_cnt + 1].registered = FALSE /\ timers[timers_cnt + 1].armed = FALSE
  BY <1>3 DEF SignalsInv, TimersKept
<1>5. w \in Proc
  BY DEF Proc
<1>6. proc \in [Proc -> ProcRecord] /\ proc[w] \in ProcRecord /\ pipe \in PipeType
  BY <1>5, ProcTyped
<1>7. proc[w].call \in Call
  BY <1>6 DEF ProcRecord
<1>8. timers[timers_cnt + 1] \in Timer
  BY <1>2, <1>3
<1> QED
  BY <1>1, <1>2, <1>3, <1>4, <1>5, <1>6, <1>7, <1>8

\* A caller that writes entry timers_cnt + 1, which the master does not look at yet.
LEMMA WriteEntry ==
  ASSUME SignalsInv, NEW w \in Worker, proc[w].pc \in Adding,
         timers' \in [1 .. MaxTimers -> Timer],
         \A i \in 1 .. MaxTimers : i # timers_cnt + 1 => timers'[i] = timers[i],
         timers'[timers_cnt + 1].registered = FALSE, timers'[timers_cnt + 1].armed = FALSE,
         proc' \in [Proc -> ProcRecord], \A q \in Proc \ {w} : proc'[q] = proc[q],
         proc'[w].gen = proc[w].gen, proc'[w].sig = proc[w].sig, proc'[w].runs = proc[w].runs,
         proc'[w].call = proc[w].call, proc'[w].pc \in {"sign", "count"},
         timers'[timers_cnt + 1].iterations = proc[w].call.iterations, timers'[timers_cnt + 1].done = 0,
         proc'[w].pc = "count" => timers'[timers_cnt + 1].sig = proc[w].call.sig,
         UNCHANGED <<conf, table, pipe, timers_cnt, asked, dyn, sends, kills>>
  PROVE  SignalsInv'
<1>1. Worker \subseteq Proc
  BY DEF Proc
<1>2. CallerKept'
  <2>1. \A v \in Worker : v # w => proc'[v] = proc[v] /\ proc'[v].pc \notin Adding
    BY <1>1, NextEntry
  <2>2. timers_cnt < MaxTimers
    BY DEF SignalsInv, CallerKept
  <2>3. proc[w].call.sig \in Sig /\ proc[w].call.iterations \in Iterations
    BY NextEntry
  <2> QED
    BY <2>1, <2>2, <2>3 DEF CallerKept
<1>3. TimersKept'
  <2>0. timers_cnt \in Nat /\ MaxTimers \in Nat
    BY NextEntry
  <2>1. ASSUME NEW i \in 1 .. MaxTimers, i <= timers_cnt
        PROVE  i # timers_cnt + 1
    BY <2>0, <2>1
  <2> QED
    BY <2>1 DEF SignalsInv, TimersKept
<1>4. \A q \in Proc : /\ proc'[q].gen = proc[q].gen /\ proc'[q].sig = proc[q].sig
                      /\ proc'[q].runs = proc[q].runs
                      /\ \/ proc'[q].pc = proc[q].pc
                         \/ proc[q].pc \in Adding /\ proc'[q].pc \in Adding \cup {"request"}
  BY DEF Adding
<1> QED
  BY <1>2, <1>3, <1>4, NextEntry, TimerStep

\* A caller fills the entry, ...
LEMMA StepFillTimer ==
  ASSUME SignalsInv, NEW w \in Worker, FillTimer(w)
  PROVE  SignalsInv'
<1> DEFINE n == timers_cnt + 1
<1> DEFINE m == proc[w].call.iterations
<1> DEFINE t == [timers[n] EXCEPT !.registered = FALSE, !.iterations = m, !.done = 0]
<1> DEFINE r == [proc[w] EXCEPT !.pc = "sign"]
<1>1. proc[w].pc \in Adding
  BY DEF FillTimer, At, Adding
<1>2. proc' = [proc EXCEPT ![w] = r]
  BY <1>1, NextEntry DEF FillTimer, Goto, ProcRecord
<1>3. r \in ProcRecord /\ r.pc = "sign" /\ r.gen = proc[w].gen /\ r.sig = proc[w].sig
      /\ r.runs = proc[w].runs /\ r.call = proc[w].call
  BY <1>1, NextEntry DEF ProcRecord, Place
<1>4. timers' = [timers EXCEPT ![n] = t]
  BY Zenon DEF FillTimer
<1>5. m \in Iterations /\ timers[n] \in Timer /\ timers[n].armed = FALSE
  BY <1>1, NextEntry
<1> HIDE DEF m
<1>6. t \in Timer /\ t.registered = FALSE /\ t.iterations = m /\ t.done = 0 /\ t.armed = timers[n].armed
  BY <1>5 DEF Timer
<1> HIDE DEF t, r
<1>7. UNCHANGED <<conf, table, pipe, timers_cnt, asked, dyn, sends, kills>>
  BY DEF FillTimer
<1>8. /\ timers' \in [1 .. MaxTimers -> Timer] /\ timers'[n] = t
      /\ \A i \in 1 .. MaxTimers : i # n => timers'[i] = timers[i]
  BY <1>1, <1>4, <1>6, NextEntry
<1>9. /\ proc' \in [Proc -> ProcRecord] /\ proc'[w] = r
      /\ \A q \in Proc \ {w} : proc'[q] = proc[q]
  BY <1>1, <1>2, <1>3, NextEntry
<1> QED
  BY <1>1, <1>3, <1>5, <1>6, <1>7, <1>8, <1>9, WriteEntry DEF m

\* ... writes the signal, ...
LEMMA StepSignTimer ==
  ASSUME SignalsInv, NEW w \in Worker, SignTimer(w)
  PROVE  SignalsInv'
<1> DEFINE n == timers_cnt + 1
<1> DEFINE s == proc[w].call.sig
<1> DEFINE t == [timers[n] EXCEPT !.sig = s]
<1> DEFINE r == [proc[w] EXCEPT !.pc = "count"]
<1>0. proc[w].pc = "sign"
  BY DEF SignTimer, At
<1>1. proc[w].pc \in Adding
  BY <1>0 DEF Adding
<1>2. proc' = [proc EXCEPT ![w] = r]
  BY <1>1, NextEntry DEF SignTimer, Goto, ProcRecord
<1>3. r \in ProcRecord /\ r.pc = "count" /\ r.gen = proc[w].gen /\ r.sig = proc[w].sig
      /\ r.runs = proc[w].runs /\ r.call = proc[w].call
  BY <1>1, NextEntry DEF ProcRecord, Place
<1>4. timers' = [timers EXCEPT ![n] = t]
  BY Zenon DEF SignTimer
<1>5. /\ s \in Sig /\ timers[n] \in Timer /\ timers[n].armed = FALSE /\ timers[n].registered = FALSE
      /\ timers[n].iterations = proc[w].call.iterations /\ timers[n].done = 0
  BY <1>0, <1>1, NextEntry DEF SignalsInv, CallerKept
<1> HIDE DEF s
<1>6. /\ t \in Timer /\ t.registered = timers[n].registered /\ t.iterations = timers[n].iterations
      /\ t.done = timers[n].done /\ t.armed = timers[n].armed /\ t.sig = s
  BY <1>5 DEF Timer
<1> HIDE DEF t, r
<1>7. UNCHANGED <<conf, table, pipe, timers_cnt, asked, dyn, sends, kills>>
  BY DEF SignTimer
<1>8. /\ timers' \in [1 .. MaxTimers -> Timer] /\ timers'[n] = t
      /\ \A i \in 1 .. MaxTimers : i # n => timers'[i] = timers[i]
  BY <1>1, <1>4, <1>6, NextEntry
<1>9. /\ proc' \in [Proc -> ProcRecord] /\ proc'[w] = r
      /\ \A q \in Proc \ {w} : proc'[q] = proc[q]
  BY <1>1, <1>2, <1>3, NextEntry
<1> QED
  BY <1>1, <1>3, <1>5, <1>6, <1>7, <1>8, <1>9, WriteEntry DEF s

\* ... and counts it: the master sees a whole entry.
LEMMA StepCountTimer ==
  ASSUME SignalsInv, NEW w \in Worker, CountTimer(w)
  PROVE  SignalsInv'
<1> DEFINE n == timers_cnt + 1
<1> DEFINE c == proc[w].call
<1> DEFINE r == [proc[w] EXCEPT !.pc = "request", !.call = NoCall]
<1>0. proc[w].pc = "count"
  BY DEF CountTimer, At
<1>1. proc[w].pc \in Adding
  BY <1>0 DEF Adding
<1>2. proc' = [proc EXCEPT ![w] = r]
  BY Zenon DEF CountTimer
<1>3. /\ r \in ProcRecord /\ r.pc = "request" /\ r.gen = proc[w].gen /\ r.sig = proc[w].sig
      /\ r.runs = proc[w].runs
  <2>1. NoCall \in Call
    BY DEF NoCall, Call
  <2> HIDE DEF NoCall
  <2> QED
    BY <1>1, <2>1, NextEntry DEF ProcRecord, Place
<1> HIDE DEF r
<1>4. /\ c \in Call /\ c.sig \in Sig /\ c.iterations \in Iterations
      /\ timers[n].iterations = c.iterations /\ timers[n].done = 0 /\ timers[n].sig = c.sig
      /\ timers[n].registered = FALSE /\ timers[n].armed = FALSE
  BY <1>0, <1>1, NextEntry DEF SignalsInv, CallerKept
<1>5. c \in [sig : Sig, iterations : Iterations]
  BY <1>4 DEF Call
<1>6. /\ UNCHANGED <<conf, table, pipe, timers, dyn, sends, kills>>
      /\ timers_cnt' = n /\ asked' = Append(asked, c)
  BY DEF CountTimer
<1> HIDE DEF c
<1>7. /\ n \in 1 .. MaxTimers /\ timers_cnt \in Nat /\ MaxTimers \in Nat /\ timers_cnt \in 0 .. MaxTimers
      /\ Len(asked) = timers_cnt /\ asked \in Seq([sig : Sig, iterations : Iterations])
      /\ timers \in [1 .. MaxTimers -> Timer]
  BY <1>1, NextEntry
<1>8. /\ asked' \in Seq([sig : Sig, iterations : Iterations]) /\ Len(asked') = n
      /\ asked'[n] = c /\ \A i \in 1 .. timers_cnt : asked'[i] = asked[i]
  BY <1>5, <1>6, <1>7, AppendProperties
<1>9. /\ proc' \in [Proc -> ProcRecord] /\ proc'[w] = r
      /\ \A q \in Proc \ {w} : proc'[q] = proc[q]
  BY <1>1, <1>2, <1>3, NextEntry
<1>10. CallerKept'
  <2>1. \A v \in Worker : proc'[v].pc \notin Adding
    <3>1. Worker \subseteq Proc
      BY DEF Proc
    <3>2. \A v \in Worker : proc[v].pc \in Adding => v = w
      BY <1>1, NextEntry
    <3>3. proc'[w].pc \notin Adding
      BY <1>3, <1>9 DEF Adding
    <3> QED
      BY <1>9, <3>1, <3>2, <3>3
  <2> QED
    BY <2>1 DEF CallerKept
<1>11. TimersKept'
  <2> SUFFICES ASSUME NEW i \in 1 .. MaxTimers
               PROVE  /\ i > n => timers[i].registered = FALSE /\ timers[i].armed = FALSE
                      /\ i <= n =>
                            /\ timers[i].sig \in Sig /\ timers[i].iterations \in Iterations
                            /\ timers[i].sig = asked'[i].sig /\ timers[i].iterations = asked'[i].iterations
                            /\ timers[i].done <= timers[i].iterations
                            /\ timers[i].registered = FALSE => timers[i].armed = FALSE /\ timers[i].done = 0
                            /\ timers[i].registered = TRUE => (timers[i].armed = TRUE <=> timers[i].done < timers[i].iterations)
    BY <1>6 DEF TimersKept
  <2>1. CASE i = n
    <3>1. ~ (n > n)
      BY <1>7
    <3>2. c.iterations \in Nat
      BY <1>4, SignalsAssumption
    <3>3. 0 <= c.iterations
      BY <3>2
    <3> QED
      BY <1>4, <1>8, <2>1, <3>1, <3>3
  <2>2. CASE i # n /\ i <= n
    <3>1. i <= timers_cnt /\ i \in 1 .. timers_cnt /\ ~ (i > n)
      BY <1>7, <2>2
    <3>2. asked'[i] = asked[i]
      BY <1>8, <3>1
    <3> QED
      BY <3>1, <3>2 DEF SignalsInv, TimersKept
  <2>3. CASE ~ (i <= n)
    <3>1. i > timers_cnt
      BY <1>7, <2>3
    <3> QED
      BY <2>3, <3>1 DEF SignalsInv, TimersKept
  <2> QED
    BY <2>1, <2>2, <2>3
<1>12. \A q \in Proc : /\ proc'[q].gen = proc[q].gen /\ proc'[q].sig = proc[q].sig
                       /\ proc'[q].runs = proc[q].runs
                       /\ \/ proc'[q].pc = proc[q].pc
                          \/ proc[q].pc \in Adding /\ proc'[q].pc \in Adding \cup {"request"}
  BY <1>1, <1>3, <1>9
<1>13. /\ timers' \in [1 .. MaxTimers -> Timer] /\ pipe' \in PipeType
       /\ timers_cnt' \in 0 .. MaxTimers /\ Len(asked') = timers_cnt'
  <2>1. n \in 0 .. MaxTimers
    BY <1>7
  <2>2. pipe \in PipeType
    BY <1>1, NextEntry
  <2> QED
    BY <1>6, <1>7, <1>8, <2>1, <2>2
<1>14. UNCHANGED <<conf, table, dyn, sends, kills>>
  BY <1>6
<1> HIDE DEF n
<1> QED
  BY <1>8, <1>9, <1>10, <1>11, <1>12, <1>13, <1>14, TimerStep

\* The master changes only entries that are counted.
LEMMA MasterStep ==
  ASSUME SignalsInv, timers' \in [1 .. MaxTimers -> Timer], pipe' \in PipeType,
         \A i \in 1 .. MaxTimers : i > timers_cnt => timers'[i] = timers[i],
         \A i \in 1 .. MaxTimers : i <= timers_cnt =>
            /\ timers'[i].sig = timers[i].sig /\ timers'[i].iterations = timers[i].iterations
            /\ timers'[i].done <= timers'[i].iterations
            /\ timers'[i].registered = FALSE => timers'[i].armed = FALSE /\ timers'[i].done = 0
            /\ timers'[i].registered = TRUE => (timers'[i].armed = TRUE <=> timers'[i].done < timers'[i].iterations),
         UNCHANGED <<conf, table, proc, timers_cnt, asked, dyn, sends, kills>>
  PROVE  SignalsInv'
<1>1. TimersKept'
  BY DEF SignalsInv, TimersKept
<1>2. CallerKept'
  <2>1. ASSUME NEW w \in Worker, proc[w].pc \in Adding
        PROVE  timers'[timers_cnt + 1] = timers[timers_cnt + 1]
    <3>1. timers_cnt \in Nat /\ timers_cnt + 1 \in 1 .. MaxTimers
      BY <2>1, NextEntry
    <3>2. timers_cnt + 1 > timers_cnt
      BY <3>1
    <3> QED
      BY <3>1, <3>2
  <2> QED
    BY <2>1 DEF SignalsInv, CallerKept
<1>3. /\ proc' \in [Proc -> ProcRecord] /\ timers_cnt' \in 0 .. MaxTimers /\ Len(asked') = timers_cnt'
      /\ asked' \in Seq([sig : Sig, iterations : Iterations])
  BY DEF SignalsInv, TypeOK, ProcRecord, Handler
<1> QED
  BY <1>1, <1>2, <1>3, TimerStep

\* New timers are put into the tree.
LEMMA StepScanTimers ==
  ASSUME SignalsInv, ScanTimers
  PROVE  SignalsInv'
<1>1. timers \in [1 .. MaxTimers -> Timer] /\ pipe \in PipeType /\ timers_cnt \in 0 .. MaxTimers
  BY DEF SignalsInv, TypeOK, PipeType
<1>2. UNCHANGED <<conf, table, proc, pipe, timers_cnt, asked, dyn, sends, kills>>
  BY DEF ScanTimers
<1>3. MaxTimers \in Nat /\ timers_cnt \in Nat
  <2>1. MaxTimers \in Nat
    BY SignalsAssumption
  <2> QED
    BY <1>1, <2>1
<1>4. ASSUME NEW i \in 1 .. MaxTimers
      PROVE  /\ timers'[i] \in Timer
             /\ i > timers_cnt => timers'[i] = timers[i]
             /\ i <= timers_cnt =>
                /\ timers'[i].sig = timers[i].sig /\ timers'[i].iterations = timers[i].iterations
                /\ timers'[i].done <= timers'[i].iterations
                /\ timers'[i].registered = FALSE => timers'[i].armed = FALSE /\ timers'[i].done = 0
                /\ timers'[i].registered = TRUE => (timers'[i].armed = TRUE <=> timers'[i].done < timers'[i].iterations)
  <2>0. timers[i] \in Timer
    BY <1>1
  <2>1. CASE i \in NewTimers
    <3> DEFINE t == [timers[i] EXCEPT !.registered = TRUE, !.armed = TRUE]
    <3>1. timers'[i] = t
      BY <2>1, Zenon DEF ScanTimers
    <3>2. /\ t \in Timer /\ t.registered = TRUE /\ t.armed = TRUE /\ t.sig = timers[i].sig
          /\ t.iterations = timers[i].iterations /\ t.done = timers[i].done
      BY <2>0 DEF Timer
    <3> HIDE DEF t
    <3>3. i \in 1 .. timers_cnt /\ timers[i].registered = FALSE
      BY <2>0, <2>1 DEF NewTimers, Timer
    <3>4. i <= timers_cnt /\ ~ (i > timers_cnt)
      BY <1>3, <3>3
    <3>5. timers[i].done = 0 /\ timers[i].iterations \in Iterations
      BY <3>3, <3>4 DEF SignalsInv, TimersKept
    <3>6. timers[i].iterations \in Nat /\ timers[i].iterations # 0
      BY <3>5, SignalsAssumption
    <3>7. timers[i].done <= timers[i].iterations /\ timers[i].done < timers[i].iterations
      BY <3>5, <3>6
    <3> QED
      BY <3>1, <3>2, <3>4, <3>7
  <2>2. CASE i \notin NewTimers
    <3>1. timers'[i] = timers[i]
      BY <2>2, Zenon DEF ScanTimers
    <3> QED
      BY <2>0, <3>1 DEF SignalsInv, TimersKept
  <2> QED
    BY <2>1, <2>2
<1>5. timers' \in [1 .. MaxTimers -> Timer]
  <2>1. timers' = [i \in 1 .. MaxTimers |-> timers'[i]]
    BY Zenon DEF ScanTimers
  <2> QED
    BY <1>4, <2>1
<1> QED
  BY <1>1, <1>2, <1>4, <1>5, MasterStep

\* A timer expires; it is armed again while it has iterations left.
LEMMA StepExpire ==
  ASSUME SignalsInv, NEW i \in 1 .. MaxTimers, Expire(i)
  PROVE  SignalsInv'
<1> DEFINE a == timers[i].done + 1 < timers[i].iterations
<1> DEFINE d == timers[i].done + 1
<1> DEFINE t == [timers[i] EXCEPT !.done = d, !.armed = a]
<1>1. /\ timers \in [1 .. MaxTimers -> Timer] /\ pipe \in PipeType /\ timers_cnt \in 0 .. MaxTimers
      /\ timers[i] \in Timer
  BY DEF SignalsInv, TypeOK, PipeType
<1>2. MaxTimers \in Nat /\ timers_cnt \in Nat /\ i \in Nat
  <2>1. MaxTimers \in Nat
    BY SignalsAssumption
  <2> QED
    BY <1>1, <2>1
<1>3. timers[i].armed = TRUE
  BY <1>1 DEF Expire, Timer
<1>4. i <= timers_cnt /\ ~ (i > timers_cnt)
  <2>1. ~ (i > timers_cnt)
    BY <1>3 DEF SignalsInv, TimersKept
  <2> QED
    BY <1>2, <2>1
<1>5. /\ timers[i].sig \in Sig /\ timers[i].iterations \in Iterations
      /\ timers[i].registered = FALSE => timers[i].armed = FALSE
      /\ timers[i].registered = TRUE => (timers[i].armed = TRUE <=> timers[i].done < timers[i].iterations)
  BY <1>4 DEF SignalsInv, TimersKept
<1>6. timers[i].done \in Nat /\ timers[i].registered \in BOOLEAN
  BY <1>1 DEF Timer
<1>7. timers[i].registered = TRUE /\ timers[i].done < timers[i].iterations
  BY <1>3, <1>5, <1>6
<1>8. timers[i].iterations \in Nat
  BY <1>5, SignalsAssumption
<1>9. d \in Nat /\ d <= timers[i].iterations /\ a \in BOOLEAN /\ (a = TRUE <=> d < timers[i].iterations)
  BY <1>6, <1>7, <1>8
<1>10. timers' = [timers EXCEPT ![i] = t]
  BY Zenon DEF Expire
<1>11. UNCHANGED <<conf, table, proc, timers_cnt, asked, dyn, sends, kills>>
  BY DEF Expire
<1>12. pipe' \in PipeType
  BY <1>1, <1>5, RouteType DEF Expire
<1> HIDE DEF a, d
<1>13. t \in Timer
  BY <1>1, <1>9 DEF Timer
<1>14. /\ t.done = d /\ t.sig = timers[i].sig /\ t.iterations = timers[i].iterations
       /\ t.registered = timers[i].registered
  BY <1>1 DEF Timer
<1>15. t.armed = a
  BY <1>1, Zenon DEF Timer
<1> HIDE DEF t
<1>16. /\ timers' \in [1 .. MaxTimers -> Timer] /\ timers'[i] = t
       /\ \A j \in 1 .. MaxTimers : j # i => timers'[j] = timers[j]
  BY <1>1, <1>10, <1>13
<1>17. \A j \in 1 .. MaxTimers : j > timers_cnt => timers'[j] = timers[j]
  BY <1>4, <1>16
<1>18. ASSUME NEW j \in 1 .. MaxTimers, j <= timers_cnt
       PROVE  /\ timers'[j].sig = timers[j].sig /\ timers'[j].iterations = timers[j].iterations
              /\ timers'[j].done <= timers'[j].iterations
              /\ timers'[j].registered = FALSE => timers'[j].armed = FALSE /\ timers'[j].done = 0
              /\ timers'[j].registered = TRUE => (timers'[j].armed = TRUE <=> timers'[j].done < timers'[j].iterations)
  <2>1. CASE j = i
    BY <1>7, <1>9, <1>14, <1>15, <1>16, <2>1
  <2>2. CASE j # i
    BY <1>16, <1>18, <2>2 DEF SignalsInv, TimersKept
  <2> QED
    BY <2>1, <2>2
<1> QED
  BY <1>11, <1>12, <1>16, <1>17, <1>18, MasterStep
-----------------------------------------------------------------------------
(* The theorems *)

\* The master loads the application before it forks.
LEMMA SignalsInit ==
  ASSUME Init
  PROVE  SignalsInv
<1>0. /\ NumProc \in Nat /\ NumMules \in Nat /\ Capacity \in Nat /\ MaxTimers \in Nat /\ MaxSends \in Nat
      /\ MaxKills \in Nat /\ "none" \notin Sig
  BY SignalsAssumption
<1>1. conf \in [lazy : BOOLEAN, recv : [Sig -> Receivers]] /\ conf.lazy \in BOOLEAN
  BY DEF Init
<1>2. ASSUME NEW v \in 0 .. NumProc, NEW s \in Sig
      PROVE  table[v][s] \in Entry /\ table[v][s].handler \in {NoHandler, MasterMemory}
  <2> DEFINE e == [handler |-> MasterMemory, receiver |-> conf.recv[s], wid |-> 0]
  <2>1. 0 \in 0 .. NumProc /\ conf.recv[s] \in Receivers
    BY <1>0, <1>1
  <2>2. e \in Entry /\ e.handler = MasterMemory
    BY <2>1 DEF Entry
  <2>3. NoEntry \in Entry /\ NoEntry.handler = NoHandler
    BY <2>1 DEF Entry, NoEntry
  <2>4. table[v][s] = IF conf.lazy THEN NoEntry ELSE e
    BY Zenon DEF Init
  <2> HIDE DEF e, NoEntry
  <2>5. CASE conf.lazy
    BY <2>3, <2>4, <2>5
  <2>6. CASE ~conf.lazy
    BY <2>2, <2>4, <2>6
  <2> QED
    BY <2>5, <2>6
<1>3. table \in [0 .. NumProc -> [Sig -> Entry]]
  <2>1. \A v \in 0 .. NumProc : table[v] = [s \in Sig |-> table[v][s]]
    BY Zenon DEF Init
  <2>2. \A v \in 0 .. NumProc : table[v] \in [Sig -> Entry]
    BY <1>2, <2>1
  <2>3. table = [v \in 0 .. NumProc |-> table[v]]
    BY Zenon DEF Init
  <2> QED
    BY <2>2, <2>3
<1>4. ASSUME NEW p \in Proc
      PROVE  /\ proc[p] \in ProcRecord /\ proc[p].gen = 0 /\ proc[p].pc \in {"loading", "idle"}
             /\ proc[p].pc = "loading" => conf.lazy = TRUE
  <2> DEFINE to == IF conf.lazy /\ p \in Worker THEN "loading" ELSE "idle"
  <2> DEFINE r == [pc |-> to, gen |-> 0, sig |-> NoSig, runs |-> NoHandler, call |-> NoCall]
  <2>1. proc[p] = r
    BY Zenon DEF Init
  <2>2. to \in {"loading", "idle"} /\ (to = "loading" => conf.lazy = TRUE)
    BY <1>1
  <2>3. NoCall \in Call /\ NoHandler \in Handler /\ 0 \in 0 .. MaxKills
    BY <1>0 DEF Call, NoCall, Handler
  <2> HIDE DEF to, NoCall, NoHandler
  <2>4. r \in ProcRecord /\ r.gen = 0 /\ r.pc = to
    BY <2>2, <2>3 DEF ProcRecord, Place
  <2> HIDE DEF r
  <2> QED
    BY <2>1, <2>2, <2>4
<1>5. proc \in [Proc -> ProcRecord]
  <2>1. proc = [p \in Proc |-> proc[p]]
    BY Zenon DEF Init
  <2> QED
    BY <1>4, <2>1
<1>6. pipe \in PipeType
  <2>1. << >> \in Queue
    <3>1. << >> \in Seq(Sig) /\ Len(<< >>) = 0
      OBVIOUS
    <3>2. Len(<< >>) <= Capacity
      BY <1>0, <3>1
    <3> QED
      BY <3>1, <3>2, QueueSeq
  <2> DEFINE f == [p \in Proc |-> << >>]
  <2> DEFINE g == [k \in Pool |-> << >>]
  <2>2. f \in [Proc -> Queue] /\ g \in [Pool -> Queue]
    BY <2>1
  <2>3. pipe = [own |-> f, pool |-> g, inbox |-> g]
    BY Zenon DEF Init
  <2> HIDE DEF f, g
  <2> QED
    BY <2>2, <2>3 DEF PipeType
<1>7. NoTimer \in Timer /\ NoTimer.registered = FALSE /\ NoTimer.armed = FALSE
  BY DEF NoTimer, Timer
<1>8. timers \in [1 .. MaxTimers -> Timer] /\ \A i \in 1 .. MaxTimers : timers[i] = NoTimer
  <2>1. timers = [i \in 1 .. MaxTimers |-> NoTimer]
    BY DEF Init
  <2> HIDE DEF NoTimer
  <2> QED
    BY <1>7, <2>1
<1>9. /\ timers_cnt = 0 /\ asked = << >> /\ dyn = {} /\ sends = 0 /\ kills = 0
  BY DEF Init
<1>10. asked \in Seq([sig : Sig, iterations : Iterations]) /\ Len(asked) = timers_cnt
  BY <1>9
<1>11. timers_cnt \in 0 .. MaxTimers /\ sends \in 0 .. MaxSends /\ kills \in 0 .. MaxKills
  BY <1>0, <1>9
<1>12. TypeOK
  BY <1>1, <1>3, <1>5, <1>6, <1>8, <1>9, <1>10, <1>11 DEF TypeOK, ProcRecord, Handler, PipeType
<1>13. GensCounted /\ RunsKept
  <2>1. \A p \in Proc : proc[p].pc # "handler" /\ proc[p].pc \notin {"down", "cheaped"} /\ proc[p].gen <= kills
    <3> SUFFICES ASSUME NEW p \in Proc
                 PROVE  proc[p].pc # "handler" /\ proc[p].pc \notin {"down", "cheaped"} /\ proc[p].gen <= kills
      OBVIOUS
    <3>1. proc[p].gen = 0 /\ kills = 0 /\ proc[p].pc \in {"loading", "idle"}
      BY <1>4, <1>9
    <3> QED
      BY <3>1
  <2> QED
    BY <2>1 DEF GensCounted, RunsKept
<1>14. Worker \subseteq Proc
  BY DEF Proc
<1>15. TableKept
  <2>1. 0 \in 0 .. NumProc /\ \A w \in Worker : w \in 0 .. NumProc
    BY <1>0 DEF Worker
  <2> QED
    BY <1>2, <1>4, <1>14, <2>1 DEF TableKept
<1>16. CallerKept
  BY <1>4, <1>14 DEF CallerKept, Adding
<1>17. TimersKept
  <2>1. \A i \in 1 .. MaxTimers : i > timers_cnt /\ ~ (i <= timers_cnt)
    BY <1>0, <1>9
  <2> HIDE DEF NoTimer
  <2> QED
    BY <1>7, <1>8, <2>1 DEF TimersKept
<1> QED
  BY <1>10, <1>12, <1>13, <1>15, <1>16, <1>17 DEF SignalsInv

\* Every step keeps the invariant.
LEMMA SignalsNext ==
  ASSUME SignalsInv, [Next]_vars
  PROVE  SignalsInv'
<1>1. ASSUME NEW w \in Worker, WorkerStep(w)
      PROVE  SignalsInv'
  BY <1>1, StepLoad, StepRequestStarts, StepRequestEnds, StepRegister, StepAddTimer, StepFillTimer,
     StepSignTimer, StepCountTimer, StepCheap DEF WorkerStep
<1>2. ASSUME NEW p \in Proc, ReceiveOwn(p) \/ ReceivePool(p) \/ HandlerEnds(p) \/ Kill(p) \/ Respawn(p)
      PROVE  SignalsInv'
  BY <1>2, StepReceiveOwn, StepReceivePool, StepHandlerEnds, StepKill, StepRespawn
<1>3. ASSUME NEW p \in Proc, NEW s \in Sig, Signal(p, s)
      PROVE  SignalsInv'
  BY <1>3, StepSignal
<1>4. ASSUME NEW k \in Pool, ManageSignal(k)
      PROVE  SignalsInv'
  BY <1>4, StepManageSignal
<1>5. ASSUME NEW s \in Sig, Event(s)
      PROVE  SignalsInv'
  BY <1>5, StepEvent
<1>6. ASSUME ScanTimers
      PROVE  SignalsInv'
  BY <1>6, StepScanTimers
<1>7. ASSUME NEW i \in 1 .. MaxTimers, Expire(i)
      PROVE  SignalsInv'
  BY <1>7, StepExpire
<1>8. ASSUME UNCHANGED vars
      PROVE  SignalsInv'
  <2>1. UNCHANGED <<conf, table, proc, timers, timers_cnt, asked, dyn, kills>> /\ pipe' = pipe /\ sends' = sends
    BY <1>8 DEF vars
  <2>2. pipe \in PipeType /\ sends \in 0 .. MaxSends
    BY DEF SignalsInv, TypeOK, PipeType
  <2> QED
    BY <2>1, <2>2, PipeStep
<1> QED
  BY <1>1, <1>2, <1>3, <1>4, <1>5, <1>6, <1>7, <1>8 DEF Next

\* The invariant is inductive.
THEOREM SignalsInvariant == Spec => []SignalsInv
<1>1. Init => SignalsInv
  BY SignalsInit
<1>2. SignalsInv /\ [Next]_vars => SignalsInv'
  BY SignalsNext
<1> QED
  BY <1>1, <1>2, PTL DEF Spec

\* uwsgi_signal_handler: a process runs no handler of another memory than the master's and
\* its own, unless it was registered in a request, whoever died and was respawned.
THEOREM OwnHandlerAlways == Spec => []OwnHandler
<1>1. SignalsInv => OwnHandler
  BY DEF SignalsInv, OwnHandler, RunsKept, At
<1> QED
  BY <1>1, SignalsInvariant, PTL

\* uwsgi_signal_add_rb_timer and the master's scan without the lock: no entry is armed that
\* is half written, and a timer fires as often as was asked for.
THEOREM TimersExactAlways == Spec => []TimersExact
<1>1. ASSUME SignalsInv
      PROVE  TimersExact
  <2>0. MaxTimers \in Nat
    BY SignalsAssumption
  <2>1. /\ timers_cnt \in 0 .. MaxTimers /\ timers \in [1 .. MaxTimers -> Timer]
        /\ Len(asked) = timers_cnt /\ asked \in Seq([sig : Sig, iterations : Iterations])
    BY <1>1 DEF SignalsInv, TypeOK
  <2> SUFFICES ASSUME NEW i \in 1 .. MaxTimers
               PROVE  IF i > timers_cnt THEN ~timers[i].registered /\ ~timers[i].armed
                      ELSE /\ [sig |-> timers[i].sig, iterations |-> timers[i].iterations] = asked[i]
                           /\ timers[i].done <= timers[i].iterations
                           /\ timers[i].registered => (timers[i].armed <=> timers[i].done < timers[i].iterations)
    BY Zenon DEF TimersExact
  <2>2. CASE i > timers_cnt
    BY <1>1, <2>2 DEF SignalsInv, TimersKept
  <2>3. CASE ~ (i > timers_cnt)
    <3>1. i <= timers_cnt /\ i \in 1 .. Len(asked)
      BY <2>0, <2>1, <2>3
    <3>2. asked[i] \in [sig : Sig, iterations : Iterations]
      BY <2>1, <3>1, ElementOfSeq
    <3>3. /\ timers[i].sig = asked[i].sig /\ timers[i].iterations = asked[i].iterations
          /\ timers[i].done <= timers[i].iterations
          /\ timers[i].registered = TRUE => (timers[i].armed = TRUE <=> timers[i].done < timers[i].iterations)
      BY <1>1, <3>1 DEF SignalsInv, TimersKept
    <3>4. timers[i].registered \in BOOLEAN /\ timers[i].armed \in BOOLEAN
      BY <2>1 DEF Timer
    <3>5. [sig |-> timers[i].sig, iterations |-> timers[i].iterations] = asked[i]
      BY <3>2, <3>3
    <3> QED
      BY <2>3, <3>3, <3>4, <3>5
  <2> QED
    BY <2>2, <2>3
<1> QED
  BY <1>1, SignalsInvariant, PTL
=============================================================================
