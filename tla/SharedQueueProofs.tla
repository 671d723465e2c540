------------------------- MODULE SharedQueueProofs -------------------------
(* At-most-once delivery of the shared queue, for every queue size, every    *)
(* set of processes and every set of messages.                               *)
EXTENDS SharedQueue, SequenceTheorems, TLAPS

LEMMA SlotStep == \A i \in Slot : Forward(i) \in Slot /\ Backward(i) \in Slot
BY QueueSizeAssumption DEF Slot, Forward, Backward

LEMMA QueueInit == Init => QueueInv
<1> SUFFICES ASSUME Init PROVE QueueInv
  OBVIOUS
<1>1. 0 \in Slot
  BY QueueSizeAssumption DEF Slot
<1>2. TypeOK
  <2>1. disturbed \in BOOLEAN
    BY Zenon DEF Init
  <2>2. delivered \in Seq(Msg) /\ pushed \in Seq(Msg)
    BY DEF Init
  <2> QED
    BY <1>1, <2>1, <2>2 DEF Init, TypeOK, PC
<1>3. Exclusive /\ InTransit
  BY DEF Init, Exclusive, InTransit
<1>4. StoredOnce /\ AtMostOnce
  BY DEF Init, StoredOnce, AtMostOnce
<1> QED
  BY <1>2, <1>3, <1>4 DEF QueueInv

\* Taking the lock touches neither the ring nor what was delivered.
LEMMA QueueBegin ==
  ASSUME QueueInv, NEW p \in Proc,
         BeginPush(p) \/ BeginPull(p) \/ BeginPop(p) \/ BeginSet(p)
  PROVE  QueueInv'
<1> USE NoMsgAssumption, NoProcAssumption
<1>1. TypeOK'
  BY DEF QueueInv, TypeOK, BeginPush, BeginPull, BeginPop, BeginSet, Lock, PC
<1>2. Exclusive'
  BY DEF QueueInv, TypeOK, Exclusive, BeginPush, BeginPull, BeginPop, BeginSet,
         Lock
<1>3. StoredOnce' /\ AtMostOnce'
  BY DEF QueueInv, StoredOnce, AtMostOnce, BeginPush, BeginPull, BeginPop,
         BeginSet, Lock
<1>4. InTransit'
  <2>1. CASE BeginPull(p) \/ BeginPop(p)
    BY <2>1 DEF QueueInv, TypeOK, Exclusive, InTransit, BeginPull, BeginPop,
                Lock
  <2>2. CASE BeginPush(p) \/ BeginSet(p)
    <3>1. PICK m \in Msg \ Used : arg' = [arg EXCEPT ![p] = m]
      BY <2>2 DEF BeginPush, BeginSet
    <3>2. /\ \A i \in Slot : slots[i] # m
          /\ \A k \in DOMAIN delivered : delivered[k] # m
      BY <3>1 DEF Used
    <3> QED
      BY <2>2, <3>1, <3>2 DEF QueueInv, TypeOK, Exclusive, InTransit,
                              BeginPush, BeginSet, Lock
  <2> QED
    BY <2>1, <2>2
<1> QED
  BY <1>1, <1>2, <1>3, <1>4 DEF QueueInv

\* The message a push or a set stores is in no other slot.
LEMMA QueueStore ==
  ASSUME QueueInv, NEW p \in Proc, PushStore(p) \/ SetStore(p)
  PROVE  QueueInv'
<1> USE NoMsgAssumption, NoProcAssumption
<1>1. TypeOK'
  BY DEF QueueInv, TypeOK, PushStore, SetStore, PC
<1>2. Exclusive'
  BY DEF QueueInv, TypeOK, Exclusive, PushStore, SetStore
<1>3. PICK s \in Slot : /\ slots' = [slots EXCEPT ![s] = arg[p]]
                        /\ delivered' = delivered
  BY DEF QueueInv, TypeOK, PushStore, SetStore
<1>4. /\ \A i \in Slot : slots[i] # arg[p]
      /\ \A k \in DOMAIN delivered : delivered[k] # arg[p]
  BY DEF QueueInv, InTransit, PushStore, SetStore
<1>5. StoredOnce' /\ AtMostOnce'
  BY <1>3, <1>4 DEF QueueInv, TypeOK, StoredOnce, AtMostOnce
<1>6. InTransit'
  BY <1>3 DEF QueueInv, TypeOK, Exclusive, InTransit, PushStore, SetStore
<1> QED
  BY <1>1, <1>2, <1>5, <1>6 DEF QueueInv

\* Header updates, kills and restarts change neither slots nor deliveries.
LEMMA QueueHeader ==
  ASSUME QueueInv,
         \/ Restart
         \/ \E p \in Proc : \/ PushAdvance(p) \/ PullAdvance(p)
                            \/ PopRetreat(p) \/ Kill(p) \/ DeadlockCheck(p)
  PROVE  QueueInv'
<1> USE NoMsgAssumption, NoProcAssumption
<1>1. CASE Restart
  <2>1. disturbed' \in BOOLEAN
    BY <1>1, Zenon DEF Restart
  <2>2. TypeOK'
    BY <1>1, <2>1 DEF QueueInv, TypeOK, Restart, PC
  <2> QED
    BY <1>1, <2>2 DEF QueueInv, TypeOK, Exclusive, StoredOnce, InTransit,
                      AtMostOnce, Restart
<1>2. ASSUME NEW p \in Proc, PushAdvance(p) PROVE QueueInv'
  <2>1. TypeOK'
    BY <1>2, SlotStep DEF QueueInv, TypeOK, InTransit, PushAdvance, PC
  <2> QED
    BY <1>2, <2>1 DEF QueueInv, TypeOK, Exclusive, StoredOnce, InTransit,
                      AtMostOnce, PushAdvance
<1>3. ASSUME NEW p \in Proc, PullAdvance(p) PROVE QueueInv'
  <2>1. TypeOK'
    BY <1>3, SlotStep DEF QueueInv, TypeOK, PullAdvance, PC
  <2> QED
    BY <1>3, <2>1 DEF QueueInv, TypeOK, Exclusive, StoredOnce, InTransit,
                      AtMostOnce, PullAdvance
<1>4. ASSUME NEW p \in Proc, PopRetreat(p) PROVE QueueInv'
  <2>1. TypeOK'
    BY <1>4, SlotStep DEF QueueInv, TypeOK, PopRetreat, PC
  <2> QED
    BY <1>4, <2>1 DEF QueueInv, TypeOK, Exclusive, StoredOnce, InTransit,
                      AtMostOnce, PopRetreat
<1>5. ASSUME NEW p \in Proc, Kill(p) \/ DeadlockCheck(p) PROVE QueueInv'
  <2>1. disturbed' \in BOOLEAN
    BY <1>5, Zenon DEF QueueInv, TypeOK, Kill, DeadlockCheck
  <2>2. TypeOK'
    BY <1>5, <2>1 DEF QueueInv, TypeOK, Kill, DeadlockCheck, PC
  <2>3. Exclusive' /\ InTransit'
    BY <1>5 DEF QueueInv, TypeOK, Exclusive, InTransit, Kill, DeadlockCheck
  <2> QED
    BY <1>5, <2>2, <2>3 DEF QueueInv, StoredOnce, AtMostOnce, Kill,
                            DeadlockCheck
<1> QED
  BY <1>1, <1>2, <1>3, <1>4, <1>5

\* A taken message leaves its only slot.
LEMMA QueueTake ==
  ASSUME QueueInv, NEW p \in Proc, PullTake(p) \/ PopTake(p)
  PROVE  QueueInv'
<1> USE NoMsgAssumption, NoProcAssumption
<1>1. TypeOK'
  BY DEF QueueInv, TypeOK, PullTake, PopTake, TakeSlot, PC
<1>2. Exclusive'
  BY DEF QueueInv, TypeOK, Exclusive, PullTake, PopTake, TakeSlot
<1>3. StoredOnce'
  BY DEF QueueInv, TypeOK, StoredOnce, PullTake, PopTake, TakeSlot
<1>4. InTransit'
  <2>1. /\ at[p] \in Slot
        /\ slots' = [slots EXCEPT ![at[p]] = NoMsg]
        /\ arg' = [arg EXCEPT ![p] = slots[at[p]]]
        /\ pc' = [pc EXCEPT ![p] = "unlock"]
        /\ delivered' = delivered
    BY DEF QueueInv, TypeOK, PullTake, PopTake, TakeSlot
  <2>2. slots[at[p]] # NoMsg =>
          /\ \A i \in Slot : slots'[i] # slots[at[p]]
          /\ \A k \in DOMAIN delivered : delivered[k] # slots[at[p]]
    BY <2>1 DEF QueueInv, TypeOK, StoredOnce
  <2>3. \A q \in Proc \ {p} : pc[q] = "idle" /\ arg[q] = NoMsg
    BY DEF QueueInv, Exclusive, PullTake, PopTake
  <2> QED
    BY <2>1, <2>2, <2>3 DEF QueueInv, TypeOK, InTransit
<1>5. AtMostOnce'
  BY DEF QueueInv, AtMostOnce, PullTake, PopTake, TakeSlot
<1> QED
  BY <1>1, <1>2, <1>3, <1>4, <1>5 DEF QueueInv

\* The message handed over was neither stored nor delivered.
LEMMA QueueUnlock ==
  ASSUME QueueInv, NEW p \in Proc, Unlock(p)
  PROVE  QueueInv'
<1> USE NoMsgAssumption, NoProcAssumption
<1>1. CASE arg[p] = NoMsg
  BY <1>1 DEF QueueInv, TypeOK, Exclusive, StoredOnce, InTransit, AtMostOnce,
              Unlock, PC
<1>2. CASE arg[p] # NoMsg
  <2>1. /\ delivered' = Append(delivered, arg[p])
        /\ slots' = slots
        /\ arg[p] \in Msg
        /\ \A i \in Slot : slots[i] # arg[p]
        /\ \A k \in DOMAIN delivered : delivered[k] # arg[p]
    BY <1>2 DEF QueueInv, TypeOK, InTransit, Unlock
  <2>2. /\ delivered \in Seq(Msg)
        /\ delivered' \in Seq(Msg)
        /\ DOMAIN delivered' = DOMAIN delivered \cup {Len(delivered) + 1}
        /\ \A k \in DOMAIN delivered : delivered'[k] = delivered[k]
        /\ delivered'[Len(delivered) + 1] = arg[p]
    BY <2>1 DEF QueueInv, TypeOK
  <2>3. TypeOK'
    BY <2>2 DEF QueueInv, TypeOK, Unlock, PC
  <2>4. Exclusive'
    BY DEF QueueInv, TypeOK, Exclusive, Unlock
  <2>5. StoredOnce'
    BY <2>1, <2>2 DEF QueueInv, StoredOnce
  <2>6. InTransit'
    BY DEF QueueInv, TypeOK, Exclusive, InTransit, Unlock
  <2>7. AtMostOnce'
    BY <2>1, <2>2 DEF QueueInv, AtMostOnce
  <2> QED
    BY <2>3, <2>4, <2>5, <2>6, <2>7 DEF QueueInv
<1> QED
  BY <1>1, <1>2

LEMMA QueueNext == QueueInv /\ [Next]_vars => QueueInv'
<1> SUFFICES ASSUME QueueInv, [Next]_vars PROVE QueueInv'
  OBVIOUS
<1>1. CASE UNCHANGED vars
  BY <1>1 DEF vars, QueueInv, TypeOK, Exclusive, StoredOnce, InTransit,
              AtMostOnce
<1>2. CASE Next
  BY <1>2, QueueBegin, QueueStore, QueueHeader, QueueTake, QueueUnlock DEF Next
<1> QED
  BY <1>1, <1>2

\* Every state of the queue is well typed, whoever is inside a call holds the write
\* lock, and a message is in one place: in one slot, on its way in or out, or delivered.
THEOREM QueueInvariant == Spec => []QueueInv
BY QueueInit, QueueNext, PTL DEF Spec

\* uwsgi_queue_pull and uwsgi_queue_pop hand out no message twice, under every
\* interleaving, kill in the middle of a call and restart.
THEOREM QueueAtMostOnce == Spec => []AtMostOnce
BY QueueInvariant, PTL DEF QueueInv

-----------------------------------------------------------------------------
(* The order of the messages *)

Wrap(i) == IF i < QueueSize THEN i ELSE i - QueueSize

\* The ring f holds the n messages of pu after the first t, from slot pp on; ps is where the
\* next one goes.
Shape(f, pp, ps, t, n, pu) ==
    /\ t \in Nat /\ n \in 0 .. QueueSize /\ t + n = Len(pu)
    /\ ps = Wrap(pp + n)
    /\ \A k \in 1 .. QueueSize : f[Wrap(pp + k - 1)] = IF k <= n THEN pu[t + k] ELSE NoMsg

\* The messages pulled: those delivered and the one a pull is about to return.
Taken == IF \E p \in Proc : pc[p] = "pulled" \/ (pc[p] = "unlock" /\ arg[p] # NoMsg)
         THEN Len(delivered) + 1 ELSE Len(delivered)

\* The ring without the slot that a call in progress has stored, or is going to free.
Settled == [i \in Slot |-> IF \E p \in Proc : \/ pc[p] = "pushed" /\ i = pos
                                              \/ pc[p] = "pulled" /\ i = at[p]
                           THEN NoMsg ELSE slots[i]]

\* The strengthening that makes Fifo inductive.
Ordered ==
    disturbed = FALSE =>
        /\ Shape(Settled, pull_pos, pos, Taken, Len(pushed) - Taken, pushed)
        /\ \A k \in DOMAIN delivered : delivered[k] = pushed[k]
        /\ \A p \in Proc :
              /\ pc[p] \notin {"popped", "dead"}
              /\ pc[p] = "pushed" => slots[pos] = arg[p] /\ Len(pushed) - Taken < QueueSize
              /\ pc[p] = "pulled" => slots[at[p]] = pushed[Taken]
              /\ pc[p] = "unlock" /\ arg[p] # NoMsg => arg[p] = pushed[Taken]

FifoInv == QueueInv /\ Ordered

\* Slots counted from any slot of the ring.
LEMMA WrapSlot ==
  ASSUME NEW i \in Slot
  PROVE  /\ \A k \in 1 .. QueueSize : Wrap(i + k - 1) \in Slot
         /\ \A k, l \in 1 .. QueueSize : Wrap(i + k - 1) = Wrap(i + l - 1) => k = l
         /\ Wrap(i) = i /\ Wrap(i + QueueSize) = i
<1>1. QueueSize \in Nat /\ QueueSize > 0
  BY QueueSizeAssumption
<1>2. i \in Nat /\ i < QueueSize
  BY <1>1 DEF Slot
<1> QED
  BY <1>1, <1>2 DEF Slot, Wrap

\* Forward is one step along the ring.
LEMMA WrapForward ==
  ASSUME NEW i \in Slot
  PROVE  /\ Forward(i) \in Slot
         /\ \A k \in 0 .. QueueSize - 1 : Forward(Wrap(i + k)) = Wrap(i + k + 1)
         /\ \A k \in 1 .. QueueSize - 1 : Wrap(Forward(i) + k - 1) = Wrap(i + k)
         /\ Wrap(Forward(i) + QueueSize - 1) = i
<1>1. QueueSize \in Nat /\ QueueSize > 0
  BY QueueSizeAssumption
<1>2. i \in Nat /\ i < QueueSize
  BY <1>1 DEF Slot
<1> QED
  BY <1>1, <1>2 DEF Slot, Wrap, Forward

\* A free slot at the end, and a message at the front.
LEMMA ShapeEnds ==
  ASSUME NEW f, NEW pp \in Slot, NEW ps, NEW t, NEW n, NEW pu \in Seq(Msg), Shape(f, pp, ps, t, n, pu)
  PROVE  /\ ps \in Slot
         /\ f[ps] = NoMsg => n < QueueSize
         /\ f[pp] # NoMsg => n >= 1 /\ f[pp] = pu[t + 1]
<1>1. QueueSize \in Nat /\ QueueSize > 0
  BY QueueSizeAssumption
<1>2. /\ t \in Nat /\ n \in 0 .. QueueSize /\ t + n = Len(pu) /\ ps = Wrap(pp + n)
      /\ \A k \in 1 .. QueueSize : f[Wrap(pp + k - 1)] = IF k <= n THEN pu[t + k] ELSE NoMsg
  BY DEF Shape
<1>3. f[pp] = IF 1 <= n THEN pu[t + 1] ELSE NoMsg
  <2>1. 1 \in 1 .. QueueSize
    BY <1>1
  <2>2. Wrap(pp + 1 - 1) = pp
    BY <1>1, WrapSlot DEF Slot
  <2> QED
    BY <1>2, <2>1, <2>2
<1>4. n = QueueSize => ps = pp /\ f[pp] # NoMsg
  <2> SUFFICES ASSUME n = QueueSize
               PROVE  ps = pp /\ f[pp] # NoMsg
    OBVIOUS
  <2>1. t + 1 \in 1 .. Len(pu)
    BY <1>1, <1>2
  <2>2. pu[t + 1] \in Msg
    BY <2>1
  <2>3. 1 <= n
    BY <1>1
  <2>4. ps = pp
    BY <1>2, WrapSlot
  <2> QED
    BY <1>3, <2>2, <2>3, <2>4, NoMsgAssumption
<1>5. ps \in Slot
  <2>1. CASE n = QueueSize
    BY <1>4, <2>1
  <2>2. CASE n # QueueSize
    <3>1. n + 1 \in 1 .. QueueSize /\ pp + (n + 1) - 1 = pp + n
      BY <1>1, <1>2, <2>2 DEF Slot
    <3> QED
      BY <1>2, <3>1, WrapSlot
  <2> QED
    BY <2>1, <2>2
<1> QED
  BY <1>1, <1>2, <1>3, <1>4, <1>5

\* A push, ...
LEMMA ShapePush ==
  ASSUME NEW f, NEW g, NEW pp \in Slot, NEW ps, NEW t, NEW n, NEW pu \in Seq(Msg), Shape(f, pp, ps, t, n, pu),
         n < QueueSize, NEW m \in Msg, g[ps] = m, \A i \in Slot \ {ps} : g[i] = f[i]
  PROVE  Shape(g, pp, Forward(ps), t, n + 1, Append(pu, m))
<1>1. QueueSize \in Nat /\ QueueSize > 0
  BY QueueSizeAssumption
<1>2. /\ t \in Nat /\ n \in 0 .. QueueSize /\ t + n = Len(pu) /\ ps = Wrap(pp + n)
      /\ \A k \in 1 .. QueueSize : f[Wrap(pp + k - 1)] = IF k <= n THEN pu[t + k] ELSE NoMsg
  BY DEF Shape
<1>3. /\ Len(Append(pu, m)) = Len(pu) + 1 /\ Append(pu, m)[Len(pu) + 1] = m
      /\ \A k \in 1 .. Len(pu) : Append(pu, m)[k] = pu[k]
  OBVIOUS
<1>4. n \in Nat /\ n \in 0 .. QueueSize - 1 /\ n + 1 \in 0 .. QueueSize /\ n + 1 \in 1 .. QueueSize
  BY <1>1, <1>2
<1>5. t + (n + 1) = Len(Append(pu, m))
  BY <1>2, <1>3, <1>4
<1>6. pp \in Nat
  BY <1>1 DEF Slot
<1>7. Forward(ps) = Wrap(pp + (n + 1))
  <2>1. Forward(Wrap(pp + n)) = Wrap(pp + n + 1)
    BY <1>4, WrapForward
  <2>2. pp + n + 1 = pp + (n + 1)
    BY <1>4, <1>6
  <2> QED
    BY <1>2, <2>1, <2>2
<1>8. ASSUME NEW k \in 1 .. QueueSize
      PROVE  g[Wrap(pp + k - 1)] = IF k <= n + 1 THEN Append(pu, m)[t + k] ELSE NoMsg
  <2>1. Wrap(pp + k - 1) \in Slot /\ (Wrap(pp + k - 1) = Wrap(pp + (n + 1) - 1) => k = n + 1)
    BY <1>4, WrapSlot
  <2>2. ps = Wrap(pp + (n + 1) - 1)
    <3>1. pp + (n + 1) - 1 = pp + n
      BY <1>4, <1>6
    <3> QED
      BY <1>2, <3>1
  <2>3. CASE k = n + 1
    <3>1. t + k = Len(pu) + 1 /\ k <= n + 1
      BY <1>2, <1>4, <2>3
    <3> QED
      BY <1>3, <2>2, <2>3, <3>1
  <2>4. CASE k # n + 1
    <3>1. g[Wrap(pp + k - 1)] = f[Wrap(pp + k - 1)]
      BY <2>1, <2>2, <2>4
    <3>2. f[Wrap(pp + k - 1)] = IF k <= n THEN pu[t + k] ELSE NoMsg
      BY <1>2
    <3>3. k <= n + 1 <=> k <= n
      BY <1>1, <1>4, <2>4
    <3>4. k <= n => t + k \in 1 .. Len(pu)
      BY <1>1, <1>2, <1>4
    <3> QED
      BY <1>3, <3>1, <3>2, <3>3, <3>4
  <2> QED
    BY <2>3, <2>4
<1> QED
  BY <1>2, <1>4, <1>5, <1>7, <1>8 DEF Shape

\* ... and a pull.
LEMMA ShapePull ==
  ASSUME NEW f, NEW g, NEW pp \in Slot, NEW ps, NEW t, NEW n, NEW pu \in Seq(Msg), Shape(f, pp, ps, t, n, pu),
         n >= 1, g[pp] = NoMsg, \A i \in Slot \ {pp} : g[i] = f[i]
  PROVE  Shape(g, Forward(pp), ps, t + 1, n - 1, pu)
<1>1. QueueSize \in Nat /\ QueueSize > 0
  BY QueueSizeAssumption
<1>2. /\ t \in Nat /\ n \in 0 .. QueueSize /\ t + n = Len(pu) /\ ps = Wrap(pp + n)
      /\ \A k \in 1 .. QueueSize : f[Wrap(pp + k - 1)] = IF k <= n THEN pu[t + k] ELSE NoMsg
  BY DEF Shape
<1>3. n \in Nat /\ n - 1 \in 0 .. QueueSize /\ n - 1 \in 0 .. QueueSize - 1 /\ n - 1 \in Nat
  BY <1>1, <1>2
<1>4. t + 1 \in Nat /\ (t + 1) + (n - 1) = Len(pu)
  BY <1>2, <1>3
<1>5. pp \in Nat /\ pp < QueueSize
  BY <1>1 DEF Slot
<1>6. Forward(pp) \in Slot
  BY WrapForward
<1>7. Forward(pp) \in Nat /\ Forward(pp) < QueueSize
  BY <1>1, <1>6 DEF Slot
<1>8. ps = Wrap(Forward(pp) + (n - 1))
  BY <1>1, <1>2, <1>3, <1>5 DEF Wrap, Forward
<1>9. ASSUME NEW k \in 1 .. QueueSize
      PROVE  g[Wrap(Forward(pp) + k - 1)] = IF k <= n - 1 THEN pu[t + 1 + k] ELSE NoMsg
  <2>1. CASE k = QueueSize
    <3>1. Wrap(Forward(pp) + QueueSize - 1) = pp
      BY WrapForward
    <3>2. ~ (k <= n - 1)
      BY <1>1, <1>2, <2>1
    <3> QED
      BY <2>1, <3>1, <3>2
  <2>2. CASE k # QueueSize
    <3>1. k \in 1 .. QueueSize - 1 /\ k + 1 \in 1 .. QueueSize /\ k \in Nat
      BY <1>1, <2>2
    <3>2. Wrap(Forward(pp) + k - 1) = Wrap(pp + k)
      BY <3>1, WrapForward
    <3>3. pp + k = pp + (k + 1) - 1
      BY <1>5, <3>1
    <3>4. Wrap(pp + k) \in Slot
      BY <3>1, <3>3, WrapSlot
    <3>5. Wrap(pp + k) # pp
      BY <1>1, <1>5, <3>1 DEF Wrap
    <3>6. f[Wrap(pp + k)] = IF k + 1 <= n THEN pu[t + (k + 1)] ELSE NoMsg
      BY <1>2, <3>1, <3>3
    <3>7. (k + 1 <= n <=> k <= n - 1) /\ t + (k + 1) = t + 1 + k
      BY <1>2, <1>3, <3>1
    <3> QED
      BY <3>2, <3>4, <3>5, <3>6, <3>7
  <2> QED
    BY <2>1, <2>2
<1> QED
  BY <1>2, <1>3, <1>4, <1>8, <1>9 DEF Shape

\* Only the slots of the ring matter.
LEMMA ShapeSame ==
  ASSUME NEW f, NEW g, NEW pp \in Slot, NEW ps, NEW t, NEW n, NEW pu, Shape(f, pp, ps, t, n, pu),
         \A i \in Slot : g[i] = f[i]
  PROVE  Shape(g, pp, ps, t, n, pu)
BY WrapSlot DEF Shape

\* What Taken and Settled are when nobody but p is in a call.
View ==
    \A p \in Proc : (\A q \in Proc \ {p} : pc[q] = "idle") =>
        /\ pc[p] = "pulled" \/ (pc[p] = "unlock" /\ arg[p] # NoMsg) => Taken = Len(delivered) + 1
        /\ pc[p] # "pulled" /\ (pc[p] = "unlock" => arg[p] = NoMsg) => Taken = Len(delivered)
        /\ pc[p] \notin {"pushed", "pulled"} => \A i \in Slot : Settled[i] = slots[i]
        /\ pc[p] = "pushed" => \A i \in Slot : Settled[i] = IF i = pos THEN NoMsg ELSE slots[i]
        /\ pc[p] = "pulled" => \A i \in Slot : Settled[i] = IF i = at[p] THEN NoMsg ELSE slots[i]

\* A call is alone.
LEMMA ViewNow == View
<1> SUFFICES ASSUME NEW p \in Proc, \A q \in Proc \ {p} : pc[q] = "idle"
             PROVE  /\ pc[p] = "pulled" \/ (pc[p] = "unlock" /\ arg[p] # NoMsg) => Taken = Len(delivered) + 1
                    /\ pc[p] # "pulled" /\ (pc[p] = "unlock" => arg[p] = NoMsg) => Taken = Len(delivered)
                    /\ pc[p] \notin {"pushed", "pulled"} => \A i \in Slot : Settled[i] = slots[i]
                    /\ pc[p] = "pushed" => \A i \in Slot : Settled[i] = IF i = pos THEN NoMsg ELSE slots[i]
                    /\ pc[p] = "pulled" => \A i \in Slot : Settled[i] = IF i = at[p] THEN NoMsg ELSE slots[i]
  BY DEF View
<1>1. pc[p] = "pulled" \/ (pc[p] = "unlock" /\ arg[p] # NoMsg) => Taken = Len(delivered) + 1
  BY DEF Taken
<1>2. pc[p] # "pulled" /\ (pc[p] = "unlock" => arg[p] = NoMsg) => Taken = Len(delivered)
  BY DEF Taken
<1>3. pc[p] \notin {"pushed", "pulled"} => \A i \in Slot : Settled[i] = slots[i]
  BY DEF Settled
<1>4. pc[p] = "pushed" => \A i \in Slot : Settled[i] = IF i = pos THEN NoMsg ELSE slots[i]
  BY DEF Settled
<1>5. pc[p] = "pulled" => \A i \in Slot : Settled[i] = IF i = at[p] THEN NoMsg ELSE slots[i]
  BY DEF Settled
<1> QED
  BY <1>1, <1>2, <1>3, <1>4, <1>5

\* ... and after a step.
LEMMA ViewNext == View'
BY ViewNow, PTL

\* Whoever acts is alone, or the lock was free.
LEMMA Alone ==
  ASSUME QueueInv, NEW p \in Proc, pc[p] # "idle" \/ queue_lock = NoProc
  PROVE  /\ \A q \in Proc \ {p} : pc[q] = "idle" /\ arg[q] = NoMsg
         /\ queue_lock = NoProc => pc[p] = "idle" /\ arg[p] = NoMsg
BY NoProcAssumption DEF QueueInv, Exclusive

\* What the types say.
LEMMA QueueTyped ==
  ASSUME QueueInv
  PROVE  /\ slots \in [Slot -> Msg \cup {NoMsg}] /\ pos \in Slot /\ pull_pos \in Slot
         /\ pc \in [Proc -> PC] /\ arg \in [Proc -> Msg \cup {NoMsg}] /\ at \in [Proc -> Slot]
         /\ delivered \in Seq(Msg) /\ pushed \in Seq(Msg) /\ disturbed \in BOOLEAN
         /\ Len(delivered) \in Nat /\ Len(pushed) \in Nat
BY DEF QueueInv, TypeOK

\* Taking the lock, and a pull of an empty queue.
LEMMA OrderBegin ==
  ASSUME FifoInv, NEW p \in Proc,
         pc[p] \notin {"pushed", "pulled"}, pc[p] = "unlock" => arg[p] = NoMsg,
         \A q \in Proc \ {p} : pc[q] = "idle" /\ pc'[q] = "idle",
         pc'[p] \in {"idle", "push", "pull", "pop", "set", "unlock"}, pc'[p] = "unlock" => arg'[p] = NoMsg,
         UNCHANGED <<slots, pos, pull_pos, delivered, pushed, disturbed>>
  PROVE  Ordered'
<1> SUFFICES ASSUME disturbed' = FALSE
             PROVE  Ordered'
  BY DEF Ordered
<1>1. QueueInv /\ Ordered /\ disturbed = FALSE
  BY DEF FifoInv
<1>2. Taken = Len(delivered) /\ \A i \in Slot : Settled[i] = slots[i]
  BY ViewNow DEF View
<1>3. Taken' = Len(delivered) /\ \A i \in Slot : Settled'[i] = slots[i]
  BY ViewNext DEF View
<1>4. /\ Shape(Settled, pull_pos, pos, Taken, Len(pushed) - Taken, pushed)
      /\ \A k \in DOMAIN delivered : delivered[k] = pushed[k]
  BY <1>1 DEF Ordered
<1>5. Shape(Settled', pull_pos, pos, Taken, Len(pushed) - Taken, pushed)
  BY <1>1, <1>2, <1>3, <1>4, ShapeSame, QueueTyped
<1>6. Shape(Settled, pull_pos, pos, Taken, Len(pushed) - Taken, pushed)'
  BY <1>2, <1>3, <1>5 DEF Shape
<1> QED
  BY <1>4, <1>6 DEF Ordered

\* The slot a push stores into was free.
LEMMA OrderPushStore ==
  ASSUME FifoInv, NEW p \in Proc, PushStore(p)
  PROVE  Ordered'
<1> SUFFICES ASSUME disturbed' = FALSE
             PROVE  Ordered'
  BY DEF Ordered
<1>0. pc[p] = "push" /\ UNCHANGED <<pos, pull_pos, arg, at, delivered, pushed>> /\ QueueInv
  BY DEF PushStore, FifoInv
<1>1. disturbed = FALSE /\ slots[pos] = NoMsg
  BY <1>0, QueueTyped DEF PushStore
<1>2. /\ Shape(Settled, pull_pos, pos, Taken, Len(pushed) - Taken, pushed)
      /\ \A k \in DOMAIN delivered : delivered[k] = pushed[k]
  BY <1>1 DEF FifoInv, Ordered
<1>3. /\ slots' = [slots EXCEPT ![pos] = arg[p]] /\ pc' = [pc EXCEPT ![p] = "pushed"]
  BY DEF PushStore
<1>4. /\ slots'[pos] = arg[p] /\ \A i \in Slot \ {pos} : slots'[i] = slots[i]
      /\ pc'[p] = "pushed" /\ \A q \in Proc \ {p} : pc'[q] = "idle" /\ pc[q] = "idle"
  BY <1>0, <1>3, Alone, QueueTyped
<1>5. Taken = Len(delivered) /\ \A i \in Slot : Settled[i] = slots[i]
  BY <1>0, <1>4, ViewNow DEF View
<1>6. Taken' = Len(delivered) /\ \A i \in Slot : Settled'[i] = IF i = pos THEN NoMsg ELSE slots'[i]
  BY <1>0, <1>4, ViewNext DEF View
<1>7. \A i \in Slot : Settled'[i] = Settled[i]
  BY <1>1, <1>4, <1>5, <1>6
<1>8. Shape(Settled', pull_pos, pos, Taken, Len(pushed) - Taken, pushed)
  BY <1>0, <1>2, <1>7, ShapeSame, QueueTyped
<1>9. Shape(Settled, pull_pos, pos, Taken, Len(pushed) - Taken, pushed)'
  BY <1>0, <1>5, <1>6, <1>8 DEF Shape
<1>10. Len(pushed) - Taken < QueueSize
  BY <1>0, <1>1, <1>2, <1>5, ShapeEnds, QueueTyped
<1>11. \A q \in Proc :
              /\ pc'[q] \notin {"popped", "dead"}
              /\ pc'[q] = "pushed" => slots'[pos'] = arg'[q] /\ Len(pushed') - Taken' < QueueSize
              /\ pc'[q] = "pulled" => slots'[at'[q]] = pushed'[Taken']
              /\ pc'[q] = "unlock" /\ arg'[q] # NoMsg => arg'[q] = pushed'[Taken']
  <2> SUFFICES ASSUME NEW q \in Proc
               PROVE  /\ pc'[q] \notin {"popped", "dead"}
                      /\ pc'[q] = "pushed" => slots'[pos'] = arg'[q] /\ Len(pushed') - Taken' < QueueSize
                      /\ pc'[q] = "pulled" => slots'[at'[q]] = pushed'[Taken']
                      /\ pc'[q] = "unlock" /\ arg'[q] # NoMsg => arg'[q] = pushed'[Taken']
    OBVIOUS
  <2>1. CASE q = p
    BY <1>0, <1>4, <1>5, <1>6, <1>10, <2>1
  <2>2. CASE q # p
    BY <1>4, <2>2
  <2> QED
    BY <2>1, <2>2
<1>12. \A k \in DOMAIN delivered' : delivered'[k] = pushed'[k]
  BY <1>0, <1>2
<1> QED
  BY <1>9, <1>11, <1>12 DEF Ordered

\* What is left to show of the one process that acted.
LEMMA OrderActor ==
  ASSUME NEW p \in Proc, \A q \in Proc \ {p} : pc'[q] = "idle",
         Shape(Settled, pull_pos, pos, Taken, Len(pushed) - Taken, pushed)',
         \A k \in DOMAIN delivered' : delivered'[k] = pushed'[k],
         pc'[p] \notin {"popped", "dead", "pushed"},
         pc'[p] = "pulled" => slots'[at'[p]] = pushed'[Taken'],
         pc'[p] = "unlock" /\ arg'[p] # NoMsg => arg'[p] = pushed'[Taken']
  PROVE  Ordered'
<1>1. \A q \in Proc :
              /\ pc'[q] \notin {"popped", "dead"}
              /\ pc'[q] = "pushed" => slots'[pos'] = arg'[q] /\ Len(pushed') - Taken' < QueueSize
              /\ pc'[q] = "pulled" => slots'[at'[q]] = pushed'[Taken']
              /\ pc'[q] = "unlock" /\ arg'[q] # NoMsg => arg'[q] = pushed'[Taken']
  OBVIOUS
<1> QED
  BY <1>1 DEF Ordered

\* A push is complete.
LEMMA OrderPushAdvance ==
  ASSUME FifoInv, NEW p \in Proc, PushAdvance(p)
  PROVE  Ordered'
<1> SUFFICES ASSUME disturbed' = FALSE
             PROVE  Ordered'
  BY DEF Ordered
<1>0. /\ pc[p] = "pushed" /\ UNCHANGED <<slots, pull_pos, at, delivered>> /\ QueueInv
      /\ pos' = Forward(pos) /\ pushed' = Append(pushed, arg[p]) /\ disturbed = FALSE
      /\ arg' = [arg EXCEPT ![p] = NoMsg] /\ pc' = [pc EXCEPT ![p] = "unlock"]
  BY DEF PushAdvance, FifoInv
<1>1. arg[p] \in Msg
  BY <1>0, QueueTyped DEF QueueInv, InTransit
<1>2. /\ Shape(Settled, pull_pos, pos, Taken, Len(pushed) - Taken, pushed)
      /\ \A k \in DOMAIN delivered : delivered[k] = pushed[k]
      /\ slots[pos] = arg[p] /\ Len(pushed) - Taken < QueueSize
  BY <1>0 DEF FifoInv, Ordered
<1>4. /\ pc'[p] = "unlock" /\ arg'[p] = NoMsg /\ \A q \in Proc \ {p} : pc'[q] = "idle" /\ pc[q] = "idle"
  BY <1>0, Alone, QueueTyped
<1>5. Taken = Len(delivered) /\ \A i \in Slot : Settled[i] = IF i = pos THEN NoMsg ELSE slots[i]
  BY <1>0, <1>4, ViewNow DEF View
<1>6. Taken' = Len(delivered) /\ \A i \in Slot : Settled'[i] = slots[i]
  BY <1>0, <1>4, ViewNext DEF View
<1>7. Settled'[pos] = arg[p] /\ \A i \in Slot \ {pos} : Settled'[i] = Settled[i]
  BY <1>0, <1>2, <1>5, <1>6, QueueTyped
<1>8. Shape(Settled', pull_pos, Forward(pos), Taken, (Len(pushed) - Taken) + 1, Append(pushed, arg[p]))
  BY <1>0, <1>1, <1>2, <1>7, ShapePush, QueueTyped
<1>9. Len(pushed') - Taken' = (Len(pushed) - Taken) + 1 /\ Taken' = Taken
  <2>1. Len(pushed') = Len(pushed) + 1
    BY <1>0, <1>1, QueueTyped
  <2>2. Len(pushed) \in Nat /\ Len(delivered) \in Nat
    BY <1>0, QueueTyped
  <2> QED
    BY <1>5, <1>6, <2>1, <2>2
<1>10. Shape(Settled, pull_pos, pos, Taken, Len(pushed) - Taken, pushed)'
  BY <1>0, <1>8, <1>9 DEF Shape
<1>11. \A k \in DOMAIN delivered' : delivered'[k] = pushed'[k]
  <2>1. Len(delivered) <= Len(pushed)
    <3>1. Len(pushed) - Len(delivered) \in 0 .. QueueSize
      BY <1>2, <1>5 DEF Shape
    <3> QED
      BY <1>0, <3>1, QueueTyped, QueueSizeAssumption
  <2>2. \A k \in DOMAIN delivered : k \in 1 .. Len(pushed)
    BY <1>0, <2>1, QueueTyped
  <2>3. \A k \in 1 .. Len(pushed) : pushed'[k] = pushed[k]
    BY <1>0, <1>1, QueueTyped
  <2> QED
    BY <1>0, <1>2, <2>2, <2>3
<1> QED
  BY <1>4, <1>10, <1>11, OrderActor

\* A pull finds the oldest message.
LEMMA OrderPullAdvance ==
  ASSUME FifoInv, NEW p \in Proc, PullAdvance(p)
  PROVE  Ordered'
<1> SUFFICES ASSUME disturbed' = FALSE
             PROVE  Ordered'
  BY DEF Ordered
<1>0. pc[p] = "pull" /\ UNCHANGED <<slots, pos, arg, delivered, pushed, disturbed>> /\ QueueInv /\ disturbed = FALSE
  BY DEF PullAdvance, FifoInv
<1>1. \A q \in Proc \ {p} : pc[q] = "idle"
  BY <1>0, Alone
<1>2. CASE slots[pull_pos] = NoMsg
  <2>1. pc' = [pc EXCEPT ![p] = "unlock"] /\ pull_pos' = pull_pos
    BY <1>2 DEF PullAdvance
  <2>2. arg[p] = NoMsg
    BY <1>0 DEF QueueInv, InTransit
  <2>3. pc'[p] = "unlock" /\ \A q \in Proc \ {p} : pc'[q] = "idle"
    BY <1>0, <1>1, <2>1, QueueTyped
  <2> QED
    BY <1>0, <1>1, <2>1, <2>2, <2>3, OrderBegin
<1>3. CASE slots[pull_pos] # NoMsg
  <2>1. /\ pc' = [pc EXCEPT ![p] = "pulled"] /\ at' = [at EXCEPT ![p] = pull_pos]
        /\ pull_pos' = Forward(pull_pos)
    BY <1>3 DEF PullAdvance
  <2>2. pc'[p] = "pulled" /\ at'[p] = pull_pos /\ \A q \in Proc \ {p} : pc'[q] = "idle"
    BY <1>0, <1>1, <2>1, QueueTyped
  <2>3. /\ Shape(Settled, pull_pos, pos, Taken, Len(pushed) - Taken, pushed)
        /\ \A k \in DOMAIN delivered : delivered[k] = pushed[k]
    BY <1>0 DEF FifoInv, Ordered
  <2>4. Taken = Len(delivered) /\ \A i \in Slot : Settled[i] = slots[i]
    BY <1>0, <1>1, ViewNow DEF View
  <2>5. Taken' = Len(delivered) + 1 /\ \A i \in Slot : Settled'[i] = IF i = pull_pos THEN NoMsg ELSE slots[i]
    BY <1>0, <2>2, ViewNext DEF View
  <2>6. Len(pushed) - Taken >= 1 /\ slots[pull_pos] = pushed[Taken + 1]
    BY <1>0, <1>3, <2>3, <2>4, ShapeEnds, QueueTyped
  <2>7. Shape(Settled', Forward(pull_pos), pos, Taken + 1, (Len(pushed) - Taken) - 1, pushed)
    BY <1>0, <2>3, <2>4, <2>5, <2>6, ShapePull, QueueTyped
  <2>8. Taken' = Taken + 1 /\ Len(pushed') - Taken' = (Len(pushed) - Taken) - 1
    BY <1>0, <2>4, <2>5, QueueTyped
  <2>9. Shape(Settled, pull_pos, pos, Taken, Len(pushed) - Taken, pushed)'
    BY <1>0, <2>1, <2>7, <2>8 DEF Shape
  <2>10. slots'[at'[p]] = pushed'[Taken']
    BY <1>0, <2>2, <2>6, <2>8
  <2> QED
    BY <1>0, <2>2, <2>3, <2>9, <2>10, OrderActor
<1> QED
  BY <1>2, <1>3

\* The slot is freed.
LEMMA OrderPullTake ==
  ASSUME FifoInv, NEW p \in Proc, PullTake(p)
  PROVE  Ordered'
<1> SUFFICES ASSUME disturbed' = FALSE
             PROVE  Ordered'
  BY DEF Ordered
<1>0. /\ pc[p] = "pulled" /\ UNCHANGED <<pos, pull_pos, at, delivered, pushed, disturbed>>
      /\ QueueInv /\ disturbed = FALSE
      /\ slots' = [slots EXCEPT ![at[p]] = NoMsg] /\ arg' = [arg EXCEPT ![p] = slots[at[p]]]
      /\ pc' = [pc EXCEPT ![p] = "unlock"]
  BY DEF PullTake, TakeSlot, FifoInv
<1>1. \A q \in Proc \ {p} : pc[q] = "idle"
  BY <1>0, Alone
<1>2. /\ Shape(Settled, pull_pos, pos, Taken, Len(pushed) - Taken, pushed)
      /\ \A k \in DOMAIN delivered : delivered[k] = pushed[k]
      /\ slots[at[p]] = pushed[Taken]
  BY <1>0 DEF FifoInv, Ordered
<1>3. Taken = Len(delivered) + 1 /\ \A i \in Slot : Settled[i] = IF i = at[p] THEN NoMsg ELSE slots[i]
  BY <1>0, <1>1, ViewNow DEF View
<1>4. pushed[Taken] \in Msg
  <2>1. Len(pushed) - Taken \in 0 .. QueueSize
    BY <1>2 DEF Shape
  <2>2. Taken \in 1 .. Len(pushed)
    BY <1>0, <1>3, <2>1, QueueTyped, QueueSizeAssumption
  <2> QED
    BY <1>0, <2>2, QueueTyped
<1>5. /\ pc'[p] = "unlock" /\ arg'[p] = pushed[Taken] /\ arg'[p] # NoMsg
      /\ \A q \in Proc \ {p} : pc'[q] = "idle"
  BY <1>0, <1>1, <1>2, <1>4, QueueTyped, NoMsgAssumption
<1>6. Taken' = Len(delivered) + 1 /\ \A i \in Slot : Settled'[i] = slots'[i]
  BY <1>0, <1>5, ViewNext DEF View
<1>7. \A i \in Slot : Settled'[i] = Settled[i]
  BY <1>0, <1>3, <1>6, QueueTyped
<1>8. Shape(Settled', pull_pos, pos, Taken, Len(pushed) - Taken, pushed)
  BY <1>0, <1>2, <1>7, ShapeSame, QueueTyped
<1>9. Shape(Settled, pull_pos, pos, Taken, Len(pushed) - Taken, pushed)'
  BY <1>0, <1>3, <1>6, <1>8 DEF Shape
<1>10. Taken' = Taken
  BY <1>3, <1>6
<1> QED
  BY <1>0, <1>2, <1>5, <1>9, <1>10, OrderActor

\* The message is delivered.
LEMMA OrderUnlock ==
  ASSUME FifoInv, NEW p \in Proc, Unlock(p)
  PROVE  Ordered'
<1> SUFFICES ASSUME disturbed' = FALSE
             PROVE  Ordered'
  BY DEF Ordered
<1>0. /\ pc[p] = "unlock" /\ UNCHANGED <<slots, pos, pull_pos, at, pushed, disturbed>>
      /\ QueueInv /\ disturbed = FALSE
      /\ arg' = [arg EXCEPT ![p] = NoMsg] /\ pc' = [pc EXCEPT ![p] = "idle"]
  BY DEF Unlock, FifoInv
<1>1. \A q \in Proc \ {p} : pc[q] = "idle"
  BY <1>0, Alone
<1>2. pc'[p] = "idle" /\ arg'[p] = NoMsg /\ \A q \in Proc \ {p} : pc'[q] = "idle"
  BY <1>0, <1>1, QueueTyped
<1>3. CASE arg[p] = NoMsg
  <2>1. delivered' = delivered
    BY <1>3 DEF Unlock
  <2> QED
    BY <1>0, <1>1, <1>2, <1>3, <2>1, OrderBegin
<1>4. CASE arg[p] # NoMsg
  <2>1. delivered' = Append(delivered, arg[p]) /\ arg[p] \in Msg
    BY <1>0, <1>4, QueueTyped DEF Unlock
  <2>2. /\ Shape(Settled, pull_pos, pos, Taken, Len(pushed) - Taken, pushed)
        /\ \A k \in DOMAIN delivered : delivered[k] = pushed[k]
        /\ arg[p] = pushed[Taken]
    BY <1>0, <1>4 DEF FifoInv, Ordered
  <2>3. Taken = Len(delivered) + 1 /\ \A i \in Slot : Settled[i] = slots[i]
    BY <1>0, <1>1, <1>4, ViewNow DEF View
  <2>4. Taken' = Len(delivered') /\ \A i \in Slot : Settled'[i] = slots[i]
    BY <1>0, <1>2, ViewNext DEF View
  <2>5. /\ Len(delivered') = Len(delivered) + 1 /\ delivered'[Len(delivered) + 1] = arg[p]
        /\ \A k \in 1 .. Len(delivered) : delivered'[k] = delivered[k]
        /\ DOMAIN delivered' = 1 .. Len(delivered) + 1 /\ DOMAIN delivered = 1 .. Len(delivered)
    BY <1>0, <2>1, QueueTyped
  <2>6. Taken' = Taken
    BY <2>3, <2>4, <2>5
  <2>7. Shape(Settled', pull_pos, pos, Taken, Len(pushed) - Taken, pushed)
    BY <1>0, <2>2, <2>3, <2>4, ShapeSame, QueueTyped
  <2>8. Shape(Settled, pull_pos, pos, Taken, Len(pushed) - Taken, pushed)'
    BY <1>0, <2>6, <2>7 DEF Shape
  <2>9. ASSUME NEW k \in DOMAIN delivered'
        PROVE  delivered'[k] = pushed'[k]
    <3>1. k = Len(delivered) + 1 \/ k \in 1 .. Len(delivered)
      BY <1>0, <2>5, QueueTyped
    <3> QED
      BY <1>0, <2>2, <2>3, <2>5, <3>1
  <2> QED
    BY <1>2, <2>8, <2>9, OrderActor
<1> QED
  BY <1>3, <1>4

\* A restart while nobody is in a call.
LEMMA OrderRestart ==
  ASSUME FifoInv, Restart
  PROVE  Ordered'
<1> SUFFICES ASSUME disturbed' = FALSE
             PROVE  Ordered'
  BY DEF Ordered
<1>0. /\ UNCHANGED <<slots, pos, pull_pos, at, pushed, delivered>> /\ QueueInv
      /\ \A q \in Proc : pc'[q] = "idle" /\ arg'[q] = NoMsg
  BY DEF Restart, FifoInv
<1>1. disturbed = FALSE /\ queue_lock = NoProc
  BY <1>0, QueueTyped DEF Restart
<1>2. \A q \in Proc : pc[q] = "idle"
  BY <1>0, <1>1, Alone
<1>3. Taken = Len(delivered) /\ Taken' = Len(delivered)
  BY <1>0, <1>2 DEF Taken
<1>4. \A i \in Slot : Settled'[i] = Settled[i]
  BY <1>0, <1>2 DEF Settled
<1>5. /\ Shape(Settled, pull_pos, pos, Taken, Len(pushed) - Taken, pushed)
      /\ \A k \in DOMAIN delivered : delivered[k] = pushed[k]
  BY <1>1 DEF FifoInv, Ordered
<1>6. Shape(Settled', pull_pos, pos, Taken, Len(pushed) - Taken, pushed)
  BY <1>0, <1>4, <1>5, ShapeSame, QueueTyped
<1>7. Shape(Settled, pull_pos, pos, Taken, Len(pushed) - Taken, pushed)'
  BY <1>0, <1>3, <1>6 DEF Shape
<1> QED
  BY <1>0, <1>5, <1>7 DEF Ordered

\* The empty ring.
LEMMA OrderInit ==
  ASSUME Init
  PROVE  FifoInv
<1>0. QueueInv
  BY QueueInit
<1>1. /\ \A p \in Proc : pc[p] = "idle"
      /\ pos = 0 /\ pull_pos = 0 /\ pushed = << >> /\ delivered = << >> /\ \A i \in Slot : slots[i] = NoMsg
  BY DEF Init
<1>2. Taken = 0 /\ Len(pushed) - Taken = 0
  BY <1>1 DEF Taken
<1>3. \A i \in Slot : Settled[i] = NoMsg
  BY <1>1 DEF Settled
<1>4. Shape(Settled, pull_pos, pos, 0, 0, pushed)
  <2>1. QueueSize \in Nat /\ QueueSize > 0 /\ 0 \in Slot
    BY QueueSizeAssumption DEF Slot
  <2>2. Wrap(pull_pos + 0) = 0 /\ 0 \in 0 .. QueueSize
    BY <1>1, <2>1 DEF Wrap
  <2>3. \A k \in 1 .. QueueSize : Wrap(pull_pos + k - 1) \in Slot /\ ~ (k <= 0)
    BY <1>1, <2>1, WrapSlot
  <2> QED
    BY <1>1, <1>3, <2>2, <2>3 DEF Shape
<1>5. Shape(Settled, pull_pos, pos, Taken, Len(pushed) - Taken, pushed)
  BY <1>2, <1>4
<1> QED
  BY <1>0, <1>1, <1>5 DEF FifoInv, Ordered

\* Every step keeps the order.
LEMMA OrderNext ==
  ASSUME FifoInv, [Next]_vars
  PROVE  FifoInv'
<1>0. QueueInv /\ Ordered
  BY DEF FifoInv
<1>1. QueueInv'
  BY <1>0, QueueNext
<1>2. CASE UNCHANGED vars
  <2>1. Ordered'
    <3>1. /\ UNCHANGED <<slots, pos, pull_pos, pc, arg, at, delivered, pushed, disturbed>>
      BY <1>2 DEF vars
    <3>2. Taken' = Taken /\ Settled' = Settled
      BY <3>1 DEF Taken, Settled
    <3> QED
      BY <1>0, <3>1, <3>2 DEF Ordered, Shape
  <2> QED
    BY <1>1, <2>1 DEF FifoInv
<1>3. CASE Restart
  BY <1>1, <1>3, OrderRestart DEF FifoInv
<1>4. ASSUME NEW p \in Proc, BeginPush(p) \/ BeginPull(p) \/ BeginPop(p) \/ BeginSet(p)
      PROVE  Ordered'
  <2>1. /\ queue_lock = NoProc /\ pc[p] = "idle"
        /\ \E to \in {"push", "pull", "pop", "set"} : pc' = [pc EXCEPT ![p] = to]
        /\ UNCHANGED <<slots, pos, pull_pos, delivered, pushed, disturbed>>
    BY <1>4 DEF BeginPush, BeginPull, BeginPop, BeginSet, Lock
  <2>2. pc'[p] \in {"push", "pull", "pop", "set"} /\ \A q \in Proc \ {p} : pc[q] = "idle" /\ pc'[q] = "idle"
    BY <1>0, <2>1, Alone, QueueTyped
  <2> QED
    BY <2>1, <2>2, OrderBegin
<1>5. ASSUME NEW p \in Proc, PopRetreat(p) \/ SetStore(p) \/ Kill(p)
      PROVE  Ordered'
  <2>1. disturbed' = TRUE
    BY <1>5 DEF PopRetreat, SetStore, Kill
  <2> QED
    BY <2>1 DEF Ordered
<1>6. ASSUME NEW p \in Proc, PopTake(p) \/ DeadlockCheck(p)
      PROVE  Ordered'
  <2>1. pc[p] \in {"popped", "dead"} /\ disturbed' = disturbed
    BY <1>6 DEF PopTake, DeadlockCheck
  <2>2. disturbed # FALSE
    BY <1>0, <2>1 DEF Ordered
  <2> QED
    BY <2>1, <2>2 DEF Ordered
<1>7. CASE \E p \in Proc : \/ BeginPush(p) \/ PushStore(p) \/ PushAdvance(p)
                           \/ BeginPull(p) \/ PullAdvance(p) \/ PullTake(p)
                           \/ BeginPop(p) \/ PopRetreat(p) \/ PopTake(p)
                           \/ BeginSet(p) \/ SetStore(p)
                           \/ Unlock(p) \/ Kill(p) \/ DeadlockCheck(p)
  <2>1. Ordered'
    BY <1>4, <1>5, <1>6, <1>7, OrderPushStore, OrderPushAdvance, OrderPullAdvance, OrderPullTake,
       OrderUnlock
  <2> QED
    BY <1>1, <2>1 DEF FifoInv
<1> QED
  BY <1>2, <1>3, <1>7 DEF Next

\* The k-th slot ahead of pull_pos.
LEMMA AheadWraps ==
  ASSUME pull_pos \in Slot, NEW k \in 0 .. QueueSize - 1
  PROVE  Ahead(k) = Wrap(pull_pos + (k + 1) - 1)
<1>1. QueueSize \in Nat /\ QueueSize > 0
  BY QueueSizeAssumption
<1>2. pull_pos \in Nat /\ pull_pos < QueueSize /\ k \in Nat /\ k < QueueSize
  BY <1>1 DEF Slot
<1>3. pull_pos + (k + 1) - 1 = pull_pos + k
  BY <1>2
<1>4. (pull_pos + k) % QueueSize = IF pull_pos + k < QueueSize THEN pull_pos + k ELSE pull_pos + k - QueueSize
  BY <1>1, <1>2
<1> QED
  BY <1>1, <1>2, <1>3, <1>4 DEF Ahead, Wrap

\* What further pulls would return, when nobody is in a call.
LEMMA OrderedContents ==
  ASSUME FifoInv
  PROVE  Fifo
<1> SUFFICES ASSUME ~disturbed, queue_lock = NoProc
             PROVE  pushed = delivered \o Contents
  BY DEF Fifo
<1> DEFINE t == Len(delivered)
<1> DEFINE h == Len(pushed) - Len(delivered)
<1>0. QueueInv /\ Ordered
  BY DEF FifoInv
<1>1. \A p \in Proc : pc[p] = "idle"
  BY <1>0, Alone
<1>2. Taken = t /\ \A i \in Slot : Settled[i] = slots[i]
  BY <1>1 DEF Taken, Settled
<1>3. disturbed = FALSE
  BY <1>0, QueueTyped
<1>4. Shape(slots, pull_pos, pos, t, h, pushed) /\ \A k \in DOMAIN delivered : delivered[k] = pushed[k]
  <2>1. /\ Shape(Settled, pull_pos, pos, Taken, Len(pushed) - Taken, pushed)
        /\ \A k \in DOMAIN delivered : delivered[k] = pushed[k]
    BY <1>0, <1>3 DEF Ordered
  <2>2. Shape(slots, pull_pos, pos, Taken, Len(pushed) - Taken, pushed)
    BY <1>0, <1>2, <2>1, ShapeSame, QueueTyped
  <2> QED
    BY <1>2, <2>1, <2>2
<1>5. QueueSize \in Nat /\ QueueSize > 0 /\ t \in Nat /\ Len(pushed) \in Nat
  BY <1>0, QueueSizeAssumption, QueueTyped
<1>6. h \in 0 .. QueueSize /\ h \in Nat /\ h <= QueueSize /\ t + h = Len(pushed)
  <2>1. h \in 0 .. QueueSize
    BY <1>4 DEF Shape
  <2> QED
    BY <1>5, <2>1
<1> HIDE DEF h, t
<1>7. ASSUME NEW k \in 0 .. QueueSize - 1
      PROVE  slots[Ahead(k)] = IF k < h THEN pushed[t + k + 1] ELSE NoMsg
  <2>1. k + 1 \in 1 .. QueueSize /\ k \in Nat
    BY <1>5
  <2>2. slots[Wrap(pull_pos + (k + 1) - 1)] = IF k + 1 <= h THEN pushed[t + (k + 1)] ELSE NoMsg
    BY <1>4, <2>1 DEF Shape
  <2>3. Ahead(k) = Wrap(pull_pos + (k + 1) - 1)
    BY <1>0, AheadWraps, QueueTyped
  <2>4. (k + 1 <= h <=> k < h) /\ t + (k + 1) = t + k + 1
    BY <1>5, <1>6, <2>1
  <2> QED
    BY <2>2, <2>3, <2>4
<1>8. ASSUME NEW k \in 0 .. QueueSize - 1, k < h
      PROVE  pushed[t + k + 1] \in Msg /\ pushed[t + k + 1] # NoMsg
  <2>1. t + k + 1 \in 1 .. Len(pushed)
    BY <1>5, <1>6, <1>8
  <2>2. pushed[t + k + 1] \in Msg
    BY <1>0, <2>1, QueueTyped
  <2> QED
    BY <2>2, NoMsgAssumption
<1> DEFINE P(n) == /\ \A k \in 0 .. n - 1 : slots[Ahead(k)] # NoMsg
                   /\ n < QueueSize => slots[Ahead(n)] = NoMsg
<1>9. P(h)
  <2>1. \A k \in 0 .. h - 1 : k \in 0 .. QueueSize - 1 /\ k < h
    BY <1>5, <1>6
  <2>2. h < QueueSize => h \in 0 .. QueueSize - 1 /\ ~ (h < h)
    BY <1>5, <1>6
  <2> QED
    BY <1>7, <1>8, <2>1, <2>2
<1>10. ASSUME NEW n \in 0 .. QueueSize, P(n)
       PROVE  n = h
  <2>1. ~ (n < h)
    <3> SUFFICES ASSUME n < h
                 PROVE  FALSE
      OBVIOUS
    <3>1. n < QueueSize /\ n \in 0 .. QueueSize - 1
      BY <1>5, <1>6
    <3> QED
      BY <1>7, <1>8, <1>10, <3>1
  <2>2. ~ (h < n)
    <3> SUFFICES ASSUME h < n
                 PROVE  FALSE
      OBVIOUS
    <3>1. h \in 0 .. n - 1 /\ h \in 0 .. QueueSize - 1 /\ ~ (h < h)
      BY <1>5, <1>6
    <3> QED
      BY <1>7, <1>10, <3>1
  <2> QED
    BY <1>5, <1>6, <2>1, <2>2
<1> DEFINE c == CHOOSE n \in 0 .. QueueSize : P(n)
<1>11. c = h
  <2>1. c \in 0 .. QueueSize /\ P(c)
    BY <1>6, <1>9
  <2> HIDE DEF c, P
  <2> QED
    BY <1>10, <2>1
<1>12. Contents = [k \in 1 .. c |-> slots[Ahead(k - 1)]]
  BY DEF Contents
<1> HIDE DEF c, P
<1>13. Contents = [k \in 1 .. h |-> pushed[t + k]]
  <2>1. ASSUME NEW k \in 1 .. h
        PROVE  slots[Ahead(k - 1)] = pushed[t + k]
    <3>1. k - 1 \in 0 .. QueueSize - 1 /\ k - 1 < h /\ t + (k - 1) + 1 = t + k
      BY <1>5, <1>6
    <3> QED
      BY <1>7, <3>1
  <2> QED
    BY <1>11, <1>12, <2>1
<1>14. ASSUME NEW k \in 1 .. h
       PROVE  pushed[t + k] \in Msg /\ t + k \in 1 .. Len(pushed)
  <2>1. t + k \in 1 .. Len(pushed)
    BY <1>5, <1>6
  <2> QED
    BY <1>0, <2>1, QueueTyped
<1>15. Contents \in Seq(Msg) /\ Len(Contents) = h
  BY <1>6, <1>13, <1>14
<1>16. /\ delivered \o Contents \in Seq(Msg) /\ Len(delivered \o Contents) = t + h
       /\ \A k \in 1 .. t + h : (delivered \o Contents)[k] = IF k <= t THEN delivered[k] ELSE Contents[k - t]
  BY <1>0, <1>15, QueueTyped, ConcatProperties DEF t
<1>17. ASSUME NEW k \in 1 .. Len(pushed)
       PROVE  (delivered \o Contents)[k] = pushed[k]
  <2>1. CASE k <= t
    <3>1. k \in DOMAIN delivered
      BY <1>0, <1>5, <2>1, QueueTyped DEF t
    <3> QED
      BY <1>4, <1>6, <1>16, <2>1, <3>1
  <2>2. CASE ~ (k <= t)
    <3>1. k - t \in 1 .. h /\ t + (k - t) = k
      BY <1>5, <1>6, <2>2
    <3>2. Contents[k - t] = pushed[t + (k - t)]
      BY <1>13, <3>1
    <3> QED
      BY <1>6, <1>16, <2>2, <3>1, <3>2
  <2> QED
    BY <2>1, <2>2
<1> QED
  BY <1>0, <1>6, <1>16, <1>17, QueueTyped, SeqEqual

\* The inductive invariant with the order of the messages.
THEOREM QueueOrdered == Spec => []FifoInv
<1>1. Init => FifoInv
  BY OrderInit
<1>2. FifoInv /\ [Next]_vars => FifoInv'
  BY OrderNext
<1> QED
  BY <1>1, <1>2, PTL DEF Spec

\* uwsgi_queue_push and uwsgi_queue_pull are a lossless FIFO for every size of the ring and
\* every number of processes, wraps of both positions and restarts on the store included, as
\* long as nothing was overwritten, popped, set or killed in the middle of a call.
THEOREM QueueFifo == Spec => []Fifo
<1>1. FifoInv => Fifo
  BY OrderedContents
<1> QED
  BY <1>1, QueueOrdered, PTL
=============================================================================
