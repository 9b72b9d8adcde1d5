------------------------- MODULE EventHandlerProofs -------------------------
(***************************************************************************)
(* The event handler keeps its inductive invariant and implements          *)
(* EventDelivery, for any number of signalling threads, events, starts and *)
(* stops.                                                                  *)
(***************************************************************************)
EXTENDS EventHandler, SequenceTheorems, TLAPS

-----------------------------------------------------------------------------
(***************************************************************************)
(* Sequences.                                                              *)
(***************************************************************************)

\* What is appended to the second part is appended to the whole.
LEMMA AppendToSecond ==
  ASSUME NEW S, NEW s \in Seq(S), NEW r \in Seq(S), NEW e \in S
  PROVE  s \o Append(r, e) = Append(s \o r, e)
<1>1. Len(s \o Append(r, e)) = Len(Append(s \o r, e))
  OBVIOUS
<1>2. \A i \in 1..Len(Append(s \o r, e)) : (s \o Append(r, e))[i] = Append(s \o r, e)[i]
  OBVIOUS
<1> QED BY <1>1, <1>2, SeqEqual, s \o Append(r, e) \in Seq(S), Append(s \o r, e) \in Seq(S)

\* The head put before the tail is the sequence again.
LEMMA HeadBeforeTail ==
  ASSUME NEW S, NEW s \in Seq(S), s # <<>>
  PROVE  <<Head(s)>> \o Tail(s) = s
<1>1. Head(s) \in S /\ Tail(s) \in Seq(S) /\ Len(Tail(s)) = Len(s) - 1 /\ Len(s) > 0
  OBVIOUS
<1>2. <<Head(s)>> \in Seq(S) /\ Len(<<Head(s)>>) = 1
  BY <1>1
<1>3. Len(<<Head(s)>> \o Tail(s)) = Len(s)
  BY <1>1, <1>2
<1>4. \A i \in 1..Len(s) : (<<Head(s)>> \o Tail(s))[i] = s[i]
  BY <1>1, <1>2
<1> QED BY <1>1, <1>2, <1>3, <1>4, SeqEqual

\* One event before a queue is the queue's head, and the rest is its tail.
LEMMA FirstOfTwo ==
  ASSUME NEW S, NEW s \in Seq(S), Len(s) = 1, NEW r \in Seq(S)
  PROVE  s \o r # <<>> /\ Head(s \o r) = s[1] /\ Tail(s \o r) = r
<1> DEFINE q == s \o r
<1>1. q \in Seq(S) /\ Len(q) = 1 + Len(r)
  BY ConcatProperties
<1>2. \A i \in 1..Len(q) : q[i] = IF i <= Len(s) THEN s[i] ELSE r[i - Len(s)]
  <2>1. \A i \in 1..(Len(s) + Len(r)) : q[i] = IF i <= Len(s) THEN s[i] ELSE r[i - Len(s)]
    BY ConcatProperties
  <2> HIDE DEF q
  <2> QED BY <1>1, <2>1
<1> HIDE DEF q
<1>3. q # <<>> /\ Head(q) = q[1] /\ q[1] = s[1]
  BY <1>1, <1>2
<1>4. Tail(q) \in Seq(S) /\ Len(Tail(q)) = Len(r)
  BY <1>1, <1>3
<1>5. \A i \in 1..Len(Tail(q)) : Tail(q)[i] = r[i]
  BY <1>1, <1>2, <1>4
<1>6. Tail(q) = r
  BY <1>4, <1>5, SeqEqual
<1> QED BY <1>3, <1>6 DEF q

\* A sequence of one element is appended by appending the element.
LEMMA AppendOne ==
  ASSUME NEW S, NEW r \in Seq(S), NEW s \in Seq(S), Len(s) = 1
  PROVE  r \o s = Append(r, s[1])
<1>1. s[1] \in S
  <2>1. 1 \in 1..Len(s)
    OBVIOUS
  <2> QED BY <2>1, ElementOfSeq
<1>2. /\ r \o s \in Seq(S) /\ Len(r \o s) = Len(r) + Len(s)
      /\ \A i \in 1..(Len(r) + Len(s)) :
           (r \o s)[i] = IF i <= Len(r) THEN r[i] ELSE s[i - Len(r)]
  BY ConcatProperties
<1>3. /\ Append(r, s[1]) \in Seq(S) /\ Len(Append(r, s[1])) = Len(r) + 1
      /\ \A i \in 1..Len(r) : Append(r, s[1])[i] = r[i]
      /\ Append(r, s[1])[Len(r) + 1] = s[1]
  BY <1>1
<1> DEFINE c == r \o s
           a == Append(r, s[1])
<1>4. \A i \in 1..Len(c) : c[i] = a[i]
  <2>1. Len(r) \in Nat /\ Len(c) = Len(r) + 1
    BY <1>2
  <2>2. \A i \in 1..(Len(r) + 1) : c[i] = IF i <= Len(r) THEN r[i] ELSE s[i - Len(r)]
    BY <1>2
  <2>3. (\A i \in 1..Len(r) : a[i] = r[i]) /\ a[Len(r) + 1] = s[1]
    BY <1>3
  <2> HIDE DEF c, a
  <2>4. \A i \in 1..(Len(r) + 1) : i <= Len(r) => c[i] = a[i]
    BY <2>1, <2>2, <2>3
  <2>5. c[Len(r) + 1] = s[(Len(r) + 1) - Len(r)] /\ (Len(r) + 1) - Len(r) = 1
    BY <2>1, <2>2
  <2>6. c[Len(r) + 1] = a[Len(r) + 1]
    BY <2>3, <2>5
  <2> QED BY <2>1, <2>4, <2>6
<1> QED BY <1>2, <1>3, <1>4, SeqEqual

-----------------------------------------------------------------------------
(***************************************************************************)
(* The steps of callers keep the invariant.                                *)
(***************************************************************************)

\* A signal moves a waiting thread, if any, to where it wants the lock.
LEMMA SignalMovesWaiter ==
  ASSUME TypeOK, SignalCond
  PROVE  /\ pc' \in [Thread -> {"none"} \cup Holding \cup Waiting \cup Acquiring]
         /\ \A t \in Thread : pc'[t] = pc[t] \/ (pc[t] \in Waiting /\ pc'[t] = "woken")
BY DEF TypeOK, SignalCond, Acquiring, Waiting, Holding

\* What holds of the threads depends on where they are only as far as they hold
\* the lock: moving a waiting thread to "woken" disturbs nothing.
LEMMA SignalKept ==
  ASSUME IInv, SignalCond, UNCHANGED <<lock, starts, queueVars, sent>>
  PROVE  LockHeld' /\ DequeueFindsEvent' /\ ScratchInUse' /\ OnlySent'
<1>1. \A t \in Thread : pc'[t] = pc[t] \/ (pc[t] \in Waiting /\ pc'[t] = "woken")
  BY SignalMovesWaiter DEF IInv
<1>2. \A t \in Thread : pc'[t] \in Holding => pc[t] = pc'[t]
  BY <1>1 DEF Holding
<1>3. \A t \in Thread : pc[t] \in Holding \cup {"none"} => pc'[t] = pc[t]
  BY <1>1 DEF Holding, Waiting
<1>4. LockHeld'
  BY <1>2, <1>3 DEF IInv, LockHeld
<1>5. DequeueFindsEvent'
  BY <1>2 DEF IInv, DequeueFindsEvent, queueVars, Holding
<1>6. ScratchInUse'
  <2>1. \A t \in Thread : pc'[t] = "dispatch" <=> pc[t] = "dispatch"
    BY <1>2, <1>3 DEF Holding
  <2> QED BY <2>1 DEF IInv, ScratchInUse, queueVars
<1>7. OnlySent'
  BY DEF IInv, OnlySent, queueVars
<1> QED BY <1>4, <1>5, <1>6, <1>7

LEMMA StartKept == IInv /\ Start => IInv'
<1> SUFFICES ASSUME IInv, Start PROVE IInv'
  OBVIOUS
<1> USE DEF Thread
<1>1. starts + 1 \in Thread /\ starts \in Nat /\ MaxStarts \in Nat
  BY EventHandlerAssumption DEF IInv, TypeOK, Start
<1>2. pc[starts + 1] = "none" /\ pc' = [pc EXCEPT ![starts + 1] = "begin"]
  BY <1>1 DEF IInv, TypeOK, LockHeld, Start
<1>3. TypeOK'
  BY <1>1, <1>2 DEF IInv, TypeOK, Start, Acquiring, queueVars, callerVars
<1>4. \A t \in Thread : t # starts + 1 => pc'[t] = pc[t]
  BY <1>2 DEF IInv, TypeOK
<1>5. pc'[starts + 1] = "begin"
  BY <1>1, <1>2 DEF IInv, TypeOK
<1>6. LockHeld'
  BY <1>1, <1>4, <1>5 DEF IInv, LockHeld, Start, Holding
<1>7. DequeueFindsEvent'
  BY <1>4, <1>5 DEF IInv, DequeueFindsEvent, Start, queueVars
<1>8. ScratchInUse'
  BY <1>1, <1>2, <1>4, <1>5 DEF IInv, ScratchInUse, Start, queueVars
<1>9. OnlySent'
  BY DEF IInv, OnlySent, Start, queueVars, callerVars
<1> QED BY <1>3, <1>6, <1>7, <1>8, <1>9 DEF IInv

LEMMA StopKept == IInv /\ Stop => IInv'
<1> SUFFICES ASSUME IInv, Stop PROVE IInv'
  OBVIOUS
<1>1. TypeOK'
  BY EventHandlerAssumption DEF IInv, TypeOK, Stop, queueVars, callerVars
<1>2. LockHeld' /\ DequeueFindsEvent' /\ ScratchInUse' /\ OnlySent'
  BY DEF IInv, Stop, LockHeld, DequeueFindsEvent, ScratchInUse, OnlySent, queueVars, callerVars
<1> QED BY <1>1, <1>2 DEF IInv

LEMMA EnqueueKept == \A p \in Signaller : IInv /\ Enqueue(p) => IInv'
<1> SUFFICES ASSUME NEW p \in Signaller, IInv, Enqueue(p) PROVE IInv'
  OBVIOUS
<1> DEFINE e == <<p, sent[p] + 1>>
<1>1. /\ sent[p] \in Nat /\ sent[p] + 1 \in 1..MaxSignals /\ MaxSignals \in Nat
      /\ sent' = [sent EXCEPT ![p] = sent[p] + 1]
      /\ sent'[p] = sent[p] + 1
      /\ \A q \in Signaller : sent'[q] \in 0..MaxSignals /\ sent[q] <= sent'[q]
  BY EventHandlerAssumption DEF IInv, TypeOK, Enqueue
<1>2. e \in Event
  BY <1>1 DEF Event
<1>3. pending' = Append(pending, e)
  BY <1>1 DEF Enqueue, Queued
<1> HIDE DEF e
<1>4. pending \in Seq(Event) /\ pending' \in Seq(Event) /\ pending' # <<>>
  BY <1>2, <1>3 DEF IInv, TypeOK
<1>5. TypeOK'
  BY <1>1, <1>4 DEF IInv, TypeOK, Enqueue, handlerVars
<1>6. LockHeld' /\ DequeueFindsEvent' /\ ScratchInUse'
  BY <1>4 DEF IInv, Enqueue, LockHeld, DequeueFindsEvent, ScratchInUse, handlerVars
<1>7. OnlySent'
  <2>1. \A s \in {scratch, dispatched} : \A i \in DOMAIN s : s[i][2] <= sent'[s[i][1]]
    <3> SUFFICES ASSUME NEW s \in {scratch, dispatched}, NEW i \in DOMAIN s
                 PROVE  s[i][2] <= sent'[s[i][1]]
      OBVIOUS
    <3>1. s \in Seq(Event) /\ s[i] \in Event
      BY DEF IInv, TypeOK
    <3>2. s[i][2] <= sent[s[i][1]]
      BY DEF IInv, OnlySent
    <3>3. s[i][1] \in Signaller /\ s[i][2] \in Nat
      BY <3>1, <1>1 DEF Event
    <3> QED BY <3>2, <3>3, <1>1 DEF IInv, TypeOK
  <2>2. \A i \in DOMAIN pending' : pending'[i][2] <= sent'[pending'[i][1]]
    <3> SUFFICES ASSUME NEW i \in DOMAIN pending'
                 PROVE  pending'[i][2] <= sent'[pending'[i][1]]
      OBVIOUS
    <3>1. i \in 1..(Len(pending) + 1)
      BY <1>2, <1>3, <1>4
    <3>2. CASE i = Len(pending) + 1
      <4>1. pending'[i] = e
        BY <3>2, <1>2, <1>3, <1>4
      <4> QED BY <4>1, <1>1 DEF e
    <3>3. CASE i \in 1..Len(pending)
      <4>1. pending'[i] = pending[i] /\ i \in DOMAIN pending /\ pending[i] \in Event
        BY <3>3, <1>2, <1>3, <1>4
      <4>2. pending[i][2] <= sent[pending[i][1]]
        BY <4>1 DEF IInv, OnlySent
      <4>3. pending[i][1] \in Signaller /\ pending[i][2] \in Nat
        BY <4>1, <1>1 DEF Event
      <4> QED BY <4>1, <4>2, <4>3, <1>1 DEF IInv, TypeOK
    <3> QED BY <3>1, <3>2, <3>3, <1>4
  <2>3. UNCHANGED <<scratch, dispatched>>
    BY DEF Enqueue
  <2> QED BY <2>1, <2>2, <2>3 DEF OnlySent
<1> QED BY <1>5, <1>6, <1>7 DEF IInv

LEMMA SignalsKept == \A p \in Signaller : IInv /\ Signal(p) => IInv'
<1> SUFFICES ASSUME NEW p \in Signaller, IInv, Signal(p) PROVE IInv'
  OBVIOUS
<1>1. SignalCond
  BY DEF Signal
<1>2. TypeOK'
  BY <1>1, SignalMovesWaiter DEF IInv, TypeOK, Signal, handlerVars, queueVars
<1>3. UNCHANGED <<lock, starts, queueVars, sent>>
  BY DEF Signal, handlerVars
<1> QED BY <1>1, <1>2, <1>3, SignalKept DEF IInv

LEMMA TimeoutKept == IInv /\ (SetTimeoutDispatcher \/ SignalTimeout) => IInv'
<1>1. ASSUME IInv, SetTimeoutDispatcher PROVE IInv'
  <2>1. TypeOK'
    BY <1>1 DEF IInv, TypeOK, SetTimeoutDispatcher, queueVars, callerVars
  <2>2. LockHeld' /\ DequeueFindsEvent' /\ ScratchInUse' /\ OnlySent'
    BY <1>1 DEF IInv, SetTimeoutDispatcher, LockHeld, DequeueFindsEvent, ScratchInUse, OnlySent,
                queueVars, callerVars
  <2> QED BY <2>1, <2>2 DEF IInv
<1>2. ASSUME IInv, SignalTimeout PROVE IInv'
  <2>1. SignalCond
    BY <1>2 DEF SignalTimeout
  <2>2. TypeOK'
    BY <1>2, <2>1, SignalMovesWaiter DEF IInv, TypeOK, SignalTimeout, queueVars, callerVars
  <2>3. UNCHANGED <<lock, starts, queueVars, sent>>
    BY <1>2 DEF SignalTimeout, callerVars
  <2> QED BY <1>2, <2>1, <2>2, <2>3, SignalKept DEF IInv
<1> QED BY <1>1, <1>2

-----------------------------------------------------------------------------
(***************************************************************************)
(* The steps of the handler's threads keep the invariant.                  *)
(***************************************************************************)
Point == {"none"} \cup Holding \cup Waiting \cup Acquiring

\* A step that takes one thread to another point leaves the others where they
\* are; if it held the lock and someone else is said to hold it, no one else does.
LEMMA OneThreadMoves ==
  ASSUME TypeOK, NEW t \in Thread, NEW to \in Point, pc' = [pc EXCEPT ![t] = to]
  PROVE  /\ pc' \in [Thread -> Point] /\ pc'[t] = to
         /\ \A u \in Thread : u # t => pc'[u] = pc[u]
BY DEF TypeOK, Point

\* Only one thread is at a point where it holds the lock.
LEMMA OneHolder ==
  ASSUME LockHeld, NEW t \in Thread, NEW u \in Thread, pc[t] \in Holding, pc[u] \in Holding
  PROVE  t = u
BY DEF LockHeld

\* A thread that moves has been started.
LEMMA Moving ==
  ASSUME LockHeld, TypeOK, NEW t \in Thread, pc[t] # "none"
  PROVE  t <= starts
BY EventHandlerAssumption DEF LockHeld, TypeOK, Thread

\* The lock's conjunct after a step of a thread: it either takes the free lock,
\* gives it up, keeps it, or has nothing to do with it.
LEMMA LockKept ==
  ASSUME IInv, NEW t \in Thread, NEW to \in Point, pc[t] # "none",
         pc' = [pc EXCEPT ![t] = to], starts' = starts,
         \/ lock = NoThread /\ lock' = t
         \/ pc[t] \in Holding /\ lock' = lock
         \/ pc[t] \in Holding /\ lock' = NoThread /\ to \notin Holding
         \/ to \notin Holding /\ lock' = lock
  PROVE  LockHeld'
<1>1. /\ pc'[t] = to
      /\ \A u \in Thread : u # t => pc'[u] = pc[u]
  BY OneThreadMoves DEF IInv
<1>2. ASSUME NEW u \in Thread, pc'[u] \in Holding PROVE lock' = u
  <2>1. CASE u = t
    BY <1>1, <1>2, <2>1 DEF IInv, LockHeld
  <2>2. CASE u # t
    <3>1. pc[u] \in Holding /\ lock = u /\ u # NoThread
      BY <1>1, <1>2, <2>2 DEF IInv, LockHeld, Thread, NoThread
    <3>2. pc[t] \notin Holding
      BY <2>2, <3>1, OneHolder DEF IInv
    <3> QED BY <3>1, <3>2
  <2> QED BY <2>1, <2>2
<1>3. ASSUME NEW u \in Thread, u > starts' PROVE pc'[u] = "none"
  <2>1. u # t
    BY <1>3, Moving, EventHandlerAssumption DEF IInv, TypeOK, Thread
  <2> QED BY <1>1, <1>3, <2>1 DEF IInv, LockHeld
<1> QED BY <1>2, <1>3 DEF LockHeld

\* A step between two points of which neither has to do with the queue, the
\* events staying where they are.
LEMMA QueueKept ==
  ASSUME IInv, NEW t \in Thread, NEW to \in Point,
         to = "dequeue" => pending # <<>>,
         pc[t] # "dispatch", to # "dispatch",
         pc' = [pc EXCEPT ![t] = to], UNCHANGED <<queueVars, callerVars>>
  PROVE  DequeueFindsEvent' /\ ScratchInUse' /\ OnlySent'
<1>1. /\ pc'[t] = to
      /\ \A u \in Thread : u # t => pc'[u] = pc[u]
  BY OneThreadMoves DEF IInv
<1>2. UNCHANGED <<pending, scratch, dispatched, sent>>
  BY DEF queueVars, callerVars
<1>3. DequeueFindsEvent'
  BY <1>1, <1>2 DEF IInv, DequeueFindsEvent
<1>4. ScratchInUse'
  <2>1. \A u \in Thread : pc'[u] = "dispatch" <=> pc[u] = "dispatch"
    BY <1>1
  <2> QED BY <1>2, <2>1 DEF IInv, ScratchInUse
<1>5. OnlySent'
  BY <1>2 DEF IInv, OnlySent
<1> QED BY <1>3, <1>4, <1>5

\* A thread at any point but those of the queue: the steps that leave the queue
\* alone, and with it what the invariant says of it.
LEMMA QuietStepKept ==
  ASSUME IInv, NEW t \in Thread, NEW to \in Point,
         pc[t] \notin {"none", "dispatch"}, to # "dispatch",
         to = "dequeue" => pending # <<>>,
         pc' = [pc EXCEPT ![t] = to], UNCHANGED <<timeout, starts, stops, queueVars, callerVars>>,
         status' \in {"starting", "running", "stopping", "stopped"},
         \/ lock = NoThread /\ lock' = t
         \/ pc[t] \in Holding /\ lock' = lock
         \/ pc[t] \in Holding /\ lock' = NoThread /\ to \notin Holding
         \/ to \notin Holding /\ lock' = lock
  PROVE  IInv'
<1>1. TypeOK'
  <2>1. pc' \in [Thread -> Point]
    BY OneThreadMoves DEF IInv
  <2>2. lock' \in Thread \cup {NoThread}
    BY DEF IInv, TypeOK
  <2> QED BY <2>1, <2>2 DEF IInv, TypeOK, Point, queueVars, callerVars
<1>2. LockHeld'
  BY LockKept
<1>3. DequeueFindsEvent' /\ ScratchInUse' /\ OnlySent'
  BY QueueKept
<1> QED BY <1>1, <1>2, <1>3 DEF IInv

LEMMA QuietStepsKept ==
  \A t \in Thread :
    IInv /\ (\/ Begin(t) \/ Test(t) \/ Look(t) \/ Park(t) \/ Reacquire(t)
             \/ DispatchTimeout(t) \/ RefuseDeadline(t) \/ WakeUp(t) \/ Expire(t)) => IInv'
<1> SUFFICES ASSUME NEW t \in Thread, IInv PROVE
      (\/ Begin(t) \/ Test(t) \/ Look(t) \/ Park(t) \/ Reacquire(t)
       \/ DispatchTimeout(t) \/ RefuseDeadline(t) \/ WakeUp(t) \/ Expire(t)) => IInv'
  OBVIOUS
<1> USE DEF Goto, Point, Holding, Waiting, Acquiring
<1>0. status \in {"starting", "running", "stopping", "stopped"}
  BY DEF IInv, TypeOK
<1>1. ASSUME Begin(t) PROVE IInv'
  BY <1>1, QuietStepKept DEF Begin
<1>2. ASSUME Test(t) PROVE IInv'
  <2>1. CASE status = "running"
    BY <1>2, <2>1, QuietStepKept DEF Test
  <2>2. CASE status # "running"
    BY <1>2, <2>2, QuietStepKept DEF Test
  <2> QED BY <2>1, <2>2
<1>3. ASSUME Look(t) PROVE IInv'
  <2>1. CASE pending # <<>>
    BY <1>0, <1>3, <2>1, QuietStepKept DEF Look, handlerVars
  <2>2. CASE pending = <<>>
    BY <1>0, <1>3, <2>2, QuietStepKept DEF Look, handlerVars
  <2> QED BY <2>1, <2>2
<1>4. ASSUME Park(t) PROVE IInv'
  <2>1. CASE timeout = "none"
    <3>1. pc[t] = "park" /\ pc' = [pc EXCEPT ![t] = "wait"] /\ lock' = NoThread
      BY <1>4, <2>1 DEF Park
    <3> QED BY <1>0, <1>4, <3>1, QuietStepKept DEF Park
  <2>2. CASE timeout # "none"
    <3>1. pc[t] = "park" /\ pc' = [pc EXCEPT ![t] = "timedwait"] /\ lock' = NoThread
      BY <1>4, <2>2 DEF Park
    <3> QED BY <1>0, <1>4, <3>1, QuietStepKept DEF Park
  <2> QED BY <2>1, <2>2
<1>5. ASSUME Reacquire(t) PROVE IInv'
  <2>1. CASE pc[t] = "woken"
    <3>1. pc' = [pc EXCEPT ![t] = "test"]
      BY <1>5, <2>1 DEF Reacquire
    <3> QED BY <1>0, <1>5, <2>1, <3>1, QuietStepKept DEF Reacquire
  <2>2. CASE pc[t] = "timedout"
    <3>1. pc' = [pc EXCEPT ![t] = "expired"]
      BY <1>5, <2>2 DEF Reacquire
    <3> QED BY <1>0, <1>5, <2>2, <3>1, QuietStepKept DEF Reacquire
  <2> QED BY <1>5, <2>1, <2>2 DEF Reacquire
<1>6. ASSUME DispatchTimeout(t) PROVE IInv'
  BY <1>0, <1>6, QuietStepKept DEF DispatchTimeout, handlerVars
<1>7. ASSUME RefuseDeadline(t) PROVE IInv'
  BY <1>0, <1>7, QuietStepKept DEF RefuseDeadline, handlerVars
<1>8. ASSUME WakeUp(t) PROVE IInv'
  BY <1>0, <1>8, QuietStepKept DEF WakeUp, handlerVars
<1>9. ASSUME Expire(t) PROVE IInv'
  BY <1>0, <1>9, QuietStepKept DEF Expire, handlerVars
<1> QED BY <1>1, <1>2, <1>3, <1>4, <1>5, <1>6, <1>7, <1>8, <1>9

\* An event leaves the queue for the scratch event, which is free: a thread that
\* dispatched would hold the lock.
LEMMA DequeueKept == \A t \in Thread : IInv /\ Dequeue(t) => IInv'
<1> SUFFICES ASSUME NEW t \in Thread, IInv, Dequeue(t) PROVE IInv'
  OBVIOUS
<1>1. pc[t] = "dequeue" /\ pending # <<>> /\ pc' = [pc EXCEPT ![t] = "dispatch"]
  BY DEF IInv, DequeueFindsEvent, Dequeue, Goto
<1>2. /\ pending \in Seq(Event) /\ Head(pending) \in Event
      /\ pending' = Tail(pending) /\ pending' \in Seq(Event)
      /\ scratch' = <<Head(pending)>> /\ scratch' \in Seq(Event) /\ scratch' # <<>>
      /\ Len(scratch') = 1
      /\ UNCHANGED <<handlerVars, dispatched, callerVars>>
  BY <1>1 DEF IInv, TypeOK, Dequeue
<1>3. /\ pc' \in [Thread -> Point] /\ pc'[t] = "dispatch"
      /\ \A u \in Thread : u # t => pc'[u] = pc[u]
  BY <1>1, OneThreadMoves DEF IInv, Point, Holding
<1>4. TypeOK'
  BY <1>2, <1>3 DEF IInv, TypeOK, Point, handlerVars, callerVars
<1>5. LockHeld'
  BY <1>1, <1>2, LockKept DEF Point, Holding, handlerVars
<1>6. \A u \in Thread : u # t => pc'[u] \notin {"dequeue", "dispatch"}
  BY <1>1, <1>3, OneHolder DEF IInv, Holding
<1>7. DequeueFindsEvent'
  BY <1>3, <1>6 DEF DequeueFindsEvent
<1>8. ScratchInUse'
  BY <1>2, <1>3 DEF ScratchInUse
<1>9. OnlySent'
  <2>1. sent' = sent /\ dispatched' = dispatched
    BY <1>2 DEF callerVars
  <2>2. \A i \in DOMAIN pending : pending[i][2] <= sent[pending[i][1]]
    BY DEF IInv, OnlySent
  <2>3. \A i \in DOMAIN pending' : pending'[i] = pending[i + 1] /\ i + 1 \in DOMAIN pending
    BY <1>1, <1>2
  <2>4. \A i \in DOMAIN scratch' : scratch'[i] = pending[1] /\ 1 \in DOMAIN pending
    BY <1>1, <1>2
  <2>5. \A i \in DOMAIN pending' : pending'[i][2] <= sent[pending'[i][1]]
    BY <2>2, <2>3
  <2>6. \A i \in DOMAIN scratch' : scratch'[i][2] <= sent[scratch'[i][1]]
    BY <2>2, <2>4
  <2>7. \A i \in DOMAIN dispatched : dispatched[i][2] <= sent[dispatched[i][1]]
    BY DEF IInv, OnlySent
  <2> QED BY <2>1, <2>5, <2>6, <2>7 DEF OnlySent
<1> QED BY <1>4, <1>5, <1>7, <1>8, <1>9 DEF IInv

LEMMA DispatchKept == \A t \in Thread : IInv /\ Dispatch(t) => IInv'
<1> SUFFICES ASSUME NEW t \in Thread, IInv, Dispatch(t) PROVE IInv'
  OBVIOUS
<1>1. /\ pc[t] = "dispatch" /\ pc' = [pc EXCEPT ![t] = "test"]
      /\ scratch \in Seq(Event) /\ dispatched \in Seq(Event) /\ Len(scratch) = 1
      /\ dispatched' = dispatched \o scratch /\ scratch' = <<>>
      /\ UNCHANGED <<handlerVars, pending, callerVars>>
  BY DEF IInv, TypeOK, ScratchInUse, Dispatch, Goto
<1>2. /\ pc' \in [Thread -> Point] /\ pc'[t] = "test"
      /\ \A u \in Thread : u # t => pc'[u] = pc[u]
  BY <1>1, OneThreadMoves DEF IInv, Point, Holding
<1>3. TypeOK'
  <2>1. dispatched' \in Seq(Event) /\ scratch' \in Seq(Event)
    BY <1>1
  <2> QED BY <1>1, <1>2, <2>1 DEF IInv, TypeOK, Point, handlerVars, callerVars
<1>4. LockHeld'
  BY <1>1, LockKept DEF Point, Holding, handlerVars
<1>5. \A u \in Thread : u # t => pc'[u] \notin {"dequeue", "dispatch"}
  BY <1>1, <1>2, OneHolder DEF IInv, Holding
<1>6. DequeueFindsEvent' /\ ScratchInUse'
  BY <1>1, <1>2, <1>5 DEF DequeueFindsEvent, ScratchInUse
<1>7. OnlySent'
  <2>1. sent' = sent /\ pending' = pending
    BY <1>1 DEF callerVars
  <2>2. \A s \in {pending, scratch, dispatched} : \A i \in DOMAIN s : s[i][2] <= sent[s[i][1]]
    BY DEF IInv, OnlySent
  <2>3. ASSUME NEW i \in DOMAIN dispatched' PROVE dispatched'[i][2] <= sent[dispatched'[i][1]]
    <3>0. Len(dispatched) \in Nat /\ dispatched \in Seq(Event) /\ scratch \in Seq(Event)
      BY <1>1
    <3>1. /\ DOMAIN dispatched' = 1..(Len(dispatched) + 1)
          /\ \A k \in 1..(Len(dispatched) + 1) :
               dispatched'[k] = IF k <= Len(dispatched) THEN dispatched[k]
                                ELSE scratch[k - Len(dispatched)]
      <4> DEFINE d == dispatched \o scratch
      <4>1. /\ d \in Seq(Event) /\ Len(d) = Len(dispatched) + Len(scratch)
            /\ \A k \in 1..(Len(dispatched) + Len(scratch)) :
                 d[k] = IF k <= Len(dispatched) THEN dispatched[k]
                        ELSE scratch[k - Len(dispatched)]
        BY <3>0, ConcatProperties
      <4>2. Len(scratch) = 1 /\ dispatched' = d
        BY <1>1
      <4> HIDE DEF d
      <4>3. DOMAIN d = 1..(Len(dispatched) + 1)
        BY <4>1, <4>2
      <4> QED BY <4>1, <4>2, <4>3
    <3>2. CASE i <= Len(dispatched)
      <4>1. dispatched'[i] = dispatched[i] /\ i \in DOMAIN dispatched
        BY <2>3, <3>0, <3>1, <3>2
      <4> QED BY <2>2, <4>1
    <3>3. CASE i = Len(dispatched) + 1
      <4>1. i - Len(dispatched) = 1 /\ dispatched'[i] = scratch[1]
        BY <3>0, <3>1, <3>3
      <4>2. 1 \in DOMAIN scratch
        BY <1>1
      <4> QED BY <2>2, <4>1, <4>2
    <3> QED BY <2>3, <3>0, <3>1, <3>2, <3>3
  <2>4. \A i \in DOMAIN scratch' : FALSE
    BY <1>1
  <2> QED BY <2>1, <2>2, <2>3, <2>4 DEF OnlySent
<1> QED BY <1>3, <1>4, <1>6, <1>7 DEF IInv

-----------------------------------------------------------------------------
(***************************************************************************)
(* The theorems.                                                           *)
(***************************************************************************)
LEMMA InitInv == Init => IInv
<1> SUFFICES ASSUME Init PROVE IInv
  OBVIOUS
<1>1. TypeOK
  BY EventHandlerAssumption DEF Init, TypeOK, Thread
<1>2. LockHeld /\ DequeueFindsEvent /\ ScratchInUse
  BY DEF Init, LockHeld, DequeueFindsEvent, ScratchInUse, Holding
<1>3. OnlySent
  BY DEF Init, OnlySent
<1> QED BY <1>1, <1>2, <1>3 DEF IInv

LEMMA NextInv == IInv /\ [Next]_vars => IInv'
<1> SUFFICES ASSUME IInv, [Next]_vars PROVE IInv'
  OBVIOUS
<1>1. CASE Start \/ Stop \/ SetTimeoutDispatcher \/ SignalTimeout
  BY <1>1, StartKept, StopKept, TimeoutKept
<1>2. ASSUME NEW p \in Signaller, Enqueue(p) \/ Signal(p) PROVE IInv'
  BY <1>2, EnqueueKept, SignalsKept
<1>3. ASSUME NEW t \in Thread, Run(t) \/ RefuseDeadline(t) \/ WakeUp(t) \/ Expire(t) PROVE IInv'
  BY <1>3, QuietStepsKept, DequeueKept, DispatchKept DEF Run
<1>4. CASE UNCHANGED vars
  BY <1>4 DEF vars, handlerVars, queueVars, callerVars, IInv, TypeOK, LockHeld,
              DequeueFindsEvent, ScratchInUse, OnlySent
<1> QED BY <1>1, <1>2, <1>3, <1>4 DEF Next

\* For any number of signalling threads, events, starts and stops, the invariant
\* holds in every reachable state.
THEOREM Invariance == Spec => []IInv
<1>1. Init => IInv
  BY InitInv
<1>2. IInv /\ [Next]_vars => IInv'
  BY NextInv
<1> QED BY <1>1, <1>2, PTL DEF Spec

\* A thread that has seen a pending event finds one when it takes it, however
\* many threads stops and starts have left running (BREvent.c:168).
THEOREM DequeueNeverEmpty == Spec => []DequeueFindsEvent
<1>1. IInv => DequeueFindsEvent
  BY DEF IInv
<1> QED BY <1>1, Invariance, PTL

-----------------------------------------------------------------------------
(***************************************************************************)
(* The refinement.  Taking an event out of the queue is a stutter, since   *)
(* the mapped queue still has it at its head until it is dispatched.       *)
(***************************************************************************)
LEMMA DequeueStutters ==
  \A t \in Thread : IInv /\ Dequeue(t) => UNCHANGED <<scratch \o pending, dispatched>>
<1> SUFFICES ASSUME NEW t \in Thread, IInv, Dequeue(t)
             PROVE  UNCHANGED <<scratch \o pending, dispatched>>
  OBVIOUS
<1>1. pc[t] = "dequeue" /\ pending # <<>> /\ pending \in Seq(Event)
  BY DEF IInv, TypeOK, DequeueFindsEvent, Dequeue, Goto
<1>2. scratch = <<>>
  <2>1. \A u \in Thread : pc[u] # "dispatch"
    BY <1>1, OneHolder DEF IInv, Holding
  <2> QED BY <2>1 DEF IInv, ScratchInUse
<1>3. scratch' = <<Head(pending)>> /\ pending' = Tail(pending) /\ dispatched' = dispatched
  BY <1>1 DEF Dequeue
<1>4. scratch' \o pending' = pending
  BY <1>1, <1>3, HeadBeforeTail
<1>5. scratch \o pending = pending
  BY <1>1, <1>2, ConcatEmptySeq
<1> QED BY <1>3, <1>4, <1>5

LEMMA DispatchHandles == \A t \in Thread : IInv /\ Dispatch(t) => Delivery!Handle
<1> SUFFICES ASSUME NEW t \in Thread, IInv, Dispatch(t) PROVE Delivery!Handle
  OBVIOUS
<1>1. /\ scratch \in Seq(Event) /\ Len(scratch) = 1
      /\ pending \in Seq(Event) /\ dispatched \in Seq(Event)
      /\ dispatched' = dispatched \o scratch /\ scratch' = <<>> /\ pending' = pending
  BY DEF IInv, TypeOK, ScratchInUse, Dispatch, Goto
<1>2. /\ scratch \o pending # <<>> /\ Head(scratch \o pending) = scratch[1]
      /\ Tail(scratch \o pending) = pending
  BY <1>1, FirstOfTwo
<1>3. scratch' \o pending' = pending
  BY <1>1, ConcatEmptySeq
<1>4. dispatched' = Append(dispatched, scratch[1])
  BY <1>1, AppendOne
<1> QED BY <1>2, <1>3, <1>4 DEF Delivery!Handle

\* An event is announced once: its number is above all that its thread has sent.
LEMMA EnqueueAnnounces ==
  \A p \in Signaller : IInv /\ Enqueue(p) => \E e \in Event : Delivery!Announce(e)
<1> SUFFICES ASSUME NEW p \in Signaller, IInv, Enqueue(p)
             PROVE  \E e \in Event : Delivery!Announce(e)
  OBVIOUS
<1> DEFINE e == <<p, sent[p] + 1>>
<1>1. /\ sent[p] \in Nat /\ sent[p] + 1 \in 1..MaxSignals
      /\ sent'[p] = sent[p] + 1
  BY EventHandlerAssumption DEF IInv, TypeOK, Enqueue
<1>2. e \in Event
  BY <1>1 DEF Event
<1>3. pending' = Append(pending, e) /\ UNCHANGED <<scratch, dispatched>>
  BY <1>1 DEF Enqueue, Queued
<1>4. scratch \in Seq(Event) /\ pending \in Seq(Event) /\ dispatched \in Seq(Event)
  BY DEF IInv, TypeOK
<1>5. \A s \in {pending, scratch, dispatched} : \A i \in DOMAIN s : s[i] # e
  <2> SUFFICES ASSUME NEW s \in {pending, scratch, dispatched}, NEW i \in DOMAIN s, s[i] = e
               PROVE  FALSE
    OBVIOUS
  <2>1. s[i][2] <= sent[s[i][1]]
    BY DEF IInv, OnlySent
  <2> QED BY <1>1, <2>1
<1>6. \A i \in DOMAIN (scratch \o pending) : (scratch \o pending)[i] # e
  <2> SUFFICES ASSUME NEW i \in DOMAIN (scratch \o pending) PROVE (scratch \o pending)[i] # e
    OBVIOUS
  <2> HIDE DEF e
  <2>1. CASE i <= Len(scratch)
    <3>1. (scratch \o pending)[i] = scratch[i] /\ i \in DOMAIN scratch
      BY <1>4, <2>1
    <3> QED BY <1>5, <3>1
  <2>2. CASE ~(i <= Len(scratch))
    <3>1. /\ (scratch \o pending)[i] = pending[i - Len(scratch)]
          /\ i - Len(scratch) \in DOMAIN pending
      BY <1>4, <2>2
    <3> QED BY <1>5, <3>1
  <2> QED BY <2>1, <2>2
<1>7. scratch' \o pending' = Append(scratch \o pending, e)
  <2> HIDE DEF e
  <2> QED BY <1>2, <1>3, <1>4, AppendToSecond
<1>8. Delivery!Announce(e)
  <2> HIDE DEF e
  <2> QED BY <1>3, <1>5, <1>6, <1>7 DEF Delivery!Announce, Delivery!OccursIn
<1> QED BY <1>2, <1>8

\* Whatever threads signal, start and stop, the handler is a queue that hands on
\* each event once and in order: every step handles the first event, announces a
\* new one or is a stutter of EventDelivery (BREvent.h:110).
THEOREM Implementation == Spec => DeliverySpec
<1>1. Init => Delivery!Init
  BY ConcatEmptySeq DEF Init, Delivery!Init
<1>2. IInv /\ [Next]_vars => [Delivery!Next]_<<scratch \o pending, dispatched>>
  <2> SUFFICES ASSUME IInv, [Next]_vars
               PROVE  [Delivery!Next]_<<scratch \o pending, dispatched>>
    OBVIOUS
  <2>1. ASSUME UNCHANGED <<pending, scratch, dispatched>>
        PROVE  UNCHANGED <<scratch \o pending, dispatched>>
    BY <2>1
  <2>2. CASE Start \/ Stop \/ SetTimeoutDispatcher \/ SignalTimeout \/ UNCHANGED vars
    BY <2>1, <2>2 DEF Start, Stop, SetTimeoutDispatcher, SignalTimeout, vars, queueVars
  <2>3. ASSUME NEW p \in Signaller, Enqueue(p) PROVE Delivery!Next
    BY <2>3, EnqueueAnnounces DEF Delivery!Next
  <2>4. ASSUME NEW p \in Signaller, Signal(p) PROVE UNCHANGED <<scratch \o pending, dispatched>>
    BY <2>1, <2>4 DEF Signal, queueVars
  <2>5. ASSUME NEW t \in Thread, Dispatch(t) PROVE Delivery!Next
    BY <2>5, DispatchHandles DEF Delivery!Next
  <2>6. ASSUME NEW t \in Thread, Dequeue(t) PROVE UNCHANGED <<scratch \o pending, dispatched>>
    BY <2>6, DequeueStutters
  <2>7. ASSUME NEW t \in Thread,
               \/ Begin(t) \/ Test(t) \/ Look(t) \/ Park(t) \/ Reacquire(t)
               \/ DispatchTimeout(t) \/ RefuseDeadline(t) \/ WakeUp(t) \/ Expire(t)
        PROVE  UNCHANGED <<scratch \o pending, dispatched>>
    BY <2>1, <2>7 DEF Begin, Test, Look, Park, Reacquire, DispatchTimeout, RefuseDeadline,
                      WakeUp, Expire, queueVars
  <2> QED BY <2>2, <2>3, <2>4, <2>5, <2>6, <2>7 DEF Next, Run
<1> QED BY <1>1, <1>2, Invariance, PTL DEF Spec, DeliverySpec, Delivery!Spec
=============================================================================
