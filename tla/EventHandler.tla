---------------------------- MODULE EventHandler ----------------------------
(***************************************************************************)
(* The event handler of the Ethereum light node, ethereum/event/BREvent.c  *)
(* and BREventQueue.c: threads signal events into a queue, and a thread of *)
(* the handler takes them out and calls their dispatchers.                 *)
(*                                                                         *)
(* Three things synchronise them.  The handler's lock is held by its       *)
(* thread from one wait to the next, dispatchers included.  The queue has  *)
(* a lock of its own, a copy that eventQueueCreate takes of the handler's  *)
(* (BREventQueue.c:64), so each queue operation is one step, and a signal  *)
(* needs nothing that the handler's thread holds.  The condition variable  *)
(* remembers nothing: a signal wakes a thread that waits, or no one.       *)
(***************************************************************************)
EXTENDS Integers, Sequences, FiniteSets

CONSTANTS
  Signaller,       \* the threads that signal events
  MaxSignals,      \* bound on the events that each of them signals
  MaxStarts,       \* bound on the threads that eventHandlerStart creates
  MaxStops,        \* bound on the calls of eventHandlerStop
  UsesTimeout      \* whether a timeout dispatcher may be set

ASSUME EventHandlerAssumption ==
  /\ MaxSignals \in Nat /\ MaxStarts \in Nat \ {0} /\ MaxStops \in Nat
  /\ UsesTimeout \in BOOLEAN

Thread == 1..MaxStarts
NoThread == 0
Event == Signaller \X (1..MaxSignals)

\* the handler's record
VARIABLES
  status,          \* "starting", "running", "stopping" or "stopped"
  pending,         \* the queue's linked list of pending events
  scratch,         \* the event that is being dispatched, one at most
  timeout,         \* the dispatcher: "none", "set", and once waiters know "signalled"
  lock             \* the thread of the handler that holds its lock

\* where each thread is
VARIABLES
  pc,              \* pc[t]: a thread that eventHandlerStart has created
  signalling,      \* signalling[p]: p has queued an event, not yet signalled it
  sent             \* sent[p]: how many events p has queued

VARIABLE dispatched  \* the events given to their dispatchers, in that order

VARIABLES starts, stops

handlerVars == <<status, timeout, lock, starts, stops>>
queueVars   == <<pending, scratch, dispatched>>
callerVars  == <<signalling, sent>>
vars == <<handlerVars, queueVars, callerVars, pc>>

\* at these points a thread holds the handler's lock
Holding == {"test", "look", "dequeue", "dispatch", "park", "expired", "gone"}
Waiting == {"wait", "timedwait"}
Acquiring == {"begin", "woken", "timedout"}

Init ==
  /\ status = "stopped" /\ timeout = "none" /\ lock = NoThread
  /\ pending = <<>> /\ scratch = <<>> /\ dispatched = <<>>
  /\ pc = [t \in Thread |-> "none"]
  /\ signalling = [p \in Signaller |-> FALSE] /\ sent = [p \in Signaller |-> 0]
  /\ starts = 0 /\ stops = 0

-----------------------------------------------------------------------------
(***************************************************************************)
(* Callers.                                                                *)
(***************************************************************************)

\* eventHandlerStart
Start ==
  /\ status \in {"stopped", "stopping"}
  /\ starts < MaxStarts
  /\ status' = "starting"
  /\ starts' = starts + 1
  /\ pc' = [pc EXCEPT ![starts'] = "begin"]
  /\ UNCHANGED <<timeout, lock, stops, queueVars, callerVars>>

\* eventHandlerStop: no signal, the thread learns of it when it next wakes
Stop ==
  /\ status \in {"running", "starting"}
  /\ stops < MaxStops
  /\ status' = "stopping"
  /\ stops' = stops + 1
  /\ UNCHANGED <<timeout, lock, starts, queueVars, callerVars, pc>>

\* mutant: a new event goes to the front
Queued_Front(e) == <<e>> \o pending

Queued(e) == Append(pending, e)

\* eventHandlerSignalEvent; a node signals nothing before it starts its handler
Enqueue(p) ==
  /\ starts > 0
  /\ ~signalling[p] /\ sent[p] < MaxSignals
  /\ sent' = [sent EXCEPT ![p] = @ + 1]
  /\ pending' = Queued(<<p, sent'[p]>>)
  /\ signalling' = [signalling EXCEPT ![p] = TRUE]
  /\ UNCHANGED <<handlerVars, scratch, dispatched, pc>>

\* pthread_cond_signal
SignalCond ==
  LET waiters == {t \in Thread : pc[t] \in Waiting}
  IN IF waiters = {} THEN UNCHANGED pc
     ELSE \E t \in waiters : pc' = [pc EXCEPT ![t] = "woken"]

Signal(p) ==
  /\ signalling[p]
  /\ SignalCond
  /\ signalling' = [signalling EXCEPT ![p] = FALSE]
  /\ UNCHANGED <<handlerVars, queueVars, sent>>

\* mutant: leaves out the signal
SetTimeoutDispatcher_Silent ==
  /\ UsesTimeout /\ timeout = "none" /\ lock = NoThread
  /\ timeout' = "signalled"
  /\ UNCHANGED <<status, lock, starts, stops, queueVars, callerVars, pc>>

\* eventHandlerSetTimeoutDispatcher, under the lock, and then its signal
SetTimeoutDispatcher ==
  /\ UsesTimeout /\ timeout = "none" /\ lock = NoThread
  /\ timeout' = "set"
  /\ UNCHANGED <<status, lock, starts, stops, queueVars, callerVars, pc>>

SignalTimeout ==
  /\ timeout = "set"
  /\ timeout' = "signalled"
  /\ SignalCond
  /\ UNCHANGED <<status, lock, starts, stops, queueVars, callerVars>>

-----------------------------------------------------------------------------
(***************************************************************************)
(* eventHandlerThread.                                                     *)
(***************************************************************************)
Goto(t, from, to) == pc[t] = from /\ pc' = [pc EXCEPT ![t] = to]

\* mutant: a new thread does not wait for the lock
Begin_Unlocked(t) ==
  /\ Goto(t, "begin", "test")
  /\ lock' = t
  /\ status' = "running"
  /\ UNCHANGED <<timeout, starts, stops, queueVars, callerVars>>

Begin(t) ==
  /\ Goto(t, "begin", "test")
  /\ lock = NoThread /\ lock' = t
  /\ status' = "running"
  /\ UNCHANGED <<timeout, starts, stops, queueVars, callerVars>>

\* the condition of the loop; a thread that leaves keeps the lock
Test(t) ==
  /\ pc[t] = "test"
  /\ pc' = [pc EXCEPT ![t] = IF status = "running" THEN "look" ELSE "gone"]
  /\ status' = IF status = "running" THEN status ELSE "stopped"
  /\ UNCHANGED <<timeout, lock, starts, stops, queueVars, callerVars>>

\* eventQueueHasPending
Look(t) ==
  /\ Goto(t, "look", IF pending # <<>> THEN "dequeue" ELSE "park")
  /\ UNCHANGED <<handlerVars, queueVars, callerVars>>

Dequeue(t) ==
  /\ Goto(t, "dequeue", IF pending # <<>> THEN "dispatch" ELSE "test")
  /\ scratch' = IF pending # <<>> THEN <<Head(pending)>> ELSE scratch
  /\ pending' = IF pending # <<>> THEN Tail(pending) ELSE pending
  /\ UNCHANGED <<handlerVars, dispatched, callerVars>>

\* the dispatcher runs under the lock, on the handler's one scratch event
Dispatch(t) ==
  /\ Goto(t, "dispatch", "test")
  /\ dispatched' = dispatched \o scratch
  /\ scratch' = <<>>
  /\ UNCHANGED <<handlerVars, pending, callerVars>>

\* pthread_cond_wait or its timed form releases the lock and waits in one step
Park(t) ==
  /\ Goto(t, "park", IF timeout = "none" THEN "wait" ELSE "timedwait")
  /\ lock' = NoThread
  /\ UNCHANGED <<status, timeout, starts, stops, queueVars, callerVars>>

\* a deadline whose nanoseconds exceed a second is refused: no wait at all
RefuseDeadline(t) ==
  /\ Goto(t, "park", "test")
  /\ timeout # "none"
  /\ UNCHANGED <<handlerVars, queueVars, callerVars>>

\* a wait may end without a signal
WakeUp(t) ==
  /\ pc[t] \in Waiting /\ pc' = [pc EXCEPT ![t] = "woken"]
  /\ UNCHANGED <<handlerVars, queueVars, callerVars>>

Expire(t) ==
  /\ Goto(t, "timedwait", "timedout")
  /\ UNCHANGED <<handlerVars, queueVars, callerVars>>

Reacquire(t) ==
  /\ pc[t] \in {"woken", "timedout"}
  /\ lock = NoThread /\ lock' = t
  /\ pc' = [pc EXCEPT ![t] = IF @ = "woken" THEN "test" ELSE "expired"]
  /\ UNCHANGED <<status, timeout, starts, stops, queueVars, callerVars>>

DispatchTimeout(t) ==
  /\ Goto(t, "expired", "test")
  /\ UNCHANGED <<handlerVars, queueVars, callerVars>>

\* what a thread does by itself
Run(t) ==
  \/ Begin(t) \/ Test(t) \/ Look(t) \/ Dequeue(t) \/ Dispatch(t)
  \/ Park(t) \/ Reacquire(t) \/ DispatchTimeout(t)

Next ==
  \/ Start \/ Stop \/ SetTimeoutDispatcher \/ SignalTimeout
  \/ \E p \in Signaller : Enqueue(p) \/ Signal(p)
  \/ \E t \in Thread : Run(t) \/ RefuseDeadline(t) \/ WakeUp(t) \/ Expire(t)

(***************************************************************************)
(* A thread that can run runs, a call that has begun goes on, and time     *)
(* passes.  Nobody has to signal, and no wait ends by itself.              *)
(***************************************************************************)
Fairness ==
  /\ \A t \in Thread : WF_vars(Run(t)) /\ WF_vars(Expire(t))
  /\ \A p \in Signaller : WF_vars(Signal(p))
  /\ WF_vars(SignalTimeout)
  /\ WF_vars(starts = 0 /\ Start)

Spec == Init /\ [][Next]_vars /\ Fairness
-----------------------------------------------------------------------------
(***************************************************************************)
(* Properties.                                                             *)
(***************************************************************************)
TypeOK ==
  /\ status \in {"starting", "running", "stopping", "stopped"}
  /\ timeout \in {"none", "set", "signalled"}
  /\ lock \in Thread \cup {NoThread}
  /\ pending \in Seq(Event) /\ scratch \in Seq(Event) /\ dispatched \in Seq(Event)
  /\ pc \in [Thread -> {"none"} \cup Holding \cup Waiting \cup Acquiring]
  /\ signalling \in [Signaller -> BOOLEAN] /\ sent \in [Signaller -> 0..MaxSignals]
  /\ starts \in 0..MaxStarts /\ stops \in 0..MaxStops

\* The handler's threads exclude each other where they hold its lock.
LockHeld ==
  /\ \A t \in Thread : pc[t] \in Holding => lock = t
  /\ \A t \in Thread : t > starts => pc[t] = "none"

\* A thread that has seen an event finds one when it takes it: the cases of the
\* dequeue that the code calls impossible are (BREvent.c:168).
DequeueFindsEvent == \A t \in Thread : pc[t] = "dequeue" => pending # <<>>

\* The scratch event is in use exactly while a thread dispatches it.
ScratchInUse ==
  /\ scratch # <<>> => Len(scratch) = 1 /\ \E t \in Thread : pc[t] = "dispatch"
  /\ \A t \in Thread : pc[t] = "dispatch" => scratch # <<>>

\* The events that are queued, dispatched or in between were all sent.
OnlySent ==
  \A s \in {pending, scratch, dispatched} :
    \A i \in DOMAIN s : s[i][2] <= sent[s[i][1]]

\* The inductive invariant.
IInv == TypeOK /\ LockHeld /\ DequeueFindsEvent /\ ScratchInUse /\ OnlySent

\* Each event is dispatched once, in the order in which the events were queued,
\* whatever threads signal, start and stop (BREvent.h:110).
Delivery == INSTANCE EventDelivery WITH queue <- scratch \o pending, handled <- dispatched
DeliverySpec == Delivery!Spec

\* A handler with a timeout dispatcher that nobody stops dispatches every event.
IsPending(e) == \E i \in DOMAIN pending : pending[i] = e
IsDispatched(e) == \E i \in DOMAIN dispatched : dispatched[i] = e

TimedDelivery ==
  \A e \in Event : IsPending(e) /\ timeout # "none" ~> IsDispatched(e) \/ stops > 0

\* "The handler will queue the event and handle it within the handler's thread"
\* (BREvent.h:110): also without a timeout dispatcher, nobody stopping it.
EventHandled == \A e \in Event : IsPending(e) ~> IsDispatched(e)
=============================================================================
