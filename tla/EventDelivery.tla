---------------------------- MODULE EventDelivery ----------------------------
(***************************************************************************)
(* What an event handler promises to those who signal events: each event   *)
(* is handled once, in the order in which the events were queued           *)
(* (ethereum/event/BREvent.h: "a strict 'first-in, first-out' basis").     *)
(***************************************************************************)
EXTENDS Sequences

CONSTANT Event     \* every event that may be signalled

VARIABLES
  queue,           \* the events announced and not yet handled
  handled          \* the events handed to their dispatcher, in that order

OccursIn(e, s) == \E i \in DOMAIN s : s[i] = e

Init == queue = <<>> /\ handled = <<>>

Announce(e) ==
  /\ ~OccursIn(e, queue) /\ ~OccursIn(e, handled)
  /\ queue' = Append(queue, e)
  /\ UNCHANGED handled

Handle ==
  /\ queue # <<>>
  /\ handled' = Append(handled, Head(queue))
  /\ queue' = Tail(queue)

Next == Handle \/ \E e \in Event : Announce(e)

Spec == Init /\ [][Next]_<<queue, handled>>
=============================================================================
