--------------------------- MODULE PublishPromise ---------------------------
(***************************************************************************)
(* What a caller of BRPeerManagerPublishTx may rely on: its callback is    *)
(* called once at most, only after the call, and only a call for a         *)
(* transaction that is on the publish list already loses its callback.     *)
(***************************************************************************)
CONSTANTS Call, TxOf

VARIABLES
  answer,          \* answer[c]: "none", "accepted", "lost", or what c's callback was given
  listed           \* the transactions on the publish list

Init == answer = [c \in Call |-> "none"] /\ listed = {}

Results == {"ok", "invalid", "timeout", "notconn"}

Accept(c) == answer[c] = "none" /\ answer' = [answer EXCEPT ![c] = "accepted"]

Lose(c) == answer[c] \in {"none", "accepted"} /\ TxOf[c] \in listed
           /\ answer' = [answer EXCEPT ![c] = "lost"]

\* one event may answer every call that waits
AnswerSome ==
  \E C \in (SUBSET Call) \ {{}}, r \in Results :
    /\ \A c \in C : answer[c] \in {"none", "accepted"}
    /\ answer' = [c \in Call |-> IF c \in C THEN r ELSE answer[c]]

\* the list never shrinks
Next ==
  /\ listed \subseteq listed'
  /\ (\E c \in Call : Accept(c) \/ Lose(c)) \/ AnswerSome \/ UNCHANGED answer

Spec == Init /\ [][Next]_<<answer, listed>>
=============================================================================
