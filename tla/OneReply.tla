------------------------------- MODULE OneReply -------------------------------
(***************************************************************************)
(* What a request id promises its clients: the first payload that arrives  *)
(* under it is the one it stands for, and however often that payload is    *)
(* sent, every answer is the same reply.                                   *)
(***************************************************************************)
CONSTANTS Requests, Payloads, Replies, NoPayload

VARIABLES payload,   \* payload[q]: what q stands for, or NoPayload
          answers    \* answers[q]: the payloads answered under q and their replies

Init ==
  /\ payload = [q \in Requests |-> NoPayload]
  /\ answers = [q \in Requests |-> {}]

Accept(q, d) ==
  /\ payload[q] = NoPayload
  /\ payload' = [payload EXCEPT ![q] = d]
  /\ UNCHANGED answers

Answer(q, reply) ==
  /\ payload[q] # NoPayload
  /\ answers[q] \subseteq {<<payload[q], reply>>}
  /\ answers' = [answers EXCEPT ![q] = {<<payload[q], reply>>}]
  /\ UNCHANGED payload

Next == \E q \in Requests :
          \/ \E d \in Payloads : Accept(q, d)
          \/ \E reply \in Replies : Answer(q, reply)

Spec == Init /\ [][Next]_<<payload, answers>>
===============================================================================
