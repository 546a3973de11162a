---------------------------- MODULE SearchCalls ----------------------------
(* What threads that share a connection may expect: a call returns the      *)
(* answer to its own question, and fails only if the connection was lost.   *)
CONSTANTS Thread,   \* the callers
          Id,       \* what they may ask for
          AnswerTo  \* AnswerTo[id]: what the service says to id

VARIABLES asked,   \* asked[t]: the id that t is asking for, if any
          result,  \* result[t]: the answer to the last call of t, if any
          lost     \* whether the connection was lost

vars == <<asked, result, lost>>

Init ==
  /\ asked = [t \in Thread |-> {}]
  /\ result = [t \in Thread |-> {}]
  /\ lost = FALSE

Ask(t, id) ==
  /\ asked[t] = {}
  /\ asked' = [asked EXCEPT ![t] = {id}]
  /\ result' = [result EXCEPT ![t] = {}]
  /\ lost' = lost

Answered(t) ==
  /\ asked[t] # {}
  /\ asked' = [asked EXCEPT ![t] = {}]
  /\ result' = [result EXCEPT ![t] = {AnswerTo[id] : id \in asked[t]}]
  /\ lost' = lost

Failed(t) ==
  /\ asked[t] # {}
  /\ lost
  /\ asked' = [asked EXCEPT ![t] = {}]
  /\ UNCHANGED <<result, lost>>

Lose == lost' = TRUE /\ UNCHANGED <<asked, result>>

Next ==
  \/ \E t \in Thread : (\E id \in Id : Ask(t, id)) \/ Answered(t) \/ Failed(t)
  \/ Lose

Spec == Init /\ [][Next]_vars
=============================================================================
