----------------------------- MODULE LineQueue -----------------------------
(* What a direction of a chat connection is to its two ends, as long as it  *)
(* does not break: a queue of messages.  ChatSystem takes a connection to   *)
(* be one (up and down there); ChatFraming implements it with bytes.        *)
EXTENDS Sequences

CONSTANT Body  \* what may be sent

VARIABLES queue,     \* sent and not delivered, in order
          delivered  \* history: what was delivered

vars == <<queue, delivered>>

Init == queue = <<>> /\ delivered = <<>>

Send(b) ==
  /\ queue' = Append(queue, b)
  /\ UNCHANGED delivered

Deliver ==
  /\ queue # <<>>
  /\ delivered' = Append(delivered, Head(queue))
  /\ queue' = Tail(queue)

Next == Deliver \/ \E b \in Body : Send(b)
Spec == Init /\ [][Next]_vars
=============================================================================
