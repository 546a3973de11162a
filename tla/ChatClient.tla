----------------------------- MODULE ChatClient -----------------------------
(* The chat client of demo_boost_asio/chat_client.cpp: the main thread      *)
(* reads lines and posts work, the io thread runs io_service.run().  The    *)
(* two share nothing but the io_service's queue of handlers; the operating  *)
(* system completes the asynchronous operations meanwhile.                  *)
EXTENDS Naturals, Sequences, FiniteSets

CONSTANTS Message,  \* the lines typed, told apart by identity only
          MaxLines  \* bound of the instances: lines typed
ASSUME LinesAssumption == MaxLines \in Nat

VARIABLES
  main,         \* the main thread: "input", "joining" or "exited"
  io,           \* the io thread: "running", or "stopped" when run() returned
  ready,        \* the handlers that run() will call, in this order
  pending,      \* the asynchronous operations not completed yet
  open,         \* whether socket_ is open
  established,  \* whether the connection was made
  write_msgs_,  \* the messages to be written, oldest first
  typed,        \* history: the lines passed to write()
  sent          \* history: the messages written completely

vars == <<main, io, ready, pending, open, established, write_msgs_, typed, sent>>

Operation == {"connect", "header", "body", "write"}

(* A handler was posted, to write a message or to close, or completes an    *)
(* operation.                                                               *)
IsPost(h) == "post" \in DOMAIN h
IsLine(h) == IsPost(h) /\ h.post = "line"

(* The constructor has called do_connect(), and the thread is started.      *)
Init ==
  /\ main = "input" /\ io = "running"
  /\ ready = <<>> /\ pending = {"connect"}
  /\ open = TRUE /\ established = FALSE
  /\ write_msgs_ = <<>> /\ typed = <<>> /\ sent = <<>>

-----------------------------------------------------------------------------
(* The main thread.                                                         *)

(* One turn of the getline loop: c.write(msg), whatever became of the       *)
(* connection and of the io thread.                                         *)
Type(m) ==
  /\ main = "input"
  /\ Len(typed) < MaxLines
  /\ typed' = Append(typed, m)
  /\ ready' = Append(ready, [post |-> "line", msg |-> m])
  /\ UNCHANGED <<main, io, pending, open, established, write_msgs_, sent>>

(* The end of the input, or a line that is too long: c.close(), t.join().   *)
EndOfInput ==
  /\ main = "input"
  /\ main' = "joining"
  /\ ready' = Append(ready, [post |-> "close"])
  /\ UNCHANGED <<io, pending, open, established, write_msgs_, typed, sent>>

Joined ==
  /\ main = "joining"
  /\ io = "stopped"
  /\ main' = "exited"
  /\ UNCHANGED <<io, ready, pending, open, established, write_msgs_, typed, sent>>

-----------------------------------------------------------------------------
(* The operating system and the reactor (external).  An operation may fail  *)
(* at any time; it succeeds only on an open socket, and reading and writing *)
(* only over an established connection.  A write that was started before    *)
(* waits for the connection, or fails with an attempt to make it.           *)
Complete(op, ok) ==
  /\ op \in pending
  /\ ok => open /\ (op = "connect" \/ established)
  /\ pending' = pending \ {op}
  /\ ready' = Append(ready, [op |-> op, ok |-> ok])
  /\ established' = (established \/ (op = "connect" /\ ok))
  /\ sent' = IF op = "write" /\ ok THEN Append(sent, Head(write_msgs_)) ELSE sent
  /\ UNCHANGED <<main, io, open, write_msgs_, typed>>

-----------------------------------------------------------------------------
(* The io thread: each handler that run() calls is one step.                *)

(* An async operation is started; on a closed socket it fails at once, and  *)
(* its handler is queued behind the others.                                 *)
Start(op) ==
  /\ pending' = IF open THEN pending \cup {op} ELSE pending
  /\ ready' = IF open THEN Tail(ready)
                      ELSE Append(Tail(ready), [op |-> op, ok |-> FALSE])
  /\ open' = open

(* socket_.close(), in a handler: everything pending is aborted, in the      *)
(* order in which the reactor's queues are emptied (external), and what was *)
(* queued already stays as it is.                                           *)
AbortedOf(op) == IF op \in pending THEN <<[op |-> op, ok |-> FALSE]>> ELSE <<>>
Close ==
  /\ open' = FALSE
  /\ pending' = {}
  /\ ready' = Tail(ready) \o AbortedOf("header") \o AbortedOf("body")
                \o AbortedOf("connect") \o AbortedOf("write")

Nothing == ready' = Tail(ready) /\ UNCHANGED <<pending, open>>

(* run() takes the handler h off the queue and calls it.                    *)
Running(h) == io = "running" /\ ready # <<>> /\ Head(ready) = h

(* The handler write() posted. *)
AlwaysInProgress == TRUE  \* a mistake: push_back before the check
WriteInProgress == write_msgs_ # <<>>
RunLine(m) ==
  /\ Running([post |-> "line", msg |-> m])
  /\ write_msgs_' = Append(write_msgs_, m)
  /\ IF WriteInProgress THEN Nothing ELSE Start("write")
  /\ UNCHANGED <<main, io, established, typed, sent>>

(* The handler close() posted. *)
ClosedWhenIdle ==  \* a mistake: unwritten messages put the close off
  /\ Running([post |-> "close"])
  /\ IF WriteInProgress THEN Nothing ELSE Close
  /\ UNCHANGED <<main, io, established, write_msgs_, typed, sent>>
RunClose ==
  /\ Running([post |-> "close"])
  /\ Close
  /\ UNCHANGED <<main, io, established, write_msgs_, typed, sent>>

(* do_connect's handler: an error is ignored.                               *)
ConnectedButDeaf(ok) ==  \* a mistake: do_read_header() not called
  /\ Running([op |-> "connect", ok |-> ok])
  /\ Nothing
  /\ UNCHANGED <<main, io, established, write_msgs_, typed, sent>>
RunConnected(ok) ==
  /\ Running([op |-> "connect", ok |-> ok])
  /\ IF ok THEN Start("header") ELSE Nothing
  /\ UNCHANGED <<main, io, established, write_msgs_, typed, sent>>

(* do_read_header's handler; ok says that decode_header() took it, too.     *)
RunHeader(ok) ==
  /\ Running([op |-> "header", ok |-> ok])
  /\ IF ok THEN Start("body") ELSE Close
  /\ UNCHANGED <<main, io, established, write_msgs_, typed, sent>>

(* do_read_body's handler; the message is printed, if it came.              *)
RunBody(ok) ==
  /\ Running([op |-> "body", ok |-> ok])
  /\ IF ok THEN Start("header") ELSE Close
  /\ UNCHANGED <<main, io, established, write_msgs_, typed, sent>>

(* do_write's handler: an error leaves the queue as it is.                  *)
NotPopped(q) == q  \* a mistake: pop_front forgotten
Popped(q) == Tail(q)
RunWritten(ok) ==
  /\ Running([op |-> "write", ok |-> ok])
  /\ write_msgs_' = IF ok THEN Popped(write_msgs_) ELSE write_msgs_
  /\ IF ~ok THEN Close
     ELSE IF Len(write_msgs_) > 1 THEN Start("write") ELSE Nothing
  /\ UNCHANGED <<main, io, established, typed, sent>>

(* run() returns for good when no handler and no operation is left.         *)
RunReturns ==
  /\ io = "running"
  /\ ready = <<>> /\ pending = {}
  /\ io' = "stopped"
  /\ UNCHANGED <<main, ready, pending, open, established, write_msgs_, typed, sent>>

IoThread ==
  \/ \E m \in Message : RunLine(m)
  \/ RunClose
  \/ \E ok \in BOOLEAN : RunConnected(ok) \/ RunHeader(ok) \/ RunBody(ok) \/ RunWritten(ok)
  \/ RunReturns

Next ==
  \/ \E m \in Message : Type(m)
  \/ EndOfInput
  \/ Joined
  \/ \E op \in Operation, ok \in BOOLEAN : Complete(op, ok)
  \/ IoThread

(* Both threads run when they can.  Nothing is assumed of the user, the     *)
(* network or the server.                                                   *)
Spec == Init /\ [][Next]_vars /\ WF_vars(IoThread) /\ WF_vars(Joined)

-----------------------------------------------------------------------------
(* h completes one of the operations ops. *)
Ends(h, ops) == ~IsPost(h) /\ h.op \in ops

(* How many of the operations ops were started and have not had their       *)
(* handlers run.                                                            *)
Outstanding(ops) ==
  Cardinality(pending \cap ops) + Cardinality({i \in DOMAIN ready : Ends(ready[i], ops)})

(* Written already, though the handler that pops it has yet to run. *)
Unpopped ==
  IF \E i \in DOMAIN ready : ready[i] = [op |-> "write", ok |-> TRUE] THEN 1 ELSE 0

(* The handlers in q that write() posted are, in this order, for lines.     *)
PostedIn(q, lines) ==
  \E at \in [1 .. Len(lines) -> 1 .. Len(q)] :
    /\ \A k, n \in 1 .. Len(lines) : k < n => at[k] < at[n]
    /\ \A i \in 1 .. Len(q) : IsLine(q[i]) => \E k \in 1 .. Len(lines) : at[k] = i
    /\ \A k \in 1 .. Len(lines) : q[at[k]] = [post |-> "line", msg |-> lines[k]]

(* A line is on the wire, in write_msgs_, or in a handler that was posted   *)
(* and has not run: the hand-over between the threads and the writes one    *)
(* after the other neither lose nor repeat nor reorder any.                 *)
NothingLost ==
  LET got == sent \o SubSeq(write_msgs_, 1 + Unpopped, Len(write_msgs_))
      due == SubSeq(typed, Len(got) + 1, Len(typed))
  IN  typed = got \o due /\ PostedIn(ready, due)

(* One write at a time, and none missing: while the socket is open, a       *)
(* message that waits has a write before it.                                *)
WriteChain ==
  /\ Outstanding({"write"}) <= 1
  /\ Outstanding({"write"}) = 1 => write_msgs_ # <<>>
  /\ open /\ write_msgs_ # <<>> => Outstanding({"write"}) = 1

(* One of connect, header and body at a time; on a connection that is up    *)
(* there is always one, so that the io thread neither stops nor stops       *)
(* listening before the connection is lost or closed.                       *)
ReadOperation == {"connect", "header", "body"}
ReadChain ==
  /\ Outstanding(ReadOperation) <= 1
  /\ open /\ established => Outstanding(ReadOperation) = 1 /\ io = "running"

(* The client exits once its input has ended, whatever state the connection *)
(* was in: no join() waits for a run() that has an operation left.          *)
Exits == main = "joining" ~> main = "exited"
=============================================================================
