----------------------------- MODULE ChatServer -----------------------------
(* The chat server of demo_boost_asio/chat_server.cpp: one chat_room per    *)
(* listening port, one chat_session per accepted connection.  Everything    *)
(* runs in the single thread that calls io_service.run(), so each           *)
(* completion handler is one atomic step; what interleaves are the          *)
(* completions of the asynchronous operations, in any order.                *)
(*                                                                          *)
(* A session owns two chains of operations that end independently: a read   *)
(* chain (header, body, header, ...) and a write chain (one async_write at  *)
(* a time, over the front of write_msgs_).                                  *)
EXTENDS Naturals, Sequences

CONSTANTS Session,    \* the connections the run may see
          Room,       \* one per chat_server in main's list
          RoomOf,     \* the chat_server that accepts each connection
          Message,    \* well formed messages, told apart by identity only
          Unread,     \* the connections whose peers may stop reading for good
          MaxRecent,  \* chat_room::max_recent_msgs
          MaxLog      \* bound of the instances: messages per room

ASSUME RoomOfAssumption == RoomOf \in [Session -> Room]
ASSUME BoundAssumption == MaxRecent \in Nat /\ MaxLog \in Nat

VARIABLES
  participants_,  \* participants_[r]: the sessions in room r
  recent_msgs_,   \* recent_msgs_[r]: the messages replayed to a newcomer
  reading,        \* reading[s]: the pending read, "new" before and "done" after
  write_msgs_,    \* write_msgs_[s]: messages still to be written, oldest first
  inflight,       \* inflight[s]: the buffers of the outstanding async_writes
  failed,         \* the sessions whose write chain ended with an error
  log,            \* history: everything delivered to room r, in order
  wire,           \* history: the messages written to s completely, in order
  skipped         \* history: how much of the log s was too late for

vars == <<participants_, recent_msgs_, reading, write_msgs_, inflight, failed,
          log, wire, skipped>>

ReadState == {"new", "header", "body", "done"}

TypeOK ==
  /\ participants_ \in [Room -> SUBSET Session]
  /\ recent_msgs_ \in [Room -> Seq(Message)]
  /\ reading \in [Session -> ReadState]
  /\ write_msgs_ \in [Session -> Seq(Message)]
  /\ inflight \in [Session -> Seq(Message)]
  /\ failed \in SUBSET Session
  /\ log \in [Room -> Seq(Message)]
  /\ wire \in [Session -> Seq(Message)]
  /\ skipped \in [Session -> Nat]

Init ==
  /\ participants_ = [r \in Room |-> {}]
  /\ recent_msgs_ = [r \in Room |-> <<>>]
  /\ reading = [s \in Session |-> "new"]
  /\ write_msgs_ = [s \in Session |-> <<>>]
  /\ inflight = [s \in Session |-> <<>>]
  /\ failed = {}
  /\ log = [r \in Room |-> <<>>]
  /\ wire = [s \in Session |-> <<>>]
  /\ skipped = [s \in Session |-> 0]

-----------------------------------------------------------------------------
(* Mistakes the code could have made in these functions.  Nothing below     *)
(* uses them; put in the place of the function each is named after, they    *)
(* show that the properties would notice.                                   *)
RememberAll(q, m) == Append(q, m)                  \* no pop_front
RememberTwice(q, m) == Append(Append(q, m), m)     \* pushed by the session, too
AudienceEver(r) ==                                 \* leave() forgotten
  {s \in Session : RoomOf[s] = r /\ reading[s] # "new"}
AudienceEverywhere(r) == UNION {participants_[u] : u \in Room}  \* one static room
EnqueuedSecond(q, ms) ==                           \* behind the pending write
  IF q = <<>> THEN ms ELSE <<Head(q)>> \o ms \o Tail(q)
StartsAlways(q) == TRUE                            \* write_in_progress unchecked
StaysInRoom(s) == UNCHANGED participants_
WritesNoMore(q, w) == w                            \* do_write not called again

-----------------------------------------------------------------------------
(* The functions the handlers call.                                         *)

(* The last n elements of q. *)
LastOf(q, n) == IF Len(q) > n THEN SubSeq(q, Len(q) - n + 1, Len(q)) ELSE q

(* chat_room::deliver: push_back, then pop_front while the deque is too long. *)
Remember(q, m) == LastOf(Append(q, m), MaxRecent)

(* chat_room::deliver: whom the loop over participants_ reaches. *)
Audience(r) == participants_[r]

(* chat_session::deliver, called once for each element of ms: the queue     *)
(* takes them all, and the first one starts a write if none was pending.    *)
Enqueued(q, ms) == q \o ms
StartsWrite(q) == q = <<>>
Writing(q, w, ms) ==
  IF StartsWrite(q) /\ ms # <<>> THEN Append(w, Head(ms)) ELSE w

(* chat_room::deliver, with the session::deliver of each participant. *)
Deliver(r, m) ==
  /\ recent_msgs_' = [recent_msgs_ EXCEPT ![r] = Remember(@, m)]
  /\ write_msgs_' = [p \in Session |->
       IF p \in Audience(r) THEN Enqueued(write_msgs_[p], <<m>>) ELSE write_msgs_[p]]
  /\ inflight' = [p \in Session |->
       IF p \in Audience(r) THEN Writing(write_msgs_[p], inflight[p], <<m>>)
                            ELSE inflight[p]]

(* chat_room::join: the recent messages are replayed through deliver().     *)
Join(s) ==
  LET q == recent_msgs_[RoomOf[s]] IN
  /\ participants_' = [participants_ EXCEPT ![RoomOf[s]] = @ \cup {s}]
  /\ write_msgs_' = [write_msgs_ EXCEPT ![s] = Enqueued(@, q)]
  /\ inflight' = [inflight EXCEPT ![s] = Writing(write_msgs_[s], @, q)]

(* chat_session::start. *)
Start(s) == Join(s) /\ reading' = [reading EXCEPT ![s] = "header"]

(* chat_room::leave. *)
Leave(s) == participants_' = [participants_ EXCEPT ![RoomOf[s]] = @ \ {s}]

-----------------------------------------------------------------------------
(* The completion handlers.                                                 *)

(* do_accept, no error: a session is made and started.  An accept error     *)
(* changes nothing: do_accept() is called again on both paths.              *)
Accept(s) ==
  LET r == RoomOf[s] IN
  /\ reading[s] = "new"
  /\ Start(s)
  /\ skipped' = [skipped EXCEPT ![s] = Len(log[r]) - Len(recent_msgs_[r])]
  /\ UNCHANGED <<recent_msgs_, failed, log, wire>>

(* do_read_header's handler: four bytes came and decode_header() took them. *)
ReadHeader(s) ==
  /\ reading[s] = "header"
  /\ reading' = [reading EXCEPT ![s] = "body"]
  /\ UNCHANGED <<participants_, recent_msgs_, write_msgs_, inflight, failed,
                 log, wire, skipped>>

(* do_read_header's or do_read_body's handler: the read failed, or the      *)
(* header was refused.  The read chain ends; the write chain does not.      *)
ReadFail(s) ==
  /\ reading[s] \in {"header", "body"}
  /\ reading' = [reading EXCEPT ![s] = "done"]
  /\ Leave(s)
  /\ UNCHANGED <<recent_msgs_, write_msgs_, inflight, failed, log, wire, skipped>>

(* do_read_body's handler: the room delivers the message to everyone in it, *)
(* then the next header is awaited.                                         *)
ReadBody(s, m) ==
  LET r == RoomOf[s] IN
  /\ reading[s] = "body"
  /\ Len(log[r]) < MaxLog
  /\ Deliver(r, m)
  /\ log' = [log EXCEPT ![r] = Append(@, m)]
  /\ reading' = [reading EXCEPT ![s] = "header"]
  /\ UNCHANGED <<participants_, failed, wire, skipped>>

(* do_write's handler, no error: the front is popped, and the next write is *)
(* started if anything is left.                                             *)
Popped(q) == Tail(q)
NextWrite(q, w) == IF q # <<>> THEN Append(w, Head(q)) ELSE w
WriteDone(s) ==
  LET q == Popped(write_msgs_[s]) IN
  /\ inflight[s] # <<>>
  /\ wire' = [wire EXCEPT ![s] = Append(@, Head(inflight[s]))]
  /\ write_msgs_' = [write_msgs_ EXCEPT ![s] = q]
  /\ inflight' = [inflight EXCEPT ![s] = NextWrite(q, Tail(@))]
  /\ UNCHANGED <<participants_, recent_msgs_, reading, failed, log, skipped>>

(* do_write's handler, error: the session leaves the room.  The queue is    *)
(* not touched and the socket not closed: a pending read stays pending.     *)
WriteFail(s) ==
  /\ inflight[s] # <<>>
  /\ inflight' = [inflight EXCEPT ![s] = Tail(@)]
  /\ failed' = failed \cup {s}
  /\ Leave(s)
  /\ UNCHANGED <<recent_msgs_, reading, write_msgs_, log, wire, skipped>>

Next ==
  \E s \in Session :
    \/ Accept(s)
    \/ ReadHeader(s)
    \/ ReadFail(s)
    \/ \E m \in Message : ReadBody(s, m)
    \/ WriteDone(s)
    \/ WriteFail(s)

Spec == Init /\ [][Next]_vars

(* A write that was started completes, one way or the other: io_service     *)
(* runs the handler of every operation that has finished, and the peer      *)
(* reads its connection or loses it, unless it is one of Unread.  Nothing   *)
(* makes a peer send or hang up.                                            *)
WriteEnds(s) == WriteDone(s) \/ WriteFail(s)
FairSpec == Spec /\ \A s \in Session \ Unread : WF_vars(WriteEnds(s))
-----------------------------------------------------------------------------
(* What makes it correct.                                                   *)

(* The room holds exactly the sessions that are still being read and whose  *)
(* writes have not failed: no chain ends without leave(), whichever of the  *)
(* two ends first, and no chain removes a session that goes on serving.     *)
MembersAreLive ==
  \A r \in Room :
    participants_[r] = {s \in Session : /\ RoomOf[s] = r
                                       /\ reading[s] \in {"header", "body"}
                                       /\ s \notin failed}

(* A session has one async_write outstanding, over the message at the front *)
(* of its queue, for as long as it has something to write and its peer can  *)
(* be written to: two writes never overlap on the socket, the buffer in use *)
(* is never freed, and a queue is never left with nobody writing it.        *)
WriteChain ==
  \A s \in Session :
    inflight[s] = IF write_msgs_[s] = <<>> \/ s \in failed
                    THEN <<>> ELSE <<Head(write_msgs_[s])>>

(* What a newcomer is shown is the end of what the room has delivered, as   *)
(* long as the limit allows.                                                *)
RecentIsSuffix ==
  \A r \in Room :
    LET n == IF Len(log[r]) < MaxRecent THEN Len(log[r]) ELSE MaxRecent
    IN  recent_msgs_[r] = SubSeq(log[r], Len(log[r]) - n + 1, Len(log[r]))

(* What s was sent and what it will still be sent. *)
Feed(s) == wire[s] \o write_msgs_[s]

(* The replay of join() and the deliveries that follow fit together: what a *)
(* session is fed is one stretch of its room's log, without gap, repetition *)
(* or exchange, whoever sent the messages and however the writes went; and  *)
(* for as long as the session is in the room it reaches the log's end.      *)
FeedInOrder ==
  \A s \in Session :
    LET r == RoomOf[s]
        n == skipped[s] + Len(Feed(s))
    IN  /\ n <= Len(log[r])
        /\ Feed(s) = SubSeq(log[r], skipped[s] + 1, n)
        /\ s \in participants_[r] => n = Len(log[r])

HasLeft(s) == reading[s] # "new" /\ s \notin participants_[RoomOf[s]]

(* After leave() nothing is queued for the session any more and it does not *)
(* come back, whatever its other chain is still doing.                      *)
LeaveIsFinal ==
  [][\A s \in Session : HasLeft(s) => HasLeft(s)' /\ Feed(s)' = Feed(s)]_vars

(* A message that was queued for a session is written to it, or the         *)
(* session's connection breaks, whoever else in the room does not read: a   *)
(* slow peer holds up nobody but itself.                                    *)
QueuedIsWritten ==
  \A s \in Session \ Unread, n \in 1 .. MaxLog :
    Len(Feed(s)) >= n ~> Len(wire[s]) >= n \/ s \in failed

(* The handlers and the room hold the only references to a session. *)
Referenced(s) == \/ reading[s] \in {"header", "body"}
                 \/ s \in participants_[RoomOf[s]]
                 \/ inflight[s] # <<>>

(* A session that is no longer read is destroyed, and its socket closed; of *)
(* one whose peer does not read, the pending write goes on for ever.        *)
DoneIsReleased ==
  \A s \in Session \ Unread : reading[s] = "done" ~> ~Referenced(s)

-----------------------------------------------------------------------------
(* A room keeps the promise of Broadcast: skipped is where a session's      *)
(* stretch of the log starts, wire what it has got, and write_msgs_ what it *)
(* is still owed.                                                           *)
Status(s) == CASE reading[s] = "new"                -> "new"
               [] s \in participants_[RoomOf[s]]    -> "in"
               [] OTHER                             -> "gone"

Broadcasting == INSTANCE Broadcast WITH
  Subscriber <- Session, Topic <- Room, TopicOf <- RoomOf,
  MaxBacklog <- MaxRecent,
  start <- skipped, got <- wire,
  due <- [s \in Session |-> skipped[s] + Len(Feed(s))],
  status <- [s \in Session |-> Status(s)]

(* Every step of the server is a step of Broadcast or leaves it unchanged.  *)
RoomIsBroadcast == Broadcasting!Spec
=============================================================================
