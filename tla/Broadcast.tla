----------------------------- MODULE Broadcast -----------------------------
(* What a chat room promises, free of sockets, queues and callbacks: every  *)
(* topic has one totally ordered log, and a subscriber receives one         *)
(* gap-free stretch of it, which begins at most MaxBacklog messages before  *)
(* the place the log had reached when it subscribed and ends no earlier     *)
(* than the place it had reached when it unsubscribed.                      *)
(*                                                                          *)
(* chat_room::join/leave/deliver (chat_server.cpp:37-57) implement it; the  *)
(* refinement is RoomIsBroadcast of ChatServer, checked by TLC on small      *)
(* rooms and proved in ChatServerProofs.                                    *)
EXTENDS Naturals, Sequences

CONSTANTS Subscriber,   \* who may subscribe
          Topic,        \* the logs
          TopicOf,      \* the topic each subscriber uses
          Message,      \* what is published
          MaxBacklog,   \* how many old messages a new subscriber is shown
          MaxLog        \* bound of the instances: messages per topic

VARIABLES log,      \* log[t]: everything published on t, in order
          start,    \* start[s]: s is shown the log from start[s] + 1 on
          got,      \* got[s]: what s has received, in order
          due,      \* due[s]: s is owed the log up to here
          status    \* status[s]: "new", "in" or "gone"

vars == <<log, start, got, due, status>>

Members(t) == {s \in Subscriber : TopicOf[s] = t /\ status[s] = "in"}

Init ==
  /\ log = [t \in Topic |-> <<>>]
  /\ start = [s \in Subscriber |-> 0]
  /\ got = [s \in Subscriber |-> <<>>]
  /\ due = [s \in Subscriber |-> 0]
  /\ status = [s \in Subscriber |-> "new"]

Publish(t, m) ==
  /\ Len(log[t]) < MaxLog
  /\ log' = [log EXCEPT ![t] = Append(@, m)]
  /\ due' = [s \in Subscriber |-> IF s \in Members(t) THEN due[s] + 1 ELSE due[s]]
  /\ UNCHANGED <<start, got, status>>

(* The messages an n-long log still shows to a newcomer. *)
Backlog(n) == IF n > MaxBacklog THEN MaxBacklog ELSE n

Subscribe(s) ==
  LET n == Len(log[TopicOf[s]]) IN
  /\ status[s] = "new"
  /\ status' = [status EXCEPT ![s] = "in"]
  /\ start' = [start EXCEPT ![s] = n - Backlog(n)]
  /\ due' = [due EXCEPT ![s] = n]
  /\ UNCHANGED <<log, got>>

Receive(s) ==
  /\ start[s] + Len(got[s]) < due[s]
  /\ got' = [got EXCEPT ![s] = Append(@, log[TopicOf[s]][start[s] + Len(@) + 1])]
  /\ UNCHANGED <<log, start, due, status>>

Unsubscribe(s) ==
  /\ status[s] = "in"
  /\ status' = [status EXCEPT ![s] = "gone"]
  /\ UNCHANGED <<log, start, got, due>>

Next ==
  \/ \E t \in Topic, m \in Message : Publish(t, m)
  \/ \E s \in Subscriber : Subscribe(s) \/ Receive(s) \/ Unsubscribe(s)

Spec == Init /\ [][Next]_vars
=============================================================================
