----------------------------- MODULE SocketDemo -----------------------------
(* The socket demo of demo1: server_1 binds a port, listens and exits ten   *)
(* seconds later, server_1_client connects to a port and sleeps for ever.   *)
(* The socket calls belong to the operating system and are modelled by what *)
(* the two programs ask of them.                                            *)
EXTENDS Naturals

CONSTANTS Server,    \* the runs of server_1
          Client,    \* the runs of server_1_client
          Ephemeral  \* the ports the system gives to who binds port 0

VARIABLES
  pc,       \* pc[x]: where a program is
  bound,    \* bound[s]: the port of server s, 0 if it has none
  printed,  \* printed[s]: the "Local port" of its output
  peer      \* peer[c]: the server that client c is connected to, if any

vars == <<pc, bound, printed, peer>>

(* port, in both programs.  The server only prints it. *)
port == 8888

Init ==
  /\ pc = [x \in Server \cup Client |-> "start"]
  /\ bound = [s \in Server |-> 0]
  /\ printed = [s \in Server |-> 0]
  /\ peer = [c \in Client |-> {}]

(* socket() may fail, in either program. *)
SocketFails(x) ==
  /\ pc[x] = "start"
  /\ pc' = [pc EXCEPT ![x] = "exited"]
  /\ UNCHANGED <<bound, printed, peer>>

Free == Ephemeral \ {bound[s] : s \in Server}

(* bind() with sin_port 0, which may fail. *)
Bind(s) ==
  /\ pc[s] = "start"
  /\ pc' = [pc EXCEPT ![s] = "bound"]
  /\ \E p \in Free \cup {0} : bound' = [bound EXCEPT ![s] = p]
  /\ UNCHANGED <<printed, peer>>

(* getsockname(), and what it says is printed; then the result of bind() is *)
(* looked at.                                                               *)
GetSockName(s) ==
  /\ pc[s] = "bound"
  /\ printed' = [printed EXCEPT ![s] = bound[s]]
  /\ pc' = [pc EXCEPT ![s] = IF bound[s] = 0 THEN "exited" ELSE "named"]
  /\ UNCHANGED <<bound, peer>>

(* listen(), and "listen client @port=8888" is printed; or it fails.        *)
Listen(s) ==
  /\ pc[s] = "named"
  /\ \/ pc' = [pc EXCEPT ![s] = "listening"] /\ bound' = bound
     \/ pc' = [pc EXCEPT ![s] = "exited"] /\ bound' = [bound EXCEPT ![s] = 0]
  /\ UNCHANGED <<printed, peer>>

(* Ten seconds have passed.  Nobody was accepted; a client that is in the   *)
(* backlog is not told of the end, as it does not read.                     *)
Exit(s) ==
  /\ pc[s] = "listening"
  /\ pc' = [pc EXCEPT ![s] = "exited"]
  /\ bound' = [bound EXCEPT ![s] = 0]
  /\ UNCHANGED <<printed, peer>>

(* connect(): to the server that listens at the port, or it fails.          *)
Connect(c) ==
  /\ pc[c] = "start"
  /\ peer' = [peer EXCEPT ![c] = {s \in Server : pc[s] = "listening" /\ bound[s] = port}]
  /\ pc' = [pc EXCEPT ![c] = IF peer'[c] = {} THEN "exited" ELSE "asleep"]
  /\ UNCHANGED <<bound, printed>>

Next ==
  \/ \E s \in Server : Bind(s) \/ GetSockName(s) \/ Listen(s) \/ Exit(s)
  \/ \E c \in Client : Connect(c)
  \/ \E x \in Server \cup Client : SocketFails(x)

Spec == Init /\ [][Next]_vars

-----------------------------------------------------------------------------
(* A server that says it listens at 8888 is found there: port is "the       *)
(* server's port number", as the client's source has it.  It is not, as the *)
(* server binds port 0.                                                     *)
FoundAtItsPort ==
  \A s \in Server : pc[s] = "listening" => bound[s] = port
=============================================================================
