--------------------------- MODULE SearchPrograms ---------------------------
(* The two programs of thrift_example: any number of thrift_clients, each   *)
(* of which opens a connection and makes one call, and one thrift_server,   *)
(* a TSimpleServer, which serves one connection until it ends and only then *)
(* accepts the next.  Programs may be killed, the server too, which may be  *)
(* started again; and a program may stop for good with its connection open. *)
(*                                                                          *)
(* TServerSocket, TSimpleServer and TSocket are outside this repository and *)
(* modelled from how the two mains use them.  What goes over a connection,  *)
(* field by field, is the subject of SearchClient.                          *)
EXTENDS Integers, Sequences, SequencesExt

CONSTANTS Program,  \* the runs of thrift_client
          Id,       \* Id[p]: what p asks for; 1 in the source
          Backlog,  \* how many connections wait to be accepted, at most
          Stopping  \* the programs that may stop without ending
ASSUME IdAssumption == Id \in [Program -> Int]
ASSUME BacklogAssumption == Backlog \in Nat \ {0}
ASSUME StoppingAssumption == Stopping \subseteq Program

VARIABLES
  pc,       \* pc[p]: where p is in main()
  printed,  \* printed[p]: what it has printed, if anything
  server,   \* where the server is in serve()
  backlog,  \* the connections that were made and not accepted, oldest first
  serving,  \* the connection that was accepted, if any
  calls,    \* the calls on their way to the server
  answers,  \* the answers on their way back, as [to |-> p, mtype |-> type]
  handled,  \* history: handled[p]: how often searchName() ran for p
  excused   \* history: who found the server dead, or lost it

programVars == <<pc, printed>>
serverVars == <<server, backlog, serving, handled>>
vars == <<programVars, serverVars, calls, answers, excused>>

(* start: before open().  open: connected.  called: waits for the answer.   *)
(* returned: has printed the result, and is about to close the transport.   *)
(* leaving, caught: at the end of main, with the transport closed or, after *)
(* an exception, not.  ended: no longer there.                              *)
Place == {"start", "open", "called", "returned", "leaving", "caught", "ended"}
Answer == [to : Program, mtype : {"T_REPLY", "T_EXCEPTION"}]

TypeOK ==
  /\ pc \in [Program -> Place]
  /\ printed \in [Program -> {"nothing", "result", "refused", "lost"}]
  /\ server \in {"down", "accepting", "processing", "answering"}
  /\ backlog \in Seq(Program) /\ IsInjective(backlog) /\ Len(backlog) <= Backlog
  /\ serving \subseteq Program \ ToSet(backlog) /\ \A p, q \in serving : p = q
  /\ serving # {} <=> server \in {"processing", "answering"}
  /\ calls \subseteq Program /\ answers \subseteq Answer
  /\ handled \in [Program -> Nat] /\ excused \subseteq Program

Init ==
  /\ pc = [p \in Program |-> "start"]
  /\ printed = [p \in Program |-> "nothing"]
  /\ server = "down" /\ backlog = <<>> /\ serving = {}
  /\ calls = {} /\ answers = {}
  /\ handled = [p \in Program |-> 0] /\ excused = {}

(* Each end of a connection is closed on its own. *)
ProgramEnd(p) == pc[p] \in {"open", "called", "returned", "caught"}
ServerEnd(p) == p \in serving \cup ToSet(backlog)

-----------------------------------------------------------------------------
(* thrift_client's main.                                                    *)

(* transport->open(): the connection is made once it is in the backlog,     *)
(* whatever the server is doing; while that is full the program waits.      *)
Open(p) ==
  /\ pc[p] = "start"
  /\ server # "down"
  /\ Len(backlog) < Backlog
  /\ pc' = [pc EXCEPT ![p] = "open"]
  /\ backlog' = Append(backlog, p)
  /\ UNCHANGED <<printed, server, serving, handled, calls, answers, excused>>

(* The outer catch: ERROR is printed, and transport->close() passed over.   *)
Catch(p, what) ==
  /\ pc' = [pc EXCEPT ![p] = "caught"]
  /\ printed' = [printed EXCEPT ![p] = what]

OpenFails(p) ==
  /\ pc[p] = "start"
  /\ server = "down"
  /\ Catch(p, "lost")
  /\ excused' = excused \cup {p}
  /\ UNCHANGED <<serverVars, calls, answers>>

(* client.searchName(response, 1): what is written to a connection that the *)
(* other end has left is lost, and found so by the read.                    *)
Call(p) ==
  /\ pc[p] = "open"
  /\ pc' = [pc EXCEPT ![p] = "called"]
  /\ calls' = IF ServerEnd(p) THEN calls \cup {p} ELSE calls
  /\ UNCHANGED <<printed, serverVars, answers, excused>>

(* The call returns a name, or throws: a TApplicationException if it was    *)
(* refused, which the catch of InvalidId lets pass.                         *)
Returns(p) ==
  \E a \in answers :
    /\ a.to = p /\ pc[p] = "called"
    /\ answers' = answers \ {a}
    /\ IF a.mtype = "T_EXCEPTION" THEN Catch(p, "refused")
       ELSE /\ pc' = [pc EXCEPT ![p] = "returned"]
            /\ printed' = [printed EXCEPT ![p] = "result"]
    /\ UNCHANGED <<serverVars, calls, excused>>

(* Or a TTransportException at the end of the stream, or already when the   *)
(* call is written.                                                         *)
CallFails(p) ==
  /\ pc[p] \in {"open", "called"}
  /\ ~ServerEnd(p)
  /\ \A a \in answers : a.to # p
  /\ Catch(p, "lost")
  /\ UNCHANGED <<serverVars, calls, answers, excused>>

(* transport->close(), after a result only. *)
Close(p) ==
  /\ pc[p] = "returned"
  /\ pc' = [pc EXCEPT ![p] = "leaving"]
  /\ UNCHANGED <<printed, serverVars, calls, answers, excused>>

(* The end of main, or of the process at any point: what it still had open  *)
(* is closed by ~TSocket, or by the operating system.                       *)
Gone(p) ==
  /\ pc' = [pc EXCEPT ![p] = "ended"]
  /\ answers' = {a \in answers : a.to # p}
  /\ UNCHANGED <<printed, serverVars, calls, excused>>
End(p) == pc[p] \in {"leaving", "caught"} /\ Gone(p)
Killed(p) == pc[p] # "ended" /\ Gone(p)

-----------------------------------------------------------------------------
(* thrift_server's main: server.serve().                                    *)

(* listen(). *)
Listen ==
  /\ server = "down"
  /\ server' = "accepting"
  /\ UNCHANGED <<programVars, backlog, serving, handled, calls, answers, excused>>

(* A connection is accepted; it may have been left by its program.          *)
Accept ==
  /\ server = "accepting"
  /\ backlog # <<>>
  /\ server' = "processing"
  /\ serving' = {Head(backlog)}
  /\ backlog' = Tail(backlog)
  /\ UNCHANGED <<programVars, handled, calls, answers, excused>>

(* process(): a call is read and handled, whether or not anybody waits for  *)
(* the answer.                                                              *)
Handle(p) ==
  /\ server = "processing" /\ p \in serving
  /\ p \in calls
  /\ calls' = calls \ {p}
  /\ handled' = [handled EXCEPT ![p] = @ + 1]
  /\ server' = "answering"
  /\ UNCHANGED <<programVars, backlog, serving, answers, excused>>

(* The connection is done with, and the next one accepted.                  *)
Abandon == server' = "accepting" /\ serving' = serving  \* a mistake: not closed
Dispose ==
  /\ server' = "accepting"
  /\ serving' = {}

(* searchName() has returned or thrown.  An answer to a program that has    *)
(* gone is lost: writing it fails or does not, and then reading does.       *)
UpTo(p) == IF Id[p] <= 1000 THEN "T_EXCEPTION" ELSE "T_REPLY"  \* a mistake: <=
Verdict(p) == IF Id[p] < 1000 THEN "T_EXCEPTION" ELSE "T_REPLY"
Unflushed(p) ==  \* a mistake: a refusal stays in the buffer
  IF Verdict(p) = "T_EXCEPTION" THEN {} ELSE {[to |-> p, mtype |-> Verdict(p)]}
Written(p) == {[to |-> p, mtype |-> Verdict(p)]}
AnswerCall(p) ==
  /\ server = "answering" /\ p \in serving
  /\ IF ProgramEnd(p)
       THEN server' = "processing" /\ serving' = serving /\ answers' = answers \cup Written(p)
       ELSE Dispose /\ answers' = answers
  /\ UNCHANGED <<programVars, backlog, handled, calls, excused>>

(* The end of the stream: process() throws, and run() of the connection     *)
(* returns to serve().                                                      *)
EndOfFile(p) ==
  /\ server = "processing" /\ p \in serving
  /\ p \notin calls
  /\ ~ProgramEnd(p)
  /\ Dispose
  /\ UNCHANGED <<programVars, backlog, handled, calls, answers, excused>>

(* The server is killed, and every connection to it breaks: an answer that  *)
(* was on its way may still arrive.                                         *)
ServerKilled ==
  /\ server # "down"
  /\ server' = "down"
  /\ backlog' = <<>> /\ serving' = {} /\ calls' = {}
  /\ answers' \in SUBSET answers
  /\ excused' = excused \cup {p \in Program : ServerEnd(p)}
  /\ UNCHANGED <<programVars, handled>>

-----------------------------------------------------------------------------
Main(p) ==
  \/ Open(p)
  \/ OpenFails(p)
  \/ Call(p)
  \/ Returns(p)
  \/ CallFails(p)
  \/ Close(p)
  \/ End(p)

Serve ==
  \/ Accept
  \/ \E p \in Program : Handle(p) \/ AnswerCall(p) \/ EndOfFile(p)

Next ==
  \/ \E p \in Program : Main(p) \/ Killed(p)
  \/ Serve
  \/ Listen
  \/ ServerKilled

(* The programs run unless they stop, and so does the server.  Nothing      *)
(* starts a server that was killed, and nobody need be killed.              *)
Spec ==
  /\ Init /\ [][Next]_vars
  /\ \A p \in Program \ Stopping : WF_vars(Main(p))
  /\ WF_vars(Serve)

-----------------------------------------------------------------------------
(* A program prints the result or the refusal of its own call, for which    *)
(* the handler ran once; and it prints another error only if the server was *)
(* not there or went away, never for what another program did.              *)
OutcomeHasCause ==
  \A p \in Program :
    /\ handled[p] <= 1
    /\ printed[p] = "result" => Id[p] >= 1000 /\ handled[p] = 1
    /\ printed[p] = "refused" => Id[p] < 1000 /\ handled[p] = 1
    /\ printed[p] = "lost" => p \in excused

(* The server is kept by a program that has stopped. *)
HeldUp == serving \cap Stopping # {}

(* Every program that goes on ends, refused or not, and the server lets go  *)
(* of its connection though it may not have closed it; unless the server    *)
(* has accepted a program that has stopped, and serves that one for ever.   *)
ProgramsEnd ==
  \A p \in Program \ Stopping :
    <>(pc[p] = "ended" /\ ~ServerEnd(p)) \/ <>[]HeldUp
=============================================================================
