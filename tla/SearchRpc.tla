----------------------------- MODULE SearchRpc -----------------------------
(* The search service of thrift_example and its SearchConcurrentClient:     *)
(* threads share one connection, and whichever holds the read mutex reads   *)
(* the next answer, for itself or for another thread.                       *)
(*                                                                          *)
(* The mutexes, monitors and flags of TConcurrentClientSyncInfo are outside *)
(* this repository and modelled from what the generated client does with    *)
(* them.  A step is what a thread does between two points at which another  *)
(* can come in between: a mutex, a wait, or the socket.                     *)
EXTENDS Integers, Sequences, FiniteSets

CONSTANTS Thread,   \* the threads that share the client
          Id,       \* what may be asked for
          Wants,    \* Wants[t]: the ids that thread t asks for
          MaxCalls  \* bound of the instances: calls made in all
ASSUME IdAssumption == Id \subseteq Int /\ Wants \in [Thread -> SUBSET Id]
ASSUME CallsAssumption == MaxCalls \in Nat

VARIABLES
  pc,          \* pc[t]: where t is in searchName()
  cseqid,      \* cseqid[t]: the number of t's call
  question,    \* question[t]: the id it asks for, if it is in a call
  inHand,      \* inHand[t]: the header of the answer that t looks at, if any
  nextseqid_,  \* of the sync info: the number of the next call
  monitors,    \* of the sync info: the threads that have an entry in its map
  pending,     \* of the sync info: the header left for another thread, if any
  wakeup,      \* of the sync info: wakeupSomeone_
  stop_,       \* of the sync info: the client was given up
  requests,    \* calls on their way to the server, or in it
  stream,      \* answers on their way back
  up,          \* whether the connection is up
  result       \* result[t]: what the last call of t returned or threw, if it did

callVars == <<cseqid, question>>
syncVars == <<nextseqid_, monitors, pending, wakeup, stop_>>
netVars == <<requests, stream, up>>
vars == <<pc, callVars, inHand, syncVars, netVars, result>>

(* idle: not in a call.  numbered: about to write its call.  sent: about to *)
(* lock the read mutex.  reading, matching, checked: holds it, and waits    *)
(* for a header, has one, found nothing to do.  waiting: at its monitor.    *)
(* woken: no longer, and about to lock the read mutex again.                *)
Holding == {"reading", "matching", "checked"}
Place == {"idle", "numbered", "sent", "waiting", "woken"} \cup Holding
Answer == [mtype : {"T_REPLY", "T_EXCEPTION"}, about : Id]
Header == [rseqid : 0 .. MaxCalls - 1, answer : Answer]

TypeOK ==
  /\ pc \in [Thread -> Place]
  /\ cseqid \in [Thread -> 0 .. MaxCalls]
  /\ question \in [Thread -> SUBSET Id]
  /\ inHand \in [Thread -> SUBSET Header]
  /\ nextseqid_ \in 0 .. MaxCalls
  /\ monitors \subseteq Thread
  /\ pending \subseteq Header
  /\ wakeup \in BOOLEAN /\ stop_ \in BOOLEAN /\ up \in BOOLEAN
  /\ requests \subseteq [cseqid : 0 .. MaxCalls - 1, asked : Id]
  /\ stream \in Seq(Header)
  /\ result \in [Thread -> SUBSET Answer]

Init ==
  /\ pc = [t \in Thread |-> "idle"]
  /\ cseqid = [t \in Thread |-> 0]
  /\ question = [t \in Thread |-> {}]
  /\ inHand = [t \in Thread |-> {}]
  /\ nextseqid_ = 0 /\ monitors = {} /\ pending = {}
  /\ wakeup = FALSE /\ stop_ = FALSE
  /\ requests = {} /\ stream = <<>> /\ up = TRUE
  /\ result = [t \in Thread |-> {}]

-----------------------------------------------------------------------------
(* The server.                                                              *)

(* process_searchName around SearchHandler::searchName: InvalidId is not    *)
(* declared by the service and goes out as a TApplicationException with its *)
(* text; the name of an answer is told apart by the id in it.               *)
AnswerTo == [i \in Id |->
  [mtype |-> IF i < 1000 THEN "T_EXCEPTION" ELSE "T_REPLY", about |-> i]]

(* The processor answers under the number of the call.  The program here is *)
(* a TSimpleServer and answers in order; the client is meant for servers    *)
(* that do not, too.                                                        *)
FromOne(c) ==  \* a mistake: the server counts itself
  [rseqid |-> c.cseqid + 1, answer |-> AnswerTo[c.asked]]
AnswerHeader(c) == [rseqid |-> c.cseqid, answer |-> AnswerTo[c.asked]]
Process(c) ==
  /\ requests' = requests \ {c}
  /\ stream' = Append(stream, AnswerHeader(c))
  /\ UNCHANGED <<pc, callVars, inHand, syncVars, up, result>>

(* The connection is lost, and what was on its way with it or not.          *)
Disconnect ==
  /\ up
  /\ up' = FALSE
  /\ requests' = {}
  /\ stream' \in {stream, <<>>}
  /\ UNCHANGED <<pc, callVars, inHand, syncVars, result>>

-----------------------------------------------------------------------------
(* TConcurrentClientSyncInfo (external).                                    *)

(* notify() on the monitors of S: who waits there will lock the mutex.      *)
Notified(S) == [t \in Thread |->
  IF t \in S /\ pc[t] = "waiting" THEN "woken" ELSE pc[t]]

(* The thread whose call is the latest of M. *)
Latest(M) == {t \in M : \A u \in M : cseqid[u] <= cseqid[t]}

MutexFree == \A t \in Thread : pc[t] \notin Holding

(* ~TConcurrentRecvSentry: the thread's monitor is removed, the latest of   *)
(* the others is notified or, without a commit, the client is given up and  *)
(* they all are; the read mutex is unlocked.                                *)
Leave(t, committed) ==
  LET others == monitors \ {t} IN
  /\ monitors' = others
  /\ wakeup' = TRUE
  /\ stop_' = (stop_ \/ ~committed)
  /\ pc' = [Notified(IF committed THEN Latest(others) ELSE others)
              EXCEPT ![t] = "idle"]
  /\ question' = [question EXCEPT ![t] = {}]
  /\ inHand' = [inHand EXCEPT ![t] = {}]
  /\ UNCHANGED <<cseqid, nextseqid_>>

(* getPending(), or else readMessageBegin(): with the read mutex.           *)
GetPending(t) ==
  /\ ~stop_
  /\ wakeup' = FALSE
  /\ pending' = {}
  /\ inHand' = [inHand EXCEPT ![t] = pending]
  /\ pc' = [pc EXCEPT ![t] = IF pending = {} THEN "reading" ELSE "matching"]
  /\ UNCHANGED <<callVars, nextseqid_, monitors, stop_, netVars, result>>

(* getPending() or waitForWork() throws: the client was given up.           *)
Dead(t) == stop_ /\ Leave(t, FALSE) /\ UNCHANGED <<pending, netVars, result>>

-----------------------------------------------------------------------------
(* SearchConcurrentClient::send_searchName.                                 *)

(* generateSeqId(); once the client was given up it throws and changes      *)
(* nothing.                                                                 *)
Number(t, i) ==
  /\ pc[t] = "idle"
  /\ ~stop_
  /\ nextseqid_ < MaxCalls
  /\ cseqid' = [cseqid EXCEPT ![t] = nextseqid_]
  /\ nextseqid_' = nextseqid_ + 1
  /\ monitors' = monitors \cup {t}
  /\ question' = [question EXCEPT ![t] = {i}]
  /\ result' = [result EXCEPT ![t] = {}]
  /\ pc' = [pc EXCEPT ![t] = "numbered"]
  /\ UNCHANGED <<inHand, pending, wakeup, stop_, netVars>>

(* The call is written and flushed under the write mutex.  After a          *)
(* disconnection this may still succeed, and what was written is lost.      *)
Write(t) ==
  /\ pc[t] = "numbered"
  /\ requests' = requests \cup (IF up THEN [cseqid : {cseqid[t]}, asked : question[t]]
                                      ELSE {})
  /\ pc' = [pc EXCEPT ![t] = "sent"]
  /\ UNCHANGED <<callVars, inHand, syncVars, stream, up, result>>

(* It is not: ~TConcurrentSendSentry gives the client up without the read   *)
(* mutex, and the entry of the call stays in the map.                       *)
WriteFails(t) ==
  /\ pc[t] = "numbered"
  /\ ~up
  /\ wakeup' = TRUE /\ stop_' = TRUE
  /\ pc' = [Notified(monitors) EXCEPT ![t] = "idle"]
  /\ question' = [question EXCEPT ![t] = {}]
  /\ UNCHANGED <<cseqid, inHand, nextseqid_, monitors, pending, netVars, result>>

-----------------------------------------------------------------------------
(* SearchConcurrentClient::recv_searchName.                                 *)

(* The sentry's constructor, and the first turn of the loop.                *)
Lock(t) ==
  /\ pc[t] = "sent"
  /\ MutexFree
  /\ GetPending(t) \/ Dead(t)

(* readMessageBegin() returns a header, or throws at the end of the stream. *)
ReadMessageBegin(t) ==
  /\ pc[t] = "reading"
  /\ stream # <<>>
  /\ inHand' = [inHand EXCEPT ![t] = {Head(stream)}]
  /\ stream' = Tail(stream)
  /\ pc' = [pc EXCEPT ![t] = "matching"]
  /\ UNCHANGED <<callVars, syncVars, requests, up, result>>

ReadFails(t) ==
  /\ pc[t] = "reading"
  /\ ~up /\ stream = <<>>
  /\ Leave(t, FALSE)
  /\ UNCHANGED <<pending, netVars, result>>

IsMine(t) == \E h \in inHand[t] : h.rseqid = cseqid[t]

(* The answer is t's: its result is returned or its exception thrown, and   *)
(* the sentry committed on both paths.                                      *)
Uncommitted(t) == Leave(t, FALSE)  \* a mistake: commit() forgotten
Matched(t) == Leave(t, TRUE)
Mine(t) ==
  /\ pc[t] = "matching"
  /\ IsMine(t)
  /\ Matched(t)
  /\ result' = [result EXCEPT ![t] = {h.answer : h \in inHand[t]}]
  /\ UNCHANGED <<pending, netVars>>

(* The connection is lost before the rest of the answer is read. *)
BodyFails(t) ==
  /\ pc[t] = "matching"
  /\ IsMine(t)
  /\ ~up
  /\ Leave(t, FALSE)
  /\ UNCHANGED <<pending, netVars, result>>

(* It is another thread's: updatePending() leaves the header to the owner   *)
(* and notifies it.  waitForWork() finds nothing to do for t, unless the    *)
(* client was given up meanwhile: nobody else sets wakeupSomeone_ while t   *)
(* has the mutex.                                                           *)
Owner(t) == {u \in monitors : \E h \in inHand[t] : h.rseqid = cseqid[u]}
Dropped(t) == pending' = {}  \* a mistake: skipped like a wrong mtype
UpdatePending(t) == pending' = inHand[t]
NotMine(t) ==
  /\ pc[t] = "matching"
  /\ ~IsMine(t)
  /\ UpdatePending(t)
  /\ IF stop_ \/ Owner(t) = {}
       THEN Leave(t, FALSE)
       ELSE /\ pc' = [Notified(Owner(t)) EXCEPT ![t] = "checked"]
            /\ inHand' = [inHand EXCEPT ![t] = {}]
            /\ UNCHANGED <<callVars, nextseqid_, monitors, wakeup, stop_>>
  /\ UNCHANGED <<netVars, result>>

(* waitForWork(): the mutex is released and the thread waits, and this is   *)
(* one step; what was checked before it is not the same step.               *)
Wait(t) ==
  /\ pc[t] = "checked"
  /\ pc' = [pc EXCEPT ![t] = "waiting"]
  /\ UNCHANGED <<callVars, inHand, syncVars, netVars, result>>

(* Woken up: the mutex again, and what there is to do.                      *)
LeftFor(t) == \E h \in pending : h.rseqid = cseqid[t]
Wake(t) ==
  /\ pc[t] = "woken"
  /\ MutexFree
  /\ \/ Dead(t)
     \/ (wakeup \/ LeftFor(t)) /\ GetPending(t)
     \/ /\ ~stop_ /\ ~wakeup /\ ~LeftFor(t)
        /\ pc' = [pc EXCEPT ![t] = "checked"]
        /\ UNCHANGED <<callVars, inHand, syncVars, netVars, result>>

(* wait() may also return though nobody called notify(). *)
WakeForNothing(t) ==
  /\ pc[t] = "waiting"
  /\ pc' = [pc EXCEPT ![t] = "woken"]
  /\ UNCHANGED <<callVars, inHand, syncVars, netVars, result>>

Step(t) ==
  \/ Write(t)
  \/ WriteFails(t)
  \/ Lock(t)
  \/ ReadMessageBegin(t)
  \/ ReadFails(t)
  \/ Mine(t)
  \/ BodyFails(t)
  \/ NotMine(t)
  \/ Wait(t)
  \/ Wake(t)

Next ==
  \/ \E t \in Thread : \E i \in Wants[t] : Number(t, i)
  \/ \E t \in Thread : Step(t) \/ WakeForNothing(t)
  \/ \E c \in requests : Process(c)
  \/ Disconnect

(* The threads run, and the server answers or the connection is lost; the   *)
(* wake-ups for nothing, each of which takes the mutex, come to an end.     *)
Spec ==
  /\ Init /\ [][Next]_vars
  /\ \A t \in Thread : WF_vars(Step(t))
  /\ WF_vars(\E c \in requests : Process(c))
  /\ <>[][\A t \in Thread : ~WakeForNothing(t)]_vars

-----------------------------------------------------------------------------
Receiving(t) == pc[t] \in {"sent", "waiting", "woken"} \cup Holding

(* How often an answer to call n, or the call, is somewhere.                *)
Copies(n) ==
  Cardinality({c \in requests : c.cseqid = n})
    + Cardinality({i \in DOMAIN stream : stream[i].rseqid = n})
    + Cardinality({h \in pending : h.rseqid = n})
    + Cardinality({t \in Thread : \E h \in inHand[t] : h.rseqid = n})

(* The answer that a thread is owed is in exactly one place for as long as  *)
(* the connection is up, and what is on its way or left over is owed to a   *)
(* thread: no header is passed on to nobody, read twice or overwritten.     *)
OneAnswerEach ==
  up => /\ \A t \in Thread : Receiving(t) => Copies(cseqid[t]) = 1
        /\ \A h \in pending \cup {stream[i] : i \in DOMAIN stream} :
             \E t \in Thread : Receiving(t) /\ cseqid[t] = h.rseqid

(* While a thread waits, another one in a call does not: somebody reads the *)
(* socket or will, and nobody waits for a notification that has been given. *)
NobodyForgotten ==
  \A t \in Thread : pc[t] = "waiting" =>
    \E u \in Thread : pc[u] \notin {"idle", "waiting"}

(* Every call ends, with an answer or an exception, whoever reads it.       *)
EveryCallEnds == \A t \in Thread : pc[t] # "idle" ~> pc[t] = "idle"

(* Each thread gets the answer to its own call; a call fails only if the    *)
(* connection was lost.                                                     *)
Calls == INSTANCE SearchCalls WITH asked <- question, lost <- ~up
CallsAreAnswered == Calls!Spec
=============================================================================
