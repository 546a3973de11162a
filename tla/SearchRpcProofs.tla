-------------------------- MODULE SearchRpcProofs --------------------------
(* Theorems about SearchRpc, for any threads, ids and number of calls: the  *)
(* answers to calls that share a connection, who reads them, and what each  *)
(* thread gets from it.                                                     *)
EXTENDS SearchRpc, SequenceTheorems, FiniteSetTheorems, WellFoundedInduction, TLAPS

CallNumber == 0 .. MaxCalls - 1  \* what a call may be numbered

(* The places where the call n or an answer to it may be. *)
AtServer(n) == \E c \in requests : c.cseqid = n
OnItsWay(n) == \E i \in DOMAIN stream : stream[i].rseqid = n
LeftOver(n) == \E h \in pending : h.rseqid = n
Held(n) == \E t \in Thread : \E h \in inHand[t] : h.rseqid = n
Somewhere(n) == AtServer(n) \/ OnItsWay(n) \/ LeftOver(n) \/ Held(n)

(* At most one thread has the read mutex, and who looks at an answer has    *)
(* one, just one; what was left for a thread is taken before more is read.  *)
OneReader ==
  /\ \A t, u \in Thread : pc[t] \in Holding /\ pc[u] \in Holding => t = u
  /\ \A t \in Thread : inHand[t] # {} <=> pc[t] = "matching"
  /\ \A t \in Thread : \A g, h \in inHand[t] : g = h
  /\ \A g, h \in pending : g = h
  /\ \A t \in Thread : pc[t] \in {"reading", "matching"} => pending = {}

(* Who is in a call has an entry in the map of the sync info and asks one   *)
(* thing; until the client is given up nobody else has.                     *)
InACall ==
  \A t \in Thread :
    /\ pc[t] # "idle" => t \in monitors
    /\ ~stop_ /\ t \in monitors => pc[t] # "idle"
    /\ pc[t] = "idle" => question[t] = {}
    /\ pc[t] # "idle" => \E i \in Id : question[t] = {i}

(* The calls that are made have numbers of their own, given out before, and *)
(* of one that is not written yet there is nothing.                         *)
OwnNumbers ==
  /\ \A t \in Thread : pc[t] # "idle" => cseqid[t] < nextseqid_
  /\ \A t, u \in Thread : pc[t] # "idle" /\ pc[u] # "idle" /\ cseqid[t] = cseqid[u] => t = u
  /\ \A n \in CallNumber : Somewhere(n) => n < nextseqid_
  /\ \A t \in Thread : pc[t] = "numbered" => ~Somewhere(cseqid[t])

(* A call or its answer is in one place, once. *)
InOnePlace ==
  /\ \A c, d \in requests : c.cseqid = d.cseqid => c = d
  /\ \A i, j \in DOMAIN stream : stream[i].rseqid = stream[j].rseqid => i = j
  /\ \A n \in CallNumber :
       /\ AtServer(n) => ~OnItsWay(n) /\ ~LeftOver(n) /\ ~Held(n)
       /\ OnItsWay(n) => ~LeftOver(n) /\ ~Held(n)
       /\ LeftOver(n) => ~Held(n)

(* While the connection is up nothing is lost and nothing is left behind,   *)
(* and the client is not given up.                                          *)
NoneMissing ==
  up => /\ ~stop_
        /\ \A t \in Thread : Receiving(t) => Somewhere(cseqid[t])
        /\ \A n \in CallNumber : Somewhere(n) => \E t \in Thread : Receiving(t) /\ cseqid[t] = n

(* What answers a thread's call answers its question. *)
Around(h) ==
  \/ \E i \in DOMAIN stream : stream[i] = h
  \/ h \in pending
  \/ \E u \in Thread : h \in inHand[u]
ToThePoint ==
  \A t \in Thread : pc[t] # "idle" =>
    /\ \A c \in requests : c.cseqid = cseqid[t] => c.asked \in question[t]
    /\ \A h \in Header : Around(h) /\ h.rseqid = cseqid[t] =>
         \E i \in question[t] : h.answer = AnswerTo[i]

(* Somebody goes on without being notified again, while one is receiving.   *)
GoesOn(u) ==
  \/ pc[u] \in {"sent", "reading", "matching"}
  \/ wakeup /\ pc[u] \in {"numbered", "woken"}
  \/ pc[u] = "woken" /\ LeftFor(u)
Awake ==
  /\ ~stop_ => /\ (\E t \in Thread : Receiving(t)) => \E u \in Thread : GoesOn(u)
               /\ \A t \in Thread : pc[t] \in Holding => ~wakeup
  /\ stop_ => \A t \in Thread : pc[t] \in {"checked", "waiting"} =>
                \E u \in Thread : pc[u] \in {"sent", "woken"}

(* The inductive invariant. *)
Inv ==
  /\ TypeOK
  /\ OneReader
  /\ InACall
  /\ OwnNumbers
  /\ InOnePlace
  /\ NoneMissing
  /\ ToThePoint
  /\ Awake

-----------------------------------------------------------------------------
(* Operators.                                                               *)

(* notify() wakes who waits there and does nothing to the others. *)
LEMMA NotifiedIs ==
  ASSUME pc \in [Thread -> Place], NEW S
  PROVE  /\ Notified(S) \in [Thread -> Place]
         /\ \A u \in Thread : /\ u \in S /\ pc[u] = "waiting" => Notified(S)[u] = "woken"
                              /\ ~(u \in S /\ pc[u] = "waiting") => Notified(S)[u] = pc[u]
PROOF
  <1>1. ASSUME NEW u \in Thread, u \in S, pc[u] = "waiting"
        PROVE  Notified(S)[u] = "woken" /\ Notified(S)[u] \in Place
    BY <1>1 DEF Notified, Place
  <1>2. ASSUME NEW u \in Thread, ~(u \in S /\ pc[u] = "waiting")
        PROVE  Notified(S)[u] = pc[u] /\ Notified(S)[u] \in Place
    BY <1>2 DEF Notified
  <1>3. Notified(S) = [u \in Thread |-> Notified(S)[u]]
    BY DEF Notified
  <1> QED BY <1>1, <1>2, <1>3

(* Of threads with calls there is one whose call is the latest. *)
LEMMA LatestExists ==
  ASSUME cseqid \in [Thread -> 0 .. MaxCalls], NEW M, M \subseteq Thread, M # {}
  PROVE  Latest(M) # {}
PROOF
  <1> DEFINE Left(t) == MaxCalls - cseqid[t]
             T == {Left(t) : t \in M}
             R == OpToRel(<, Nat)
  <1>1. T \subseteq Nat /\ T # {}
    BY CallsAssumption
  <1>2. PICK x \in T : \A y \in T : ~(<<y, x>> \in R)
    <2> HIDE DEF T, R
    <2> QED BY <1>1, NatLessThanWellFounded, WFMin DEF R
  <1>3. \A y \in T : ~(y < x)
    BY <1>1, <1>2 DEF OpToRel
  <1>4. PICK t \in M : x = Left(t)
    BY <1>2
  <1>5. ASSUME NEW u \in M PROVE cseqid[u] <= cseqid[t]
    <2>1. ~(Left(u) < Left(t))
      BY <1>3, <1>4
    <2>2. cseqid[u] \in 0 .. MaxCalls /\ cseqid[t] \in 0 .. MaxCalls
      OBVIOUS
    <2> QED BY <2>1, <2>2, CallsAssumption
  <1> QED BY <1>5 DEF Latest

(* An answer that is written is the last of the stream. *)
LEMMA Appended ==
  ASSUME NEW q \in Seq(Header), NEW h \in Header
  PROVE  /\ Append(q, h) \in Seq(Header)
         /\ \A i \in DOMAIN Append(q, h) : \/ i \in DOMAIN q /\ Append(q, h)[i] = q[i]
                                           \/ i \notin DOMAIN q /\ Append(q, h)[i] = h
         /\ \A i \in DOMAIN q : i \in DOMAIN Append(q, h) /\ Append(q, h)[i] = q[i]
         /\ \E i \in DOMAIN Append(q, h) : Append(q, h)[i] = h
         /\ \A i, j \in DOMAIN Append(q, h) : i \notin DOMAIN q /\ j \notin DOMAIN q => i = j
PROOF
  <1>1. /\ Append(q, h) \in Seq(Header) /\ Len(Append(q, h)) = Len(q) + 1
        /\ \A i \in 1 .. Len(q) : Append(q, h)[i] = q[i]
        /\ Append(q, h)[Len(q) + 1] = h
        /\ Len(q) \in Nat
    BY AppendProperties, LenProperties
  <1>2. DOMAIN q = 1 .. Len(q) /\ DOMAIN Append(q, h) = 1 .. Len(q) + 1
    BY <1>1, LenProperties
  <1>3. Len(q) + 1 \notin 1 .. Len(q) /\ Len(q) + 1 \in 1 .. Len(q) + 1
    BY <1>1
  <1>4. \A i \in 1 .. Len(q) + 1 : i \in 1 .. Len(q) \/ i = Len(q) + 1
    BY <1>1
  <1>5. \A i \in 1 .. Len(q) : i \in 1 .. Len(q) + 1
    BY <1>1
  <1>6. \A i \in DOMAIN Append(q, h) : \/ i \in DOMAIN q /\ Append(q, h)[i] = q[i]
                                       \/ i \notin DOMAIN q /\ Append(q, h)[i] = h /\ i = Len(q) + 1
    BY <1>1, <1>2, <1>3, <1>4
  <1>7. \A i \in DOMAIN q : i \in DOMAIN Append(q, h) /\ Append(q, h)[i] = q[i]
    BY <1>1, <1>2, <1>5
  <1>8. \E i \in DOMAIN Append(q, h) : Append(q, h)[i] = h
    BY <1>1, <1>2, <1>3
  <1> QED BY <1>1, <1>6, <1>7, <1>8

(* The answer that is read was the first of the stream. *)
LEMMA Taken ==
  ASSUME NEW q \in Seq(Header), q # <<>>
  PROVE  /\ Tail(q) \in Seq(Header)
         /\ 1 \in DOMAIN q /\ Head(q) = q[1] /\ Head(q) \in Header
         /\ \A i \in DOMAIN Tail(q) : i + 1 \in DOMAIN q /\ i + 1 # 1 /\ Tail(q)[i] = q[i + 1]
         /\ \A i \in DOMAIN q : i = 1 \/ \E j \in DOMAIN Tail(q) : Tail(q)[j] = q[i]
PROOF
  <1>1. /\ Head(q) \in Header /\ Tail(q) \in Seq(Header)
        /\ Len(Tail(q)) = Len(q) - 1
        /\ \A i \in 1 .. Len(Tail(q)) : Tail(q)[i] = q[i + 1]
        /\ Head(q) = q[1]
        /\ Len(q) \in Nat \ {0}
    BY HeadTailProperties, LenProperties, EmptySeq
  <1>2. DOMAIN q = 1 .. Len(q) /\ DOMAIN Tail(q) = 1 .. Len(q) - 1
    BY <1>1, LenProperties
  <1> DEFINE r == Tail(q) n == Len(q)
  <1>3. \A i \in 1 .. n : i = 1 \/ (i - 1 \in 1 .. n - 1 /\ r[i - 1] = q[i])
    BY <1>1, <1>2
  <1>4. \A i \in 1 .. n - 1 : i + 1 \in 1 .. n /\ i + 1 # 1 /\ r[i] = q[i + 1]
    BY <1>1, <1>2
  <1>5. \A i \in DOMAIN q : i = 1 \/ \E j \in DOMAIN r : r[j] = q[i]
    <2> HIDE DEF r
    <2> QED BY <1>2, <1>3 DEF r
  <1>6. \A i \in DOMAIN r : i + 1 \in DOMAIN q /\ i + 1 # 1 /\ r[i] = q[i + 1]
    BY <1>2, <1>4
  <1>7. 1 \in DOMAIN q
    BY <1>1, <1>2
  <1> QED BY <1>1, <1>5, <1>6, <1>7

-----------------------------------------------------------------------------
(* The kinds of steps: what a thread does when it holds the read mutex, or  *)
(* gets it, in whichever action that is.                                    *)

(* t has the read mutex and takes what is left over, or will read. *)
TakesUp(t) ==
  /\ pc[t] \in {"sent", "woken"}
  /\ pc[t] = "woken" => wakeup \/ LeftFor(t)
  /\ MutexFree
  /\ GetPending(t)

(* t leaves an answer to its owner. *)
PassesOn(t) ==
  /\ pc[t] = "matching" /\ ~IsMine(t)
  /\ ~stop_ /\ Owner(t) # {}
  /\ pending' = inHand[t]
  /\ pc' = [Notified(Owner(t)) EXCEPT ![t] = "checked"]
  /\ inHand' = [inHand EXCEPT ![t] = {}]
  /\ UNCHANGED <<callVars, nextseqid_, monitors, wakeup, stop_, netVars, result>>

(* t finds nothing to do, waits, or returns from that. *)
Rests(t) ==
  /\ \/ /\ pc[t] = "checked"
        /\ pc' = [pc EXCEPT ![t] = "waiting"]
     \/ /\ pc[t] = "woken" /\ MutexFree /\ ~stop_ /\ ~wakeup /\ ~LeftFor(t)
        /\ pc' = [pc EXCEPT ![t] = "checked"]
     \/ /\ pc[t] = "waiting"
        /\ pc' = [pc EXCEPT ![t] = "woken"]
  /\ UNCHANGED <<callVars, inHand, syncVars, netVars, result>>

(* t gives the client up, or finds that another thread did. *)
GivesUp(t) ==
  /\ \/ pc[t] \in {"sent", "woken"} /\ MutexFree /\ stop_
     \/ pc[t] \in {"reading", "matching"} /\ (stop_ \/ ~up)
     \/ pc[t] = "matching" /\ ~IsMine(t) /\ Owner(t) = {}
  /\ Leave(t, FALSE)
  /\ pending' \in {pending, inHand[t]}
  /\ pc[t] # "matching" => pending' = pending
  /\ UNCHANGED <<netVars, result>>

OfThread(t) ==
  \/ \E i \in Id : Number(t, i)
  \/ Write(t) \/ WriteFails(t)
  \/ TakesUp(t) \/ ReadMessageBegin(t)
  \/ Mine(t) \/ PassesOn(t) \/ GivesUp(t)
  \/ Rests(t)

(* Every step is of one of the kinds. *)
LEMMA Kinds ==
  ASSUME [Next]_vars
  PROVE  \/ \E t \in Thread : OfThread(t)
         \/ \E c \in requests : Process(c)
         \/ Disconnect
         \/ UNCHANGED vars
PROOF
  <1>1. ASSUME NEW t \in Thread, NEW i \in Wants[t], Number(t, i) PROVE OfThread(t)
    BY <1>1, IdAssumption DEF OfThread
  <1>2. ASSUME NEW t \in Thread, Lock(t) PROVE OfThread(t)
    BY <1>2 DEF Lock, Dead, OfThread, TakesUp, GivesUp
  <1>3. ASSUME NEW t \in Thread, ReadFails(t) PROVE OfThread(t)
    BY <1>3 DEF ReadFails, OfThread, GivesUp
  <1>4. ASSUME NEW t \in Thread, BodyFails(t) PROVE OfThread(t)
    BY <1>4 DEF BodyFails, OfThread, GivesUp
  <1>5. ASSUME NEW t \in Thread, NotMine(t) PROVE OfThread(t)
    <2>1. CASE stop_ \/ Owner(t) = {}
      BY <1>5, <2>1 DEF NotMine, UpdatePending, OfThread, GivesUp
    <2>2. CASE ~(stop_ \/ Owner(t) = {})
      BY <1>5, <2>2 DEF NotMine, UpdatePending, OfThread, PassesOn
    <2> QED BY <2>1, <2>2
  <1>6. ASSUME NEW t \in Thread, Wait(t) \/ WakeForNothing(t) PROVE OfThread(t)
    BY <1>6 DEF Wait, WakeForNothing, OfThread, Rests
  <1>7. ASSUME NEW t \in Thread, Wake(t) PROVE OfThread(t)
    BY <1>7 DEF Wake, Dead, OfThread, TakesUp, GivesUp, Rests
  <1>8. ASSUME NEW t \in Thread, Write(t) \/ WriteFails(t) \/ ReadMessageBegin(t) \/ Mine(t)
        PROVE  OfThread(t)
    BY <1>8 DEF OfThread
  <1> QED BY <1>1, <1>2, <1>3, <1>4, <1>5, <1>6, <1>7, <1>8 DEF Next, Step

(* What ~TConcurrentRecvSentry does to the threads. *)
LEMMA Leaving ==
  ASSUME TypeOK, NEW t \in Thread, NEW committed \in BOOLEAN, Leave(t, committed)
  PROVE  /\ pc' \in [Thread -> Place] /\ pc'[t] = "idle"
         /\ \A u \in Thread \ {t} : pc'[u] = pc[u] \/ (pc[u] = "waiting" /\ pc'[u] = "woken")
         /\ ~committed => \A u \in monitors \ {t} : pc'[u] # "waiting"
         /\ committed => \A u \in Latest(monitors \ {t}) : pc'[u] # "waiting"
PROOF
  <1> DEFINE others == monitors \ {t}
  <1>1. pc \in [Thread -> Place] /\ monitors \subseteq Thread /\ "idle" \in Place
    BY DEF TypeOK, Place
  <1>2. ASSUME NEW S, S \subseteq others, pc' = [Notified(S) EXCEPT ![t] = "idle"]
        PROVE  /\ pc' \in [Thread -> Place] /\ pc'[t] = "idle"
               /\ \A u \in Thread \ {t} : pc'[u] = pc[u] \/ (pc[u] = "waiting" /\ pc'[u] = "woken")
               /\ \A u \in S : pc'[u] # "waiting"
    <2>1. /\ Notified(S) \in [Thread -> Place]
          /\ \A u \in Thread : /\ u \in S /\ pc[u] = "waiting" => Notified(S)[u] = "woken"
                               /\ ~(u \in S /\ pc[u] = "waiting") => Notified(S)[u] = pc[u]
      BY <1>1, NotifiedIs
    <2>2. /\ pc' \in [Thread -> Place] /\ pc'[t] = "idle"
          /\ \A u \in Thread \ {t} : pc'[u] = Notified(S)[u]
      BY <1>1, <1>2, <2>1
    <2>3. S \subseteq Thread \ {t}
      BY <1>1, <1>2
    <2> QED BY <2>1, <2>2, <2>3
  <1>3. CASE committed
    <2>1. pc' = [Notified(Latest(others)) EXCEPT ![t] = "idle"] /\ Latest(others) \subseteq others
      BY <1>3 DEF Leave, Latest
    <2> QED BY <1>2, <1>3, <2>1
  <1>4. CASE ~committed
    <2>1. pc' = [Notified(others) EXCEPT ![t] = "idle"]
      BY <1>4 DEF Leave
    <2> QED BY <1>2, <1>4, <2>1
  <1> QED BY <1>3, <1>4

(* What a step of one thread does to the others: it wakes them, or nothing. *)
LEMMA OthersStay ==
  ASSUME TypeOK, NEW t \in Thread, OfThread(t), NEW u \in Thread, u # t
  PROVE  /\ pc'[u] = pc[u] \/ (pc[u] = "waiting" /\ pc'[u] = "woken")
         /\ cseqid'[u] = cseqid[u] /\ question'[u] = question[u] /\ inHand'[u] = inHand[u]
PROOF
  <1> DEFINE Stays == /\ pc'[u] = pc[u] \/ (pc[u] = "waiting" /\ pc'[u] = "woken")
                      /\ cseqid'[u] = cseqid[u] /\ question'[u] = question[u] /\ inHand'[u] = inHand[u]
  <1>0. /\ pc \in [Thread -> Place] /\ cseqid \in [Thread -> 0 .. MaxCalls]
        /\ question \in [Thread -> SUBSET Id] /\ inHand \in [Thread -> SUBSET Header]
    BY DEF TypeOK
  <1>1. ASSUME NEW i \in Id, Number(t, i) PROVE Stays
    BY <1>0, <1>1 DEF Number
  <1>2. ASSUME Write(t) \/ ReadMessageBegin(t) PROVE Stays
    BY <1>0, <1>2 DEF Write, ReadMessageBegin, callVars
  <1>3. ASSUME NEW S, pc' = [Notified(S) EXCEPT ![t] = "idle"] \/ pc' = [Notified(S) EXCEPT ![t] = "checked"]
        PROVE  pc'[u] = pc[u] \/ (pc[u] = "waiting" /\ pc'[u] = "woken")
    BY <1>0, <1>3, NotifiedIs
  <1>4. ASSUME WriteFails(t) PROVE Stays
    BY <1>0, <1>3, <1>4 DEF WriteFails
  <1>5. ASSUME TakesUp(t) PROVE Stays
    BY <1>0, <1>5 DEF TakesUp, GetPending, callVars
  <1>6. ASSUME NEW committed \in BOOLEAN, Leave(t, committed) PROVE Stays
    <2>1. pc'[u] = pc[u] \/ (pc[u] = "waiting" /\ pc'[u] = "woken")
      BY <1>6, Leaving
    <2> QED BY <1>0, <1>6, <2>1 DEF Leave
  <1>7. ASSUME PassesOn(t) PROVE Stays
    BY <1>0, <1>3, <1>7 DEF PassesOn, callVars
  <1>8. ASSUME Rests(t) PROVE Stays
    BY <1>0, <1>8 DEF Rests, callVars
  <1> HIDE DEF Stays
  <1>9. Stays
    BY <1>1, <1>2, <1>4, <1>5, <1>6, <1>7, <1>8 DEF OfThread, Mine, Matched, GivesUp
  <1> QED BY <1>9 DEF Stays

-----------------------------------------------------------------------------
(* The steps.                                                               *)

(* The server's answer is an answer. *)
LEMMA AnswerType ==
  ASSUME NEW i \in Id
  PROVE  AnswerTo[i] \in Answer
PROOF
  <1>1. CASE i < 1000
    BY <1>1 DEF AnswerTo, Answer
  <1>2. CASE ~(i < 1000)
    BY <1>2 DEF AnswerTo, Answer
  <1> QED BY <1>1, <1>2

(* Nothing has happened yet. *)
LEMMA InitInv == Init => Inv
PROOF
  <1> SUFFICES ASSUME Init PROVE Inv
    OBVIOUS
  <1>1. <<>> \in Seq(Header) /\ DOMAIN <<>> = {}
    BY EmptySeq
  <1>2. TypeOK
    <2>1. 0 \in 0 .. MaxCalls
      BY CallsAssumption
    <2> QED BY <1>1, <2>1 DEF Init, TypeOK, Place
  <1>3. \A n \in CallNumber : ~AtServer(n) /\ ~OnItsWay(n) /\ ~LeftOver(n) /\ ~Held(n)
    BY <1>1 DEF Init, AtServer, OnItsWay, LeftOver, Held
  <1>4. OneReader /\ InACall
    BY DEF Init, OneReader, InACall, Holding
  <1>5. OwnNumbers /\ InOnePlace
    BY <1>1, <1>3 DEF Init, OwnNumbers, InOnePlace, Somewhere
  <1>6. NoneMissing /\ ToThePoint /\ Awake
    BY <1>1, <1>3 DEF Init, NoneMissing, ToThePoint, Awake, Receiving, Holding, Somewhere
  <1> QED BY <1>2, <1>4, <1>5, <1>6 DEF Inv

(* The types are kept: the numbers of the calls stay below MaxCalls. *)
LEMMA TypeNext == TypeOK /\ OwnNumbers /\ [Next]_vars => TypeOK'
PROOF
  <1> SUFFICES ASSUME TypeOK, OwnNumbers, [Next]_vars PROVE TypeOK'
    OBVIOUS
  <1>0. pc \in [Thread -> Place]
    BY DEF TypeOK
  <1>1. ASSUME NEW t \in Thread, NEW i \in Id, Number(t, i) PROVE TypeOK'
    BY <1>1, CallsAssumption DEF Number, TypeOK, Place, netVars
  <1>2. ASSUME NEW t \in Thread, Write(t) PROVE TypeOK'
    <2>1. cseqid[t] \in 0 .. MaxCalls - 1 /\ question[t] \subseteq Id
      BY <1>2, CallsAssumption DEF Write, OwnNumbers, TypeOK
    <2>2. [cseqid : {cseqid[t]}, asked : question[t]] \subseteq [cseqid : 0 .. MaxCalls - 1, asked : Id]
      BY <2>1
    <2>3. requests' \subseteq [cseqid : 0 .. MaxCalls - 1, asked : Id]
      BY <1>2, <2>2 DEF Write, TypeOK
    <2> QED BY <1>2, <2>3 DEF Write, TypeOK, Place, callVars, syncVars
  <1>3. ASSUME NEW t \in Thread, WriteFails(t) PROVE TypeOK'
    <2>1. pc' \in [Thread -> Place]
      BY <1>0, <1>3, NotifiedIs DEF WriteFails, Place
    <2> QED BY <1>3, <2>1 DEF WriteFails, TypeOK, netVars
  <1>4. ASSUME NEW t \in Thread, TakesUp(t) PROVE TypeOK'
    <2>1. pc' \in [Thread -> Place]
      <3>1. CASE pending = {}
        BY <1>0, <1>4, <3>1 DEF TakesUp, GetPending, Place, Holding
      <3>2. CASE pending # {}
        BY <1>0, <1>4, <3>2 DEF TakesUp, GetPending, Place, Holding
      <3> QED BY <3>1, <3>2
    <2> QED BY <1>4, <2>1 DEF TakesUp, GetPending, TypeOK, callVars, netVars
  <1>5. ASSUME NEW t \in Thread, ReadMessageBegin(t) PROVE TypeOK'
    <2>1. Head(stream) \in Header /\ stream' \in Seq(Header)
      BY <1>5, Taken DEF ReadMessageBegin, TypeOK
    <2> QED BY <1>5, <2>1 DEF ReadMessageBegin, TypeOK, Place, Holding, callVars, syncVars
  <1>6. ASSUME NEW t \in Thread, NEW committed \in BOOLEAN, Leave(t, committed),
               UNCHANGED netVars, pending' \in {pending, inHand[t]},
               result' \in [Thread -> SUBSET Answer]
        PROVE  TypeOK'
    <2>1. pc' \in [Thread -> Place]
      BY <1>6, Leaving
    <2>2. stop_' \in BOOLEAN
      BY <1>6 DEF Leave, TypeOK
    <2> QED BY <1>6, <2>1, <2>2 DEF Leave, TypeOK, netVars
  <1>7. ASSUME NEW t \in Thread, Mine(t) PROVE TypeOK'
    <2>1. {h.answer : h \in inHand[t]} \subseteq Answer
      BY DEF TypeOK, Header
    <2>2. result' \in [Thread -> SUBSET Answer]
      BY <1>7, <2>1 DEF Mine, TypeOK
    <2> QED BY <1>6, <1>7, <2>2 DEF Mine, Matched
  <1>8. ASSUME NEW t \in Thread, GivesUp(t) PROVE TypeOK'
    BY <1>6, <1>8 DEF GivesUp, TypeOK
  <1>9. ASSUME NEW t \in Thread, PassesOn(t) PROVE TypeOK'
    <2>1. pc' \in [Thread -> Place]
      BY <1>0, <1>9, NotifiedIs DEF PassesOn, Place, Holding
    <2> QED BY <1>9, <2>1 DEF PassesOn, TypeOK, callVars, netVars
  <1>10. ASSUME NEW t \in Thread, Rests(t) PROVE TypeOK'
    BY <1>10 DEF Rests, TypeOK, Place, Holding, callVars, syncVars, netVars
  <1>11. ASSUME NEW c \in requests, Process(c) PROVE TypeOK'
    <2>1. AnswerHeader(c) \in Header
      BY AnswerType DEF AnswerHeader, Header, TypeOK
    <2>2. stream' \in Seq(Header)
      BY <1>11, <2>1, Appended DEF Process, TypeOK
    <2> QED BY <1>11, <2>2 DEF Process, TypeOK, callVars, syncVars
  <1>12. ASSUME Disconnect PROVE TypeOK'
    BY <1>12, EmptySeq DEF Disconnect, TypeOK, callVars, syncVars
  <1>13. CASE UNCHANGED vars
    BY <1>13 DEF vars, TypeOK, callVars, syncVars, netVars
  <1> QED BY <1>1, <1>2, <1>3, <1>4, <1>5, <1>7, <1>8, <1>9, <1>10, <1>11, <1>12, <1>13, Kinds DEF OfThread

(* One thread has the read mutex, and it has just the answer it looks at. *)
LEMMA OneReaderNext == TypeOK /\ OneReader /\ [Next]_vars => OneReader'
PROOF
  <1> SUFFICES ASSUME TypeOK, OneReader, [Next]_vars PROVE OneReader'
    OBVIOUS
  <1>0. /\ pc \in [Thread -> Place] /\ inHand \in [Thread -> SUBSET Header]
        /\ \A t, u \in Thread : pc[t] \in Holding /\ pc[u] \in Holding => t = u
        /\ \A t \in Thread : inHand[t] # {} <=> pc[t] = "matching"
        /\ \A t \in Thread : \A g, h \in inHand[t] : g = h
        /\ \A g, h \in pending : g = h
        /\ \A t \in Thread : pc[t] \in {"reading", "matching"} => pending = {}
    BY DEF TypeOK, OneReader
  <1>1. ASSUME NEW t \in Thread, OfThread(t),
               pc'[t] \in Holding => MutexFree \/ pc[t] \in Holding,
               inHand'[t] # {} <=> pc'[t] = "matching",
               \A g, h \in inHand'[t] : g = h,
               \A g, h \in pending' : g = h,
               pc'[t] \in {"reading", "matching"} => pending' = {},
               pc[t] \in {"reading", "matching"} \/ pending' \subseteq pending
        PROVE  OneReader'
    <2>1. \A u \in Thread \ {t} : /\ pc'[u] = pc[u] \/ (pc[u] = "waiting" /\ pc'[u] = "woken")
                                  /\ inHand'[u] = inHand[u]
      BY <1>1, OthersStay
    <2>2. \A u \in Thread \ {t} : /\ pc'[u] \in Holding => pc'[u] = pc[u]
                                  /\ pc'[u] = "matching" <=> pc[u] = "matching"
      BY <2>1 DEF Holding
    <2>3. \A u, v \in Thread : pc'[u] \in Holding /\ pc'[v] \in Holding => u = v
      BY <1>0, <1>1, <2>2 DEF MutexFree
    <2>4. \A u \in Thread : inHand'[u] # {} <=> pc'[u] = "matching"
      BY <1>0, <1>1, <2>1, <2>2
    <2>5. \A u \in Thread : \A g, h \in inHand'[u] : g = h
      BY <1>0, <1>1, <2>1
    <2>6. \A u \in Thread : pc'[u] \in {"reading", "matching"} => pending' = {}
      <3> SUFFICES ASSUME NEW u \in Thread \ {t}, pc'[u] \in {"reading", "matching"}
                   PROVE  pending' = {}
        BY <1>1
      <3>1. pc[u] \in {"reading", "matching"}
        BY <2>2 DEF Holding
      <3>2. pending = {} /\ pc[t] \notin {"reading", "matching"}
        BY <1>0, <3>1 DEF Holding
      <3> QED BY <1>1, <3>2
    <2> QED BY <1>1, <2>3, <2>4, <2>5, <2>6 DEF OneReader
  <1>2. ASSUME NEW t \in Thread, NEW i \in Id, Number(t, i) PROVE OneReader'
    <2>1. pc[t] = "idle" /\ pc'[t] = "numbered" /\ inHand' = inHand /\ pending' = pending
      BY <1>0, <1>2 DEF Number
    <2> QED BY <1>0, <1>1, <1>2, <2>1 DEF OfThread, Holding
  <1>3. ASSUME NEW t \in Thread, Write(t) PROVE OneReader'
    <2>1. pc[t] = "numbered" /\ pc'[t] = "sent" /\ inHand' = inHand /\ pending' = pending
      BY <1>0, <1>3 DEF Write, syncVars
    <2> QED BY <1>0, <1>1, <1>3, <2>1 DEF OfThread, Holding
  <1>4. ASSUME NEW t \in Thread, WriteFails(t) PROVE OneReader'
    <2>1. pc[t] = "numbered" /\ pc'[t] = "idle" /\ inHand' = inHand /\ pending' = pending
      BY <1>0, <1>4, NotifiedIs DEF WriteFails
    <2> QED BY <1>0, <1>1, <1>4, <2>1 DEF OfThread, Holding
  <1>5. ASSUME NEW t \in Thread, TakesUp(t) PROVE OneReader'
    <2>1. MutexFree /\ inHand'[t] = pending /\ pending' = {}
      BY <1>0, <1>5 DEF TakesUp, GetPending
    <2>2. pending = {} => pc'[t] = "reading"
      BY <1>0, <1>5 DEF TakesUp, GetPending
    <2>3. pending # {} => pc'[t] = "matching"
      BY <1>0, <1>5 DEF TakesUp, GetPending
    <2> QED BY <1>0, <1>1, <1>5, <2>1, <2>2, <2>3 DEF OfThread
  <1>6. ASSUME NEW t \in Thread, ReadMessageBegin(t) PROVE OneReader'
    <2>1. /\ pc[t] = "reading" /\ pc'[t] = "matching" /\ inHand'[t] = {Head(stream)}
          /\ pending' = pending
      BY <1>0, <1>6 DEF ReadMessageBegin, syncVars
    <2> QED BY <1>0, <1>1, <1>6, <2>1 DEF OfThread, Holding
  <1>7. ASSUME NEW t \in Thread, NEW committed \in BOOLEAN, Leave(t, committed), OfThread(t),
               pending' \in {pending, inHand[t]}, pc[t] # "matching" => pending' = pending
        PROVE  OneReader'
    <2>1. pc'[t] = "idle" /\ inHand'[t] = {}
      BY <1>0, <1>7, Leaving DEF Leave
    <2>2. pc[t] \in {"reading", "matching"} \/ pending' \subseteq pending
      BY <1>7
    <2>3. \A g, h \in pending' : g = h
      BY <1>0, <1>7
    <2> QED BY <1>1, <1>7, <2>1, <2>2, <2>3 DEF Holding
  <1>8. ASSUME NEW t \in Thread, Mine(t) \/ GivesUp(t) PROVE OneReader'
    BY <1>7, <1>8 DEF Mine, Matched, GivesUp, OfThread
  <1>9. ASSUME NEW t \in Thread, PassesOn(t) PROVE OneReader'
    <2>1. pc[t] = "matching" /\ pc'[t] = "checked" /\ inHand'[t] = {} /\ pending' = inHand[t]
      BY <1>0, <1>9, NotifiedIs DEF PassesOn
    <2> QED BY <1>0, <1>1, <1>9, <2>1 DEF OfThread, Holding
  <1>10. ASSUME NEW t \in Thread, Rests(t) PROVE OneReader'
    <2>1. /\ pc[t] \in {"checked", "woken", "waiting"} /\ pc'[t] \in {"checked", "woken", "waiting"}
          /\ pc'[t] \in Holding => MutexFree
          /\ inHand' = inHand /\ pending' = pending
      BY <1>0, <1>10 DEF Rests, syncVars, Holding
    <2> QED BY <1>0, <1>1, <1>10, <2>1 DEF OfThread
  <1>11. ASSUME UNCHANGED <<pc, inHand, pending>> PROVE OneReader'
    BY <1>11 DEF OneReader
  <1>12. ASSUME NEW c \in requests, Process(c) PROVE OneReader'
    BY <1>11, <1>12 DEF Process, syncVars
  <1>13. ASSUME Disconnect \/ UNCHANGED vars PROVE OneReader'
    BY <1>11, <1>13 DEF Disconnect, vars, syncVars
  <1> QED BY <1>2, <1>3, <1>4, <1>5, <1>6, <1>8, <1>9, <1>10, <1>12, <1>13, Kinds DEF OfThread

(* Who is in a call is on the map until the call ends, and asks one thing.  *)
LEMMA InACallNext == TypeOK /\ InACall /\ [Next]_vars => InACall'
PROOF
  <1> SUFFICES ASSUME TypeOK, InACall, [Next]_vars PROVE InACall'
    OBVIOUS
  <1>0. /\ pc \in [Thread -> Place] /\ monitors \subseteq Thread
        /\ question \in [Thread -> SUBSET Id] /\ inHand \in [Thread -> SUBSET Header]
    BY DEF TypeOK
  <1>1. ASSUME NEW t \in Thread, OfThread(t),
               pc'[t] # "idle" => t \in monitors',
               ~stop_' /\ t \in monitors' => pc'[t] # "idle",
               pc'[t] = "idle" => question'[t] = {},
               pc'[t] # "idle" => \E i \in Id : question'[t] = {i},
               monitors' \ {t} = monitors \ {t}, stop_ => stop_'
        PROVE  InACall'
    <2> SUFFICES ASSUME NEW u \in Thread \ {t}
                 PROVE  /\ pc'[u] # "idle" => u \in monitors'
                        /\ ~stop_' /\ u \in monitors' => pc'[u] # "idle"
                        /\ pc'[u] = "idle" => question'[u] = {}
                        /\ pc'[u] # "idle" => \E i \in Id : question'[u] = {i}
      BY <1>1 DEF InACall
    <2>1. /\ pc'[u] = "idle" <=> pc[u] = "idle"
          /\ question'[u] = question[u]
      BY <1>1, OthersStay
    <2>2. u \in monitors' <=> u \in monitors
      BY <1>1
    <2> QED BY <1>1, <2>1, <2>2 DEF InACall
  <1>2. ASSUME NEW t \in Thread, NEW i \in Id, Number(t, i) PROVE InACall'
    <2>1. /\ pc'[t] = "numbered" /\ monitors' = monitors \cup {t} /\ stop_' = stop_
          /\ question'[t] = {i}
      BY <1>0, <1>2 DEF Number
    <2> QED BY <1>1, <1>2, <2>1 DEF OfThread
  <1>3. ASSUME NEW t \in Thread, OfThread(t), pc[t] # "idle", pc'[t] # "idle",
               question' = question, monitors' = monitors, stop_' = stop_
        PROVE  InACall'
    <2>1. t \in monitors /\ \E i \in Id : question[t] = {i}
      BY <1>3 DEF InACall
    <2> QED BY <1>1, <1>3, <2>1
  <1>4. ASSUME NEW t \in Thread, WriteFails(t) PROVE InACall'
    <2>1. pc'[t] = "idle" /\ monitors' = monitors /\ stop_' /\ question'[t] = {}
      BY <1>0, <1>4, NotifiedIs DEF WriteFails
    <2> QED BY <1>1, <1>4, <2>1 DEF OfThread
  <1>5. ASSUME NEW t \in Thread, NEW committed \in BOOLEAN, Leave(t, committed), OfThread(t)
        PROVE  InACall'
    <2>1. /\ pc'[t] = "idle" /\ monitors' = monitors \ {t} /\ (stop_ => stop_')
          /\ question'[t] = {}
      BY <1>0, <1>5, Leaving DEF Leave, TypeOK
    <2> QED BY <1>1, <1>5, <2>1
  <1>6. ASSUME NEW t \in Thread, Write(t) \/ ReadMessageBegin(t) \/ Rests(t) PROVE InACall'
    <2>1. /\ pc[t] # "idle" /\ pc'[t] # "idle"
          /\ question' = question /\ monitors' = monitors /\ stop_' = stop_
      BY <1>0, <1>6 DEF Write, ReadMessageBegin, Rests, callVars, syncVars
    <2> QED BY <1>3, <1>6, <2>1 DEF OfThread
  <1>7. ASSUME NEW t \in Thread, TakesUp(t) PROVE InACall'
    <2>1. /\ pc[t] # "idle" /\ question' = question /\ monitors' = monitors /\ stop_' = stop_
      BY <1>0, <1>7 DEF TakesUp, GetPending, callVars
    <2>2. pc'[t] # "idle"
      <3>1. CASE pending = {}
        BY <1>0, <1>7, <3>1 DEF TakesUp, GetPending
      <3>2. CASE pending # {}
        BY <1>0, <1>7, <3>2 DEF TakesUp, GetPending
      <3> QED BY <3>1, <3>2
    <2> QED BY <1>3, <1>7, <2>1, <2>2 DEF OfThread
  <1>8. ASSUME NEW t \in Thread, PassesOn(t) PROVE InACall'
    <2>1. /\ pc[t] # "idle" /\ pc'[t] # "idle"
          /\ question' = question /\ monitors' = monitors /\ stop_' = stop_
      BY <1>0, <1>8, NotifiedIs DEF PassesOn, callVars
    <2> QED BY <1>3, <1>8, <2>1 DEF OfThread
  <1>9. ASSUME NEW t \in Thread, Mine(t) \/ GivesUp(t) PROVE InACall'
    BY <1>5, <1>9 DEF Mine, Matched, GivesUp, OfThread
  <1>10. ASSUME UNCHANGED <<pc, question, monitors, stop_>> PROVE InACall'
    BY <1>10 DEF InACall
  <1>11. ASSUME NEW c \in requests, Process(c) PROVE InACall'
    BY <1>10, <1>11 DEF Process, callVars, syncVars
  <1>12. ASSUME Disconnect \/ UNCHANGED vars PROVE InACall'
    BY <1>10, <1>12 DEF Disconnect, vars, callVars, syncVars
  <1> QED BY <1>2, <1>4, <1>6, <1>7, <1>8, <1>9, <1>11, <1>12, Kinds DEF OfThread

-----------------------------------------------------------------------------
(* How a call and its answer move from place to place.                      *)

(* Nothing moves. *)
LEMMA NothingMoves ==
  ASSUME UNCHANGED <<requests, stream, pending, inHand>>, NEW n \in CallNumber
  PROVE  /\ AtServer(n)' <=> AtServer(n)
         /\ OnItsWay(n)' <=> OnItsWay(n)
         /\ LeftOver(n)' <=> LeftOver(n)
         /\ Held(n)' <=> Held(n)
PROOF
  BY DEF AtServer, OnItsWay, LeftOver, Held

(* A call that is written gets to the server, if the connection is up.      *)
LEMMA WriteMoves ==
  ASSUME TypeOK, InACall, NEW t \in Thread, Write(t), NEW n \in CallNumber
  PROVE  /\ AtServer(n)' <=> AtServer(n) \/ (up /\ n = cseqid[t])
         /\ OnItsWay(n)' <=> OnItsWay(n)
         /\ LeftOver(n)' <=> LeftOver(n)
         /\ Held(n)' <=> Held(n)
PROOF
  <1>1. UNCHANGED <<stream, pending, inHand>>
    BY DEF Write, syncVars
  <1>2. AtServer(n)' <=> AtServer(n) \/ (up /\ n = cseqid[t])
    <2>1. CASE up
      <3>1. PICK i \in Id : question[t] = {i}
        BY DEF Write, InACall
      <3> DEFINE call == [cseqid |-> cseqid[t], asked |-> i]
                 calls == [cseqid : {cseqid[t]}, asked : {i}]
      <3>2. \A c \in calls : c.cseqid = cseqid[t]
        OBVIOUS
      <3>3. call \in calls /\ call.cseqid = cseqid[t]
        OBVIOUS
      <3>4. requests' = requests \cup calls
        BY <2>1, <3>1 DEF Write
      <3> HIDE DEF call, calls
      <3> QED BY <2>1, <3>2, <3>3, <3>4 DEF AtServer
    <2>2. CASE ~up
      BY <2>2 DEF Write, AtServer
    <2> QED BY <2>1, <2>2
  <1> QED BY <1>1, <1>2 DEF OnItsWay, LeftOver, Held

(* The server answers a call: the call goes and the answer is on its way.   *)
LEMMA ProcessMoves ==
  ASSUME TypeOK, InOnePlace, NEW c \in requests, Process(c), NEW n \in CallNumber
  PROVE  /\ AtServer(n)' <=> AtServer(n) /\ n # c.cseqid
         /\ OnItsWay(n)' <=> OnItsWay(n) \/ n = c.cseqid
         /\ LeftOver(n)' <=> LeftOver(n)
         /\ Held(n)' <=> Held(n)
PROOF
  <1>1. UNCHANGED <<pending, inHand>>
    BY DEF Process, syncVars
  <1>2. AtServer(n)' <=> AtServer(n) /\ n # c.cseqid
    BY DEF Process, AtServer, InOnePlace
  <1>3. AnswerHeader(c) \in Header /\ AnswerHeader(c).rseqid = c.cseqid
    BY AnswerType DEF AnswerHeader, Header, TypeOK
  <1>4. OnItsWay(n)' <=> OnItsWay(n) \/ n = c.cseqid
    BY <1>3, Appended DEF Process, OnItsWay, TypeOK
  <1> QED BY <1>1, <1>2, <1>4 DEF LeftOver, Held

(* An answer is read: it is no longer on its way, and t holds it. *)
LEMMA ReadMoves ==
  ASSUME TypeOK, OneReader, InOnePlace, NEW t \in Thread, ReadMessageBegin(t), NEW n \in CallNumber
  PROVE  /\ AtServer(n)' <=> AtServer(n)
         /\ OnItsWay(n)' <=> OnItsWay(n) /\ n # Head(stream).rseqid
         /\ LeftOver(n)' <=> LeftOver(n)
         /\ Held(n)' <=> Held(n) \/ n = Head(stream).rseqid
         /\ n = Head(stream).rseqid => OnItsWay(n)
PROOF
  <1>1. UNCHANGED <<requests, pending>>
    BY DEF ReadMessageBegin, syncVars
  <1>2. stream \in Seq(Header) /\ stream # <<>> /\ stream' = Tail(stream)
    BY DEF ReadMessageBegin, TypeOK
  <1>3. /\ 1 \in DOMAIN stream /\ Head(stream) = stream[1]
        /\ \A i \in DOMAIN Tail(stream) : /\ i + 1 \in DOMAIN stream /\ i + 1 # 1
                                          /\ Tail(stream)[i] = stream[i + 1]
        /\ \A i \in DOMAIN stream : i = 1 \/ \E j \in DOMAIN Tail(stream) : Tail(stream)[j] = stream[i]
    BY <1>2, Taken
  <1>4. \A i, j \in DOMAIN stream : stream[i].rseqid = stream[j].rseqid => i = j
    BY DEF InOnePlace
  <1>5. OnItsWay(n)' => OnItsWay(n) /\ n # Head(stream).rseqid
    <2> SUFFICES ASSUME NEW i \in DOMAIN Tail(stream), Tail(stream)[i].rseqid = n
                 PROVE  OnItsWay(n) /\ n # Head(stream).rseqid
      BY <1>2 DEF OnItsWay
    <2> DEFINE j == i + 1
    <2>1. j \in DOMAIN stream /\ j # 1 /\ stream[j].rseqid = n
      BY <1>3
    <2> HIDE DEF j
    <2> QED BY <1>3, <1>4, <2>1 DEF OnItsWay
  <1>6. OnItsWay(n) /\ n # Head(stream).rseqid => OnItsWay(n)'
    BY <1>2, <1>3 DEF OnItsWay
  <1>7. n = Head(stream).rseqid => OnItsWay(n)
    BY <1>3 DEF OnItsWay
  <1>8. inHand[t] = {} /\ inHand' = [inHand EXCEPT ![t] = {Head(stream)}]
    BY DEF ReadMessageBegin, OneReader
  <1>9. Held(n)' <=> Held(n) \/ n = Head(stream).rseqid
    BY <1>8 DEF Held, TypeOK
  <1> QED BY <1>1, <1>5, <1>6, <1>7, <1>9 DEF AtServer, LeftOver

(* What was left over is taken up. *)
LEMMA TakesUpMoves ==
  ASSUME TypeOK, OneReader, NEW t \in Thread, TakesUp(t), NEW n \in CallNumber
  PROVE  /\ AtServer(n)' <=> AtServer(n)
         /\ OnItsWay(n)' <=> OnItsWay(n)
         /\ ~LeftOver(n)'
         /\ Held(n)' <=> Held(n) \/ LeftOver(n)
PROOF
  <1>1. UNCHANGED <<requests, stream>> /\ pending' = {}
    BY DEF TakesUp, GetPending, netVars
  <1>2. inHand[t] = {} /\ inHand' = [inHand EXCEPT ![t] = pending]
    BY DEF TakesUp, GetPending, OneReader
  <1>3. Held(n)' <=> Held(n) \/ LeftOver(n)
    BY <1>2 DEF Held, LeftOver, TypeOK
  <1> QED BY <1>1, <1>3 DEF AtServer, OnItsWay, LeftOver

(* A thread that looks at an answer holds the only one that is held. *)
LEMMA HeldIs ==
  ASSUME OneReader, NEW t \in Thread, pc[t] = "matching", NEW n \in CallNumber
  PROVE  /\ Held(n) <=> \E h \in inHand[t] : h.rseqid = n
         /\ ~LeftOver(n)
         /\ \A u \in Thread \ {t} : inHand[u] = {}
PROOF
  <1>1. \A u \in Thread \ {t} : inHand[u] = {}
    BY DEF OneReader, Holding
  <1> QED BY <1>1 DEF Held, LeftOver, OneReader

(* An answer is left over to its owner. *)
LEMMA PassesOnMoves ==
  ASSUME TypeOK, OneReader, NEW t \in Thread, PassesOn(t), NEW n \in CallNumber
  PROVE  /\ AtServer(n)' <=> AtServer(n)
         /\ OnItsWay(n)' <=> OnItsWay(n)
         /\ LeftOver(n)' <=> Held(n)
         /\ ~Held(n)'
PROOF
  <1>1. UNCHANGED <<requests, stream>> /\ pending' = inHand[t] /\ inHand' = [inHand EXCEPT ![t] = {}]
    BY DEF PassesOn, netVars
  <1>2. pc[t] = "matching"
    BY DEF PassesOn
  <1> QED BY <1>1, <1>2, HeldIs DEF AtServer, OnItsWay, LeftOver, Held, TypeOK

(* Who leaves with an answer in hand takes it along, or leaves it over.     *)
LEMMA LeaveMoves ==
  ASSUME TypeOK, OneReader, NEW t \in Thread, NEW committed \in BOOLEAN, Leave(t, committed),
         UNCHANGED netVars, pending' \in {pending, inHand[t]},
         pc[t] # "matching" => pending' = pending, NEW n \in CallNumber
  PROVE  /\ AtServer(n)' <=> AtServer(n)
         /\ OnItsWay(n)' <=> OnItsWay(n)
         /\ LeftOver(n)' => LeftOver(n) \/ Held(n)
         /\ Held(n)' => Held(n)
         /\ LeftOver(n)' => ~Held(n)' \/ LeftOver(n)
         /\ pc[t] = "matching" => ~Held(n)'
PROOF
  <1>1. UNCHANGED <<requests, stream>> /\ inHand' = [inHand EXCEPT ![t] = {}]
    BY DEF Leave, netVars
  <1>2. CASE pc[t] # "matching"
    BY <1>1, <1>2 DEF AtServer, OnItsWay, LeftOver, Held, TypeOK, OneReader
  <1>3. CASE pc[t] = "matching"
    BY <1>1, <1>3, HeldIs DEF AtServer, OnItsWay, LeftOver, Held, TypeOK
  <1> QED BY <1>2, <1>3

(* With the connection goes what is on its way. *)
LEMMA DisconnectMoves ==
  ASSUME TypeOK, Disconnect, NEW n \in CallNumber
  PROVE  /\ ~AtServer(n)'
         /\ OnItsWay(n)' => OnItsWay(n)
         /\ LeftOver(n)' <=> LeftOver(n)
         /\ Held(n)' <=> Held(n)
PROOF
  <1>1. UNCHANGED <<pending, inHand>> /\ requests' = {} /\ stream' \in {stream, <<>>}
    BY DEF Disconnect, syncVars
  <1>2. stream' = <<>> => DOMAIN stream' = {}
    BY EmptySeq
  <1> QED BY <1>1, <1>2 DEF AtServer, OnItsWay, LeftOver, Held

-----------------------------------------------------------------------------
(* Where the calls and the answers are.                                     *)

(* Who is in a call has a number that a call may have. *)
LEMMA NumberType ==
  ASSUME TypeOK, OwnNumbers, NEW t \in Thread, pc[t] # "idle"
  PROVE  cseqid[t] \in CallNumber
PROOF
  <1>1. cseqid[t] \in 0 .. MaxCalls /\ nextseqid_ \in 0 .. MaxCalls /\ cseqid[t] < nextseqid_
    BY DEF TypeOK, OwnNumbers
  <1> QED BY <1>1, CallsAssumption DEF CallNumber

(* A call and its answer do not meet: each step moves it or leaves it. *)
LEMMA InOnePlaceNext == TypeOK /\ OneReader /\ InACall /\ OwnNumbers /\ InOnePlace /\ [Next]_vars => InOnePlace'
PROOF
  <1> SUFFICES ASSUME TypeOK, OneReader, InACall, OwnNumbers, InOnePlace, [Next]_vars PROVE InOnePlace'
    OBVIOUS
  <1> DEFINE Calls1 == \A c, d \in requests : c.cseqid = d.cseqid => c = d
             Answers1 == \A i, j \in DOMAIN stream : stream[i].rseqid = stream[j].rseqid => i = j
             Apart(n) == /\ AtServer(n) => ~OnItsWay(n) /\ ~LeftOver(n) /\ ~Held(n)
                         /\ OnItsWay(n) => ~LeftOver(n) /\ ~Held(n)
                         /\ LeftOver(n) => ~Held(n)
  <1>0. Calls1 /\ Answers1 /\ \A n \in CallNumber : Apart(n)
    BY DEF InOnePlace
  <1>1. ASSUME Calls1', Answers1', \A n \in CallNumber : Apart(n)' PROVE InOnePlace'
    BY <1>1 DEF InOnePlace
  <1>2. ASSUME UNCHANGED <<requests, stream>> PROVE Calls1' /\ Answers1'
    BY <1>0, <1>2
  <1> HIDE DEF Calls1, Answers1
  <1>3. ASSUME UNCHANGED <<requests, stream, pending, inHand>> PROVE InOnePlace'
    <2>1. \A n \in CallNumber : Apart(n)'
      BY <1>0, <1>3, NothingMoves
    <2> QED BY <1>1, <1>2, <1>3, <2>1
  <1>4. ASSUME NEW t \in Thread, Write(t) PROVE InOnePlace'
    <2>1. ~Somewhere(cseqid[t])
      BY <1>4 DEF Write, OwnNumbers
    <2>2. \A n \in CallNumber : Apart(n)'
      BY <1>0, <1>4, <2>1, WriteMoves DEF Somewhere
    <2>3. Answers1'
      BY <1>0, <1>4 DEF Write, Answers1
    <2>4. Calls1'
      <3>1. PICK i \in Id : question[t] = {i}
        BY <1>4 DEF Write, InACall
      <3> DEFINE calls == [cseqid : {cseqid[t]}, asked : {i}]
      <3>2. \A c, d \in calls : c = d /\ c.cseqid = cseqid[t]
        OBVIOUS
      <3>3. requests' \subseteq requests \cup calls
        BY <1>4, <3>1 DEF Write
      <3> HIDE DEF calls
      <3>4. \A c \in requests : c.cseqid # cseqid[t]
        BY <2>1 DEF Somewhere, AtServer
      <3> QED BY <1>0, <3>2, <3>3, <3>4 DEF Calls1
    <2> QED BY <1>1, <2>2, <2>3, <2>4
  <1>5. ASSUME NEW t \in Thread, TakesUp(t) PROVE InOnePlace'
    <2>1. \A n \in CallNumber : Apart(n)'
      BY <1>0, <1>5, TakesUpMoves
    <2> QED BY <1>1, <1>2, <1>5, <2>1 DEF TakesUp, GetPending, netVars
  <1>6. ASSUME NEW t \in Thread, ReadMessageBegin(t) PROVE InOnePlace'
    <2>1. \A n \in CallNumber : Apart(n)'
      BY <1>0, <1>6, ReadMoves
    <2>2. Calls1'
      BY <1>0, <1>6 DEF ReadMessageBegin, Calls1
    <2>3. /\ stream' = Tail(stream)
          /\ \A i \in DOMAIN Tail(stream) : i + 1 \in DOMAIN stream /\ Tail(stream)[i] = stream[i + 1]
      BY <1>6, Taken DEF ReadMessageBegin, TypeOK
    <2>4. Tail(stream) \in Seq(Header)
      BY <1>6, Taken DEF ReadMessageBegin, TypeOK
    <2>5. \A i, j \in DOMAIN Tail(stream) : i + 1 = j + 1 => i = j
      BY <2>4, LenProperties
    <2>6. Answers1'
      BY <1>0, <2>3, <2>5 DEF Answers1
    <2> QED BY <1>1, <2>1, <2>2, <2>6
  <1>7. ASSUME NEW t \in Thread, PassesOn(t) PROVE InOnePlace'
    <2>1. \A n \in CallNumber : Apart(n)'
      BY <1>0, <1>7, PassesOnMoves
    <2> QED BY <1>1, <1>2, <1>7, <2>1 DEF PassesOn, netVars
  <1>8. ASSUME NEW t \in Thread, Mine(t) \/ GivesUp(t) PROVE InOnePlace'
    <2>1. /\ \E committed \in BOOLEAN : Leave(t, committed)
          /\ UNCHANGED netVars /\ pending' \in {pending, inHand[t]}
          /\ pc[t] # "matching" => pending' = pending
      BY <1>8 DEF Mine, Matched, GivesUp
    <2>2. \A n \in CallNumber : Apart(n)'
      BY <1>0, <2>1, LeaveMoves
    <2> QED BY <1>1, <1>2, <2>1, <2>2 DEF netVars
  <1>9. ASSUME NEW c \in requests, Process(c) PROVE InOnePlace'
    <2>1. c.cseqid \in CallNumber /\ AtServer(c.cseqid)
      BY DEF TypeOK, CallNumber, AtServer
    <2>2. ~OnItsWay(c.cseqid) /\ ~LeftOver(c.cseqid) /\ ~Held(c.cseqid)
      BY <1>0, <2>1
    <2>3. \A n \in CallNumber : Apart(n)'
      BY <1>0, <1>9, <2>2, ProcessMoves
    <2>4. Calls1'
      BY <1>0, <1>9 DEF Process, Calls1
    <2>5. AnswerHeader(c) \in Header /\ AnswerHeader(c).rseqid = c.cseqid
      BY AnswerType DEF AnswerHeader, Header, TypeOK
    <2>6. Answers1'
      <3> DEFINE new == stream'
      <3>1. /\ \A i \in DOMAIN new : \/ i \in DOMAIN stream /\ new[i] = stream[i]
                                     \/ i \notin DOMAIN stream /\ new[i].rseqid = c.cseqid
            /\ \A i, j \in DOMAIN new : i \notin DOMAIN stream /\ j \notin DOMAIN stream => i = j
        BY <1>9, <2>5, Appended DEF Process, TypeOK
      <3>2. \A i \in DOMAIN stream : stream[i].rseqid # c.cseqid
        BY <2>2 DEF OnItsWay
      <3> QED BY <1>0, <3>1, <3>2 DEF Answers1
    <2> QED BY <1>1, <2>3, <2>4, <2>6
  <1>10. ASSUME Disconnect PROVE InOnePlace'
    <2>1. \A n \in CallNumber : Apart(n)'
      BY <1>0, <1>10, DisconnectMoves
    <2>2. Calls1' /\ Answers1'
      BY <1>0, <1>10, EmptySeq DEF Disconnect, Calls1, Answers1
    <2> QED BY <1>1, <2>1, <2>2
  <1>11. ASSUME NEW t \in Thread, (\E i \in Id : Number(t, i)) \/ WriteFails(t) \/ Rests(t)
         PROVE  InOnePlace'
    BY <1>3, <1>11 DEF Number, WriteFails, Rests, netVars, syncVars
  <1>12. CASE UNCHANGED vars
    BY <1>3, <1>12 DEF vars, netVars, syncVars
  <1> HIDE DEF Apart
  <1> QED BY <1>4, <1>5, <1>6, <1>7, <1>8, <1>9, <1>10, <1>11, <1>12, Kinds DEF OfThread

(* Only a call that is written comes to be somewhere. *)
LEMMA SomewhereNext ==
  ASSUME TypeOK, OneReader, InACall, InOnePlace, [Next]_vars, NEW n \in CallNumber, Somewhere(n)'
  PROVE  Somewhere(n) \/ \E t \in Thread : Write(t) /\ n = cseqid[t]
PROOF
  <1>0. AtServer(n)' \/ OnItsWay(n)' \/ LeftOver(n)' \/ Held(n)'
    BY DEF Somewhere
  <1>1. ASSUME NEW t \in Thread, (\E i \in Id : Number(t, i)) \/ WriteFails(t) \/ Rests(t)
        PROVE  Somewhere(n)
    BY <1>0, <1>1, NothingMoves DEF Somewhere, Number, WriteFails, Rests, netVars, syncVars
  <1>2. ASSUME NEW t \in Thread, Write(t) PROVE Somewhere(n) \/ n = cseqid[t]
    BY <1>0, <1>2, WriteMoves DEF Somewhere
  <1>3. ASSUME NEW t \in Thread, TakesUp(t) PROVE Somewhere(n)
    BY <1>0, <1>3, TakesUpMoves DEF Somewhere
  <1>4. ASSUME NEW t \in Thread, ReadMessageBegin(t) PROVE Somewhere(n)
    BY <1>0, <1>4, ReadMoves DEF Somewhere
  <1>5. ASSUME NEW t \in Thread, PassesOn(t) PROVE Somewhere(n)
    BY <1>0, <1>5, PassesOnMoves DEF Somewhere
  <1>6. ASSUME NEW t \in Thread, Mine(t) \/ GivesUp(t) PROVE Somewhere(n)
    <2>1. /\ \E committed \in BOOLEAN : Leave(t, committed)
          /\ UNCHANGED netVars /\ pending' \in {pending, inHand[t]}
          /\ pc[t] # "matching" => pending' = pending
      BY <1>6 DEF Mine, Matched, GivesUp
    <2> QED BY <1>0, <2>1, LeaveMoves DEF Somewhere
  <1>7. ASSUME NEW c \in requests, Process(c) PROVE Somewhere(n)
    BY <1>0, <1>7, ProcessMoves DEF Somewhere, AtServer
  <1>8. ASSUME Disconnect PROVE Somewhere(n)
    BY <1>0, <1>8, DisconnectMoves DEF Somewhere
  <1>9. CASE UNCHANGED vars
    BY <1>0, <1>9, NothingMoves DEF Somewhere, vars, netVars, syncVars
  <1> QED BY <1>1, <1>2, <1>3, <1>4, <1>5, <1>6, <1>7, <1>8, <1>9, Kinds DEF OfThread

(* What a step may do to a thread's number and question: it gets new ones,  *)
(* and writes its call next; otherwise they stay.                           *)
LEMMA NumberNext ==
  ASSUME TypeOK, [Next]_vars, NEW u \in Thread, pc'[u] # "idle"
  PROVE  \/ /\ pc[u] # "idle" /\ cseqid'[u] = cseqid[u] /\ question'[u] = question[u]
            /\ pc'[u] = "numbered" => pc[u] = "numbered" /\ ~Write(u)
         \/ \E i \in Id : Number(u, i)
PROOF
  <1> DEFINE Same == /\ pc[u] # "idle" /\ cseqid'[u] = cseqid[u] /\ question'[u] = question[u]
                     /\ pc'[u] = "numbered" => pc[u] = "numbered" /\ ~Write(u)
  <1>0. pc \in [Thread -> Place]
    BY DEF TypeOK
  <1>1. ASSUME NEW t \in Thread, t # u, OfThread(t) PROVE Same
    <2>1. /\ pc'[u] = pc[u] \/ (pc[u] = "waiting" /\ pc'[u] = "woken")
          /\ cseqid'[u] = cseqid[u] /\ question'[u] = question[u]
      BY <1>1, OthersStay
    <2>2. Write(u) => pc'[u] = "sent"
      BY <1>0 DEF Write
    <2> QED BY <2>1, <2>2
  <1>2. ASSUME Write(u) \/ ReadMessageBegin(u) \/ Rests(u) PROVE Same
    BY <1>0, <1>2 DEF Write, ReadMessageBegin, Rests, callVars
  <1>3. ASSUME TakesUp(u) PROVE Same
    <2>1. pc'[u] \in {"reading", "matching"} /\ pc[u] # "idle" /\ UNCHANGED callVars
      <3>1. CASE pending = {}
        BY <1>0, <1>3, <3>1 DEF TakesUp, GetPending, callVars
      <3>2. CASE pending # {}
        BY <1>0, <1>3, <3>2 DEF TakesUp, GetPending, callVars
      <3> QED BY <3>1, <3>2
    <2> QED BY <2>1 DEF callVars
  <1>4. ASSUME PassesOn(u) PROVE Same
    <2>1. pc'[u] = "checked" /\ pc[u] # "idle" /\ UNCHANGED callVars
      BY <1>0, <1>4, NotifiedIs DEF PassesOn, callVars
    <2> QED BY <2>1 DEF callVars
  <1>5. ~WriteFails(u)
    BY <1>0, NotifiedIs DEF WriteFails
  <1>6. ~Mine(u) /\ ~GivesUp(u)
    BY Leaving DEF Mine, Matched, GivesUp
  <1>7. ASSUME UNCHANGED <<pc, callVars>> PROVE Same
    <2>1. Write(u) => pc'[u] = "sent" /\ pc[u] = "numbered"
      BY <1>0 DEF Write
    <2> QED BY <1>7, <2>1 DEF callVars
  <1>8. ASSUME NEW c \in requests, Process(c) PROVE Same
    BY <1>7, <1>8 DEF Process, callVars
  <1>9. ASSUME Disconnect \/ UNCHANGED vars PROVE Same
    BY <1>7, <1>9 DEF Disconnect, vars, callVars
  <1> HIDE DEF Same
  <1>10. Same \/ \E i \in Id : Number(u, i)
    BY <1>1, <1>2, <1>3, <1>4, <1>5, <1>6, <1>8, <1>9, Kinds DEF OfThread
  <1> QED BY <1>10 DEF Same

(* Calls that are made have numbers of their own. *)
LEMMA OwnNumbersNext == TypeOK /\ OneReader /\ InACall /\ OwnNumbers /\ InOnePlace /\ [Next]_vars => OwnNumbers'
PROOF
  <1> SUFFICES ASSUME TypeOK, OneReader, InACall, OwnNumbers, InOnePlace, [Next]_vars PROVE OwnNumbers'
    OBVIOUS
  <1>1. /\ \A t \in Thread : pc[t] # "idle" => cseqid[t] < nextseqid_
        /\ \A t, u \in Thread : pc[t] # "idle" /\ pc[u] # "idle" /\ cseqid[t] = cseqid[u] => t = u
        /\ \A n \in CallNumber : Somewhere(n) => n < nextseqid_
        /\ \A t \in Thread : pc[t] = "numbered" => ~Somewhere(cseqid[t])
    BY DEF OwnNumbers
  <1>2. cseqid \in [Thread -> 0 .. MaxCalls] /\ nextseqid_ \in 0 .. MaxCalls
    BY DEF TypeOK
  <1>3. CASE \E t \in Thread : \E i \in Id : Number(t, i)
    <2>1. PICK t \in Thread : \E i \in Id : Number(t, i)
      BY <1>3
    <2>2. /\ cseqid' = [cseqid EXCEPT ![t] = nextseqid_] /\ nextseqid_' = nextseqid_ + 1
          /\ nextseqid_ < MaxCalls /\ pc' = [pc EXCEPT ![t] = "numbered"] /\ pc[t] = "idle"
          /\ UNCHANGED <<requests, stream, pending, inHand>>
      BY <2>1 DEF Number, netVars
    <2>3. \A n \in CallNumber : Somewhere(n)' => Somewhere(n)
      BY <2>2, NothingMoves DEF Somewhere
    <2>4. nextseqid_ \in CallNumber
      BY <1>2, <2>2, CallsAssumption DEF CallNumber
    <2>5. \A u \in Thread \ {t} : /\ pc'[u] # "idle" => pc[u] # "idle"
                                  /\ pc'[u] = "numbered" => pc[u] = "numbered"
                                  /\ cseqid'[u] = cseqid[u]
      BY <1>2, <2>2 DEF TypeOK
    <2>6. cseqid'[t] = nextseqid_ /\ pc'[t] = "numbered"
      BY <1>2, <2>2 DEF TypeOK
    <2>7. \A u \in Thread : pc'[u] # "idle" => cseqid'[u] < nextseqid_'
      BY <1>1, <1>2, <2>2, <2>5, <2>6
    <2>8. \A u, v \in Thread : pc'[u] # "idle" /\ pc'[v] # "idle" /\ cseqid'[u] = cseqid'[v] => u = v
      BY <1>1, <1>2, <2>5, <2>6
    <2>9. \A n \in CallNumber : Somewhere(n)' => n < nextseqid_'
      BY <1>1, <1>2, <2>2, <2>3, CallsAssumption DEF CallNumber
    <2>10. ASSUME NEW u \in Thread, pc'[u] = "numbered" PROVE ~Somewhere(cseqid[u])'
      <3>1. CASE u = t
        <4>1. ~Somewhere(nextseqid_)
          BY <1>1, <1>2, <2>4
        <4>2. Somewhere(cseqid[u])' => Somewhere(nextseqid_)
          BY <2>2, <2>6, <3>1 DEF Somewhere, AtServer, OnItsWay, LeftOver, Held
        <4> QED BY <4>1, <4>2
      <3>2. CASE u # t
        <4>1. pc[u] = "numbered" /\ cseqid'[u] = cseqid[u]
          BY <2>5, <2>10, <3>2
        <4>2. Somewhere(cseqid[u])' => Somewhere(cseqid[u])
          BY <2>2, <4>1 DEF Somewhere, AtServer, OnItsWay, LeftOver, Held
        <4> QED BY <1>1, <4>1, <4>2
      <3> QED BY <3>1, <3>2
    <2> QED BY <2>7, <2>8, <2>9, <2>10 DEF OwnNumbers
  <1>4. CASE ~\E t \in Thread : \E i \in Id : Number(t, i)
    <2>1. \A u \in Thread : pc'[u] # "idle" =>
            /\ pc[u] # "idle" /\ cseqid'[u] = cseqid[u]
            /\ pc'[u] = "numbered" => pc[u] = "numbered" /\ ~Write(u)
      BY <1>4, NumberNext
    <2>2. nextseqid_' = nextseqid_
      <3>1. ASSUME NEW t \in Thread, OfThread(t) PROVE nextseqid_' = nextseqid_
        BY <1>4, <3>1 DEF OfThread, Write, WriteFails, TakesUp, GetPending, ReadMessageBegin, Mine, Matched,
                          PassesOn, GivesUp, Rests, Leave, syncVars
      <3>2. ASSUME NEW c \in requests, Process(c) PROVE nextseqid_' = nextseqid_
        BY <3>2 DEF Process, syncVars
      <3>3. ASSUME Disconnect \/ UNCHANGED vars PROVE nextseqid_' = nextseqid_
        BY <3>3 DEF Disconnect, vars, syncVars
      <3> QED BY <3>1, <3>2, <3>3, Kinds
    <2>3. \A n \in CallNumber : Somewhere(n)' => Somewhere(n) \/ \E t \in Thread : Write(t) /\ n = cseqid[t]
      BY SomewhereNext
    <2>4. \A t \in Thread : Write(t) => pc[t] = "numbered"
      BY DEF Write
    <2>5. \A u \in Thread : pc'[u] # "idle" => cseqid'[u] < nextseqid_'
      BY <1>1, <2>1, <2>2
    <2>6. \A u, v \in Thread : pc'[u] # "idle" /\ pc'[v] # "idle" /\ cseqid'[u] = cseqid'[v] => u = v
      BY <1>1, <2>1
    <2>7. \A n \in CallNumber : Somewhere(n)' => n < nextseqid_'
      BY <1>1, <2>2, <2>3, <2>4
    <2>8. ASSUME NEW u \in Thread, pc'[u] = "numbered" PROVE ~Somewhere(cseqid[u])'
      <3>1. pc[u] = "numbered" /\ ~Write(u) /\ cseqid'[u] = cseqid[u]
        BY <2>1, <2>8
      <3>2. cseqid[u] \in CallNumber
        BY <3>1, NumberType
      <3>3. PICK n \in CallNumber : n = cseqid[u]
        BY <3>2
      <3>4. ~Somewhere(n) /\ \A t \in Thread : Write(t) => n # cseqid[t]
        BY <1>1, <2>4, <3>1, <3>3
      <3>5. ~Somewhere(n)'
        BY <2>3, <3>4
      <3>6. Somewhere(cseqid[u])' => Somewhere(n)'
        BY <3>1, <3>3 DEF Somewhere, AtServer, OnItsWay, LeftOver, Held
      <3> QED BY <3>5, <3>6
    <2> QED BY <2>5, <2>6, <2>7, <2>8 DEF OwnNumbers
  <1> QED BY <1>3, <1>4

(* While the connection is up no thread gives the client up. *)
LEMMA NobodyGivesUp ==
  ASSUME TypeOK, OneReader, InACall, NoneMissing, up, NEW t \in Thread
  PROVE  ~GivesUp(t)
PROOF
  <1> SUFFICES ASSUME pc[t] = "matching", ~IsMine(t), Owner(t) = {} PROVE FALSE
    BY DEF GivesUp, NoneMissing
  <1>1. PICK h \in inHand[t] : TRUE
    BY DEF OneReader
  <1>2. h.rseqid \in CallNumber
    BY DEF TypeOK, Header, CallNumber
  <1>3. Somewhere(h.rseqid)
    BY <1>1 DEF Somewhere, Held
  <1>4. PICK u \in Thread : Receiving(u) /\ cseqid[u] = h.rseqid
    BY <1>2, <1>3 DEF NoneMissing
  <1>5. u \in monitors
    BY <1>4 DEF Receiving, Holding, InACall
  <1> QED BY <1>4, <1>5 DEF Owner

(* The answer that a thread finds to be its own was in its hand alone. *)
LEMMA MineMoves ==
  ASSUME TypeOK, OneReader, InOnePlace, NEW t \in Thread, Mine(t), NEW n \in CallNumber
  PROVE  Somewhere(n)' <=> Somewhere(n) /\ n # cseqid[t]
PROOF
  <1>1. /\ pc[t] = "matching" /\ Leave(t, TRUE) /\ UNCHANGED netVars /\ pending' = pending
        /\ TRUE \in BOOLEAN
    BY DEF Mine, Matched
  <1>2. PICK h \in inHand[t] : h.rseqid = cseqid[t]
    BY DEF Mine, IsMine
  <1>3. inHand[t] = {h}
    BY <1>2 DEF OneReader
  <1>4. Held(n) <=> n = cseqid[t]
    BY <1>1, <1>2, <1>3, HeldIs
  <1>5. /\ AtServer(n)' <=> AtServer(n)
        /\ OnItsWay(n)' <=> OnItsWay(n)
        /\ ~Held(n)'
    BY <1>1, LeaveMoves
  <1>6. ~LeftOver(n) /\ ~LeftOver(n)'
    BY <1>1 DEF OneReader, LeftOver
  <1> QED BY <1>4, <1>5, <1>6 DEF Somewhere, InOnePlace

(* While the connection is up, who waits for an answer will get one, and no *)
(* answer is for nobody.                                                    *)
LEMMA NoneMissingNext == TypeOK /\ OneReader /\ InACall /\ OwnNumbers /\ InOnePlace /\ NoneMissing /\ [Next]_vars
                           => NoneMissing'
PROOF
  <1> SUFFICES ASSUME TypeOK, OneReader, InACall, OwnNumbers, InOnePlace, NoneMissing, [Next]_vars, up'
               PROVE  NoneMissing'
    BY DEF NoneMissing
  <1>0. pc \in [Thread -> Place]
    BY DEF TypeOK
  <1>1. up
    <2>1. ASSUME NEW t \in Thread, OfThread(t) PROVE up' = up
      BY <2>1 DEF OfThread, Number, Write, WriteFails, TakesUp, GetPending, ReadMessageBegin, Mine,
                  PassesOn, GivesUp, Rests, netVars
    <2>2. ASSUME NEW c \in requests, Process(c) PROVE up' = up
      BY <2>2 DEF Process
    <2>3. ASSUME UNCHANGED vars PROVE up' = up
      BY <2>3 DEF vars, netVars
    <2> QED BY <2>1, <2>2, <2>3, Kinds DEF Disconnect
  <1>2. /\ ~stop_
        /\ \A t \in Thread : Receiving(t) => Somewhere(cseqid[t])
        /\ \A n \in CallNumber : Somewhere(n) => \E t \in Thread : Receiving(t) /\ cseqid[t] = n
    BY <1>1 DEF NoneMissing
  <1>3. \A t \in Thread : Receiving(t) => pc[t] # "idle" /\ cseqid[t] \in CallNumber
    BY NumberType DEF Receiving, Holding
  <1>4. ASSUME ~stop_',
               \A n \in CallNumber : \A t \in Thread : Receiving(t)' /\ cseqid'[t] = n => Somewhere(n)',
               \A n \in CallNumber : Somewhere(n)' => \E t \in Thread : Receiving(t)' /\ cseqid'[t] = n
        PROVE  NoneMissing'
    <2>1. \A t \in Thread : Receiving(t)' => cseqid'[t] \in CallNumber
      <3>1. TypeOK' /\ OwnNumbers'
        BY TypeNext, OwnNumbersNext
      <3>2. /\ cseqid' \in [Thread -> 0 .. MaxCalls] /\ nextseqid_' \in 0 .. MaxCalls
            /\ \A t \in Thread : pc'[t] # "idle" => cseqid'[t] < nextseqid_'
        BY <3>1 DEF TypeOK, OwnNumbers
      <3>3. \A t \in Thread : Receiving(t)' => pc'[t] # "idle"
        BY DEF Receiving, Holding
      <3> QED BY <3>2, <3>3, CallsAssumption DEF CallNumber
    <2>2. ASSUME NEW t \in Thread, Receiving(t)' PROVE Somewhere(cseqid[t])'
      <3>1. PICK n \in CallNumber : n = cseqid'[t]
        BY <2>1, <2>2
      <3>2. Somewhere(n)'
        BY <1>4, <2>2, <3>1
      <3> QED BY <3>1, <3>2 DEF Somewhere, AtServer, OnItsWay, LeftOver, Held
    <2> QED BY <1>4, <2>2 DEF NoneMissing
  <1>5. ASSUME NEW t \in Thread, OfThread(t), ~stop_', Receiving(t)' => cseqid'[t] = cseqid[t],
               Receiving(t)' <=> Receiving(t), \A n \in CallNumber : Somewhere(n)' <=> Somewhere(n)
        PROVE  NoneMissing'
    <2>1. \A u \in Thread \ {t} : /\ Receiving(u)' <=> Receiving(u)
                                  /\ cseqid'[u] = cseqid[u]
      <3> SUFFICES ASSUME NEW u \in Thread \ {t}
                   PROVE  /\ Receiving(u)' <=> Receiving(u)
                          /\ cseqid'[u] = cseqid[u]
        OBVIOUS
      <3> QED BY <1>5, OthersStay DEF Receiving, Holding
    <2> QED BY <1>2, <1>4, <1>5, <2>1
  <1>6. ASSUME NEW t \in Thread, NEW i \in Id, Number(t, i) PROVE NoneMissing'
    <2>1. /\ ~Receiving(t) /\ ~Receiving(t)' /\ stop_' = stop_
          /\ UNCHANGED <<requests, stream, pending, inHand>>
      BY <1>0, <1>6 DEF Number, Receiving, Holding, netVars
    <2>2. \A n \in CallNumber : Somewhere(n)' <=> Somewhere(n)
      BY <2>1, NothingMoves DEF Somewhere
    <2> QED BY <1>2, <1>5, <1>6, <2>1, <2>2 DEF OfThread
  <1>7. ASSUME NEW t \in Thread, Write(t) PROVE NoneMissing'
    <2>1. /\ pc[t] = "numbered" /\ ~Receiving(t) /\ Receiving(t)' /\ stop_' = stop_ /\ cseqid' = cseqid
      BY <1>0, <1>7 DEF Write, Receiving, Holding, syncVars, callVars
    <2>2. \A u \in Thread \ {t} : Receiving(u)' <=> Receiving(u)
      BY <1>0, <1>7 DEF Write, Receiving
    <2>3. \A n \in CallNumber : Somewhere(n)' <=> Somewhere(n) \/ n = cseqid[t]
      BY <1>1, <1>7, WriteMoves DEF Somewhere
    <2> QED BY <1>2, <1>4, <2>1, <2>2, <2>3
  <1>8. ASSUME NEW t \in Thread, Mine(t) PROVE NoneMissing'
    <2>1. Receiving(t) /\ ~Receiving(t)' /\ cseqid' = cseqid /\ ~stop_'
      <3>1. pc[t] = "matching" /\ Leave(t, TRUE) /\ TRUE \in BOOLEAN
        BY <1>8 DEF Mine, Matched
      <3>2. pc'[t] = "idle" /\ cseqid' = cseqid /\ ~stop_'
        BY <1>2, <3>1, Leaving DEF Leave
      <3> QED BY <3>1, <3>2 DEF Receiving, Holding
    <2>2. \A u \in Thread \ {t} : Receiving(u)' <=> Receiving(u)
      <3> SUFFICES ASSUME NEW u \in Thread \ {t} PROVE Receiving(u)' <=> Receiving(u)
        OBVIOUS
      <3> QED BY <1>8, OthersStay DEF OfThread, Receiving, Holding
    <2>3. \A n \in CallNumber : Somewhere(n)' <=> Somewhere(n) /\ n # cseqid[t]
      BY <1>8, MineMoves
    <2>4. \A u \in Thread \ {t} : Receiving(u) => cseqid[u] # cseqid[t]
      BY <1>3, <2>1 DEF OwnNumbers
    <2> QED BY <1>2, <1>4, <2>1, <2>2, <2>3, <2>4
  <1>9. ASSUME NEW t \in Thread, TakesUp(t) PROVE NoneMissing'
    <2>1. /\ cseqid' = cseqid /\ stop_' = stop_ /\ Receiving(t)
      BY <1>9 DEF TakesUp, GetPending, callVars, Receiving
    <2>2. Receiving(t)'
      <3>1. CASE pending = {}
        BY <1>0, <1>9, <3>1 DEF TakesUp, GetPending, Receiving, Holding
      <3>2. CASE pending # {}
        BY <1>0, <1>9, <3>2 DEF TakesUp, GetPending, Receiving, Holding
      <3> QED BY <3>1, <3>2
    <2>3. \A n \in CallNumber : Somewhere(n)' <=> Somewhere(n)
      BY <1>9, TakesUpMoves DEF Somewhere
    <2> QED BY <1>2, <1>5, <1>9, <2>1, <2>2, <2>3 DEF OfThread
  <1>10. ASSUME NEW t \in Thread, ReadMessageBegin(t) PROVE NoneMissing'
    <2>1. /\ cseqid' = cseqid /\ stop_' = stop_ /\ Receiving(t) /\ Receiving(t)'
      BY <1>0, <1>10 DEF ReadMessageBegin, callVars, syncVars, Receiving, Holding
    <2>2. \A n \in CallNumber : Somewhere(n)' <=> Somewhere(n)
      BY <1>10, ReadMoves DEF Somewhere
    <2> QED BY <1>2, <1>5, <1>10, <2>1, <2>2 DEF OfThread
  <1>11. ASSUME NEW t \in Thread, PassesOn(t) PROVE NoneMissing'
    <2>1. /\ cseqid' = cseqid /\ stop_' = stop_ /\ Receiving(t) /\ Receiving(t)' /\ pc[t] = "matching"
      BY <1>0, <1>11, NotifiedIs DEF PassesOn, callVars, Receiving, Holding
    <2>2. \A n \in CallNumber : Somewhere(n)' <=> Somewhere(n)
      BY <1>11, <2>1, PassesOnMoves, HeldIs DEF Somewhere
    <2> QED BY <1>2, <1>5, <1>11, <2>1, <2>2 DEF OfThread
  <1>12. ASSUME NEW t \in Thread, Rests(t) PROVE NoneMissing'
    <2>1. /\ cseqid' = cseqid /\ stop_' = stop_ /\ Receiving(t) /\ Receiving(t)'
          /\ UNCHANGED <<requests, stream, pending, inHand>>
      BY <1>0, <1>12 DEF Rests, callVars, syncVars, netVars, Receiving, Holding
    <2>2. \A n \in CallNumber : Somewhere(n)' <=> Somewhere(n)
      BY <2>1, NothingMoves DEF Somewhere
    <2> QED BY <1>2, <1>5, <1>12, <2>1, <2>2 DEF OfThread
  <1>13. ASSUME UNCHANGED <<pc, cseqid, stop_>>, \A n \in CallNumber : Somewhere(n)' <=> Somewhere(n)
         PROVE  NoneMissing'
    <2>1. \A u \in Thread : Receiving(u)' <=> Receiving(u)
      BY <1>13 DEF Receiving
    <2> QED BY <1>2, <1>4, <1>13, <2>1
  <1>14. ASSUME NEW c \in requests, Process(c) PROVE NoneMissing'
    <2>1. UNCHANGED <<pc, cseqid, stop_>>
      BY <1>14 DEF Process, callVars, syncVars
    <2>2. AtServer(c.cseqid)
      BY DEF AtServer
    <2>3. \A n \in CallNumber : Somewhere(n)' <=> Somewhere(n)
      BY <1>14, <2>2, ProcessMoves DEF Somewhere
    <2> QED BY <1>13, <2>1, <2>3
  <1>15. CASE UNCHANGED vars
    <2>1. UNCHANGED <<pc, cseqid, stop_>> /\ UNCHANGED <<requests, stream, pending, inHand>>
      BY <1>15 DEF vars, callVars, syncVars, netVars
    <2>2. \A n \in CallNumber : Somewhere(n)' <=> Somewhere(n)
      BY <2>1, NothingMoves DEF Somewhere
    <2> QED BY <1>13, <2>1, <2>2
  <1>16. ~Disconnect
    BY DEF Disconnect
  <1>17. \A t \in Thread : ~WriteFails(t) /\ ~GivesUp(t)
    BY <1>1, NobodyGivesUp DEF WriteFails
  <1> QED BY <1>6, <1>7, <1>8, <1>9, <1>10, <1>11, <1>12, <1>14, <1>15, <1>16, <1>17, Kinds DEF OfThread

-----------------------------------------------------------------------------
(* What the calls and the answers say.                                      *)

(* An answer comes from the server, for a call that is there. *)
LEMMA AroundNext ==
  ASSUME TypeOK, OneReader, [Next]_vars, NEW h \in Header, Around(h)'
  PROVE  Around(h) \/ \E c \in requests : h = AnswerHeader(c)
PROOF
  <1>0. stream \in Seq(Header) /\ inHand \in [Thread -> SUBSET Header]
    BY DEF TypeOK
  <1>1. ASSUME stream' = stream, pending' = pending \/ (\E t \in Thread : pending' \subseteq inHand[t]),
               \/ inHand' = inHand
               \/ \E t \in Thread : inHand' = [inHand EXCEPT ![t] = {}]
               \/ \E t \in Thread : inHand' = [inHand EXCEPT ![t] = pending]
        PROVE  Around(h)
    BY <1>0, <1>1 DEF Around
  <1>2. ASSUME NEW t \in Thread, (\E i \in Id : Number(t, i)) \/ Write(t) \/ WriteFails(t) \/ Rests(t)
        PROVE  Around(h)
    BY <1>1, <1>2 DEF Number, Write, WriteFails, Rests, netVars, syncVars
  <1>3. ASSUME NEW t \in Thread, TakesUp(t) PROVE Around(h)
    <2>1. stream' = stream /\ pending' = {} /\ inHand' = [inHand EXCEPT ![t] = pending]
      BY <1>3 DEF TakesUp, GetPending, netVars
    <2> QED BY <1>1, <2>1
  <1>4. ASSUME NEW t \in Thread, ReadMessageBegin(t) PROVE Around(h)
    <2>1. /\ stream # <<>> /\ stream' = Tail(stream) /\ pending' = pending
          /\ inHand' = [inHand EXCEPT ![t] = {Head(stream)}]
      BY <1>4 DEF ReadMessageBegin, syncVars
    <2>2. /\ 1 \in DOMAIN stream /\ Head(stream) = stream[1]
          /\ \A i \in DOMAIN Tail(stream) : i + 1 \in DOMAIN stream /\ Tail(stream)[i] = stream[i + 1]
      BY <1>0, <2>1, Taken
    <2>3. \A i \in DOMAIN Tail(stream) : \E j \in DOMAIN stream : Tail(stream)[i] = stream[j]
      BY <2>2
    <2> QED BY <1>0, <2>1, <2>2, <2>3 DEF Around
  <1>5. ASSUME NEW t \in Thread, PassesOn(t) PROVE Around(h)
    BY <1>1, <1>5 DEF PassesOn, netVars
  <1>6. ASSUME NEW t \in Thread, Mine(t) \/ GivesUp(t) PROVE Around(h)
    BY <1>1, <1>6 DEF Mine, Matched, GivesUp, Leave, netVars
  <1>7. ASSUME NEW c \in requests, Process(c) PROVE Around(h) \/ h = AnswerHeader(c)
    <2>1. AnswerHeader(c) \in Header
      BY AnswerType DEF AnswerHeader, Header, TypeOK
    <2>2. \A i \in DOMAIN stream' : \/ i \in DOMAIN stream /\ stream'[i] = stream[i]
                                    \/ stream'[i] = AnswerHeader(c)
      BY <1>0, <1>7, <2>1, Appended DEF Process
    <2>3. pending' = pending /\ inHand' = inHand
      BY <1>7 DEF Process, syncVars
    <2> QED BY <2>2, <2>3 DEF Around
  <1>8. ASSUME Disconnect PROVE Around(h)
    BY <1>8, EmptySeq DEF Disconnect, Around, syncVars
  <1>9. CASE UNCHANGED vars
    BY <1>1, <1>9 DEF vars, netVars, syncVars
  <1> QED BY <1>2, <1>3, <1>4, <1>5, <1>6, <1>7, <1>8, <1>9, Kinds DEF OfThread

(* A call comes from the thread that writes it, with its question. *)
LEMMA CallNext ==
  ASSUME [Next]_vars, NEW c \in requests', c \notin requests
  PROVE  \E t \in Thread : pc[t] # "idle" /\ c.cseqid = cseqid[t] /\ c.asked \in question[t]
PROOF
  <1>1. ASSUME NEW t \in Thread, Write(t)
        PROVE  pc[t] # "idle" /\ c.cseqid = cseqid[t] /\ c.asked \in question[t]
    <2>1. CASE up
      <3>1. c \in [cseqid : {cseqid[t]}, asked : question[t]]
        BY <1>1, <2>1 DEF Write
      <3> QED BY <1>1, <3>1 DEF Write
    <2>2. CASE ~up
      BY <1>1, <2>2 DEF Write
    <2> QED BY <2>1, <2>2
  <1>2. ASSUME NEW t \in Thread, OfThread(t) PROVE Write(t)
    BY <1>2 DEF OfThread, Number, WriteFails, TakesUp, GetPending, ReadMessageBegin, Mine,
                PassesOn, GivesUp, Rests, netVars
  <1>3. ASSUME NEW d \in requests, Process(d) PROVE FALSE
    BY <1>3 DEF Process
  <1>4. ASSUME Disconnect \/ UNCHANGED vars PROVE FALSE
    BY <1>4 DEF Disconnect, vars, netVars
  <1> QED BY <1>1, <1>2, <1>3, <1>4, Kinds

(* An answer with the number of a thread's call is to its question. *)
LEMMA ToThePointNext == TypeOK /\ OneReader /\ OwnNumbers /\ ToThePoint /\ [Next]_vars => ToThePoint'
PROOF
  <1> SUFFICES ASSUME TypeOK, OneReader, OwnNumbers, ToThePoint, [Next]_vars,
                      NEW t \in Thread, pc'[t] # "idle"
               PROVE  /\ \A c \in requests' : c.cseqid = cseqid'[t] => c.asked \in question'[t]
                      /\ \A h \in Header : Around(h)' /\ h.rseqid = cseqid'[t] =>
                           \E i \in question'[t] : h.answer = AnswerTo[i]
    BY DEF ToThePoint, AnswerTo
  <1>1. \A h \in Header : Around(h)' => Around(h) \/ \E c \in requests : h = AnswerHeader(c)
    BY AroundNext
  <1>2. \A c \in requests : AnswerHeader(c).rseqid = c.cseqid /\ AnswerHeader(c).answer = AnswerTo[c.asked]
    BY DEF AnswerHeader
  <1>3. CASE \E i \in Id : Number(t, i)
    <2>1. cseqid'[t] = nextseqid_ /\ nextseqid_ < MaxCalls /\ nextseqid_ \in 0 .. MaxCalls
          /\ requests' = requests /\ UNCHANGED <<stream, pending, inHand>>
      BY <1>3 DEF Number, TypeOK, netVars
    <2>2. nextseqid_ \in CallNumber /\ ~(nextseqid_ < nextseqid_)
      BY <2>1, CallsAssumption DEF CallNumber
    <2>3. ~Somewhere(nextseqid_)
      BY <2>2 DEF OwnNumbers
    <2>4. \A h \in Header : Around(h)' => h.rseqid # nextseqid_
      BY <2>1, <2>3 DEF Around, Somewhere, OnItsWay, LeftOver, Held
    <2>5. \A c \in requests : c.cseqid # nextseqid_
      BY <2>3 DEF Somewhere, AtServer
    <2> QED BY <2>1, <2>4, <2>5
  <1>4. CASE ~\E i \in Id : Number(t, i)
    <2>1. pc[t] # "idle" /\ cseqid'[t] = cseqid[t] /\ question'[t] = question[t]
      BY <1>4, NumberNext
    <2>2. /\ \A c \in requests : c.cseqid = cseqid[t] => c.asked \in question[t]
          /\ \A h \in Header : Around(h) /\ h.rseqid = cseqid[t] =>
               \E i \in question[t] : h.answer = AnswerTo[i]
      BY <2>1 DEF ToThePoint
    <2>3. \A u \in Thread : pc[u] # "idle" /\ cseqid[u] = cseqid[t] => u = t
      BY <2>1 DEF OwnNumbers
    <2>4. ASSUME NEW c \in requests', c.cseqid = cseqid[t] PROVE c.asked \in question[t]
      BY <2>2, <2>3, <2>4, CallNext
    <2>5. ASSUME NEW h \in Header, Around(h)', h.rseqid = cseqid[t]
          PROVE  \E i \in question[t] : h.answer = AnswerTo[i]
      BY <1>1, <1>2, <2>2, <2>5
    <2> QED BY <2>1, <2>4, <2>5
  <1> QED BY <1>3, <1>4

-----------------------------------------------------------------------------
(* Who goes on.                                                             *)

(* While the client is not given up somebody who need not be woken goes on. *)
LEMMA GoesOnNext ==
  ASSUME TypeOK, OneReader, InACall, OwnNumbers, Awake, [Next]_vars, ~stop_, ~stop_'
  PROVE  /\ (\E t \in Thread : Receiving(t)') => \E u \in Thread : GoesOn(u)'
         /\ \A t \in Thread : pc'[t] \in Holding => ~wakeup'
PROOF
  <1> DEFINE Somebody == (\E t \in Thread : Receiving(t)') => \E u \in Thread : GoesOn(u)'
             Taken1 == \A t \in Thread : pc'[t] \in Holding => ~wakeup'
  <1> SUFFICES Somebody /\ Taken1
    OBVIOUS
  <1>0. pc \in [Thread -> Place] /\ cseqid \in [Thread -> 0 .. MaxCalls] /\ monitors \subseteq Thread
    BY DEF TypeOK
  <1>1. /\ (\E t \in Thread : Receiving(t)) => \E u \in Thread : GoesOn(u)
        /\ \A t \in Thread : pc[t] \in Holding => ~wakeup
    BY DEF Awake
  <1>2. \A t, u \in Thread : pc[t] \in Holding /\ pc[u] \in Holding => t = u
    BY DEF OneReader
  <1>3. ASSUME NEW t \in Thread, NEW i \in Id, Number(t, i) PROVE Somebody /\ Taken1
    <2>1. /\ \A u \in Thread : Receiving(u)' <=> Receiving(u)
          /\ \A u \in Thread : pc'[u] \in Holding <=> pc[u] \in Holding
          /\ \A u \in Thread : GoesOn(u) => GoesOn(u)'
          /\ wakeup' = wakeup
      BY <1>0, <1>3 DEF Number, Receiving, Holding, GoesOn, LeftFor
    <2> QED BY <1>1, <2>1
  <1>4. ASSUME NEW t \in Thread, Write(t) PROVE Somebody /\ Taken1
    <2>1. /\ GoesOn(t)' /\ wakeup' = wakeup
          /\ \A u \in Thread : pc'[u] \in Holding <=> pc[u] \in Holding
      BY <1>0, <1>4 DEF Write, Holding, GoesOn, syncVars
    <2> QED BY <1>1, <2>1
  <1>5. ASSUME NEW t \in Thread, TakesUp(t) PROVE Somebody /\ Taken1
    <2>1. ~wakeup'
      BY <1>5 DEF TakesUp, GetPending
    <2>2. GoesOn(t)'
      <3>1. CASE pending = {}
        BY <1>0, <1>5, <3>1 DEF TakesUp, GetPending, GoesOn
      <3>2. CASE pending # {}
        BY <1>0, <1>5, <3>2 DEF TakesUp, GetPending, GoesOn
      <3> QED BY <3>1, <3>2
    <2> QED BY <2>1, <2>2
  <1>6. ASSUME NEW t \in Thread, ReadMessageBegin(t) PROVE Somebody /\ Taken1
    <2>1. /\ GoesOn(t)' /\ wakeup' = wakeup
          /\ \A u \in Thread : pc'[u] \in Holding <=> pc[u] \in Holding
      BY <1>0, <1>6 DEF ReadMessageBegin, Holding, GoesOn, syncVars
    <2> QED BY <1>1, <2>1
  <1>7. ASSUME NEW t \in Thread, PassesOn(t) PROVE Somebody /\ Taken1
    <2>1. /\ pc[t] = "matching" /\ pending' = inHand[t] /\ wakeup' = wakeup /\ cseqid' = cseqid
          /\ pc' = [Notified(Owner(t)) EXCEPT ![t] = "checked"] /\ Owner(t) # {} /\ ~IsMine(t)
      BY <1>7 DEF PassesOn, callVars
    <2>2. PICK u \in monitors : \E h \in inHand[t] : h.rseqid = cseqid[u]
      BY <2>1 DEF Owner
    <2>3. u \in Thread /\ u # t /\ u \in Owner(t) /\ pc[u] # "idle"
      BY <1>0, <2>1, <2>2 DEF Owner, IsMine, InACall
    <2>4. pc[u] # "numbered"
      BY <2>2, <2>3 DEF OwnNumbers, Somewhere, Held
    <2>5. pc[u] \notin Holding
      BY <1>2, <2>1, <2>3 DEF Holding
    <2>6. pc[u] \in {"sent", "waiting", "woken"}
      BY <1>0, <2>3, <2>4, <2>5 DEF Place
    <2>7. pc'[u] \in {"sent", "woken"}
      BY <1>0, <2>1, <2>3, <2>6, NotifiedIs
    <2>8. LeftFor(u)'
      BY <2>1, <2>2 DEF LeftFor
    <2>9. GoesOn(u)'
      BY <2>7, <2>8 DEF GoesOn
    <2>10. ~wakeup'
      BY <1>1, <2>1 DEF Holding
    <2> QED BY <2>3, <2>9, <2>10
  <1>8. ASSUME NEW t \in Thread, Rests(t) PROVE Somebody /\ Taken1
    <2>1. /\ Receiving(t) /\ wakeup' = wakeup /\ pending' = pending /\ cseqid' = cseqid
      BY <1>8 DEF Rests, Receiving, Holding, syncVars, callVars
    <2>2. ~GoesOn(t)
      BY <1>1, <1>8 DEF Rests, GoesOn, Holding
    <2>3. PICK u \in Thread : GoesOn(u)
      BY <1>1, <2>1
    <2>4. pc'[u] = pc[u]
      BY <1>0, <1>8, <2>2, <2>3 DEF Rests
    <2>5. GoesOn(u)'
      BY <2>1, <2>3, <2>4 DEF GoesOn, LeftFor
    <2>6. ASSUME NEW v \in Thread, pc'[v] \in Holding PROVE ~wakeup'
      BY <1>0, <1>1, <1>8, <2>1, <2>6 DEF Rests, Holding
    <2> QED BY <2>5, <2>6
  <1>9. ASSUME NEW t \in Thread, Mine(t) PROVE Somebody /\ Taken1
    <2> DEFINE others == monitors \ {t}
    <2>1. pc[t] = "matching" /\ Leave(t, TRUE) /\ TRUE \in BOOLEAN
      BY <1>9 DEF Mine, Matched
    <2>2. /\ pc'[t] = "idle" /\ wakeup'
          /\ \A u \in Thread \ {t} : pc'[u] = pc[u] \/ (pc[u] = "waiting" /\ pc'[u] = "woken")
          /\ \A u \in Latest(others) : pc'[u] # "waiting"
      BY <2>1, Leaving DEF Leave
    <2>3. \A u \in Thread \ {t} : pc[u] \notin Holding
      BY <1>2, <2>1 DEF Holding
    <2>4. \A u \in Thread : pc'[u] \notin Holding
      BY <2>2, <2>3 DEF Holding
    <2>5. ASSUME NEW v \in Thread, Receiving(v)' PROVE \E u \in Thread : GoesOn(u)'
      <3>1. v # t /\ pc[v] # "idle"
        BY <2>2, <2>5 DEF Receiving, Holding
      <3>2. v \in others
        BY <3>1 DEF InACall
      <3>3. PICK u \in Latest(others) : TRUE
        BY <1>0, <3>2, LatestExists
      <3>4. u \in others /\ u \in Thread \ {t} /\ pc[u] # "idle"
        BY <1>0, <3>3 DEF Latest, InACall
      <3>5. pc'[u] \in {"numbered", "sent", "woken"}
        BY <1>0, <2>2, <2>3, <3>3, <3>4 DEF Place
      <3>6. GoesOn(u)'
        BY <2>2, <3>5 DEF GoesOn
      <3> QED BY <3>4, <3>6
    <2> QED BY <2>4, <2>5
  <1>10. ASSUME UNCHANGED <<pc, wakeup, pending, cseqid>> PROVE Somebody /\ Taken1
    BY <1>1, <1>10 DEF Receiving, GoesOn, LeftFor
  <1>11. ASSUME NEW c \in requests, Process(c) PROVE Somebody /\ Taken1
    BY <1>10, <1>11 DEF Process, syncVars, callVars
  <1>12. ASSUME Disconnect \/ UNCHANGED vars PROVE Somebody /\ Taken1
    BY <1>10, <1>12 DEF Disconnect, vars, syncVars, callVars
  <1>13. \A t \in Thread : ~WriteFails(t) /\ ~GivesUp(t)
    BY DEF WriteFails, GivesUp, Leave
  <1> HIDE DEF Somebody, Taken1
  <1> QED BY <1>3, <1>4, <1>5, <1>6, <1>7, <1>8, <1>9, <1>11, <1>12, <1>13, Kinds DEF OfThread

(* Once the client is given up, who is about to wait or waits will be woken *)
(* by another one, who finds that out with the read mutex.                  *)
LEMMA WokenNext ==
  ASSUME TypeOK, OneReader, InACall, Awake, [Next]_vars, stop_',
         NEW x \in Thread, pc'[x] \in {"checked", "waiting"}
  PROVE  \E u \in Thread : pc'[u] \in {"sent", "woken"}
PROOF
  <1> DEFINE Somebody == \E u \in Thread : pc'[u] \in {"sent", "woken"}
  <1> SUFFICES Somebody
    OBVIOUS
  <1>0. pc \in [Thread -> Place] /\ monitors \subseteq Thread
    BY DEF TypeOK
  <1>1. /\ stop_ => \A t \in Thread : pc[t] \in {"checked", "waiting"} => \E u \in Thread : pc[u] \in {"sent", "woken"}
        /\ ~stop_ => /\ (\E t \in Thread : Receiving(t)) => \E u \in Thread : GoesOn(u)
                     /\ \A t \in Thread : pc[t] \in Holding => ~wakeup
    BY DEF Awake
  <1>2. \A t, u \in Thread : pc[t] \in Holding /\ pc[u] \in Holding => t = u
    BY DEF OneReader
  <1>3. ASSUME NEW t \in Thread, GivesUp(t) PROVE FALSE
    <2>1. /\ pc'[t] = "idle"
          /\ \A u \in Thread \ {t} : pc'[u] = pc[u] \/ (pc[u] = "waiting" /\ pc'[u] = "woken")
          /\ \A u \in monitors \ {t} : pc'[u] # "waiting"
      BY <1>3, Leaving DEF GivesUp
    <2>2. x # t /\ pc[x] \in {"checked", "waiting"}
      BY <2>1
    <2>3. x \in monitors
      BY <2>2 DEF InACall
    <2>4. pc[x] = "checked"
      BY <2>1, <2>2, <2>3
    <2>5. MutexFree \/ pc[t] \in Holding
      BY <1>3 DEF GivesUp, Holding
    <2> QED BY <1>2, <2>2, <2>4, <2>5 DEF MutexFree, Holding
  <1>4. ASSUME NEW t \in Thread, WriteFails(t) PROVE Somebody
    <2>1. pc[t] = "numbered" /\ pc' = [Notified(monitors) EXCEPT ![t] = "idle"]
      BY <1>4 DEF WriteFails
    <2>2. /\ pc'[t] = "idle"
          /\ \A u \in Thread \ {t} : /\ u \in monitors /\ pc[u] = "waiting" => pc'[u] = "woken"
                                     /\ ~(u \in monitors /\ pc[u] = "waiting") => pc'[u] = pc[u]
      BY <1>0, <2>1, NotifiedIs
    <2>3. x # t /\ pc[x] = "checked"
      BY <2>2 DEF InACall
    <2>4. CASE stop_
      <3>1. PICK u \in Thread : pc[u] \in {"sent", "woken"}
        BY <1>1, <2>3, <2>4
      <3> QED BY <2>1, <2>2, <3>1
    <2>5. CASE ~stop_
      <3>1. PICK u \in Thread : GoesOn(u)
        BY <1>1, <2>3, <2>5 DEF Receiving, Holding
      <3>2. ~wakeup
        BY <1>1, <2>3, <2>5 DEF Holding
      <3>3. pc[u] \notin Holding
        BY <1>2, <2>3, <3>1, <3>2 DEF GoesOn, Holding
      <3>4. pc[u] \in {"sent", "woken"}
        BY <3>1, <3>2, <3>3 DEF GoesOn, Holding
      <3> QED BY <2>1, <2>2, <3>4
    <2> QED BY <2>4, <2>5
  <1>5. ASSUME NEW t \in Thread, Mine(t), stop_ PROVE Somebody
    <2>1. pc[t] = "matching" /\ Leave(t, TRUE) /\ TRUE \in BOOLEAN
      BY <1>5 DEF Mine, Matched
    <2>2. /\ pc'[t] = "idle"
          /\ \A u \in Thread \ {t} : pc'[u] = pc[u] \/ (pc[u] = "waiting" /\ pc'[u] = "woken")
      BY <2>1, Leaving
    <2>3. pc[x] \in {"checked", "waiting"}
      BY <2>2
    <2>4. PICK u \in Thread : pc[u] \in {"sent", "woken"}
      BY <1>1, <1>5, <2>3
    <2> QED BY <2>1, <2>2, <2>4
  <1>6. ASSUME NEW t \in Thread, Write(t) \/ ReadMessageBegin(t), stop_ PROVE Somebody
    <2>1. /\ pc[t] \in {"numbered", "reading"} /\ pc'[t] \in {"sent", "matching"}
          /\ \A u \in Thread \ {t} : pc'[u] = pc[u]
      BY <1>0, <1>6 DEF Write, ReadMessageBegin
    <2>2. PICK u \in Thread : pc[u] \in {"sent", "woken"}
      BY <1>1, <1>6, <2>1
    <2> QED BY <2>1, <2>2
  <1>7. ASSUME NEW t \in Thread, Rests(t), stop_ PROVE Somebody
    <2>1. CASE pc[t] = "waiting"
      BY <1>0, <1>7, <2>1 DEF Rests
    <2>2. CASE pc[t] = "checked"
      <3>1. PICK u \in Thread : pc[u] \in {"sent", "woken"}
        BY <1>1, <1>7, <2>2
      <3> QED BY <1>0, <1>7, <2>2, <3>1 DEF Rests
    <2> QED BY <1>7, <2>1, <2>2 DEF Rests
  <1>8. ASSUME UNCHANGED pc, stop_ PROVE Somebody
    BY <1>1, <1>8
  <1>9. ASSUME NEW t \in Thread, OfThread(t) PROVE Somebody
    <2>1. ASSUME ~stop_, ~WriteFails(t), ~GivesUp(t) PROVE FALSE
      BY <1>9, <2>1 DEF OfThread, Number, Write, TakesUp, GetPending, ReadMessageBegin, Mine, Matched,
                        PassesOn, Rests, Leave, syncVars
    <2>2. stop_ => ~TakesUp(t) /\ ~PassesOn(t) /\ \A i \in Id : ~Number(t, i)
      BY DEF TakesUp, GetPending, PassesOn, Number
    <2> QED BY <1>3, <1>4, <1>5, <1>6, <1>7, <1>9, <2>1, <2>2 DEF OfThread
  <1>10. ASSUME NEW c \in requests, Process(c) PROVE Somebody
    BY <1>8, <1>10 DEF Process, syncVars
  <1>11. ASSUME Disconnect \/ UNCHANGED vars PROVE Somebody
    BY <1>8, <1>11 DEF Disconnect, vars, syncVars
  <1> QED BY <1>9, <1>10, <1>11, Kinds

(* A client that was given up stays so. *)
LEMMA GivenUpStays ==
  ASSUME [Next]_vars, stop_
  PROVE  stop_'
PROOF
  <1>1. ASSUME NEW t \in Thread, OfThread(t) PROVE stop_'
    BY <1>1 DEF OfThread, Number, Write, WriteFails, TakesUp, GetPending, ReadMessageBegin, Mine, Matched,
                PassesOn, GivesUp, Rests, Leave, syncVars
  <1>2. ASSUME NEW c \in requests, Process(c) PROVE stop_'
    BY <1>2 DEF Process, syncVars
  <1>3. ASSUME Disconnect \/ UNCHANGED vars PROVE stop_'
    BY <1>3 DEF Disconnect, vars, syncVars
  <1> QED BY <1>1, <1>2, <1>3, Kinds

(* Nobody is left to wait. *)
LEMMA AwakeNext == TypeOK /\ OneReader /\ InACall /\ OwnNumbers /\ Awake /\ [Next]_vars => Awake'
PROOF
  <1> SUFFICES ASSUME TypeOK, OneReader, InACall, OwnNumbers, Awake, [Next]_vars PROVE Awake'
    OBVIOUS
  <1>1. ASSUME ~stop_'
        PROVE  /\ (\E t \in Thread : Receiving(t)') => \E u \in Thread : GoesOn(u)'
               /\ \A t \in Thread : pc'[t] \in Holding => ~wakeup'
    BY <1>1, GivenUpStays, GoesOnNext
  <1>2. ASSUME stop_', NEW t \in Thread, pc'[t] \in {"checked", "waiting"}
        PROVE  \E u \in Thread : pc'[u] \in {"sent", "woken"}
    BY <1>2, WokenNext
  <1> QED BY <1>1, <1>2 DEF Awake

-----------------------------------------------------------------------------
(* The theorems.                                                            *)

(* The inductive invariant holds. *)
LEMMA Invariance == Spec => []Inv
PROOF
  <1>1. Inv /\ [Next]_vars => Inv'
    BY TypeNext, OneReaderNext, InACallNext, OwnNumbersNext, InOnePlaceNext, NoneMissingNext,
       ToThePointNext, AwakeNext DEF Inv
  <1> QED BY InitInv, <1>1, PTL DEF Spec

(* The state of the threads, the sync info and the connection stays within  *)
(* its types.                                                               *)
THEOREM TypeCorrect == Spec => []TypeOK
PROOF
  <1>1. Inv => TypeOK
    BY DEF Inv
  <1> QED BY Invariance, <1>1, PTL

(* What is in one place once is counted once. *)
LEMMA OneCopy ==
  ASSUME TypeOK, OneReader, InOnePlace, NEW n \in CallNumber, Somewhere(n)
  PROVE  Copies(n) = 1
PROOF
  <1> DEFINE A == {c \in requests : c.cseqid = n}
             B == {i \in DOMAIN stream : stream[i].rseqid = n}
             C == {h \in pending : h.rseqid = n}
             D == {t \in Thread : \E h \in inHand[t] : h.rseqid = n}
  <1>1. Cardinality({}) = 0 /\ \A x : Cardinality({x}) = 1
    BY FS_EmptySet, FS_Singleton
  <1>2. /\ A # {} => \E x : A = {x}
        /\ A # {} <=> AtServer(n)
    BY DEF InOnePlace, AtServer
  <1>3. /\ B # {} => \E x : B = {x}
        /\ B # {} <=> OnItsWay(n)
    BY DEF InOnePlace, OnItsWay
  <1>4. /\ C # {} => \E x : C = {x}
        /\ C # {} <=> LeftOver(n)
    BY DEF OneReader, LeftOver
  <1>5. /\ D # {} => \E x : D = {x}
        /\ D # {} <=> Held(n)
    BY DEF OneReader, Holding, Held
  <1>6. /\ Cardinality(A) = 0 \/ Cardinality(A) = 1
        /\ Cardinality(A) = 1 <=> AtServer(n)
    <2> HIDE DEF A
    <2>1. CASE A = {}
      BY <1>1, <1>2, <2>1
    <2>2. CASE A # {}
      BY <1>1, <1>2, <2>2
    <2> QED BY <2>1, <2>2
  <1>7. /\ Cardinality(B) = 0 \/ Cardinality(B) = 1
        /\ Cardinality(B) = 1 <=> OnItsWay(n)
    <2> HIDE DEF B
    <2> QED BY <1>1, <1>3
  <1>8. /\ Cardinality(C) = 0 \/ Cardinality(C) = 1
        /\ Cardinality(C) = 1 <=> LeftOver(n)
    <2> HIDE DEF C
    <2> QED BY <1>1, <1>4
  <1>9. /\ Cardinality(D) = 0 \/ Cardinality(D) = 1
        /\ Cardinality(D) = 1 <=> Held(n)
    <2> HIDE DEF D
    <2> QED BY <1>1, <1>5
  <1>10. /\ AtServer(n) \/ OnItsWay(n) \/ LeftOver(n) \/ Held(n)
         /\ AtServer(n) => ~OnItsWay(n) /\ ~LeftOver(n) /\ ~Held(n)
         /\ OnItsWay(n) => ~LeftOver(n) /\ ~Held(n)
         /\ LeftOver(n) => ~Held(n)
    BY DEF InOnePlace, Somewhere
  <1>11. Copies(n) = Cardinality(A) + Cardinality(B) + Cardinality(C) + Cardinality(D)
    BY DEF Copies
  <1> HIDE DEF A, B, C, D
  <1> QED BY <1>6, <1>7, <1>8, <1>9, <1>10, <1>11

(* While the connection is up, the answer that a thread waits for is in     *)
(* exactly one place, and every answer that is on its way or left over is   *)
(* for a thread that waits for it.                                          *)
THEOREM NoAnswerIsLost == Spec => []OneAnswerEach
PROOF
  <1>1. Inv => OneAnswerEach
    <2> SUFFICES ASSUME Inv, up PROVE OneAnswerEach
      BY DEF OneAnswerEach
    <2>1. TypeOK /\ OneReader /\ OwnNumbers /\ InOnePlace /\ NoneMissing
      BY DEF Inv
    <2>2. ASSUME NEW t \in Thread, Receiving(t) PROVE Copies(cseqid[t]) = 1
      <3>1. cseqid[t] \in CallNumber
        BY <2>1, <2>2, NumberType DEF Receiving, Holding
      <3>2. Somewhere(cseqid[t])
        BY <2>1, <2>2 DEF NoneMissing
      <3> QED BY <2>1, <3>1, <3>2, OneCopy
    <2>3. ASSUME NEW h \in pending \cup {stream[i] : i \in DOMAIN stream}
          PROVE  \E t \in Thread : Receiving(t) /\ cseqid[t] = h.rseqid
      <3>1. h \in Header
        BY <2>1, ElementOfSeq, LenProperties DEF TypeOK
      <3>2. h.rseqid \in CallNumber
        BY <3>1 DEF Header, CallNumber
      <3>3. Somewhere(h.rseqid)
        BY DEF Somewhere, LeftOver, OnItsWay
      <3> QED BY <2>1, <3>2, <3>3 DEF NoneMissing
    <2> QED BY <2>2, <2>3 DEF OneAnswerEach
  <1> QED BY Invariance, <1>1, PTL

(* While a thread waits at its monitor another one in a call does not.      *)
THEOREM SomebodyReads == Spec => []NobodyForgotten
PROOF
  <1>1. Inv => NobodyForgotten
    <2> SUFFICES ASSUME Inv, NEW t \in Thread, pc[t] = "waiting"
                 PROVE  \E u \in Thread : pc[u] \notin {"idle", "waiting"}
      BY DEF NobodyForgotten
    <2>1. Receiving(t)
      BY DEF Receiving
    <2> QED BY <2>1 DEF Inv, Awake, GoesOn
  <1> QED BY Invariance, <1>1, PTL

-----------------------------------------------------------------------------
(* The refinement of SearchCalls.                                           *)

(* A thread's answer is the answer to its question. *)
LEMMA AnsweredIsRight ==
  ASSUME Inv, NEW t \in Thread, Mine(t)
  PROVE  {h.answer : h \in inHand[t]} = {AnswerTo[i] : i \in question[t]}
PROOF
  <1>1. TypeOK /\ OneReader /\ InACall /\ ToThePoint
    BY DEF Inv
  <1>2. PICK h \in inHand[t] : h.rseqid = cseqid[t]
    BY DEF Mine, IsMine
  <1>3. inHand[t] = {h} /\ h \in Header /\ Around(h)
    BY <1>1, <1>2 DEF OneReader, TypeOK, Around
  <1>4. PICK i \in Id : question[t] = {i}
    BY <1>1 DEF InACall, Mine
  <1>5. \E j \in question[t] : h.answer = AnswerTo[j]
    BY <1>1, <1>2, <1>3 DEF ToThePoint, Mine
  <1>6. h.answer = AnswerTo[i]
    BY <1>4, <1>5
  <1> QED BY <1>3, <1>4, <1>6

(* Every step is a call, an answer or a failure of SearchCalls, the loss of *)
(* the connection, or nothing that can be seen there.                       *)
LEMMA RefinesNext == Inv /\ [Next]_vars => [Calls!Next]_(Calls!vars)
PROOF
  <1> SUFFICES ASSUME Inv, [Next]_vars PROVE [Calls!Next]_(Calls!vars)
    OBVIOUS
  <1>0. /\ TypeOK /\ OneReader /\ InACall /\ NoneMissing
        /\ question \in [Thread -> SUBSET Id] /\ result \in [Thread -> SUBSET Answer]
    BY DEF Inv, TypeOK
  <1>1. ASSUME UNCHANGED <<question, result, up>> PROVE [Calls!Next]_(Calls!vars)
    BY <1>1 DEF Calls!vars
  <1>2. ASSUME NEW t \in Thread, NEW i \in Id, Number(t, i) PROVE Calls!Next
    <2>1. question[t] = {}
      BY <1>0, <1>2 DEF Number, InACall
    <2>2. Calls!Ask(t, i)
      BY <1>2, <2>1 DEF Number, Calls!Ask, netVars
    <2> QED BY <2>2 DEF Calls!Next
  <1>3. ASSUME NEW t \in Thread, Mine(t) PROVE Calls!Next
    <2>1. question[t] # {}
      BY <1>0, <1>3 DEF Mine, InACall
    <2>2. Calls!Answered(t)
      BY <1>3, <2>1, AnsweredIsRight DEF Mine, Matched, Leave, Calls!Answered, netVars
    <2> QED BY <2>2 DEF Calls!Next
  <1>4. ASSUME NEW t \in Thread, GivesUp(t) PROVE Calls!Next
    <2>1. question[t] # {} /\ ~up
      BY <1>0, <1>4, NobodyGivesUp DEF GivesUp, InACall
    <2>2. Calls!Failed(t)
      BY <1>4, <2>1 DEF GivesUp, Leave, Calls!Failed, netVars
    <2> QED BY <2>2 DEF Calls!Next
  <1>5. ASSUME NEW t \in Thread, WriteFails(t) PROVE Calls!Next
    <2>1. question[t] # {}
      BY <1>0, <1>5 DEF WriteFails, InACall
    <2>2. Calls!Failed(t)
      BY <1>5, <2>1 DEF WriteFails, Calls!Failed, netVars
    <2> QED BY <2>2 DEF Calls!Next
  <1>6. ASSUME NEW t \in Thread,
               Write(t) \/ TakesUp(t) \/ ReadMessageBegin(t) \/ PassesOn(t) \/ Rests(t)
        PROVE  UNCHANGED <<question, result, up>>
    BY <1>6 DEF Write, TakesUp, GetPending, ReadMessageBegin, PassesOn, Rests, callVars, netVars
  <1>7. ASSUME NEW c \in requests, Process(c) PROVE UNCHANGED <<question, result, up>>
    BY <1>7 DEF Process, callVars
  <1>8. ASSUME Disconnect PROVE Calls!Next
    BY <1>8 DEF Disconnect, Calls!Next, Calls!Lose, callVars
  <1>9. ASSUME UNCHANGED vars PROVE UNCHANGED <<question, result, up>>
    BY <1>9 DEF vars, callVars, netVars
  <1> QED BY <1>1, <1>2, <1>3, <1>4, <1>5, <1>6, <1>7, <1>8, <1>9, Kinds DEF OfThread

(* Each thread gets the answer to its own question, whoever reads it, and a *)
(* call fails only if the connection was lost.                              *)
THEOREM Refinement == Spec => CallsAreAnswered
PROOF
  <1>1. Init => Calls!Init
    BY DEF Init, Calls!Init
  <1>2. Inv /\ [Next]_vars => [Calls!Next]_(Calls!vars)
    BY RefinesNext
  <1> QED BY <1>1, <1>2, Invariance, PTL DEF Spec, CallsAreAnswered, Calls!Spec
=============================================================================
