------------------------ MODULE SearchProgramsProofs ------------------------
(* Theorems about SearchPrograms, for any number of programs, any backlog   *)
(* and whatever is asked for.                                               *)
EXTENDS SearchPrograms, SequenceTheorems, TLAPS

(* Who has not called has nothing on its way and was not handled; who has   *)
(* not opened has no connection.                                            *)
NotYet ==
  \A p \in Program :
    /\ pc[p] = "start" => ~ServerEnd(p)
    /\ pc[p] \in {"start", "open"} => p \notin calls /\ handled[p] = 0

(* A call is handled once, and then it is no longer on its way. *)
HandledOnce ==
  \A p \in Program :
    /\ p \in calls => handled[p] = 0
    /\ server = "answering" /\ p \in serving => handled[p] = 1

(* An answer is the verdict on a call that was handled. *)
AnswersRight ==
  \A a \in answers : a.mtype = Verdict(a.to) /\ handled[a.to] = 1

(* The server lets go of the connection of a program that is still in its   *)
(* call only when it is killed.                                             *)
Excused ==
  \A p \in Program :
    pc[p] \in {"open", "called"} => ServerEnd(p) \/ p \in excused

(* The inductive invariant; that a call is handled at most once is part of  *)
(* OutcomeHasCause.                                                         *)
Inv ==
  /\ TypeOK
  /\ NotYet
  /\ HandledOnce
  /\ AnswersRight
  /\ Excused
  /\ OutcomeHasCause

-----------------------------------------------------------------------------
(* Operators.                                                               *)

(* The handler refuses an id exactly below 1000. *)
LEMMA VerdictIs ==
  ASSUME NEW p \in Program
  PROVE  /\ Verdict(p) \in {"T_REPLY", "T_EXCEPTION"}
         /\ Verdict(p) = "T_EXCEPTION" => Id[p] < 1000
         /\ Verdict(p) = "T_REPLY" => Id[p] >= 1000
PROOF
  <1>1. Id[p] \in Int
    BY IdAssumption
  <1>2. CASE Id[p] < 1000
    BY <1>2 DEF Verdict
  <1>3. CASE ~(Id[p] < 1000)
    <2>1. Id[p] >= 1000
      BY <1>1, <1>3
    <2> QED BY <1>3, <2>1 DEF Verdict
  <1> QED BY <1>2, <1>3

(* A connection that is made is the last of the backlog. *)
LEMMA Appended ==
  ASSUME NEW q \in Seq(Program), IsInjective(q), NEW p \in Program, p \notin ToSet(q)
  PROVE  /\ Append(q, p) \in Seq(Program) /\ Len(Append(q, p)) = Len(q) + 1
         /\ IsInjective(Append(q, p))
         /\ ToSet(Append(q, p)) = ToSet(q) \cup {p}
PROOF
  <1>1. /\ Append(q, p) \in Seq(Program) /\ Len(Append(q, p)) = Len(q) + 1
        /\ \A i \in 1 .. Len(q) : Append(q, p)[i] = q[i]
        /\ Append(q, p)[Len(q) + 1] = p
        /\ Len(q) \in Nat
    BY AppendProperties, LenProperties
  <1>2. DOMAIN q = 1 .. Len(q) /\ DOMAIN Append(q, p) = 1 .. Len(q) + 1
    BY <1>1, LenProperties
  <1> QED BY <1>1, <1>2 DEF IsInjective, ToSet

(* The connection that is accepted is no longer in the backlog. *)
LEMMA Accepted ==
  ASSUME NEW q \in Seq(Program), IsInjective(q), q # <<>>
  PROVE  /\ Head(q) \in Program /\ Tail(q) \in Seq(Program)
         /\ Len(Tail(q)) = Len(q) - 1
         /\ IsInjective(Tail(q))
         /\ ToSet(Tail(q)) = ToSet(q) \ {Head(q)}
         /\ Head(q) \in ToSet(q)
PROOF
  <1>1. /\ Head(q) \in Program /\ Tail(q) \in Seq(Program)
        /\ Len(Tail(q)) = Len(q) - 1
        /\ \A i \in 1 .. Len(Tail(q)) : Tail(q)[i] = q[i + 1]
        /\ Head(q) = q[1]
        /\ Len(q) \in Nat \ {0}
    BY HeadTailProperties, LenProperties, EmptySeq
  <1>2. DOMAIN q = 1 .. Len(q) /\ DOMAIN Tail(q) = 1 .. Len(q) - 1
    BY <1>1, LenProperties
  <1> DEFINE n == Len(q) h == Head(q) r == Tail(q)
  <1>3. IsInjective(Tail(q))
    BY <1>1, <1>2 DEF IsInjective
  <1>4. \A i \in 1 .. n : i = 1 \/ (i - 1 \in 1 .. n - 1 /\ r[i - 1] = q[i])
    BY <1>1, <1>2
  <1>5. \A i \in 1 .. n - 1 : i + 1 \in 1 .. n /\ i + 1 # 1 /\ r[i] = q[i + 1]
    BY <1>1, <1>2
  <1>6. 1 \in 1 .. n
    BY <1>1
  <1>7. ToSet(r) \subseteq ToSet(q) \ {h}
    BY <1>1, <1>2, <1>5, <1>6 DEF IsInjective, ToSet
  <1>8. ToSet(q) \ {h} \subseteq ToSet(r)
    <2> SUFFICES ASSUME NEW i \in 1 .. n, q[i] # h PROVE q[i] \in ToSet(r)
      BY <1>2 DEF ToSet
    <2>1. i - 1 \in 1 .. n - 1 /\ r[i - 1] = q[i]
      BY <1>1, <1>4
    <2> QED BY <1>2, <2>1 DEF ToSet
  <1>9. h \in ToSet(q)
    BY <1>1, <1>2, <1>6 DEF ToSet
  <1> QED BY <1>1, <1>3, <1>7, <1>8, <1>9

-----------------------------------------------------------------------------
(* The steps.                                                               *)

(* Nothing has happened yet. *)
LEMMA InitInv == Init => Inv
PROOF
  <1> SUFFICES ASSUME Init PROVE Inv
    OBVIOUS
  <1>1. ToSet(<<>>) = {} /\ IsInjective(<<>>) /\ <<>> \in Seq(Program) /\ Len(<<>>) = 0
    BY EmptySeq DEF ToSet, IsInjective
  <1>3. TypeOK
    BY <1>1, BacklogAssumption DEF Init, TypeOK, Place
  <1>4. NotYet
    BY <1>1 DEF Init, NotYet, ServerEnd
  <1>5. HandledOnce /\ AnswersRight /\ Excused
    BY DEF Init, HandledOnce, AnswersRight, Excused
  <1>6. OutcomeHasCause
    BY DEF Init, OutcomeHasCause
  <1> QED BY <1>3, <1>4, <1>5, <1>6 DEF Inv

(* The types are kept: a connection is never in the backlog twice, nor both *)
(* there and served, as a program opens one and only at its start.          *)
LEMMA TypeNext == TypeOK /\ NotYet /\ [Next]_vars => TypeOK'
PROOF
  <1> SUFFICES ASSUME TypeOK, NotYet, [Next]_vars PROVE TypeOK'
    OBVIOUS
  <1> USE DEF TypeOK
  <1>1. ASSUME NEW p \in Program, Open(p) PROVE TypeOK'
    <2>1. p \notin ToSet(backlog) /\ p \notin serving
      BY <1>1 DEF Open, NotYet, ServerEnd
    <2>2. /\ backlog' \in Seq(Program) /\ IsInjective(backlog')
          /\ Len(backlog') = Len(backlog) + 1
          /\ ToSet(backlog') = ToSet(backlog) \cup {p}
      BY <1>1, <2>1, Appended DEF Open
    <2>3. Len(backlog') <= Backlog
      BY <1>1, <2>2, BacklogAssumption, LenProperties DEF Open
    <2> QED BY <1>1, <2>1, <2>2, <2>3 DEF Open, Place
  <1>2. ASSUME NEW p \in Program, OpenFails(p) PROVE TypeOK'
    BY <1>2 DEF OpenFails, Catch, Place, serverVars
  <1>3. ASSUME NEW p \in Program, Call(p) PROVE TypeOK'
    BY <1>3 DEF Call, Place, serverVars
  <1>4. ASSUME NEW p \in Program, Returns(p) PROVE TypeOK'
    BY <1>4 DEF Returns, Catch, Place, serverVars
  <1>5. ASSUME NEW p \in Program, CallFails(p) PROVE TypeOK'
    BY <1>5 DEF CallFails, Catch, Place, serverVars
  <1>6. ASSUME NEW p \in Program, Close(p) PROVE TypeOK'
    BY <1>6 DEF Close, Place, serverVars
  <1>7. ASSUME NEW p \in Program, Gone(p) PROVE TypeOK'
    BY <1>7 DEF Gone, Place, serverVars
  <1>8. ASSUME Accept PROVE TypeOK'
    <2>1. /\ Head(backlog) \in Program /\ backlog' \in Seq(Program)
          /\ Len(backlog') = Len(backlog) - 1
          /\ IsInjective(backlog')
          /\ ToSet(backlog') = ToSet(backlog) \ {Head(backlog)}
      BY <1>8, Accepted DEF Accept
    <2>2. Len(backlog') <= Backlog
      BY <2>1, BacklogAssumption, LenProperties
    <2>3. serving' = {Head(backlog)}
      BY <1>8 DEF Accept
    <2> QED BY <1>8, <2>1, <2>2, <2>3 DEF Accept, programVars
  <1>9. ASSUME NEW p \in Program, Handle(p) PROVE TypeOK'
    BY <1>9 DEF Handle, programVars
  <1>10. ASSUME NEW p \in Program, AnswerCall(p) PROVE TypeOK'
    <2>1. Written(p) \subseteq Answer
      BY VerdictIs DEF Written, Answer
    <2>2. CASE ProgramEnd(p)
      BY <1>10, <2>1, <2>2 DEF AnswerCall, programVars
    <2>3. CASE ~ProgramEnd(p)
      BY <1>10, <2>3 DEF AnswerCall, Dispose, programVars
    <2> QED BY <2>2, <2>3
  <1>11. ASSUME NEW p \in Program, EndOfFile(p) PROVE TypeOK'
    BY <1>11 DEF EndOfFile, Dispose, programVars
  <1>12. ASSUME Listen PROVE TypeOK'
    BY <1>12 DEF Listen, programVars
  <1>13. ASSUME ServerKilled PROVE TypeOK'
    <2>1. ToSet(<<>>) = {} /\ IsInjective(<<>>) /\ <<>> \in Seq(Program) /\ Len(<<>>) = 0
      BY EmptySeq DEF ToSet, IsInjective
    <2> QED BY <1>13, <2>1, BacklogAssumption DEF ServerKilled, programVars
  <1>14. CASE UNCHANGED vars
    BY <1>14 DEF vars, programVars, serverVars
  <1> QED BY <1>1, <1>2, <1>3, <1>4, <1>5, <1>6, <1>7, <1>8, <1>9, <1>10, <1>11, <1>12, <1>13, <1>14
          DEF Next, Main, Serve, End, Killed

(* What a step may do to the server's end of a program's connection: it is  *)
(* made when the program opens it, and goes once the program is not in its  *)
(* call, or when the server is killed.                                      *)
LEMMA ServerEndNext ==
  ASSUME TypeOK, NotYet, [Next]_vars, NEW p \in Program
  PROVE  /\ ServerEnd(p)' => ServerEnd(p) \/ Open(p)
         /\ ServerEnd(p) => ServerEnd(p)' \/ ~ProgramEnd(p) \/ p \in excused'
PROOF
  <1> DEFINE Kept == /\ ServerEnd(p)' => ServerEnd(p) \/ Open(p)
                     /\ ServerEnd(p) => ServerEnd(p)' \/ ~ProgramEnd(p) \/ p \in excused'
  <1> SUFFICES Kept
    OBVIOUS
  <1>1. CASE UNCHANGED <<backlog, serving>>
    BY <1>1 DEF ServerEnd
  <1>2. ASSUME NEW q \in Program, Open(q) PROVE Kept
    <2>1. q \notin ToSet(backlog)
      BY <1>2 DEF Open, NotYet, ServerEnd
    <2>2. ToSet(backlog') = ToSet(backlog) \cup {q} /\ serving' = serving
      BY <1>2, <2>1, Appended DEF Open, TypeOK
    <2> QED BY <1>2, <2>2 DEF ServerEnd
  <1>3. ASSUME Accept PROVE Kept
    <2>1. ToSet(backlog') = ToSet(backlog) \ {Head(backlog)} /\ Head(backlog) \in ToSet(backlog)
      BY <1>3, Accepted DEF Accept, TypeOK
    <2>2. serving' = {Head(backlog)} /\ serving = {}
      BY <1>3 DEF Accept, TypeOK
    <2> QED BY <2>1, <2>2 DEF ServerEnd
  <1>4. ASSUME NEW q \in Program, q \in serving, ~ProgramEnd(q),
               serving' = {}, backlog' = backlog
        PROVE  Kept
    BY <1>4 DEF ServerEnd, TypeOK
  <1>5. ASSUME ServerKilled PROVE Kept
    <2>1. ToSet(backlog') = {} /\ serving' = {}
      BY <1>5 DEF ServerKilled, ToSet
    <2> QED BY <1>5, <2>1 DEF ServerKilled, ServerEnd
  <1>6. ASSUME NEW q \in Program, AnswerCall(q) \/ EndOfFile(q) PROVE Kept
    BY <1>1, <1>4, <1>6 DEF AnswerCall, EndOfFile, Dispose
  <1>7. ASSUME NEW q \in Program,
               OpenFails(q) \/ Call(q) \/ Returns(q) \/ CallFails(q) \/ Close(q) \/ Gone(q) \/ Handle(q)
        PROVE  UNCHANGED <<backlog, serving>>
    BY <1>7 DEF OpenFails, Call, Returns, CallFails, Close, Gone, Handle, serverVars
  <1>8. ASSUME Listen \/ UNCHANGED vars PROVE UNCHANGED <<backlog, serving>>
    BY <1>8 DEF Listen, vars, serverVars
  <1> QED
    BY <1>1, <1>2, <1>3, <1>5, <1>6, <1>7, <1>8 DEF Next, Main, Serve, End, Killed

(* What a step may do to a program's call: a program begins once, calls     *)
(* after it has opened, and is handled when its call arrives.               *)
LEMMA CallNext ==
  ASSUME TypeOK, [Next]_vars, NEW p \in Program
  PROVE  /\ pc'[p] = "start" => pc[p] = "start"
         /\ pc'[p] = "open" => pc[p] = "open" \/ Open(p)
         /\ pc'[p] = "called" => pc[p] = "called" \/ Call(p)
         /\ p \in calls' => p \in calls \/ Call(p)
         /\ handled'[p] = handled[p] \/ Handle(p)
PROOF
  <1> DEFINE Goes == /\ pc'[p] = "start" => pc[p] = "start"
                     /\ pc'[p] = "open" => pc[p] = "open" \/ Open(p)
                     /\ pc'[p] = "called" => pc[p] = "called" \/ Call(p)
                     /\ p \in calls' => p \in calls \/ Call(p)
                     /\ handled'[p] = handled[p] \/ Handle(p)
  <1> SUFFICES Goes
    OBVIOUS
  <1> USE DEF TypeOK, Place
  <1>1. ASSUME NEW q \in Program, Open(q) PROVE Goes
    BY <1>1 DEF Open
  <1>2. ASSUME NEW q \in Program, OpenFails(q) PROVE Goes
    BY <1>2 DEF OpenFails, Catch, serverVars
  <1>3. ASSUME NEW q \in Program, Call(q) PROVE Goes
    BY <1>3 DEF Call, serverVars
  <1>4. ASSUME NEW q \in Program, Returns(q) PROVE Goes
    BY <1>4 DEF Returns, Catch, serverVars
  <1>5. ASSUME NEW q \in Program, CallFails(q) PROVE Goes
    BY <1>5 DEF CallFails, Catch, serverVars
  <1>6. ASSUME NEW q \in Program, Close(q) PROVE Goes
    BY <1>6 DEF Close, serverVars
  <1>7. ASSUME NEW q \in Program, Gone(q) PROVE Goes
    BY <1>7 DEF Gone, serverVars
  <1>8. ASSUME NEW q \in Program, Handle(q) PROVE Goes
    BY <1>8 DEF Handle, programVars
  <1>9. ASSUME NEW q \in Program, AnswerCall(q) \/ EndOfFile(q) PROVE Goes
    BY <1>9 DEF AnswerCall, EndOfFile, programVars
  <1>10. ASSUME Accept \/ Listen \/ ServerKilled PROVE Goes
    BY <1>10 DEF Accept, Listen, ServerKilled, programVars
  <1>11. CASE UNCHANGED vars
    BY <1>11 DEF vars, programVars, serverVars
  <1> HIDE DEF Goes, TypeOK
  <1> QED BY <1>1, <1>2, <1>3, <1>4, <1>5, <1>6, <1>7, <1>8, <1>9, <1>10, <1>11
          DEF Next, Main, Serve, End, Killed

(* A program begins once, and what it has on its way comes after. *)
LEMMA NotYetNext == TypeOK /\ NotYet /\ [Next]_vars => NotYet'
PROOF
  <1> SUFFICES ASSUME TypeOK, NotYet, [Next]_vars, NEW p \in Program
               PROVE  /\ pc'[p] = "start" => ~ServerEnd(p)'
                      /\ pc'[p] \in {"start", "open"} => p \notin calls' /\ handled'[p] = 0
    BY DEF NotYet
  <1>1. Open(p) => pc'[p] = "open" /\ pc[p] = "start"
    BY DEF Open, TypeOK
  <1>2. Call(p) => pc'[p] = "called"
    BY DEF Call, TypeOK
  <1>3. Handle(p) => p \in calls
    BY DEF Handle
  <1>4. pc'[p] = "start" => ~ServerEnd(p)'
    BY <1>1, CallNext, ServerEndNext DEF NotYet
  <1>5. pc'[p] \in {"start", "open"} => p \notin calls' /\ handled'[p] = 0
    BY <1>1, <1>2, <1>3, CallNext DEF NotYet
  <1> QED BY <1>4, <1>5

(* A program is in its call only with the server's end of its connection,   *)
(* or excused.                                                              *)
LEMMA ExcusedNext == TypeOK /\ NotYet /\ Excused /\ [Next]_vars => Excused'
PROOF
  <1> SUFFICES ASSUME TypeOK, NotYet, Excused, [Next]_vars, NEW p \in Program,
                      pc'[p] \in {"open", "called"}
               PROVE  ServerEnd(p)' \/ p \in excused'
    BY DEF Excused
  <1>1. CASE Open(p)
    <2>1. p \notin ToSet(backlog)
      BY <1>1 DEF Open, NotYet, ServerEnd
    <2>2. p \in ToSet(backlog')
      BY <1>1, <2>1, Appended DEF Open, TypeOK
    <2> QED BY <2>2 DEF ServerEnd
  <1>2. CASE ~Open(p)
    <2>1. pc[p] \in {"open", "called"}
      BY <1>2, CallNext DEF Call
    <2>2. ProgramEnd(p)
      BY <2>1 DEF ProgramEnd
    <2>3. excused \subseteq excused'
      BY DEF Next, Main, Killed, End, Serve, Open, OpenFails, Call, Returns, CallFails, Close, Gone,
             Accept, Handle, AnswerCall, EndOfFile, Listen, ServerKilled, vars
    <2> QED BY <2>1, <2>2, <2>3, ServerEndNext DEF Excused
  <1> QED BY <1>1, <1>2

(* A call is handled once: it is gone when it is, and a program makes one. *)
LEMMA HandledNext == TypeOK /\ NotYet /\ HandledOnce /\ [Next]_vars => HandledOnce'
PROOF
  <1> SUFFICES ASSUME TypeOK, NotYet, HandledOnce, [Next]_vars, NEW p \in Program
               PROVE  /\ p \in calls' => handled'[p] = 0
                      /\ server' = "answering" /\ p \in serving' => handled'[p] = 1
    BY DEF HandledOnce
  <1>1. Call(p) => handled'[p] = 0
    BY DEF Call, NotYet, serverVars
  <1>2. Handle(p) => p \notin calls' /\ handled[p] = 0 /\ handled'[p] = 1
    BY DEF Handle, HandledOnce, TypeOK
  <1>3. p \in calls' => handled'[p] = 0
    BY <1>1, <1>2, CallNext DEF HandledOnce
  <1>4. ASSUME server' = "answering", p \in serving' PROVE Handle(p) \/ (server = "answering" /\ p \in serving)
    <2>1. ASSUME NEW q \in Program, Handle(q) PROVE Handle(p)
      BY <1>4, <2>1 DEF Handle, TypeOK
    <2>2. ASSUME NEW q \in Program, AnswerCall(q) \/ EndOfFile(q) PROVE FALSE
      BY <1>4, <2>2 DEF AnswerCall, EndOfFile, Dispose
    <2>3. ~(Accept \/ Listen \/ ServerKilled)
      BY <1>4 DEF Accept, Listen, ServerKilled
    <2>4. ASSUME NEW q \in Program,
                 Open(q) \/ OpenFails(q) \/ Call(q) \/ Returns(q) \/ CallFails(q) \/ Close(q) \/ Gone(q)
          PROVE  UNCHANGED <<server, serving>>
      BY <2>4 DEF Open, OpenFails, Call, Returns, CallFails, Close, Gone, serverVars
    <2>5. CASE UNCHANGED vars
      BY <1>4, <2>5 DEF vars, serverVars
    <2> QED BY <1>4, <2>1, <2>2, <2>3, <2>4, <2>5 DEF Next, Main, Serve, End, Killed
  <1>5. handled[p] = 1 => ~Handle(p)
    BY <1>2
  <1> QED BY <1>2, <1>3, <1>4, <1>5, CallNext DEF HandledOnce

(* What was handled once stays so. *)
LEMMA HandledStays ==
  ASSUME TypeOK, HandledOnce, [Next]_vars, NEW p \in Program, handled[p] = 1
  PROVE  handled'[p] = 1
PROOF
  <1>1. ~Handle(p)
    BY DEF Handle, HandledOnce
  <1> QED BY <1>1, CallNext

(* An answer is written for a call that was handled. *)
LEMMA AnswersNext == TypeOK /\ HandledOnce /\ AnswersRight /\ [Next]_vars => AnswersRight'
PROOF
  <1> SUFFICES ASSUME TypeOK, HandledOnce, AnswersRight, [Next]_vars, NEW a \in answers'
               PROVE  a.mtype = Verdict(a.to) /\ handled'[a.to] = 1
    BY DEF AnswersRight, Verdict
  <1>1. ASSUME a \in answers PROVE a.mtype = Verdict(a.to) /\ handled'[a.to] = 1
    <2>1. a.to \in Program /\ a.mtype = Verdict(a.to) /\ handled[a.to] = 1
      BY <1>1 DEF AnswersRight, TypeOK, Answer
    <2> QED BY <2>1, HandledStays
  <1>2. ASSUME NEW p \in Program, AnswerCall(p), a \notin answers
        PROVE  a.mtype = Verdict(a.to) /\ handled'[a.to] = 1
    <2>1. a \in Written(p)
      BY <1>2 DEF AnswerCall
    <2>2. a.to = p /\ a.mtype = Verdict(p)
      BY <2>1 DEF Written
    <2>3. handled[p] = 1
      BY <1>2 DEF AnswerCall, HandledOnce
    <2> QED BY <2>2, <2>3, HandledStays
  <1>3. ASSUME NEW p \in Program,
               \/ Open(p) \/ OpenFails(p) \/ Call(p) \/ Returns(p) \/ CallFails(p)
               \/ Close(p) \/ Gone(p) \/ Handle(p) \/ EndOfFile(p)
        PROVE  a \in answers
    BY <1>3 DEF Open, OpenFails, Call, Returns, CallFails, Close, Gone, Handle, EndOfFile
  <1>4. ASSUME Accept \/ Listen \/ ServerKilled \/ UNCHANGED vars PROVE a \in answers
    BY <1>4 DEF Accept, Listen, ServerKilled, vars
  <1> QED BY <1>1, <1>2, <1>3, <1>4 DEF Next, Main, Serve, End, Killed

(* What a program prints comes from its own call. *)
LEMMA OutcomeNext == Inv /\ [Next]_vars => OutcomeHasCause'
PROOF
  <1> SUFFICES ASSUME Inv, [Next]_vars, NEW p \in Program
               PROVE  /\ handled'[p] <= 1
                      /\ printed'[p] = "result" => Id[p] >= 1000 /\ handled'[p] = 1
                      /\ printed'[p] = "refused" => Id[p] < 1000 /\ handled'[p] = 1
                      /\ printed'[p] = "lost" => p \in excused'
    BY DEF OutcomeHasCause
  <1>1. TypeOK /\ HandledOnce /\ AnswersRight /\ Excused /\ OutcomeHasCause
    BY DEF Inv
  <1>2. handled'[p] <= 1
    <2>1. Handle(p) => handled'[p] = 1
      BY <1>1 DEF Handle, HandledOnce, TypeOK
    <2> QED BY <1>1, <2>1, CallNext DEF OutcomeHasCause
  <1>3. excused \subseteq excused'
    BY DEF Next, Main, Killed, End, Serve, Open, OpenFails, Call, Returns, CallFails, Close, Gone,
           Accept, Handle, AnswerCall, EndOfFile, Listen, ServerKilled, vars
  <1>4. CASE printed'[p] = printed[p]
    BY <1>1, <1>2, <1>3, <1>4, HandledStays DEF OutcomeHasCause
  <1>5. CASE Returns(p)
    <2>1. PICK a \in answers : /\ a.to = p
                               /\ IF a.mtype = "T_EXCEPTION" THEN Catch(p, "refused")
                                  ELSE printed' = [printed EXCEPT ![p] = "result"]
      BY <1>5 DEF Returns
    <2>2. a.mtype = Verdict(p) /\ handled[p] = 1
      BY <1>1, <2>1 DEF AnswersRight
    <2>3. handled'[p] = 1
      BY <1>1, <2>2, HandledStays
    <2>4. CASE a.mtype = "T_EXCEPTION"
      <3>1. printed'[p] = "refused"
        BY <1>1, <2>1, <2>4 DEF Catch, TypeOK
      <3>2. Id[p] < 1000
        BY <2>2, <2>4, VerdictIs, ZenonT(30)
      <3> QED BY <1>2, <2>3, <3>1, <3>2
    <2>5. CASE a.mtype = "T_REPLY"
      <3>1. printed'[p] = "result"
        BY <1>1, <2>1, <2>5 DEF TypeOK
      <3>2. Id[p] >= 1000
        BY <2>2, <2>5, VerdictIs, ZenonT(30)
      <3> QED BY <1>2, <2>3, <3>1, <3>2
    <2> QED BY <2>2, <2>4, <2>5, VerdictIs
  <1>6. CASE OpenFails(p) \/ CallFails(p)
    <2>1. printed'[p] = "lost"
      BY <1>1, <1>6 DEF OpenFails, CallFails, Catch, TypeOK
    <2>2. p \in excused'
      BY <1>1, <1>6 DEF OpenFails, CallFails, Excused
    <2> QED BY <1>2, <2>1, <2>2
  <1>7. \/ printed'[p] = printed[p] \/ Returns(p) \/ OpenFails(p) \/ CallFails(p)
    <2>1. ASSUME NEW q \in Program, q # p, Returns(q) \/ OpenFails(q) \/ CallFails(q)
          PROVE  printed'[p] = printed[p]
      BY <1>1, <2>1 DEF Returns, OpenFails, CallFails, Catch, TypeOK
    <2>2. ASSUME NEW q \in Program,
                 \/ Open(q) \/ Call(q) \/ Close(q) \/ Gone(q)
                 \/ Handle(q) \/ AnswerCall(q) \/ EndOfFile(q)
          PROVE  printed'[p] = printed[p]
      BY <2>2 DEF Open, Call, Close, Gone, Handle, AnswerCall, EndOfFile, programVars
    <2>3. ASSUME Accept \/ Listen \/ ServerKilled \/ UNCHANGED vars PROVE printed'[p] = printed[p]
      BY <2>3 DEF Accept, Listen, ServerKilled, vars, programVars
    <2> QED BY <2>1, <2>2, <2>3 DEF Next, Main, Serve, End, Killed
  <1> QED BY <1>4, <1>5, <1>6, <1>7

-----------------------------------------------------------------------------
(* The theorems.                                                            *)

(* The inductive invariant holds. *)
LEMMA Invariance == Spec => []Inv
PROOF
  <1>1. Inv /\ [Next]_vars => Inv'
    BY TypeNext, NotYetNext, HandledNext, AnswersNext, ExcusedNext, OutcomeNext DEF Inv
  <1> QED BY InitInv, <1>1, PTL DEF Spec

(* The state of the programs, the server and their connections stays within *)
(* its types; that no connection is in the backlog twice, or there and      *)
(* served, is part of it.                                                   *)
THEOREM TypeCorrect == Spec => []TypeOK
PROOF
  <1>1. Inv => TypeOK
    BY DEF Inv
  <1> QED BY Invariance, <1>1, PTL

(* A program prints the result or the refusal of its own call, which was    *)
(* handled once, and another error only if the server was not there or was  *)
(* killed.                                                                  *)
THEOREM OutcomeIsOwn == Spec => []OutcomeHasCause
PROOF
  <1>1. Inv => OutcomeHasCause
    BY DEF Inv
  <1> QED BY Invariance, <1>1, PTL

(* The server lets go of the connection of a program that is in its call    *)
(* only when it is killed, as from then on the program is excused.          *)
THEOREM NoneIsDropped == Spec => []Excused
PROOF
  <1>1. Inv => Excused
    BY DEF Inv
  <1> QED BY Invariance, <1>1, PTL
=============================================================================
