-------------------------- MODULE ChatServerProofs --------------------------
(* Theorems about ChatServer, for every set of sessions, rooms and messages *)
(* and every length of the replay, and then about ChatSystem, the server    *)
(* with its clients, for any number of users and rooms and however much     *)
(* each of them types.                                                      *)
EXTENDS ChatSystem, SequenceTheorems, TLAPS

(* Before its connection is accepted there is nothing of a session. *)
NewIsBlank ==
  \A s \in Session :
    reading[s] = "new" => /\ write_msgs_[s] = <<>> /\ wire[s] = <<>>
                          /\ skipped[s] = 0 /\ s \notin failed

(* The inductive invariant. *)
Inv == /\ TypeOK
       /\ NewIsBlank
       /\ MembersAreLive
       /\ WriteChain
       /\ RecentIsSuffix
       /\ FeedInOrder

-----------------------------------------------------------------------------
(* Stretches of sequences (SubSeq) under Append, Tail and \o.               *)

(* A stretch of a sequence is a sequence over the same set. *)
LEMMA SubSeqType ==
  ASSUME NEW S, NEW q \in Seq(S), NEW i \in Nat \ {0}, NEW j \in Nat, j <= Len(q)
  PROVE  /\ SubSeq(q, i, j) \in Seq(S)
         /\ Len(SubSeq(q, i, j)) = IF i <= j THEN j - i + 1 ELSE 0
         /\ \A k \in 1 .. (j - i + 1) : SubSeq(q, i, j)[k] = q[i + k - 1]
PROOF
  <1>1. \A k \in i .. j : q[k] \in S
    BY ElementOfSeq, LenProperties
  <1> QED BY <1>1, SubSeqProperties

(* A stretch that ends within q is the same stretch of q with more at its end. *)
LEMMA SubSeqOfLonger ==
  ASSUME NEW S, NEW q \in Seq(S), NEW x \in S,
         NEW i \in Nat \ {0}, NEW j \in Nat, j <= Len(q)
  PROVE  SubSeq(Append(q, x), i, j) = SubSeq(q, i, j)
PROOF
  <1>1. /\ Append(q, x) \in Seq(S)
        /\ Len(Append(q, x)) = Len(q) + 1
        /\ \A k \in 1 .. Len(q) : Append(q, x)[k] = q[k]
    BY AppendProperties
  <1>2. Len(q) \in Nat
    BY LenProperties
  <1> DEFINE a == SubSeq(Append(q, x), i, j)
             b == SubSeq(q, i, j)
  <1>3. /\ a \in Seq(S)
        /\ Len(a) = IF i <= j THEN j - i + 1 ELSE 0
        /\ \A k \in 1 .. (j - i + 1) : a[k] = Append(q, x)[i + k - 1]
    BY <1>1, <1>2, SubSeqType
  <1>4. /\ b \in Seq(S)
        /\ Len(b) = IF i <= j THEN j - i + 1 ELSE 0
        /\ \A k \in 1 .. (j - i + 1) : b[k] = q[i + k - 1]
    BY SubSeqType
  <1> HIDE DEF a, b
  <1>5. \A k \in 1 .. Len(a) : a[k] = b[k]
    BY <1>1, <1>2, <1>3, <1>4
  <1>6. a = b
    BY <1>3, <1>4, <1>5, SeqEqual
  <1> QED BY <1>6 DEF a, b

(* A stretch that reaches the end of q grows with q. *)
LEMMA SubSeqGrows ==
  ASSUME NEW S, NEW q \in Seq(S), NEW x \in S,
         NEW i \in Nat \ {0}, i <= Len(q) + 1
  PROVE  SubSeq(Append(q, x), i, Len(Append(q, x))) = SubSeq(q, i, Len(q)) \o <<x>>
PROOF
  <1>1. /\ Append(q, x) \in Seq(S)
        /\ Len(Append(q, x)) = Len(q) + 1
        /\ Append(q, x)[Len(q) + 1] = x
    BY AppendProperties
  <1>2. Len(q) \in Nat
    BY LenProperties
  <1>3. SubSeq(Append(q, x), i, Len(q) + 1)
          = SubSeq(Append(q, x), i, Len(q)) \o <<x>>
    BY <1>1, <1>2, SubSeqRecursiveSecond
  <1>4. SubSeq(Append(q, x), i, Len(q)) = SubSeq(q, i, Len(q))
    BY <1>2, SubSeqOfLonger
  <1> QED BY <1>1, <1>3, <1>4

(* Moving the head of w to the end of v leaves v \o w as it was. *)
LEMMA MoveHead ==
  ASSUME NEW S, NEW v \in Seq(S), NEW w \in Seq(S), w # <<>>
  PROVE  Append(v, Head(w)) \o Tail(w) = v \o w
PROOF
  <1>1. /\ Head(w) \in S
        /\ Tail(w) \in Seq(S)
        /\ Len(Tail(w)) = Len(w) - 1
        /\ \A i \in 1 .. Len(Tail(w)) : Tail(w)[i] = w[i + 1]
    BY HeadTailProperties
  <1>2. Append(v, Head(w)) = v \o <<Head(w)>> /\ <<Head(w)>> \in Seq(S)
    BY <1>1, AppendIsConcat
  <1>3. w = <<Head(w)>> \o Tail(w)
    BY <1>1, SubSeqRecursiveFirst, SubSeqFull, TailIsSubSeq, EmptySeq, LenProperties
  <1> QED BY <1>1, <1>2, <1>3, ConcatAssociative

(* Something appended to w is appended to v \o w. *)
LEMMA ConcatAppend ==
  ASSUME NEW S, NEW v \in Seq(S), NEW w \in Seq(S), NEW x \in S
  PROVE  /\ v \o (w \o <<x>>) = (v \o w) \o <<x>>
         /\ Len(v \o (w \o <<x>>)) = Len(v \o w) + 1
PROOF
  <1>1. <<x>> \in Seq(S) /\ Len(<<x>>) = 1
    OBVIOUS
  <1> QED BY <1>1, ConcatAssociative, ConcatProperties

(* The last n elements of q, where q has that many. *)
LEMMA SuffixOfSuffix ==
  ASSUME NEW S, NEW q \in Seq(S), NEW k \in Nat, NEW n \in Nat,
         n <= k, k <= Len(q)
  PROVE  SubSeq(SubSeq(q, Len(q) - k + 1, Len(q)), (k - n) + 1, k)
           = SubSeq(q, Len(q) - n + 1, Len(q))
PROOF
  <1>1. Len(q) \in Nat
    BY LenProperties
  <1> DEFINE p == SubSeq(q, Len(q) - k + 1, Len(q))
             a == SubSeq(p, (k - n) + 1, k)
             b == SubSeq(q, Len(q) - n + 1, Len(q))
  <1>2. /\ p \in Seq(S)
        /\ Len(p) = k
        /\ \A i \in 1 .. k : p[i] = q[Len(q) - k + i]
    BY <1>1, SubSeqType
  <1> HIDE DEF p
  <1>3. /\ a \in Seq(S)
        /\ Len(a) = n
        /\ \A i \in 1 .. n : a[i] = p[k - n + i]
    BY <1>2, SubSeqType
  <1>4. /\ b \in Seq(S)
        /\ Len(b) = n
        /\ \A i \in 1 .. n : b[i] = q[Len(q) - n + i]
    BY <1>1, SubSeqType
  <1> HIDE DEF a, b
  <1>5. ASSUME NEW i \in 1 .. n
        PROVE  a[i] = b[i]
    <2> DEFINE j == k - n + i
    <2>1. j \in 1 .. k /\ Len(q) - k + j = Len(q) - n + i
      BY <1>1
    <2>2. a[i] = p[j]
      BY <1>3
    <2>3. p[j] = q[Len(q) - k + j]
      BY <1>2, <2>1
    <2> QED BY <1>4, <2>1, <2>2, <2>3
  <1>6. a = b
    BY <1>3, <1>4, <1>5, SeqEqual
  <1> QED BY <1>6 DEF a, b, p

-----------------------------------------------------------------------------
(* Operators.                                                               *)

(* What chat_room::deliver leaves in recent_msgs_ is a sequence of messages. *)
LEMMA RememberType ==
  ASSUME NEW q \in Seq(Message), NEW m \in Message
  PROVE  Remember(q, m) \in Seq(Message)
PROOF
  <1> DEFINE p == Append(q, m)
  <1>1. p \in Seq(Message) /\ Len(p) \in Nat
    BY AppendProperties, LenProperties
  <1>2. CASE Len(p) > MaxRecent
    <2>1. SubSeq(p, Len(p) - MaxRecent + 1, Len(p)) \in Seq(Message)
      BY <1>1, <1>2, SubSeqType, BoundAssumption
    <2> QED BY <1>2, <2>1 DEF Remember, LastOf
  <1>3. CASE ~(Len(p) > MaxRecent)
    BY <1>1, <1>3 DEF Remember, LastOf
  <1> QED BY <1>2, <1>3

(* What delivering ms to a session hands to the socket. *)
LEMMA WritingType ==
  ASSUME NEW q \in Seq(Message), NEW w \in Seq(Message), NEW ms \in Seq(Message)
  PROVE  Writing(q, w, ms) \in Seq(Message)
  BY HeadTailProperties, AppendProperties DEF Writing, StartsWrite

-----------------------------------------------------------------------------
(* Type correctness.  That skipped stays a natural number rests on what is  *)
(* replayed never being longer than what was delivered.                     *)

(* How many messages a room keeps. *)
Kept(r) == IF Len(log[r]) < MaxRecent THEN Len(log[r]) ELSE MaxRecent

(* A room keeps the last Kept(r) messages of its log, and there are as many. *)
LEMMA RecentLength ==
  ASSUME TypeOK, RecentIsSuffix, NEW r \in Room
  PROVE  /\ Kept(r) \in Nat /\ Kept(r) <= Len(log[r])
         /\ Len(log[r]) \in Nat
         /\ Len(recent_msgs_[r]) = Kept(r)
         /\ recent_msgs_[r] = SubSeq(log[r], Len(log[r]) - Kept(r) + 1, Len(log[r]))
PROOF
  <1>1. log[r] \in Seq(Message) /\ Len(log[r]) \in Nat
    BY LenProperties DEF TypeOK
  <1>2. Kept(r) \in Nat /\ Kept(r) <= Len(log[r])
    BY <1>1, BoundAssumption DEF Kept
  <1>3. recent_msgs_[r] = SubSeq(log[r], Len(log[r]) - Kept(r) + 1, Len(log[r]))
    BY DEF RecentIsSuffix, Kept
  <1>4. Len(SubSeq(log[r], Len(log[r]) - Kept(r) + 1, Len(log[r]))) = Kept(r)
    BY <1>1, <1>2, SubSeqType
  <1> QED BY <1>1, <1>2, <1>3, <1>4

(* Nothing has happened yet, and the types are right. *)
LEMMA TypeInit == Init => TypeOK
  BY DEF Init, TypeOK, ReadState

(* Every handler keeps the types.  Accept needs RecentIsSuffix: the backlog *)
(* it subtracts is no longer than the log.  WriteDone and WriteFail need     *)
(* WriteChain: a write that completes has something queued.                  *)
LEMMA TypeNext ==
  TypeOK /\ RecentIsSuffix /\ WriteChain /\ [Next]_vars => TypeOK'
PROOF
  <1> SUFFICES ASSUME TypeOK, RecentIsSuffix, WriteChain, [Next]_vars
               PROVE  TypeOK'
    OBVIOUS
  <1> USE RoomOfAssumption, BoundAssumption
  <1>1. ASSUME NEW s \in Session, Accept(s) PROVE TypeOK'
    <2> DEFINE r == RoomOf[s]
    <2>1. r \in Room /\ recent_msgs_[r] \in Seq(Message)
      BY DEF TypeOK
    <2>2. Writing(write_msgs_[s], inflight[s], recent_msgs_[r]) \in Seq(Message)
      BY <2>1, WritingType DEF TypeOK
    <2>3. Enqueued(write_msgs_[s], recent_msgs_[r]) \in Seq(Message)
      BY <2>1, ConcatProperties DEF TypeOK, Enqueued
    <2>4. Len(log[r]) - Len(recent_msgs_[r]) \in Nat
      BY <2>1, RecentLength
    <2> QED BY <1>1, <2>1, <2>2, <2>3, <2>4 DEF Accept, Start, Join, TypeOK, ReadState
  <1>2. ASSUME NEW s \in Session, ReadHeader(s) PROVE TypeOK'
    BY <1>2 DEF ReadHeader, TypeOK, ReadState
  <1>3. ASSUME NEW s \in Session, ReadFail(s) PROVE TypeOK'
    BY <1>3 DEF ReadFail, Leave, TypeOK, ReadState
  <1>4. ASSUME NEW s \in Session, NEW m \in Message, ReadBody(s, m) PROVE TypeOK'
    <2> DEFINE r == RoomOf[s]
    <2>1. r \in Room /\ <<m>> \in Seq(Message)
      BY DEF TypeOK
    <2>2. recent_msgs_' \in [Room -> Seq(Message)]
      BY <1>4, <2>1, RememberType DEF ReadBody, Deliver, TypeOK
    <2>3. write_msgs_' \in [Session -> Seq(Message)]
      BY <1>4, <2>1, ConcatProperties DEF ReadBody, Deliver, TypeOK, Enqueued
    <2>4. inflight' \in [Session -> Seq(Message)]
      BY <1>4, <2>1, WritingType DEF ReadBody, Deliver, TypeOK
    <2>5. log' \in [Room -> Seq(Message)]
      BY <1>4, <2>1, AppendProperties DEF ReadBody, Deliver, TypeOK
    <2> QED BY <1>4, <2>2, <2>3, <2>4, <2>5 DEF ReadBody, Deliver, TypeOK, ReadState
  <1>5. ASSUME NEW s \in Session, WriteDone(s) PROVE TypeOK'
    <2> DEFINE q == Popped(write_msgs_[s])
    <2>1. inflight[s] # <<>> /\ write_msgs_[s] # <<>>
      BY <1>5 DEF WriteDone, WriteChain
    <2>2. q \in Seq(Message)
      BY <2>1, HeadTailProperties DEF Popped, TypeOK
    <2>3. NextWrite(q, Tail(inflight[s])) \in Seq(Message)
      BY <2>1, <2>2, HeadTailProperties, AppendProperties DEF NextWrite, TypeOK
    <2>4. Append(wire[s], Head(inflight[s])) \in Seq(Message)
      BY <2>1, HeadTailProperties, AppendProperties DEF TypeOK
    <2> QED BY <1>5, <2>2, <2>3, <2>4 DEF WriteDone, TypeOK
  <1>6. ASSUME NEW s \in Session, WriteFail(s) PROVE TypeOK'
    BY <1>6, HeadTailProperties DEF WriteFail, Leave, TypeOK
  <1>7. CASE UNCHANGED vars
    BY <1>7 DEF vars, TypeOK
  <1> QED BY <1>1, <1>2, <1>3, <1>4, <1>5, <1>6, <1>7 DEF Next
-----------------------------------------------------------------------------
(* Preservation of the other conjuncts.                                     *)

(* No handler touches a session that was not accepted. *)
LEMMA BlankNext ==
  TypeOK /\ NewIsBlank /\ MembersAreLive /\ WriteChain /\ [Next]_vars
    => NewIsBlank'
PROOF
  <1> SUFFICES ASSUME TypeOK, NewIsBlank, MembersAreLive, WriteChain, [Next]_vars,
                      NEW t \in Session, reading'[t] = "new"
               PROVE  /\ write_msgs_'[t] = <<>> /\ wire'[t] = <<>>
                      /\ skipped'[t] = 0 /\ t \notin failed'
    BY DEF NewIsBlank
  <1> USE RoomOfAssumption
  <1>1. ASSUME reading[t] = "new"
        PROVE  /\ write_msgs_[t] = <<>> /\ wire[t] = <<>>
               /\ skipped[t] = 0 /\ t \notin failed
               /\ inflight[t] = <<>> /\ \A r \in Room : t \notin Audience(r)
    BY <1>1 DEF NewIsBlank, MembersAreLive, WriteChain, Audience
  <1>2. ASSUME NEW s \in Session, Accept(s) PROVE s # t /\ reading[t] = "new"
    BY <1>2 DEF Accept, Start, Join, TypeOK
  <1>3. ASSUME NEW s \in Session, ReadHeader(s) PROVE s # t /\ reading[t] = "new"
    BY <1>3 DEF ReadHeader, TypeOK
  <1>4. ASSUME NEW s \in Session, ReadFail(s) PROVE s # t /\ reading[t] = "new"
    BY <1>4 DEF ReadFail, TypeOK
  <1>5. ASSUME NEW s \in Session, NEW m \in Message, ReadBody(s, m)
        PROVE  s # t /\ reading[t] = "new" /\ RoomOf[s] \in Room
    BY <1>5 DEF ReadBody, Deliver, TypeOK
  <1>6. ASSUME NEW s \in Session, WriteDone(s) PROVE s # t /\ reading[t] = "new"
    BY <1>1, <1>6 DEF WriteDone
  <1>7. ASSUME NEW s \in Session, WriteFail(s) PROVE s # t /\ reading[t] = "new"
    BY <1>1, <1>7 DEF WriteFail
  <1>8. CASE \E s \in Session : Accept(s)
    BY <1>1, <1>2, <1>8 DEF Accept, Start, Join, TypeOK
  <1>9. CASE \E s \in Session : ReadHeader(s)
    BY <1>1, <1>3, <1>9 DEF ReadHeader
  <1>10. CASE \E s \in Session : ReadFail(s)
    BY <1>1, <1>4, <1>10 DEF ReadFail
  <1>11. CASE \E s \in Session, m \in Message : ReadBody(s, m)
    BY <1>1, <1>5, <1>11 DEF ReadBody, Deliver
  <1>12. CASE \E s \in Session : WriteDone(s)
    BY <1>1, <1>6, <1>12 DEF WriteDone, TypeOK
  <1>13. CASE \E s \in Session : WriteFail(s)
    BY <1>1, <1>7, <1>13 DEF WriteFail, TypeOK
  <1>14. CASE UNCHANGED vars
    BY <1>1, <1>14 DEF vars
  <1> QED BY <1>8, <1>9, <1>10, <1>11, <1>12, <1>13, <1>14 DEF Next

(* Each chain that ends removes the session, and only that session. *)
LEMMA MembersNext ==
  TypeOK /\ NewIsBlank /\ MembersAreLive /\ [Next]_vars => MembersAreLive'
PROOF
  <1> SUFFICES ASSUME TypeOK, NewIsBlank, MembersAreLive, [Next]_vars
               PROVE  MembersAreLive'
    OBVIOUS
  <1> USE RoomOfAssumption
  <1>1. ASSUME NEW s \in Session, Accept(s) PROVE MembersAreLive'
    BY <1>1 DEF Accept, Start, Join, MembersAreLive, NewIsBlank, TypeOK
  <1>2. ASSUME NEW s \in Session, ReadHeader(s) PROVE MembersAreLive'
    BY <1>2 DEF ReadHeader, MembersAreLive, TypeOK
  <1>3. ASSUME NEW s \in Session, ReadFail(s) PROVE MembersAreLive'
    BY <1>3 DEF ReadFail, Leave, MembersAreLive, TypeOK
  <1>4. ASSUME NEW s \in Session, NEW m \in Message, ReadBody(s, m)
        PROVE  MembersAreLive'
    BY <1>4 DEF ReadBody, Deliver, MembersAreLive, TypeOK
  <1>5. ASSUME NEW s \in Session, WriteDone(s) PROVE MembersAreLive'
    BY <1>5 DEF WriteDone, MembersAreLive
  <1>6. ASSUME NEW s \in Session, WriteFail(s) PROVE MembersAreLive'
    BY <1>6 DEF WriteFail, Leave, MembersAreLive, TypeOK
  <1>7. CASE UNCHANGED vars
    BY <1>7 DEF vars, MembersAreLive
  <1> QED BY <1>1, <1>2, <1>3, <1>4, <1>5, <1>6, <1>7 DEF Next

(* A write is started exactly when the queue was empty, and continued       *)
(* exactly when it still is not; deliveries never reach a failed session.   *)
LEMMA WriteChainNext ==
  TypeOK /\ NewIsBlank /\ MembersAreLive /\ WriteChain /\ [Next]_vars
    => WriteChain'
PROOF
  <1> DEFINE Chained(q, w, f) == w = IF q = <<>> \/ f THEN <<>> ELSE <<Head(q)>>
  <1> SUFFICES ASSUME TypeOK, NewIsBlank, MembersAreLive, WriteChain, [Next]_vars,
                      NEW t \in Session
               PROVE  Chained(write_msgs_'[t], inflight'[t], t \in failed')
    BY DEF WriteChain
  <1> USE RoomOfAssumption
  <1>1. Chained(write_msgs_[t], inflight[t], t \in failed)
    BY DEF WriteChain
  <1>2. ASSUME NEW q \in Seq(Message), NEW w, NEW ms \in Seq(Message),
               Chained(q, w, FALSE)
        PROVE  Chained(Enqueued(q, ms), Writing(q, w, ms), FALSE)
    <2>1. CASE q = <<>>
      <3>1. Enqueued(q, ms) = ms
        BY <2>1, ConcatEmptySeq DEF Enqueued
      <3> QED BY <1>2, <2>1, <3>1 DEF Writing, StartsWrite
    <2>2. CASE q # <<>>
      <3>1. Enqueued(q, ms) # <<>> /\ Head(Enqueued(q, ms)) = Head(q)
        BY <2>2, ConcatProperties, EmptySeq, LenProperties DEF Enqueued
      <3> QED BY <1>2, <2>2, <3>1 DEF Writing, StartsWrite
    <2> QED BY <2>1, <2>2
  <1>3. ASSUME NEW s \in Session, Accept(s)
        PROVE  Chained(write_msgs_'[t], inflight'[t], t \in failed')
    <2>1. recent_msgs_[RoomOf[s]] \in Seq(Message) /\ write_msgs_[s] \in Seq(Message)
      BY DEF TypeOK
    <2>2. CASE s = t
      <3>1. t \notin failed /\ t \notin failed'
        BY <1>3, <2>2 DEF Accept, Start, Join, NewIsBlank
      <3>2. /\ write_msgs_'[t] = Enqueued(write_msgs_[t], recent_msgs_[RoomOf[s]])
            /\ inflight'[t] = Writing(write_msgs_[t], inflight[t], recent_msgs_[RoomOf[s]])
        BY <1>3, <2>2 DEF Accept, Start, Join, TypeOK
      <3> HIDE DEF Chained
      <3>3. Chained(write_msgs_[t], inflight[t], FALSE)
        BY <1>1, <3>1 DEF Chained
      <3>4. Chained(write_msgs_'[t], inflight'[t], FALSE)
        BY <1>2, <2>1, <2>2, <3>2, <3>3
      <3> QED BY <3>1, <3>4 DEF Chained
    <2>3. CASE s # t
      BY <1>1, <1>3, <2>3 DEF Accept, Start, Join, TypeOK
    <2> QED BY <2>2, <2>3
  <1>4. ASSUME NEW s \in Session, ReadHeader(s)
        PROVE  Chained(write_msgs_'[t], inflight'[t], t \in failed')
    BY <1>1, <1>4 DEF ReadHeader
  <1>5. ASSUME NEW s \in Session, ReadFail(s)
        PROVE  Chained(write_msgs_'[t], inflight'[t], t \in failed')
    BY <1>1, <1>5 DEF ReadFail
  <1>6. ASSUME NEW s \in Session, NEW m \in Message, ReadBody(s, m)
        PROVE  Chained(write_msgs_'[t], inflight'[t], t \in failed')
    <2>1. <<m>> \in Seq(Message) /\ write_msgs_[t] \in Seq(Message)
      BY DEF TypeOK
    <2>2. CASE t \in Audience(RoomOf[s])
      <3>1. t \notin failed /\ t \notin failed'
        BY <1>6, <2>2 DEF ReadBody, Deliver, Audience, MembersAreLive
      <3>2. /\ write_msgs_'[t] = Enqueued(write_msgs_[t], <<m>>)
            /\ inflight'[t] = Writing(write_msgs_[t], inflight[t], <<m>>)
        BY <1>6, <2>2 DEF ReadBody, Deliver
      <3> HIDE DEF Chained
      <3>3. Chained(write_msgs_[t], inflight[t], FALSE)
        BY <1>1, <3>1 DEF Chained
      <3>4. Chained(write_msgs_'[t], inflight'[t], FALSE)
        BY <1>2, <2>1, <3>2, <3>3
      <3> QED BY <3>1, <3>4 DEF Chained
    <2>3. CASE t \notin Audience(RoomOf[s])
      BY <1>1, <1>6, <2>3 DEF ReadBody, Deliver
    <2> QED BY <2>2, <2>3
  <1>7. ASSUME NEW s \in Session, WriteDone(s)
        PROVE  Chained(write_msgs_'[t], inflight'[t], t \in failed')
    <2>1. CASE s = t
      <3> DEFINE q == Popped(write_msgs_[t])
      <3>1. inflight[t] = <<Head(write_msgs_[t])>> /\ t \notin failed
        BY <1>1, <1>7, <2>1 DEF WriteDone
      <3>2. Tail(inflight[t]) = <<>>
        BY <3>1
      <3>3. /\ write_msgs_'[t] = q
            /\ inflight'[t] = NextWrite(q, <<>>)
            /\ t \notin failed'
        BY <1>7, <2>1, <3>1, <3>2 DEF WriteDone, TypeOK
      <3>4. NextWrite(q, <<>>) = IF q = <<>> THEN <<>> ELSE <<Head(q)>>
        BY DEF NextWrite
      <3> HIDE DEF q
      <3> QED BY <3>3, <3>4
    <2>2. CASE s # t
      BY <1>1, <1>7, <2>2 DEF WriteDone, TypeOK
    <2> QED BY <2>1, <2>2
  <1>8. ASSUME NEW s \in Session, WriteFail(s)
        PROVE  Chained(write_msgs_'[t], inflight'[t], t \in failed')
    <2>1. CASE s = t
      <3>1. inflight[t] = <<Head(write_msgs_[t])>>
        BY <1>1, <1>8, <2>1 DEF WriteFail
      <3>2. inflight'[t] = <<>> /\ t \in failed'
        BY <1>8, <2>1, <3>1 DEF WriteFail, TypeOK
      <3> QED BY <3>2
    <2>2. CASE s # t
      BY <1>1, <1>8, <2>2 DEF WriteFail, TypeOK
    <2> QED BY <2>1, <2>2
  <1>9. CASE UNCHANGED vars
    BY <1>1, <1>9 DEF vars
  <1> QED BY <1>3, <1>4, <1>5, <1>6, <1>7, <1>8, <1>9 DEF Next
(* Trimming after every push_back keeps the end of the log. *)
LEMMA RecentNext == TypeOK /\ RecentIsSuffix /\ [Next]_vars => RecentIsSuffix'
PROOF
  <1> SUFFICES ASSUME TypeOK, RecentIsSuffix, [Next]_vars PROVE RecentIsSuffix'
    OBVIOUS
  <1> USE RoomOfAssumption
  <1>1. CASE UNCHANGED <<recent_msgs_, log>>
    BY <1>1 DEF RecentIsSuffix
  <1>2. ASSUME NEW s \in Session, NEW m \in Message, ReadBody(s, m)
        PROVE  RecentIsSuffix'
    <2> DEFINE r == RoomOf[s]
               q == log[r]
               n == Kept(r)
               l == Append(q, m)
               p == Append(recent_msgs_[r], m)
               k == IF Len(l) < MaxRecent THEN Len(l) ELSE MaxRecent
    <2>1. /\ r \in Room /\ q \in Seq(Message) /\ Len(q) \in Nat
          /\ n \in Nat /\ n <= Len(q)
          /\ recent_msgs_[r] \in Seq(Message) /\ Len(recent_msgs_[r]) = n
          /\ recent_msgs_[r] = SubSeq(q, Len(q) - n + 1, Len(q))
      BY RecentLength DEF TypeOK
    <2>2. /\ l \in Seq(Message) /\ Len(l) = Len(q) + 1
          /\ p \in Seq(Message) /\ Len(p) = n + 1
      BY <2>1, AppendProperties
    <2>3. p = SubSeq(l, Len(l) - (n + 1) + 1, Len(l))
      <3> DEFINE i == Len(q) - n + 1
      <3>1. i \in Nat \ {0} /\ i <= Len(q) + 1 /\ Len(l) - (n + 1) + 1 = i
        BY <2>1, <2>2, SMTT(30)
      <3> HIDE DEF i
      <3>2. p = recent_msgs_[r] \o <<m>>
        BY <2>1, AppendIsConcat
      <3>3. SubSeq(l, i, Len(l)) = SubSeq(q, i, Len(q)) \o <<m>>
        BY <2>1, <3>1, SubSeqGrows
      <3>4. recent_msgs_[r] = SubSeq(q, i, Len(q))
        BY <2>1 DEF i
      <3> QED BY <3>1, <3>2, <3>3, <3>4
    <2>4. LastOf(p, MaxRecent) = SubSeq(l, Len(l) - k + 1, Len(l))
      <3>1. n = IF Len(q) < MaxRecent THEN Len(q) ELSE MaxRecent
        BY DEF Kept
      <3>2. CASE n + 1 > MaxRecent
        <4>1. n = MaxRecent /\ k = MaxRecent
          BY <2>1, <2>2, <3>1, <3>2, BoundAssumption
        <4>2. LastOf(p, MaxRecent) = SubSeq(p, (n + 1) - MaxRecent + 1, n + 1)
          BY <2>2, <3>2 DEF LastOf
        <4>3. SubSeq(p, (n + 1) - MaxRecent + 1, n + 1)
                = SubSeq(l, Len(l) - MaxRecent + 1, Len(l))
          <5> HIDE DEF n, l, p, k, q
          <5>1. n + 1 \in Nat /\ n + 1 <= Len(l) /\ MaxRecent <= n + 1
            BY <2>1, <2>2, <4>1
          <5>2. SubSeq(SubSeq(l, Len(l) - (n + 1) + 1, Len(l)), ((n + 1) - MaxRecent) + 1, n + 1)
                  = SubSeq(l, Len(l) - MaxRecent + 1, Len(l))
            BY <2>2, <5>1, SuffixOfSuffix, BoundAssumption
          <5> QED BY <2>3, <5>2
        <4> QED BY <4>1, <4>2, <4>3
      <3>3. CASE ~(n + 1 > MaxRecent)
        <4>1. n + 1 = k
          BY <2>1, <2>2, <3>1, <3>3, BoundAssumption
        <4>2. LastOf(p, MaxRecent) = p
          BY <2>2, <3>3 DEF LastOf
        <4> QED BY <2>3, <4>1, <4>2
      <3> QED BY <3>2, <3>3
    <2>5. /\ recent_msgs_' = [recent_msgs_ EXCEPT ![r] = LastOf(p, MaxRecent)]
          /\ log' = [log EXCEPT ![r] = l]
      BY <1>2 DEF ReadBody, Deliver, Remember
    <2>6. ASSUME NEW u \in Room
          PROVE  recent_msgs_'[u] =
                   LET j == IF Len(log'[u]) < MaxRecent THEN Len(log'[u]) ELSE MaxRecent
                   IN  SubSeq(log'[u], Len(log'[u]) - j + 1, Len(log'[u]))
      <3>1. CASE u = r
        <4>1. recent_msgs_'[u] = LastOf(p, MaxRecent) /\ log'[u] = l
          BY <2>1, <2>5, <3>1 DEF TypeOK
        <4> HIDE DEF l, p
        <4> QED BY <2>4, <4>1
      <3>2. CASE u # r
        <4>1. recent_msgs_'[u] = recent_msgs_[u] /\ log'[u] = log[u]
          BY <2>5, <3>2 DEF TypeOK
        <4> QED BY <4>1 DEF RecentIsSuffix
      <3> QED BY <3>1, <3>2
    <2> QED BY <2>6 DEF RecentIsSuffix
  <1> QED BY <1>1, <1>2
          DEF Next, Accept, Start, Join, ReadHeader, ReadFail, WriteDone, WriteFail, vars

(* The state of one session's feed, over a log l, a queue q and what has    *)
(* been written w: the statement of FeedInOrder for one session.            *)
Stretch(l, k, w, q, in) ==
  /\ k + Len(w \o q) <= Len(l)
  /\ w \o q = SubSeq(l, k + 1, k + Len(w \o q))
  /\ in => k + Len(w \o q) = Len(l)

(* A message delivered to the room by someone else than the session's own   *)
(* loop step: the stretch stays where it is in the longer log.              *)
LEMMA StretchOfLonger ==
  ASSUME NEW l \in Seq(Message), NEW m \in Message, NEW k \in Nat,
         NEW w \in Seq(Message), NEW q \in Seq(Message), Stretch(l, k, w, q, FALSE)
  PROVE  Stretch(Append(l, m), k, w, q, FALSE)
PROOF
  <1>1. w \o q \in Seq(Message) /\ Len(w \o q) \in Nat
    BY ConcatProperties, LenProperties
  <1>2. Len(l) \in Nat /\ Len(Append(l, m)) = Len(l) + 1
    BY AppendProperties, LenProperties
  <1>3. SubSeq(Append(l, m), k + 1, k + Len(w \o q)) = SubSeq(l, k + 1, k + Len(w \o q))
    BY <1>1, <1>2, SubSeqOfLonger DEF Stretch
  <1> QED BY <1>1, <1>2, <1>3 DEF Stretch

(* A message delivered to the room and to the session. *)
LEMMA StretchGrows ==
  ASSUME NEW l \in Seq(Message), NEW m \in Message, NEW k \in Nat,
         NEW w \in Seq(Message), NEW q \in Seq(Message), Stretch(l, k, w, q, TRUE)
  PROVE  Stretch(Append(l, m), k, w, q \o <<m>>, TRUE)
PROOF
  <1>1. w \o q \in Seq(Message) /\ Len(w \o q) \in Nat
    BY ConcatProperties, LenProperties
  <1>2. Len(l) \in Nat /\ Len(Append(l, m)) = Len(l) + 1
    BY AppendProperties, LenProperties
  <1>3. w \o (q \o <<m>>) = (w \o q) \o <<m>> /\ Len(w \o (q \o <<m>>)) = Len(w \o q) + 1
    BY ConcatAppend
  <1>4. k + Len(w \o q) = Len(l) /\ w \o q = SubSeq(l, k + 1, Len(l))
    BY DEF Stretch
  <1>5. k + 1 \in Nat \ {0} /\ k + 1 <= Len(l) + 1
    BY <1>1, <1>2, <1>4
  <1>6. SubSeq(Append(l, m), k + 1, Len(Append(l, m))) = SubSeq(l, k + 1, Len(l)) \o <<m>>
    BY <1>5, SubSeqGrows
  <1>7. k + Len(w \o (q \o <<m>>)) = Len(Append(l, m))
    BY <1>1, <1>2, <1>3, <1>4
  <1>8. w \o (q \o <<m>>) = SubSeq(Append(l, m), k + 1, k + Len(w \o (q \o <<m>>)))
    BY <1>3, <1>4, <1>6, <1>7
  <1>9. k + Len(w \o (q \o <<m>>)) <= Len(Append(l, m))
    BY <1>2, <1>7
  <1> QED BY <1>7, <1>8, <1>9 DEF Stretch
(* Joining, delivering and writing keep every session's feed a stretch of   *)
(* its room's log.                                                          *)
LEMMA FeedNext ==
  Inv /\ TypeOK' /\ [Next]_vars => FeedInOrder'
PROOF
  <1> DEFINE OK(t) == Stretch(log[RoomOf[t]], skipped[t], wire[t], write_msgs_[t],
                              t \in participants_[RoomOf[t]])
  <1> SUFFICES ASSUME Inv, TypeOK', [Next]_vars, NEW t \in Session
               PROVE  OK(t)'
    BY DEF FeedInOrder, Feed, Stretch
  <1> USE RoomOfAssumption
  <1> DEFINE r == RoomOf[t]
  <1>1. /\ r \in Room /\ log[r] \in Seq(Message) /\ wire[t] \in Seq(Message)
        /\ write_msgs_[t] \in Seq(Message) /\ skipped[t] \in Nat
        /\ recent_msgs_[r] \in Seq(Message)
    BY DEF Inv, TypeOK
  <1>2. Stretch(log[r], skipped[t], wire[t], write_msgs_[t], t \in participants_[r])
    BY DEF Inv, FeedInOrder, Feed, Stretch
  <1>3. Stretch(log[r], skipped[t], wire[t], write_msgs_[t], FALSE)
    BY <1>2 DEF Stretch
  <1> HIDE DEF OK
  <1>4. ASSUME log'[r] = log[r], skipped'[t] = skipped[t], wire'[t] = wire[t],
               write_msgs_'[t] = write_msgs_[t],
               t \in participants_'[r] => t \in participants_[r]
        PROVE  OK(t)'
    BY <1>2, <1>4 DEF OK, Stretch
  <1>5. ASSUME NEW s \in Session, Accept(s) PROVE OK(t)'
    <2>1. CASE s = t
      <3> DEFINE a == recent_msgs_[r]
                 n == Kept(r)
      <3>1. write_msgs_[t] = <<>> /\ wire[t] = <<>>
        BY <1>5, <2>1 DEF Accept, Start, Join, Inv, NewIsBlank
      <3>2. /\ n \in Nat /\ n <= Len(log[r]) /\ Len(log[r]) \in Nat /\ Len(a) = n
            /\ a = SubSeq(log[r], Len(log[r]) - n + 1, Len(log[r]))
        BY <1>1, RecentLength DEF Inv
      <3>3. wire[t] \o Enqueued(write_msgs_[t], a) = a
        BY <1>1, <3>1, ConcatEmptySeq DEF Enqueued
      <3>4. /\ log' = log /\ wire' = wire
            /\ skipped'[t] = Len(log[r]) - Len(a)
            /\ write_msgs_'[t] = Enqueued(write_msgs_[t], a)
        BY <1>5, <2>1 DEF Accept, Start, Join, Inv, TypeOK
      <3>5. Stretch(log[r], Len(log[r]) - Len(a), wire[t], Enqueued(write_msgs_[t], a), TRUE)
        <4> DEFINE k == Len(log[r]) - Len(a)
        <4>1. k + Len(a) = Len(log[r]) /\ k + 1 = Len(log[r]) - n + 1
          BY <3>2
        <4>2. a = SubSeq(log[r], k + 1, k + Len(a))
          BY <3>2, <4>1
        <4> HIDE DEF k, a
        <4>3. k + Len(a) <= Len(log[r])
          BY <3>2, <4>1
        <4>4. Stretch(log[r], k, wire[t], Enqueued(write_msgs_[t], a), TRUE)
          BY <3>3, <4>1, <4>2, <4>3 DEF Stretch
        <4> QED BY <4>4 DEF k
      <3>6. Stretch(log'[r], skipped'[t], wire'[t], write_msgs_'[t], TRUE)
        BY <3>4, <3>5
      <3> QED BY <3>6 DEF OK, Stretch
    <2>2. CASE s # t
      BY <1>4, <1>5, <2>2 DEF Accept, Start, Join, Inv, TypeOK
    <2> QED BY <2>1, <2>2
  <1>6. ASSUME NEW s \in Session, ReadHeader(s) PROVE OK(t)'
    BY <1>4, <1>6 DEF ReadHeader
  <1>7. ASSUME NEW s \in Session, ReadFail(s) PROVE OK(t)'
    BY <1>4, <1>7 DEF ReadFail, Leave, Inv, TypeOK
  <1>8. ASSUME NEW s \in Session, NEW m \in Message, ReadBody(s, m) PROVE OK(t)'
    <2>1. CASE RoomOf[s] = r /\ t \in participants_[r]
      <3>1. /\ log'[r] = Append(log[r], m)
            /\ skipped'[t] = skipped[t] /\ wire'[t] = wire[t]
            /\ write_msgs_'[t] = write_msgs_[t] \o <<m>>
        BY <1>1, <1>8, <2>1 DEF ReadBody, Deliver, Audience, Enqueued, Inv, TypeOK
      <3>2. Stretch(log[r], skipped[t], wire[t], write_msgs_[t], TRUE)
        BY <1>2, <2>1 DEF Stretch
      <3>3. Stretch(Append(log[r], m), skipped[t], wire[t], write_msgs_[t] \o <<m>>, TRUE)
        BY <1>1, <3>2, StretchGrows
      <3>4. Stretch(log'[r], skipped'[t], wire'[t], write_msgs_'[t], TRUE)
        BY <3>1, <3>3
      <3> QED BY <3>4 DEF OK, Stretch
    <2>2. CASE RoomOf[s] = r /\ t \notin participants_[r]
      <3>1. /\ log'[r] = Append(log[r], m)
            /\ skipped'[t] = skipped[t] /\ wire'[t] = wire[t]
            /\ write_msgs_'[t] = write_msgs_[t]
            /\ t \notin participants_'[r]
        BY <1>1, <1>8, <2>2 DEF ReadBody, Deliver, Audience, Inv, TypeOK
      <3>2. Stretch(Append(log[r], m), skipped[t], wire[t], write_msgs_[t], FALSE)
        BY <1>1, <1>3, <1>8, StretchOfLonger
      <3>3. Stretch(log'[r], skipped'[t], wire'[t], write_msgs_'[t], FALSE)
        BY <3>1, <3>2
      <3> QED BY <3>1, <3>3 DEF OK, Stretch
    <2>3. CASE RoomOf[s] # r
      <3>1. t \notin Audience(RoomOf[s])
        BY <2>3 DEF Audience, Inv, MembersAreLive, TypeOK
      <3> QED BY <1>1, <1>4, <1>8, <2>3, <3>1 DEF ReadBody, Deliver, Inv, TypeOK
    <2> QED BY <2>1, <2>2, <2>3
  <1>9. ASSUME NEW s \in Session, WriteDone(s) PROVE OK(t)'
    <2>1. CASE s = t
      <3>1. /\ inflight[t] = <<Head(write_msgs_[t])>>
            /\ write_msgs_[t] # <<>>
        BY <1>9, <2>1 DEF WriteDone, Inv, WriteChain
      <3>2. /\ log' = log /\ skipped' = skipped /\ participants_' = participants_
            /\ wire'[t] = Append(wire[t], Head(write_msgs_[t]))
            /\ write_msgs_'[t] = Tail(write_msgs_[t])
        BY <1>9, <2>1, <3>1 DEF WriteDone, Popped, Inv, TypeOK
      <3>3. wire'[t] \o write_msgs_'[t] = wire[t] \o write_msgs_[t]
        BY <1>1, <3>1, <3>2, MoveHead
      <3> QED BY <1>2, <3>2, <3>3 DEF OK, Stretch
    <2>2. CASE s # t
      BY <1>4, <1>9, <2>2 DEF WriteDone, Inv, TypeOK
    <2> QED BY <2>1, <2>2
  <1>10. ASSUME NEW s \in Session, WriteFail(s) PROVE OK(t)'
    BY <1>4, <1>10 DEF WriteFail, Leave, Inv, TypeOK
  <1>11. CASE UNCHANGED vars
    BY <1>4, <1>11 DEF vars
  <1> QED BY <1>5, <1>6, <1>7, <1>8, <1>9, <1>10, <1>11 DEF Next
-----------------------------------------------------------------------------
(* The theorems.                                                            *)

(* The server starts with the invariant. *)
LEMMA InvInit == Init => Inv
PROOF
  <1> SUFFICES ASSUME Init PROVE Inv
    OBVIOUS
  <1> USE RoomOfAssumption, BoundAssumption
  <1>1. TypeOK
    BY TypeInit
  <1>2. NewIsBlank
    BY DEF Init, NewIsBlank
  <1>3. MembersAreLive
    BY DEF Init, MembersAreLive
  <1>4. WriteChain
    BY DEF Init, WriteChain
  <1>5. RecentIsSuffix
    <2> SUFFICES ASSUME NEW r \in Room
                 PROVE  <<>> = SubSeq(<<>>, Len(<<>>) - Kept(r) + 1, Len(<<>>))
      BY DEF Init, RecentIsSuffix, Kept
    <2>1. Kept(r) = 0
      BY DEF Init, Kept
    <2>2. SubSeq(<<>>, Len(<<>>) - 0 + 1, Len(<<>>)) = <<>>
      BY EmptySeq, SubSeqEmpty
    <2> QED BY <2>1, <2>2
  <1>6. FeedInOrder
    <2> SUFFICES ASSUME NEW t \in Session
                 PROVE  Stretch(log[RoomOf[t]], skipped[t], wire[t], write_msgs_[t], FALSE)
      BY DEF Init, FeedInOrder, Feed, Stretch
    <2>1. /\ log[RoomOf[t]] = <<>> /\ wire[t] = <<>> /\ write_msgs_[t] = <<>>
          /\ skipped[t] = 0
      BY DEF Init
    <2>2. <<>> \o <<>> = <<>> /\ Len(<<>>) = 0
      BY ConcatEmptySeq, EmptySeq
    <2>3. SubSeq(<<>>, 0 + 1, 0 + Len(<<>>)) = <<>>
      BY <2>2, SubSeqEmpty
    <2> QED BY <2>1, <2>2, <2>3 DEF Stretch
  <1> QED BY <1>1, <1>2, <1>3, <1>4, <1>5, <1>6 DEF Inv

(* Every handler keeps it. *)
LEMMA InvNext == Inv /\ [Next]_vars => Inv'
  BY TypeNext, BlankNext, MembersNext, WriteChainNext, RecentNext, FeedNext DEF Inv

(* Inv holds of every reachable state. *)
THEOREM Invariance == Spec => []Inv
  BY InvInit, InvNext, PTL DEF Spec

(* The state of every session and room stays within its types. *)
THEOREM TypeCorrect == Spec => []TypeOK
  BY Invariance, PTL DEF Inv

(* chat_room::participants_ and the two chains of a session never disagree. *)
THEOREM RoomMembership == Spec => []MembersAreLive
  BY Invariance, PTL DEF Inv

(* At most one async_write per session, over a buffer that is still the     *)
(* front of the queue, and none missing while there is something to write.  *)
THEOREM OneWritePending == Spec => []WriteChain
  BY Invariance, PTL DEF Inv

(* What join() replays is the end of the room's log. *)
THEOREM ReplayIsRecent == Spec => []RecentIsSuffix
  BY Invariance, PTL DEF Inv

(* No gap, repetition or exchange in what a session is sent. *)
THEOREM FeedIsInOrder == Spec => []FeedInOrder
  BY Invariance, PTL DEF Inv

-----------------------------------------------------------------------------
(* A session that has left is gone for good, and is sent nothing more than  *)
(* what was already queued.                                                 *)

(* One step of any handler, seen from a session t that has left. *)
LEMMA LeftStep ==
  ASSUME Inv, [Next]_vars, NEW t \in Session, HasLeft(t)
  PROVE  HasLeft(t)' /\ Feed(t)' = Feed(t)
PROOF
  <1> USE RoomOfAssumption
  <1> DEFINE r == RoomOf[t]
  <1>1. /\ reading[t] # "new" /\ t \notin participants_[r] /\ r \in Room
        /\ wire[t] \in Seq(Message) /\ write_msgs_[t] \in Seq(Message)
    BY DEF HasLeft, Inv, TypeOK
  <1>2. \A u \in Room : t \notin Audience(u)
    BY <1>1 DEF Audience, Inv, MembersAreLive
  <1>3. ASSUME NEW s \in Session, Accept(s) PROVE HasLeft(t)' /\ Feed(t)' = Feed(t)
    BY <1>1, <1>3 DEF Accept, Start, Join, HasLeft, Feed, Inv, TypeOK
  <1>4. ASSUME NEW s \in Session, ReadHeader(s) PROVE HasLeft(t)' /\ Feed(t)' = Feed(t)
    BY <1>1, <1>4 DEF ReadHeader, HasLeft, Feed, Inv, TypeOK
  <1>5. ASSUME NEW s \in Session, ReadFail(s) PROVE HasLeft(t)' /\ Feed(t)' = Feed(t)
    BY <1>1, <1>5 DEF ReadFail, Leave, HasLeft, Feed, Inv, TypeOK
  <1>6. ASSUME NEW s \in Session, NEW m \in Message, ReadBody(s, m)
        PROVE  HasLeft(t)' /\ Feed(t)' = Feed(t)
    BY <1>1, <1>2, <1>6 DEF ReadBody, Deliver, HasLeft, Feed, Inv, TypeOK
  <1>7. ASSUME NEW s \in Session, WriteDone(s) PROVE HasLeft(t)' /\ Feed(t)' = Feed(t)
    <2>1. CASE s = t
      <3>1. inflight[t] = <<Head(write_msgs_[t])>> /\ write_msgs_[t] # <<>>
        BY <1>7, <2>1 DEF WriteDone, Inv, WriteChain
      <3>2. /\ wire'[t] = Append(wire[t], Head(write_msgs_[t]))
            /\ write_msgs_'[t] = Tail(write_msgs_[t])
        BY <1>7, <2>1, <3>1 DEF WriteDone, Popped, Inv, TypeOK
      <3>3. Feed(t)' = Feed(t)
        BY <1>1, <3>1, <3>2, MoveHead DEF Feed
      <3> QED BY <1>1, <1>7, <3>3 DEF WriteDone, HasLeft
    <2>2. CASE s # t
      BY <1>1, <1>7, <2>2 DEF WriteDone, HasLeft, Feed, Inv, TypeOK
    <2> QED BY <2>1, <2>2
  <1>8. ASSUME NEW s \in Session, WriteFail(s) PROVE HasLeft(t)' /\ Feed(t)' = Feed(t)
    BY <1>1, <1>8 DEF WriteFail, Leave, HasLeft, Feed, Inv, TypeOK
  <1>9. CASE UNCHANGED vars
    BY <1>1, <1>9 DEF vars, HasLeft, Feed
  <1> QED BY <1>3, <1>4, <1>5, <1>6, <1>7, <1>8, <1>9 DEF Next

(* leave() is final. *)
THEOREM LeavingIsFinal == Spec => LeaveIsFinal
PROOF
  <1>1. Inv /\ [Next]_vars
          => [\A s \in Session : HasLeft(s) => HasLeft(s)' /\ Feed(s)' = Feed(s)]_vars
    BY LeftStep
  <1> QED BY <1>1, Invariance, PTL DEF Spec, LeaveIsFinal
-----------------------------------------------------------------------------
(* ChatServer implements Broadcast.                                         *)

(* The abstract due and status of one session. *)
Due(t) == skipped[t] + Len(Feed(t))
DueMap == [s \in Session |-> Due(s)]
StatusMap == [s \in Session |-> Status(s)]

(* The abstract status of a session is one of three, and tells the same as *)
(* the state of its reading and the room's set of participants.            *)
LEMMA StatusValue ==
  ASSUME Inv, NEW t \in Session
  PROVE  /\ Status(t) = "new" <=> reading[t] = "new"
         /\ Status(t) = "in" <=> t \in participants_[RoomOf[t]]
         /\ Status(t) \in {"new", "in", "gone"}
         /\ RoomOf[t] \in Room
  BY RoomOfAssumption DEF Inv, MembersAreLive, Status

(* The next message in a session's queue is the next one in its stretch. *)
LEMMA FrontIsNext ==
  ASSUME Inv, NEW t \in Session, write_msgs_[t] # <<>>
  PROVE  /\ Head(write_msgs_[t]) = log[RoomOf[t]][skipped[t] + Len(wire[t]) + 1]
         /\ skipped[t] + Len(wire[t]) < Due(t)
PROOF
  <1> DEFINE l == log[RoomOf[t]]
             k == skipped[t]
             w == wire[t]
             q == write_msgs_[t]
             f == w \o q
  <1>1. /\ RoomOf[t] \in Room /\ l \in Seq(Message) /\ w \in Seq(Message)
        /\ q \in Seq(Message) /\ k \in Nat
    BY RoomOfAssumption DEF Inv, TypeOK
  <1>2. f = SubSeq(l, k + 1, k + Len(f)) /\ k + Len(f) <= Len(l)
    BY DEF Inv, FeedInOrder, Feed
  <1>3. Due(t) = k + Len(f)
    BY DEF Due, Feed
  <1> HIDE DEF l, k, w, q
  <1>4. Len(q) \in Nat \ {0} /\ Len(w) \in Nat /\ Len(f) = Len(w) + Len(q)
    BY <1>1, EmptySeq, LenProperties, ConcatProperties DEF q
  <1>5. f[Len(w) + 1] = q[1]
    <2>1. Len(w) + 1 \in 1 .. Len(w) + Len(q) /\ ~(Len(w) + 1 <= Len(w))
          /\ (Len(w) + 1) - Len(w) = 1
      BY <1>4
    <2> QED BY <1>1, <2>1, ConcatProperties
  <1>6. f[Len(w) + 1] = l[k + Len(w) + 1]
    <2> DEFINE i == Len(w) + 1
               a == k + 1
               b == k + Len(f)
    <2>1. /\ i \in 1 .. (b - a + 1) /\ a + i - 1 = k + Len(w) + 1
          /\ a \in Nat \ {0} /\ b \in Nat /\ b <= Len(l)
      BY <1>1, <1>2, <1>4
    <2>2. f = SubSeq(l, a, b)
      BY <1>2
    <2> HIDE DEF i, a, b, f
    <2>3. \A j \in 1 .. (b - a + 1) : SubSeq(l, a, b)[j] = l[a + j - 1]
      BY <1>1, <2>1, SubSeqType
    <2>4. f[i] = l[a + i - 1]
      BY <2>1, <2>2, <2>3
    <2> QED BY <2>1, <2>4 DEF i
  <1>7. Head(q) = q[1]
    OBVIOUS
  <1>8. k + Len(w) < Due(t)
    BY <1>1, <1>3, <1>4
  <1>9. Head(q) = l[k + Len(w) + 1]
    BY <1>5, <1>6, <1>7
  <1> QED BY <1>8, <1>9 DEF l, k, w, q

(* The initial states map to initial states. *)
LEMMA RefinesInit == Init => Broadcasting!Init
PROOF
  <1> SUFFICES ASSUME Init PROVE Broadcasting!Init
    OBVIOUS
  <1>1. ASSUME NEW t \in Session PROVE skipped[t] + Len(Feed(t)) = 0
    BY EmptySeq, ConcatEmptySeq DEF Init, Feed
  <1>2. ASSUME NEW t \in Session PROVE Status(t) = "new"
    BY RoomOfAssumption DEF Init, Status
  <1>3. /\ [s \in Session |-> skipped[s] + Len(Feed(s))] = [s \in Session |-> 0]
        /\ [s \in Session |-> Status(s)] = [s \in Session |-> "new"]
    BY <1>1, <1>2
  <1> QED BY <1>3 DEF Init, Broadcasting!Init
(* A step that changes no log, start or feed and nobody's membership is     *)
(* invisible.                                                               *)
LEMMA Stutters ==
  ASSUME UNCHANGED <<log, skipped, wire, write_msgs_>>,
         \A t \in Session : Status(t)' = Status(t)
  PROVE  UNCHANGED Broadcasting!vars
PROOF
  <1>1. \A t \in Session : Feed(t)' = Feed(t)
    BY DEF Feed
  <1> QED BY <1>1 DEF Broadcasting!vars

(* A member that leaves unsubscribes; leaving again is invisible. *)
LEMMA LeaveUnsubscribes ==
  ASSUME Inv, Inv', NEW s \in Session, Leave(s),
         UNCHANGED <<log, skipped, wire, write_msgs_>>,
         \A t \in Session : reading'[t] = "new" <=> reading[t] = "new",
         reading[s] # "new"
  PROVE  Broadcasting!Unsubscribe(s) \/ UNCHANGED Broadcasting!vars
PROOF
  <1> USE RoomOfAssumption
  <1>1. \A t \in Session : t # s => Status(t)' = Status(t)
    BY SMTT(30) DEF Leave, Status, Inv, TypeOK
  <1>2. Status(s)' = "gone"
    BY DEF Leave, Status, Inv, TypeOK
  <1>3. \A t \in Session : Feed(t)' = Feed(t)
    BY DEF Feed
  <1>4. CASE Status(s) = "in"
    BY <1>1, <1>2, <1>3, <1>4 DEF Broadcasting!Unsubscribe
  <1>5. CASE Status(s) # "in"
    <2>1. Status(s) = "gone"
      BY <1>5, StatusValue
    <2> QED BY <1>1, <1>2, <2>1, Stutters
  <1> QED BY <1>4, <1>5

(* Every handler maps to one abstract action, or to nothing.               *)
LEMMA RefinesNext ==
  Inv /\ Inv' /\ [Next]_vars => [Broadcasting!Next]_(Broadcasting!vars)
PROOF
  <1> SUFFICES ASSUME Inv, Inv', [Next]_vars
               PROVE  Broadcasting!Next \/ UNCHANGED Broadcasting!vars
    OBVIOUS
  <1> USE RoomOfAssumption
  <1>1. ASSUME NEW s \in Session, Accept(s) PROVE Broadcasting!Subscribe(s)
    <2> DEFINE r == RoomOf[s]
               n == Len(log[r])
    <2>1. r \in Room /\ n \in Nat /\ Len(recent_msgs_[r]) = Broadcasting!Backlog(n)
      <3>1. r \in Room /\ n \in Nat /\ Len(recent_msgs_[r]) = Kept(r)
        BY RecentLength DEF Inv
      <3>2. Kept(r) = Broadcasting!Backlog(n)
        BY <3>1, BoundAssumption DEF Kept, Broadcasting!Backlog
      <3> QED BY <3>1, <3>2
    <2>2. Status(s) = "new" /\ Status(s)' = "in"
      <3>1. Status(s) = "new"
        BY <1>1, StatusValue DEF Accept, Start, Join
      <3>2. reading'[s] = "header" /\ s \in participants_'[RoomOf[s]]
        BY <1>1 DEF Accept, Start, Join, Inv, TypeOK
      <3> QED BY <3>1, <3>2 DEF Status
    <2>3. \A t \in Session : t # s => Status(t)' = Status(t)
      BY <1>1, SMTT(30) DEF Accept, Start, Join, Status, Inv, TypeOK
    <2>4. \A t \in Session : t # s => skipped'[t] + Len(Feed(t)') = skipped[t] + Len(Feed(t))
      BY <1>1 DEF Accept, Start, Join, Feed, Inv, TypeOK
    <2>5. skipped'[s] + Len(Feed(s)') = n
      BY <1>1 DEF Accept, Start, Join, Inv, FeedInOrder, TypeOK
    <2>6. /\ skipped' = [skipped EXCEPT ![s] = n - Broadcasting!Backlog(n)]
          /\ log' = log /\ wire' = wire
      BY <1>1, <2>1 DEF Accept, Start, Join
    <2> QED BY <2>2, <2>3, <2>4, <2>5, <2>6 DEF Broadcasting!Subscribe
  <1>2. ASSUME NEW s \in Session, ReadHeader(s) PROVE UNCHANGED Broadcasting!vars
    BY <1>2, Stutters DEF ReadHeader, Status, Inv, TypeOK
  <1>3. ASSUME NEW s \in Session, ReadFail(s)
        PROVE  Broadcasting!Unsubscribe(s) \/ UNCHANGED Broadcasting!vars
    BY <1>3, LeaveUnsubscribes DEF ReadFail, Inv, TypeOK
  <1>4. ASSUME NEW s \in Session, NEW m \in Message, ReadBody(s, m)
        PROVE  Broadcasting!Publish(RoomOf[s], m)
    <2> DEFINE r == RoomOf[s]
    <2>1. \A t \in Session : Status(t)' = Status(t)
      BY <1>4 DEF ReadBody, Deliver, Status, Inv, TypeOK
    <2>2. \A t \in Session : t \in Broadcasting!Members(r) <=> t \in Audience(r)
      BY StatusValue DEF Broadcasting!Members, Audience, Inv, MembersAreLive
    <2>3. ASSUME NEW t \in Session, t \in Audience(r)
          PROVE  skipped'[t] + Len(Feed(t)') = skipped[t] + Len(Feed(t)) + 1
      <3>1. /\ wire[t] \in Seq(Message) /\ write_msgs_[t] \in Seq(Message)
            /\ skipped[t] \in Nat
        BY DEF Inv, TypeOK
      <3>2. Len(wire[t] \o (write_msgs_[t] \o <<m>>)) = Len(wire[t] \o write_msgs_[t]) + 1
        BY <3>1, ConcatAppend
      <3>3. Len(wire[t] \o write_msgs_[t]) \in Nat
        BY <3>1, ConcatProperties, LenProperties
      <3>4. Feed(t)' = wire[t] \o (write_msgs_[t] \o <<m>>) /\ skipped' = skipped
        BY <1>4, <2>3 DEF ReadBody, Deliver, Feed, Enqueued
      <3>5. Feed(t) = wire[t] \o write_msgs_[t]
        BY DEF Feed
      <3>6. Len(Feed(t)') = Len(Feed(t)) + 1
        BY <3>2, <3>4, <3>5
      <3>7. skipped'[t] = skipped[t] /\ Len(Feed(t)) \in Nat
        BY <3>3, <3>4, <3>5
      <3>8. \A a, b \in Nat : a + (b + 1) = a + b + 1
        OBVIOUS
      <3> QED BY <3>1, <3>6, <3>7, <3>8, Zenon
    <2>4. ASSUME NEW t \in Session, t \notin Audience(r)
          PROVE  skipped'[t] + Len(Feed(t)') = skipped[t] + Len(Feed(t))
      BY <1>4, <2>4 DEF ReadBody, Deliver, Feed
    <2>5. /\ Len(log[r]) < MaxLog /\ log' = [log EXCEPT ![r] = Append(@, m)]
          /\ skipped' = skipped /\ wire' = wire
      BY <1>4 DEF ReadBody, Deliver
    <2> QED BY <2>1, <2>2, <2>3, <2>4, <2>5 DEF Broadcasting!Publish
  <1>5. ASSUME NEW s \in Session, WriteDone(s) PROVE Broadcasting!Receive(s)
    <2>1. write_msgs_[s] # <<>> /\ inflight[s] = <<Head(write_msgs_[s])>>
      BY <1>5 DEF WriteDone, Inv, WriteChain
    <2>2. /\ Head(write_msgs_[s]) = log[RoomOf[s]][skipped[s] + Len(wire[s]) + 1]
          /\ skipped[s] + Len(wire[s]) < skipped[s] + Len(Feed(s))
      BY <2>1, FrontIsNext DEF Due
    <2>3. /\ wire' = [wire EXCEPT ![s] = Append(@, Head(write_msgs_[s]))]
          /\ write_msgs_' = [write_msgs_ EXCEPT ![s] = Tail(@)]
          /\ UNCHANGED <<log, skipped, reading, participants_>>
      BY <1>5, <2>1 DEF WriteDone, Popped
    <2>4. wire[s] \in Seq(Message) /\ write_msgs_[s] \in Seq(Message)
      BY DEF Inv, TypeOK
    <2>5. \A t \in Session : Feed(t)' = Feed(t)
      <3>1. Feed(s)' = Feed(s)
        <4>1. /\ wire'[s] = Append(wire[s], Head(write_msgs_[s]))
              /\ write_msgs_'[s] = Tail(write_msgs_[s])
          BY <2>3 DEF Inv, TypeOK
        <4> QED BY <2>1, <2>4, <4>1, MoveHead DEF Feed
      <3>2. \A t \in Session : t # s => Feed(t)' = Feed(t)
        BY <2>3 DEF Feed, Inv, TypeOK
      <3> QED BY <3>1, <3>2
    <2>6. \A t \in Session : Status(t)' = Status(t)
      BY <2>3 DEF Status
    <2> QED BY <2>2, <2>3, <2>5, <2>6 DEF Broadcasting!Receive
  <1>6. ASSUME NEW s \in Session, WriteFail(s)
        PROVE  Broadcasting!Unsubscribe(s) \/ UNCHANGED Broadcasting!vars
    <2>1. reading[s] # "new"
      BY <1>6 DEF WriteFail, Inv, NewIsBlank, WriteChain
    <2> QED BY <1>6, <2>1, LeaveUnsubscribes DEF WriteFail
  <1>7. CASE UNCHANGED vars
    BY <1>7, Stutters DEF vars, Status
  <1> QED BY <1>1, <1>2, <1>3, <1>4, <1>5, <1>6, <1>7 DEF Next, Broadcasting!Next, Inv, TypeOK

(* A chat room is a totally ordered broadcast with a bounded replay. *)
THEOREM Refinement == Spec => RoomIsBroadcast
PROOF
  <1>1. Init => Broadcasting!Init
    BY RefinesInit
  <1>2. Inv /\ Inv' /\ [Next]_vars => [Broadcasting!Next]_(Broadcasting!vars)
    BY RefinesNext
  <1> QED BY <1>1, <1>2, Invariance, PTL DEF Spec, RoomIsBroadcast, Broadcasting!Spec

-----------------------------------------------------------------------------
(* ChatSystem.                                                              *)

(* How many lines of a user the server has read.                            *)
Read(s) == typed[s] - Len(up[s])

ClientTypes ==
  /\ up \in [Session -> Seq(Message)]
  /\ down \in [Session -> Seq(Message)]
  /\ screen \in [Session -> Seq(Message)]
  /\ typed \in [Session -> Nat]
  /\ before \in [Message -> SUBSET Message]

(* On the way to the server are the lines typed last, in order.             *)
UpIsTheRest ==
  \A s \in Session :
    /\ Len(up[s]) <= typed[s]
    /\ \A i \in 1 .. Len(up[s]) : up[s][i] = Line(s, Read(s) + i)

(* A log holds lines that the server has read, of users of its room ...     *)
LogIsRead ==
  \A r \in Room :
    \A i \in 1 .. Len(log[r]) :
      \E s \in Session : \E n \in 1 .. Read(s) :
        RoomOf[s] = r /\ log[r][i] = Line(s, n)

(* ... all of them ...                                                      *)
ReadIsLogged ==
  \A s \in Session :
    \A n \in 1 .. Read(s) :
      \E i \in 1 .. Len(log[RoomOf[s]]) : log[RoomOf[s]][i] = Line(s, n)

(* ... and those of one user in the order in which they were typed.         *)
LogAscends ==
  \A r \in Room :
    \A i, j \in 1 .. Len(log[r]) :
      i < j /\ log[r][i][1] = log[r][j][1] => log[r][i][2] < log[r][j][2]

(* What was written to a client is on its screen or about to be printed.    *)
WireIsPrinted == \A s \in Session : screen[s] \o down[s] = wire[s]

(* What a user had on the screen before typing a line is in the log before  *)
(* that line, and in the log at all while the line is on its way.           *)
BeforeComesFirst ==
  /\ \A r \in Room :
       \A j \in 1 .. Len(log[r]) :
         \A m \in before[log[r][j]] : \E i \in 1 .. j - 1 : log[r][i] = m
  /\ \A s \in Session :
       \A j \in 1 .. Len(up[s]) :
         \A m \in before[up[s][j]] :
           \E i \in 1 .. Len(log[RoomOf[s]]) : log[RoomOf[s]][i] = m

(* The inductive invariant: that of the server, and that of the clients.    *)
SystemInv ==
  /\ Inv
  /\ ClientTypes
  /\ UpIsTheRest
  /\ LogIsRead
  /\ ReadIsLogged
  /\ LogAscends
  /\ WireIsPrinted
  /\ BeforeComesFirst

-----------------------------------------------------------------------------
(* What the steps do.                                                       *)

(* The lines of the users are messages.                                     *)
LEMMA LineIsMessage ==
  ASSUME NEW s \in Session, NEW n \in 1 .. MaxTyped[s]
  PROVE  Line(s, n) \in Message
  BY LinesAreMessages

(* How many lines the server has read, by what else is known of a session.  *)
LEMMA ReadType ==
  ASSUME ClientTypes, UpIsTheRest, NEW s \in Session
  PROVE  Read(s) \in Nat /\ Len(up[s]) \in Nat /\ Read(s) + Len(up[s]) = typed[s]
  BY LenProperties DEF ClientTypes, UpIsTheRest, Read

(* The next line that the server reads is the next one the user typed.      *)
LEMMA FrontOfUp ==
  ASSUME ClientTypes, UpIsTheRest, NEW s \in Session, up[s] # <<>>
  PROVE  /\ Head(up[s]) \in Message
         /\ Head(up[s]) = Line(s, Read(s) + 1)
         /\ Tail(up[s]) \in Seq(Message)
         /\ Len(Tail(up[s])) = Len(up[s]) - 1
         /\ \A i \in 1 .. Len(Tail(up[s])) : Tail(up[s])[i] = up[s][i + 1]
PROOF
  <1>1. up[s] \in Seq(Message)
    BY DEF ClientTypes
  <1>2. /\ Head(up[s]) \in Message
        /\ Tail(up[s]) \in Seq(Message)
        /\ Len(Tail(up[s])) = Len(up[s]) - 1
        /\ \A i \in 1 .. Len(Tail(up[s])) : Tail(up[s])[i] = up[s][i + 1]
    BY <1>1, HeadTailProperties
  <1>3. Head(up[s]) = up[s][1] /\ Len(up[s]) \in Nat /\ Len(up[s]) # 0
    BY <1>1, LenProperties, EmptySeq
  <1>4. Head(up[s]) = Line(s, Read(s) + 1)
    BY <1>3 DEF UpIsTheRest
  <1> QED BY <1>2, <1>4

(* What the steps change of the log and of what is on the way to it: a line *)
(* goes out, or the server reads one, or nothing.                           *)
Others(s) == PrintLine(s) \/ Connect(s) \/ HeaderArrives(s) \/ Written(s) \/ Breaks(s)
LEMMA OthersLeaveLog ==
  ASSUME NEW s \in Session, Others(s)
  PROVE  UNCHANGED <<log, up, typed, before>>
  BY DEF Others, PrintLine, Connect, HeaderArrives, Written, Breaks, clientVars,
         vars, Accept, ReadHeader, WriteDone, ReadFail, WriteFail

(* A line goes out: the server has read as many as before.                  *)
LEMMA TypeLineDoes ==
  ASSUME SystemInv, NEW s \in Session, TypeLine(s)
  PROVE  /\ typed[s] + 1 \in 1 .. MaxTyped[s]
         /\ Line(s, typed[s] + 1) \in Message
         /\ log' = log
         /\ typed' = [typed EXCEPT ![s] = typed[s] + 1]
         /\ up' = [up EXCEPT ![s] = Append(up[s], Line(s, typed[s] + 1))]
         /\ before' = [before EXCEPT ![Line(s, typed[s] + 1)] = Range(screen[s])]
         /\ \A t \in Session : Read(t)' = Read(t)
PROOF
  <1>1. typed[s] \in Nat /\ MaxTyped[s] \in Nat /\ up[s] \in Seq(Message)
    BY LinesAreMessages DEF SystemInv, ClientTypes
  <1>2. typed[s] + 1 \in 1 .. MaxTyped[s]
    BY <1>1 DEF TypeLine
  <1>3. Line(s, typed[s] + 1) \in Message
    BY <1>2, LineIsMessage
  <1>4. /\ log' = log
        /\ typed' = [typed EXCEPT ![s] = typed[s] + 1]
        /\ up' = [up EXCEPT ![s] = Append(up[s], Line(s, typed[s] + 1))]
        /\ before' = [before EXCEPT ![Line(s, typed[s] + 1)] = Range(screen[s])]
    BY DEF TypeLine, vars
  <1>5. ASSUME NEW t \in Session PROVE Read(t)' = Read(t)
    <2>1. Len(Append(up[s], Line(s, typed[s] + 1))) = Len(up[s]) + 1 /\ Len(up[s]) \in Nat
      BY <1>1, <1>3, AppendProperties, LenProperties
    <2>2. CASE t = s
      BY <1>1, <1>4, <2>1, <2>2 DEF Read, SystemInv, ClientTypes
    <2>3. CASE t # s
      BY <1>4, <2>3 DEF Read, SystemInv, ClientTypes
    <2> QED BY <2>2, <2>3
  <1> QED BY <1>2, <1>3, <1>4, <1>5

(* The server reads a line, the next one of its user, and logs it.          *)
LEMMA BodyArrivesDoes ==
  ASSUME SystemInv, NEW s \in Session, BodyArrives(s)
  PROVE  /\ up[s] # <<>>
         /\ RoomOf[s] \in Room
         /\ Line(s, Read(s) + 1) \in Message
         /\ log' = [log EXCEPT ![RoomOf[s]] = Append(log[RoomOf[s]], Line(s, Read(s) + 1))]
         /\ up' = [up EXCEPT ![s] = Tail(up[s])]
         /\ typed' = typed /\ before' = before
         /\ Read(s)' = Read(s) + 1
         /\ \A t \in Session : t # s => Read(t)' = Read(t)
PROOF
  <1>1. up[s] # <<>> /\ RoomOf[s] \in Room
    BY RoomOfAssumption DEF BodyArrives
  <1>2. /\ Head(up[s]) \in Message
        /\ Head(up[s]) = Line(s, Read(s) + 1)
        /\ Len(Tail(up[s])) = Len(up[s]) - 1
    BY <1>1, FrontOfUp DEF SystemInv
  <1>3. /\ log' = [log EXCEPT ![RoomOf[s]] = Append(log[RoomOf[s]], Head(up[s]))]
        /\ up' = [up EXCEPT ![s] = Tail(up[s])]
        /\ typed' = typed /\ before' = before
    BY DEF BodyArrives, ReadBody
  <1>4. Len(up[s]) \in Nat /\ typed[s] \in Nat
    BY LenProperties DEF SystemInv, ClientTypes
  <1>5. Read(s)' = Read(s) + 1
    BY <1>2, <1>3, <1>4 DEF Read, SystemInv, ClientTypes
  <1>6. ASSUME NEW t \in Session, t # s PROVE Read(t)' = Read(t)
    BY <1>3, <1>6 DEF Read, SystemInv, ClientTypes
  <1> QED BY <1>1, <1>2, <1>3, <1>5, <1>6

(* What a screen shows is a stretch of the room's log.                      *)
LEMMA OnScreen ==
  ASSUME Inv, ClientTypes, WireIsPrinted, NEW s \in Session,
         NEW i \in 1 .. Len(screen[s])
  PROVE  /\ skipped[s] \in Nat
         /\ skipped[s] + i \in 1 .. Len(log[RoomOf[s]])
         /\ screen[s][i] = log[RoomOf[s]][skipped[s] + i]
PROOF
  <1> DEFINE r == RoomOf[s]
             n == skipped[s] + Len(Feed(s))
             l == log[r]
             w == wire[s]
             d == down[s]
             q == write_msgs_[s]
             c == screen[s]
  <1>1. /\ r \in Room /\ l \in Seq(Message) /\ w \in Seq(Message)
        /\ skipped[s] \in Nat /\ q \in Seq(Message)
        /\ c \in Seq(Message) /\ d \in Seq(Message) /\ i \in Nat \ {0}
    BY RoomOfAssumption, LenProperties DEF Inv, TypeOK, ClientTypes
  <1>2. w = c \o d /\ Feed(s) = w \o q
    BY DEF WireIsPrinted, Feed
  <1>3. n <= Len(l) /\ Feed(s) = SubSeq(l, skipped[s] + 1, n)
    BY DEF Inv, FeedInOrder
  <1>4. i <= Len(c)
    OBVIOUS
  <1> HIDE DEF l, w, d, q, c
  <1>5. Len(w) = Len(c) + Len(d) /\ w[i] = c[i]
    <2>1. Len(c \o d) = Len(c) + Len(d)
      BY <1>1, ConcatProperties
    <2>2. (c \o d)[i] = c[i]
      BY <1>1, <1>4, ConcatProperties, LenProperties
    <2> QED BY <1>2, <2>1, <2>2
  <1>6. Len(Feed(s)) = Len(w) + Len(q) /\ Feed(s)[i] = w[i]
    <2>1. Len(w \o q) = Len(w) + Len(q)
      BY <1>1, ConcatProperties
    <2>2. i \in 1 .. Len(w)
      BY <1>1, <1>4, <1>5, LenProperties
    <2>3. (w \o q)[i] = w[i]
      BY <1>1, <2>2, ConcatProperties, LenProperties
    <2> QED BY <1>2, <2>1, <2>3
  <1>7. /\ Len(l) \in Nat /\ n \in Nat /\ skipped[s] + i <= n
        /\ i \in 1 .. n - (skipped[s] + 1) + 1
    <2> DEFINE f == Len(Feed(s))
    <2>1. /\ Len(l) \in Nat /\ Len(w) \in Nat /\ Len(q) \in Nat /\ Len(c) \in Nat
          /\ Len(d) \in Nat
      BY <1>1, LenProperties
    <2>2. f \in Nat /\ i <= f
      BY <1>1, <1>4, <1>5, <1>6, <2>1
    <2> HIDE DEF f
    <2>3. n = skipped[s] + f
      BY DEF n, f
    <2> HIDE DEF n
    <2> QED BY <1>1, <2>1, <2>2, <2>3, SMTT(30)
  <1>8. Feed(s)[i] = l[skipped[s] + 1 + i - 1]
    <2> DEFINE k == skipped[s] + 1
    <2> HIDE DEF n
    <2>1. k \in Nat \ {0} /\ i \in 1 .. n - k + 1
      BY <1>1, <1>7, SMTT(30)
    <2> HIDE DEF k
    <2>2. SubSeq(l, k, n)[i] = l[k + i - 1]
      BY <1>1, <1>3, <1>7, <2>1, SubSeqType
    <2> QED BY <1>3, <2>2 DEF k
  <1>9. skipped[s] + 1 + i - 1 = skipped[s] + i
    BY <1>1
  <1>10. skipped[s] + i \in 1 .. Len(l)
    <2> HIDE DEF n
    <2> QED BY <1>1, <1>3, <1>7, SMTT(30)
  <1>11. c[i] = l[skipped[s] + i]
    BY <1>5, <1>6, <1>8, <1>9
  <1> QED BY <1>1, <1>10, <1>11 DEF c, l

(* A step of the system is a step of the server, or the server stands still. *)
LEMMA ServerStep == SystemInv /\ SystemNext => [Next]_vars
PROOF
  <1> SUFFICES ASSUME SystemInv, SystemNext PROVE [Next]_vars
    OBVIOUS
  <1>1. ASSUME NEW s \in Session, TypeLine(s) \/ PrintLine(s)
        PROVE  UNCHANGED vars
    BY <1>1 DEF TypeLine, PrintLine
  <1>2. ASSUME NEW s \in Session, Connect(s)       PROVE Next
    BY <1>2 DEF Connect, Next
  <1>3. ASSUME NEW s \in Session, HeaderArrives(s) PROVE Next
    BY <1>3 DEF HeaderArrives, Next
  <1>4. ASSUME NEW s \in Session, BodyArrives(s)   PROVE Next
    <2>1. Head(up[s]) \in Message
      BY <1>4, FrontOfUp DEF BodyArrives, SystemInv
    <2> QED BY <1>4, <2>1 DEF BodyArrives, Next
  <1>5. ASSUME NEW s \in Session, Written(s)       PROVE Next
    BY <1>5 DEF Written, Next
  <1>6. ASSUME NEW s \in Session, Breaks(s)        PROVE Next
    BY <1>6 DEF Breaks, Next
  <1> QED BY <1>1, <1>2, <1>3, <1>4, <1>5, <1>6 DEF SystemNext

-----------------------------------------------------------------------------
(* Preservation.  Each lemma looks at TypeLine, which sends a line out, and *)
(* BodyArrives, which logs one, where OthersLeaveLog does not suffice.      *)

(* A step, by what OthersLeaveLog knows of it.                              *)
LEMMA StepKinds ==
  ASSUME SystemNext
  PROVE  \E s \in Session : TypeLine(s) \/ BodyArrives(s) \/ Others(s)
  BY DEF SystemNext, Others

(* The clients' state stays within its types.                               *)
LEMMA ClientTypesNext == SystemInv /\ SystemNext => ClientTypes'
PROOF
  <1> SUFFICES ASSUME SystemInv, SystemNext PROVE ClientTypes'
    OBVIOUS
  <1>1. ClientTypes /\ TypeOK
    BY DEF SystemInv, Inv
  <1>2. ASSUME NEW s \in Session, TypeLine(s) PROVE ClientTypes'
    <2>1. Append(up[s], Line(s, typed[s] + 1)) \in Seq(Message)
      BY <1>1, <1>2, TypeLineDoes, AppendProperties DEF ClientTypes
    <2>2. Range(screen[s]) \in SUBSET Message
      BY <1>1, ElementOfSeq, LenProperties DEF ClientTypes, Range
    <2>3. down' = down /\ screen' = screen
      BY <1>2 DEF TypeLine
    <2>4. /\ typed[s] + 1 \in Nat
          /\ typed' = [typed EXCEPT ![s] = typed[s] + 1]
          /\ up' = [up EXCEPT ![s] = Append(up[s], Line(s, typed[s] + 1))]
          /\ before' = [before EXCEPT ![Line(s, typed[s] + 1)] = Range(screen[s])]
      BY <1>1, <1>2, TypeLineDoes DEF ClientTypes
    <2>5. up' \in [Session -> Seq(Message)] /\ typed' \in [Session -> Nat]
      BY <1>1, <2>1, <2>4 DEF ClientTypes
    <2>6. before' \in [Message -> SUBSET Message]
      BY <1>1, <2>2, <2>4 DEF ClientTypes
    <2> QED BY <1>1, <2>3, <2>5, <2>6 DEF ClientTypes
  <1>3. ASSUME NEW s \in Session, BodyArrives(s) PROVE ClientTypes'
    <2>1. Tail(up[s]) \in Seq(Message)
      BY <1>1, <1>3, BodyArrivesDoes, HeadTailProperties DEF ClientTypes
    <2> QED BY <1>1, <1>3, <2>1 DEF BodyArrives, ClientTypes
  <1>4. ASSUME NEW s \in Session, PrintLine(s) PROVE ClientTypes'
    <2>1. /\ Append(screen[s], Head(down[s])) \in Seq(Message)
          /\ Tail(down[s]) \in Seq(Message)
      BY <1>1, <1>4, HeadTailProperties, AppendProperties DEF PrintLine, ClientTypes
    <2> QED BY <1>1, <1>4, <2>1 DEF PrintLine, ClientTypes
  <1>5. ASSUME NEW s \in Session, Written(s) PROVE ClientTypes'
    <2>1. Append(down[s], Head(inflight[s])) \in Seq(Message)
      BY <1>1, <1>5, HeadTailProperties, AppendProperties
         DEF Written, WriteDone, ClientTypes, TypeOK
    <2> QED BY <1>1, <1>5, <2>1 DEF Written, ClientTypes
  <1>6. ASSUME NEW s \in Session, Connect(s) \/ HeaderArrives(s) \/ Breaks(s)
        PROVE  ClientTypes'
    BY <1>1, <1>6 DEF Connect, HeaderArrives, Breaks, clientVars, ClientTypes
  <1> QED BY <1>2, <1>3, <1>4, <1>5, <1>6 DEF SystemNext

(* What leaves the wire arrives on the screen, in order.                    *)
LEMMA WireNext == SystemInv /\ SystemNext => WireIsPrinted'
PROOF
  <1> SUFFICES ASSUME SystemInv, SystemNext PROVE WireIsPrinted'
    OBVIOUS
  <1>1. ClientTypes /\ TypeOK /\ WireIsPrinted
    BY DEF SystemInv, Inv
  <1>2. ASSUME NEW s \in Session, PrintLine(s) PROVE WireIsPrinted'
    <2>1. screen[s] \in Seq(Message) /\ down[s] \in Seq(Message) /\ down[s] # <<>>
      BY <1>1, <1>2 DEF ClientTypes, PrintLine
    <2>2. Append(screen[s], Head(down[s])) \o Tail(down[s]) = screen[s] \o down[s]
      BY <2>1, MoveHead
    <2>3. /\ screen' = [screen EXCEPT ![s] = Append(screen[s], Head(down[s]))]
          /\ down' = [down EXCEPT ![s] = Tail(down[s])]
          /\ wire' = wire
      BY <1>2 DEF PrintLine, vars
    <2>4. screen'[s] \o down'[s] = screen[s] \o down[s]
      BY <1>1, <2>2, <2>3 DEF ClientTypes
    <2>5. \A t \in Session : t # s => screen'[t] = screen[t] /\ down'[t] = down[t]
      BY <1>1, <2>3 DEF ClientTypes
    <2> QED BY <1>1, <2>3, <2>4, <2>5 DEF WireIsPrinted
  <1>3. ASSUME NEW s \in Session, Written(s) PROVE WireIsPrinted'
    <2> DEFINE m == Head(inflight[s])
    <2>1. /\ screen[s] \in Seq(Message) /\ down[s] \in Seq(Message)
          /\ wire[s] \in Seq(Message) /\ m \in Message
      BY <1>1, <1>3, HeadTailProperties DEF ClientTypes, TypeOK, Written, WriteDone
    <2>2. /\ wire' = [wire EXCEPT ![s] = Append(wire[s], m)]
          /\ down' = [down EXCEPT ![s] = Append(down[s], m)]
          /\ screen' = screen
      BY <1>3 DEF Written, WriteDone
    <2> HIDE DEF m
    <2>3. screen[s] \o Append(down[s], m) = Append(wire[s], m)
      <3>1. /\ Append(down[s], m) = down[s] \o <<m>>
            /\ Append(wire[s], m) = wire[s] \o <<m>>
        BY <2>1, AppendIsConcat
      <3>2. wire[s] = screen[s] \o down[s]
        BY <1>1 DEF WireIsPrinted
      <3>3. screen[s] \o (down[s] \o <<m>>) = (screen[s] \o down[s]) \o <<m>>
        <4>1. \A c, d \in Seq(Message) : c \o (d \o <<m>>) = (c \o d) \o <<m>>
          BY <2>1, ConcatAppend
        <4> QED BY <2>1, <4>1
      <3> QED BY <3>1, <3>2, <3>3
    <2>4. screen'[s] \o down'[s] = wire'[s]
      BY <1>1, <2>2, <2>3 DEF ClientTypes, TypeOK
    <2>5. \A t \in Session : t # s => down'[t] = down[t] /\ wire'[t] = wire[t]
      BY <1>1, <2>2 DEF ClientTypes, TypeOK
    <2> QED BY <1>1, <2>2, <2>4, <2>5 DEF WireIsPrinted
  <1>4. ASSUME NEW s \in Session,
               \/ TypeLine(s) \/ BodyArrives(s) \/ Connect(s)
               \/ HeaderArrives(s) \/ Breaks(s)
        PROVE  screen' = screen /\ down' = down /\ wire' = wire
    BY <1>4 DEF TypeLine, BodyArrives, Connect, HeaderArrives, Breaks, clientVars,
                vars, Accept, ReadHeader, ReadBody, ReadFail, WriteFail
  <1>5. CASE screen' = screen /\ down' = down /\ wire' = wire
    BY <1>1, <1>5 DEF WireIsPrinted
  <1> QED BY <1>2, <1>3, <1>4, <1>5 DEF SystemNext

(* A connection is a FIFO: the lines on their way to the server are those   *)
(* that it has not read, in order.                                          *)
LEMMA UpNext == SystemInv /\ SystemNext => UpIsTheRest'
PROOF
  <1> SUFFICES ASSUME SystemInv, SystemNext, NEW t \in Session
               PROVE  /\ Len(up'[t]) <= typed'[t]
                      /\ \A i \in 1 .. Len(up'[t]) : up'[t][i] = Line(t, Read(t)' + i)
    BY DEF UpIsTheRest
  <1>1. /\ ClientTypes /\ UpIsTheRest
        /\ up[t] \in Seq(Message) /\ typed[t] \in Nat /\ Len(up[t]) \in Nat
        /\ Read(t) \in Nat /\ Read(t) + Len(up[t]) = typed[t]
        /\ Len(up[t]) <= typed[t]
        /\ \A i \in 1 .. Len(up[t]) : up[t][i] = Line(t, Read(t) + i)
    BY ReadType DEF SystemInv, ClientTypes, UpIsTheRest
  <1>2. ASSUME NEW s \in Session, TypeLine(s), s = t
        PROVE  /\ Len(up'[t]) <= typed'[t]
               /\ \A i \in 1 .. Len(up'[t]) : up'[t][i] = Line(t, Read(t)' + i)
    <2> DEFINE m == Line(t, typed[t] + 1)
    <2>1. /\ m \in Message /\ Read(t)' = Read(t)
          /\ up'[t] = Append(up[t], m) /\ typed'[t] = typed[t] + 1
      BY <1>1, <1>2, TypeLineDoes DEF ClientTypes
    <2>2. m = Line(t, Read(t) + (Len(up[t]) + 1))
      BY <1>1
    <2> HIDE DEF m
    <2>3. /\ Len(Append(up[t], m)) = Len(up[t]) + 1
          /\ Append(up[t], m)[Len(up[t]) + 1] = m
          /\ \A i \in 1 .. Len(up[t]) : Append(up[t], m)[i] = up[t][i]
      BY <1>1, <2>1, AppendProperties
    <2> QED BY <1>1, <2>1, <2>2, <2>3, SMTT(30)
  <1>3. ASSUME NEW s \in Session, BodyArrives(s), s = t
        PROVE  /\ Len(up'[t]) <= typed'[t]
               /\ \A i \in 1 .. Len(up'[t]) : up'[t][i] = Line(t, Read(t)' + i)
    <2>1. /\ up[t] # <<>> /\ typed'[t] = typed[t] /\ Read(t)' = Read(t) + 1
          /\ up'[t] = Tail(up[t])
      BY <1>1, <1>3, BodyArrivesDoes DEF ClientTypes
    <2>2. /\ Len(Tail(up[t])) = Len(up[t]) - 1
          /\ \A i \in 1 .. Len(Tail(up[t])) : Tail(up[t])[i] = up[t][i + 1]
      BY <1>1, <2>1, FrontOfUp
    <2>3. \A i \in 1 .. Len(up[t]) - 1 :
            up[t][i + 1] = Line(t, Read(t) + (i + 1)) /\ Read(t) + (i + 1) = Read(t) + 1 + i
      BY <1>1
    <2> QED BY <1>1, <2>1, <2>2, <2>3
  <1>4. ASSUME NEW s \in Session, TypeLine(s) \/ BodyArrives(s) \/ Others(s),
               s = t => Others(s)
        PROVE  up'[t] = up[t] /\ typed'[t] = typed[t] /\ Read(t)' = Read(t)
    <2>1. up'[t] = up[t] /\ typed'[t] = typed[t]
      BY <1>1, <1>4, TypeLineDoes, BodyArrivesDoes, OthersLeaveLog DEF ClientTypes
    <2> QED BY <2>1 DEF Read
  <1> QED BY <1>1, <1>2, <1>3, <1>4, StepKinds

(* The log of the room that gets a line, and the logs of the others.        *)
LEMMA LogGrows ==
  ASSUME SystemInv, NEW s \in Session, BodyArrives(s)
  PROVE  /\ Len(log[RoomOf[s]]) \in Nat
         /\ Len(log'[RoomOf[s]]) = Len(log[RoomOf[s]]) + 1
         /\ log'[RoomOf[s]][Len(log[RoomOf[s]]) + 1] = Line(s, Read(s) + 1)
         /\ \A i \in 1 .. Len(log[RoomOf[s]]) :
              log'[RoomOf[s]][i] = log[RoomOf[s]][i]
         /\ \A r \in Room : r # RoomOf[s] => log'[r] = log[r]
PROOF
  <1> DEFINE l == log[RoomOf[s]]
             m == Line(s, Read(s) + 1)
  <1>1. /\ RoomOf[s] \in Room /\ m \in Message
        /\ log' = [log EXCEPT ![RoomOf[s]] = Append(l, m)]
        /\ log \in [Room -> Seq(Message)]
    BY BodyArrivesDoes DEF SystemInv, Inv, TypeOK
  <1> HIDE DEF m
  <1>2. log'[RoomOf[s]] = Append(l, m) /\ l \in Seq(Message)
    BY <1>1
  <1> HIDE DEF l
  <1>3. /\ Len(l) \in Nat /\ Len(Append(l, m)) = Len(l) + 1
        /\ Append(l, m)[Len(l) + 1] = m
        /\ \A i \in 1 .. Len(l) : Append(l, m)[i] = l[i]
    BY <1>1, <1>2, AppendProperties, LenProperties
  <1>4. \A r \in Room : r # RoomOf[s] => log'[r] = log[r]
    BY <1>1
  <1> QED BY <1>2, <1>3, <1>4 DEF l, m

(* The server reads at most one line, and un-reads none.                    *)
LEMMA ReadGrows ==
  ASSUME SystemInv, SystemNext, NEW t \in Session
  PROVE  /\ Read(t) \in Nat /\ Read(t)' \in Nat /\ Read(t) <= Read(t)'
         /\ Read(t)' # Read(t) => BodyArrives(t) /\ Read(t)' = Read(t) + 1
PROOF
  <1>1. Read(t) \in Nat
    BY ReadType DEF SystemInv
  <1>2. ASSUME NEW s \in Session, TypeLine(s) PROVE Read(t)' = Read(t)
    BY <1>2, TypeLineDoes
  <1>3. ASSUME NEW s \in Session, BodyArrives(s)
        PROVE  Read(t)' = Read(t) \/ (s = t /\ Read(t)' = Read(t) + 1)
    BY <1>3, BodyArrivesDoes
  <1>4. ASSUME NEW s \in Session, Others(s) PROVE Read(t)' = Read(t)
    BY <1>4, OthersLeaveLog DEF Read
  <1> QED BY <1>1, <1>2, <1>3, <1>4, StepKinds

(* A log only grows: what is in it stays where it is.                       *)
LEMMA LogStays ==
  ASSUME SystemInv, SystemNext, NEW r \in Room
  PROVE  /\ Len(log[r]) \in Nat /\ Len(log'[r]) \in Nat
         /\ Len(log[r]) <= Len(log'[r])
         /\ \A i \in 1 .. Len(log[r]) : log'[r][i] = log[r][i]
         /\ \A i \in 1 .. Len(log'[r]) :
              \/ i \in 1 .. Len(log[r])
              \/ /\ i = Len(log[r]) + 1
                 /\ \E s \in Session : /\ BodyArrives(s) /\ RoomOf[s] = r
                                       /\ log'[r][i] = Line(s, Read(s) + 1)
PROOF
  <1>1. Len(log[r]) \in Nat
    BY LenProperties DEF SystemInv, Inv, TypeOK
  <1>2. ASSUME NEW s \in Session, TypeLine(s) \/ Others(s) PROVE log' = log
    BY <1>2, TypeLineDoes, OthersLeaveLog
  <1>3. ASSUME NEW s \in Session, BodyArrives(s), RoomOf[s] # r PROVE log'[r] = log[r]
    BY <1>3, LogGrows
  <1>4. CASE log'[r] = log[r]
    BY <1>1, <1>4
  <1>5. ASSUME NEW s \in Session, BodyArrives(s), RoomOf[s] = r
        PROVE  /\ Len(log'[r]) = Len(log[r]) + 1
               /\ log'[r][Len(log[r]) + 1] = Line(s, Read(s) + 1)
               /\ \A i \in 1 .. Len(log[r]) : log'[r][i] = log[r][i]
    BY <1>5, LogGrows
  <1>6. CASE \E s \in Session : BodyArrives(s) /\ RoomOf[s] = r
    BY <1>1, <1>5, <1>6
  <1> QED BY <1>2, <1>3, <1>4, <1>6, StepKinds

(* What is new in a log is a line that was read in this step.               *)
LEMMA LogIsReadNext == SystemInv /\ SystemNext => LogIsRead'
PROOF
  <1> SUFFICES ASSUME SystemInv, SystemNext, NEW r \in Room, NEW i \in 1 .. Len(log'[r])
               PROVE  \E s \in Session : \E n \in 1 .. Read(s)' :
                        RoomOf[s] = r /\ log'[r][i] = Line(s, n)
    BY DEF LogIsRead
  <1>1. CASE i \in 1 .. Len(log[r])
    <2>1. PICK s \in Session : \E n \in 1 .. Read(s) :
                 RoomOf[s] = r /\ log[r][i] = Line(s, n)
      BY <1>1 DEF SystemInv, LogIsRead
    <2>2. PICK n \in 1 .. Read(s) : RoomOf[s] = r /\ log[r][i] = Line(s, n)
      BY <2>1
    <2>3. n \in 1 .. Read(s)'
      BY ReadGrows
    <2>4. log'[r][i] = Line(s, n)
      BY <1>1, <2>2, LogStays
    <2> QED BY <2>2, <2>3, <2>4
  <1>2. ASSUME NEW s \in Session, BodyArrives(s), RoomOf[s] = r,
               log'[r][i] = Line(s, Read(s) + 1)
        PROVE  \E n \in 1 .. Read(s)' : RoomOf[s] = r /\ log'[r][i] = Line(s, n)
    <2>1. Read(s)' = Read(s) + 1 /\ Read(s) \in Nat
      BY <1>2, BodyArrivesDoes, ReadGrows
    <2>2. Read(s) + 1 \in 1 .. Read(s)'
      BY <2>1
    <2> QED BY <1>2, <2>2
  <1> QED BY <1>1, <1>2, LogStays

(* What is read is logged in the same step.                                 *)
LEMMA ReadIsLoggedNext == SystemInv /\ SystemNext => ReadIsLogged'
PROOF
  <1> SUFFICES ASSUME SystemInv, SystemNext, NEW s \in Session, NEW n \in 1 .. Read(s)'
               PROVE  \E i \in 1 .. Len(log'[RoomOf[s]]) : log'[RoomOf[s]][i] = Line(s, n)
    BY DEF ReadIsLogged
  <1>1. RoomOf[s] \in Room
    BY RoomOfAssumption
  <1>2. CASE n \in 1 .. Read(s)
    <2>1. PICK i \in 1 .. Len(log[RoomOf[s]]) : log[RoomOf[s]][i] = Line(s, n)
      BY <1>2 DEF SystemInv, ReadIsLogged
    <2>2. i \in 1 .. Len(log'[RoomOf[s]]) /\ log'[RoomOf[s]][i] = log[RoomOf[s]][i]
      BY <1>1, LogStays
    <2> QED BY <2>1, <2>2
  <1>3. CASE n \notin 1 .. Read(s)
    <2>1. BodyArrives(s) /\ n = Read(s) + 1
      BY <1>3, ReadGrows
    <2>2. /\ Len(log[RoomOf[s]]) \in Nat
          /\ Len(log'[RoomOf[s]]) = Len(log[RoomOf[s]]) + 1
          /\ log'[RoomOf[s]][Len(log[RoomOf[s]]) + 1] = Line(s, n)
      BY <2>1, LogGrows
    <2> QED BY <2>2
  <1> QED BY <1>2, <1>3

(* The line that is logged is younger than all of its author's before.      *)
LEMMA AscendsNext == SystemInv /\ SystemNext => LogAscends'
PROOF
  <1> SUFFICES ASSUME SystemInv, SystemNext, NEW r \in Room,
                      NEW i \in 1 .. Len(log'[r]), NEW j \in 1 .. Len(log'[r]),
                      i < j, log'[r][i][1] = log'[r][j][1]
               PROVE  log'[r][i][2] < log'[r][j][2]
    BY DEF LogAscends
  <1>1. CASE j \in 1 .. Len(log[r])
    <2>1. i \in 1 .. Len(log[r])
      BY <1>1, LogStays
    <2>2. log'[r][i] = log[r][i] /\ log'[r][j] = log[r][j]
      BY <1>1, <2>1, LogStays
    <2> QED BY <1>1, <2>1, <2>2 DEF SystemInv, LogAscends
  <1>2. ASSUME NEW s \in Session, BodyArrives(s), RoomOf[s] = r,
               log'[r][j] = Line(s, Read(s) + 1), j = Len(log[r]) + 1
        PROVE  log'[r][i][2] < log'[r][j][2]
    <2>1. i \in 1 .. Len(log[r]) /\ log'[r][i] = log[r][i]
      BY <1>2, LogStays
    <2>2. PICK t \in Session : \E n \in 1 .. Read(t) : log[r][i] = Line(t, n)
      BY <2>1 DEF SystemInv, LogIsRead
    <2>3. PICK n \in 1 .. Read(t) : log'[r][i][1] = t /\ log'[r][i][2] = n
      BY <2>1, <2>2 DEF Line
    <2>4. log'[r][j][1] = s /\ log'[r][j][2] = Read(s) + 1
      BY <1>2 DEF Line
    <2>5. t = s /\ Read(s) \in Nat
      BY <2>3, <2>4, ReadGrows
    <2> QED BY <2>3, <2>4, <2>5
  <1> QED BY <1>1, <1>2, LogStays

(* What is on the way to the server was, or has just been typed.            *)
LEMMA UpStays ==
  ASSUME SystemInv, SystemNext, NEW t \in Session, NEW j \in 1 .. Len(up'[t])
  PROVE  \/ \E k \in 1 .. Len(up[t]) : up'[t][j] = up[t][k]
         \/ TypeLine(t) /\ up'[t][j] = Line(t, typed[t] + 1)
PROOF
  <1>1. /\ up \in [Session -> Seq(Message)]
        /\ up[t] \in Seq(Message) /\ Len(up[t]) \in Nat
    BY LenProperties DEF SystemInv, ClientTypes
  <1>2. ASSUME TypeLine(t)
        PROVE  \/ \E k \in 1 .. Len(up[t]) : up'[t][j] = up[t][k]
               \/ TypeLine(t) /\ up'[t][j] = Line(t, typed[t] + 1)
    <2> DEFINE m == Line(t, typed[t] + 1)
    <2>1. m \in Message /\ up'[t] = Append(up[t], m)
      BY <1>1, <1>2, TypeLineDoes
    <2> HIDE DEF m
    <2>2. /\ Len(Append(up[t], m)) = Len(up[t]) + 1
          /\ Append(up[t], m)[Len(up[t]) + 1] = m
          /\ \A i \in 1 .. Len(up[t]) : Append(up[t], m)[i] = up[t][i]
      BY <1>1, <2>1, AppendProperties
    <2>3. j \in 1 .. Len(up[t]) \/ j = Len(up[t]) + 1
      BY <1>1, <2>1, <2>2
    <2> QED BY <1>2, <2>1, <2>2, <2>3 DEF m
  <1>3. ASSUME BodyArrives(t)
        PROVE  \E k \in 1 .. Len(up[t]) : up'[t][j] = up[t][k]
    <2>1. up[t] # <<>> /\ up'[t] = Tail(up[t])
      BY <1>1, <1>3, BodyArrivesDoes
    <2>2. /\ Len(Tail(up[t])) = Len(up[t]) - 1
          /\ \A i \in 1 .. Len(Tail(up[t])) : Tail(up[t])[i] = up[t][i + 1]
      BY <1>1, <2>1, HeadTailProperties
    <2>3. j + 1 \in 1 .. Len(up[t])
      BY <1>1, <2>1, <2>2
    <2> QED BY <2>1, <2>2, <2>3
  <1>4. ASSUME NEW s \in Session, TypeLine(s) \/ BodyArrives(s) \/ Others(s),
               s = t => Others(s)
        PROVE  up'[t] = up[t]
    BY <1>1, <1>4, TypeLineDoes, BodyArrivesDoes, OthersLeaveLog
  <1> QED BY <1>2, <1>3, <1>4, StepKinds

(* What was on the screen when a line was typed is not changed afterwards.  *)
LEMMA BeforeStays ==
  ASSUME SystemInv, SystemNext
  PROVE  /\ \A r \in Room : \A j \in 1 .. Len(log[r]) :
              before'[log[r][j]] = before[log[r][j]]
         /\ \A t \in Session : \A j \in 1 .. Len(up[t]) :
              before'[up[t][j]] = before[up[t][j]]
         /\ \A t \in Session : TypeLine(t)
              => before'[Line(t, typed[t] + 1)] = Range(screen[t])
PROOF
  <1>1. /\ before \in [Message -> SUBSET Message]
        /\ log \in [Room -> Seq(Message)] /\ up \in [Session -> Seq(Message)]
        /\ \A t \in Session : /\ typed[t] \in Nat /\ Read(t) \in Nat
                              /\ Len(up[t]) \in Nat /\ Read(t) + Len(up[t]) = typed[t]
    BY ReadType DEF SystemInv, Inv, TypeOK, ClientTypes
  <1>2. ASSUME NEW s \in Session, TypeLine(s), NEW m \in Message, m # Line(s, typed[s] + 1)
        PROVE  before'[m] = before[m]
    BY <1>1, <1>2, TypeLineDoes
  <1>3. ASSUME NEW s \in Session, NEW r \in Room, NEW j \in 1 .. Len(log[r])
        PROVE  log[r][j] \in Message /\ log[r][j] # Line(s, typed[s] + 1)
    <2>1. log[r][j] \in Message
      BY <1>1, ElementOfSeq
    <2>2. PICK t \in Session : \E n \in 1 .. Read(t) : log[r][j] = Line(t, n)
      BY DEF SystemInv, LogIsRead
    <2> QED BY <1>1, <2>1, <2>2 DEF Line
  <1>4. ASSUME NEW s \in Session, NEW t \in Session, NEW j \in 1 .. Len(up[t])
        PROVE  up[t][j] \in Message /\ up[t][j] # Line(s, typed[s] + 1)
    <2>1. up[t][j] \in Message
      BY <1>1, ElementOfSeq
    <2>2. up[t][j] = Line(t, Read(t) + j) /\ Read(t) + j <= typed[t]
      BY <1>1 DEF SystemInv, UpIsTheRest
    <2> QED BY <1>1, <2>1, <2>2 DEF Line
  <1>5. ASSUME NEW s \in Session, BodyArrives(s) \/ Others(s)
        PROVE  before' = before
    BY <1>5, BodyArrivesDoes, OthersLeaveLog
  <1>6. ASSUME NEW t \in Session, TypeLine(t)
        PROVE  before'[Line(t, typed[t] + 1)] = Range(screen[t])
    BY <1>1, <1>6, TypeLineDoes
  <1>7. CASE before' = before
    BY <1>6, <1>7
  <1>8. CASE \E s \in Session : TypeLine(s)
    BY <1>2, <1>3, <1>4, <1>6, <1>8
  <1> QED BY <1>5, <1>7, <1>8, StepKinds

(* What was on the screen comes first in the log, as the line is logged at  *)
(* the end, after all that its author had seen.                             *)
LEMMA BeforeNext == SystemInv /\ SystemNext => BeforeComesFirst'
PROOF
  <1> SUFFICES ASSUME SystemInv, SystemNext PROVE BeforeComesFirst'
    OBVIOUS
  <1>1. BeforeComesFirst /\ UpIsTheRest
    BY DEF SystemInv
  <1>2. ASSUME NEW r \in Room, NEW j \in 1 .. Len(log'[r]),
               NEW m \in before'[log'[r][j]]
        PROVE  \E i \in 1 .. j - 1 : log'[r][i] = m
    <2>1. CASE j \in 1 .. Len(log[r])
      <3>1. log'[r][j] = log[r][j] /\ m \in before[log[r][j]]
        BY <2>1, LogStays, BeforeStays
      <3>2. PICK i \in 1 .. j - 1 : log[r][i] = m
        BY <1>1, <2>1, <3>1 DEF BeforeComesFirst
      <3>3. i \in 1 .. Len(log[r])
        BY <2>1, LogStays
      <3> QED BY <3>2, <3>3, LogStays
    <2>2. ASSUME NEW s \in Session, BodyArrives(s), RoomOf[s] = r,
                 log'[r][j] = Line(s, Read(s) + 1), j = Len(log[r]) + 1
          PROVE  \E i \in 1 .. j - 1 : log'[r][i] = m
      <3>1. up[s] # <<>> /\ before' = before
        BY <2>2, BodyArrivesDoes
      <3>2. 1 \in 1 .. Len(up[s])
        BY <3>1, EmptySeq, LenProperties DEF SystemInv, ClientTypes
      <3>3. up[s][1] = Line(s, Read(s) + 1)
        BY <1>1, <3>2 DEF UpIsTheRest
      <3>4. m \in before[up[s][1]]
        BY <2>2, <3>1, <3>3
      <3>5. PICK i \in 1 .. Len(log[r]) : log[r][i] = m
        BY <1>1, <2>2, <3>2, <3>4 DEF BeforeComesFirst
      <3>6. i \in 1 .. j - 1
        BY <2>2, LogStays
      <3> QED BY <3>5, <3>6, LogStays
    <2> QED BY <2>1, <2>2, LogStays
  <1>3. ASSUME NEW s \in Session, NEW j \in 1 .. Len(up'[s]),
               NEW m \in before'[up'[s][j]]
        PROVE  \E i \in 1 .. Len(log'[RoomOf[s]]) : log'[RoomOf[s]][i] = m
    <2>1. RoomOf[s] \in Room
      BY RoomOfAssumption
    <2>2. ASSUME NEW i \in 1 .. Len(log[RoomOf[s]]), log[RoomOf[s]][i] = m
          PROVE  i \in 1 .. Len(log'[RoomOf[s]]) /\ log'[RoomOf[s]][i] = m
      BY <2>1, <2>2, LogStays
    <2>3. ASSUME NEW k \in 1 .. Len(up[s]), up'[s][j] = up[s][k]
          PROVE  \E i \in 1 .. Len(log[RoomOf[s]]) : log[RoomOf[s]][i] = m
      <3>1. m \in before[up[s][k]]
        BY <2>3, BeforeStays
      <3> QED BY <1>1, <3>1 DEF BeforeComesFirst
    <2>4. ASSUME TypeLine(s), up'[s][j] = Line(s, typed[s] + 1)
          PROVE  \E i \in 1 .. Len(log[RoomOf[s]]) : log[RoomOf[s]][i] = m
      <3>1. m \in Range(screen[s])
        BY <2>4, BeforeStays
      <3>2. PICK i \in 1 .. Len(screen[s]) : screen[s][i] = m
        BY <3>1, LenProperties DEF Range, SystemInv, ClientTypes
      <3> QED BY <3>2, OnScreen DEF SystemInv
    <2> QED BY <2>2, <2>3, <2>4, UpStays
  <1> QED BY <1>2, <1>3 DEF BeforeComesFirst

-----------------------------------------------------------------------------
(* The theorems.                                                            *)

LEMMA SystemInvInit == SystemInit => SystemInv
PROOF
  <1> SUFFICES ASSUME SystemInit PROVE SystemInv
    OBVIOUS
  <1> USE RoomOfAssumption
  <1>1. Inv
    BY InvInit DEF SystemInit
  <1>2. ASSUME NEW s \in Session
        PROVE  /\ up[s] = <<>> /\ down[s] = <<>> /\ screen[s] = <<>>
               /\ wire[s] = <<>> /\ typed[s] = 0 /\ log[RoomOf[s]] = <<>>
    BY DEF SystemInit, Init
  <1>3. Len(<<>>) = 0 /\ <<>> \in Seq(Message) /\ <<>> \o <<>> = <<>>
    BY EmptySeq, ConcatEmptySeq
  <1>4. \A r \in Room : log[r] = <<>>
    BY DEF SystemInit, Init
  <1>5. ClientTypes
    BY <1>3 DEF SystemInit, ClientTypes
  <1>6. \A s \in Session : Read(s) = 0 /\ Len(up[s]) = 0
    <2>1. ASSUME NEW s \in Session PROVE typed[s] - Len(up[s]) = 0 /\ Len(up[s]) = 0
      <3>1. Len(up[s]) = 0 /\ typed[s] = 0
        BY <1>2, <1>3
      <3> QED BY <3>1
    <2> QED BY <2>1 DEF Read
  <1>7. UpIsTheRest /\ WireIsPrinted
    <2>1. \A s \in Session : Len(up[s]) = 0 /\ typed[s] = 0
      BY <1>2, <1>6
    <2>2. UpIsTheRest
      <3>1. ASSUME NEW s \in Session
            PROVE  Len(up[s]) <= typed[s] /\ 1 .. Len(up[s]) = {}
        <4>1. Len(up[s]) = 0 /\ typed[s] = 0
          BY <2>1
        <4> QED BY <4>1
      <3> QED BY <3>1 DEF UpIsTheRest
    <2>3. WireIsPrinted
      BY <1>2, <1>3 DEF WireIsPrinted
    <2> QED BY <2>2, <2>3
  <1>8. LogIsRead /\ LogAscends
    BY <1>3, <1>4 DEF LogIsRead, LogAscends
  <1>9. ReadIsLogged
    BY <1>6 DEF ReadIsLogged
  <1>10. BeforeComesFirst
    BY <1>2, <1>3, <1>4 DEF BeforeComesFirst
  <1> QED BY <1>1, <1>5, <1>7, <1>8, <1>9, <1>10 DEF SystemInv

LEMMA SystemInvNext == SystemInv /\ [SystemNext]_systemVars => SystemInv'
PROOF
  <1> SUFFICES ASSUME SystemInv, [SystemNext]_systemVars PROVE SystemInv'
    OBVIOUS
  <1>1. CASE SystemNext
    <2>1. Inv'
      BY <1>1, ServerStep, InvNext DEF SystemInv
    <2> QED BY <1>1, <2>1, ClientTypesNext, UpNext, LogIsReadNext, ReadIsLoggedNext,
               AscendsNext, WireNext, BeforeNext DEF SystemInv
  <1>2. CASE UNCHANGED systemVars
    <2>1. UNCHANGED <<vars, clientVars>>
      BY <1>2 DEF systemVars
    <2>2. Inv'
      BY <2>1, InvNext DEF SystemInv
    <2>3. UNCHANGED <<up, down, typed, screen, before, log, wire>>
      BY <2>1 DEF vars, clientVars
    <2>4. \A s \in Session : Read(s)' = Read(s)
      BY <2>3 DEF Read
    <2>5. ClientTypes' /\ UpIsTheRest' /\ WireIsPrinted' /\ BeforeComesFirst'
      BY <2>3, <2>4 DEF SystemInv, ClientTypes, UpIsTheRest, WireIsPrinted,
                        BeforeComesFirst
    <2>6. LogIsRead' /\ ReadIsLogged' /\ LogAscends'
      BY <2>3, <2>4 DEF SystemInv, LogIsRead, ReadIsLogged, LogAscends
    <2> QED BY <2>2, <2>5, <2>6 DEF SystemInv
  <1> QED BY <1>1, <1>2

(* SystemInv holds of every reachable state.                                *)
THEOREM SystemInvariance == SystemSpec => []SystemInv
  BY SystemInvInit, SystemInvNext, PTL DEF SystemSpec

(* Whatever is proved of the server alone, with peers that send anything,   *)
(* holds of the server in the system: the clients are such peers.           *)
THEOREM ServerInSystem == SystemSpec => Spec
PROOF
  <1>1. SystemInit => Init
    BY DEF SystemInit
  <1>2. SystemInv /\ [SystemNext]_systemVars => [Next]_vars
    BY ServerStep DEF systemVars
  <1> QED BY <1>1, <1>2, SystemInvariance, PTL DEF SystemSpec, Spec

(* A line in a log, taken apart. *)
LEMMA LogLine ==
  ASSUME SystemInv, NEW r \in Room, NEW i \in 1 .. Len(log[r])
  PROVE  \E a \in Session, n \in Nat :
           /\ RoomOf[a] = r /\ n \in 1 .. Read(a) /\ Read(a) \in Nat
           /\ log[r][i][1] = a /\ log[r][i][2] = n
PROOF
  <1>1. PICK a \in Session : \E n \in 1 .. Read(a) : RoomOf[a] = r /\ log[r][i] = Line(a, n)
    BY DEF SystemInv, LogIsRead
  <1>2. PICK n \in 1 .. Read(a) : RoomOf[a] = r /\ log[r][i] = Line(a, n)
    BY <1>1
  <1>3. Read(a) \in Nat
    BY ReadType DEF SystemInv
  <1>4. log[r][i][1] = a /\ log[r][i][2] = n
    BY <1>2 DEF Line
  <1>5. n \in Nat
    BY <1>3
  <1> QED BY <1>2, <1>3, <1>4, <1>5

(* A log holds no line twice. *)
LEMMA LoggedOnce ==
  ASSUME SystemInv, NEW r \in Room,
         NEW i \in 1 .. Len(log[r]), NEW j \in 1 .. Len(log[r]),
         log[r][i] = log[r][j]
  PROVE  i = j
PROOF
  <1>1. PICK a \in Session, n \in Nat : log[r][i][1] = a /\ log[r][i][2] = n
    BY LogLine
  <1>2. log[r][j][1] = a /\ log[r][j][2] = n
    BY <1>1
  <1>3. ~(i < j) /\ ~(j < i)
    BY <1>1, <1>2 DEF SystemInv, LogAscends
  <1>4. Len(log[r]) \in Nat
    BY LenProperties DEF SystemInv, Inv, TypeOK
  <1> QED BY <1>3, <1>4

(* On two screens, the same line is the same place in one and the same log. *)
LEMMA SameLine ==
  ASSUME SystemInv, NEW s \in Session, NEW t \in Session,
         NEW i \in 1 .. Len(screen[s]), NEW k \in 1 .. Len(screen[t]),
         screen[s][i] = screen[t][k]
  PROVE  RoomOf[s] = RoomOf[t] /\ skipped[s] + i = skipped[t] + k
PROOF
  <1>1. /\ RoomOf[s] \in Room /\ RoomOf[t] \in Room
        /\ skipped[s] + i \in 1 .. Len(log[RoomOf[s]])
        /\ screen[s][i] = log[RoomOf[s]][skipped[s] + i]
        /\ skipped[t] + k \in 1 .. Len(log[RoomOf[t]])
        /\ screen[t][k] = log[RoomOf[t]][skipped[t] + k]
    BY OnScreen, RoomOfAssumption DEF SystemInv
  <1>2. PICK a \in Session : RoomOf[a] = RoomOf[s] /\ screen[s][i][1] = a
    <2> DEFINE p == skipped[s] + i
    <2> HIDE DEF p
    <2>1. p \in 1 .. Len(log[RoomOf[s]]) /\ screen[s][i] = log[RoomOf[s]][p]
      BY <1>1 DEF p
    <2> DEFINE r == RoomOf[s]
    <2>2. r \in Room
      BY <1>1
    <2> HIDE DEF r
    <2>3. p \in 1 .. Len(log[r]) /\ screen[s][i] = log[r][p]
      BY <2>1 DEF r
    <2>4. PICK a \in Session, n \in Nat :
                 /\ RoomOf[a] = r /\ n \in 1 .. Read(a) /\ Read(a) \in Nat
                 /\ log[r][p][1] = a /\ log[r][p][2] = n
      BY <2>2, <2>3, LogLine
    <2> QED BY <2>3, <2>4 DEF r
  <1>3. PICK b \in Session : RoomOf[b] = RoomOf[t] /\ screen[t][k][1] = b
    <2> DEFINE p == skipped[t] + k
    <2> HIDE DEF p
    <2>1. p \in 1 .. Len(log[RoomOf[t]]) /\ screen[t][k] = log[RoomOf[t]][p]
      BY <1>1 DEF p
    <2> DEFINE r == RoomOf[t]
    <2>2. r \in Room
      BY <1>1
    <2> HIDE DEF r
    <2>3. p \in 1 .. Len(log[r]) /\ screen[t][k] = log[r][p]
      BY <2>1 DEF r
    <2>4. PICK b \in Session, n \in Nat :
                 /\ RoomOf[b] = r /\ n \in 1 .. Read(b) /\ Read(b) \in Nat
                 /\ log[r][p][1] = b /\ log[r][p][2] = n
      BY <2>2, <2>3, LogLine
    <2> QED BY <2>3, <2>4 DEF r
  <1>4. RoomOf[s] = RoomOf[t]
    BY <1>2, <1>3
  <1>5. log[RoomOf[s]][skipped[s] + i] = log[RoomOf[s]][skipped[t] + k]
    BY <1>1, <1>4
  <1>6. skipped[t] + k \in 1 .. Len(log[RoomOf[s]])
    BY <1>1, <1>4
  <1>7. skipped[s] + i = skipped[t] + k
    BY <1>1, <1>5, <1>6, LoggedOnce
  <1> QED BY <1>4, <1>7

(* Two users who both see two messages see them in the same order: what     *)
(* their screens show are stretches of one log.                             *)
THEOREM OneOrder == SystemSpec => []ScreensAgree
PROOF
  <1>1. ASSUME SystemInv, NEW s \in Session, NEW t \in Session,
               NEW i \in DOMAIN screen[s], NEW j \in DOMAIN screen[s],
               NEW k \in DOMAIN screen[t], NEW l \in DOMAIN screen[t],
               screen[s][i] = screen[t][k], screen[s][j] = screen[t][l]
        PROVE  i < j <=> k < l
    <2>1. /\ i \in 1 .. Len(screen[s]) /\ j \in 1 .. Len(screen[s])
          /\ k \in 1 .. Len(screen[t]) /\ l \in 1 .. Len(screen[t])
          /\ i \in Nat /\ j \in Nat /\ k \in Nat /\ l \in Nat
      BY <1>1, LenProperties DEF SystemInv, ClientTypes
    <2>2. /\ skipped[s] + i = skipped[t] + k
          /\ skipped[s] + j = skipped[t] + l
      BY <1>1, <2>1, SameLine
    <2>3. skipped[s] \in Nat /\ skipped[t] \in Nat
      BY <1>1 DEF SystemInv, Inv, TypeOK
    <2> QED BY <2>1, <2>2, <2>3, SMTT(30)
  <1>2. SystemInv => ScreensAgree
    BY <1>1 DEF ScreensAgree
  <1> QED BY <1>2, SystemInvariance, PTL

(* No answer is seen before what it answers.                                *)
THEOREM AnswersComeLater == SystemSpec => []AnswersFollow
PROOF
  <1>1. ASSUME SystemInv, NEW s \in Session, NEW j \in DOMAIN screen[s],
               NEW m \in before[screen[s][j]]
        PROVE  \/ \E i \in 1 .. j - 1 : screen[s][i] = m
               \/ \E i \in 1 .. skipped[s] : log[RoomOf[s]][i] = m
    <2>1. /\ j \in 1 .. Len(screen[s]) /\ RoomOf[s] \in Room
          /\ Len(screen[s]) \in Nat
      BY <1>1, LenProperties, RoomOfAssumption DEF SystemInv, ClientTypes
    <2>2. /\ skipped[s] \in Nat
          /\ skipped[s] + j \in 1 .. Len(log[RoomOf[s]])
          /\ screen[s][j] = log[RoomOf[s]][skipped[s] + j]
      BY <1>1, <2>1, OnScreen DEF SystemInv
    <2>3. PICK k \in 1 .. (skipped[s] + j) - 1 : log[RoomOf[s]][k] = m
      <3> DEFINE r == RoomOf[s]
                 p == skipped[s] + j
      <3>1. p \in 1 .. Len(log[r]) /\ m \in before[log[r][p]] /\ r \in Room
        BY <1>1, <2>1, <2>2
      <3> HIDE DEF r, p
      <3>2. \E k \in 1 .. p - 1 : log[r][k] = m
        BY <1>1, <3>1 DEF SystemInv, BeforeComesFirst
      <3> QED BY <3>2 DEF r, p
    <2>4. CASE k <= skipped[s]
      BY <2>2, <2>3, <2>4
    <2>5. CASE k > skipped[s]
      <3>1. PICK i \in 1 .. j - 1 : k = skipped[s] + i
        <4> DEFINE z == skipped[s]
        <4>1. z \in Nat /\ j \in Nat /\ k > z /\ k \in 1 .. (z + j) - 1
          BY <2>1, <2>2, <2>5
        <4> HIDE DEF z
        <4>2. k - z \in 1 .. j - 1 /\ k = z + (k - z)
          BY <4>1
        <4> QED BY <4>2 DEF z
      <3>2. i \in 1 .. Len(screen[s])
        BY <2>1
      <3>3. screen[s][i] = log[RoomOf[s]][skipped[s] + i]
        BY <1>1, <3>2, OnScreen DEF SystemInv
      <3> QED BY <2>3, <3>1, <3>3
    <2> QED BY <2>2, <2>4, <2>5
  <1>2. SystemInv => AnswersFollow
    BY <1>1 DEF AnswersFollow
  <1> QED BY <1>2, SystemInvariance, PTL

(* Every screen shows an author's lines in order and without a gap.         *)
THEOREM NoLineIsMissing == SystemSpec => []AuthorsInOrder
PROOF
  <1>1. ASSUME SystemInv, NEW s \in Session,
               NEW i \in DOMAIN screen[s], NEW j \in DOMAIN screen[s],
               i < j, screen[s][i][1] = screen[s][j][1],
               \A k \in i + 1 .. j - 1 : screen[s][k][1] # screen[s][i][1]
        PROVE  screen[s][j][2] = screen[s][i][2] + 1
    <2> DEFINE r == RoomOf[s]
               p == skipped[s] + i
               q == skipped[s] + j
    <2>1. /\ i \in 1 .. Len(screen[s]) /\ j \in 1 .. Len(screen[s])
          /\ r \in Room /\ Len(screen[s]) \in Nat
      BY <1>1, LenProperties, RoomOfAssumption DEF SystemInv, ClientTypes
    <2>2. /\ p \in 1 .. Len(log[r]) /\ q \in 1 .. Len(log[r]) /\ p < q
          /\ screen[s][i] = log[r][p] /\ screen[s][j] = log[r][q]
          /\ skipped[s] \in Nat
      <3>1. /\ skipped[s] \in Nat
            /\ p \in 1 .. Len(log[r]) /\ q \in 1 .. Len(log[r])
            /\ screen[s][i] = log[r][p] /\ screen[s][j] = log[r][q]
        BY <1>1, <2>1, OnScreen DEF SystemInv
      <3> QED BY <1>1, <2>1, <3>1
    <2> HIDE DEF p, q
    <2>3. /\ \A x \in 1 .. Len(log[r]), y \in 1 .. Len(log[r]) :
               x < y /\ log[r][x][1] = log[r][y][1] => log[r][x][2] < log[r][y][2]
          /\ Len(log[r]) \in Nat
      BY <1>1, <2>1, LenProperties DEF SystemInv, LogAscends, Inv, TypeOK
    <2>4. PICK a \in Session, n \in Nat :
                 /\ RoomOf[a] = r /\ n \in 1 .. Read(a) /\ Read(a) \in Nat
                 /\ log[r][p][1] = a /\ log[r][p][2] = n
      BY <1>1, <2>1, <2>2, LogLine
    <2>5. PICK b \in Session, m \in Nat :
                 /\ RoomOf[b] = r /\ m \in 1 .. Read(b) /\ Read(b) \in Nat
                 /\ log[r][q][1] = b /\ log[r][q][2] = m
      BY <1>1, <2>1, <2>2, LogLine
    <2>6. b = a
      BY <1>1, <2>2, <2>4, <2>5
    <2>7. n < m
      BY <2>2, <2>3, <2>4, <2>5, <2>6
    <2>8. ASSUME m # n + 1 PROVE FALSE
      <3>1. n + 1 \in 1 .. Read(a) /\ n + 1 < m
        BY <2>4, <2>5, <2>6, <2>7, <2>8
      <3>2. PICK k \in 1 .. Len(log[r]) : log[r][k] = Line(a, n + 1)
        BY <1>1, <2>4, <3>1, SMTT(30) DEF SystemInv, ReadIsLogged
      <3>3. log[r][k][1] = a /\ log[r][k][2] = n + 1
        BY <3>2 DEF Line
      <3>4. ~(k < p) /\ k # p
        <4>1. log[r][k][1] = log[r][p][1]
          BY <2>4, <3>3
        <4>2. ~(log[r][k][2] < log[r][p][2]) /\ log[r][k][2] # log[r][p][2]
          BY <2>4, <3>3
        <4> QED BY <2>2, <2>3, <4>1, <4>2
      <3>5. ~(q < k) /\ k # q
        BY <2>2, <2>3, <2>5, <2>6, <3>1, <3>3, SMTT(30)
      <3>6. p < k /\ k < q /\ k \in Nat
        BY <2>2, <2>3, <3>4, <3>5
      <3>7. PICK h \in i + 1 .. j - 1 : k = skipped[s] + h
        <4> DEFINE z == skipped[s]
        <4>1. z \in Nat /\ z + i < k /\ k < z + j
          BY <2>2, <3>6 DEF p, q
        <4>2. i \in Nat /\ j \in Nat
          BY <2>1
        <4> HIDE DEF z
        <4>3. k - z \in i + 1 .. j - 1 /\ k = z + (k - z)
          BY <3>6, <4>1, <4>2
        <4> QED BY <4>3 DEF z
      <3>8. h \in 1 .. Len(screen[s])
        BY <2>1
      <3>9. screen[s][h] = log[r][k]
        BY <1>1, <3>7, <3>8, OnScreen DEF SystemInv
      <3>10. screen[s][h][1] = screen[s][i][1]
        BY <2>2, <2>4, <3>3, <3>9
      <3> QED BY <1>1, <3>7, <3>10
    <2> QED BY <2>2, <2>4, <2>5, <2>8
  <1>2. SystemInv => AuthorsInOrder
    BY <1>1 DEF AuthorsInOrder
  <1> QED BY <1>2, SystemInvariance, PTL
=============================================================================
