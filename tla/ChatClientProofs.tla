-------------------------- MODULE ChatClientProofs --------------------------
(* Theorems about ChatClient, for every set of messages and however many    *)
(* lines are typed.                                                         *)
EXTENDS ChatClient, SequenceTheorems, FiniteSetTheorems, TLAPS

Handler == [post : {"line"}, msg : Message] \cup [post : {"close"}]
             \cup [op : Operation, ok : BOOLEAN]

TypeOK ==
  /\ main \in {"input", "joining", "exited"}
  /\ io \in {"running", "stopped"}
  /\ ready \in Seq(Handler)
  /\ pending \in SUBSET Operation
  /\ open \in BOOLEAN /\ established \in BOOLEAN
  /\ write_msgs_ \in Seq(Message)
  /\ typed \in Seq(Message)
  /\ sent \in Seq(Message)

(* Of the operations ops, with p pending and q ready, none is outstanding,  *)
(* or no more than one, be it pending or completed.                         *)
NoneOf(q, p, ops) ==
  p \cap ops = {} /\ \A i \in 1 .. Len(q) : ~Ends(q[i], ops)
Single(q, p, ops) ==
  /\ \A a, b \in p \cap ops : a = b
  /\ \A i, j \in 1 .. Len(q) : Ends(q[i], ops) /\ Ends(q[j], ops) => i = j
  /\ p \cap ops = {} \/ \A i \in 1 .. Len(q) : ~Ends(q[i], ops)

(* A read or a connect, and a write, at a time.                             *)
OneEach ==
  /\ Single(ready, pending, ReadOperation)
  /\ Single(ready, pending, {"write"})

(* A write is outstanding exactly while there is something to write, as     *)
(* long as the socket is open.                                              *)
WriteIsDue ==
  /\ ~NoneOf(ready, pending, {"write"}) => write_msgs_ # <<>>
  /\ open /\ write_msgs_ # <<>> => ~NoneOf(ready, pending, {"write"})

(* Something is being read while the connection is up; the io thread stops  *)
(* with nothing pending, and nothing is pending on a closed socket.         *)
ReadIsDue ==
  /\ open /\ established => ~NoneOf(ready, pending, ReadOperation) /\ io = "running"
  /\ io = "stopped" => pending = {}
  /\ pending # {} => open

(* The connection is made once: what connects has not connected before.     *)
Has(q, h) == \E i \in 1 .. Len(q) : q[i] = h
Result(op, ok) == [op |-> op, ok |-> ok]
ConnectsOnce ==
  established => "connect" \notin pending /\ ~Has(ready, Result("connect", FALSE))

(* The lines typed are those sent, those in write_msgs_ that are not yet,   *)
(* and those in posted handlers.                                            *)
Unwritten(q, w) == IF Has(q, Result("write", TRUE)) THEN Tail(w) ELSE w
Lines(q, w) ==
  \E s \in Seq(Message) : typed = (sent \o Unwritten(q, w)) \o s /\ PostedIn(q, s)
EachLineOnce == Lines(ready, write_msgs_)

(* The inductive invariant.                                                 *)
Inv == TypeOK /\ OneEach /\ WriteIsDue /\ ReadIsDue /\ ConnectsOnce /\ EachLineOnce

-----------------------------------------------------------------------------
(* Sequences.                                                               *)

(* Moving the head of w to the end of v leaves v \o w as it was. *)
LEMMA MoveHead ==
  ASSUME NEW S, NEW v \in Seq(S), NEW w \in Seq(S), w # <<>>
  PROVE  Append(v, Head(w)) \o Tail(w) = v \o w
PROOF
  <1>1. /\ Head(w) \in S
        /\ Tail(w) \in Seq(S)
        /\ Len(Tail(w)) = Len(w) - 1
        /\ \A i \in 1 .. Len(Tail(w)) : Tail(w)[i] = w[i + 1]
    BY HeadTailProperties
  <1>2. Append(v, Head(w)) = v \o <<Head(w)>> /\ <<Head(w)>> \in Seq(S)
    BY <1>1, AppendIsConcat
  <1>3. w = <<Head(w)>> \o Tail(w)
    BY <1>1, SubSeqRecursiveFirst, SubSeqFull, TailIsSubSeq, EmptySeq, LenProperties
  <1> QED BY <1>1, <1>2, <1>3, ConcatAssociative

(* Something appended to w is appended to v \o w. *)
LEMMA ConcatAppend ==
  ASSUME NEW S, NEW v \in Seq(S), NEW w \in Seq(S), NEW x \in S
  PROVE  /\ v \o (w \o <<x>>) = (v \o w) \o <<x>>
         /\ Len(v \o (w \o <<x>>)) = Len(v \o w) + 1
PROOF
  <1>1. <<x>> \in Seq(S) /\ Len(<<x>>) = 1
    OBVIOUS
  <1> QED BY <1>1, ConcatAssociative, ConcatProperties

-----------------------------------------------------------------------------
(* Handlers.                                                                *)

(* A handler that completes an operation, and one that was posted.          *)
LEMMA ResultIs ==
  ASSUME NEW op \in Operation, NEW ok \in BOOLEAN
  PROVE  /\ [op |-> op, ok |-> ok] \in Handler
         /\ Result(op, ok) = [op |-> op, ok |-> ok]
         /\ ~IsLine([op |-> op, ok |-> ok])
         /\ \A ops : Ends([op |-> op, ok |-> ok], ops) <=> op \in ops
  BY DEF Handler, Result, IsLine, IsPost, Ends

LEMMA LineIs ==
  ASSUME NEW m \in Message
  PROVE  /\ [post |-> "line", msg |-> m] \in Handler
         /\ IsLine([post |-> "line", msg |-> m])
         /\ \A ops : ~Ends([post |-> "line", msg |-> m], ops)
         /\ \A op, ok : Result(op, ok) # [post |-> "line", msg |-> m]
  BY DEF Handler, Result, IsLine, IsPost, Ends

LEMMA CloseIs ==
  /\ [post |-> "close"] \in Handler
  /\ ~IsLine([post |-> "close"])
  /\ \A ops : ~Ends([post |-> "close"], ops)
  /\ \A op, ok : Result(op, ok) # [post |-> "close"]
  BY DEF Handler, Result, IsLine, IsPost, Ends

(* run() takes the first handler off the queue.                             *)
LEMMA TailIs ==
  ASSUME NEW q \in Seq(Handler), q # <<>>
  PROVE  /\ Tail(q) \in Seq(Handler) /\ Head(q) \in Handler
         /\ Len(q) \in Nat /\ Len(q) >= 1 /\ Len(Tail(q)) = Len(q) - 1
         /\ Head(q) = q[1]
         /\ \A i \in 1 .. Len(q) - 1 : Tail(q)[i] = q[i + 1]
  BY HeadTailProperties, EmptySeq, LenProperties

LEMMA AppendIs ==
  ASSUME NEW q \in Seq(Handler), NEW h \in Handler
  PROVE  /\ Append(q, h) \in Seq(Handler)
         /\ Len(q) \in Nat /\ Len(Append(q, h)) = Len(q) + 1
         /\ Append(q, h)[Len(q) + 1] = h
         /\ \A i \in 1 .. Len(q) : Append(q, h)[i] = q[i]
  BY AppendProperties, LenProperties

-----------------------------------------------------------------------------
(* How the operations outstanding change with the queue.                    *)

(* A handler that completes none of them is taken off ...                   *)
LEMMA OtherTaken ==
  ASSUME NEW q \in Seq(Handler), NEW p, NEW ops, q # <<>>, ~Ends(Head(q), ops)
  PROVE  /\ Single(q, p, ops) => Single(Tail(q), p, ops)
         /\ NoneOf(Tail(q), p, ops) <=> NoneOf(q, p, ops)
PROOF
  <1>1. /\ Len(q) \in Nat /\ Len(q) >= 1 /\ Len(Tail(q)) = Len(q) - 1
        /\ ~Ends(q[1], ops)
        /\ \A i \in 1 .. Len(q) - 1 : Tail(q)[i] = q[i + 1]
    BY TailIs
  <1>2. \A i \in 1 .. Len(Tail(q)) : i + 1 \in 1 .. Len(q) /\ Tail(q)[i] = q[i + 1]
    BY <1>1
  <1>3. \A i \in 1 .. Len(q) : i = 1 \/ (i - 1 \in 1 .. Len(Tail(q)) /\ Tail(q)[i - 1] = q[i])
    BY <1>1
  <1>4. NoneOf(Tail(q), p, ops) <=> NoneOf(q, p, ops)
    BY <1>1, <1>2, <1>3 DEF NoneOf
  <1>5. Single(q, p, ops) => Single(Tail(q), p, ops)
    BY <1>2 DEF Single
  <1> QED BY <1>4, <1>5

(* ... or the one that does.                                                *)
LEMMA OwnTaken ==
  ASSUME NEW q \in Seq(Handler), NEW p, NEW ops, q # <<>>, Ends(Head(q), ops),
         Single(q, p, ops)
  PROVE  Single(Tail(q), p, ops) /\ NoneOf(Tail(q), p, ops)
PROOF
  <1>1. /\ Len(q) \in Nat /\ Len(q) >= 1 /\ Len(Tail(q)) = Len(q) - 1
        /\ Ends(q[1], ops)
        /\ \A i \in 1 .. Len(q) - 1 : Tail(q)[i] = q[i + 1]
    BY TailIs
  <1>2. \A i \in 1 .. Len(Tail(q)) : /\ i + 1 \in 1 .. Len(q) /\ i + 1 # 1
                                     /\ Tail(q)[i] = q[i + 1]
    BY <1>1
  <1>3. 1 \in 1 .. Len(q)
    BY <1>1
  <1>4. p \cap ops = {}
    BY <1>1, <1>3 DEF Single
  <1>5. \A i \in 1 .. Len(Tail(q)) : ~Ends(Tail(q)[i], ops)
    BY <1>1, <1>2, <1>3 DEF Single
  <1> QED BY <1>4, <1>5 DEF Single, NoneOf

(* A handler that completes none of them is queued ...                      *)
LEMMA OtherQueued ==
  ASSUME NEW q \in Seq(Handler), NEW p, NEW ops, NEW h \in Handler, ~Ends(h, ops)
  PROVE  /\ Single(q, p, ops) => Single(Append(q, h), p, ops)
         /\ NoneOf(Append(q, h), p, ops) <=> NoneOf(q, p, ops)
PROOF
  <1>1. /\ Len(q) \in Nat
        /\ \A i \in 1 .. Len(q) :
             i \in 1 .. Len(Append(q, h)) /\ Append(q, h)[i] = q[i]
        /\ \A i \in 1 .. Len(Append(q, h)) :
             i \in 1 .. Len(q) \/ Append(q, h)[i] = h
    BY AppendIs
  <1>2. NoneOf(Append(q, h), p, ops) <=> NoneOf(q, p, ops)
    BY <1>1 DEF NoneOf
  <1>3. Single(q, p, ops) => Single(Append(q, h), p, ops)
    BY <1>1 DEF Single
  <1> QED BY <1>2, <1>3

(* ... or one that does, where none was outstanding.                        *)
LEMMA OwnQueued ==
  ASSUME NEW q \in Seq(Handler), NEW p, NEW ops, NEW h \in Handler, Ends(h, ops),
         NoneOf(q, p, ops)
  PROVE  Single(Append(q, h), p, ops) /\ ~NoneOf(Append(q, h), p, ops)
PROOF
  <1>1. /\ Len(q) \in Nat /\ Len(q) + 1 \in 1 .. Len(Append(q, h))
        /\ Append(q, h)[Len(q) + 1] = h
        /\ \A i \in 1 .. Len(Append(q, h)) :
             i = Len(q) + 1 \/ (i \in 1 .. Len(q) /\ Append(q, h)[i] = q[i])
    BY AppendIs
  <1>2. ~NoneOf(Append(q, h), p, ops)
    BY <1>1 DEF NoneOf
  <1>3. \A i \in 1 .. Len(Append(q, h)) : Ends(Append(q, h)[i], ops) => i = Len(q) + 1
    BY <1>1 DEF NoneOf
  <1>4. Single(Append(q, h), p, ops)
    BY <1>3 DEF Single, NoneOf
  <1> QED BY <1>2, <1>4

(* An operation is started.                                                 *)
LEMMA Pends ==
  ASSUME NEW q, NEW p, NEW ops, NEW op
  PROVE  /\ op \notin ops => /\ Single(q, p, ops) => Single(q, p \cup {op}, ops)
                             /\ NoneOf(q, p \cup {op}, ops) <=> NoneOf(q, p, ops)
         /\ op \in ops /\ NoneOf(q, p, ops)
              => Single(q, p \cup {op}, ops) /\ ~NoneOf(q, p \cup {op}, ops)
PROOF
  <1>1. CASE op \notin ops
    <2>1. (p \cup {op}) \cap ops = p \cap ops
      BY <1>1
    <2> QED BY <1>1, <2>1 DEF Single, NoneOf
  <1>2. CASE op \in ops
    <2>1. ASSUME NoneOf(q, p, ops)
          PROVE  (p \cup {op}) \cap ops = {op}
      BY <1>2, <2>1 DEF NoneOf
    <2> QED BY <1>2, <2>1 DEF Single, NoneOf
  <1> QED BY <1>1, <1>2

(* A pending operation completes, or is aborted: its handler is queued.     *)
LEMMA Completes ==
  ASSUME NEW q \in Seq(Handler), NEW p, NEW ops, NEW op \in Operation, op \in p,
         NEW h \in Handler, Ends(h, ops) <=> op \in ops
  PROVE  /\ Single(q, p, ops) => Single(Append(q, h), p \ {op}, ops)
         /\ Single(q, p, ops) =>
              (NoneOf(Append(q, h), p \ {op}, ops) <=> NoneOf(q, p, ops))
PROOF
  <1> SUFFICES ASSUME Single(q, p, ops)
               PROVE  /\ Single(Append(q, h), p \ {op}, ops)
                      /\ NoneOf(Append(q, h), p \ {op}, ops) <=> NoneOf(q, p, ops)
    OBVIOUS
  <1>1. CASE op \in ops
    <2>1. ~NoneOf(q, p, ops)
      BY <1>1 DEF NoneOf
    <2>2. (p \ {op}) \cap ops = {} /\ \A i \in 1 .. Len(q) : ~Ends(q[i], ops)
      BY <1>1 DEF Single
    <2>3. NoneOf(q, p \ {op}, ops)
      BY <2>2 DEF NoneOf
    <2> QED BY <1>1, <2>1, <2>3, OwnQueued
  <1>2. CASE op \notin ops
    <2>1. (p \ {op}) \cap ops = p \cap ops
      BY <1>2
    <2>2. Single(q, p \ {op}, ops) /\ (NoneOf(q, p \ {op}, ops) <=> NoneOf(q, p, ops))
      BY <2>1 DEF Single, NoneOf
    <2> QED BY <1>2, <2>2, OtherQueued
  <1> QED BY <1>1, <1>2

-----------------------------------------------------------------------------
(* How the lines in posted handlers change with the queue.                  *)

(* Which handlers the queue has.                                            *)
LEMMA HasTail ==
  ASSUME NEW q \in Seq(Handler), NEW h, q # <<>>
  PROVE  /\ Has(Tail(q), h) => Has(q, h)
         /\ Has(q, h) /\ Head(q) # h => Has(Tail(q), h)
PROOF
  <1>1. /\ \A i \in 1 .. Len(Tail(q)) : i + 1 \in 1 .. Len(q) /\ Tail(q)[i] = q[i + 1]
        /\ \A i \in 1 .. Len(q) :
             q[i] = Head(q) \/ (i - 1 \in 1 .. Len(Tail(q)) /\ Tail(q)[i - 1] = q[i])
    BY TailIs
  <1> QED BY <1>1 DEF Has

LEMMA HasAppend ==
  ASSUME NEW q \in Seq(Handler), NEW h, NEW g \in Handler
  PROVE  Has(Append(q, g), h) <=> Has(q, h) \/ g = h
PROOF
  <1>1. /\ \A i \in 1 .. Len(q) :
             i \in 1 .. Len(Append(q, g)) /\ Append(q, g)[i] = q[i]
        /\ \A i \in 1 .. Len(Append(q, g)) :
             (i \in 1 .. Len(q) /\ Append(q, g)[i] = q[i]) \/ Append(q, g)[i] = g
        /\ Len(q) + 1 \in 1 .. Len(Append(q, g)) /\ Append(q, g)[Len(q) + 1] = g
    BY AppendIs
  <1> QED BY <1>1 DEF Has

(* at enumerates the places in q of the handlers posted for the lines s.    *)
Enumerates(at, q, s) ==
  /\ at \in [1 .. Len(s) -> 1 .. Len(q)]
  /\ \A k, n \in 1 .. Len(s) : k < n => at[k] < at[n]
  /\ \A i \in 1 .. Len(q) : IsLine(q[i]) => \E k \in 1 .. Len(s) : at[k] = i
  /\ \A k \in 1 .. Len(s) : q[at[k]] = [post |-> "line", msg |-> s[k]]

LEMMA PostedIs ==
  ASSUME NEW q, NEW s
  PROVE  PostedIn(q, s) <=> \E at : Enumerates(at, q, s)
  BY Zenon DEF PostedIn, Enumerates

(* A line that is not posted leaves the posted ones as they are ...         *)
LEMMA PostedOther ==
  ASSUME NEW q \in Seq(Handler), NEW s \in Seq(Message), PostedIn(q, s)
  PROVE  /\ q # <<>> /\ ~IsLine(Head(q)) => PostedIn(Tail(q), s)
         /\ \A h \in Handler : ~IsLine(h) => PostedIn(Append(q, h), s)
PROOF
  <1>1. DOMAIN q = 1 .. Len(q) /\ DOMAIN s = 1 .. Len(s) /\ Len(q) \in Nat /\ Len(s) \in Nat
    BY LenProperties
  <1>at. PICK at : Enumerates(at, q, s)
    BY PostedIs
  <1>2. /\ at \in [1 .. Len(s) -> 1 .. Len(q)]
        /\ \A k, n \in 1 .. Len(s) : k < n => at[k] < at[n]
        /\ \A i \in 1 .. Len(q) : IsLine(q[i]) => \E k \in 1 .. Len(s) : at[k] = i
        /\ \A k \in 1 .. Len(s) : q[at[k]] = [post |-> "line", msg |-> s[k]]
    BY <1>at DEF Enumerates
  <1>3. ASSUME NEW k \in 1 .. Len(s) PROVE IsLine(q[at[k]])
    <2>1. s[k] \in Message
      BY ElementOfSeq
    <2>2. IsLine([post |-> "line", msg |-> s[k]])
      BY <2>1, LineIs
    <2> QED BY <1>2, <2>2
  <1>4. ASSUME q # <<>>, ~IsLine(Head(q)) PROVE PostedIn(Tail(q), s)
    <2>1. /\ Tail(q) \in Seq(Handler) /\ Len(Tail(q)) = Len(q) - 1
          /\ \A i \in 1 .. Len(q) - 1 : Tail(q)[i] = q[i + 1]
          /\ ~IsLine(q[1])
      BY <1>4, TailIs, LenProperties
    <2>2. \A k \in 1 .. Len(s) : at[k] \in 2 .. Len(q)
      BY <1>1, <1>2, <1>3, <2>1
    <2> DEFINE to == [k \in 1 .. Len(s) |-> at[k] - 1]
    <2>3. to \in [1 .. Len(s) -> 1 .. Len(q) - 1]
      BY <1>1, <2>2
    <2>4. \A k \in 1 .. Len(s) : to[k] = at[k] - 1 /\ to[k] + 1 = at[k]
      BY <1>1, <2>2
    <2> HIDE DEF to
    <2>5. \A k, n \in 1 .. Len(s) : k < n => to[k] < to[n]
      BY <1>1, <1>2, <2>2, <2>4
    <2>6. \A i \in 1 .. Len(q) - 1 : IsLine(Tail(q)[i]) => \E k \in 1 .. Len(s) : to[k] = i
      BY <1>1, <1>2, <2>1, <2>4
    <2>7. \A k \in 1 .. Len(s) : Tail(q)[to[k]] = [post |-> "line", msg |-> s[k]]
      BY <1>2, <2>1, <2>3, <2>4
    <2>8. Enumerates(to, Tail(q), s)
      BY <2>1, <2>3, <2>5, <2>6, <2>7 DEF Enumerates
    <2> QED BY <2>1, <2>8, PostedIs
  <1>5. ASSUME NEW h \in Handler, ~IsLine(h) PROVE PostedIn(Append(q, h), s)
    <2>1. /\ DOMAIN Append(q, h) = 1 .. Len(q) + 1
          /\ Append(q, h)[Len(q) + 1] = h
          /\ \A i \in 1 .. Len(q) : Append(q, h)[i] = q[i]
      BY AppendIs, LenProperties
    <2>2. at \in [1 .. Len(s) -> 1 .. Len(q) + 1]
      BY <1>1, <1>2
    <2>3. \A i \in 1 .. Len(q) + 1 :
            IsLine(Append(q, h)[i]) => \E k \in 1 .. Len(s) : at[k] = i
      BY <1>1, <1>2, <1>5, <2>1
    <2>4. \A k \in 1 .. Len(s) : Append(q, h)[at[k]] = [post |-> "line", msg |-> s[k]]
      BY <1>2, <2>1
    <2>5. /\ Append(q, h) \in Seq(Handler) /\ Len(Append(q, h)) = Len(q) + 1
      BY <1>5, AppendIs
    <2>6. Enumerates(at, Append(q, h), s)
      BY <1>2, <2>2, <2>3, <2>4, <2>5 DEF Enumerates
    <2> QED BY <2>5, <2>6, PostedIs
  <1> QED BY <1>4, <1>5

(* ... a new one is the last ...                                            *)
LEMMA PostedLine ==
  ASSUME NEW q \in Seq(Handler), NEW s \in Seq(Message), PostedIn(q, s),
         NEW m \in Message
  PROVE  PostedIn(Append(q, [post |-> "line", msg |-> m]), Append(s, m))
PROOF
  <1> DEFINE h == [post |-> "line", msg |-> m]
             r == Append(q, h)
             t == Append(s, m)
  <1>1. h \in Handler
    BY LineIs
  <1> HIDE DEF h
  <1>2. /\ DOMAIN q = 1 .. Len(q) /\ DOMAIN s = 1 .. Len(s)
        /\ Len(q) \in Nat /\ Len(s) \in Nat
    BY LenProperties
  <1>at. PICK at : Enumerates(at, q, s)
    BY PostedIs
  <1>3. /\ at \in [1 .. Len(s) -> 1 .. Len(q)]
        /\ \A k, n \in 1 .. Len(s) : k < n => at[k] < at[n]
        /\ \A i \in 1 .. Len(q) : IsLine(q[i]) => \E k \in 1 .. Len(s) : at[k] = i
        /\ \A k \in 1 .. Len(s) : q[at[k]] = [post |-> "line", msg |-> s[k]]
    BY <1>at DEF Enumerates
  <1>4. /\ r \in Seq(Handler) /\ Len(r) = Len(q) + 1 /\ r[Len(q) + 1] = h
        /\ \A i \in 1 .. Len(q) : r[i] = q[i]
    BY <1>1, AppendIs, LenProperties
  <1>5. /\ t \in Seq(Message) /\ Len(t) = Len(s) + 1 /\ t[Len(s) + 1] = m
        /\ \A k \in 1 .. Len(s) : t[k] = s[k]
    BY AppendProperties, LenProperties
  <1> DEFINE to == [k \in 1 .. Len(s) + 1 |-> IF k = Len(s) + 1 THEN Len(q) + 1 ELSE at[k]]
  <1>6. /\ to \in [1 .. Len(s) + 1 -> 1 .. Len(q) + 1]
        /\ to[Len(s) + 1] = Len(q) + 1
        /\ \A k \in 1 .. Len(s) : to[k] = at[k]
    BY <1>2, <1>3
  <1> HIDE DEF to, r, t
  <1>7. \A k, n \in 1 .. Len(s) + 1 : k < n => to[k] < to[n]
    <2>1. ASSUME NEW k \in 1 .. Len(s) + 1, NEW n \in 1 .. Len(s) + 1, k < n
          PROVE  to[k] < to[n]
      <3>1. k \in 1 .. Len(s) /\ to[k] = at[k] /\ at[k] \in 1 .. Len(q)
        BY <1>2, <1>3, <1>6, <2>1, SMTT(30)
      <3>2. CASE n = Len(s) + 1
        BY <1>2, <1>6, <3>1, <3>2
      <3>3. CASE n \in 1 .. Len(s)
        BY <1>3, <1>6, <2>1, <3>1, <3>3
      <3> QED BY <1>2, <3>2, <3>3
    <2> QED BY <2>1
  <1>8. \A i \in 1 .. Len(q) + 1 : IsLine(r[i]) => \E k \in 1 .. Len(s) + 1 : to[k] = i
    <2>1. ASSUME NEW i \in 1 .. Len(q), IsLine(r[i])
          PROVE  \E k \in 1 .. Len(s) + 1 : to[k] = i
      <3>1. PICK k \in 1 .. Len(s) : at[k] = i
        BY <1>3, <1>4, <2>1
      <3> QED BY <1>2, <1>6, <3>1
    <2>2. Len(s) + 1 \in 1 .. Len(s) + 1
      BY <1>2
    <2> QED BY <1>2, <1>6, <2>1, <2>2
  <1>9. \A k \in 1 .. Len(s) + 1 : r[to[k]] = [post |-> "line", msg |-> t[k]]
    <2>1. r[to[Len(s) + 1]] = [post |-> "line", msg |-> t[Len(s) + 1]]
      BY <1>4, <1>5, <1>6 DEF h
    <2>2. ASSUME NEW k \in 1 .. Len(s)
          PROVE  r[to[k]] = [post |-> "line", msg |-> t[k]]
      <3>1. to[k] = at[k] /\ at[k] \in 1 .. Len(q) /\ t[k] = s[k]
        BY <1>3, <1>5, <1>6
      <3>2. r[at[k]] = q[at[k]]
        BY <1>4, <3>1
      <3>3. q[at[k]] = [post |-> "line", msg |-> s[k]]
        BY <1>3
      <3> QED BY <3>1, <3>2, <3>3
    <2> QED BY <1>2, <2>1, <2>2
  <1>10. Enumerates(to, r, t)
    BY <1>4, <1>5, <1>6, <1>7, <1>8, <1>9 DEF Enumerates
  <1> QED BY <1>4, <1>5, <1>10, PostedIs DEF h, r, t

(* ... and the one that is called is the first.                             *)
LEMMA PostedTaken ==
  ASSUME NEW q \in Seq(Handler), NEW s \in Seq(Message), PostedIn(q, s),
         NEW m \in Message, q # <<>>, Head(q) = [post |-> "line", msg |-> m]
  PROVE  s # <<>> /\ Head(s) = m /\ PostedIn(Tail(q), Tail(s))
PROOF
  <1>1. /\ DOMAIN q = 1 .. Len(q) /\ DOMAIN s = 1 .. Len(s)
        /\ Len(q) \in Nat /\ Len(s) \in Nat /\ 1 \in 1 .. Len(q)
    BY LenProperties, TailIs
  <1>at. PICK at : Enumerates(at, q, s)
    BY PostedIs
  <1>2. /\ at \in [1 .. Len(s) -> 1 .. Len(q)]
        /\ \A k, n \in 1 .. Len(s) : k < n => at[k] < at[n]
        /\ \A i \in 1 .. Len(q) : IsLine(q[i]) => \E k \in 1 .. Len(s) : at[k] = i
        /\ \A k \in 1 .. Len(s) : q[at[k]] = [post |-> "line", msg |-> s[k]]
    BY <1>at DEF Enumerates
  <1>3. q[1] = [post |-> "line", msg |-> m] /\ IsLine(q[1])
    BY TailIs, LineIs
  <1>4. PICK f \in 1 .. Len(s) : at[f] = 1
    BY <1>1, <1>2, <1>3
  <1>5. f = 1 /\ 1 \in 1 .. Len(s)
    <2>1. 1 \in 1 .. Len(s)
      BY <1>1, <1>4
    <2>2. ASSUME 1 < f PROVE FALSE
      BY <1>1, <1>2, <1>4, <2>1, <2>2
    <2> QED BY <1>1, <1>4, <2>1, <2>2
  <1>6. s # <<>> /\ s[1] = m
    <2>1. s # <<>>
      BY <1>5, EmptySeq
    <2>2. [post |-> "line", msg |-> s[1]] = [post |-> "line", msg |-> m]
      BY <1>2, <1>3, <1>4, <1>5
    <2>3. [post |-> "line", msg |-> s[1]].msg = [post |-> "line", msg |-> m].msg
      BY <2>2
    <2> QED BY <2>1, <2>3
  <1>7. /\ Tail(s) \in Seq(Message) /\ Len(Tail(s)) = Len(s) - 1
        /\ Head(s) = s[1]
        /\ \A k \in 1 .. Len(s) - 1 : Tail(s)[k] = s[k + 1]
    BY <1>6, HeadTailProperties, LenProperties
  <1>8. /\ Tail(q) \in Seq(Handler) /\ Len(Tail(q)) = Len(q) - 1
        /\ \A i \in 1 .. Len(q) - 1 : Tail(q)[i] = q[i + 1]
    BY TailIs, LenProperties
  <1>9. \A k \in 1 .. Len(s) - 1 : k + 1 \in 1 .. Len(s) /\ at[k + 1] \in 2 .. Len(q)
    BY <1>1, <1>2, <1>4, <1>5
  <1> DEFINE to == [k \in 1 .. Len(s) - 1 |-> at[k + 1] - 1]
  <1>10. /\ to \in [1 .. Len(s) - 1 -> 1 .. Len(q) - 1]
         /\ \A k \in 1 .. Len(s) - 1 : to[k] + 1 = at[k + 1]
    BY <1>1, <1>9, SMTT(30)
  <1> HIDE DEF to
  <1>11. \A k, n \in 1 .. Len(s) - 1 : k < n => to[k] < to[n]
    <2>1. ASSUME NEW k \in 1 .. Len(s) - 1, NEW n \in 1 .. Len(s) - 1, k < n
          PROVE  to[k] < to[n]
      <3>1. at[k + 1] < at[n + 1]
        BY <1>1, <1>2, <1>9, <2>1
      <3>2. to[k] + 1 = at[k + 1] /\ to[n] + 1 = at[n + 1]
        BY <1>10
      <3>3. to[k] \in 1 .. Len(q) - 1 /\ to[n] \in 1 .. Len(q) - 1
        BY <1>10
      <3> QED BY <1>1, <3>1, <3>2, <3>3
    <2> QED BY <2>1
  <1>12. \A i \in 1 .. Len(q) - 1 :
           IsLine(Tail(q)[i]) => \E k \in 1 .. Len(s) - 1 : to[k] = i
    <2>1. ASSUME NEW i \in 1 .. Len(q) - 1, IsLine(Tail(q)[i])
          PROVE  \E k \in 1 .. Len(s) - 1 : to[k] = i
      <3>1. i + 1 \in 1 .. Len(q) /\ IsLine(q[i + 1])
        BY <1>1, <1>8, <2>1
      <3>2. PICK n \in 1 .. Len(s) : at[n] = i + 1
        BY <1>2, <3>1
      <3>3. n # 1
        BY <1>4, <1>5, <3>2
      <3>4. n - 1 \in 1 .. Len(s) - 1 /\ (n - 1) + 1 = n
        BY <1>1, <3>3
      <3>5. to[n - 1] + 1 = i + 1
        BY <1>10, <3>2, <3>4
      <3> QED BY <1>10, <3>4, <3>5
    <2> QED BY <2>1
  <1>13. \A k \in 1 .. Len(s) - 1 : Tail(q)[to[k]] = [post |-> "line", msg |-> Tail(s)[k]]
    <2>1. ASSUME NEW k \in 1 .. Len(s) - 1
          PROVE  Tail(q)[to[k]] = [post |-> "line", msg |-> Tail(s)[k]]
      <3>1. Tail(q)[to[k]] = q[at[k + 1]]
        <4>1. to[k] \in 1 .. Len(q) - 1 /\ to[k] + 1 = at[k + 1]
          BY <1>10
        <4> QED BY <1>8, <4>1
      <3>2. k + 1 \in 1 .. Len(s) /\ Tail(s)[k] = s[k + 1]
        BY <1>7, <1>9
      <3>3. q[at[k + 1]] = [post |-> "line", msg |-> s[k + 1]]
        BY <1>2, <3>2
      <3> QED BY <3>1, <3>2, <3>3
    <2> QED BY <2>1
  <1>14. Enumerates(to, Tail(q), Tail(s))
    BY <1>7, <1>8, <1>10, <1>11, <1>12, <1>13 DEF Enumerates
  <1> QED BY <1>6, <1>7, <1>8, <1>14, PostedIs

-----------------------------------------------------------------------------
(* What starting an operation and closing the socket do to both.            *)

(* From the queue q and the pending operations p to r and u, the operations *)
(* ops that are outstanding stay so, or none of them is.                    *)
SameOps(q, p, r, u, ops) ==
  Single(q, p, ops) => /\ Single(r, u, ops)
                       /\ NoneOf(r, u, ops) <=> NoneOf(q, p, ops)

(* The posted lines stay as they are, no write has succeeded and no attempt *)
(* to connect has come into being.                                          *)
SameLines(q, p, r, u) ==
  /\ r \in Seq(Handler)
  /\ \A s \in Seq(Message) : PostedIn(q, s) => PostedIn(r, s)
  /\ Has(r, Result("write", TRUE)) <=> Has(q, Result("write", TRUE))
  /\ "connect" \notin p =>
       /\ "connect" \notin u
       /\ Has(r, Result("connect", FALSE)) => Has(q, Result("connect", FALSE))

LEMMA SameAgain ==
  ASSUME NEW q, NEW p, NEW r, NEW u, NEW t, NEW v
  PROVE  /\ \A ops : SameOps(q, p, r, u, ops) /\ SameOps(r, u, t, v, ops)
                       => SameOps(q, p, t, v, ops)
         /\ SameLines(q, p, r, u) /\ SameLines(r, u, t, v) => SameLines(q, p, t, v)
  BY Zenon DEF SameOps, SameLines

(* A handler that reports no success is queued, its operation being pending *)
(* no more.                                                                 *)
LEMMA FailureQueued ==
  ASSUME NEW q \in Seq(Handler), NEW p, NEW op \in Operation, op \in p
  PROVE  LET r == Append(q, [op |-> op, ok |-> FALSE])
         IN  /\ \A ops : SameOps(q, p, r, p \ {op}, ops)
             /\ SameLines(q, p, r, p \ {op})
PROOF
  <1> DEFINE h == [op |-> op, ok |-> FALSE]
             r == Append(q, h)
  <1>1. h \in Handler /\ h = Result(op, FALSE) /\ ~IsLine(h)
        /\ \A ops : Ends(h, ops) <=> op \in ops
    BY ResultIs
  <1>2. Result(op, FALSE) # Result("write", TRUE)
    BY DEF Result
  <1>3. op # "connect" => Result(op, FALSE) # Result("connect", FALSE)
    BY DEF Result
  <1> HIDE DEF h
  <1>4. \A ops : SameOps(q, p, r, p \ {op}, ops)
    BY <1>1, Completes DEF SameOps
  <1>5. r \in Seq(Handler)
    BY <1>1, AppendIs
  <1>6. \A g : Has(r, g) <=> Has(q, g) \/ h = g
    BY <1>1, HasAppend
  <1>7. \A s \in Seq(Message) : PostedIn(q, s) => PostedIn(r, s)
    BY <1>1, PostedOther
  <1> HIDE DEF r
  <1>8. SameLines(q, p, r, p \ {op})
    <2>1. Has(r, Result("write", TRUE)) <=> Has(q, Result("write", TRUE))
      BY <1>1, <1>2, <1>6
    <2>2. ASSUME "connect" \notin p
          PROVE  /\ "connect" \notin p \ {op}
                 /\ Has(r, Result("connect", FALSE)) => Has(q, Result("connect", FALSE))
      BY <1>1, <1>3, <1>6, <2>2
    <2> QED BY <1>5, <1>7, <2>1, <2>2 DEF SameLines
  <1> QED BY <1>4, <1>8 DEF r, h

(* An operation is aborted, if it is pending.                               *)
LEMMA OneAborted ==
  ASSUME NEW q \in Seq(Handler), NEW p, NEW op \in Operation, op \in p <=> op \in pending
  PROVE  /\ \A ops : SameOps(q, p, q \o AbortedOf(op), p \ {op}, ops)
         /\ SameLines(q, p, q \o AbortedOf(op), p \ {op})
         /\ AbortedOf(op) \in Seq(Handler)
PROOF
  <1>1. CASE op \in p
    <2>1. [op |-> op, ok |-> FALSE] \in Handler
      BY ResultIs
    <2>2. AbortedOf(op) = <<[op |-> op, ok |-> FALSE]>>
      BY <1>1 DEF AbortedOf
    <2>3. q \o <<[op |-> op, ok |-> FALSE]>> = Append(q, [op |-> op, ok |-> FALSE])
      BY <2>1, AppendIsConcat
    <2>4. <<[op |-> op, ok |-> FALSE]>> \in Seq(Handler)
      BY <2>1
    <2> QED BY <1>1, <2>2, <2>3, <2>4, FailureQueued, Zenon
  <1>2. CASE op \notin p
    <2>1. AbortedOf(op) = <<>>
      BY <1>2 DEF AbortedOf
    <2>2. q \o <<>> = q /\ p \ {op} = p
      BY <1>2, ConcatEmptySeq
    <2>3. <<>> \in Seq(Handler)
      OBVIOUS
    <2>4. \A ops : SameOps(q, p, q, p, ops)
      BY DEF SameOps
    <2>5. SameLines(q, p, q, p)
      BY DEF SameLines
    <2> QED BY <2>1, <2>2, <2>3, <2>4, <2>5, Zenon
  <1> QED BY <1>1, <1>2

(* What was outstanding before socket_.close() is queued behind the others. *)
LEMMA Closes ==
  ASSUME NEW q \in Seq(Handler), pending \in SUBSET Operation
  PROVE  LET r == q \o AbortedOf("header") \o AbortedOf("body")
                    \o AbortedOf("connect") \o AbortedOf("write")
         IN  /\ \A ops : SameOps(q, pending, r, {}, ops)
             /\ SameLines(q, pending, r, {})
PROOF
  <1> DEFINE q1 == q \o AbortedOf("header")    p1 == pending \ {"header"}
             q2 == q1 \o AbortedOf("body")     p2 == p1 \ {"body"}
             q3 == q2 \o AbortedOf("connect")  p3 == p2 \ {"connect"}
             q4 == q3 \o AbortedOf("write")    p4 == p3 \ {"write"}
  <1>0. /\ {"header", "body", "connect", "write"} = Operation
        /\ "body" # "header"
        /\ "connect" # "header" /\ "connect" # "body"
        /\ "write" # "header" /\ "write" # "body" /\ "write" # "connect"
    BY DEF Operation
  <1>in. /\ "body" \in p1 <=> "body" \in pending
         /\ "connect" \in p2 <=> "connect" \in pending
         /\ "write" \in p3 <=> "write" \in pending
    BY <1>0
  <1>5. p4 = {}
    BY <1>0
  <1> HIDE DEF q1, q2, q3, q4, p1, p2, p3, p4
  <1>1. /\ \A ops : SameOps(q, pending, q1, p1, ops)
        /\ SameLines(q, pending, q1, p1) /\ q1 \in Seq(Handler)
    <2>1. /\ \A ops : SameOps(q, pending, q1, p1, ops)
          /\ SameLines(q, pending, q1, p1)
      BY <1>0, <1>in, OneAborted DEF q1, p1
    <2> QED BY <2>1 DEF SameLines
  <1>2. /\ \A ops : SameOps(q1, p1, q2, p2, ops)
        /\ SameLines(q1, p1, q2, p2) /\ q2 \in Seq(Handler)
    <2>1. /\ \A ops : SameOps(q1, p1, q2, p2, ops)
          /\ SameLines(q1, p1, q2, p2)
      BY <1>0, <1>in, <1>1, OneAborted DEF q2, p2
    <2> QED BY <2>1 DEF SameLines
  <1>3. /\ \A ops : SameOps(q2, p2, q3, p3, ops)
        /\ SameLines(q2, p2, q3, p3) /\ q3 \in Seq(Handler)
    <2>1. /\ \A ops : SameOps(q2, p2, q3, p3, ops)
          /\ SameLines(q2, p2, q3, p3)
      BY <1>0, <1>in, <1>2, OneAborted DEF q3, p3
    <2> QED BY <2>1 DEF SameLines
  <1>4. /\ \A ops : SameOps(q3, p3, q4, p4, ops)
        /\ SameLines(q3, p3, q4, p4) /\ q4 \in Seq(Handler)
    <2>1. /\ \A ops : SameOps(q3, p3, q4, p4, ops)
          /\ SameLines(q3, p3, q4, p4)
      BY <1>0, <1>in, <1>3, OneAborted DEF q4, p4
    <2> QED BY <2>1 DEF SameLines
  <1>7. \A ops : SameOps(q, pending, q4, p4, ops)
    BY <1>1, <1>2, <1>3, <1>4, SameAgain
  <1>8. SameLines(q, pending, q4, p4)
    BY <1>1, <1>2, <1>3, <1>4, SameAgain
  <1> QED BY <1>5, <1>7, <1>8 DEF q1, q2, q3, q4

(* An operation is started by the handler that was the first.               *)
LEMMA Starts ==
  ASSUME TypeOK, ready # <<>>, NEW op \in Operation, Start(op)
  PROVE  /\ \A ops : op \notin ops => SameOps(Tail(ready), pending, ready', pending', ops)
         /\ \A ops : op \in ops /\ NoneOf(Tail(ready), pending, ops)
                       => Single(ready', pending', ops) /\ ~NoneOf(ready', pending', ops)
         /\ op # "connect" => SameLines(Tail(ready), pending, ready', pending')
         /\ ready' \in Seq(Handler)
         /\ pending' \in SUBSET Operation
         /\ open' = open
         /\ pending' # {} => open \/ pending # {}
PROOF
  <1> DEFINE q == Tail(ready)
             h == [op |-> op, ok |-> FALSE]
  <1>1. q \in Seq(Handler) /\ open \in BOOLEAN /\ pending \in SUBSET Operation
    BY TailIs DEF TypeOK
  <1>2. h \in Handler /\ h = Result(op, FALSE) /\ ~IsLine(h)
        /\ \A ops : Ends(h, ops) <=> op \in ops
    BY ResultIs
  <1>3. CASE open
    <2>1. ready' = q /\ pending' = pending \cup {op} /\ open' = open
      BY <1>3 DEF Start
    <2> HIDE DEF q
    <2>2. \A ops : op \notin ops => SameOps(q, pending, ready', pending', ops)
      BY <2>1, Pends DEF SameOps
    <2>3. \A ops : op \in ops /\ NoneOf(q, pending, ops)
                     => Single(ready', pending', ops) /\ ~NoneOf(ready', pending', ops)
      BY <2>1, Pends
    <2>4. op # "connect" => SameLines(q, pending, ready', pending')
      BY <1>1, <2>1 DEF SameLines
    <2> QED BY <1>1, <1>3, <2>1, <2>2, <2>3, <2>4 DEF q
  <1>4. CASE ~open
    <2>1. ready' = Append(q, h) /\ pending' = pending /\ open' = open
      BY <1>4 DEF Start
    <2> HIDE DEF q, h
    <2>2. \A ops : op \notin ops => SameOps(q, pending, ready', pending', ops)
      BY <1>1, <1>2, <2>1, OtherQueued DEF SameOps
    <2>3. \A ops : op \in ops /\ NoneOf(q, pending, ops)
                     => Single(ready', pending', ops) /\ ~NoneOf(ready', pending', ops)
      BY <1>1, <1>2, <2>1, OwnQueued
    <2>4. op # "connect" => SameLines(q, pending, ready', pending')
      <3>1. ready' \in Seq(Handler)
        BY <1>1, <1>2, <2>1, AppendIs
      <3>2. \A g : Has(ready', g) <=> Has(q, g) \/ h = g
        BY <1>1, <1>2, <2>1, HasAppend
      <3>3. \A s \in Seq(Message) : PostedIn(q, s) => PostedIn(ready', s)
        BY <1>1, <1>2, <2>1, PostedOther
      <3>4. Result(op, FALSE) # Result("write", TRUE)
        BY DEF Result
      <3>5. op # "connect" => Result(op, FALSE) # Result("connect", FALSE)
        BY DEF Result
      <3> QED BY <1>2, <2>1, <3>1, <3>2, <3>3, <3>4, <3>5 DEF SameLines
    <2>5. ready' \in Seq(Handler)
      BY <1>1, <1>2, <2>1, AppendIs
    <2> QED BY <1>1, <2>1, <2>2, <2>3, <2>4, <2>5 DEF q
  <1> QED BY <1>1, <1>3, <1>4

(* The lines typed, wherever they are, stay as they are.                    *)
LEMMA LinesStay ==
  ASSUME NEW q, NEW p, NEW r, NEW u, SameLines(q, p, r, u), NEW w, Lines(q, w)
  PROVE  Lines(r, w)
PROOF
  <1>1. Unwritten(r, w) = Unwritten(q, w)
    BY DEF SameLines, Unwritten
  <1>2. PICK s \in Seq(Message) : typed = (sent \o Unwritten(q, w)) \o s /\ PostedIn(q, s)
    BY DEF Lines
  <1>3. PostedIn(r, s)
    BY <1>2 DEF SameLines
  <1> QED BY <1>1, <1>2, <1>3 DEF Lines

-----------------------------------------------------------------------------
(* Steps that are alike.                                                    *)

(* A step that changes nothing but the queue, the operations pending and    *)
(* the socket, and those only by failures.                                  *)
LEMMA OnlyFailures ==
  ASSUME Inv,
         \A ops : SameOps(ready, pending, ready', pending', ops),
         SameLines(ready, pending, ready', pending'),
         pending' \subseteq pending, open' \in BOOLEAN,
         open' => open, pending' # {} => open',
         main' \in {"input", "joining", "exited"},
         UNCHANGED <<io, established, write_msgs_, typed, sent>>
  PROVE  Inv'
PROOF
  <1>1. TypeOK'
    BY DEF Inv, TypeOK, SameLines
  <1>2. OneEach'
    BY DEF Inv, OneEach, SameOps
  <1>3. WriteIsDue'
    BY DEF Inv, OneEach, WriteIsDue, SameOps
  <1>4. ReadIsDue'
    BY DEF Inv, OneEach, ReadIsDue, SameOps
  <1>5. ConnectsOnce'
    BY DEF Inv, ConnectsOnce, SameLines
  <1>6. EachLineOnce'
    <2>1. Lines(ready', write_msgs_)
      BY LinesStay DEF Inv, EachLineOnce
    <2> QED BY <2>1 DEF EachLineOnce, Lines
  <1> QED BY <1>1, <1>2, <1>3, <1>4, <1>5, <1>6 DEF Inv

(* A handler that is not a posted line, nor the result of a write that      *)
(* succeeded, is taken off.                                                 *)
LEMMA OneTaken ==
  ASSUME TypeOK, ready # <<>>, ~IsLine(Head(ready)), Head(ready) # Result("write", TRUE)
  PROVE  SameLines(ready, pending, Tail(ready), pending)
PROOF
  <1>1. ready \in Seq(Handler)
    BY DEF TypeOK
  <1>2. Tail(ready) \in Seq(Handler)
    BY <1>1, TailIs
  <1>3. \A s \in Seq(Message) : PostedIn(ready, s) => PostedIn(Tail(ready), s)
    BY <1>1, PostedOther
  <1>4. /\ Has(Tail(ready), Result("write", TRUE)) <=> Has(ready, Result("write", TRUE))
        /\ Has(Tail(ready), Result("connect", FALSE)) => Has(ready, Result("connect", FALSE))
    BY <1>1, HasTail
  <1> QED BY <1>2, <1>3, <1>4 DEF SameLines

(* The handler of a connect or a read is called: the next read is started,  *)
(* or the socket is closed, or nothing is done while it is not connected.   *)
LEMMA ReadRuns ==
  ASSUME Inv, NEW op \in ReadOperation, NEW ok \in BOOLEAN,
         Running([op |-> op, ok |-> ok]),
         \/ Start("header")
         \/ Start("body")
         \/ Close
         \/ Nothing /\ ~(open /\ established),
         UNCHANGED <<main, io, established, write_msgs_, typed, sent>>
  PROVE  Inv'
PROOF
  <1> DEFINE t == Tail(ready)
  <1>0. /\ TypeOK /\ ready \in Seq(Handler) /\ ready # <<>> /\ pending \in SUBSET Operation
        /\ io = "running" /\ Head(ready) = [op |-> op, ok |-> ok] /\ op \in Operation
        /\ t \in Seq(Handler)
    BY TailIs DEF Inv, TypeOK, Running, ReadOperation, Operation
  <1>1. /\ op \notin {"write"} /\ ReadOperation \cap {"write"} = {}
        /\ "header" \in ReadOperation /\ "body" \in ReadOperation
        /\ "header" \in Operation /\ "body" \in Operation
        /\ "header" \notin {"write"} /\ "body" \notin {"write"}
        /\ "header" # "connect" /\ "body" # "connect"
    BY DEF ReadOperation, Operation
  <1>2. /\ ~IsLine(Head(ready)) /\ Ends(Head(ready), ReadOperation)
        /\ ~Ends(Head(ready), {"write"})
    BY <1>0, <1>1, ResultIs
  <1>3. Head(ready) # Result("write", TRUE)
    BY <1>0, <1>1 DEF Result
  <1>4. SameLines(ready, pending, t, pending)
    BY <1>0, <1>2, <1>3, OneTaken
  <1>5. Single(t, pending, ReadOperation) /\ NoneOf(t, pending, ReadOperation)
    BY <1>0, <1>2, OwnTaken DEF Inv, OneEach
  <1>6. SameOps(ready, pending, t, pending, {"write"})
    BY <1>0, <1>2, OtherTaken DEF SameOps
  <1>7. /\ SameOps(t, pending, ready', pending', {"write"})
        /\ SameLines(t, pending, ready', pending')
        /\ Single(ready', pending', ReadOperation)
        /\ pending' \in SUBSET Operation /\ open' \in BOOLEAN
        /\ open' => open
        /\ pending' # {} => open'
        /\ open' /\ established => ~NoneOf(ready', pending', ReadOperation)
    <2>1. CASE Start("header")
      BY <1>0, <1>1, <1>5, <2>1, Starts DEF Inv, TypeOK, ReadIsDue
    <2>2. CASE Start("body")
      BY <1>0, <1>1, <1>5, <2>2, Starts DEF Inv, TypeOK, ReadIsDue
    <2>3. CASE Close
      <3>1. /\ \A ops : SameOps(t, pending, ready', {}, ops)
            /\ SameLines(t, pending, ready', {})
        BY <1>0, <2>3, Closes DEF Close
      <3>2. pending' = {} /\ open' = FALSE
        BY <2>3 DEF Close
      <3> QED BY <1>5, <3>1, <3>2 DEF SameOps
    <2>4. CASE Nothing /\ ~(open /\ established)
      <3>1. ready' = t /\ pending' = pending /\ open' = open
        BY <2>4 DEF Nothing
      <3>2. SameOps(t, pending, t, pending, {"write"}) /\ SameLines(t, pending, t, pending)
        BY <1>0 DEF SameOps, SameLines
      <3> QED BY <1>0, <1>5, <2>4, <3>1, <3>2 DEF Inv, TypeOK, ReadIsDue
    <2> QED BY <2>1, <2>2, <2>3, <2>4
  <1> HIDE DEF t
  <1>8. /\ SameOps(ready, pending, ready', pending', {"write"})
        /\ SameLines(ready, pending, ready', pending')
    BY <1>4, <1>6, <1>7, SameAgain
  <1>9. TypeOK'
    BY <1>0, <1>7, <1>8 DEF TypeOK, SameLines
  <1>10. OneEach'
    BY <1>7, <1>8 DEF Inv, OneEach, SameOps
  <1>11. WriteIsDue'
    BY <1>7, <1>8 DEF Inv, OneEach, WriteIsDue, SameOps
  <1>12. ReadIsDue'
    BY <1>0, <1>7 DEF ReadIsDue
  <1>13. ConnectsOnce'
    BY <1>8 DEF Inv, ConnectsOnce, SameLines
  <1>14. EachLineOnce'
    <2>1. Lines(ready', write_msgs_)
      BY <1>8, LinesStay DEF Inv, EachLineOnce
    <2> QED BY <2>1 DEF EachLineOnce, Lines
  <1> QED BY <1>9, <1>10, <1>11, <1>12, <1>13, <1>14 DEF Inv

(* A write whose handler has not run has its message still.                 *)
LEMMA WrittenIsThere ==
  ASSUME Inv, Has(ready, Result("write", TRUE))
  PROVE  write_msgs_ # <<>>
PROOF
  <1>1. PICK i \in 1 .. Len(ready) : ready[i] = Result("write", TRUE)
    BY DEF Has
  <1>2. Ends(Result("write", TRUE), {"write"})
    BY DEF Result, Ends, IsPost
  <1>3. ~NoneOf(ready, pending, {"write"})
    BY <1>1, <1>2 DEF NoneOf
  <1> QED BY <1>3 DEF Inv, WriteIsDue

-----------------------------------------------------------------------------
(* The steps.                                                               *)

LEMMA InitKeeps == Init => Inv
PROOF
  <1> SUFFICES ASSUME Init PROVE Inv
    OBVIOUS
  <1>1. TypeOK
    <2>1. /\ ready \in Seq(Handler) /\ write_msgs_ \in Seq(Message)
          /\ typed \in Seq(Message) /\ sent \in Seq(Message)
      BY DEF Init
    <2>2. open \in BOOLEAN /\ established \in BOOLEAN
      BY DEF Init
    <2>3. /\ main \in {"input", "joining", "exited"} /\ io \in {"running", "stopped"}
          /\ pending \in SUBSET Operation
      BY DEF Init, Operation
    <2> QED BY <2>1, <2>2, <2>3 DEF TypeOK
  <1>2. Len(ready) = 0 /\ 1 .. Len(ready) = {}
    BY DEF Init
  <1>3. OneEach
    BY <1>2 DEF Init, OneEach, Single, ReadOperation
  <1>4. WriteIsDue
    BY <1>2 DEF Init, WriteIsDue, NoneOf
  <1>5. ReadIsDue
    BY DEF Init, ReadIsDue
  <1>6. ConnectsOnce
    BY DEF Init, ConnectsOnce
  <1>7. EachLineOnce
    <2>1. ~Has(ready, Result("write", TRUE))
      BY <1>2 DEF Has
    <2>2. typed = (sent \o Unwritten(ready, write_msgs_)) \o <<>>
      BY <2>1 DEF Init, Unwritten
    <2>3. PostedIn(ready, <<>>)
      <3>1. Len(<<>>) = 0 /\ 1 .. Len(<<>>) = {}
        OBVIOUS
      <3> DEFINE at == [k \in 1 .. Len(<<>>) |-> 1]
      <3>2. at \in [1 .. Len(<<>>) -> 1 .. Len(ready)]
        BY <1>2, <3>1
      <3>3. Enumerates(at, ready, <<>>)
        BY <1>2, <3>1, <3>2 DEF Enumerates
      <3> QED BY <3>3, PostedIs
    <2>4. <<>> \in Seq(Message)
      OBVIOUS
    <2> QED BY <2>2, <2>3, <2>4 DEF EachLineOnce, Lines
  <1> QED BY <1>1, <1>3, <1>4, <1>5, <1>6, <1>7 DEF Inv

LEMMA TypeKeeps ==
  ASSUME Inv, NEW m \in Message, Type(m)
  PROVE  Inv'
PROOF
  <1> DEFINE h == [post |-> "line", msg |-> m]
  <1>1. /\ ready \in Seq(Handler) /\ typed \in Seq(Message) /\ sent \in Seq(Message)
        /\ write_msgs_ \in Seq(Message) /\ TypeOK
    BY DEF Inv, TypeOK
  <1>2. /\ h \in Handler
        /\ \A ops : ~Ends(h, ops)
        /\ \A op, ok : Result(op, ok) # h
    BY LineIs
  <1>3. ready' = Append(ready, h) /\ typed' = Append(typed, m)
    BY DEF Type
  <1>4. UNCHANGED <<main, io, pending, open, established, write_msgs_, sent>>
    BY DEF Type
  <1>5. EachLineOnce'
    <2>1. PICK s \in Seq(Message) :
                 typed = (sent \o Unwritten(ready, write_msgs_)) \o s /\ PostedIn(ready, s)
      BY DEF Inv, EachLineOnce, Lines
    <2>2. PostedIn(ready', Append(s, m)) /\ Append(s, m) \in Seq(Message)
      BY <1>1, <1>3, <2>1, PostedLine, AppendProperties
    <2> HIDE DEF h
    <2>3. Has(ready', Result("write", TRUE)) <=> Has(ready, Result("write", TRUE))
      BY <1>1, <1>2, <1>3, HasAppend
    <2>4. Unwritten(ready', write_msgs_) = Unwritten(ready, write_msgs_)
      BY <2>3 DEF Unwritten
    <2> DEFINE u == Unwritten(ready, write_msgs_)
               v == sent \o u
    <2>5. v \in Seq(Message)
      <3>1. Has(ready, Result("write", TRUE)) => write_msgs_ # <<>>
        BY WrittenIsThere
      <3>2. u \in Seq(Message)
        BY <1>1, <3>1, HeadTailProperties DEF Unwritten
      <3> QED BY <1>1, <3>2, ConcatProperties
    <2> HIDE DEF v
    <2>6. typed' = v \o Append(s, m)
      <3>1. Append(s, m) = s \o <<m>> /\ Append(typed, m) = typed \o <<m>>
        BY <1>1, <2>1, AppendIsConcat
      <3>2. v \o (s \o <<m>>) = (v \o s) \o <<m>>
        BY <2>1, <2>5, ConcatAppend
      <3> QED BY <1>3, <2>1, <3>1, <3>2 DEF v
    <2> QED BY <1>4, <2>2, <2>4, <2>6 DEF EachLineOnce, Lines, v
  <1> HIDE DEF h
  <1>6. \A ops : SameOps(ready, pending, ready', pending', ops)
    BY <1>1, <1>2, <1>3, <1>4, OtherQueued DEF SameOps
  <1>7. TypeOK'
    BY <1>1, <1>2, <1>3, <1>4, AppendIs, AppendProperties DEF TypeOK
  <1>8. OneEach'
    BY <1>6 DEF Inv, OneEach, SameOps
  <1>9. WriteIsDue'
    BY <1>4, <1>6 DEF Inv, OneEach, WriteIsDue, SameOps
  <1>10. ReadIsDue'
    BY <1>4, <1>6 DEF Inv, OneEach, ReadIsDue, SameOps
  <1>11. ConnectsOnce'
    BY <1>1, <1>2, <1>3, <1>4, HasAppend DEF Inv, ConnectsOnce
  <1> QED BY <1>5, <1>7, <1>8, <1>9, <1>10, <1>11 DEF Inv

LEMMA EndOfInputKeeps ==
  ASSUME Inv, EndOfInput
  PROVE  Inv'
PROOF
  <1> DEFINE h == [post |-> "close"]
  <1>1. ready \in Seq(Handler) /\ open \in BOOLEAN /\ TypeOK
    BY DEF Inv, TypeOK
  <1>2. /\ h \in Handler /\ ~IsLine(h)
        /\ \A ops : ~Ends(h, ops)
        /\ \A op, ok : Result(op, ok) # h
    BY CloseIs
  <1>3. ready' = Append(ready, h) /\ main' = "joining" /\ pending' = pending /\ open' = open
    BY DEF EndOfInput
  <1>4. UNCHANGED <<io, established, write_msgs_, typed, sent>>
    BY DEF EndOfInput
  <1> HIDE DEF h
  <1>5. \A ops : SameOps(ready, pending, ready', pending', ops)
    BY <1>1, <1>2, <1>3, OtherQueued DEF SameOps
  <1>6. SameLines(ready, pending, ready', pending')
    <2>1. ready' \in Seq(Handler)
      BY <1>1, <1>2, <1>3, AppendIs
    <2>2. \A s \in Seq(Message) : PostedIn(ready, s) => PostedIn(ready', s)
      BY <1>1, <1>2, <1>3, PostedOther
    <2>3. \A g : Has(ready', g) <=> Has(ready, g) \/ h = g
      BY <1>1, <1>2, <1>3, HasAppend
    <2> QED BY <1>2, <1>3, <2>1, <2>2, <2>3 DEF SameLines
  <1>7. pending # {} => open
    BY DEF Inv, ReadIsDue
  <1> QED BY <1>1, <1>3, <1>4, <1>5, <1>6, <1>7, OnlyFailures

(* An operation fails.                                                      *)
LEMMA FailureKeeps ==
  ASSUME Inv, NEW op \in Operation, Complete(op, FALSE)
  PROVE  Inv'
PROOF
  <1>1. ready \in Seq(Handler) /\ open \in BOOLEAN /\ established \in BOOLEAN /\ TypeOK
    BY DEF Inv, TypeOK
  <1>2. /\ op \in pending
        /\ pending' = pending \ {op}
        /\ ready' = Append(ready, [op |-> op, ok |-> FALSE])
        /\ established' = established
        /\ sent' = sent
        /\ UNCHANGED <<main, io, open, write_msgs_, typed>>
    BY <1>1 DEF Complete
  <1>3. /\ \A ops : SameOps(ready, pending, ready', pending', ops)
        /\ SameLines(ready, pending, ready', pending')
    BY <1>1, <1>2, FailureQueued
  <1>4. pending # {} => open
    BY DEF Inv, ReadIsDue
  <1>5. main' \in {"input", "joining", "exited"}
    BY <1>1, <1>2 DEF TypeOK
  <1> QED BY <1>1, <1>2, <1>3, <1>4, <1>5, OnlyFailures

(* An operation succeeds.                                                   *)
LEMMA SuccessKeeps ==
  ASSUME Inv, NEW op \in Operation, Complete(op, TRUE)
  PROVE  Inv'
PROOF
  <1> DEFINE h == [op |-> op, ok |-> TRUE]
  <1>1. /\ ready \in Seq(Handler) /\ open \in BOOLEAN /\ established \in BOOLEAN /\ TypeOK
        /\ typed \in Seq(Message) /\ sent \in Seq(Message) /\ write_msgs_ \in Seq(Message)
        /\ pending \in SUBSET Operation
    BY DEF Inv, TypeOK
  <1>2. /\ op \in pending /\ open
        /\ op = "connect" \/ established
        /\ pending' = pending \ {op}
        /\ ready' = Append(ready, h)
        /\ established' = (established \/ op = "connect")
    BY DEF Complete
  <1>3. UNCHANGED <<main, io, open, write_msgs_, typed>>
    BY DEF Complete
  <1>4. /\ h \in Handler /\ h = Result(op, TRUE) /\ ~IsLine(h)
        /\ \A ops : Ends(h, ops) <=> op \in ops
    BY ResultIs
  <1>5. h # Result("connect", FALSE) /\ (op # "write" <=> h # Result("write", TRUE))
    BY DEF Result
  <1>6. sent' = IF op = "write" THEN Append(sent, Head(write_msgs_)) ELSE sent
    BY DEF Complete
  <1> HIDE DEF h
  <1>7. \A ops : SameOps(ready, pending, ready', pending', ops)
    BY <1>1, <1>2, <1>4, Completes DEF SameOps
  <1>8. \A g : Has(ready', g) <=> Has(ready, g) \/ h = g
    BY <1>1, <1>2, <1>4, HasAppend
  <1>9. OneEach'
    BY <1>7 DEF Inv, OneEach, SameOps
  <1>10. WriteIsDue'
    BY <1>3, <1>7 DEF Inv, OneEach, WriteIsDue, SameOps
  <1>11. ReadIsDue'
    <2>1. pending' # {} => pending # {}
      BY <1>2
    <2>2. io = "running"
      BY <1>1, <1>2 DEF TypeOK, Inv, ReadIsDue
    <2>3. op = "connect" => ~NoneOf(ready, pending, ReadOperation)
      BY <1>2 DEF NoneOf, ReadOperation
    <2>4. ~NoneOf(ready, pending, ReadOperation)
      BY <1>2, <2>3 DEF Inv, ReadIsDue
    <2>5. ~NoneOf(ready', pending', ReadOperation)
      BY <1>7, <2>4 DEF Inv, OneEach, SameOps
    <2> QED BY <1>2, <1>3, <2>1, <2>2, <2>5 DEF ReadIsDue
  <1>12. ConnectsOnce'
    <2>1. CASE op = "connect"
      <3>1. op \in pending \cap ReadOperation
        BY <1>2, <2>1 DEF ReadOperation
      <3>2. \A i \in 1 .. Len(ready) : ~Ends(ready[i], ReadOperation)
        BY <3>1 DEF Inv, OneEach, Single
      <3>3. Ends(Result("connect", FALSE), ReadOperation)
        BY DEF Ends, Result, IsPost, ReadOperation
      <3>4. ~Has(ready, Result("connect", FALSE))
        BY <3>2, <3>3 DEF Has
      <3> QED BY <1>2, <1>5, <1>8, <2>1, <3>4 DEF ConnectsOnce
    <2>2. CASE op # "connect"
      BY <1>2, <1>5, <1>8, <2>2 DEF Inv, ConnectsOnce
    <2> QED BY <2>1, <2>2
  <1>13. \A s \in Seq(Message) : PostedIn(ready, s) => PostedIn(ready', s)
    BY <1>1, <1>2, <1>4, PostedOther
  <1>14. PICK s \in Seq(Message) :
                typed = (sent \o Unwritten(ready, write_msgs_)) \o s /\ PostedIn(ready, s)
    BY DEF Inv, EachLineOnce, Lines
  <1>15. EachLineOnce' /\ sent' \in Seq(Message)
    <2>1. CASE op = "write"
      <3>1. op \in pending \cap {"write"}
        BY <1>2, <2>1
      <3>2. \A i \in 1 .. Len(ready) : ~Ends(ready[i], {"write"})
        BY <3>1 DEF Inv, OneEach, Single
      <3>3. Ends(Result("write", TRUE), {"write"})
        BY DEF Ends, Result, IsPost
      <3>4. ~Has(ready, Result("write", TRUE))
        BY <3>2, <3>3 DEF Has
      <3>5. Has(ready', Result("write", TRUE))
        BY <1>5, <1>8, <2>1
      <3>6. write_msgs_ # <<>>
        BY <3>1 DEF Inv, WriteIsDue, NoneOf
      <3>7. /\ Unwritten(ready, write_msgs_) = write_msgs_
            /\ Unwritten(ready', write_msgs_) = Tail(write_msgs_)
        BY <3>4, <3>5 DEF Unwritten
      <3>8. sent' = Append(sent, Head(write_msgs_))
        BY <1>6, <2>1
      <3>9. sent' \o Unwritten(ready', write_msgs_') = sent \o Unwritten(ready, write_msgs_)
        BY <1>1, <1>3, <3>6, <3>7, <3>8, MoveHead
      <3>10. sent' \in Seq(Message)
        BY <1>1, <3>6, <3>8, HeadTailProperties, AppendProperties
      <3> QED BY <1>3, <1>13, <1>14, <3>9, <3>10 DEF EachLineOnce, Lines
    <2>2. CASE op # "write"
      <3>1. Has(ready', Result("write", TRUE)) <=> Has(ready, Result("write", TRUE))
        BY <1>5, <1>8, <2>2
      <3>2. Unwritten(ready', write_msgs_') = Unwritten(ready, write_msgs_)
        BY <1>3, <3>1 DEF Unwritten
      <3>3. sent' = sent
        BY <1>6, <2>2
      <3> QED BY <1>1, <1>3, <1>13, <1>14, <3>2, <3>3 DEF EachLineOnce, Lines
    <2> QED BY <2>1, <2>2
  <1>16. TypeOK'
    <2>1. ready' \in Seq(Handler)
      BY <1>1, <1>2, <1>4, AppendIs
    <2>2. established' \in BOOLEAN /\ open' \in BOOLEAN
      BY <1>1, <1>2, <1>3
    <2>3. pending' \in SUBSET Operation
      BY <1>1, <1>2
    <2> QED BY <1>1, <1>3, <1>15, <2>1, <2>2, <2>3 DEF TypeOK
  <1> QED BY <1>9, <1>10, <1>11, <1>12, <1>15, <1>16 DEF Inv

LEMMA TailOfAppend ==
  ASSUME NEW S, NEW w \in Seq(S), NEW x \in S, w # <<>>
  PROVE  Tail(Append(w, x)) = Append(Tail(w), x)
PROOF
  <1>1. /\ Head(w) \in S /\ Tail(w) \in Seq(S) /\ Len(Tail(w)) = Len(w) - 1
        /\ \A i \in 1 .. Len(Tail(w)) : Tail(w)[i] = w[i + 1]
        /\ Len(w) \in Nat /\ Len(w) >= 1
    BY HeadTailProperties, EmptySeq, LenProperties
  <1>2. /\ Append(w, x) \in Seq(S) /\ Append(w, x) # <<>> /\ Len(Append(w, x)) = Len(w) + 1
        /\ \A i \in 1 .. Len(w) : Append(w, x)[i] = w[i]
        /\ Append(w, x)[Len(w) + 1] = x
    BY AppendProperties
  <1>3. /\ Tail(Append(w, x)) \in Seq(S) /\ Len(Tail(Append(w, x))) = Len(w)
        /\ \A i \in 1 .. Len(w) : Tail(Append(w, x))[i] = Append(w, x)[i + 1]
    BY <1>1, <1>2, HeadTailProperties
  <1>4. /\ Append(Tail(w), x) \in Seq(S) /\ Len(Append(Tail(w), x)) = Len(w)
        /\ \A i \in 1 .. Len(w) - 1 : Append(Tail(w), x)[i] = Tail(w)[i]
        /\ Append(Tail(w), x)[Len(w)] = x
    BY <1>1, AppendProperties
  <1>5. ASSUME NEW i \in 1 .. Len(w)
        PROVE  Tail(Append(w, x))[i] = Append(Tail(w), x)[i]
    <2>1. CASE i = Len(w)
      BY <1>1, <1>2, <1>3, <1>4, <2>1
    <2>2. CASE i # Len(w)
      <3>1. i \in 1 .. Len(w) - 1 /\ i + 1 \in 1 .. Len(w)
        <4>1. Len(w) \in Nat
          BY LenProperties
        <4> QED BY <2>2, <4>1
      <3>2. Tail(Append(w, x))[i] = w[i + 1]
        BY <1>2, <1>3, <3>1
      <3>3. Append(Tail(w), x)[i] = w[i + 1]
        BY <1>1, <1>4, <3>1
      <3> QED BY <3>2, <3>3
    <2> QED BY <2>1, <2>2
  <1> QED BY <1>3, <1>4, <1>5, SeqEqual

LEMMA RunCloseKeeps ==
  ASSUME Inv, RunClose
  PROVE  Inv'
PROOF
  <1> DEFINE t == Tail(ready)
  <1>1. /\ TypeOK /\ ready \in Seq(Handler) /\ ready # <<>> /\ pending \in SUBSET Operation
        /\ Head(ready) = [post |-> "close"] /\ t \in Seq(Handler)
    BY TailIs DEF Inv, TypeOK, RunClose, Running
  <1>2. /\ ~IsLine(Head(ready)) /\ Head(ready) # Result("write", TRUE)
        /\ \A ops : ~Ends(Head(ready), ops)
    BY <1>1, CloseIs
  <1>3. /\ SameLines(ready, pending, t, pending)
        /\ \A ops : SameOps(ready, pending, t, pending, ops)
    BY <1>1, <1>2, OneTaken, OtherTaken DEF SameOps
  <1>4. /\ \A ops : SameOps(t, pending, ready', {}, ops)
        /\ SameLines(t, pending, ready', {})
    BY <1>1, Closes DEF RunClose, Close
  <1>5. /\ pending' = {} /\ open' = FALSE
        /\ UNCHANGED <<main, io, established, write_msgs_, typed, sent>>
    BY DEF RunClose, Close
  <1> HIDE DEF t
  <1>6. /\ \A ops : SameOps(ready, pending, ready', pending', ops)
        /\ SameLines(ready, pending, ready', pending')
    BY <1>3, <1>4, <1>5, SameAgain
  <1>7. main' \in {"input", "joining", "exited"}
    BY <1>1, <1>5 DEF TypeOK
  <1> QED BY <1>5, <1>6, <1>7, OnlyFailures

LEMMA RunLineKeeps ==
  ASSUME Inv, NEW m \in Message, RunLine(m)
  PROVE  Inv'
PROOF
  <1> DEFINE t == Tail(ready)
  <1>1. /\ TypeOK /\ ready \in Seq(Handler) /\ ready # <<>> /\ pending \in SUBSET Operation
        /\ write_msgs_ \in Seq(Message) /\ sent \in Seq(Message) /\ typed \in Seq(Message)
        /\ open \in BOOLEAN
        /\ Head(ready) = [post |-> "line", msg |-> m] /\ t \in Seq(Handler)
        /\ io = "running"
    BY TailIs DEF Inv, TypeOK, RunLine, Running
  <1>2. /\ \A ops : ~Ends(Head(ready), ops)
        /\ \A op, ok : Result(op, ok) # Head(ready)
    BY <1>1, LineIs
  <1>3. /\ write_msgs_' = Append(write_msgs_, m)
        /\ UNCHANGED <<main, io, established, typed, sent>>
    BY DEF RunLine
  <1>4. /\ "write" \in Operation /\ "write" \notin ReadOperation /\ "write" # "connect"
    BY DEF Operation, ReadOperation
  <1>5. \A ops : SameOps(ready, pending, t, pending, ops)
    BY <1>1, <1>2, OtherTaken DEF SameOps
  <1>6. \A op, ok : Has(t, Result(op, ok)) <=> Has(ready, Result(op, ok))
    BY <1>1, <1>2, HasTail
  <1>7. /\ SameOps(t, pending, ready', pending', ReadOperation)
        /\ SameLines(t, pending, ready', pending')
        /\ pending' \in SUBSET Operation /\ open' = open
        /\ pending' # {} => open
        /\ Single(ready', pending', {"write"})
        /\ write_msgs_ = <<>> \/ open => ~NoneOf(ready', pending', {"write"})
    <2>1. CASE write_msgs_ = <<>>
      <3>1. Start("write")
        BY <2>1 DEF RunLine, WriteInProgress
      <3>2. NoneOf(t, pending, {"write"})
        BY <1>5, <2>1 DEF Inv, OneEach, WriteIsDue, SameOps
      <3> QED BY <1>1, <1>4, <3>1, <3>2, Starts DEF Inv, ReadIsDue
    <2>2. CASE write_msgs_ # <<>>
      <3>1. ready' = t /\ pending' = pending /\ open' = open
        BY <2>2 DEF RunLine, WriteInProgress, Nothing
      <3>2. SameOps(t, pending, t, pending, ReadOperation) /\ SameLines(t, pending, t, pending)
        BY <1>1 DEF SameOps, SameLines
      <3> QED BY <1>1, <1>5, <2>2, <3>1, <3>2 DEF Inv, OneEach, WriteIsDue, ReadIsDue, SameOps
    <2> QED BY <2>1, <2>2
  <1>8. write_msgs_' # <<>> /\ write_msgs_' \in Seq(Message)
    BY <1>1, <1>3, AppendProperties
  <1>9. PICK s \in Seq(Message) :
               typed = (sent \o Unwritten(ready, write_msgs_)) \o s /\ PostedIn(ready, s)
    BY DEF Inv, EachLineOnce, Lines
  <1>10. s # <<>> /\ Head(s) = m /\ PostedIn(t, Tail(s))
    BY <1>1, <1>9, PostedTaken
  <1> HIDE DEF t
  <1>11. TypeOK'
    BY <1>1, <1>3, <1>7, <1>8 DEF TypeOK, SameLines
  <1>12. OneEach'
    BY <1>5, <1>7 DEF Inv, OneEach, SameOps
  <1>13. WriteIsDue'
    BY <1>7, <1>8 DEF WriteIsDue
  <1>14. ReadIsDue'
    BY <1>1, <1>3, <1>5, <1>7 DEF Inv, OneEach, ReadIsDue, SameOps
  <1>15. ConnectsOnce'
    BY <1>3, <1>6, <1>7 DEF Inv, ConnectsOnce, SameLines
  <1>16. EachLineOnce'
    <2> DEFINE u == Unwritten(ready, write_msgs_)
    <2>1. Tail(s) \in Seq(Message) /\ PostedIn(ready', Tail(s))
      BY <1>7, <1>9, <1>10, HeadTailProperties DEF SameLines
    <2>2. Unwritten(ready', write_msgs_') = Append(u, m) /\ u \in Seq(Message)
      <3>1. Has(ready', Result("write", TRUE)) <=> Has(ready, Result("write", TRUE))
        BY <1>6, <1>7 DEF SameLines
      <3>2. CASE Has(ready, Result("write", TRUE))
        <4>1. write_msgs_ # <<>>
          BY <3>2, WrittenIsThere
        <4>2. Tail(Append(write_msgs_, m)) = Append(Tail(write_msgs_), m)
          BY <1>1, <4>1, TailOfAppend
        <4> QED BY <1>1, <1>3, <3>1, <3>2, <4>1, <4>2, HeadTailProperties DEF Unwritten
      <3>3. CASE ~Has(ready, Result("write", TRUE))
        BY <1>1, <1>3, <3>1, <3>3 DEF Unwritten
      <3> QED BY <3>2, <3>3
    <2> HIDE DEF u
    <2>3. (sent \o Append(u, m)) \o Tail(s) = (sent \o u) \o s
      <3> DEFINE v == sent \o u
      <3>1. v \in Seq(Message)
        BY <1>1, <2>2, ConcatProperties
      <3>2. sent \o Append(u, m) = Append(v, m)
        <4>1. Append(u, m) = u \o <<m>>
          BY <2>2, AppendIsConcat
        <4>2. sent \o (u \o <<m>>) = (sent \o u) \o <<m>>
          BY <1>1, <2>2, ConcatAppend, SMTT(30)
        <4>3. Append(v, m) = v \o <<m>>
          BY <3>1, AppendIsConcat
        <4> QED BY <4>1, <4>2, <4>3
      <3> HIDE DEF v
      <3>3. Append(v, Head(s)) \o Tail(s) = v \o s
        BY <1>9, <1>10, <3>1, MoveHead
      <3> QED BY <1>10, <3>2, <3>3 DEF v
    <2>4. typed' = (sent' \o Unwritten(ready', write_msgs_')) \o Tail(s)
      BY <1>3, <1>9, <2>2, <2>3 DEF u
    <2> QED BY <2>1, <2>4 DEF EachLineOnce, Lines
  <1> QED BY <1>11, <1>12, <1>13, <1>14, <1>15, <1>16 DEF Inv

LEMMA RunWrittenKeeps ==
  ASSUME Inv, NEW ok \in BOOLEAN, RunWritten(ok)
  PROVE  Inv'
PROOF
  <1> DEFINE t == Tail(ready)
  <1>1. /\ TypeOK /\ ready \in Seq(Handler) /\ ready # <<>> /\ pending \in SUBSET Operation
        /\ write_msgs_ \in Seq(Message) /\ open \in BOOLEAN
        /\ Head(ready) = [op |-> "write", ok |-> ok] /\ t \in Seq(Handler)
        /\ io = "running"
    BY TailIs DEF Inv, TypeOK, RunWritten, Running
  <1>2. /\ "write" \in Operation /\ "write" \notin ReadOperation /\ "write" # "connect"
    BY DEF Operation, ReadOperation
  <1>3. /\ Head(ready) = Result("write", ok) /\ ~IsLine(Head(ready))
        /\ Ends(Head(ready), {"write"}) /\ ~Ends(Head(ready), ReadOperation)
    <2>1. /\ Result("write", ok) = [op |-> "write", ok |-> ok]
          /\ ~IsLine([op |-> "write", ok |-> ok])
          /\ \A ops : Ends([op |-> "write", ok |-> ok], ops) <=> "write" \in ops
      BY <1>2, ResultIs
    <2> QED BY <1>1, <1>2, <2>1
  <1>4. UNCHANGED <<main, io, established, typed, sent>>
    BY DEF RunWritten
  <1>5. Single(t, pending, {"write"}) /\ NoneOf(t, pending, {"write"})
    BY <1>1, <1>3, OwnTaken DEF Inv, OneEach
  <1>6. SameOps(ready, pending, t, pending, ReadOperation)
    BY <1>1, <1>3, OtherTaken DEF SameOps
  <1>7. write_msgs_ # <<>>
    <2>1. ~NoneOf(ready, pending, {"write"})
      <3>1. 1 \in 1 .. Len(ready) /\ Ends(ready[1], {"write"})
        BY <1>1, <1>3, TailIs
      <3> QED BY <3>1 DEF NoneOf
    <2> QED BY <2>1 DEF Inv, WriteIsDue
  <1>8. PICK s \in Seq(Message) :
               typed = (sent \o Unwritten(ready, write_msgs_)) \o s /\ PostedIn(ready, s)
    BY DEF Inv, EachLineOnce, Lines
  <1>9. PostedIn(t, s)
    BY <1>1, <1>3, <1>8, PostedOther
  <1>10. /\ ~Has(t, Result("write", TRUE))
         /\ Has(t, Result("connect", FALSE)) => Has(ready, Result("connect", FALSE))
    <2>1. Ends(Result("write", TRUE), {"write"})
      BY DEF Ends, Result, IsPost
    <2> QED BY <1>1, <1>5, <2>1, HasTail DEF NoneOf, Has
  <1>11. /\ SameOps(t, pending, ready', pending', ReadOperation)
         /\ SameLines(t, pending, ready', pending')
         /\ pending' \in SUBSET Operation /\ open' \in BOOLEAN
         /\ open' => open
         /\ pending' # {} => open'
         /\ Single(ready', pending', {"write"})
         /\ write_msgs_' \in Seq(Message)
         /\ ~NoneOf(ready', pending', {"write"}) => write_msgs_' # <<>>
         /\ open' /\ write_msgs_' # <<>> => ~NoneOf(ready', pending', {"write"})
         /\ write_msgs_' = Unwritten(ready, write_msgs_)
    <2>1. CASE ok
      <3>1. Unwritten(ready, write_msgs_) = Tail(write_msgs_)
        <4>1. Has(ready, Result("write", TRUE))
          <5>1. 1 \in 1 .. Len(ready) /\ ready[1] = Result("write", TRUE)
            <6>1. ok = TRUE
              BY <2>1
            <6>2. 1 \in 1 .. Len(ready) /\ ready[1] = Head(ready)
              BY <1>1, TailIs
            <6> QED BY <1>3, <6>1, <6>2
          <5> QED BY <5>1 DEF Has
        <4> QED BY <4>1 DEF Unwritten
      <3>2. write_msgs_' = Tail(write_msgs_)
        BY <2>1 DEF RunWritten, Popped
      <3>3. /\ write_msgs_' \in Seq(Message) /\ Len(write_msgs_) \in Nat
            /\ write_msgs_' # <<>> <=> Len(write_msgs_) > 1
        <4>1. /\ Tail(write_msgs_) \in Seq(Message) /\ Len(write_msgs_) \in Nat
              /\ Len(Tail(write_msgs_)) = Len(write_msgs_) - 1
          BY <1>1, <1>7, HeadTailProperties, LenProperties
        <4>2. Tail(write_msgs_) = <<>> <=> Len(Tail(write_msgs_)) = 0
          BY <4>1, EmptySeq
        <4>3. Len(write_msgs_) # 0
          BY <1>1, <1>7, EmptySeq
        <4> QED BY <3>2, <4>1, <4>2, <4>3
      <3>4. CASE Len(write_msgs_) > 1
        <4>1. Start("write")
          BY <2>1, <3>4 DEF RunWritten
        <4> QED BY <1>1, <1>2, <1>5, <3>1, <3>2, <3>3, <3>4, <4>1, Starts DEF Inv, ReadIsDue
      <3>5. CASE ~(Len(write_msgs_) > 1)
        <4>1. ready' = t /\ pending' = pending /\ open' = open
          BY <2>1, <3>5 DEF RunWritten, Nothing
        <4>2. SameOps(t, pending, t, pending, ReadOperation) /\ SameLines(t, pending, t, pending)
          BY <1>1 DEF SameOps, SameLines
        <4> QED BY <1>1, <1>5, <3>1, <3>2, <3>3, <3>5, <4>1, <4>2 DEF Inv, ReadIsDue
      <3> QED BY <3>4, <3>5
    <2>2. CASE ~ok
      <3>1. Close /\ write_msgs_' = write_msgs_
        BY <2>2 DEF RunWritten
      <3>2. /\ \A ops : SameOps(t, pending, ready', {}, ops)
            /\ SameLines(t, pending, ready', {})
        BY <1>1, <3>1, Closes DEF Close
      <3>3. pending' = {} /\ open' = FALSE
        BY <3>1 DEF Close
      <3>4. Unwritten(ready, write_msgs_) = write_msgs_
        <4>1. Head(ready) # Result("write", TRUE)
          BY <1>1, <2>2 DEF Result
        <4>2. ~Has(ready, Result("write", TRUE))
          BY <1>1, <1>10, <4>1, HasTail
        <4> QED BY <4>2 DEF Unwritten
      <3> QED BY <1>1, <1>5, <1>7, <3>1, <3>2, <3>3, <3>4 DEF SameOps
    <2> QED BY <2>1, <2>2
  <1> HIDE DEF t
  <1>12. TypeOK'
    BY <1>1, <1>4, <1>11 DEF TypeOK, SameLines
  <1>13. OneEach'
    BY <1>6, <1>11 DEF Inv, OneEach, SameOps
  <1>14. WriteIsDue'
    BY <1>11 DEF WriteIsDue
  <1>15. ReadIsDue'
    BY <1>1, <1>4, <1>6, <1>11 DEF Inv, OneEach, ReadIsDue, SameOps
  <1>16. ConnectsOnce'
    BY <1>4, <1>10, <1>11 DEF Inv, ConnectsOnce, SameLines
  <1>17. EachLineOnce'
    <2>1. ~Has(ready', Result("write", TRUE))
      BY <1>10, <1>11 DEF SameLines
    <2>2. Unwritten(ready', write_msgs_') = Unwritten(ready, write_msgs_)
      BY <1>11, <2>1 DEF Unwritten
    <2>3. PostedIn(ready', s)
      BY <1>8, <1>9, <1>11 DEF SameLines
    <2> QED BY <1>4, <1>8, <2>2, <2>3 DEF EachLineOnce, Lines
  <1> QED BY <1>12, <1>13, <1>14, <1>15, <1>16, <1>17 DEF Inv

LEMMA StepKeeps == Inv /\ [Next]_vars => Inv'
PROOF
  <1> SUFFICES ASSUME Inv, [Next]_vars PROVE Inv'
    OBVIOUS
  <1>1. ASSUME NEW m \in Message, Type(m) PROVE Inv'
    BY <1>1, TypeKeeps
  <1>2. CASE EndOfInput
    BY <1>2, EndOfInputKeeps
  <1>3. CASE Joined
    <2>1. /\ main' \in {"input", "joining", "exited"}
          /\ UNCHANGED <<io, ready, pending, open, established, write_msgs_, typed, sent>>
      BY <1>3 DEF Joined
    <2> QED BY <2>1 DEF Inv, TypeOK, OneEach, WriteIsDue, ReadIsDue, ConnectsOnce,
                        EachLineOnce, Lines
  <1>4. ASSUME NEW op \in Operation, NEW ok \in BOOLEAN, Complete(op, ok) PROVE Inv'
    <2>1. CASE ok = TRUE
      BY <1>4, <2>1, SuccessKeeps
    <2>2. CASE ok = FALSE
      BY <1>4, <2>2, FailureKeeps
    <2> QED BY <2>1, <2>2
  <1>5. ASSUME NEW m \in Message, RunLine(m) PROVE Inv'
    BY <1>5, RunLineKeeps
  <1>6. CASE RunClose
    BY <1>6, RunCloseKeeps
  <1>7. ASSUME NEW ok \in BOOLEAN, RunConnected(ok) PROVE Inv'
    <2>1. "connect" \in ReadOperation
      BY DEF ReadOperation
    <2>2. /\ Running([op |-> "connect", ok |-> ok])
          /\ UNCHANGED <<main, io, established, write_msgs_, typed, sent>>
          /\ ok => Start("header")
          /\ ~ok => Nothing
      BY <1>7 DEF RunConnected
    <2>3. ~ok => ~established
      <3>1. ASSUME ~ok PROVE Has(ready, Result("connect", FALSE))
        <4>1. ready \in Seq(Handler) /\ ready # <<>>
          BY <2>2 DEF Inv, TypeOK, Running
        <4>2. 1 \in 1 .. Len(ready) /\ ready[1] = Head(ready)
          BY <4>1, TailIs
        <4>3. ok = FALSE
          BY <3>1
        <4>4. Head(ready) = Result("connect", FALSE)
          BY <2>2, <4>3 DEF Running, Result
        <4> QED BY <4>2, <4>4 DEF Has
      <3> QED BY <3>1 DEF Inv, ConnectsOnce
    <2> QED BY <2>1, <2>2, <2>3, ReadRuns
  <1>8. ASSUME NEW ok \in BOOLEAN, RunHeader(ok) PROVE Inv'
    <2>1. "header" \in ReadOperation
      BY DEF ReadOperation
    <2>2. /\ Running([op |-> "header", ok |-> ok])
          /\ UNCHANGED <<main, io, established, write_msgs_, typed, sent>>
          /\ Start("body") \/ Close
      BY <1>8 DEF RunHeader
    <2> QED BY <2>1, <2>2, ReadRuns
  <1>9. ASSUME NEW ok \in BOOLEAN, RunBody(ok) PROVE Inv'
    <2>1. "body" \in ReadOperation
      BY DEF ReadOperation
    <2>2. /\ Running([op |-> "body", ok |-> ok])
          /\ UNCHANGED <<main, io, established, write_msgs_, typed, sent>>
          /\ Start("header") \/ Close
      BY <1>9 DEF RunBody
    <2> QED BY <2>1, <2>2, ReadRuns
  <1>10. ASSUME NEW ok \in BOOLEAN, RunWritten(ok) PROVE Inv'
    BY <1>10, RunWrittenKeeps
  <1>11. CASE RunReturns
    <2>1. /\ ready = <<>> /\ pending = {} /\ io' = "stopped"
          /\ UNCHANGED <<main, ready, pending, open, established, write_msgs_, typed, sent>>
      BY <1>11 DEF RunReturns
    <2>2. NoneOf(ready, pending, ReadOperation)
      <3>1. 1 .. Len(ready) = {}
        BY <2>1
      <3> QED BY <2>1, <3>1 DEF NoneOf
    <2>3. ~(open /\ established)
      BY <2>2 DEF Inv, ReadIsDue
    <2>4. ReadIsDue'
      BY <2>1, <2>3 DEF ReadIsDue
    <2> QED BY <2>1, <2>4 DEF Inv, TypeOK, OneEach, WriteIsDue, ConnectsOnce,
                              EachLineOnce, Lines
  <1>12. CASE UNCHANGED vars
    BY <1>12 DEF vars, Inv, TypeOK, OneEach, WriteIsDue, ReadIsDue, ConnectsOnce,
                 EachLineOnce, Lines
  <1> QED BY <1>1, <1>2, <1>3, <1>4, <1>5, <1>6, <1>7, <1>8, <1>9, <1>10, <1>11, <1>12
          DEF Next, IoThread

LEMMA AlwaysInv == Spec => []Inv
  BY InitKeeps, StepKeeps, PTL DEF Spec

-----------------------------------------------------------------------------
(* What the properties say in terms of the invariant.                       *)

(* How many are outstanding, when there is no more than one.                *)
LEMMA CountIs ==
  ASSUME TypeOK, NEW ops, Single(ready, pending, ops)
  PROVE  Outstanding(ops) = IF NoneOf(ready, pending, ops) THEN 0 ELSE 1
PROOF
  <1> DEFINE A == pending \cap ops
             B == {i \in DOMAIN ready : Ends(ready[i], ops)}
  <1>1. DOMAIN ready = 1 .. Len(ready)
    BY LenProperties DEF TypeOK
  <1>2. /\ \A a, b \in A : a = b
        /\ \A i, j \in B : i = j
        /\ A = {} \/ B = {}
        /\ NoneOf(ready, pending, ops) <=> A = {} /\ B = {}
    BY <1>1 DEF Single, NoneOf
  <1>3. Outstanding(ops) = Cardinality(A) + Cardinality(B)
    BY DEF Outstanding
  <1> HIDE DEF A, B
  <1>4. Cardinality({}) = 0
    BY FS_EmptySet
  <1>5. ASSUME NEW C, \A a, b \in C : a = b, C # {} PROVE Cardinality(C) = 1
    <2>1. PICK a \in C : TRUE
      BY <1>5
    <2>2. C = {a}
      BY <1>5, <2>1
    <2> QED BY <2>2, FS_Singleton
  <1>6. CASE A = {} /\ B = {}
    BY <1>2, <1>3, <1>4, <1>6
  <1>7. CASE A # {} /\ B = {}
    BY <1>2, <1>3, <1>4, <1>5, <1>7
  <1>8. CASE A = {} /\ B # {}
    BY <1>2, <1>3, <1>4, <1>5, <1>8
  <1> QED BY <1>2, <1>6, <1>7, <1>8

LEMMA SuffixOfConcat ==
  ASSUME NEW S, NEW v \in Seq(S), NEW s \in Seq(S)
  PROVE  SubSeq(v \o s, Len(v) + 1, Len(v \o s)) = s
PROOF
  <1>1. /\ v \o s \in Seq(S) /\ Len(v \o s) = Len(v) + Len(s)
        /\ Len(v) \in Nat /\ Len(s) \in Nat
        /\ \A i \in 1 .. Len(s) : (v \o s)[Len(v) + i] = s[i]
    BY ConcatProperties, LenProperties
  <1> DEFINE c == v \o s
             d == SubSeq(c, Len(v) + 1, Len(c))
  <1> HIDE DEF c
  <1>2. Len(v) + 1 \in Nat \ {0} /\ Len(c) \in Nat /\ c \in Seq(S)
    BY <1>1 DEF c
  <1>3. /\ d \in Seq(S)
        /\ Len(d) = IF Len(v) + 1 <= Len(c) THEN Len(c) - (Len(v) + 1) + 1 ELSE 0
        /\ \A k \in 1 .. (Len(c) - (Len(v) + 1) + 1) : d[k] = c[(Len(v) + 1) + k - 1]
    <2>1. \A k \in Len(v) + 1 .. Len(c) : c[k] \in S
      BY <1>1, <1>2, ElementOfSeq
    <2> QED BY <1>2, <2>1, SubSeqProperties
  <1> HIDE DEF d
  <1>4. Len(d) = Len(s)
    BY <1>1, <1>3 DEF c
  <1>5. \A k \in 1 .. Len(s) : d[k] = s[k]
    <2>1. ASSUME NEW k \in 1 .. Len(s) PROVE d[k] = s[k]
      <3>1. k \in 1 .. (Len(c) - (Len(v) + 1) + 1) /\ (Len(v) + 1) + k - 1 = Len(v) + k
        BY <1>1 DEF c
      <3>2. d[k] = c[Len(v) + k]
        BY <1>3, <3>1
      <3> QED BY <1>1, <3>2 DEF c
    <2> QED BY <2>1
  <1> QED BY <1>3, <1>4, <1>5, SeqEqual DEF c, d

(* What is written and popped is read off write_msgs_ by its place.         *)
LEMMA UnwrittenIs ==
  ASSUME Inv
  PROVE  /\ SubSeq(write_msgs_, 1 + Unpopped, Len(write_msgs_)) = Unwritten(ready, write_msgs_)
         /\ Unwritten(ready, write_msgs_) \in Seq(Message)
PROOF
  <1>1. write_msgs_ \in Seq(Message) /\ ready \in Seq(Handler)
    BY DEF Inv, TypeOK
  <1>2. DOMAIN ready = 1 .. Len(ready)
    BY <1>1, LenProperties
  <1>3. Unpopped = IF Has(ready, Result("write", TRUE)) THEN 1 ELSE 0
    BY <1>2 DEF Unpopped, Has, Result
  <1>4. CASE Has(ready, Result("write", TRUE))
    <2>1. write_msgs_ # <<>>
      BY <1>4, WrittenIsThere
    <2>2. Tail(write_msgs_) = SubSeq(write_msgs_, 2, Len(write_msgs_))
      BY <1>1, <2>1, TailIsSubSeq
    <2>3. 1 + Unpopped = 2
      BY <1>3, <1>4
    <2> QED BY <1>1, <1>4, <2>1, <2>2, <2>3, HeadTailProperties DEF Unwritten
  <1>5. CASE ~Has(ready, Result("write", TRUE))
    <2>1. SubSeq(write_msgs_, 1, Len(write_msgs_)) = write_msgs_
      BY <1>1, SubSeqFull
    <2>2. 1 + Unpopped = 1
      BY <1>3, <1>5
    <2> QED BY <1>1, <1>5, <2>1, <2>2 DEF Unwritten
  <1> QED BY <1>4, <1>5

LEMMA InvSaysNothingLost == Inv => NothingLost
PROOF
  <1> SUFFICES ASSUME Inv PROVE NothingLost
    OBVIOUS
  <1> DEFINE got == sent \o SubSeq(write_msgs_, 1 + Unpopped, Len(write_msgs_))
             due == SubSeq(typed, Len(got) + 1, Len(typed))
  <1>1. PICK s \in Seq(Message) :
               typed = (sent \o Unwritten(ready, write_msgs_)) \o s /\ PostedIn(ready, s)
    BY DEF Inv, EachLineOnce, Lines
  <1>2. sent \in Seq(Message)
    BY DEF Inv, TypeOK
  <1>3. got = sent \o Unwritten(ready, write_msgs_)
    BY UnwrittenIs
  <1>4. got \in Seq(Message)
    BY <1>2, <1>3, UnwrittenIs, ConcatProperties
  <1> HIDE DEF got
  <1>5. typed = got \o s
    BY <1>1, <1>3
  <1>6. due = s
    BY <1>4, <1>5, SuffixOfConcat
  <1> HIDE DEF due
  <1>7. typed = got \o due /\ PostedIn(ready, due)
    BY <1>1, <1>5, <1>6
  <1> QED BY <1>7 DEF NothingLost, got, due

-----------------------------------------------------------------------------
(* The theorems.                                                            *)

(* Every handler in the queue is one that the code posts or that completes  *)
(* an operation it starts, and every message is one that was typed in.      *)
THEOREM TypeCorrect == Spec => []TypeOK
PROOF
  <1>1. Inv => TypeOK
    BY DEF Inv
  <1> QED BY <1>1, AlwaysInv, PTL

(* Between the main thread that posts them, the io thread that queues them  *)
(* and the writes one after the other, no line is lost, repeated or         *)
(* overtaken, whatever fails and whenever the client closes.                *)
THEOREM NoLineLost == Spec => []NothingLost
  BY AlwaysInv, InvSaysNothingLost, PTL

(* However a posted line and a completed write meet in the queue, there is  *)
(* never a second write beside the first, nor a message that waits on an    *)
(* open socket with no write to come.                                       *)
THEOREM OneWriteAtATime == Spec => []WriteChain
PROOF
  <1>1. Inv => WriteChain
    BY CountIs DEF Inv, OneEach, WriteIsDue, WriteChain
  <1> QED BY <1>1, AlwaysInv, PTL

(* On a connection that is up exactly one read is outstanding, and the io   *)
(* thread is in run(): it cannot run out of work before the close.          *)
THEOREM AlwaysListening == Spec => []ReadChain
PROOF
  <1>1. Inv => ReadChain
    BY CountIs DEF Inv, OneEach, ReadIsDue, ReadChain
  <1> QED BY <1>1, AlwaysInv, PTL
=============================================================================
