------------------------- MODULE SearchClientProofs -------------------------
(* Theorems about SearchClient, for any ids, any fields of other versions   *)
(* and any number of calls.                                                 *)
EXTENDS SearchClient, SequenceTheorems, TLAPS

(* The tokens of which messages are made. *)
Value == {<<>>, "searchName", "other", Text("", 0)}
           \cup {Number(i) : i \in Id \cup {0}} \cup {Text("xiongyu: ", i) : i \in Id}
Wire == {Token(type, fid, val) :
           type \in {"CALL", "REPLY", "EXCEPTION", "STRUCT", "I32", "STRING", "STOP"},
           fid \in 0 .. 2, val \in Value}
        \cup UNION {Range(f) : f \in Extra}

Struct == {"args", "result", "Response", "TApplicationException", "skipped"}

(* In the stack s, d structs that are skipped are open within those of b.   *)
Over(s, d, b) ==
  /\ s \in Seq(Struct)
  /\ Len(s) = d + Len(b)
  /\ \A n \in 1 .. d : s[n] = "skipped"
  /\ \A n \in 1 .. Len(b) : s[d + n] = b[n]

(* How deep the fields f are.                                               *)
Depth(f) == CHOOSE depth \in [0 .. Len(f) -> 0 .. Len(f)] : Nesting(f, depth)

More == Len(version.more)
Deep(k) == Depth(version.more)[k]

(* The server has taken the first p tokens of the call: the header, the     *)
(* argument, the other fields, the end.                                     *)
Base == IF asked.method = "searchName" THEN <<"args">> ELSE <<"skipped">>
ArgsTaken(p) ==
  /\ p = 1 => stack.server = Base
  /\ p \in 2 .. More + 2 => Over(stack.server, Deep(p - 2), Base)
  /\ p = More + 3 => stack.server = <<>>
Learnt ==
  taken.server.id = IF asked.method = "searchName" THEN Number(asked.id) ELSE Number(0)

ServerReads ==
  LET m == CallMessage(asked.id) IN
  \/ pc.server = "header" /\ in.server = m
  \/ /\ pc.server = "body"
     /\ \E p \in 1 .. Len(m) :
          /\ in.server = SubSeq(m, p + 1, Len(m))
          /\ ArgsTaken(p)
          /\ IF p = 1 THEN taken.server = Blank ELSE Learnt
  \/ pc.server = "processing" /\ in.server = <<>> /\ Learnt

(* The client has taken the first p tokens of an answer.                    *)
MustRefuse == asked.method # "searchName" \/ asked.id < 1000
Answer == IF MustRefuse THEN Refusal ELSE Reply(asked.id)
ResponseTaken(p) ==
  /\ p = 1 => stack.client = <<"result">>
  /\ p \in 2 .. More + 2 => Over(stack.client, Deep(p - 2), <<"Response", "result">>)
  /\ p \in More + 3 .. More + 4 => stack.client = <<"Response", "result">>
  /\ p = More + 5 => stack.client = <<"result">>
  /\ p = More + 6 => stack.client = <<>>
  /\ p = 1 => taken.client.success = FALSE
  /\ p > 1 => taken.client.success = TRUE
  /\ p > More + 3 => taken.client.name = Text("xiongyu: ", asked.id)
StringTaken(p) ==
  /\ p \in 1 .. 2 => stack.client = <<"result">>
  /\ p = 3 => stack.client = <<>>
  /\ taken.client.success = FALSE
RefusalTaken(p) ==
  /\ p \in 1 .. 3 => stack.client = <<"TApplicationException">>
  /\ p = 4 => stack.client = <<>>
AnswerTaken(p) ==
  IF MustRefuse THEN RefusalTaken(p) /\ outcome = "exception"
  ELSE /\ IF version.success = "STRUCT" THEN ResponseTaken(p) ELSE StringTaken(p)
       /\ outcome = "none"

ClientReads ==
  \E p \in 0 .. Len(Answer) : \E n \in p .. Len(Answer) :
    /\ in.client = SubSeq(Answer, p + 1, n)
    /\ up => n = Len(Answer)
    /\ (p = 0 <=> pc.client = "header")
    /\ p > 0 => AnswerTaken(p)

End == {"client", "server"}
Types ==
  /\ version \in [method : Method, more : Extra, success : {"STRUCT", "STRING"}]
  /\ pc.client \in {"idle", "header", "body"}
  /\ pc \in [End -> {"idle", "header", "body", "processing"}]
  /\ in \in [End -> Seq(Wire)]
  /\ stack \in [End -> Seq(Struct)]
  /\ DOMAIN taken = End
  /\ \A e \in End : DOMAIN taken[e] = {"id", "name", "success"}
  /\ up \in BOOLEAN

Waits == pc.client = "header" /\ in.client = <<>>
Gets == pc.client = "body" \/ (pc.client = "header" /\ in.client # <<>>)
Inv ==
  /\ Types
  /\ AtBoundary
  /\ AnswerIsOwn
  /\ pc.client # "idle" => asked.method = version.method /\ asked.id \in Id
  /\ pc.client = "header" => outcome = "none"
  /\ ~up => in.server = <<>>
  /\ Waits /\ up => ServerReads
  /\ Gets => ClientReads /\ (up => in.server = <<>> /\ pc.server = "header")

-----------------------------------------------------------------------------
(* Tokens and messages.                                                     *)

LEMMA KnownIs ==
  ASSUME NEW s, NEW t
  PROVE  Known(s, t) <=> \/ s = "args" /\ t.fid = 1 /\ t.type = "I32"
                         \/ s = "result" /\ t.fid = 0 /\ t.type = "STRUCT"
                         \/ s = "Response" /\ t.fid = 1 /\ t.type = "I32"
                         \/ s = "Response" /\ t.fid = 2 /\ t.type = "STRING"
                         \/ s = "TApplicationException" /\ t.fid = 1 /\ t.type = "STRING"
                         \/ s = "TApplicationException" /\ t.fid = 2 /\ t.type = "I32"
PROOF
  <1> DEFINE f == t.fid
             y == t.type
  <1> HIDE DEF f, y
  <1>1. <<s, f, y>> \in KnownFields <=>
          \/ s = "args" /\ f = 1 /\ y = "I32"
          \/ s = "result" /\ f = 0 /\ y = "STRUCT"
          \/ s = "Response" /\ f = 1 /\ y = "I32"
          \/ s = "Response" /\ f = 2 /\ y = "STRING"
          \/ s = "TApplicationException" /\ f = 1 /\ y = "STRING"
          \/ s = "TApplicationException" /\ f = 2 /\ y = "I32"
    BY DEF KnownFields
  <1> QED BY <1>1 DEF Known, f, y

(* What Fields says of the depth that it picks. *)
LEMMA DepthIs ==
  ASSUME NEW f \in Extra
  PROVE  /\ Depth(f) \in [0 .. Len(f) -> 0 .. Len(f)]
         /\ Depth(f)[0] = 0 /\ Depth(f)[Len(f)] = 0
         /\ \A k \in 1 .. Len(f) :
              /\ Depth(f)[k - 1] = 0 => ~Known("args", f[k]) /\ ~Known("Response", f[k])
              /\ Depth(f)[k] = CASE f[k].type = "STRUCT" -> Depth(f)[k - 1] + 1
                                 [] f[k].type = "STOP" -> Depth(f)[k - 1] - 1
                                 [] OTHER -> Depth(f)[k - 1]
PROOF
  <1>1. \E depth \in [0 .. Len(f) -> 0 .. Len(f)] : Nesting(f, depth)
    BY ExtraAssumption DEF Fields
  <1>2. Depth(f) \in [0 .. Len(f) -> 0 .. Len(f)] /\ Nesting(f, Depth(f))
    BY <1>1 DEF Depth
  <1> QED BY <1>2 DEF Nesting

LEMMA MoreIs ==
  ASSUME Types
  PROVE  /\ version.more \in Extra /\ version.more \in Seq(Wire) /\ More \in Nat
         /\ version.method \in Method /\ version.success \in {"STRUCT", "STRING"}
PROOF
  <1>1. /\ version.more \in Extra
        /\ version.method \in Method /\ version.success \in {"STRUCT", "STRING"}
    BY DEF Types
  <1>2. PICK f \in Extra : f = version.more
    BY <1>1
  <1>3. f \in Seq(Range(f))
    BY ExtraAssumption
  <1>4. Range(f) \subseteq Wire
    BY DEF Wire
  <1>5. Len(f) \in Nat /\ f \in [1 .. Len(f) -> Range(f)]
    BY <1>3, LenProperties
  <1>6. f \in Seq(Wire)
    <2>1. f \in [1 .. Len(f) -> Wire]
      BY <1>4, <1>5
    <2> QED BY <1>5, <2>1
  <1> QED BY <1>1, <1>2, <1>5, <1>6 DEF More

LEMMA Tokens ==
  ASSUME NEW i \in Id \cup {0}
  PROVE  /\ \A m \in Method : Token("CALL", 0, m) \in Wire /\ Token("REPLY", 0, m) \in Wire
                              /\ Token("EXCEPTION", 0, m) \in Wire
         /\ Token("I32", 1, Number(i)) \in Wire /\ Token("I32", 2, Number(0)) \in Wire
         /\ STOP \in Wire /\ Token("STRUCT", 0, <<>>) \in Wire
         /\ Token("STRING", 0, Text("", 0)) \in Wire /\ Token("STRING", 1, Text("", 0)) \in Wire
         /\ i \in Id => Token("STRING", 2, Text("xiongyu: ", i)) \in Wire
PROOF
  <1> DEFINE Y == {"CALL", "REPLY", "EXCEPTION", "STRUCT", "I32", "STRING", "STOP"}
  <1>1. \A y \in Y, n \in 0 .. 2, v \in Value : Token(y, n, v) \in Wire
    BY DEF Wire
  <1>2. /\ "CALL" \in Y /\ "REPLY" \in Y /\ "EXCEPTION" \in Y /\ "STRUCT" \in Y
        /\ "I32" \in Y /\ "STRING" \in Y /\ "STOP" \in Y
    OBVIOUS
  <1> HIDE DEF Y
  <1>3. 0 \in 0 .. 2 /\ 1 \in 0 .. 2 /\ 2 \in 0 .. 2
    OBVIOUS
  <1>4. /\ \A m \in Method : m \in Value
        /\ <<>> \in Value /\ Text("", 0) \in Value
    BY DEF Method, Value
  <1>5. Number(i) \in Value /\ Number(0) \in Value
    BY DEF Value
  <1>6. i \in Id => Text("xiongyu: ", i) \in Value
    BY DEF Value
  <1> QED BY <1>1, <1>2, <1>3, <1>4, <1>5, <1>6 DEF STOP

(* Short sequences. *)
LEMMA Short ==
  ASSUME NEW S, NEW a \in S, NEW b \in S, NEW c \in S, NEW d \in S
  PROVE  /\ <<a>> \in Seq(S) /\ Len(<<a>>) = 1 /\ <<a>>[1] = a
         /\ <<a, b>> \in Seq(S) /\ Len(<<a, b>>) = 2 /\ <<a, b>>[1] = a /\ <<a, b>>[2] = b
         /\ <<a, b, c>> \in Seq(S) /\ Len(<<a, b, c>>) = 3
         /\ <<a, b, c>>[1] = a /\ <<a, b, c>>[2] = b /\ <<a, b, c>>[3] = c
         /\ <<a, b, c, d>> \in Seq(S) /\ Len(<<a, b, c, d>>) = 4
         /\ <<a, b, c, d>>[1] = a /\ <<a, b, c, d>>[2] = b
         /\ <<a, b, c, d>>[3] = c /\ <<a, b, c, d>>[4] = d
PROOF OBVIOUS

(* Where the elements of three sequences are in one. *)
Joins(m, S, a, f, z) ==
  /\ m \in Seq(S)
  /\ Len(m) = Len(a) + Len(f) + Len(z)
  /\ \A k \in 1 .. Len(a) : m[k] = a[k]
  /\ \A k \in 1 .. Len(f) : m[Len(a) + k] = f[k]
  /\ \A k \in 1 .. Len(z) : m[Len(a) + Len(f) + k] = z[k]

LEMMA Between ==
  ASSUME NEW S, NEW a \in Seq(S), NEW f \in Seq(S), NEW z \in Seq(S)
  PROVE  Joins((a \o f) \o z, S, a, f, z)
PROOF
  <1>1. Len(a) \in Nat /\ Len(f) \in Nat /\ Len(z) \in Nat
    BY LenProperties
  <1> DEFINE u == a \o f
             m == u \o z
  <1>2. /\ u \in Seq(S) /\ Len(u) = Len(a) + Len(f)
        /\ \A k \in 1 .. Len(a) + Len(f) :
             u[k] = IF k <= Len(a) THEN a[k] ELSE f[k - Len(a)]
    BY ConcatProperties, Zenon
  <1> HIDE DEF u
  <1>3. /\ m \in Seq(S) /\ Len(m) = Len(u) + Len(z)
        /\ \A k \in 1 .. Len(u) + Len(z) :
             m[k] = IF k <= Len(u) THEN u[k] ELSE z[k - Len(u)]
    <2>1. u \in Seq(S)
      BY <1>2
    <2> QED BY <2>1, ConcatProperties, Zenon
  <1> HIDE DEF m
  <1>4. \A k \in 1 .. Len(a) : m[k] = a[k]
    BY <1>1, <1>2, <1>3
  <1>5. ASSUME NEW k \in 1 .. Len(f) PROVE m[Len(a) + k] = f[k]
    <2>1. m[Len(a) + k] = u[Len(a) + k]
      BY <1>1, <1>2, <1>3
    <2>2. u[Len(a) + k] = f[Len(a) + k - Len(a)]
      BY <1>1, <1>2
    <2>3. Len(a) + k - Len(a) = k
      BY <1>1
    <2> QED BY <2>1, <2>2, <2>3
  <1>6. ASSUME NEW k \in 1 .. Len(z) PROVE m[Len(a) + Len(f) + k] = z[k]
    <2>1. Len(u) \in Nat /\ Len(u) + k \in 1 .. Len(u) + Len(z)
          /\ ~(Len(u) + k <= Len(u)) /\ Len(u) + k - Len(u) = k
      BY <1>1, <1>2
    <2>2. m[Len(u) + k] = z[k]
      BY <1>3, <2>1
    <2> QED BY <1>2, <2>2
  <1> QED BY <1>1, <1>2, <1>3, <1>4, <1>5, <1>6 DEF u, m, Joins

(* A call: its header, its argument, other fields and the end. *)
LEMMA CallIs ==
  ASSUME Types, NEW i \in Id
  PROVE  /\ CallMessage(i) \in Seq(Wire) /\ Len(CallMessage(i)) = More + 3
         /\ CallMessage(i)[1] = Token("CALL", 0, version.method)
         /\ CallMessage(i)[2] = Token("I32", 1, Number(i))
         /\ \A k \in 1 .. More : CallMessage(i)[k + 2] = version.more[k]
         /\ CallMessage(i)[More + 3] = STOP
PROOF
  <1> DEFINE h == Token("CALL", 0, version.method)
             n == Token("I32", 1, Number(i))
             a == <<h, n>>
             f == version.more
             z == <<STOP>>
             m == (a \o f) \o z
  <1>1. f \in Seq(Wire) /\ More \in Nat /\ Len(f) = More
    BY MoreIs DEF More
  <1>2. h \in Wire /\ n \in Wire /\ STOP \in Wire
    <2>1. version.method \in Method /\ i \in Id \cup {0}
      BY MoreIs
    <2> QED BY <2>1, Tokens
  <1>3. CallMessage(i) = m
    BY DEF CallMessage
  <1> HIDE DEF h, n
  <1>4. /\ a \in Seq(Wire) /\ Len(a) = 2 /\ a[1] = h /\ a[2] = n
        /\ z \in Seq(Wire) /\ Len(z) = 1 /\ z[1] = STOP
    BY <1>2, Short
  <1> HIDE DEF a, f, z
  <1>5. /\ m \in Seq(Wire)
        /\ Len(m) = Len(a) + Len(f) + Len(z)
        /\ \A k \in 1 .. Len(a) : m[k] = a[k]
        /\ \A k \in 1 .. Len(f) : m[Len(a) + k] = f[k]
        /\ \A k \in 1 .. Len(z) : m[Len(a) + Len(f) + k] = z[k]
    <2>1. a \in Seq(Wire) /\ f \in Seq(Wire) /\ z \in Seq(Wire)
      BY <1>1, <1>4
    <2>2. Joins(m, Wire, a, f, z)
      BY <2>1, Between
    <2> QED BY <2>2 DEF Joins
  <1> HIDE DEF m
  <1>6. Len(m) = More + 3 /\ m[1] = h /\ m[2] = n
    BY <1>1, <1>4, <1>5
  <1>7. ASSUME NEW k \in 1 .. More PROVE m[k + 2] = f[k]
    <2>1. m[Len(a) + k] = f[k] /\ Len(a) + k = k + 2
      BY <1>1, <1>4, <1>5
    <2> QED BY <2>1
  <1>8. m[More + 3] = STOP
    <2>1. 1 \in 1 .. Len(z) /\ Len(a) + Len(f) + 1 = More + 3
      BY <1>1, <1>4
    <2> QED BY <1>4, <1>5, <2>1
  <1> QED BY <1>3, <1>5, <1>6, <1>7, <1>8 DEF h, n, f

(* An answer that is a Response: header, struct, other fields, the two      *)
(* fields of the Response, its end and the end of the result.               *)
LEMMA ReplyIs ==
  ASSUME Types, NEW i \in Id, version.success = "STRUCT", asked.method \in Method
  PROVE  /\ Reply(i) \in Seq(Wire) /\ Len(Reply(i)) = More + 6
         /\ Reply(i)[1] = Token("REPLY", 0, asked.method)
         /\ Reply(i)[2] = Token("STRUCT", 0, <<>>)
         /\ \A k \in 1 .. More : Reply(i)[k + 2] = version.more[k]
         /\ Reply(i)[More + 3] = Token("I32", 1, Number(0))
         /\ Reply(i)[More + 4] = Token("STRING", 2, Text("xiongyu: ", i))
         /\ Reply(i)[More + 5] = STOP /\ Reply(i)[More + 6] = STOP
PROOF
  <1> DEFINE h == Token("REPLY", 0, asked.method)
             g == Token("STRUCT", 0, <<>>)
             n == Token("I32", 1, Number(0))
             t == Token("STRING", 2, Text("xiongyu: ", i))
             f == version.more
             a == <<g>>
             z == <<n, t, STOP>>
             r == (a \o f) \o z
             b == <<h>>
             y == <<STOP>>
             m == (b \o r) \o y
  <1>1. f \in Seq(Wire) /\ More \in Nat /\ Len(f) = More
    BY MoreIs DEF More
  <1>2. h \in Wire /\ g \in Wire /\ n \in Wire /\ t \in Wire /\ STOP \in Wire
    <2>1. i \in Id \cup {0} /\ 0 \in Id \cup {0}
      OBVIOUS
    <2> QED BY <2>1, Tokens
  <1>3. Reply(i) = m
    BY DEF Reply, Response
  <1> HIDE DEF h, g, n, t
  <1>4. /\ a \in Seq(Wire) /\ Len(a) = 1 /\ a[1] = g
        /\ z \in Seq(Wire) /\ Len(z) = 3 /\ z[1] = n /\ z[2] = t /\ z[3] = STOP
        /\ b \in Seq(Wire) /\ Len(b) = 1 /\ b[1] = h
        /\ y \in Seq(Wire) /\ Len(y) = 1 /\ y[1] = STOP
    BY <1>2, Short
  <1> HIDE DEF a, f, z, b, y
  <1>5. /\ r \in Seq(Wire)
        /\ Len(r) = Len(a) + Len(f) + Len(z)
        /\ \A k \in 1 .. Len(a) : r[k] = a[k]
        /\ \A k \in 1 .. Len(f) : r[Len(a) + k] = f[k]
        /\ \A k \in 1 .. Len(z) : r[Len(a) + Len(f) + k] = z[k]
    <2>1. a \in Seq(Wire) /\ f \in Seq(Wire) /\ z \in Seq(Wire)
      BY <1>1, <1>4
    <2>2. Joins(r, Wire, a, f, z)
      BY <2>1, Between
    <2> QED BY <2>2 DEF Joins
  <1> HIDE DEF r
  <1>6. Len(r) = More + 4 /\ r[1] = g
    BY <1>1, <1>4, <1>5
  <1>7. ASSUME NEW k \in 1 .. More PROVE r[k + 1] = f[k]
    <2>1. r[Len(a) + k] = f[k] /\ Len(a) + k = k + 1
      BY <1>1, <1>4, <1>5
    <2> QED BY <2>1
  <1>8. r[More + 2] = n /\ r[More + 3] = t /\ r[More + 4] = STOP
    <2>1. \A k \in 1 .. 3 : r[Len(a) + Len(f) + k] = z[k]
      BY <1>4, <1>5
    <2>2. /\ Len(a) + Len(f) + 1 = More + 2 /\ Len(a) + Len(f) + 2 = More + 3
          /\ Len(a) + Len(f) + 3 = More + 4
      BY <1>1, <1>4
    <2>3. 1 \in 1 .. 3 /\ 2 \in 1 .. 3 /\ 3 \in 1 .. 3
      OBVIOUS
    <2> QED BY <1>4, <2>1, <2>2, <2>3
  <1>9. /\ m \in Seq(Wire)
        /\ Len(m) = Len(b) + Len(r) + Len(y)
        /\ \A k \in 1 .. Len(b) : m[k] = b[k]
        /\ \A k \in 1 .. Len(r) : m[Len(b) + k] = r[k]
        /\ \A k \in 1 .. Len(y) : m[Len(b) + Len(r) + k] = y[k]
    <2>1. b \in Seq(Wire) /\ r \in Seq(Wire) /\ y \in Seq(Wire)
      BY <1>4, <1>5
    <2>2. Joins(m, Wire, b, r, y)
      BY <2>1, Between
    <2> QED BY <2>2 DEF Joins
  <1> HIDE DEF m
  <1>10. Len(m) = More + 6 /\ m[1] = h
    BY <1>1, <1>4, <1>6, <1>9
  <1>11. m[More + 6] = STOP
    <2>1. 1 \in 1 .. Len(y) /\ Len(b) + Len(r) + 1 = More + 6
      BY <1>1, <1>4, <1>6
    <2> QED BY <1>4, <1>9, <2>1
  <1>12. ASSUME NEW k \in 1 .. More + 4 PROVE m[k + 1] = r[k]
    <2>1. m[Len(b) + k] = r[k] /\ Len(b) + k = k + 1
      BY <1>1, <1>4, <1>6, <1>9
    <2> QED BY <2>1
  <1>13. /\ m[2] = g /\ m[More + 3] = n /\ m[More + 4] = t /\ m[More + 5] = STOP
    <2>1. /\ 1 \in 1 .. More + 4 /\ More + 2 \in 1 .. More + 4
          /\ More + 3 \in 1 .. More + 4 /\ More + 4 \in 1 .. More + 4
          /\ 2 = 1 + 1 /\ More + 3 = More + 2 + 1 /\ More + 4 = More + 3 + 1
          /\ More + 5 = More + 4 + 1
      BY <1>1
    <2>2. /\ m[1 + 1] = r[1] /\ m[More + 2 + 1] = r[More + 2]
          /\ m[More + 3 + 1] = r[More + 3] /\ m[More + 4 + 1] = r[More + 4]
      BY <1>12, <2>1
    <2> QED BY <1>6, <1>8, <2>1, <2>2
  <1>14. ASSUME NEW k \in 1 .. More PROVE m[k + 2] = f[k]
    <2>1. k + 1 \in 1 .. More + 4 /\ k + 2 = k + 1 + 1
      BY <1>1
    <2> QED BY <1>7, <1>12, <2>1
  <1> QED BY <1>3, <1>9, <1>10, <1>11, <1>13, <1>14 DEF h, g, n, t, f

(* An answer that is none, and a refusal. *)
LEMMA OtherReplyIs ==
  ASSUME NEW i \in Id, version.success # "STRUCT", asked.method \in Method
  PROVE  /\ Reply(i) \in Seq(Wire) /\ Len(Reply(i)) = 3
         /\ Reply(i)[1] = Token("REPLY", 0, asked.method)
         /\ Reply(i)[2] = Token("STRING", 0, Text("", 0))
         /\ Reply(i)[3] = STOP
PROOF
  <1> DEFINE a == Token("REPLY", 0, asked.method)
             b == Token("STRING", 0, Text("", 0))
             x == <<a>>
             y == <<b>>
             z == <<STOP>>
             m == (x \o y) \o z
  <1>1. a \in Wire /\ b \in Wire /\ STOP \in Wire
    <2>1. 0 \in Id \cup {0}
      OBVIOUS
    <2> QED BY <2>1, Tokens
  <1>2. Reply(i) = m
    BY DEF Reply
  <1> HIDE DEF a, b
  <1>3. /\ x \in Seq(Wire) /\ Len(x) = 1 /\ x[1] = a
        /\ y \in Seq(Wire) /\ Len(y) = 1 /\ y[1] = b
        /\ z \in Seq(Wire) /\ Len(z) = 1 /\ z[1] = STOP
    BY <1>1, Short
  <1> HIDE DEF x, y, z
  <1>4. /\ m \in Seq(Wire)
        /\ Len(m) = Len(x) + Len(y) + Len(z)
        /\ \A k \in 1 .. Len(x) : m[k] = x[k]
        /\ \A k \in 1 .. Len(y) : m[Len(x) + k] = y[k]
        /\ \A k \in 1 .. Len(z) : m[Len(x) + Len(y) + k] = z[k]
    <2>1. x \in Seq(Wire) /\ y \in Seq(Wire) /\ z \in Seq(Wire)
      BY <1>3
    <2>2. Joins(m, Wire, x, y, z)
      BY <2>1, Between
    <2> QED BY <2>2 DEF Joins
  <1> HIDE DEF m
  <1>5. Len(m) = 3 /\ m[1] = a /\ m[2] = b /\ m[3] = STOP
    <2>1. 1 \in 1 .. 1 /\ 1 + 1 = 2 /\ 1 + 1 + 1 = 3
      OBVIOUS
    <2>2. m[1] = a /\ m[1 + 1] = b /\ m[1 + 1 + 1] = STOP
      BY <1>3, <1>4, <2>1
    <2> QED BY <1>3, <1>4, <2>1, <2>2
  <1> QED BY <1>2, <1>4, <1>5 DEF a, b

LEMMA RefusalIs ==
  ASSUME asked.method \in Method
  PROVE  /\ Refusal \in Seq(Wire) /\ Len(Refusal) = 4
         /\ Refusal[1] = Token("EXCEPTION", 0, asked.method)
         /\ Refusal[2] = Token("STRING", 1, Text("", 0))
         /\ Refusal[3] = Token("I32", 2, Number(0))
         /\ Refusal[4] = STOP
PROOF
  <1> DEFINE a == Token("EXCEPTION", 0, asked.method)
             b == Token("STRING", 1, Text("", 0))
             c == Token("I32", 2, Number(0))
             m == <<a, b, c, STOP>>
  <1>1. a \in Wire /\ b \in Wire /\ c \in Wire /\ STOP \in Wire
    <2>1. 0 \in Id \cup {0}
      OBVIOUS
    <2> QED BY <2>1, Tokens
  <1>2. Refusal = m
    BY DEF Refusal
  <1> HIDE DEF a, b, c
  <1>3. /\ m \in Seq(Wire) /\ Len(m) = 4 /\ m[1] = a /\ m[2] = b /\ m[3] = c /\ m[4] = STOP
    BY <1>1, Short
  <1> HIDE DEF m
  <1> QED BY <1>2, <1>3 DEF a, b, c

-----------------------------------------------------------------------------
(* Streams and stacks.                                                      *)

(* Taking a token from what is left of a message. *)
LEMMA TakeToken ==
  ASSUME NEW S, NEW m \in Seq(S), NEW p \in 0 .. Len(m), NEW n \in p .. Len(m)
  PROVE  LET q == SubSeq(m, p + 1, n) IN
         /\ q \in Seq(S) /\ Len(q) = n - p
         /\ q = <<>> <=> p = n
         /\ q # <<>> => Head(q) = m[p + 1] /\ Tail(q) = SubSeq(m, p + 1 + 1, n)
PROOF
  <1> DEFINE q == SubSeq(m, p + 1, n)
  <1>1. Len(m) \in Nat
    BY LenProperties
  <1>2. q \in Seq(S) /\ Len(q) = n - p
    <2>1. \A k \in p + 1 .. n : m[k] \in S
      BY <1>1, ElementOfSeq
    <2>2. p + 1 \in Int /\ n \in Int
      BY <1>1
    <2>3. q \in Seq(S) /\ Len(q) = IF p + 1 <= n THEN n - (p + 1) + 1 ELSE 0
      BY <2>1, <2>2, SubSeqProperties
    <2> QED BY <1>1, <2>3
  <1>3. q = <<>> <=> p = n
    <2>1. q = <<>> <=> Len(q) = 0
      BY <1>2, EmptySeq
    <2> QED BY <1>1, <1>2, <2>1
  <1>4. ASSUME q # <<>> PROVE Head(q) = m[p + 1] /\ Tail(q) = SubSeq(m, p + 1 + 1, n)
    <2>1. p + 1 <= n /\ p + 1 \in 1 .. Len(m) + 1 /\ n \in 0 .. Len(m) + 1
          /\ p + 1 \in Int /\ n \in Int /\ 0 <= p
      BY <1>1, <1>3, <1>4
    <2> QED BY <2>1, HeadTailOfSubSeq
  <1> QED BY <1>2, <1>3, <1>4

(* Nothing skipped is open: the stack is what it was. *)
LEMMA NothingOver ==
  ASSUME NEW b \in Seq(Struct), NEW s
  PROVE  Over(s, 0, b) <=> s = b
PROOF
  <1>1. Len(b) \in Nat
    BY LenProperties
  <1>2. ASSUME Over(s, 0, b) PROVE s = b
    <2>1. s \in Seq(Struct) /\ Len(s) = Len(b)
      BY <1>1, <1>2 DEF Over
    <2>2. \A k \in 1 .. Len(s) : s[k] = b[k]
      BY <1>1, <1>2, <2>1 DEF Over
    <2> QED BY <2>1, <2>2, SeqEqual
  <1>3. ASSUME s = b PROVE Over(s, 0, b)
    BY <1>1, <1>3 DEF Over
  <1> QED BY <1>2, <1>3

(* Any of the other fields is skipped to its end, and no more than that. *)
LEMMA Skipping ==
  ASSUME Types, NEW e \in End, NEW k \in 1 .. More, NEW b \in Seq(Struct), b # <<>>,
         b[1] \in {"args", "Response", "skipped"}, Over(stack[e], Deep(k - 1), b)
  PROVE  /\ stack[e] # <<>>
         /\ ~Known(Head(stack[e]), version.more[k])
         /\ Over(Nested(e, Head(stack[e]), version.more[k]), Deep(k), b)
PROOF
  <1> DEFINE st == stack[e]
             t == version.more[k]
             c == Deep(k - 1)
             d == Deep(k)
  <1>1. /\ More \in Nat /\ k - 1 \in 0 .. More /\ k \in 0 .. More
        /\ version.more \in Extra
    BY MoreIs
  <1>2. c \in Nat /\ d \in Nat
    BY <1>1, DepthIs DEF Deep, More
  <1>3. /\ c = 0 => ~Known("args", t) /\ ~Known("Response", t)
        /\ d = CASE t.type = "STRUCT" -> c + 1 [] t.type = "STOP" -> c - 1 [] OTHER -> c
    BY <1>1, DepthIs DEF Deep, More
  <1>4. /\ st \in Seq(Struct) /\ Len(st) = c + Len(b)
        /\ \A n \in 1 .. c : st[n] = "skipped"
        /\ \A n \in 1 .. Len(b) : st[c + n] = b[n]
    BY DEF Over
  <1>5. Len(b) \in Nat /\ Len(b) > 0
    BY LenProperties, EmptySeq
  <1> HIDE DEF st, t, c, d
  <1>6. st # <<>> /\ Head(st) = st[1]
    <2>1. Len(st) # 0
      BY <1>2, <1>4, <1>5
    <2>2. st # <<>>
      BY <2>1
    <2> QED BY <1>4, <2>2, HeadTailProperties
  <1>7. ~Known(Head(st), t)
    <2>1. CASE c = 0
      <3>1. Head(st) = b[1]
        BY <1>4, <1>5, <1>6, <2>1
      <3>2. ~Known("skipped", t)
        BY KnownIs
      <3> QED BY <1>3, <2>1, <3>1, <3>2
    <2>2. CASE c # 0
      <3>1. Head(st) = "skipped"
        BY <1>2, <1>4, <1>6, <2>2
      <3> QED BY <3>1, KnownIs
    <2> QED BY <2>1, <2>2
  <1>8. CASE t.type = "STOP"
    <2>1. d = c - 1 /\ c > 0
      BY <1>2, <1>3, <1>8
    <2>2. /\ Tail(st) \in Seq(Struct) /\ Len(Tail(st)) = Len(st) - 1
          /\ \A n \in 1 .. Len(Tail(st)) : Tail(st)[n] = st[n + 1]
      BY <1>4, <1>6, HeadTailProperties
    <2>3. Len(Tail(st)) = d + Len(b)
      BY <1>2, <1>4, <1>5, <2>1, <2>2
    <2>4. \A n \in 1 .. d : Tail(st)[n] = "skipped"
      BY <1>2, <1>4, <1>5, <2>1, <2>2, <2>3
    <2>5. ASSUME NEW n \in 1 .. Len(b) PROVE Tail(st)[d + n] = b[n]
      <3>1. d + n \in 1 .. Len(Tail(st)) /\ d + n + 1 = c + n
        BY <1>2, <1>5, <2>1, <2>3
      <3> QED BY <1>4, <2>2, <3>1
    <2>6. Nested(e, Head(st), t) = Tail(st)
      BY <1>8 DEF Nested, st
    <2> QED BY <1>6, <1>7, <2>2, <2>3, <2>4, <2>5, <2>6 DEF Over, st, t, d
  <1>9. CASE t.type = "STRUCT"
    <2>1. d = c + 1
      BY <1>3, <1>9
    <2> DEFINE u == <<"skipped">> \o st
    <2>2. <<"skipped">> \in Seq(Struct) /\ Len(<<"skipped">>) = 1 /\ <<"skipped">>[1] = "skipped"
      <3> DEFINE w == "skipped"
      <3>1. w \in Struct
        BY DEF Struct
      <3> HIDE DEF w
      <3>2. <<w>> \in Seq(Struct) /\ Len(<<w>>) = 1 /\ <<w>>[1] = w
        BY <3>1, Short
      <3> QED BY <3>2 DEF w
    <2>3. /\ u \in Seq(Struct) /\ Len(u) = 1 + Len(st)
          /\ u[1] = "skipped" /\ \A n \in 1 .. Len(st) : u[n + 1] = st[n]
      <3> DEFINE x == <<"skipped">>
      <3>1. x \in Seq(Struct) /\ Len(x) = 1 /\ x[1] = "skipped" /\ Len(st) \in Nat
        BY <1>2, <1>4, <1>5, <2>2
      <3> HIDE DEF x
      <3>2. /\ x \o st \in Seq(Struct) /\ Len(x \o st) = Len(x) + Len(st)
            /\ \A n \in 1 .. Len(x) + Len(st) :
                 (x \o st)[n] = IF n <= Len(x) THEN x[n] ELSE st[n - Len(x)]
        <4>1. x \in Seq(Struct) /\ st \in Seq(Struct)
          BY <1>4, <3>1
        <4> QED BY <4>1, ConcatProperties, Zenon
      <3>3. (x \o st)[1] = "skipped"
        BY <3>1, <3>2
      <3>4. ASSUME NEW n \in 1 .. Len(st) PROVE (x \o st)[n + 1] = st[n]
        <4>1. /\ n + 1 \in 1 .. Len(x) + Len(st) /\ ~(n + 1 <= Len(x))
              /\ n + 1 - Len(x) = n
          BY <3>1
        <4> QED BY <3>2, <4>1
      <3> QED BY <3>1, <3>2, <3>3, <3>4 DEF x
    <2> HIDE DEF u
    <2>4. Len(u) = d + Len(b)
      BY <1>2, <1>4, <1>5, <2>1, <2>3
    <2>5. ASSUME NEW n \in 1 .. d PROVE u[n] = "skipped"
      <3>1. CASE n = 1
        BY <2>3, <3>1
      <3>2. CASE n # 1
        <4>1. n - 1 \in 1 .. c /\ n - 1 \in 1 .. Len(st) /\ n - 1 + 1 = n
          BY <1>2, <1>4, <1>5, <2>1, <3>2
        <4> QED BY <1>4, <2>3, <4>1
      <3> QED BY <3>1, <3>2
    <2>6. ASSUME NEW n \in 1 .. Len(b) PROVE u[d + n] = b[n]
      <3>1. c + n \in 1 .. Len(st) /\ d + n = c + n + 1
        BY <1>2, <1>4, <1>5, <2>1
      <3> QED BY <1>4, <2>3, <3>1
    <2>7. Nested(e, Head(st), t) = u
      BY <1>7, <1>9 DEF Nested, st, u
    <2> QED BY <1>6, <1>7, <2>3, <2>4, <2>5, <2>6, <2>7 DEF Over, st, t, d
  <1>10. CASE t.type # "STOP" /\ t.type # "STRUCT"
    <2>1. d = c
      BY <1>3, <1>10
    <2>2. Nested(e, Head(st), t) = st
      BY <1>10 DEF Nested, st
    <2> QED BY <1>4, <1>6, <1>7, <2>1, <2>2 DEF Over, st, t, d
  <1> QED BY <1>8, <1>9, <1>10

LEMMA DeepEnds ==
  ASSUME Types
  PROVE  Deep(0) = 0 /\ Deep(More) = 0
PROOF
  BY MoreIs, DepthIs DEF Deep, More

(* The structs of a call and of an answer. *)
LEMMA Stacks ==
  /\ Base \in Seq(Struct) /\ Base # <<>> /\ Len(Base) = 1 /\ Tail(Base) = <<>>
  /\ Head(Base) = Base[1]
  /\ Base[1] = IF asked.method = "searchName" THEN "args" ELSE "skipped"
  /\ \A s \in Struct : /\ <<s>> \in Seq(Struct) /\ <<s>> # <<>> /\ Head(<<s>>) = s
                       /\ Tail(<<s>>) = <<>>
  /\ LET r == <<"Response", "result">> IN
     /\ r \in Seq(Struct) /\ r # <<>> /\ r[1] = "Response" /\ Head(r) = "Response"
     /\ Tail(r) = <<"result">> /\ <<"Response">> \o <<"result">> = r
PROOF
  <1>1. ASSUME NEW s \in Struct
        PROVE  /\ <<s>> \in Seq(Struct) /\ <<s>> # <<>> /\ Head(<<s>>) = s
               /\ Tail(<<s>>) = <<>> /\ Len(<<s>>) = 1 /\ <<s>>[1] = s
    OBVIOUS
  <1>2. \E s \in Struct : Base = <<s>>
                          /\ s = IF asked.method = "searchName" THEN "args" ELSE "skipped"
    BY DEF Base, Struct
  <1>3. ASSUME NEW s \in Struct, NEW t \in Struct
        PROVE  /\ <<s, t>> \in Seq(Struct) /\ <<s, t>> # <<>> /\ <<s, t>>[1] = s
               /\ Head(<<s, t>>) = s /\ Tail(<<s, t>>) = <<t>> /\ <<s>> \o <<t>> = <<s, t>>
    <2> DEFINE x == <<s>>
               y == <<t>>
               m == <<s, t>>
               n == x \o y
    <2>1. /\ x \in Seq(Struct) /\ Len(x) = 1 /\ x[1] = s
          /\ y \in Seq(Struct) /\ Len(y) = 1 /\ y[1] = t
          /\ m \in Seq(Struct) /\ Len(m) = 2 /\ m[1] = s /\ m[2] = t
      BY Short
    <2>2. m # <<>> /\ Head(m) = s
      OBVIOUS
    <2>3. Tail(m) = y
      OBVIOUS
    <2> HIDE DEF x, y, m
    <2>4. /\ n \in Seq(Struct) /\ Len(n) = Len(x) + Len(y)
          /\ \A k \in 1 .. Len(x) + Len(y) :
               n[k] = IF k <= Len(x) THEN x[k] ELSE y[k - Len(x)]
      <3>1. x \in Seq(Struct) /\ y \in Seq(Struct)
        BY <2>1
      <3> QED BY <3>1, ConcatProperties, Zenon
    <2> HIDE DEF n
    <2>5. Len(n) = 2 /\ n[1] = s /\ n[2] = t
      <3>1. 1 \in 1 .. 1 + 1 /\ 2 \in 1 .. 1 + 1 /\ ~(2 <= 1) /\ 1 <= 1 /\ 2 - 1 = 1
            /\ 1 + 1 = 2
        OBVIOUS
      <3> QED BY <2>1, <2>4, <3>1
    <2>6. \A k \in 1 .. Len(n) : n[k] = m[k]
      BY <2>1, <2>5
    <2>7. n = m
      BY <2>1, <2>4, <2>5, <2>6, SeqEqual
    <2> QED BY <2>1, <2>2, <2>3, <2>7 DEF x, y, m, n
  <1>4. "Response" \in Struct /\ "result" \in Struct
    BY DEF Struct
  <1> QED BY <1>1, <1>2, <1>3, <1>4

(* A step that keeps the version and what was asked keeps the messages.     *)
LEMMA SameMessages ==
  ASSUME UNCHANGED <<version, asked>>
  PROVE  /\ More' = More /\ \A k : Deep(k)' = Deep(k)
         /\ Base' = Base /\ MustRefuse' = MustRefuse /\ Answer' = Answer
         /\ \A i : CallMessage(i)' = CallMessage(i)
PROOF
  <1>1. version' = version /\ asked' = asked
    OBVIOUS
  <1>2. More' = More
    BY <1>1 DEF More
  <1>3. ASSUME NEW k PROVE Deep(k)' = Deep(k)
    BY <1>1 DEF Deep, Depth
  <1>4. Base' = Base /\ MustRefuse' = MustRefuse
    BY <1>1 DEF Base, MustRefuse
  <1>5. Answer' = Answer
    BY <1>1, <1>4 DEF Answer, Refusal, Reply, Response
  <1>6. ASSUME NEW i PROVE CallMessage(i)' = CallMessage(i)
    BY <1>1 DEF CallMessage
  <1> QED BY <1>2, <1>3, <1>4, <1>5, <1>6

(* The answer: a refusal, a Response, or what is none. *)
LEMMA AnswerIs ==
  ASSUME Types, asked.method \in Method, asked.id \in Id
  PROVE  /\ Answer \in Seq(Wire)
         /\ MustRefuse => Len(Answer) = 4
         /\ ~MustRefuse /\ version.success = "STRUCT" => Len(Answer) = More + 6
         /\ ~MustRefuse /\ version.success # "STRUCT" => Len(Answer) = 3
         /\ Answer[1].type = "EXCEPTION" <=> MustRefuse
         /\ Len(Answer) \in Nat /\ Len(Answer) >= 3
PROOF
  <1>1. \A y, f, v : Token(y, f, v).type = y
    BY DEF Token
  <1>2. More \in Nat
    BY MoreIs
  <1>3. CASE MustRefuse
    <2>1. Answer = Refusal
      BY <1>3 DEF Answer
    <2>2. Refusal \in Seq(Wire) /\ Len(Refusal) = 4 /\ Refusal[1] = Token("EXCEPTION", 0, asked.method)
      BY RefusalIs
    <2>3. Refusal[1].type = "EXCEPTION"
      BY <1>1, <2>2
    <2> QED BY <1>3, <2>1, <2>2, <2>3
  <1>4. CASE ~MustRefuse /\ version.success = "STRUCT"
    <2>1. Answer = Reply(asked.id)
      BY <1>4 DEF Answer
    <2>2. Reply(asked.id) \in Seq(Wire) /\ Len(Reply(asked.id)) = More + 6 /\ Reply(asked.id)[1] = Token("REPLY", 0, asked.method)
      BY <1>4, ReplyIs
    <2>3. Reply(asked.id)[1].type = "REPLY"
      BY <1>1, <2>2
    <2> QED BY <1>2, <1>4, <2>1, <2>2, <2>3
  <1>5. CASE ~MustRefuse /\ version.success # "STRUCT"
    <2>1. Answer = Reply(asked.id)
      BY <1>5 DEF Answer
    <2>2. Reply(asked.id) \in Seq(Wire) /\ Len(Reply(asked.id)) = 3 /\ Reply(asked.id)[1] = Token("REPLY", 0, asked.method)
      BY <1>5, OtherReplyIs
    <2>3. Reply(asked.id)[1].type = "REPLY"
      BY <1>1, <2>2
    <2> QED BY <1>5, <2>1, <2>2, <2>3
  <1> QED BY <1>3, <1>4, <1>5

-----------------------------------------------------------------------------
(* Each step keeps the invariant.                                           *)

(* Who is at it: the server is, only while the client waits for it.         *)
LEMMA Turns ==
  ASSUME Inv
  PROVE  /\ up /\ (pc.server # "header" \/ in.server # <<>>) =>
              /\ pc.client = "header" /\ in.client = <<>> /\ ServerReads /\ outcome = "none"
              /\ asked.method = version.method /\ asked.method \in Method /\ asked.id \in Id
         /\ Gets => /\ ClientReads
                    /\ asked.method = version.method /\ asked.method \in Method
                    /\ asked.id \in Id
PROOF
  <1>1. pc.client \in {"idle", "header", "body"} /\ version.method \in Method
    BY MoreIs DEF Inv, Types
  <1>2. ASSUME up, pc.server # "header" \/ in.server # <<>>
        PROVE  /\ pc.client = "header" /\ in.client = <<>> /\ ServerReads
               /\ outcome = "none"
               /\ asked.method = version.method /\ asked.method \in Method /\ asked.id \in Id
    <2>1. pc.client # "idle"
      BY <1>2 DEF Inv, AtBoundary
    <2>2. ~Gets
      BY <1>2 DEF Inv
    <2>3. Waits
      BY <1>1, <2>1, <2>2 DEF Gets, Waits
    <2> QED BY <1>1, <1>2, <2>1, <2>3 DEF Inv, Waits
  <1>3. ASSUME Gets
        PROVE  /\ ClientReads
               /\ asked.method = version.method /\ asked.method \in Method /\ asked.id \in Id
    BY <1>1, <1>3 DEF Inv, Gets
  <1> QED BY <1>2, <1>3

(* What the client has read is the same where a step leaves it alone. *)
LEMMA SameClient ==
  ASSUME UNCHANGED <<version, asked, outcome, up, in.client, stack.client, taken.client,
                     pc.client>>, ClientReads
  PROVE  ClientReads'
PROOF
  <1>1. /\ version' = version /\ asked' = asked /\ outcome' = outcome /\ up' = up
        /\ in.client' = in.client /\ stack.client' = stack.client
        /\ taken.client' = taken.client /\ pc.client' = pc.client
    OBVIOUS
  <1>2. More' = More /\ (\A k : Deep(k)' = Deep(k)) /\ MustRefuse' = MustRefuse
        /\ Answer' = Answer
    BY <1>1, SameMessages
  <1>3. ASSUME NEW p PROVE AnswerTaken(p)' <=> AnswerTaken(p)
    <2>1. RefusalTaken(p)' <=> RefusalTaken(p)
      BY <1>1 DEF RefusalTaken
    <2>2. StringTaken(p)' <=> StringTaken(p)
      BY <1>1 DEF StringTaken
    <2>3. ResponseTaken(p)' <=> ResponseTaken(p)
      BY <1>1, <1>2 DEF ResponseTaken, Over
    <2> QED BY <1>1, <1>2, <2>1, <2>2, <2>3 DEF AnswerTaken
  <1> QED BY <1>1, <1>2, <1>3 DEF ClientReads

(* What came of a call, by name, in a state and in the next one. *)
LargeId == asked.id >= 1000
OwnName == taken.client.name = Text("xiongyu: ", asked.id)
Outcome ==
  pc.client = "idle" => /\ outcome = "lost" => ~up
                        /\ outcome = "exception" => MustRefuse
                        /\ outcome = "missing" => version.success # "STRUCT"
                        /\ outcome = "returned" => /\ version.success = "STRUCT"
                                                   /\ LargeId /\ OwnName

LEMMA OutcomeIs == AnswerIsOwn <=> Outcome
PROOF
  BY DEF AnswerIsOwn, Outcome, MustRefuse, LargeId, OwnName

LEMMA NextOutcomeIs == AnswerIsOwn' <=> Outcome'
PROOF
  BY DEF AnswerIsOwn, Outcome, MustRefuse, LargeId, OwnName

(* It stays true where a step leaves it alone. *)
LEMMA SameOutcome ==
  ASSUME AnswerIsOwn, version' = version, asked' = asked, outcome' = outcome,
         taken' = taken, pc'.client = pc.client, ~up => ~up'
  PROVE  AnswerIsOwn'
PROOF
  <1>1. MustRefuse' = MustRefuse
    BY SameMessages
  <1>2. LargeId' <=> LargeId
    BY DEF LargeId
  <1>3. OwnName' <=> OwnName
    BY DEF OwnName
  <1>4. Outcome
    BY OutcomeIs
  <1>5. Outcome'
    BY <1>1, <1>2, <1>3, <1>4 DEF Outcome
  <1> QED BY <1>5, NextOutcomeIs

(* A call is sent only when nothing is on its way. *)
LEMMA SendKeeps ==
  ASSUME Inv, NEW i \in Id, Send(i)
  PROVE  Inv'
PROOF
  <1>1. Types
    BY DEF Inv
  <1>2. /\ pc.client = "idle" /\ up
        /\ in' = [in EXCEPT !.server = @ \o CallMessage(i)]
        /\ pc' = [pc EXCEPT !.client = "header"]
        /\ asked' = [method |-> version.method, id |-> i]
        /\ outcome' = "none"
        /\ version' = version /\ stack' = stack /\ taken' = taken /\ up' = up
    BY DEF Send
  <1>3. in.client = <<>> /\ in.server = <<>> /\ pc.server = "header"
    BY <1>2 DEF Inv, AtBoundary
  <1>4. CallMessage(i) \in Seq(Wire) /\ CallMessage(i)' = CallMessage(i)
    <2>1. CallMessage(i)' = CallMessage(i)
      BY <1>2 DEF CallMessage
    <2> QED BY <1>1, <2>1, CallIs
  <1>5. <<>> \o CallMessage(i) = CallMessage(i)
    BY <1>4, ConcatEmptySeq
  <1>6. in' \in [End -> Seq(Wire)] /\ in'.client = <<>> /\ in'.server = CallMessage(i)
    BY <1>1, <1>2, <1>3, <1>4, <1>5 DEF Types, End
  <1>7. pc'.client = "header" /\ pc'.server = "header"
        /\ pc' \in [End -> {"idle", "header", "body", "processing"}]
    BY <1>1, <1>2, <1>3 DEF Types, End
  <1>8. Types'
    BY <1>1, <1>2, <1>6, <1>7 DEF Types
  <1>9. asked'.method = version'.method /\ asked'.id \in Id /\ asked'.id = i
    BY <1>2
  <1>10. AtBoundary' /\ AnswerIsOwn'
    BY <1>7 DEF AtBoundary, AnswerIsOwn
  <1>11. CallMessage(asked.id)' = CallMessage(i)
    BY <1>2, <1>9 DEF CallMessage
  <1>12. ServerReads'
    BY <1>6, <1>7, <1>11 DEF ServerReads
  <1>13. ~Gets'
    BY <1>6, <1>7 DEF Gets
  <1> QED BY <1>2, <1>7, <1>8, <1>9, <1>10, <1>12, <1>13 DEF Inv

(* A connection that is lost takes what was on its way, or the end of it. *)
LEMMA DisconnectKeeps ==
  ASSUME Inv, Disconnect
  PROVE  Inv'
PROOF
  <1>1. Types
    BY DEF Inv
  <1>2. /\ up /\ up' = FALSE
        /\ version' = version /\ pc' = pc /\ stack' = stack /\ taken' = taken
        /\ asked' = asked /\ outcome' = outcome
    BY DEF Disconnect
  <1>3. PICK l \in 0 .. Len(in.client) :
          in' = [client |-> SubSeq(in.client, 1, l), server |-> <<>>]
    BY DEF Disconnect
  <1>4. in.client \in Seq(Wire) /\ Len(in.client) \in Nat
    BY <1>1, LenProperties DEF Types, End
  <1>5. /\ SubSeq(in.client, 1, l) \in Seq(Wire)
        /\ in.client = <<>> => SubSeq(in.client, 1, l) = <<>>
    <2>1. SubSeq(in.client, 1, l) \in Seq(Wire) /\ Len(SubSeq(in.client, 1, l)) = l
      <3>1. 0 + 1 = 1 /\ 0 \in 0 .. Len(in.client) /\ l \in 0 .. Len(in.client) /\ l - 0 = l
        BY <1>4
      <3> QED BY <1>4, <3>1, TakeToken
    <2>2. in.client = <<>> => Len(in.client) = 0
      BY <1>4, EmptySeq
    <2> QED BY <1>4, <2>1, <2>2, EmptySeq
  <1>6. /\ in' \in [End -> Seq(Wire)] /\ in'.server = <<>>
        /\ in'.client = SubSeq(in.client, 1, l)
    <2> DEFINE q == SubSeq(in.client, 1, l)
    <2>1. ASSUME NEW a \in Seq(Wire), NEW b \in Seq(Wire)
          PROVE  [client |-> a, server |-> b] \in [End -> Seq(Wire)]
      BY DEF End
    <2>2. q \in Seq(Wire) /\ <<>> \in Seq(Wire) /\ in' = [client |-> q, server |-> <<>>]
      BY <1>3, <1>5, EmptySeq
    <2> HIDE DEF q
    <2>3. in' \in [End -> Seq(Wire)]
      BY <2>1, <2>2
    <2>4. in'.server = <<>> /\ in'.client = q
      BY <2>2
    <2> QED BY <2>3, <2>4 DEF q
  <1>7. Types'
    BY <1>1, <1>2, <1>6 DEF Types
  <1>8. AtBoundary' /\ AnswerIsOwn'
    <2>1. AnswerIsOwn
      BY DEF Inv
    <2>2. ~up'
      BY <1>2
    <2>3. AtBoundary'
      BY <2>2 DEF AtBoundary
    <2>4. AnswerIsOwn'
      BY <1>2, <2>1, SameOutcome
    <2> QED BY <2>3, <2>4
  <1>9. ASSUME Gets' PROVE ClientReads'
    <2>1. Gets
      BY <1>2, <1>5, <1>6, <1>9 DEF Gets
    <2>2. ClientReads /\ asked.method \in Method /\ asked.id \in Id
      BY <2>1, Turns
    <2>3. Answer \in Seq(Wire) /\ Len(Answer) \in Nat
      BY <1>1, <2>2, AnswerIs
    <2>9. PICK p \in 0 .. Len(Answer) : \E n \in p .. Len(Answer) :
            /\ in.client = SubSeq(Answer, p + 1, n)
            /\ (p = 0 <=> pc.client = "header")
            /\ p > 0 => AnswerTaken(p)
      BY <2>2 DEF ClientReads
    <2>4. PICK n \in p .. Len(Answer) :
            /\ in.client = SubSeq(Answer, p + 1, n)
            /\ (p = 0 <=> pc.client = "header")
            /\ p > 0 => AnswerTaken(p)
      BY <2>9
    <2>5. l <= n - p
      <3>1. Len(in.client) = n - p
        BY <2>3, <2>4, TakeToken
      <3> QED BY <1>4, <3>1
    <2>6. in'.client = SubSeq(Answer, p + 1, p + l)
      <3>1. CASE l = 0
        BY <1>6, <2>3, <3>1, SubSeqEmpty
      <3>2. CASE l # 0
        <4>1. /\ p + 1 \in 1 .. Len(Answer) /\ n \in 1 .. Len(Answer)
              /\ 1 \in 1 .. n - (p + 1) + 1 /\ l \in 1 .. n - (p + 1) + 1
              /\ p + 1 + 1 - 1 = p + 1 /\ p + 1 + l - 1 = p + l
          BY <1>4, <2>3, <2>5, <3>2
        <4>2. SubSeq(SubSeq(Answer, p + 1, n), 1, l)
                = SubSeq(Answer, p + 1 + 1 - 1, p + 1 + l - 1)
          BY <2>3, <4>1, SubSeqOfSubSeq
        <4> QED BY <1>6, <2>4, <4>1, <4>2
      <3> QED BY <3>1, <3>2
    <2>7. Answer' = Answer /\ (AnswerTaken(p)' <=> AnswerTaken(p))
      <3>1. More' = More /\ (\A k : Deep(k)' = Deep(k)) /\ MustRefuse' = MustRefuse
            /\ Answer' = Answer
        BY <1>2, SameMessages
      <3>2. ResponseTaken(p)' <=> ResponseTaken(p)
        BY <1>2, <3>1 DEF ResponseTaken, Over
      <3>3. (RefusalTaken(p)' <=> RefusalTaken(p)) /\ (StringTaken(p)' <=> StringTaken(p))
        BY <1>2 DEF RefusalTaken, StringTaken
      <3> QED BY <1>2, <3>1, <3>2, <3>3 DEF AnswerTaken
    <2>8. p + l \in p .. Len(Answer)
      BY <1>4, <2>3, <2>5
    <2> QED BY <1>2, <2>4, <2>6, <2>7, <2>8 DEF ClientReads
  <1> QED BY <1>2, <1>6, <1>7, <1>8, <1>9 DEF Inv

(* The header of an answer tells whether it is one. *)
LEMMA ReceiveKeeps ==
  ASSUME Inv, Receive
  PROVE  Inv'
PROOF
  <1>1. Types
    BY DEF Inv
  <1>2. /\ pc.client = "header" /\ in.client # <<>>
        /\ in' = [in EXCEPT !.client = Tail(in.client)]
        /\ stack' = [stack EXCEPT !.client =
             IF Head(in.client).type = "EXCEPTION" THEN <<"TApplicationException">>
                                                   ELSE <<"result">>]
        /\ taken' = [taken EXCEPT !.client.success = FALSE]
        /\ pc' = [pc EXCEPT !.client = "body"]
        /\ outcome' = IF Head(in.client).type = "EXCEPTION" THEN "exception" ELSE "none"
        /\ version' = version /\ asked' = asked /\ up' = up
    BY DEF Receive
  <1>3. Gets /\ ClientReads /\ asked.method = version.method /\ asked.method \in Method
        /\ asked.id \in Id /\ (up => in.server = <<>> /\ pc.server = "header")
    BY <1>2, Turns DEF Gets, Inv
  <1>4. Answer \in Seq(Wire) /\ Len(Answer) \in Nat /\ Len(Answer) >= 3
        /\ (Answer[1].type = "EXCEPTION" <=> MustRefuse)
    BY <1>1, <1>3, AnswerIs
  <1>5. PICK n \in 0 .. Len(Answer) :
          in.client = SubSeq(Answer, 0 + 1, n) /\ (up => n = Len(Answer))
    BY <1>2, <1>3 DEF ClientReads
  <1>6. /\ n # 0 /\ Head(in.client) = Answer[1]
        /\ Tail(in.client) = SubSeq(Answer, 1 + 1, n)
    <2> DEFINE x == SubSeq(Answer, 0 + 1, n)
    <2>1. /\ Answer \in Seq(Wire) /\ 0 \in 0 .. Len(Answer) /\ n \in 0 .. Len(Answer)
          /\ 0 + 1 = 1
      BY <1>4
    <2>2. /\ x = <<>> <=> 0 = n
          /\ x # <<>> => Head(x) = Answer[0 + 1] /\ Tail(x) = SubSeq(Answer, 0 + 1 + 1, n)
      BY <2>1, TakeToken
    <2>3. in.client = x
      BY <1>5
    <2> HIDE DEF x
    <2> QED BY <1>2, <2>1, <2>2, <2>3
  <1>7. SubSeq(Answer, 1 + 1, n) \in Seq(Wire)
    <2>1. 1 \in 0 .. Len(Answer) /\ n \in 1 .. Len(Answer)
      BY <1>4, <1>6
    <2> QED BY <1>4, <2>1, TakeToken
  <1>8. /\ in' \in [End -> Seq(Wire)] /\ in'.client = SubSeq(Answer, 1 + 1, n)
        /\ in'.server = in.server
    BY <1>1, <1>2, <1>6, <1>7 DEF Types, End
  <1>9. /\ pc'.client = "body" /\ pc'.server = pc.server
        /\ pc' \in [End -> {"idle", "header", "body", "processing"}]
    BY <1>1, <1>2 DEF Types, End
  <1>10. /\ stack' \in [End -> Seq(Struct)]
         /\ stack'.client = IF MustRefuse THEN <<"TApplicationException">> ELSE <<"result">>
    <2> DEFINE s == IF MustRefuse THEN <<"TApplicationException">> ELSE <<"result">>
    <2>1. s \in Seq(Struct)
      BY Stacks DEF Struct
    <2>2. stack' = [stack EXCEPT !.client = s]
      BY <1>2, <1>4, <1>6
    <2> HIDE DEF s
    <2>3. stack' \in [End -> Seq(Struct)] /\ stack'.client = s
      BY <1>1, <2>1, <2>2 DEF Types, End
    <2> QED BY <2>3 DEF s
  <1>11. /\ DOMAIN taken' = End
         /\ taken'.client.success = FALSE
         /\ \A e \in End : DOMAIN taken'[e] = {"id", "name", "success"}
    <2> DEFINE c == taken.client
               d == [c EXCEPT !.success = FALSE]
    <2>1. DOMAIN c = {"id", "name", "success"} /\ DOMAIN taken = End
          /\ DOMAIN taken.server = {"id", "name", "success"}
      BY <1>1 DEF Types, End
    <2>2. DOMAIN d = {"id", "name", "success"} /\ d.success = FALSE
      BY <2>1
    <2>3. taken' = [taken EXCEPT !.client = d]
      BY <1>2
    <2> HIDE DEF c, d
    <2>4. DOMAIN taken' = End /\ taken'.client = d /\ taken'.server = taken.server
      BY <2>1, <2>3 DEF End
    <2> QED BY <2>1, <2>2, <2>4 DEF End
  <1>12. Types'
    BY <1>1, <1>2, <1>8, <1>9, <1>10, <1>11 DEF Types
  <1>13. outcome' = IF MustRefuse THEN "exception" ELSE "none"
    BY <1>2, <1>4, <1>6
  <1>14. Answer' = Answer /\ MustRefuse' = MustRefuse /\ More' = More
    BY <1>2, SameMessages
  <1>15. AnswerTaken(1)'
    <2>1. 1 + 1 = 2 /\ More \in Nat
      BY <1>1, MoreIs
    <2>2. RefusalTaken(1)' \/ ~MustRefuse
      BY <1>10 DEF RefusalTaken
    <2>3. StringTaken(1)' \/ MustRefuse
      BY <1>10, <1>11 DEF StringTaken
    <2>4. ResponseTaken(1)' \/ MustRefuse
      <3>1. /\ 1 \notin 2 .. More + 2 /\ 1 \notin More + 3 .. More + 4 /\ 1 # More + 5
            /\ 1 # More + 6 /\ ~(1 > More + 3) /\ ~(1 > 1)
        BY <2>1
      <3> QED BY <1>10, <1>11, <1>14, <3>1 DEF ResponseTaken
    <2> QED BY <1>13, <1>14, <2>2, <2>3, <2>4 DEF AnswerTaken
  <1>16. ClientReads'
    <2>1. 1 \in 0 .. Len(Answer) /\ n \in 1 .. Len(Answer) /\ 1 > 0 /\ 1 # 0
      BY <1>4, <1>6
    <2>2. /\ in'.client = SubSeq(Answer', 1 + 1, n)
          /\ up' => n = Len(Answer')
          /\ pc'.client # "header"
      BY <1>2, <1>5, <1>8, <1>9, <1>14
    <2> QED BY <1>14, <1>15, <2>1, <2>2 DEF ClientReads
  <1>17. AtBoundary' /\ AnswerIsOwn' /\ ~Waits'
    BY <1>9 DEF AtBoundary, AnswerIsOwn, Waits
  <1> QED BY <1>2, <1>3, <1>8, <1>9, <1>12, <1>16, <1>17 DEF Inv

(* A call returns only when the answer has been read to its end. *)
LEMMA ReturnKeeps ==
  ASSUME Inv, Return
  PROVE  Inv'
PROOF
  <1>1. Types
    BY DEF Inv
  <1>2. /\ pc.client = "body" /\ stack.client = <<>>
        /\ outcome' = IF outcome = "exception" THEN "exception"
                      ELSE IF taken.client.success THEN "returned" ELSE "missing"
        /\ pc' = [pc EXCEPT !.client = "idle"]
        /\ version' = version /\ in' = in /\ stack' = stack /\ taken' = taken
        /\ asked' = asked /\ up' = up
    BY DEF Return
  <1>3. Gets /\ ClientReads /\ asked.method = version.method /\ asked.method \in Method
        /\ asked.id \in Id /\ (up => in.server = <<>> /\ pc.server = "header")
    BY <1>2, Turns DEF Gets, Inv
  <1>4. /\ Answer \in Seq(Wire) /\ Len(Answer) \in Nat
        /\ MustRefuse => Len(Answer) = 4
        /\ ~MustRefuse /\ version.success = "STRUCT" => Len(Answer) = More + 6
        /\ ~MustRefuse /\ version.success # "STRUCT" => Len(Answer) = 3
    BY <1>1, <1>3, AnswerIs
  <1>5. PICK p \in 0 .. Len(Answer) : \E n \in p .. Len(Answer) :
          /\ in.client = SubSeq(Answer, p + 1, n)
          /\ up => n = Len(Answer)
          /\ (p = 0 <=> pc.client = "header")
          /\ p > 0 => AnswerTaken(p)
    BY <1>3 DEF ClientReads
  <1>6. PICK n \in p .. Len(Answer) :
          /\ in.client = SubSeq(Answer, p + 1, n)
          /\ up => n = Len(Answer)
          /\ (p = 0 <=> pc.client = "header")
          /\ p > 0 => AnswerTaken(p)
    BY <1>5
  <1>9. p # 0 /\ AnswerTaken(p)
    BY <1>2, <1>4, <1>6
  <1>7. <<"result">> # <<>> /\ <<"TApplicationException">> # <<>>
        /\ <<"Response", "result">> # <<>>
    OBVIOUS
  <1>10. More \in Nat
    BY <1>1, MoreIs
  <1>11. Types'
    <2>1. pc' \in [End -> {"idle", "header", "body", "processing"}] /\ pc'.client = "idle"
      BY <1>1, <1>2 DEF Types, End
    <2> QED BY <1>1, <1>2, <2>1 DEF Types
  <1>12. pc'.client = "idle" /\ pc'.server = pc.server
    BY <1>1, <1>2 DEF Types, End
  <1>13. p = Len(Answer) /\ AnswerIsOwn'
    <2>1. CASE MustRefuse
      <3>1. RefusalTaken(p) /\ outcome = "exception"
        BY <1>9, <2>1 DEF AnswerTaken
      <3>2. p = 4
        <4>1. Len(Answer) = 4
          BY <1>4, <2>1
        <4>2. p \in 1 .. 3 \/ p = 4
          BY <1>9, <4>1
        <4> QED BY <1>2, <1>7, <3>1, <4>2 DEF RefusalTaken
      <3>3. outcome' = "exception"
        BY <1>2, <3>1
      <3> QED BY <1>2, <1>4, <2>1, <3>2, <3>3 DEF AnswerIsOwn, MustRefuse
    <2>2. CASE ~MustRefuse /\ version.success = "STRUCT"
      <3>1. ResponseTaken(p) /\ outcome = "none"
        BY <1>9, <2>2 DEF AnswerTaken
      <3>2. ~(p \in 2 .. More + 2)
        <4> SUFFICES ASSUME p \in 2 .. More + 2 PROVE FALSE
          OBVIOUS
        <4> DEFINE r == <<"Response", "result">>
        <4>1. Over(stack.client, Deep(p - 2), r)
          BY <3>1 DEF ResponseTaken
        <4>2. Deep(p - 2) \in Nat
          <5>1. p - 2 \in 0 .. More
            BY <1>10
          <5> QED BY <1>1, <5>1, MoreIs, DepthIs DEF Deep, More
        <4>3. r \in Seq(Struct) /\ r # <<>>
          BY Stacks
        <4>4. Len(r) \in Nat /\ Len(r) # 0
          BY <4>3, LenProperties, EmptySeq
        <4> HIDE DEF r
        <4>5. Len(stack.client) = Deep(p - 2) + Len(r)
          BY <4>1 DEF Over
        <4>6. Len(stack.client) = 0
          BY <1>2
        <4> QED BY <4>2, <4>4, <4>5, <4>6
      <3>3. p = More + 6
        <4>1. \/ p = 1 \/ p \in 2 .. More + 2 \/ p \in More + 3 .. More + 4
              \/ p = More + 5 \/ p = More + 6
          BY <1>4, <1>9, <1>10, <2>2
        <4> QED BY <1>2, <1>7, <3>1, <3>2, <4>1 DEF ResponseTaken
      <3>4. p > 1 /\ p > More + 3
        BY <1>10, <3>3
      <3>5. taken.client.success = TRUE /\ taken.client.name = Text("xiongyu: ", asked.id)
        BY <3>1, <3>4 DEF ResponseTaken
      <3>6. outcome' = "returned"
        BY <1>2, <3>1, <3>5
      <3>7. asked.method = "searchName" /\ ~(asked.id < 1000) /\ asked.id \in Int
        BY <1>3, <2>2, IdAssumption DEF MustRefuse
      <3>8. Len(Answer) = More + 6
        BY <1>4, <2>2
      <3>9. asked.id >= 1000
        BY <3>7
      <3>10. AnswerIsOwn'
        <4>1. LargeId /\ OwnName
          BY <3>5, <3>9 DEF LargeId, OwnName
        <4>2. LargeId' /\ OwnName'
          <5>1. LargeId' <=> LargeId
            BY <1>2 DEF LargeId
          <5>2. OwnName' <=> OwnName
            BY <1>2 DEF OwnName
          <5> QED BY <4>1, <5>1, <5>2
        <4>3. version'.success = "STRUCT"
          BY <1>2, <2>2
        <4>4. Outcome'
          BY <3>6, <4>2, <4>3 DEF Outcome
        <4> QED BY <4>4, NextOutcomeIs
      <3> QED BY <3>3, <3>8, <3>10
    <2>3. CASE ~MustRefuse /\ version.success # "STRUCT"
      <3>1. StringTaken(p) /\ outcome = "none"
        BY <1>9, <2>3 DEF AnswerTaken
      <3>2. p = 3
        <4>1. Len(Answer) = 3
          BY <1>4, <2>3
        <4>2. p \in 1 .. 2 \/ p = 3
          BY <1>9, <4>1
        <4> QED BY <1>2, <1>7, <3>1, <4>2 DEF StringTaken
      <3>3. outcome' = "missing"
        BY <1>2, <3>1 DEF StringTaken
      <3> QED BY <1>2, <1>4, <2>3, <3>2, <3>3 DEF AnswerIsOwn
    <2> QED BY <2>1, <2>2, <2>3
  <1>14. in.client = <<>> \/ ~up
    BY <1>4, <1>6, <1>13, SubSeqEmpty
  <1>15. AtBoundary'
    BY <1>2, <1>3, <1>12, <1>14 DEF AtBoundary
  <1>16. ~Gets' /\ ~Waits'
    BY <1>12 DEF Gets, Waits
  <1>17. ~up => in.server = <<>>
    BY DEF Inv
  <1> QED BY <1>2, <1>11, <1>12, <1>13, <1>15, <1>16, <1>17 DEF Inv

(* Where the connection is lost, the call ends with that. *)
LEMMA ThrowKeeps ==
  ASSUME Inv, Throw
  PROVE  Inv'
PROOF
  <1>1. Types
    BY DEF Inv
  <1>2. /\ ~up
        /\ outcome' = "lost"
        /\ pc' = [pc EXCEPT !.client = "idle"]
        /\ stack' = [stack EXCEPT !.client = <<>>]
        /\ version' = version /\ in' = in /\ taken' = taken
        /\ asked' = asked /\ up' = up
    BY DEF Throw
  <1>3. /\ pc' \in [End -> {"idle", "header", "body", "processing"}]
        /\ pc'.client = "idle"
    BY <1>1, <1>2 DEF Types, End
  <1>4. stack' \in [End -> Seq(Struct)]
    <2>1. <<>> \in Seq(Struct)
      BY EmptySeq
    <2> QED BY <1>1, <1>2, <2>1 DEF Types, End
  <1>5. Types'
    BY <1>1, <1>2, <1>3, <1>4 DEF Types
  <1>6. AtBoundary' /\ AnswerIsOwn'
    BY <1>2 DEF AtBoundary, AnswerIsOwn
  <1>7. ~Gets' /\ ~Waits'
    BY <1>3 DEF Gets, Waits
  <1>8. in.server = <<>>
    BY <1>2 DEF Inv
  <1> QED BY <1>2, <1>3, <1>5, <1>6, <1>7, <1>8 DEF Inv

(* The header of a call tells the server whether it knows the method. *)
LEMMA DispatchKeeps ==
  ASSUME Inv, Dispatch
  PROVE  Inv'
PROOF
  <1> DEFINE m == CallMessage(asked.id)
  <1>1. Types
    BY DEF Inv
  <1>2. /\ pc.server = "header" /\ in.server # <<>>
        /\ in' = [in EXCEPT !.server = Tail(in.server)]
        /\ stack' = [stack EXCEPT !.server =
             <<IF Head(in.server).val = "searchName" THEN "args" ELSE "skipped">>]
        /\ taken' = [taken EXCEPT !.server = Blank]
        /\ pc' = [pc EXCEPT !.server = "body"]
        /\ version' = version /\ asked' = asked /\ outcome' = outcome /\ up' = up
    BY DEF Dispatch
  <1>3. up
    BY <1>2 DEF Inv
  <1>4. /\ pc.client = "header" /\ in.client = <<>> /\ ServerReads /\ outcome = "none"
        /\ asked.method = version.method /\ asked.method \in Method /\ asked.id \in Id
    BY <1>2, <1>3, Turns
  <1>5. in.server = m
    BY <1>2, <1>4 DEF ServerReads
  <1>6. /\ m \in Seq(Wire) /\ Len(m) = More + 3 /\ More \in Nat
        /\ m[1] = Token("CALL", 0, version.method)
    BY <1>1, <1>4, CallIs, MoreIs
  <1>7. m' = m /\ Base' = Base
    BY <1>2, SameMessages
  <1> HIDE DEF m
  <1>8. m[1].val = asked.method
    BY <1>4, <1>6 DEF Token
  <1>9. Head(m) = m[1] /\ Tail(m) = SubSeq(m, 1 + 1, Len(m)) /\ Tail(m) \in Seq(Wire)
    <2>1. 0 \in 0 .. Len(m) /\ Len(m) \in 0 .. Len(m) /\ 0 + 1 = 1
      BY <1>6
    <2>2. SubSeq(m, 1, Len(m)) = m
      BY <1>6, SubSeqFull
    <2>3. m # <<>>
      BY <1>2, <1>5
    <2> QED BY <1>6, <2>1, <2>2, <2>3, TakeToken, HeadTailProperties
  <1>10. /\ in' \in [End -> Seq(Wire)] /\ in'.client = <<>>
         /\ in'.server = SubSeq(m, 1 + 1, Len(m))
    BY <1>1, <1>2, <1>4, <1>5, <1>9 DEF Types, End
  <1>11. /\ pc'.client = "header" /\ pc'.server = "body"
         /\ pc' \in [End -> {"idle", "header", "body", "processing"}]
    BY <1>1, <1>2, <1>4 DEF Types, End
  <1>12. stack' \in [End -> Seq(Struct)] /\ stack'.server = Base
    <2>1. stack' = [stack EXCEPT !.server = Base]
      BY <1>2, <1>5, <1>8, <1>9 DEF Base
    <2>2. Base \in Seq(Struct)
      BY Stacks
    <2> QED BY <1>1, <2>1, <2>2 DEF Types, End
  <1>13. /\ DOMAIN taken' = End /\ taken'.server = Blank
         /\ \A e \in End : DOMAIN taken'[e] = {"id", "name", "success"}
    <2>1. DOMAIN Blank = {"id", "name", "success"}
      BY DEF Blank
    <2>2. DOMAIN taken = End /\ DOMAIN taken.client = {"id", "name", "success"}
      BY <1>1 DEF Types, End
    <2>3. /\ DOMAIN taken' = End /\ taken'.server = Blank /\ taken'.client = taken.client
      BY <1>2, <2>2 DEF End
    <2> QED BY <2>1, <2>2, <2>3 DEF End
  <1>14. Types'
    BY <1>1, <1>2, <1>10, <1>11, <1>12, <1>13 DEF Types
  <1>15. ArgsTaken(1)'
    <2>1. 1 \notin 2 .. More + 2 /\ 1 # More + 3
      BY <1>6
    <2>2. More' = More
      BY <1>2, SameMessages
    <2> QED BY <1>7, <1>12, <2>1, <2>2 DEF ArgsTaken
  <1>16. ServerReads'
    <2>1. 1 \in 1 .. Len(m)
      BY <1>6
    <2>2. 1 \in 1 .. Len(m') /\ in'.server = SubSeq(m', 1 + 1, Len(m'))
      BY <1>7, <1>10, <2>1
    <2> QED BY <1>11, <1>13, <1>15, <2>2 DEF ServerReads, m
  <1>17. AtBoundary' /\ AnswerIsOwn' /\ ~Gets'
    BY <1>10, <1>11 DEF AtBoundary, AnswerIsOwn, Gets
  <1> QED BY <1>2, <1>3, <1>4, <1>11, <1>14, <1>16, <1>17 DEF Inv

(* The handler is called only when the call has been read to its end.       *)
LEMMA ArgsReadKeeps ==
  ASSUME Inv, ArgsRead
  PROVE  Inv'
PROOF
  <1> DEFINE m == CallMessage(asked.id)
  <1>1. Types
    BY DEF Inv
  <1>2. /\ pc.server = "body" /\ stack.server = <<>>
        /\ pc' = [pc EXCEPT !.server = "processing"]
        /\ version' = version /\ in' = in /\ stack' = stack /\ taken' = taken
        /\ asked' = asked /\ outcome' = outcome /\ up' = up
    BY DEF ArgsRead
  <1>3. /\ pc'.client = pc.client /\ pc'.server = "processing"
        /\ pc' \in [End -> {"idle", "header", "body", "processing"}]
    BY <1>1, <1>2 DEF Types, End
  <1>4. Types'
    BY <1>1, <1>2, <1>3 DEF Types
  <1>5. AtBoundary' /\ AnswerIsOwn'
    <2>1. AtBoundary /\ AnswerIsOwn
      BY DEF Inv
    <2>2. AtBoundary'
      BY <1>2, <1>3, <2>1 DEF AtBoundary
    <2>3. AnswerIsOwn'
      BY <1>2, <1>3, <2>1, SameOutcome
    <2> QED BY <2>2, <2>3
  <1>6. ASSUME Waits', up PROVE ServerReads'
    <2>1. /\ ServerReads /\ asked.method = version.method /\ asked.method \in Method
          /\ asked.id \in Id
      BY <1>2, <1>6, Turns
    <2>2. PICK p \in 1 .. Len(m) :
            /\ in.server = SubSeq(m, p + 1, Len(m))
            /\ ArgsTaken(p)
            /\ IF p = 1 THEN taken.server = Blank ELSE Learnt
      BY <1>2, <2>1 DEF ServerReads
    <2>3. m \in Seq(Wire) /\ Len(m) = More + 3 /\ More \in Nat
      BY <1>1, <2>1, CallIs, MoreIs
    <2> HIDE DEF m
    <2>4. p # 1
      BY <1>2, <2>2, Stacks DEF ArgsTaken
    <2>5. p \notin 2 .. More + 2
      <3> SUFFICES ASSUME p \in 2 .. More + 2 PROVE FALSE
        OBVIOUS
      <3>1. Over(stack.server, Deep(p - 2), Base)
        BY <2>2 DEF ArgsTaken
      <3>2. Deep(p - 2) \in Nat
        <4>1. p - 2 \in 0 .. More
          BY <2>3
        <4> QED BY <1>1, <4>1, MoreIs, DepthIs DEF Deep, More
      <3>3. Len(stack.server) = Deep(p - 2) + 1 /\ Len(stack.server) = 0
        BY <1>2, <3>1, Stacks DEF Over
      <3> QED BY <3>2, <3>3
    <2>6. p = Len(m)
      BY <2>2, <2>3, <2>4, <2>5
    <2>7. in.server = <<>> /\ Learnt
      BY <2>2, <2>3, <2>4, <2>6, SubSeqEmpty
    <2>8. Learnt'
      BY <1>2, <2>7 DEF Learnt
    <2> QED BY <1>2, <1>3, <2>7, <2>8 DEF ServerReads
  <1>7. Waits' => Waits
    BY <1>2, <1>3 DEF Waits
  <1>8. ASSUME Gets' PROVE ClientReads' /\ ~up
    <2>1. Gets
      BY <1>2, <1>3, <1>8 DEF Gets
    <2>2. ClientReads
      BY <2>1, Turns
    <2>3. ClientReads'
      BY <1>2, <1>3, <2>2, SameClient
    <2>4. ~up
      BY <1>2, <2>1 DEF Inv
    <2> QED BY <2>3, <2>4
  <1>9. /\ pc.client # "idle" => asked.method = version.method /\ asked.id \in Id
        /\ pc.client = "header" => outcome = "none"
        /\ ~up => in.server = <<>>
    BY DEF Inv
  <1> QED BY <1>2, <1>3, <1>4, <1>5, <1>6, <1>8, <1>9 DEF Inv

(* The answer is sent only to a client that waits for it. *)
LEMMA ProcessKeeps ==
  ASSUME Inv, Process
  PROVE  Inv'
PROOF
  <1>1. Types
    BY DEF Inv
  <1>2. /\ pc.server = "processing"
        /\ in' = [in EXCEPT !.client = in.client \o (IF ~up THEN <<>>
                                                     ELSE IF Refused THEN Refusal
                                                     ELSE Reply(taken.server.id[1]))]
        /\ pc' = [pc EXCEPT !.server = "header"]
        /\ version' = version /\ stack' = stack /\ taken' = taken
        /\ asked' = asked /\ outcome' = outcome /\ up' = up
    BY DEF Process
  <1>3. /\ pc'.client = pc.client /\ pc'.server = "header"
        /\ pc' \in [End -> {"idle", "header", "body", "processing"}]
    BY <1>1, <1>2 DEF Types, End
  <1>4. /\ pc.client # "idle" => asked.method = version.method /\ asked.id \in Id
        /\ pc.client = "header" => outcome = "none"
        /\ ~up => in.server = <<>>
        /\ AnswerIsOwn /\ AtBoundary
    BY DEF Inv
  <1>5. AnswerIsOwn'
    BY <1>2, <1>3, <1>4, SameOutcome
  <1>6. CASE ~up
    <2>1. in.client \in Seq(Wire)
      BY <1>1 DEF Types, End
    <2>2. in.client \o <<>> = in.client
      BY <2>1, ConcatEmptySeq
    <2>3. in' = in
      BY <1>1, <1>2, <1>6, <2>2 DEF Types, End
    <2>4. Types'
      BY <1>1, <1>2, <1>3, <2>3 DEF Types
    <2>5. ASSUME Gets' PROVE ClientReads'
      <3>1. ClientReads
        BY <1>2, <1>3, <2>3, <2>5, Turns DEF Gets
      <3> QED BY <1>2, <1>3, <2>3, <3>1, SameClient
    <2>6. AtBoundary'
      BY <1>2, <1>6 DEF AtBoundary
    <2> QED BY <1>2, <1>3, <1>4, <1>5, <1>6, <2>3, <2>4, <2>5, <2>6 DEF Inv
  <1>7. CASE up
    <2>1. /\ pc.client = "header" /\ in.client = <<>> /\ ServerReads /\ outcome = "none"
          /\ asked.method = version.method /\ asked.method \in Method /\ asked.id \in Id
      BY <1>2, <1>7, Turns
    <2>2. in.server = <<>> /\ Learnt
      BY <1>2, <2>1 DEF ServerReads
    <2>3. asked.method = "searchName" => taken.server.id[1] = asked.id
      BY <2>2 DEF Learnt, Number
    <2>4. (IF Refused THEN Refusal ELSE Reply(taken.server.id[1])) = Answer
      <3>1. Refused <=> MustRefuse
        BY <2>3 DEF Refused, MustRefuse
      <3>2. ~MustRefuse => asked.method = "searchName"
        BY DEF MustRefuse
      <3> QED BY <2>3, <3>1, <3>2 DEF Answer
    <2>5. Answer \in Seq(Wire) /\ Len(Answer) \in Nat /\ Len(Answer) >= 3
      BY <1>1, <2>1, AnswerIs
    <2>6. in' = [in EXCEPT !.client = Answer]
      <3>1. <<>> \o Answer = Answer
        BY <2>5, ConcatEmptySeq
      <3> QED BY <1>2, <1>7, <2>1, <2>4, <3>1
    <2>7. in' \in [End -> Seq(Wire)] /\ in'.client = Answer /\ in'.server = <<>>
      BY <1>1, <2>2, <2>5, <2>6 DEF Types, End
    <2>8. Types'
      BY <1>1, <1>2, <1>3, <2>7 DEF Types
    <2>9. ClientReads'
      <3>1. Answer' = Answer
        BY <1>2, SameMessages
      <3>2. SubSeq(Answer, 0 + 1, Len(Answer)) = Answer
        BY <2>5, SubSeqFull
      <3>3. 0 \in 0 .. Len(Answer') /\ Len(Answer') \in 0 .. Len(Answer') /\ ~(0 > 0)
        BY <2>5, <3>1
      <3>4. in'.client = SubSeq(Answer', 0 + 1, Len(Answer'))
        BY <2>7, <3>1, <3>2
      <3> QED BY <1>3, <2>1, <3>3, <3>4 DEF ClientReads
    <2>10. AtBoundary'
      BY <1>3, <2>1 DEF AtBoundary
    <2>11. ~Waits'
      <3>1. Answer # <<>>
        BY <2>5
      <3> QED BY <2>7, <3>1 DEF Waits
    <2> QED BY <1>2, <1>3, <1>4, <1>5, <1>7, <2>7, <2>8, <2>9, <2>10, <2>11 DEF Inv
  <1> QED BY <1>6, <1>7

(* What reading a token changes: it is taken from the stream of the end     *)
(* that reads, and nothing of the other end is touched.                     *)
LEMMA ReadIs ==
  ASSUME Types, NEW e \in End, ReadField(e)
  PROVE  LET s == Head(stack[e])
             t == Head(in[e])
         IN  /\ Types'
             /\ stack[e] # <<>> /\ in[e] # <<>>
             /\ in'[e] = Tail(in[e])
             /\ stack'[e] = Nested(e, s, t)
             /\ taken'[e] = IF Known(s, t) THEN Stored(taken[e], s, t) ELSE taken[e]
             /\ \A o \in End \ {e} : /\ in'[o] = in[o] /\ stack'[o] = stack[o]
                                     /\ taken'[o] = taken[o]
PROOF
  <1> DEFINE s == Head(stack[e])
             t == Head(in[e])
             v == IF Known(s, t) THEN Stored(taken[e], s, t) ELSE taken[e]
             n == Nested(e, s, t)
  <1>1. /\ stack[e] # <<>> /\ in[e] # <<>>
        /\ in' = [in EXCEPT ![e] = Tail(in[e])]
        /\ taken' = [taken EXCEPT ![e] = v]
        /\ stack' = [stack EXCEPT ![e] = n]
        /\ version' = version /\ pc' = pc /\ up' = up
    BY DEF ReadField
  <1>2. /\ in[e] \in Seq(Wire) /\ stack[e] \in Seq(Struct)
        /\ DOMAIN taken[e] = {"id", "name", "success"}
    BY DEF Types
  <1>3. Tail(in[e]) \in Seq(Wire) /\ Tail(stack[e]) \in Seq(Struct)
    BY <1>1, <1>2, HeadTailProperties
  <1>4. n \in Seq(Struct)
    <2> DEFINE k == IF Known(s, t) THEN "Response" ELSE "skipped"
    <2>1. k \in Struct
      BY DEF Struct
    <2> HIDE DEF k
    <2>2. <<k>> \in Seq(Struct)
      BY <2>1, Stacks
    <2>3. <<k>> \o stack[e] \in Seq(Struct)
      BY <1>2, <2>2, ConcatProperties
    <2> QED BY <1>2, <1>3, <2>3 DEF Nested, k
  <1>5. DOMAIN v = {"id", "name", "success"}
    BY <1>2 DEF Stored
  <1> HIDE DEF v, n
  <1>6. in' \in [End -> Seq(Wire)] /\ in'[e] = Tail(in[e])
        /\ \A o \in End \ {e} : in'[o] = in[o]
    BY <1>1, <1>3 DEF Types
  <1>7. stack' \in [End -> Seq(Struct)] /\ stack'[e] = n
        /\ \A o \in End \ {e} : stack'[o] = stack[o]
    BY <1>1, <1>4 DEF Types
  <1>8. /\ DOMAIN taken' = End /\ taken'[e] = v
        /\ \A o \in End \ {e} : taken'[o] = taken[o]
        /\ \A o \in End : DOMAIN taken'[o] = {"id", "name", "success"}
    BY <1>1, <1>5 DEF Types
  <1>9. Types'
    BY <1>1, <1>6, <1>7, <1>8 DEF Types
  <1> QED BY <1>1, <1>6, <1>7, <1>8, <1>9 DEF v, n

(* The server reads the argument, skips the other fields and stops there.   *)
LEMMA ServerReadKeeps ==
  ASSUME Inv, ReadField("server")
  PROVE  Inv'
PROOF
  <1> DEFINE m == CallMessage(asked.id)
             s == Head(stack.server)
             t == Head(in.server)
  <1>1. Types /\ "server" \in End /\ "client" \in End \ {"server"}
    BY DEF Inv, End
  <1>2. /\ Types'
        /\ stack.server # <<>> /\ in.server # <<>>
        /\ in'.server = Tail(in.server)
        /\ stack'.server = Nested("server", s, t)
        /\ taken'.server = IF Known(s, t) THEN Stored(taken.server, s, t) ELSE taken.server
        /\ in'.client = in.client
    BY <1>1, ReadIs
  <1>3. /\ pc.server = "body"
        /\ version' = version /\ pc' = pc /\ asked' = asked /\ outcome' = outcome
        /\ up' = up
    BY DEF ReadField
  <1>4. up
    BY <1>2 DEF Inv
  <1>5. /\ pc.client = "header" /\ in.client = <<>> /\ ServerReads /\ outcome = "none"
        /\ asked.method = version.method /\ asked.method \in Method /\ asked.id \in Id
    BY <1>3, <1>4, Turns
  <1>6. PICK p \in 1 .. Len(m) :
          /\ in.server = SubSeq(m, p + 1, Len(m))
          /\ ArgsTaken(p)
          /\ IF p = 1 THEN taken.server = Blank ELSE Learnt
    BY <1>3, <1>5 DEF ServerReads
  <1>7. /\ m \in Seq(Wire) /\ Len(m) = More + 3 /\ More \in Nat
        /\ m[2] = Token("I32", 1, Number(asked.id))
        /\ \A k \in 1 .. More : m[k + 2] = version.more[k]
        /\ m[More + 3] = STOP
    BY <1>1, <1>5, CallIs, MoreIs
  <1>8. m' = m /\ More' = More /\ Base' = Base /\ \A k : Deep(k)' = Deep(k)
    BY <1>3, SameMessages
  <1> HIDE DEF m, s, t
  <1>9. /\ p # Len(m) /\ p + 1 \in 1 .. Len(m)
        /\ t = m[p + 1] /\ in'.server = SubSeq(m, p + 1 + 1, Len(m))
    <2>1. p \in 0 .. Len(m) /\ Len(m) \in p .. Len(m)
      BY <1>7
    <2>2. p # Len(m) /\ t = m[p + 1] /\ in'.server = SubSeq(m, p + 1 + 1, Len(m))
      BY <1>2, <1>6, <1>7, <2>1, TakeToken DEF t
    <2> QED BY <1>7, <2>2
  <1>10. ArgsTaken(p + 1)' /\ Learnt'
    <2>1. CASE p = 1
      <3>1. t = Token("I32", 1, Number(asked.id)) /\ p + 1 = 2
        BY <1>7, <1>9, <2>1
      <3>2. t.type = "I32" /\ t.fid = 1 /\ t.val = Number(asked.id)
        BY <3>1 DEF Token
      <3>3. stack.server = Base /\ taken.server = Blank
        BY <1>6, <2>1 DEF ArgsTaken
      <3>4. s = IF asked.method = "searchName" THEN "args" ELSE "skipped"
        BY <3>3, Stacks DEF s
      <3>5. Known(s, t) <=> asked.method = "searchName"
        BY <3>2, <3>4, KnownIs
      <3>6. stack'.server = Base
        BY <1>2, <3>2, <3>3 DEF Nested
      <3>7. Learnt'
        <4>1. CASE asked.method = "searchName"
          <5>1. taken'.server = [Blank EXCEPT !.id = Number(asked.id)]
            BY <1>2, <3>2, <3>3, <3>4, <3>5, <4>1 DEF Stored
          <5>2. "id" \in DOMAIN Blank
            BY DEF Blank
          <5>3. taken'.server.id = Number(asked.id)
            BY <5>1, <5>2
          <5> QED BY <1>3, <4>1, <5>3 DEF Learnt
        <4>2. CASE asked.method # "searchName"
          <5>1. taken'.server = Blank
            BY <1>2, <3>3, <3>5, <4>2
          <5>2. Blank.id = Number(0)
            BY DEF Blank
          <5> QED BY <1>3, <4>2, <5>1, <5>2 DEF Learnt
        <4> QED BY <4>1, <4>2
      <3>8. Over(stack'.server, Deep(0), Base)
        BY <1>1, <3>6, DeepEnds, NothingOver, Stacks
      <3>9. ArgsTaken(2)'
        <4>1. 2 - 2 = 0 /\ 2 # 1 /\ 2 # More + 3
          BY <1>7
        <4> QED BY <1>8, <3>8, <4>1 DEF ArgsTaken, Over
      <3> QED BY <3>1, <3>7, <3>9
    <2>2. CASE p \in 2 .. More + 1
      <3> DEFINE k == p - 1
      <3>1. k \in 1 .. More /\ k - 1 = p - 2 /\ k + 2 = p + 1 /\ k = p + 1 - 2
            /\ p \in 2 .. More + 2 /\ p # 1
        BY <1>7, <2>2
      <3> HIDE DEF k
      <3>2. t = version.more[k]
        BY <1>7, <1>9, <3>1
      <3>3. Over(stack.server, Deep(k - 1), Base) /\ Learnt
        BY <1>6, <3>1 DEF ArgsTaken
      <3>4. Base \in Seq(Struct) /\ Base # <<>> /\ Base[1] \in {"args", "Response", "skipped"}
        BY Stacks
      <3>5. ~Known(s, t) /\ Over(Nested("server", s, t), Deep(k), Base)
        BY <1>1, <3>1, <3>2, <3>3, <3>4, Skipping DEF s
      <3>6. taken'.server = taken.server /\ Over(stack'.server, Deep(k), Base)
        BY <1>2, <3>5
      <3>7. Learnt'
        BY <1>3, <3>3, <3>6 DEF Learnt
      <3>8. ArgsTaken(p + 1)'
        <4>1. p + 1 # 1 /\ p + 1 # More + 3
          BY <1>7, <2>2
        <4> QED BY <1>8, <3>1, <3>6, <4>1 DEF ArgsTaken, Over
      <3> QED BY <3>7, <3>8
    <2>3. CASE p = More + 2
      <3>1. t = STOP /\ p + 1 = More + 3 /\ p \in 2 .. More + 2 /\ p - 2 = More /\ p # 1
        BY <1>7, <1>9, <2>3
      <3>2. t.type = "STOP"
        BY <3>1 DEF STOP, Token
      <3>3. Over(stack.server, Deep(More), Base) /\ Learnt
        BY <1>6, <3>1 DEF ArgsTaken
      <3>4. stack.server = Base
        BY <1>1, <3>3, DeepEnds, NothingOver, Stacks
      <3>5. stack'.server = <<>>
        BY <1>2, <3>2, <3>4, Stacks DEF Nested
      <3>6. ~Known(s, t)
        BY <3>2, KnownIs
      <3>7. Learnt'
        BY <1>2, <1>3, <3>3, <3>6 DEF Learnt
      <3>8. ArgsTaken(p + 1)'
        <4>1. More + 3 # 1 /\ More + 3 \notin 2 .. More + 2
          BY <1>7
        <4> QED BY <1>8, <3>1, <3>5, <4>1 DEF ArgsTaken
      <3> QED BY <3>7, <3>8
    <2> QED BY <1>7, <1>9, <2>1, <2>2, <2>3
  <1>11. ServerReads'
    <2>1. p + 1 \in 1 .. Len(m') /\ in'.server = SubSeq(m', p + 1 + 1, Len(m')) /\ p + 1 # 1
      BY <1>7, <1>8, <1>9
    <2> QED BY <1>3, <1>10, <2>1 DEF ServerReads, m
  <1>12. AtBoundary' /\ AnswerIsOwn' /\ ~Gets'
    BY <1>2, <1>3, <1>5 DEF AtBoundary, AnswerIsOwn, Gets
  <1> QED BY <1>2, <1>3, <1>4, <1>5, <1>11, <1>12 DEF Inv

(* The client reads the next token of a refusal, *)
LEMMA RefusalRead ==
  ASSUME Types, ReadField("client"), MustRefuse, asked.method \in Method,
         NEW p \in 1 .. 3, Head(in.client) = Refusal[p + 1], RefusalTaken(p)
  PROVE  RefusalTaken(p + 1)'
PROOF
  <1> DEFINE s == Head(stack.client)
             t == Head(in.client)
             b == <<"TApplicationException">>
  <1>1. stack'.client = Nested("client", s, t)
    <2>1. "client" \in End
      BY DEF End
    <2> QED BY <2>1, ReadIs
  <1>2. stack.client = b
    BY DEF RefusalTaken
  <1>3. /\ Refusal[2] = Token("STRING", 1, Text("", 0))
        /\ Refusal[3] = Token("I32", 2, Number(0))
        /\ Refusal[4] = STOP
    BY RefusalIs
  <1>4. b # <<>> /\ Tail(b) = <<>>
    BY Stacks DEF Struct
  <1> HIDE DEF s, t, b
  <1>5. CASE p \in 1 .. 2
    <2>1. p + 1 \in 2 .. 3 /\ p + 1 \in 1 .. 3 /\ p + 1 # 4
      BY <1>5
    <2>2. t.type = "STRING" \/ t.type = "I32"
      <3>1. t = Token("STRING", 1, Text("", 0)) \/ t = Token("I32", 2, Number(0))
        <4>1. p + 1 = 2 \/ p + 1 = 3
          BY <2>1
        <4> QED BY <1>3, <4>1 DEF t
      <3>2. Token("STRING", 1, Text("", 0)).type = "STRING"
        BY DEF Token
      <3>3. Token("I32", 2, Number(0)).type = "I32"
        BY DEF Token
      <3> QED BY <3>1, <3>2, <3>3
    <2>3. stack'.client = b
      BY <1>1, <1>2, <2>2 DEF Nested
    <2> QED BY <2>1, <2>3 DEF RefusalTaken, b
  <1>6. CASE p = 3
    <2>1. p + 1 = 4 /\ 4 \notin 1 .. 3
      BY <1>6
    <2>2. t.type = "STOP"
      <3>1. t = STOP
        BY <1>3, <2>1 DEF t
      <3> QED BY <3>1 DEF STOP, Token
    <2>3. stack'.client = <<>>
      BY <1>1, <1>2, <1>4, <2>2 DEF Nested
    <2> QED BY <2>1, <2>3 DEF RefusalTaken
  <1> QED BY <1>5, <1>6

(* of a result that is no Response, *)
LEMMA StringRead ==
  ASSUME Types, ReadField("client"), version.success # "STRUCT", asked.method \in Method,
         asked.id \in Id,
         NEW p \in 1 .. 2, Head(in.client) = Reply(asked.id)[p + 1], StringTaken(p)
  PROVE  StringTaken(p + 1)'
PROOF
  <1> DEFINE s == Head(stack.client)
             t == Head(in.client)
             b == <<"result">>
  <1>1. /\ stack'.client = Nested("client", s, t)
        /\ taken'.client = IF Known(s, t) THEN Stored(taken.client, s, t) ELSE taken.client
    <2>1. "client" \in End
      BY DEF End
    <2> QED BY <2>1, ReadIs
  <1>2. stack.client = b /\ taken.client.success = FALSE
    BY DEF StringTaken
  <1>3. Reply(asked.id)[2] = Token("STRING", 0, Text("", 0)) /\ Reply(asked.id)[3] = STOP
    BY OtherReplyIs
  <1>4. b # <<>> /\ Tail(b) = <<>> /\ Head(b) = "result"
    BY Stacks DEF Struct
  <1>5. s = "result"
    BY <1>2, <1>4 DEF s
  <1> HIDE DEF s, t, b
  <1>6. CASE p = 1
    <2>1. p + 1 = 2 /\ 2 \in 1 .. 2 /\ 2 # 3
      BY <1>6
    <2>2. t.type = "STRING"
      <3>1. t = Token("STRING", 0, Text("", 0))
        BY <1>3, <2>1 DEF t
      <3> QED BY <3>1 DEF Token
    <2>3. stack'.client = b /\ taken'.client = taken.client
      BY <1>1, <1>2, <1>5, <2>2, KnownIs DEF Nested
    <2> QED BY <1>2, <2>1, <2>3 DEF StringTaken, b
  <1>7. CASE p = 2
    <2>1. p + 1 = 3 /\ 3 \notin 1 .. 2
      BY <1>7
    <2>2. t.type = "STOP"
      <3>1. t = STOP
        BY <1>3, <2>1 DEF t
      <3> QED BY <3>1 DEF STOP, Token
    <2>3. stack'.client = <<>> /\ taken'.client = taken.client
      BY <1>1, <1>2, <1>4, <1>5, <2>2, KnownIs DEF Nested
    <2> QED BY <1>2, <2>1, <2>3 DEF StringTaken
  <1> QED BY <1>6, <1>7

(* and of a Response, with fields that it does not know. *)
LEMMA ResponseRead ==
  ASSUME Types, ReadField("client"), version.success = "STRUCT", asked.method \in Method,
         asked.id \in Id, NEW p \in 1 .. More + 5, NEW q, q = p + 1,
         Head(in.client) = Reply(asked.id)[q], ResponseTaken(p)
  PROVE  ResponseTaken(q)'
PROOF
  <1> DEFINE s == Head(stack.client)
             t == Head(in.client)
             b == <<"result">>
             r == <<"Response", "result">>
             y == Reply(asked.id)
  <1>1. /\ stack'.client = Nested("client", s, t)
        /\ taken'.client = IF Known(s, t) THEN Stored(taken.client, s, t) ELSE taken.client
        /\ DOMAIN taken.client = {"id", "name", "success"}
        /\ "client" \in End
    <2>1. "client" \in End
      BY DEF End
    <2> QED BY <2>1, ReadIs DEF Types
  <1>2. version' = version /\ asked' = asked
    BY DEF ReadField
  <1>3. More' = More /\ \A k : Deep(k)' = Deep(k)
    BY <1>2, SameMessages
  <1>4. More \in Nat
    BY MoreIs
  <1>5. /\ y[2] = Token("STRUCT", 0, <<>>)
        /\ \A k \in 1 .. More : y[k + 2] = version.more[k]
        /\ y[More + 3] = Token("I32", 1, Number(0))
        /\ y[More + 4] = Token("STRING", 2, Text("xiongyu: ", asked.id))
        /\ y[More + 5] = STOP /\ y[More + 6] = STOP
    BY ReplyIs
  <1>6. /\ b # <<>> /\ Tail(b) = <<>> /\ Head(b) = "result"
        /\ r \in Seq(Struct) /\ r # <<>> /\ r[1] = "Response" /\ Head(r) = "Response"
        /\ Tail(r) = b /\ <<"Response">> \o b = r
    BY Stacks DEF Struct
  <1>7. /\ p = 1 => stack.client = b
        /\ p \in 2 .. More + 2 => Over(stack.client, Deep(p - 2), r)
        /\ p \in More + 3 .. More + 4 => stack.client = r
        /\ p = More + 5 => stack.client = b
        /\ p > 1 => taken.client.success = TRUE
        /\ p > More + 3 => taken.client.name = Text("xiongyu: ", asked.id)
    BY DEF ResponseTaken
  <1>8. t = y[q]
    OBVIOUS
  <1> DEFINE Goal(st, tk) ==
        /\ q = 1 => st = b
        /\ q \in 2 .. More + 2 => Over(st, Deep(q - 2), r)
        /\ q \in More + 3 .. More + 4 => st = r
        /\ q = More + 5 => st = b
        /\ q = More + 6 => st = <<>>
        /\ q = 1 => tk.success = FALSE
        /\ q > 1 => tk.success = TRUE
        /\ q > More + 3 => tk.name = Text("xiongyu: ", asked.id)
  <1>9. SUFFICES Goal(stack'.client, taken'.client)
    BY <1>2, <1>3 DEF ResponseTaken, Over
  <1> HIDE DEF t, b, r, y
  <1>10. q # 1 /\ q > 1 /\ (p > 1 => taken.client.success = TRUE)
    <2>1. q # 1 /\ q > 1
      BY <1>4
    <2> QED BY <1>7, <2>1
  <1>11. CASE p = 1
    <2>1. t.type = "STRUCT" /\ t.fid = 0
      <3>1. t = Token("STRUCT", 0, <<>>)
        <4>1. q = 2
          BY <1>11
        <4> QED BY <1>5, <1>8, <4>1
      <3> QED BY <3>1 DEF Token
    <2>2. s = "result" /\ stack.client = b
      BY <1>6, <1>7, <1>11
    <2>3. Known(s, t)
      BY <2>1, <2>2, KnownIs
    <2>4. stack'.client = r
      BY <1>1, <1>6, <2>1, <2>2, <2>3 DEF Nested
    <2>5. taken'.client.success = TRUE
      <3>1. Stored(taken.client, s, t) = [taken.client EXCEPT !.success = TRUE]
        BY <2>2 DEF Stored
      <3> QED BY <1>1, <2>3, <3>1
    <2>6. Over(r, Deep(0), r)
      BY <1>6, DeepEnds, NothingOver
    <2>7. /\ q = 2 /\ 2 - 2 = 0 /\ 2 # 1 /\ 2 \notin More + 3 .. More + 4
          /\ 2 # More + 5 /\ 2 # More + 6 /\ ~(2 > More + 3)
      BY <1>4, <1>11
    <2> QED BY <1>10, <2>4, <2>5, <2>6, <2>7
  <1>12. CASE p \in 2 .. More + 1
    <2> DEFINE k == p - 1
    <2>1. /\ k \in 1 .. More /\ k - 1 = p - 2 /\ k + 2 = q /\ k = q - 2
          /\ p \in 2 .. More + 2 /\ p > 1
      BY <1>4, <1>12
    <2> HIDE DEF k
    <2>2. t = version.more[k]
      BY <1>5, <1>8, <2>1
    <2>3. Over(stack.client, Deep(k - 1), r) /\ r[1] \in {"args", "Response", "skipped"}
      BY <1>6, <1>7, <2>1
    <2>4. ~Known(s, t) /\ Over(Nested("client", s, t), Deep(k), r)
      BY <1>1, <1>6, <2>1, <2>2, <2>3, Skipping
    <2>5. taken'.client = taken.client /\ Over(stack'.client, Deep(k), r)
      BY <1>1, <2>4
    <2>6. /\ q # 1 /\ q \notin More + 3 .. More + 4
          /\ q # More + 5 /\ q # More + 6 /\ ~(q > More + 3)
      BY <1>4, <1>12
    <2>7. Over(stack'.client, Deep(q - 2), r) /\ taken'.client.success = TRUE
      BY <1>10, <2>1, <2>5
    <2> QED BY <2>6, <2>7
  <1>13. CASE p = More + 2
    <2>1. /\ q = More + 3 /\ p \in 2 .. More + 2 /\ p - 2 = More /\ p > 1
          /\ More + 3 \in More + 3 .. More + 4 /\ More + 3 # 1 /\ More + 3 \notin 2 .. More + 2
          /\ More + 3 # More + 5 /\ More + 3 # More + 6 /\ ~(More + 3 > More + 3)
      BY <1>4, <1>13
    <2>2. t.type = "I32" /\ t.fid = 1
      <3>1. t = Token("I32", 1, Number(0))
        BY <1>5, <1>8, <2>1
      <3> QED BY <3>1 DEF Token
    <2>3. stack.client = r
      <3>1. Over(stack.client, Deep(More), r) /\ Deep(More) = 0
        BY <1>7, <2>1, DeepEnds
      <3> QED BY <1>6, <3>1, NothingOver
    <2>4. s = "Response" /\ stack'.client = r
      BY <1>1, <1>6, <2>2, <2>3 DEF Nested
    <2>5. taken'.client.success = TRUE
      <3>1. Known(s, t)
        BY <2>2, <2>4, KnownIs
      <3>2. Stored(taken.client, s, t) = [taken.client EXCEPT !.id = t.val]
        BY <2>2, <2>4 DEF Stored
      <3>3. taken'.client.success = taken.client.success
        BY <1>1, <3>1, <3>2
      <3> QED BY <1>10, <2>1, <3>3
    <2> QED BY <1>10, <2>1, <2>4, <2>5
  <1>14. CASE p = More + 3
    <2>1. /\ q = More + 4 /\ p \in More + 3 .. More + 4 /\ p > 1
          /\ More + 4 \in More + 3 .. More + 4 /\ More + 4 # 1 /\ More + 4 \notin 2 .. More + 2
          /\ More + 4 # More + 5 /\ More + 4 # More + 6
      BY <1>4, <1>14
    <2>2. t.type = "STRING" /\ t.fid = 2 /\ t.val = Text("xiongyu: ", asked.id)
      <3>1. t = Token("STRING", 2, Text("xiongyu: ", asked.id))
        BY <1>5, <1>8, <2>1
      <3> QED BY <3>1 DEF Token
    <2>3. stack.client = r
      BY <1>7, <2>1
    <2>4. s = "Response" /\ stack'.client = r
      BY <1>1, <1>6, <2>2, <2>3 DEF Nested
    <2>5. taken'.client.success = TRUE /\ taken'.client.name = Text("xiongyu: ", asked.id)
      <3>1. Known(s, t)
        BY <2>2, <2>4, KnownIs
      <3>2. Stored(taken.client, s, t) = [taken.client EXCEPT !.name = t.val]
        <4>1. s = "Response" /\ t.fid = 2
          BY <2>2, <2>4
        <4>2. 2 # 1
          OBVIOUS
        <4> QED BY <4>1, <4>2 DEF Stored
      <3>3. /\ taken'.client.success = taken.client.success
            /\ taken'.client.name = t.val
        BY <1>1, <3>1, <3>2
      <3> QED BY <1>10, <2>1, <2>2, <3>3
    <2> QED BY <1>10, <2>1, <2>4, <2>5
  <1>15. CASE p = More + 4
    <2>1. /\ q = More + 5 /\ p \in More + 3 .. More + 4 /\ p > 1 /\ p > More + 3
          /\ More + 5 \notin More + 3 .. More + 4 /\ More + 5 # 1
          /\ More + 5 \notin 2 .. More + 2 /\ More + 5 # More + 6
      BY <1>4, <1>15
    <2>2. t.type = "STOP"
      <3>1. t = STOP
        BY <1>5, <1>8, <2>1
      <3> QED BY <3>1 DEF STOP, Token
    <2>3. stack.client = r
      BY <1>7, <2>1
    <2>4. stack'.client = b
      BY <1>1, <1>6, <2>2, <2>3 DEF Nested
    <2>5. taken'.client = taken.client
      BY <1>1, <2>2, KnownIs
    <2> QED BY <1>7, <1>10, <2>1, <2>4, <2>5
  <1>16. CASE p = More + 5
    <2>1. /\ q = More + 6 /\ p > 1 /\ p > More + 3
          /\ More + 6 \notin More + 3 .. More + 4 /\ More + 6 # 1
          /\ More + 6 \notin 2 .. More + 2 /\ More + 6 # More + 5
      BY <1>4, <1>16
    <2>2. t.type = "STOP"
      <3>1. t = STOP
        BY <1>5, <1>8, <2>1
      <3> QED BY <3>1 DEF STOP, Token
    <2>3. stack.client = b
      BY <1>7, <1>16
    <2>4. stack'.client = <<>>
      BY <1>1, <1>6, <2>2, <2>3 DEF Nested
    <2>5. taken'.client = taken.client
      BY <1>1, <2>2, KnownIs
    <2> QED BY <1>7, <1>10, <2>1, <2>4, <2>5
  <1>17. \/ p = 1 \/ p \in 2 .. More + 1 \/ p = More + 2 \/ p = More + 3
         \/ p = More + 4 \/ p = More + 5
    BY <1>4
  <1> QED BY <1>11, <1>12, <1>13, <1>14, <1>15, <1>16, <1>17

(* Whatever the answer, the client reads it to its end and no further.      *)
LEMMA ClientReadKeeps ==
  ASSUME Inv, ReadField("client")
  PROVE  Inv'
PROOF
  <1> DEFINE t == Head(in.client)
  <1>1. Types /\ "client" \in End /\ "server" \in End \ {"client"}
    BY DEF Inv, End
  <1>2. /\ Types'
        /\ stack.client # <<>> /\ in.client # <<>>
        /\ in'.client = Tail(in.client)
        /\ in'.server = in.server
    BY <1>1, ReadIs
  <1>3. /\ pc.client = "body"
        /\ version' = version /\ pc' = pc /\ asked' = asked /\ outcome' = outcome
        /\ up' = up
    BY DEF ReadField
  <1>4. Gets /\ ClientReads /\ asked.method = version.method /\ asked.method \in Method
        /\ asked.id \in Id /\ (up => in.server = <<>> /\ pc.server = "header")
    BY <1>3, Turns DEF Gets, Inv
  <1>5. /\ Answer \in Seq(Wire) /\ Len(Answer) \in Nat
        /\ MustRefuse => Len(Answer) = 4
        /\ ~MustRefuse /\ version.success = "STRUCT" => Len(Answer) = More + 6
        /\ ~MustRefuse /\ version.success # "STRUCT" => Len(Answer) = 3
    BY <1>1, <1>4, AnswerIs
  <1>6. PICK p \in 0 .. Len(Answer) : \E n \in p .. Len(Answer) :
          /\ in.client = SubSeq(Answer, p + 1, n)
          /\ up => n = Len(Answer)
          /\ (p = 0 <=> pc.client = "header")
          /\ p > 0 => AnswerTaken(p)
    BY <1>4 DEF ClientReads
  <1>7. PICK n \in p .. Len(Answer) :
          /\ in.client = SubSeq(Answer, p + 1, n)
          /\ up => n = Len(Answer)
          /\ (p = 0 <=> pc.client = "header")
          /\ p > 0 => AnswerTaken(p)
    BY <1>6
  <1>8. p # 0 /\ AnswerTaken(p)
    BY <1>3, <1>5, <1>7
  <1>9. /\ p # n /\ t = Answer[p + 1] /\ in'.client = SubSeq(Answer, p + 1 + 1, n)
    <2> DEFINE x == SubSeq(Answer, p + 1, n)
    <2>1. /\ x = <<>> <=> p = n
          /\ x # <<>> => Head(x) = Answer[p + 1] /\ Tail(x) = SubSeq(Answer, p + 1 + 1, n)
      <3>1. /\ Answer \in Seq(Wire) /\ p \in 0 .. Len(Answer) /\ n \in p .. Len(Answer)
        BY <1>5
      <3> QED BY <3>1, TakeToken
    <2>2. in.client = x
      BY <1>7
    <2> HIDE DEF x
    <2> QED BY <1>2, <2>1, <2>2
  <1> HIDE DEF t
  <1>10. PICK q \in 1 .. Len(Answer) : q = p + 1
    BY <1>5, <1>9
  <1>11. q \in p + 1 .. n /\ n \in q .. Len(Answer) /\ q # 0 /\ q > 0
    BY <1>5, <1>8, <1>9, <1>10
  <1>12. /\ Answer' = Answer /\ MustRefuse' = MustRefuse
    BY <1>3, SameMessages
  <1>13. AnswerTaken(q)'
    <2>1. CASE MustRefuse
      <3>1. Answer = Refusal /\ Len(Answer) = 4
        BY <1>5, <2>1 DEF Answer
      <3>2. p \in 1 .. 3
        BY <1>8, <1>9, <3>1
      <3>3. RefusalTaken(p) /\ outcome = "exception"
        BY <1>8, <2>1 DEF AnswerTaken
      <3>4. t = Refusal[p + 1]
        BY <1>9, <3>1
      <3>5. RefusalTaken(p + 1)'
        BY <1>1, <1>4, <2>1, <3>2, <3>3, <3>4, RefusalRead DEF t
      <3> QED BY <1>3, <1>10, <1>12, <2>1, <3>3, <3>5 DEF AnswerTaken
    <2>2. CASE ~MustRefuse /\ version.success = "STRUCT"
      <3>1. Answer = Reply(asked.id) /\ Len(Answer) = More + 6 /\ More \in Nat
        BY <1>1, <1>5, <2>2, MoreIs DEF Answer
      <3>2. p \in 1 .. More + 5
        BY <1>8, <1>9, <3>1
      <3>3. ResponseTaken(p) /\ outcome = "none"
        BY <1>8, <2>2 DEF AnswerTaken
      <3>4. t = Reply(asked.id)[q]
        BY <1>9, <1>10, <3>1
      <3>5. ResponseTaken(q)'
        BY <1>1, <1>4, <1>10, <2>2, <3>2, <3>3, <3>4, ResponseRead DEF t
      <3> QED BY <1>3, <1>12, <2>2, <3>3, <3>5 DEF AnswerTaken
    <2>3. CASE ~MustRefuse /\ version.success # "STRUCT"
      <3>1. Answer = Reply(asked.id) /\ Len(Answer) = 3
        BY <1>5, <2>3 DEF Answer
      <3>2. p \in 1 .. 2
        BY <1>8, <1>9, <3>1
      <3>3. StringTaken(p) /\ outcome = "none"
        BY <1>8, <2>3 DEF AnswerTaken
      <3>4. t = Reply(asked.id)[p + 1]
        BY <1>9, <3>1
      <3>5. StringTaken(p + 1)'
        BY <1>1, <1>4, <2>3, <3>2, <3>3, <3>4, StringRead DEF t
      <3> QED BY <1>3, <1>10, <1>12, <2>3, <3>3, <3>5 DEF AnswerTaken
    <2> QED BY <2>1, <2>2, <2>3
  <1>14. ClientReads'
    <2>1. in'.client = SubSeq(Answer', q + 1, n) /\ (up' => n = Len(Answer'))
      BY <1>3, <1>7, <1>9, <1>10, <1>12
    <2>2. q \in 0 .. Len(Answer') /\ n \in q .. Len(Answer')
      BY <1>5, <1>10, <1>11, <1>12
    <2>3. ~(q = 0) /\ pc'.client # "header"
      BY <1>3, <1>11
    <2> QED BY <1>13, <2>1, <2>2, <2>3 DEF ClientReads
  <1>15. AtBoundary' /\ AnswerIsOwn' /\ ~Waits'
    BY <1>3 DEF AtBoundary, AnswerIsOwn, Waits
  <1>16. ~up => in.server = <<>>
    BY DEF Inv
  <1> QED BY <1>2, <1>3, <1>4, <1>14, <1>15, <1>16 DEF Inv

-----------------------------------------------------------------------------
(* The invariant, and what it says.                                         *)

LEMMA Start == Init => Inv
PROOF
  <1> SUFFICES ASSUME Init PROVE Inv
    OBVIOUS
  <1>1. <<>> \in Seq(Wire) /\ <<>> \in Seq(Struct)
    BY EmptySeq
  <1>2. /\ pc = [client |-> "idle", server |-> "header"]
        /\ in = [client |-> <<>>, server |-> <<>>]
        /\ stack = [client |-> <<>>, server |-> <<>>]
        /\ taken = [client |-> Blank, server |-> Blank]
        /\ outcome = "none" /\ up = TRUE
        /\ version \in [method : Method, more : Extra, success : {"STRUCT", "STRING"}]
    BY DEF Init
  <1>9. ASSUME NEW S, NEW a \in S, NEW b \in S
        PROVE  [client |-> a, server |-> b] \in [End -> S]
    BY DEF End
  <1>3. in \in [End -> Seq(Wire)] /\ in.client = <<>> /\ in.server = <<>>
    <2>1. in.client = <<>> /\ in.server = <<>>
      BY <1>2
    <2> QED BY <1>1, <1>2, <1>9, <2>1
  <1>4. stack \in [End -> Seq(Struct)]
    BY <1>1, <1>2, <1>9
  <1>5. pc \in [End -> {"idle", "header", "body", "processing"}] /\ pc.client = "idle"
        /\ pc.server = "header"
    BY <1>2 DEF End
  <1>6. DOMAIN taken = End /\ \A e \in End : DOMAIN taken[e] = {"id", "name", "success"}
    <2>1. DOMAIN Blank = {"id", "name", "success"}
      BY DEF Blank
    <2>2. \A b : /\ DOMAIN [client |-> b, server |-> b] = End
                 /\ \A e \in End : [client |-> b, server |-> b][e] = b
      BY DEF End
    <2>3. DOMAIN taken = End /\ \A e \in End : taken[e] = Blank
      BY <1>2, <2>2
    <2> QED BY <2>1, <2>3
  <1>7. Types
    BY <1>2, <1>3, <1>4, <1>5, <1>6 DEF Types
  <1>8. AtBoundary /\ AnswerIsOwn /\ ~Waits /\ ~Gets
    BY <1>2, <1>3, <1>5 DEF AtBoundary, AnswerIsOwn, Waits, Gets
  <1> QED BY <1>2, <1>3, <1>5, <1>7, <1>8 DEF Inv

LEMMA Stutter ==
  ASSUME Inv, UNCHANGED vars
  PROVE  Inv'
PROOF
  <1>1. /\ version' = version /\ pc' = pc /\ in' = in /\ stack' = stack /\ taken' = taken
        /\ asked' = asked /\ outcome' = outcome /\ up' = up
    BY DEF vars
  <1>2. Types' /\ AtBoundary' /\ AnswerIsOwn'
    <2>1. Types /\ AtBoundary /\ AnswerIsOwn
      BY DEF Inv
    <2>2. Types'
      BY <1>1, <2>1 DEF Types
    <2>3. AtBoundary'
      BY <1>1, <2>1 DEF AtBoundary
    <2>4. AnswerIsOwn'
      BY <1>1, <2>1, SameOutcome
    <2> QED BY <2>2, <2>3, <2>4
  <1>3. (Waits' <=> Waits) /\ (Gets' <=> Gets)
    BY <1>1 DEF Waits, Gets
  <1>4. ASSUME ServerReads PROVE ServerReads'
    <2>1. /\ More' = More /\ (\A k : Deep(k)' = Deep(k)) /\ Base' = Base
          /\ \A i : CallMessage(i)' = CallMessage(i)
      BY <1>1, SameMessages
    <2>2. \A p : ArgsTaken(p)' <=> ArgsTaken(p)
      BY <1>1, <2>1 DEF ArgsTaken, Over
    <2>3. Learnt' <=> Learnt
      BY <1>1 DEF Learnt
    <2> QED BY <1>1, <1>4, <2>1, <2>2, <2>3 DEF ServerReads
  <1>5. ASSUME ClientReads PROVE ClientReads'
    BY <1>1, <1>5, SameClient
  <1> QED BY <1>1, <1>2, <1>3, <1>4, <1>5 DEF Inv

LEMMA Invariance == Spec => []Inv
PROOF
  <1>1. ASSUME Inv, [Next]_vars PROVE Inv'
    <2>1. CASE \E i \in Id : Send(i)
      BY <1>1, <2>1, SendKeeps
    <2>2. CASE Client
      BY <1>1, <2>2, ReceiveKeeps, ClientReadKeeps, ReturnKeeps, ThrowKeeps DEF Client
    <2>3. CASE Server
      BY <1>1, <2>3, DispatchKeeps, ServerReadKeeps, ArgsReadKeeps, ProcessKeeps DEF Server
    <2>4. CASE Disconnect
      BY <1>1, <2>4, DisconnectKeeps
    <2>5. CASE UNCHANGED vars
      BY <1>1, <2>5, Stutter
    <2> QED BY <1>1, <2>1, <2>2, <2>3, <2>4, <2>5 DEF Next
  <1> QED BY <1>1, Start, PTL DEF Spec

(* Whatever fields the other version has, and however they are nested: when *)
(* the client is between two calls, recv_searchName and the server's        *)
(* process have read the last call and its answer to the last byte.         *)
THEOREM StreamsAtBoundary == Spec => []AtBoundary
PROOF
  <1>1. Inv => AtBoundary
    BY DEF Inv
  <1> QED BY <1>1, Invariance, PTL

(* SearchClient::searchName returns the name made of its own argument, for  *)
(* any id, and throws only for one of its reasons.                          *)
THEOREM OwnAnswer == Spec => []AnswerIsOwn
PROOF
  <1>1. Inv => AnswerIsOwn
    BY DEF Inv
  <1> QED BY <1>1, Invariance, PTL
=============================================================================
