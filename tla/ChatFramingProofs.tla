-------------------------- MODULE ChatFramingProofs --------------------------
(* A header that was encoded is decoded to the same length, for every limit *)
(* that a header of four digits can hold; and the lines typed arrive as     *)
(* such, for any lines and however their bytes are cut.                     *)
EXTENDS ChatFraming, SequenceTheorems, WellFoundedInduction, TLAPS

(* The characters of the ten digits. *)
LEMMA DigitChars ==
  /\ Digit[0] = "0" /\ Digit[1] = "1" /\ Digit[2] = "2" /\ Digit[3] = "3"
  /\ Digit[4] = "4" /\ Digit[5] = "5" /\ Digit[6] = "6" /\ Digit[7] = "7"
  /\ Digit[8] = "8" /\ Digit[9] = "9"
  BY DEF Digit

(* A digit is read back as the digit it was written for. *)
LEMMA DigitRoundTrip ==
  ASSUME NEW d \in 0 .. 9
  PROVE  /\ Digit[d] \in Digits /\ Digit[d] \notin Space /\ Digit[d] \notin Sign
         /\ DigitValue(Digit[d]) = d
PROOF
  <1>1. \A i \in 0 .. 9 : \/ i = 0 \/ i = 1 \/ i = 2 \/ i = 3 \/ i = 4
                          \/ i = 5 \/ i = 6 \/ i = 7 \/ i = 8 \/ i = 9
    OBVIOUS
  <1>2. \A i, j \in 0 .. 9 : Digit[i] = Digit[j] => i = j
    BY <1>1, DigitChars
  <1>3. Digit[d] \in Digits
    BY DEF Digits
  <1>4. DigitValue(Digit[d]) = d
    BY <1>2 DEF DigitValue
  <1>5. Digit[d] \notin Space /\ Digit[d] \notin Sign
    BY <1>1, DigitChars DEF Blank, Space, Sign
  <1> QED BY <1>3, <1>4, <1>5

(* Where atoi() is before the number, and after it has read v.              *)
Start == [at |-> "start", minus |-> FALSE, value |-> 0]
Number(v) == [at |-> "digits", minus |-> FALSE, value |-> v]

(* A blank before the number is skipped. *)
LEMMA ScanBlank == Scan(Start, Blank) = Start
PROOF
  <1>1. \A i \in 0 .. 9 : Digit[i] # Blank
    BY DigitRoundTrip DEF Space
  <1>2. Blank \in Space /\ Blank \notin Sign /\ Blank \notin Digits
    BY <1>1 DEF Blank, Space, Sign, Digits
  <1>3. Start.at = "start"
    BY DEF Start
  <1> QED BY <1>2, <1>3 DEF Scan

(* The first digit starts the number. *)
LEMMA ScanFirstDigit ==
  ASSUME NEW d \in 0 .. 9
  PROVE  Scan(Start, Digit[d]) = Number(d)
PROOF
  <1> DEFINE c == Digit[d]
  <1>1. c \in Digits /\ c \notin Space /\ c \notin Sign /\ DigitValue(c) = d
    BY DigitRoundTrip
  <1>2. Start.at = "start" /\ Start.value = 0
    BY DEF Start
  <1>3. Scan(Start, c)
          = [Start EXCEPT !.at = "digits", !.value = 10 * Start.value + DigitValue(c)]
    <2> HIDE DEF c
    <2> QED BY <1>1, <1>2 DEF Scan
  <1>4. 10 * Start.value + DigitValue(c) = d
    BY <1>1, <1>2
  <1>5. Scan(Start, c) = [Start EXCEPT !.at = "digits", !.value = d]
    BY <1>3, <1>4
  <1> QED BY <1>5 DEF Start, Number

(* Every other digit is appended to it. *)
LEMMA ScanNextDigit ==
  ASSUME NEW v \in Nat, NEW d \in 0 .. 9
  PROVE  Scan(Number(v), Digit[d]) = Number(10 * v + d)
PROOF
  <1> DEFINE c == Digit[d]
             a == Number(v)
  <1>1. c \in Digits /\ c \notin Space /\ c \notin Sign /\ DigitValue(c) = d
    BY DigitRoundTrip
  <1>2. a.at = "digits" /\ a.value = v
    BY DEF Number
  <1>3. Scan(a, c) = [a EXCEPT !.at = "digits", !.value = 10 * a.value + DigitValue(c)]
    <2> HIDE DEF a, c
    <2> QED BY <1>1, <1>2 DEF Scan
  <1>4. Scan(a, c) = [a EXCEPT !.at = "digits", !.value = 10 * v + d]
    BY <1>1, <1>2, <1>3
  <1> QED BY <1>4 DEF Number

(* encode_header() followed by decode_header() gives the length back: the   *)
(* header is accepted and holds body_length_, whatever it is, up to a limit *)
(* of four digits.                                                          *)
THEOREM HeaderRoundTrip ==
  \A n \in 0 .. max_body_length :
    Accepts(EncodedHeader(n)) /\ DecodedLength(EncodedHeader(n)) = n
PROOF
  <1> SUFFICES ASSUME NEW n \in 0 .. max_body_length
               PROVE  Accepts(EncodedHeader(n)) /\ DecodedLength(EncodedHeader(n)) = n
    OBVIOUS
  <1> DEFINE h == EncodedHeader(n)
             d1 == (n \div 1000) % 10
             d2 == (n \div 100) % 10
             d3 == (n \div 10) % 10
             d4 == (n \div 1) % 10
  <1>1. n \in Nat /\ n <= 9999 /\ n <= max_body_length /\ max_body_length \in Nat
    BY MaxBodyAssumption
  <1>2. d1 \in 0 .. 9 /\ d2 \in 0 .. 9 /\ d3 \in 0 .. 9 /\ d4 \in 0 .. 9
    BY <1>1
  <1>3. /\ n = 1000 * d1 + 100 * d2 + 10 * d3 + d4
        /\ n < 1000 => d1 = 0
        /\ n < 100 => d2 = 0
        /\ n < 10 => d3 = 0
    BY <1>1
  <1>4. /\ h[1] = IF n < 1000 THEN Blank ELSE Digit[d1]
        /\ h[2] = IF n < 100 THEN Blank ELSE Digit[d2]
        /\ h[3] = IF n < 10 THEN Blank ELSE Digit[d3]
        /\ h[4] = Digit[d4]
    <2> DEFINE g(i) == Digit[(n \div Power[i]) % 10]
               b(i) == n < Power[i]
    <2>1. \A i \in 1 .. 4 : h[i] = IF b(i) /\ i < 4 THEN Blank ELSE g(i)
      BY DEF EncodedHeader, header_length
    <2>2. g(1) = Digit[d1] /\ g(2) = Digit[d2] /\ g(3) = Digit[d3] /\ g(4) = Digit[d4]
      BY DEF Power
    <2>3. (b(1) <=> n < 1000) /\ (b(2) <=> n < 100) /\ (b(3) <=> n < 10)
      BY DEF Power
    <2> HIDE DEF h, g, b, d1, d2, d3, d4
    <2>4. /\ h[1] = IF b(1) THEN Blank ELSE g(1)
          /\ h[2] = IF b(2) THEN Blank ELSE g(2)
          /\ h[3] = IF b(3) THEN Blank ELSE g(3)
          /\ h[4] = g(4)
      BY <2>1
    <2> QED BY <2>2, <2>3, <2>4
  <1>5. Atoi(h) = Number(n)
    <2> DEFINE a1 == Scan(Start, h[1])
               a2 == Scan(a1, h[2])
               a3 == Scan(a2, h[3])
    <2>1. Atoi(h) = Scan(a3, h[4])
      BY DEF Atoi, Start
    <2> HIDE DEF h, d1, d2, d3, d4
    <2>2. a1 = IF n < 1000 THEN Start ELSE Number(d1)
      BY <1>1, <1>2, <1>4, ScanBlank, ScanFirstDigit
    <2> HIDE DEF a1
    <2>3. a2 = IF n < 100 THEN Start ELSE Number(10 * d1 + d2)
      <3>1. CASE n < 100
        BY <1>1, <1>4, <2>2, <3>1, ScanBlank
      <3>2. CASE 100 <= n /\ n < 1000
        <4>1. a2 = Number(d2)
          BY <1>1, <1>2, <1>4, <2>2, <3>2, ScanFirstDigit
        <4>2. 10 * d1 + d2 = d2
          BY <1>1, <1>2, <1>3, <3>2
        <4> QED BY <1>1, <3>2, <4>1, <4>2
      <3>3. CASE 1000 <= n
        <4>1. a1 = Number(d1) /\ d1 \in Nat /\ h[2] = Digit[d2]
          BY <1>1, <1>2, <1>4, <2>2, <3>3
        <4>2. a2 = Number(10 * d1 + d2)
          BY <1>2, <4>1, ScanNextDigit
        <4> QED BY <1>1, <3>3, <4>2
      <3> QED BY <1>1, <3>1, <3>2, <3>3
    <2> HIDE DEF a2
    <2>4. a3 = IF n < 10 THEN Start ELSE Number(10 * (10 * d1 + d2) + d3)
      <3>1. CASE n < 10
        BY <1>1, <1>4, <2>3, <3>1, ScanBlank
      <3>2. CASE 10 <= n /\ n < 100
        <4>1. a3 = Number(d3)
          BY <1>1, <1>2, <1>4, <2>3, <3>2, ScanFirstDigit
        <4>2. 10 * (10 * d1 + d2) + d3 = d3
          BY <1>1, <1>2, <1>3, <3>2
        <4> QED BY <1>1, <3>2, <4>1, <4>2
      <3>3. CASE 100 <= n
        <4> DEFINE v == 10 * d1 + d2
        <4>1. v \in Nat /\ a2 = Number(v) /\ h[3] = Digit[d3]
          BY <1>1, <1>2, <1>4, <2>3, <3>3
        <4> HIDE DEF v
        <4>2. a3 = Number(10 * v + d3)
          BY <1>2, <4>1, ScanNextDigit
        <4> QED BY <1>1, <3>3, <4>2 DEF v
      <3> QED BY <1>1, <3>1, <3>2, <3>3
    <2> HIDE DEF a3
    <2>5. Scan(a3, h[4]) = Number(n)
      <3>1. CASE n < 10
        <4>1. Scan(a3, h[4]) = Number(d4)
          BY <1>1, <1>2, <1>4, <2>4, <3>1, ScanFirstDigit
        <4>2. n = d4
          BY <1>1, <1>2, <1>3, <3>1
        <4> QED BY <4>1, <4>2
      <3>2. CASE 10 <= n
        <4> DEFINE v == 10 * (10 * d1 + d2) + d3
        <4>1. v \in Nat /\ 10 * v + d4 = n
          BY <1>2, <1>3
        <4>2. a3 = Number(v)
          BY <1>1, <2>4, <3>2
        <4> HIDE DEF v
        <4>3. Scan(a3, h[4]) = Number(10 * v + d4)
          BY <1>2, <1>4, <4>1, <4>2, ScanNextDigit
        <4> QED BY <4>1, <4>3
      <3> QED BY <1>1, <3>1, <3>2
    <2> QED BY <2>1, <2>5
  <1>6. Accepts(h) /\ DecodedLength(h) = n
    <2> HIDE DEF h
    <2> QED BY <1>1, <1>5 DEF Accepts, DecodedLength, Number
  <1> QED BY <1>6

-----------------------------------------------------------------------------
(* The operators of ChatFraming.                                            *)

(* A header is four characters. *)
LEMMA HeaderIs ==
  ASSUME NEW n \in 0 .. max_body_length
  PROVE  EncodedHeader(n) \in Seq(Char) /\ Len(EncodedHeader(n)) = header_length
PROOF
  <1> DEFINE h == EncodedHeader(n)
  <1>1. Blank \in Char /\ \A d \in 0 .. 9 : Digit[d] \in Char
    BY DigitRoundTrip DEF Char, Space
  <1>2. \A i \in 1 .. 4 : Power[i] \in Nat \ {0}
    BY DEF Power
  <1>3. n \in Nat
    BY MaxBodyAssumption
  <1>4. \A i \in 1 .. 4 : h[i] \in Char
    <2> SUFFICES ASSUME NEW i \in 1 .. 4 PROVE h[i] \in Char
      OBVIOUS
    <2>1. (n \div Power[i]) % 10 \in 0 .. 9
      BY <1>2, <1>3
    <2>2. h[i] = IF n < Power[i] /\ i < 4 THEN Blank
                 ELSE Digit[(n \div Power[i]) % 10]
      BY DEF EncodedHeader, header_length
    <2> HIDE DEF h
    <2> QED BY <1>1, <2>1, <2>2
  <1> QED BY <1>4 DEF EncodedHeader, header_length

(* strlen() stops at the first NUL, or at the end of the line. *)
LEMMA StrlenIs ==
  ASSUME NEW l \in Seq(Char)
  PROVE  /\ Strlen(l) \in 0 .. Len(l)
         /\ \A i \in 1 .. Strlen(l) : l[i] # "nul"
         /\ Strlen(l) = Len(l) \/ l[Strlen(l) + 1] = "nul"
PROOF
  <1>1. Len(l) \in Nat /\ DOMAIN l = 1 .. Len(l)
    BY LenProperties
  <1>2. CASE \A i \in DOMAIN l : l[i] # "nul"
    <2>1. Strlen(l) = Len(l)
      BY <1>2 DEF Strlen
    <2> QED BY <1>1, <1>2, <2>1
  <1>3. CASE \E i \in DOMAIN l : l[i] = "nul"
    <2> DEFINE T == {i \in DOMAIN l : l[i] = "nul"}
               R == OpToRel(<, Nat)
               first == CHOOSE i \in DOMAIN l :
                          l[i] = "nul" /\ \A j \in 1 .. i - 1 : l[j] # "nul"
    <2>1. T \subseteq Nat /\ T # {}
      BY <1>1, <1>3
    <2>2. PICK x \in T : \A y \in T : ~(<<y, x>> \in R)
      <3> HIDE DEF T, R
      <3> QED BY <2>1, NatLessThanWellFounded, WFMin DEF R
    <2>3. \A y \in T : ~(y < x)
      BY <2>1, <2>2 DEF OpToRel
    <2>4. x \in 1 .. Len(l) /\ l[x] = "nul" /\ \A j \in 1 .. x - 1 : l[j] # "nul"
      BY <1>1, <2>3
    <2>5. first \in DOMAIN l /\ l[first] = "nul" /\ \A j \in 1 .. first - 1 : l[j] # "nul"
      BY <1>1, <2>4
    <2>6. Strlen(l) = first - 1
      BY <1>3 DEF Strlen
    <2> HIDE DEF first
    <2> QED BY <1>1, <2>5, <2>6
  <1> QED BY <1>2, <1>3

(* The first n characters of a line. *)
LEMMA FrontIs ==
  ASSUME NEW l \in Seq(Char), NEW n \in Nat, n <= Len(l)
  PROVE  /\ SubSeq(l, 1, n) \in Seq(Char)
         /\ Len(SubSeq(l, 1, n)) = n
         /\ \A i \in 1 .. n : SubSeq(l, 1, n)[i] = l[i]
PROOF
  <1> DEFINE b == SubSeq(l, 1, n)
  <1>1. /\ b \in Seq(Char)
        /\ Len(b) = IF 1 <= n THEN n - 1 + 1 ELSE 0
        /\ \A k \in 1 .. (n - 1 + 1) : b[k] = l[1 + k - 1]
    <2>1. \A k \in 1 .. n : l[k] \in Char
      BY ElementOfSeq, LenProperties
    <2> QED BY <2>1, SubSeqProperties
  <1> HIDE DEF b
  <1>2. b \in Seq(Char) /\ Len(b) = n /\ \A i \in 1 .. n : b[i] = l[i]
    BY <1>1
  <1> QED BY <1>2 DEF b

(* The length a line is sent with, and the frame that carries it.           *)
SentLength(l) == Clamped(Strlen(l))

LEMMA FrameIs ==
  ASSUME NEW l \in Seq(Char)
  PROVE  /\ SentLength(l) \in 0 .. max_body_length
         /\ SentLength(l) <= Len(l)
         /\ Frame(l) \in Seq(Char)
         /\ Len(Frame(l)) = header_length + SentLength(l)
         /\ \A i \in 1 .. header_length : Frame(l)[i] = EncodedHeader(SentLength(l))[i]
         /\ \A i \in 1 .. SentLength(l) : Frame(l)[header_length + i] = l[i]
PROOF
  <1> DEFINE n == SentLength(l)
             h == EncodedHeader(n)
             b == SubSeq(l, 1, n)
  <1>1. Len(l) \in Nat /\ Strlen(l) \in 0 .. Len(l)
    BY LenProperties, StrlenIs
  <1>2. n \in 0 .. max_body_length /\ n <= Len(l)
    BY <1>1, MaxBodyAssumption DEF SentLength, Clamped
  <1>3. h \in Seq(Char) /\ Len(h) = header_length
    BY <1>2, HeaderIs
  <1>4. n \in Nat
    BY <1>2, MaxBodyAssumption
  <1>5. b \in Seq(Char) /\ Len(b) = n /\ \A i \in 1 .. n : b[i] = l[i]
    BY <1>2, <1>4, FrontIs
  <1>6. Frame(l) = h \o b
    BY DEF Frame, SentLength
  <1> HIDE DEF n, h, b
  <1>7. /\ h \o b \in Seq(Char)
        /\ Len(h \o b) = header_length + n
        /\ \A i \in 1 .. header_length + n : (h \o b)[i] =
             IF i <= header_length THEN h[i] ELSE b[i - header_length]
    BY <1>3, <1>5, ConcatProperties
  <1>8. \A i \in 1 .. header_length : (h \o b)[i] = h[i]
    BY <1>4, <1>7 DEF header_length
  <1>9. \A i \in 1 .. n : (h \o b)[header_length + i] = l[i]
    BY <1>4, <1>5, <1>7 DEF header_length
  <1> QED BY <1>2, <1>6, <1>7, <1>8, <1>9 DEF n, h

(* What arrives of a piece is within the piece, what is asked for, and what *)
(* was sent.                                                                *)
LEMMA LeastOfThree ==
  ASSUME NEW a \in Int, NEW b \in Int, NEW c \in Int
  PROVE  /\ Min({a, b, c}) \in Int
         /\ Min({a, b, c}) <= a /\ Min({a, b, c}) <= b /\ Min({a, b, c}) <= c
PROOF
  <1> DEFINE S == {a, b, c}
  <1>1. \E x \in S : \A y \in S : x <= y
    OBVIOUS
  <1>2. Min(S) \in S /\ \A y \in S : Min(S) <= y
    BY <1>1 DEF Min
  <1> QED BY <1>2

(* Moving the first n of s to the end of q leaves q \o s as it was. *)
LEMMA MoveStretch ==
  ASSUME NEW S, NEW q \in Seq(S), NEW s \in Seq(S), NEW n \in 0 .. Len(s)
  PROVE  /\ q \o SubSeq(s, 1, n) \in Seq(S)
         /\ SubSeq(s, n + 1, Len(s)) \in Seq(S)
         /\ Len(q \o SubSeq(s, 1, n)) = Len(q) + n
         /\ (q \o SubSeq(s, 1, n)) \o SubSeq(s, n + 1, Len(s)) = q \o s
PROOF
  <1> DEFINE a == SubSeq(s, 1, n)
             b == SubSeq(s, n + 1, Len(s))
  <1>1. Len(s) \in Nat /\ Len(q) \in Nat /\ n \in Nat
    BY LenProperties
  <1>7. \A k \in 1 .. Len(s) : s[k] \in S
    BY <1>1, ElementOfSeq
  <1>2. a \in Seq(S) /\ Len(a) = n
    <2>1. \A k \in 1 .. n : s[k] \in S
      BY <1>1, <1>7
    <2> QED BY <1>1, <2>1, SubSeqProperties
  <1>3. b \in Seq(S)
    <2>1. \A k \in n + 1 .. Len(s) : s[k] \in S
      BY <1>1, <1>7
    <2> QED BY <1>1, <2>1, SubSeqProperties
  <1>4. a \o b = s
    <2>1. 1 \in 1 .. Len(s) + 1 /\ n \in 1 - 1 .. Len(s) /\ Len(s) \in n .. Len(s)
      BY <1>1
    <2>2. SubSeq(s, 1, n) \o SubSeq(s, n + 1, Len(s)) = SubSeq(s, 1, Len(s))
      BY <2>1, ConcatAdjacentSubSeq
    <2> QED BY <2>2, SubSeqFull
  <1> HIDE DEF a, b
  <1>5. q \o a \in Seq(S) /\ Len(q \o a) = Len(q) + n
    BY <1>2, ConcatProperties
  <1>6. (q \o a) \o b = q \o (a \o b)
    BY <1>2, <1>3, ConcatAssociative, SMTT(30)
  <1> QED BY <1>3, <1>4, <1>5, <1>6 DEF a, b

(* Putting s into d after place at changes those places and no others. *)
PutInto(e, S, z, d, s, at) ==
  /\ e \in [1 .. z -> S]
  /\ \A i \in 1 .. z :
       e[i] = IF at < i /\ i <= at + Len(s) THEN s[i - at] ELSE d[i]
LEMMA Overwrite ==
  ASSUME NEW S, NEW z \in Nat, NEW d \in [1 .. z -> S], NEW s \in Seq(S),
         NEW at \in Nat, at + Len(s) <= z,
         NEW e, e = SubSeq(d, 1, at) \o s \o SubSeq(d, at + Len(s) + 1, z)
  PROVE  PutInto(e, S, z, d, s, at)
PROOF
  <1> DEFINE n == Len(s)
             a == SubSeq(d, 1, at)
             b == SubSeq(d, at + n + 1, z)
  <1>1. n \in Nat /\ at + n <= z
    BY LenProperties
  <1>2. a \in Seq(S) /\ Len(a) = at /\ \A i \in 1 .. at : a[i] = d[i]
    <2>1. \A i \in 1 .. at : d[i] \in S
      BY <1>1
    <2>2. /\ a \in Seq(S)
          /\ Len(a) = IF 1 <= at THEN at - 1 + 1 ELSE 0
          /\ \A i \in 1 .. at - 1 + 1 : a[i] = d[1 + i - 1]
      BY <2>1, SubSeqProperties
    <2> HIDE DEF a
    <2> QED BY <2>2
  <1>3. b \in Seq(S) /\ Len(b) = z - (at + n) /\ \A i \in 1 .. z - (at + n) : b[i] = d[at + n + i]
    <2> DEFINE m == at + n + 1
    <2>1. m \in Int /\ \A i \in m .. z : d[i] \in S
      BY <1>1
    <2>2. /\ SubSeq(d, m, z) \in Seq(S)
          /\ Len(SubSeq(d, m, z)) = IF m <= z THEN z - m + 1 ELSE 0
          /\ \A i \in 1 .. z - m + 1 : SubSeq(d, m, z)[i] = d[m + i - 1]
      <3> HIDE DEF m
      <3> QED BY <2>1, SubSeqProperties
    <2>3. b = SubSeq(d, m, z)
      OBVIOUS
    <2>4. z - m + 1 = z - (at + n) /\ (IF m <= z THEN z - m + 1 ELSE 0) = z - (at + n)
      BY <1>1
    <2>5. ASSUME NEW i \in 1 .. z - (at + n) PROVE m + i - 1 = at + n + i
      BY <1>1
    <2> HIDE DEF m, b
    <2> QED BY <2>2, <2>3, <2>4, <2>5
  <1> HIDE DEF n, a, b
  <1>4. /\ a \o s \in Seq(S) /\ Len(a \o s) = at + n
        /\ \A i \in 1 .. at + n : (a \o s)[i] = IF i <= at THEN a[i] ELSE s[i - at]
    BY <1>2, ConcatProperties DEF n
  <1> DEFINE c == a \o s
  <1>5. /\ e \in Seq(S) /\ Len(e) = (at + n) + (z - (at + n))
        /\ \A i \in 1 .. (at + n) + (z - (at + n)) :
             e[i] = IF i <= at + n THEN c[i] ELSE b[i - (at + n)]
    <2>1. c \in Seq(S) /\ b \in Seq(S) /\ Len(c) = at + n /\ Len(b) = z - (at + n)
      BY <1>3, <1>4
    <2> HIDE DEF c
    <2>2. /\ c \o b \in Seq(S) /\ Len(c \o b) = Len(c) + Len(b)
          /\ \A i \in 1 .. Len(c) + Len(b) :
               (c \o b)[i] = IF i <= Len(c) THEN c[i] ELSE b[i - Len(c)]
      BY <2>1, ConcatProperties
    <2>3. e = c \o b
      BY DEF a, b, c, n
    <2> QED BY <2>1, <2>2, <2>3, Zenon
  <1>6. (at + n) + (z - (at + n)) = z
    BY <1>1
  <1> HIDE DEF c
  <1>7. e \in [1 .. z -> S]
    BY <1>5, <1>6, LenProperties
  <1>8. ASSUME NEW i \in 1 .. z
        PROVE  e[i] = IF at < i /\ i <= at + n THEN s[i - at] ELSE d[i]
    <2>1. e[i] = IF i <= at + n THEN c[i] ELSE b[i - (at + n)]
      BY <1>5, <1>6
    <2>2. CASE i <= at
      <3>1. i \in 1 .. at + n /\ i \in 1 .. at /\ i <= at + n /\ ~(at < i)
        BY <1>1, <2>2
      <3>2. c[i] = a[i] /\ a[i] = d[i]
        BY <1>2, <1>4, <3>1 DEF c
      <3> QED BY <2>1, <3>1, <3>2, Zenon
    <2>3. CASE at < i /\ i <= at + n
      <3>1. i \in 1 .. at + n /\ ~(i <= at)
        BY <1>1, <2>3
      <3>2. c[i] = s[i - at]
        BY <1>4, <3>1 DEF c
      <3> QED BY <2>1, <2>3, <3>2
    <2>4. CASE at + n < i
      <3> DEFINE j == i - (at + n)
      <3>1. j \in 1 .. z - (at + n) /\ at + n + j = i /\ ~(i <= at + n)
        BY <1>1, <2>4
      <3> HIDE DEF j
      <3>2. b[j] = d[at + n + j]
        BY <1>3, <3>1
      <3>3. b[i - (at + n)] = d[i]
        BY <3>1, <3>2 DEF j
      <3>4. ~(at < i /\ i <= at + n)
        BY <3>1
      <3> QED BY <2>1, <3>1, <3>3, <3>4, Zenon
    <2>5. i <= at \/ (at < i /\ i <= at + n) \/ at + n < i
      BY <1>1
    <2> QED BY <2>2, <2>3, <2>4, <2>5, Zenon
  <1> QED BY <1>7, <1>8 DEF n, PutInto

-----------------------------------------------------------------------------
(* Where the frames are in the bytes that were sent and not dealt with.     *)

(* at[k] is where the frame of line k ends in q, and at[r] is where the     *)
(* first one begins: before q, once some of it was dealt with.              *)
Cut(at, r, ls, q) ==
  /\ at[Len(ls)] = Len(q)
  /\ \A k \in r .. Len(ls) : at[k] <= Len(q)
  /\ \A k \in r + 1 .. Len(ls) :
       /\ at[k] = at[k - 1] + Len(Frame(ls[k]))
       /\ \A i \in 1 .. Len(Frame(ls[k])) :
            at[k - 1] + i \in 1 .. Len(q) => q[at[k - 1] + i] = Frame(ls[k])[i]

(* The frame of one more line goes after the others. *)
LEMMA CutGrows ==
  ASSUME NEW ls \in Seq(Seq(Char)), NEW r \in 0 .. Len(ls), NEW q \in Seq(Char),
         NEW at \in [r .. Len(ls) -> Int], Cut(at, r, ls, q),
         NEW l \in Seq(Char)
  PROVE  \E at1 \in [r .. Len(Append(ls, l)) -> Int] :
           Cut(at1, r, Append(ls, l), q \o Frame(l)) /\ at1[r] = at[r]
PROOF
  <1> DEFINE n == Len(ls)
             f == Frame(l)
             ls1 == Append(ls, l)
             q1 == q \o f
             at1 == [k \in r .. Len(ls1) |-> IF k <= n THEN at[k] ELSE Len(q1)]
  <1>1. /\ n \in Nat /\ r \in Nat /\ r <= n /\ Len(q) \in Nat
        /\ Len(ls1) = n + 1 /\ ls1[n + 1] = l /\ \A k \in 1 .. n : ls1[k] = ls[k]
    BY LenProperties, AppendProperties
  <1>2. f \in Seq(Char) /\ Len(f) \in Nat
    BY FrameIs, LenProperties
  <1>3. /\ Len(q1) = Len(q) + Len(f)
        /\ \A i \in 1 .. Len(q) : q1[i] = q[i]
        /\ \A i \in 1 .. Len(f) : q1[Len(q) + i] = f[i]
    <2> HIDE DEF f
    <2>1. /\ Len(q1) = Len(q) + Len(f)
          /\ \A i \in 1 .. Len(q) + Len(f) :
               q1[i] = IF i <= Len(q) THEN q[i] ELSE f[i - Len(q)]
      BY <1>2, ConcatProperties
    <2> HIDE DEF q1
    <2>2. \A i \in 1 .. Len(q) : q1[i] = q[i]
      BY <1>1, <1>2, <2>1
    <2>3. ASSUME NEW i \in 1 .. Len(f) PROVE q1[Len(q) + i] = f[i]
      <3>1. /\ Len(q) + i \in 1 .. Len(q) + Len(f)
            /\ ~(Len(q) + i <= Len(q)) /\ (Len(q) + i) - Len(q) = i
        BY <1>1, <1>2
      <3> QED BY <2>1, <3>1
    <2> QED BY <2>1, <2>2, <2>3
  <1>4. /\ at[n] = Len(q)
        /\ \A k \in r .. n : at[k] \in Int /\ at[k] <= Len(q)
        /\ \A k \in r + 1 .. n :
             /\ at[k] = at[k - 1] + Len(Frame(ls[k]))
             /\ \A i \in 1 .. Len(Frame(ls[k])) :
                  at[k - 1] + i \in 1 .. Len(q) => q[at[k - 1] + i] = Frame(ls[k])[i]
    BY DEF Cut
  <1>5. /\ at1 \in [r .. n + 1 -> Int]
        /\ \A k \in r .. n : at1[k] = at[k]
        /\ at1[n + 1] = Len(q1)
    <2> HIDE DEF q1, f
    <2>1. Len(q1) \in Int /\ n + 1 \in r .. n + 1 /\ ~(n + 1 <= n)
      BY <1>1, <1>2, <1>3
    <2>2. \A k \in r .. n : k \in r .. n + 1 /\ k <= n /\ at[k] \in Int
      BY <1>1, <1>4
    <2>3. \A k \in r .. n + 1 : k <= n => k \in r .. n
      BY <1>1
    <2>4. at1 = [k \in r .. n + 1 |-> IF k <= n THEN at[k] ELSE Len(q1)]
      BY <1>1
    <2> HIDE DEF at1
    <2> QED BY <2>1, <2>2, <2>3, <2>4
  <1> HIDE DEF n, f, ls1, q1, at1
  <1>6. ASSUME NEW k \in r .. n + 1 PROVE at1[k] <= Len(q1)
    <2>1. CASE k \in r .. n
      <3>1. at1[k] = at[k] /\ at[k] \in Int /\ at[k] <= Len(q)
        BY <1>4, <1>5, <2>1
      <3>2. Len(q) <= Len(q1) /\ Len(q1) \in Nat
        BY <1>1, <1>2, <1>3
      <3> QED BY <1>1, <3>1, <3>2
    <2>2. CASE k = n + 1
      BY <1>1, <1>2, <1>3, <1>5, <2>2
    <2> QED BY <1>1, <2>1, <2>2
  <1>7. ASSUME NEW k \in r + 1 .. n + 1
        PROVE  /\ at1[k] = at1[k - 1] + Len(Frame(ls1[k]))
               /\ \A i \in 1 .. Len(Frame(ls1[k])) :
                    at1[k - 1] + i \in 1 .. Len(q1)
                      => q1[at1[k - 1] + i] = Frame(ls1[k])[i]
    <2>1. CASE k \in r + 1 .. n
      <3>1. k \in r .. n /\ k - 1 \in r .. n /\ k \in 1 .. n
        BY <1>1, <2>1
      <3>2. at1[k] = at[k] /\ at1[k - 1] = at[k - 1] /\ ls1[k] = ls[k]
        BY <1>1, <1>5, <3>1
      <3> DEFINE g == Frame(ls[k])
      <3>3. g \in Seq(Char) /\ Len(g) \in Nat
        <4>1. ls[k] \in Seq(Char)
          BY <3>1, ElementOfSeq DEF n
        <4> QED BY <4>1, FrameIs, LenProperties
      <3>4. /\ at[k] = at[k - 1] + Len(g)
            /\ \A i \in 1 .. Len(g) : at[k - 1] + i \in 1 .. Len(q) => q[at[k - 1] + i] = g[i]
        BY <1>4, <2>1
      <3>5. at[k] \in Int /\ at[k - 1] \in Int /\ at[k] <= Len(q)
        BY <1>4, <3>1
      <3> HIDE DEF g
      <3>6. ASSUME NEW i \in 1 .. Len(g), at[k - 1] + i \in 1 .. Len(q1)
            PROVE  q1[at[k - 1] + i] = g[i]
        <4>1. at[k - 1] + i <= at[k] /\ at[k - 1] + i \in Int
          BY <3>3, <3>4, <3>5
        <4>2. 1 <= at[k - 1] + i
          BY <3>6
        <4>3. at[k - 1] + i \in 1 .. Len(q)
          BY <1>1, <3>5, <4>1, <4>2, SMTT(30)
        <4> QED BY <1>3, <3>4, <4>3
      <3>7. Frame(ls1[k]) = g
        BY <3>2 DEF g
      <3> QED BY <3>2, <3>4, <3>6, <3>7
    <2>2. CASE k = n + 1
      <3>1. k - 1 = n /\ n \in r .. n
        <4>1. r \in Nat /\ n \in Nat /\ r <= n
          BY <1>1
        <4>2. n \in r .. n
          BY <4>1
        <4>3. k - 1 = n
          BY <2>2, <4>1
        <4> QED BY <4>2, <4>3
      <3>2. at1[k] = Len(q1) /\ at1[k - 1] = Len(q) /\ ls1[k] = l
        BY <1>1, <1>4, <1>5, <2>2, <3>1
      <3>3. Frame(ls1[k]) = f
        BY <3>2 DEF f
      <3> QED BY <1>3, <3>2, <3>3
    <2> QED BY <1>1, <2>1, <2>2
  <1>8. Cut(at1, r, ls1, q1)
    BY <1>1, <1>5, <1>6, <1>7 DEF Cut
  <1>9. at1[r] = at[r]
    BY <1>1, <1>5
  <1>10. at1 \in [r .. Len(ls1) -> Int]
    BY <1>1, <1>5
  <1> QED BY <1>8, <1>9, <1>10 DEF q1, ls1, f

(* The first bytes are dealt with: a header, or a body and with it its line. *)
LEMMA CutShrinks ==
  ASSUME NEW ls \in Seq(Seq(Char)), NEW r \in 0 .. Len(ls),
         NEW p \in Seq(Char), NEW s \in Seq(Char),
         NEW at \in [r .. Len(ls) -> Int], Cut(at, r, ls, p \o s),
         NEW r1 \in r .. Len(ls)
  PROVE  \E at1 \in [r1 .. Len(ls) -> Int] :
           Cut(at1, r1, ls, s) /\ at1[r1] = at[r1] - Len(p)
PROOF
  <1> DEFINE n == Len(ls)
             q == p \o s
             at1 == [k \in r1 .. n |-> at[k] - Len(p)]
  <1>1. n \in Nat /\ r \in Nat /\ r1 \in Nat /\ r1 <= n /\ r <= r1 /\ Len(p) \in Nat /\ Len(s) \in Nat
    BY LenProperties
  <1>2. /\ Len(q) = Len(p) + Len(s)
        /\ \A i \in 1 .. Len(s) : q[Len(p) + i] = s[i]
    <2>1. /\ Len(q) = Len(p) + Len(s)
          /\ \A i \in 1 .. Len(p) + Len(s) :
               q[i] = IF i <= Len(p) THEN p[i] ELSE s[i - Len(p)]
      BY ConcatProperties
    <2> HIDE DEF q
    <2>2. ASSUME NEW i \in 1 .. Len(s) PROVE q[Len(p) + i] = s[i]
      <3>1. /\ Len(p) + i \in 1 .. Len(p) + Len(s)
            /\ ~(Len(p) + i <= Len(p)) /\ (Len(p) + i) - Len(p) = i
        BY <1>1
      <3> QED BY <2>1, <3>1
    <2> QED BY <2>1, <2>2
  <1>3. /\ at[n] = Len(q)
        /\ \A k \in r .. n : at[k] \in Int /\ at[k] <= Len(q)
        /\ \A k \in r + 1 .. n :
             /\ at[k] = at[k - 1] + Len(Frame(ls[k]))
             /\ \A i \in 1 .. Len(Frame(ls[k])) :
                  at[k - 1] + i \in 1 .. Len(q) => q[at[k - 1] + i] = Frame(ls[k])[i]
    BY DEF Cut
  <1>4. \A k \in r1 .. n : k \in r .. n /\ at1[k] = at[k] - Len(p)
    BY <1>1
  <1>5. at1 \in [r1 .. n -> Int]
    BY <1>1, <1>3, <1>4
  <1> HIDE DEF n, q, at1
  <1>6. n \in r1 .. n /\ r1 \in r1 .. n
    BY <1>1 DEF n
  <1>7. at1[n] = Len(s) /\ \A k \in r1 .. n : at1[k] <= Len(s)
    <2>1. at1[n] = Len(s)
      BY <1>1, <1>2, <1>3, <1>4, <1>6
    <2>2. ASSUME NEW k \in r1 .. n PROVE at1[k] <= Len(s)
      <3>1. k \in r .. n /\ at1[k] = at[k] - Len(p)
        BY <1>4
      <3>2. at[k] \in Int /\ at[k] <= Len(q)
        BY <1>3, <3>1
      <3> QED BY <1>1, <1>2, <3>1, <3>2
    <2> QED BY <2>1, <2>2
  <1>8. ASSUME NEW k \in r1 + 1 .. n
        PROVE  /\ at1[k] = at1[k - 1] + Len(Frame(ls[k]))
               /\ \A i \in 1 .. Len(Frame(ls[k])) :
                    at1[k - 1] + i \in 1 .. Len(s)
                      => s[at1[k - 1] + i] = Frame(ls[k])[i]
    <2>1. k \in r1 .. n /\ k - 1 \in r1 .. n /\ k \in r + 1 .. n /\ k \in 1 .. n
      BY <1>1
    <2> DEFINE g == Frame(ls[k])
    <2>2. g \in Seq(Char) /\ Len(g) \in Nat
      <3>1. ls[k] \in Seq(Char)
        BY <2>1, ElementOfSeq DEF n
      <3> QED BY <3>1, FrameIs, LenProperties
    <2>3. /\ at[k] = at[k - 1] + Len(g)
          /\ \A i \in 1 .. Len(g) : at[k - 1] + i \in 1 .. Len(q) => q[at[k - 1] + i] = g[i]
      BY <1>3, <2>1
    <2>4. /\ at1[k] = at[k] - Len(p) /\ at1[k - 1] = at[k - 1] - Len(p)
          /\ at[k] \in Int /\ at[k - 1] \in Int
      BY <1>3, <1>4, <2>1
    <2> HIDE DEF g
    <2>5. at1[k] = at1[k - 1] + Len(g)
      BY <1>1, <2>2, <2>3, <2>4
    <2>6. ASSUME NEW i \in 1 .. Len(g), at1[k - 1] + i \in 1 .. Len(s)
          PROVE  s[at1[k - 1] + i] = g[i]
      <3>1. at[k - 1] + i = Len(p) + (at1[k - 1] + i)
        BY <1>1, <2>2, <2>4
      <3>2. at[k - 1] + i \in 1 .. Len(q)
        BY <1>1, <1>2, <2>6, <3>1
      <3> QED BY <1>2, <2>3, <2>6, <3>1, <3>2
    <2> QED BY <2>5, <2>6 DEF g
  <1>9. Cut(at1, r1, ls, s)
    BY <1>7, <1>8 DEF Cut, n
  <1> QED BY <1>4, <1>5, <1>6, <1>9 DEF n

-----------------------------------------------------------------------------
(* The invariant. *)

(* No header is refused. *)
NotRefused == reading # "closed"

(* What the pending read has so far: of a message before nothing. *)
have == [i \in 1 .. got |-> data_[Offset + i]]

(* All of it was sent; what is left in data_ since it was made is not read. *)
Filled == \A i \in 1 .. got : data_[Offset + i] \in Char

(* A read takes no more than it asked for. *)
WithinRead == got <= Wanted

(* What getline accepted fits the buffer. *)
TypedFit == \A i \in 1 .. Len(typed) : Fits(typed[i])

(* While a body is read it is the one of the next line, and as long.        *)
BodyIsDue ==
  reading = "body" => /\ Len(received) < Len(typed)
                      /\ body_length_ = SentLength(typed[Len(received) + 1])

(* What was delivered are the lines, each up to the length it was sent with. *)
Delivered ==
  /\ Len(received) <= Len(typed)
  /\ \A i \in 1 .. Len(received) :
       received[i] = SubSeq(typed[i], 1, SentLength(typed[i]))

(* The bytes on their way are the frames of the lines not delivered; of the *)
(* first the header is missing while its body is read.                      *)
FramesInTransit ==
  \E at \in [Len(received) .. Len(typed) -> Int] :
    /\ Cut(at, Len(received), typed, have \o stream)
    /\ reading = "header" => at[Len(received)] = 0
    /\ reading = "body" => at[Len(received)] = -header_length

Inv ==
  /\ TypeOK
  /\ NotRefused
  /\ Filled
  /\ WithinRead
  /\ TypedFit
  /\ BodyIsDue
  /\ Delivered
  /\ FramesInTransit

LEMMA InvHoldsInitially == Init => Inv
PROOF
  <1> SUFFICES ASSUME Init PROVE Inv
    OBVIOUS
  <1>1. /\ typed = <<>> /\ received = <<>> /\ stream = <<>> /\ got = 0
        /\ data_ = [i \in 1 .. Size |-> Unset]
        /\ reading = "header" /\ body_length_ = 0 /\ typing = TRUE
    BY DEF Init
  <1>10. have = <<>>
    BY <1>1 DEF have
  <1>2. \A S : <<>> \in Seq(S)
    BY EmptySeq
  <1>3. Len(<<>>) = 0
    BY EmptySeq
  <1>4. TypeOK
    BY <1>1, <1>2, MaxBodyAssumption DEF TypeOK
  <1>5. NotRefused /\ Filled
    BY <1>1 DEF NotRefused, Filled
  <1>6. WithinRead
    <2>1. Wanted = header_length
      BY <1>1 DEF Wanted
    <2> QED BY <1>1, <1>3, <2>1 DEF WithinRead, header_length
  <1>7. TypedFit /\ Delivered
    BY <1>1, <1>3 DEF TypedFit, Delivered
  <1>8. BodyIsDue
    BY <1>1 DEF BodyIsDue
  <1>9. FramesInTransit
    <2> DEFINE at == [k \in 0 .. 0 |-> 0]
    <2>1. have \o stream = <<>>
      BY <1>1, <1>2, <1>10, ConcatEmptySeq
    <2>2. at \in [0 .. 0 -> Int] /\ at[0] = 0
      OBVIOUS
    <2> HIDE DEF at
    <2>3. Cut(at, 0, <<>>, <<>>)
      BY <1>3, <2>2 DEF Cut
    <2> QED BY <1>1, <1>3, <2>1, <2>2, <2>3 DEF FramesInTransit
  <1> QED BY <1>4, <1>5, <1>6, <1>7, <1>8, <1>9 DEF Inv

LEMMA HaveIs ==
  ASSUME TypeOK, Filled
  PROVE  have \in Seq(Char) /\ Len(have) = got
PROOF
  <1>1. got \in Nat
    BY DEF TypeOK
  <1>2. have \in Seq(Char)
    BY <1>1, IsASeq DEF Filled, have
  <1>3. DOMAIN have = 1 .. got
    BY DEF have
  <1> QED BY <1>1, <1>2, <1>3, LenProperties

(* The types, as the sequence theorems want them. *)
LEMMA Types ==
  ASSUME TypeOK, Filled
  PROVE  /\ typed \in Seq(Seq(Char)) /\ Len(typed) \in Nat
         /\ received \in Seq(Seq(Char)) /\ Len(received) \in Nat
         /\ have \in Seq(Char) /\ Len(have) \in Nat /\ Len(have) = got
         /\ stream \in Seq(Char) /\ Len(stream) \in Nat
         /\ have \o stream \in Seq(Char)
         /\ Len(have \o stream) = Len(have) + Len(stream)
         /\ \A i \in 1 .. Len(have) : (have \o stream)[i] = have[i]
PROOF
  <1>1. typed \in Seq(Seq(Char))
    BY LineAssumption, SeqMonotonic DEF TypeOK
  <1>2. /\ received \in Seq(Seq(Char)) /\ stream \in Seq(Char)
        /\ have \in Seq(Char) /\ Len(have) = got
    BY HaveIs DEF TypeOK
  <1>3. /\ Len(typed) \in Nat /\ Len(received) \in Nat
        /\ Len(have) \in Nat /\ Len(stream) \in Nat
    BY <1>1, <1>2, LenProperties
  <1>4. /\ have \o stream \in Seq(Char)
        /\ Len(have \o stream) = Len(have) + Len(stream)
        /\ \A i \in 1 .. Len(have) + Len(stream) : (have \o stream)[i] =
             IF i <= Len(have) THEN have[i] ELSE stream[i - Len(have)]
    BY <1>2, ConcatProperties
  <1>5. \A i \in 1 .. Len(have) : (have \o stream)[i] = have[i]
    BY <1>3, <1>4
  <1> QED BY <1>1, <1>2, <1>3, <1>4, <1>5

LEMMA GetLineKeeps ==
  ASSUME Inv, NEW l \in Line, GetLine(l)
  PROVE  Inv'
PROOF
  <1> USE DEF Inv
  <1>1. l \in Seq(Char) /\ Fits(l)
    BY LineAssumption DEF GetLine
  <1> DEFINE r == Len(received)
             n == Len(typed)
  <1>2. /\ typed \in Seq(Seq(Char)) /\ n \in Nat /\ r \in Nat /\ r <= n
        /\ have \in Seq(Char) /\ stream \in Seq(Char) /\ have \o stream \in Seq(Char)
    BY Types DEF Delivered
  <1>3. /\ typed' = Append(typed, l) /\ stream' = stream \o Frame(l)
        /\ got' = got /\ data_' = data_ /\ reading' = reading /\ typing' = typing
        /\ body_length_' = body_length_ /\ received' = received /\ have' = have
    BY DEF GetLine, have, Offset
  <1>4. /\ Len(typed') = n + 1 /\ typed'[n + 1] = l
        /\ \A i \in 1 .. n : typed'[i] = typed[i]
    BY <1>1, <1>2, <1>3, AppendProperties
  <1>5. Frame(l) \in Seq(Char)
    BY <1>1, FrameIs
  <1>6. have' \o stream' = (have \o stream) \o Frame(l)
    <2>1. have \o (stream \o Frame(l)) = (have \o stream) \o Frame(l)
      BY <1>2, <1>5, ConcatAssociative, SMTT(30)
    <2> QED BY <1>3, <2>1
  <1>7. TypeOK'
    <2>1. typed' \in Seq(Line)
      BY <1>3, AppendProperties DEF TypeOK
    <2>2. stream' \in Seq(Char)
      BY <1>2, <1>3, <1>5, ConcatProperties
    <2> QED BY <1>3, <2>1, <2>2 DEF TypeOK
  <1>8. NotRefused' /\ Filled' /\ WithinRead'
    BY <1>3 DEF NotRefused, Filled, Offset, WithinRead, Wanted
  <1>9. TypedFit'
    <2>1. \A i \in 1 .. n + 1 : i \in 1 .. n \/ i = n + 1
      BY <1>2
    <2> QED BY <1>1, <1>4, <2>1 DEF TypedFit, Fits
  <1>10. BodyIsDue'
    <2> SUFFICES ASSUME reading' = "body"
                 PROVE  /\ Len(received') < Len(typed')
                        /\ body_length_' = SentLength(typed'[Len(received') + 1])
      BY DEF BodyIsDue
    <2>1. r < n /\ body_length_ = SentLength(typed[r + 1])
      BY <1>3 DEF BodyIsDue
    <2>2. typed'[r + 1] = typed[r + 1] /\ r < n + 1
      BY <1>2, <1>4, <2>1
    <2> QED BY <1>3, <1>4, <2>1, <2>2
  <1>11. Delivered'
    <2>1. \A i \in 1 .. r : i \in 1 .. n /\ received[i] = SubSeq(typed[i], 1, SentLength(typed[i]))
      BY <1>2 DEF Delivered
    <2>2. r <= n + 1
      BY <1>2
    <2> QED BY <1>3, <1>4, <2>1, <2>2 DEF Delivered
  <1>12. FramesInTransit'
    <2>1. PICK at \in [Len(received) .. Len(typed) -> Int] :
            /\ Cut(at, r, typed, have \o stream)
            /\ reading = "header" => at[r] = 0
            /\ reading = "body" => at[r] = -header_length
      BY DEF FramesInTransit
    <2>2. r \in 0 .. Len(typed)
      BY <1>2
    <2>3. PICK at1 \in [r .. Len(Append(typed, l)) -> Int] :
            /\ Cut(at1, r, Append(typed, l), (have \o stream) \o Frame(l))
            /\ at1[r] = at[r]
      <3>1. typed \in Seq(Seq(Char)) /\ l \in Seq(Char)
        BY <1>1, <1>2
      <3>2. PICK q \in Seq(Char) : q = have \o stream
        BY <1>2
      <3>3. Cut(at, r, typed, q)
        BY <2>1, <3>2
      <3> HIDE DEF Inv
      <3>4. \E at1 \in [r .. Len(Append(typed, l)) -> Int] :
              Cut(at1, r, Append(typed, l), q \o Frame(l)) /\ at1[r] = at[r]
        BY <2>2, <3>1, <3>3, CutGrows, ZenonT(60)
      <3> QED BY <3>2, <3>4
    <2>4. at1 \in [r .. Len(typed') -> Int] /\ Cut(at1, r, typed', have' \o stream')
      BY <1>3, <1>6, <2>3
    <2>5. \E b \in [Len(received') .. Len(typed') -> Int] :
            /\ Cut(b, Len(received'), typed', have' \o stream')
            /\ reading' = "header" => b[Len(received')] = 0
            /\ reading' = "body" => b[Len(received')] = -header_length
      <3>1. Len(received') = r
        BY <1>3
      <3>2. /\ reading' = "header" => at1[r] = 0
            /\ reading' = "body" => at1[r] = -header_length
        BY <1>3, <2>1, <2>3
      <3> HIDE DEF Inv
      <3> QED BY <2>4, <3>1, <3>2, Zenon
    <2> QED BY <2>5 DEF FramesInTransit
  <1> QED BY <1>7, <1>8, <1>9, <1>10, <1>11, <1>12

LEMMA GetLineFailsKeeps ==
  ASSUME Inv, NEW l \in Line, GetLineFails(l)
  PROVE  Inv'
PROOF
  <1>1. /\ typing' = FALSE
        /\ UNCHANGED <<typed, stream, reading, got, data_, have, body_length_, received>>
    BY DEF GetLineFails, have, Offset
  <1>2. TypeOK'
    BY <1>1 DEF Inv, TypeOK
  <1>3. NotRefused' /\ Filled' /\ WithinRead' /\ TypedFit' /\ BodyIsDue' /\ Delivered'
    BY <1>1 DEF Inv, NotRefused, Filled, Offset, WithinRead, Wanted, TypedFit, BodyIsDue,
                Delivered
  <1>4. FramesInTransit'
    BY <1>1 DEF Inv, FramesInTransit
  <1> QED BY <1>2, <1>3, <1>4 DEF Inv

LEMMA ArriveKeeps ==
  ASSUME Inv, NEW k \in Piece, Arrive(k)
  PROVE  Inv'
PROOF
  <1> DEFINE n == Min({k, Wanted - got, Len(stream)})
             at == Offset + got
             p == SubSeq(stream, 1, n)
  <1>1. /\ have \in Seq(Char) /\ Len(have) = got /\ got \in Nat
        /\ stream \in Seq(Char) /\ Len(stream) \in Nat
    BY Types DEF Inv
  <1>2. /\ n > 0
        /\ data_' = SubSeq(data_, 1, at) \o p \o SubSeq(data_, at + n + 1, Size)
        /\ got' = got + n
        /\ stream' = SubSeq(stream, n + 1, Len(stream))
        /\ UNCHANGED <<typing, typed, reading, body_length_, received>>
    BY DEF Arrive
  <1>3. /\ Wanted \in Nat /\ Offset \in Nat /\ Offset + Wanted <= Size /\ Size \in Nat
        /\ Wanted' = Wanted /\ Offset' = Offset
    <2>1. body_length_ \in Nat /\ body_length_ <= max_body_length /\ max_body_length \in Nat
      BY MaxBodyAssumption DEF Inv, TypeOK
    <2>2. CASE reading = "header"
      BY <1>2, <2>1, <2>2 DEF Wanted, Offset, Size, header_length
    <2>3. CASE reading # "header"
      BY <1>2, <2>1, <2>3 DEF Wanted, Offset, Size, header_length
    <2> QED BY <2>2, <2>3
  <1>4. n \in Int /\ n <= Wanted - got /\ n <= Len(stream)
    <2>1. k \in Int /\ Wanted - got \in Int /\ Len(stream) \in Int
      BY <1>1, <1>3, LineAssumption
    <2> QED BY <2>1, LeastOfThree
  <1> HIDE DEF n
  <1>5. n \in 0 .. Len(stream) /\ n \in Nat /\ at \in Nat /\ at + n <= Size
    BY <1>1, <1>2, <1>3, <1>4
  <1>6. p \in Seq(Char) /\ Len(p) = n /\ \A i \in 1 .. n : p[i] = stream[i] /\ p[i] \in Char
    <2>1. p \in Seq(Char) /\ Len(p) = n /\ \A i \in 1 .. n : p[i] = stream[i]
      BY <1>1, <1>4, <1>5, FrontIs
    <2>2. \A i \in 1 .. n : p[i] \in Char
      BY <2>1, ElementOfSeq
    <2> QED BY <2>1, <2>2
  <1> HIDE DEF p
  <1>7. /\ data_' \in [1 .. Size -> Char \cup {Unset}]
        /\ \A i \in 1 .. Size :
             data_'[i] = IF at < i /\ i <= at + n THEN p[i - at] ELSE data_[i]
    <2> DEFINE S == Char \cup {Unset}
    <2>1. p \in Seq(S)
      BY <1>6, SeqMonotonic
    <2>2. data_ \in [1 .. Size -> S]
      BY DEF Inv, TypeOK
    <2> HIDE DEF S, at
    <2>3. at + Len(p) <= Size
      BY <1>5, <1>6
    <2>4. at \in Nat /\ Size \in Nat
      BY <1>3, <1>5
    <2>5. data_' = SubSeq(data_, 1, at) \o p \o SubSeq(data_, at + Len(p) + 1, Size)
      BY <1>2, <1>6
    <2>6. /\ data_' \in [1 .. Size -> S]
          /\ \A i \in 1 .. Size :
               data_'[i] = IF at < i /\ i <= at + Len(p) THEN p[i - at] ELSE data_[i]
      <3>1. PutInto(data_', S, Size, data_, p, at)
        BY <2>1, <2>2, <2>3, <2>4, <2>5, Overwrite
      <3> QED BY <3>1 DEF PutInto
    <2> QED BY <1>6, <2>6 DEF S
  <1>8. /\ \A i \in 1 .. got : data_'[Offset + i] = data_[Offset + i]
        /\ \A i \in 1 .. n : data_'[Offset + (got + i)] = p[i]
    <2>1. ASSUME NEW i \in 1 .. got PROVE data_'[Offset + i] = data_[Offset + i]
      <3>1. Offset + i \in 1 .. Size /\ ~(at < Offset + i)
        BY <1>1, <1>3, <1>5
      <3> QED BY <1>7, <3>1
    <2>2. ASSUME NEW i \in 1 .. n PROVE data_'[Offset + (got + i)] = p[i]
      <3> DEFINE j == Offset + (got + i)
      <3>1. j \in 1 .. Size /\ at < j /\ j <= at + n /\ j - at = i
        BY <1>1, <1>3, <1>5
      <3> HIDE DEF j, at
      <3>2. data_'[j] = p[i]
        BY <1>7, <3>1
      <3> QED BY <3>2 DEF j
    <2> QED BY <2>1, <2>2
  <1>9. Filled'
    <2> SUFFICES ASSUME NEW i \in 1 .. got + n PROVE data_'[Offset + i] \in Char
      BY <1>2, <1>3 DEF Filled
    <2>1. CASE i \in 1 .. got
      BY <1>8, <2>1 DEF Inv, Filled
    <2>2. CASE i \in got + 1 .. got + n
      <3>1. i - got \in 1 .. n /\ got + (i - got) = i
        BY <1>1, <1>5, <2>2
      <3> QED BY <1>6, <1>8, <3>1
    <2> QED BY <1>1, <1>5, <2>1, <2>2
  <1>10. have' = have \o p
    <2>1. /\ have \o p \in Seq(Char) /\ Len(have \o p) = got + n
          /\ \A i \in 1 .. got + n : (have \o p)[i] = IF i <= got THEN have[i] ELSE p[i - got]
      BY <1>1, <1>6, ConcatProperties
    <2>2. have' = [i \in 1 .. got + n |-> data_'[Offset + i]]
      BY <1>2, <1>3 DEF have
    <2>3. have \o p = [i \in 1 .. got + n |-> (have \o p)[i]]
      BY <2>1, LenProperties
    <2>4. ASSUME NEW i \in 1 .. got + n PROVE data_'[Offset + i] = (have \o p)[i]
      <3>1. CASE i \in 1 .. got
        <4>1. have[i] = data_[Offset + i]
          BY <3>1 DEF have
        <4>2. i <= got
          BY <1>1, <3>1
        <4> QED BY <1>8, <2>1, <3>1, <4>1, <4>2
      <3>2. CASE i \in got + 1 .. got + n
        <4>1. i - got \in 1 .. n /\ got + (i - got) = i /\ ~(i <= got)
          BY <1>1, <1>5, <3>2
        <4>2. data_'[Offset + (got + (i - got))] = p[i - got]
          BY <1>8, <4>1
        <4>3. (have \o p)[i] = p[i - got]
          BY <2>1, <4>1
        <4> QED BY <4>1, <4>2, <4>3
      <3>3. i \in 1 .. got \/ i \in got + 1 .. got + n
        BY <1>1, <1>5
      <3> QED BY <3>1, <3>2, <3>3, Zenon
    <2> HIDE DEF at
    <2> QED BY <2>2, <2>3, <2>4
  <1>11. stream' \in Seq(Char) /\ have' \o stream' = have \o stream
    <2>1. \A f, q \in Seq(Char) : \A m \in 0 .. Len(q) :
            /\ f \o SubSeq(q, 1, m) \in Seq(Char)
            /\ SubSeq(q, m + 1, Len(q)) \in Seq(Char)
            /\ Len(f \o SubSeq(q, 1, m)) = Len(f) + m
            /\ (f \o SubSeq(q, 1, m)) \o SubSeq(q, m + 1, Len(q)) = f \o q
      BY MoveStretch
    <2>2. /\ SubSeq(stream, n + 1, Len(stream)) \in Seq(Char)
          /\ (have \o SubSeq(stream, 1, n)) \o SubSeq(stream, n + 1, Len(stream))
               = have \o stream
      BY <1>1, <1>5, <2>1, Zenon
    <2> QED BY <1>2, <1>10, <2>2 DEF p
  <1>12. TypeOK'
    <2>1. got' \in Nat
      BY <1>1, <1>2, <1>5
    <2> QED BY <1>2, <1>7, <1>11, <2>1 DEF Inv, TypeOK, Size
  <1>13. WithinRead'
    BY <1>1, <1>2, <1>3, <1>4 DEF WithinRead
  <1>14. NotRefused' /\ TypedFit' /\ BodyIsDue' /\ Delivered'
    BY <1>2 DEF Inv, NotRefused, TypedFit, BodyIsDue, Delivered
  <1>15. FramesInTransit'
    BY <1>2, <1>11 DEF Inv, FramesInTransit
  <1> QED BY <1>9, <1>12, <1>13, <1>14, <1>15 DEF Inv

(* Under the invariant, a header that was read is the one of the next line. *)
LEMMA HeaderIsNext ==
  ASSUME Inv, reading = "header", Len(have) = header_length
  PROVE  /\ Len(received) < Len(typed)
         /\ have = EncodedHeader(SentLength(typed[Len(received) + 1]))
PROOF
  <1> DEFINE r == Len(received)
             l == typed[r + 1]
             h == EncodedHeader(SentLength(l))
  <1>1. /\ typed \in Seq(Seq(Char)) /\ Len(typed) \in Nat /\ r \in Nat
        /\ have \in Seq(Char) /\ Len(have) \in Nat /\ Len(stream) \in Nat
    BY Types DEF Inv
  <1>2. PICK q \in Seq(Char) : q = have \o stream
    BY Types DEF Inv
  <1>3. Len(q) = Len(have) + Len(stream) /\ \A i \in 1 .. Len(have) : q[i] = have[i]
    BY <1>2, Types DEF Inv
  <1>4. PICK at \in [Len(received) .. Len(typed) -> Int] :
          Cut(at, Len(received), typed, q) /\ at[Len(received)] = 0
    BY <1>2 DEF Inv, FramesInTransit
  <1>5. r < Len(typed)
    <2>1. r <= Len(typed)
      BY DEF Inv, Delivered
    <2>2. at[Len(typed)] = Len(q) /\ at[r] = 0
      BY <1>4 DEF Cut
    <2>3. Len(q) # 0
      BY <1>1, <1>3 DEF header_length
    <2> QED BY <1>1, <2>1, <2>2, <2>3
  <1>6. l \in Seq(Char)
    <2>1. r + 1 \in 1 .. Len(typed)
      BY <1>1, <1>5
    <2> QED BY <1>1, <2>1, ElementOfSeq
  <1>7. /\ SentLength(l) \in 0 .. max_body_length
        /\ Len(Frame(l)) = header_length + SentLength(l)
        /\ \A i \in 1 .. header_length : Frame(l)[i] = h[i]
    BY <1>6, FrameIs
  <1>8. h \in Seq(Char) /\ Len(h) = header_length
    BY <1>7, HeaderIs
  <1>9. \A i \in 1 .. Len(Frame(l)) : at[r] + i \in 1 .. Len(q) => q[at[r] + i] = Frame(l)[i]
    <2>1. r + 1 \in r + 1 .. Len(typed) /\ (r + 1) - 1 = r
      BY <1>1, <1>5
    <2>2. \A j \in r + 1 .. Len(typed) : \A i \in 1 .. Len(Frame(typed[j])) :
            at[j - 1] + i \in 1 .. Len(q) => q[at[j - 1] + i] = Frame(typed[j])[i]
      BY <1>4 DEF Cut
    <2> QED BY <2>1, <2>2, Zenon
  <1> HIDE DEF r, l, h
  <1>10. ASSUME NEW i \in 1 .. header_length PROVE have[i] = h[i]
    <2>1. at[r] = 0
      BY <1>4 DEF r
    <2>2. i \in 1 .. Len(Frame(l)) /\ 0 + i \in 1 .. Len(q) /\ i \in 1 .. Len(have) /\ 0 + i = i
      BY <1>1, <1>3, <1>7, MaxBodyAssumption, SMTT(30) DEF header_length
    <2>3. q[i] = Frame(l)[i]
      BY <1>9, <2>1, <2>2
    <2> QED BY <1>3, <1>7, <2>2, <2>3
  <1>11. have = h
    BY <1>1, <1>8, <1>10, SeqEqual
  <1> QED BY <1>5, <1>11 DEF r, l, h

LEMMA HeaderReadKeeps ==
  ASSUME Inv, HeaderRead
  PROVE  Inv'
PROOF
  <1> DEFINE r == Len(received)
             l == typed[r + 1]
  <1>1. /\ reading = "header" /\ Len(have) = header_length
        /\ Header = have
    <2>1. reading = "header" /\ got = header_length
      BY DEF HeaderRead, Wanted
    <2>2. Header = have
      BY <2>1 DEF Header, have, Offset, header_length
    <2> QED BY <2>1, <2>2, HaveIs DEF Inv
  <1>2. r < Len(typed) /\ have = EncodedHeader(SentLength(l))
    BY <1>1, HeaderIsNext
  <1>3. /\ typed \in Seq(Seq(Char)) /\ Len(typed) \in Nat /\ r \in Nat
        /\ have \in Seq(Char) /\ stream \in Seq(Char)
    BY Types DEF Inv
  <1>4. SentLength(l) \in 0 .. max_body_length
    <2>1. r + 1 \in 1 .. Len(typed)
      BY <1>2, <1>3
    <2>2. l \in Seq(Char)
      BY <1>3, <2>1, ElementOfSeq
    <2> QED BY <2>2, FrameIs
  <1>5. Accepts(have) /\ DecodedLength(have) = SentLength(l)
    BY <1>2, <1>4, HeaderRoundTrip
  <1>6. /\ body_length_' = SentLength(l) /\ reading' = "body" /\ got' = 0 /\ have' = <<>>
        /\ UNCHANGED <<typing, typed, stream, data_, received>>
    <2>1. got' = 0
      BY DEF HeaderRead
    <2> QED BY <1>1, <1>5, <2>1 DEF HeaderRead, have
  <1> HIDE DEF l
  <1>7. TypeOK'
    BY <1>4, <1>6 DEF Inv, TypeOK, Size
  <1>8. NotRefused' /\ Filled'
    BY <1>6 DEF NotRefused, Filled
  <1>9. WithinRead'
    <2>1. Wanted' = body_length_'
      BY <1>6 DEF Wanted
    <2>2. 0 <= body_length_'
      BY <1>4, <1>6, MaxBodyAssumption
    <2> QED BY <1>6, <2>1, <2>2 DEF WithinRead
  <1>10. BodyIsDue'
    BY <1>2, <1>6 DEF BodyIsDue, l
  <1>11. TypedFit' /\ Delivered'
    BY <1>6 DEF Inv, TypedFit, Delivered
  <1>12. FramesInTransit'
    <2>1. PICK at \in [Len(received) .. Len(typed) -> Int] :
            Cut(at, Len(received), typed, have \o stream) /\ at[Len(received)] = 0
      BY <1>1 DEF Inv, FramesInTransit
    <2>2. r \in 0 .. Len(typed) /\ r \in r .. Len(typed)
      BY <1>2, <1>3
    <2>3. PICK at1 \in [Len(received) .. Len(typed) -> Int] :
            Cut(at1, r, typed, stream) /\ at1[r] = at[r] - Len(have)
      BY <1>3, <2>1, <2>2, CutShrinks
    <2>4. have' \o stream' = stream
      BY <1>3, <1>6, ConcatEmptySeq
    <2>5. at1[r] = -header_length
      BY <1>1, <2>1, <2>3 DEF header_length
    <2> QED BY <1>6, <2>3, <2>4, <2>5 DEF FramesInTransit
  <1> QED BY <1>7, <1>8, <1>9, <1>10, <1>11, <1>12 DEF Inv

(* Under the invariant, a body that was read is that of the next line. *)
LEMMA BodyIsNext ==
  ASSUME Inv, reading = "body", Len(have) = body_length_
  PROVE  have = SubSeq(typed[Len(received) + 1], 1, SentLength(typed[Len(received) + 1]))
PROOF
  <1> DEFINE r == Len(received)
             l == typed[r + 1]
             m == SentLength(l)
             b == SubSeq(l, 1, m)
  <1>1. /\ typed \in Seq(Seq(Char)) /\ Len(typed) \in Nat /\ r \in Nat
        /\ have \in Seq(Char) /\ Len(have) \in Nat /\ Len(stream) \in Nat
    BY Types DEF Inv
  <1>2. PICK q \in Seq(Char) : q = have \o stream
    BY Types DEF Inv
  <1>3. Len(q) = Len(have) + Len(stream) /\ \A i \in 1 .. Len(have) : q[i] = have[i]
    BY <1>2, Types DEF Inv
  <1>4. PICK at \in [Len(received) .. Len(typed) -> Int] :
          Cut(at, Len(received), typed, q) /\ at[Len(received)] = -header_length
    BY <1>2 DEF Inv, FramesInTransit
  <1>5. r < Len(typed) /\ Len(have) = m
    BY DEF Inv, BodyIsDue
  <1>6. l \in Seq(Char)
    <2>1. r + 1 \in 1 .. Len(typed)
      BY <1>1, <1>5
    <2> QED BY <1>1, <2>1, ElementOfSeq
  <1>7. /\ m \in Nat /\ m <= Len(l)
        /\ Len(Frame(l)) = header_length + m
        /\ \A i \in 1 .. m : Frame(l)[header_length + i] = l[i]
    <2>1. /\ m \in 0 .. max_body_length /\ m <= Len(l)
          /\ Len(Frame(l)) = header_length + m
          /\ \A i \in 1 .. m : Frame(l)[header_length + i] = l[i]
      BY <1>6, FrameIs
    <2>2. m \in Nat
      BY <2>1, MaxBodyAssumption
    <2> QED BY <2>1, <2>2
  <1>8. b \in Seq(Char) /\ Len(b) = m /\ \A i \in 1 .. m : b[i] = l[i]
    BY <1>6, <1>7, FrontIs
  <1>9. \A i \in 1 .. Len(Frame(l)) : at[r] + i \in 1 .. Len(q) => q[at[r] + i] = Frame(l)[i]
    <2>1. r + 1 \in r + 1 .. Len(typed) /\ (r + 1) - 1 = r
      BY <1>1, <1>5
    <2>2. \A j \in r + 1 .. Len(typed) : \A i \in 1 .. Len(Frame(typed[j])) :
            at[j - 1] + i \in 1 .. Len(q) => q[at[j - 1] + i] = Frame(typed[j])[i]
      BY <1>4 DEF Cut
    <2> QED BY <2>1, <2>2, Zenon
  <1> HIDE DEF r, l, m, b
  <1>10. ASSUME NEW i \in 1 .. m PROVE have[i] = b[i]
    <2> DEFINE j == header_length + i
    <2>1. at[r] = -header_length
      BY <1>4 DEF r
    <2>2. /\ j \in 1 .. Len(Frame(l)) /\ at[r] + j = i
          /\ i \in 1 .. Len(q) /\ i \in 1 .. Len(have)
      BY <1>1, <1>3, <1>5, <1>7, <2>1 DEF header_length
    <2>3. q[i] = Frame(l)[j]
      <3> HIDE DEF j
      <3> QED BY <1>9, <2>2
    <2>4. Frame(l)[j] = l[i] /\ b[i] = l[i] /\ q[i] = have[i]
      BY <1>3, <1>7, <1>8, <2>2
    <2> QED BY <2>3, <2>4
  <1>11. have = b
    BY <1>1, <1>5, <1>8, <1>10, SeqEqual
  <1> QED BY <1>11 DEF r, l, m, b

(* What do_read_body's handler delivers is what that read has got. *)
LEMMA BodyIsRead ==
  ASSUME Inv, BodyRead
  PROVE  reading = "body" /\ Len(have) = body_length_ /\ Body = have
PROOF
  <1>1. reading = "body" /\ got = body_length_
    BY DEF BodyRead, Wanted
  <1>2. Body = have
    BY <1>1 DEF Body, have, Offset
  <1> QED BY <1>1, <1>2, HaveIs DEF Inv

LEMMA BodyReadKeeps ==
  ASSUME Inv, BodyRead
  PROVE  Inv'
PROOF
  <1> DEFINE r == Len(received)
             l == typed[r + 1]
             m == SentLength(l)
  <1>1. reading = "body" /\ Len(have) = body_length_ /\ Body = have
    BY BodyIsRead
  <1>2. r < Len(typed) /\ Len(have) = m
    BY <1>1 DEF Inv, BodyIsDue
  <1>3. have = SubSeq(l, 1, m)
    BY <1>1, BodyIsNext
  <1>4. /\ typed \in Seq(Seq(Char)) /\ Len(typed) \in Nat /\ r \in Nat
        /\ received \in Seq(Seq(Char))
        /\ have \in Seq(Char) /\ Len(have) \in Nat /\ stream \in Seq(Char)
    BY Types DEF Inv
  <1>5. /\ received' = Append(received, have) /\ reading' = "header"
        /\ got' = 0 /\ have' = <<>>
        /\ UNCHANGED <<typing, typed, stream, data_, body_length_>>
    <2>1. got' = 0
      BY DEF BodyRead
    <2> QED BY <1>1, <2>1 DEF BodyRead, have
  <1>6. /\ received' \in Seq(Seq(Char)) /\ Len(received') = r + 1
        /\ received'[r + 1] = have
        /\ \A i \in 1 .. r : received'[i] = received[i]
    BY <1>4, <1>5, AppendProperties
  <1>7. TypeOK'
    BY <1>5, <1>6 DEF Inv, TypeOK, Size
  <1>8. NotRefused' /\ Filled' /\ BodyIsDue' /\ TypedFit'
    BY <1>5 DEF Inv, NotRefused, Filled, BodyIsDue, TypedFit
  <1>9. WithinRead'
    <2>1. Wanted' = header_length
      BY <1>5 DEF Wanted
    <2> QED BY <1>5, <2>1 DEF WithinRead, header_length
  <1>10. Delivered'
    <2>1. \A i \in 1 .. r : received[i] = SubSeq(typed[i], 1, SentLength(typed[i]))
      BY DEF Inv, Delivered
    <2>2. ASSUME NEW i \in 1 .. r + 1
          PROVE  received'[i] = SubSeq(typed[i], 1, SentLength(typed[i]))
      <3>1. CASE i = r + 1
        BY <1>3, <1>6, <3>1
      <3>2. CASE i \in 1 .. r
        BY <1>6, <2>1, <3>2
      <3> QED BY <1>4, <3>1, <3>2
    <2>3. r + 1 <= Len(typed)
      BY <1>2, <1>4
    <2> QED BY <1>5, <1>6, <2>2, <2>3 DEF Delivered
  <1>11. FramesInTransit'
    <2>1. PICK at \in [Len(received) .. Len(typed) -> Int] :
            Cut(at, Len(received), typed, have \o stream) /\ at[Len(received)] = -header_length
      BY <1>1 DEF Inv, FramesInTransit
    <2>2. r \in 0 .. Len(typed) /\ r + 1 \in r .. Len(typed)
      BY <1>2, <1>4
    <2>3. PICK at1 \in [Len(received) + 1 .. Len(typed) -> Int] :
            Cut(at1, r + 1, typed, stream) /\ at1[r + 1] = at[r + 1] - Len(have)
      BY <1>4, <2>1, <2>2, CutShrinks, ZenonT(30)
    <2>4. have' \o stream' = stream
      BY <1>4, <1>5, ConcatEmptySeq
    <2>5. at[r + 1] = Len(have)
      <3>1. r + 1 \in r + 1 .. Len(typed) /\ (r + 1) - 1 = r /\ r + 1 \in 1 .. Len(typed)
        BY <1>2, <1>4
      <3>2. at[r + 1] = at[r] + Len(Frame(l))
        BY <2>1, <3>1 DEF Cut
      <3>3. l \in Seq(Char)
        BY <1>4, <3>1, ElementOfSeq
      <3>4. Len(Frame(l)) = header_length + m
        BY <3>3, FrameIs
      <3> HIDE DEF l, m
      <3> QED BY <1>2, <1>4, <2>1, <3>2, <3>4 DEF header_length
    <2>6. at1[r + 1] = 0
      <3> HIDE DEF l, m
      <3> QED BY <1>4, <2>3, <2>5
    <2>7. \E c \in [Len(received') .. Len(typed') -> Int] :
            /\ Cut(c, Len(received'), typed', have' \o stream')
            /\ reading' = "header" => c[Len(received')] = 0
            /\ reading' = "body" => c[Len(received')] = -header_length
      <3>1. Cut(at1, Len(received'), typed', have' \o stream')
        BY <1>5, <1>6, <2>3, <2>4
      <3>2. at1 \in [Len(received') .. Len(typed') -> Int]
        BY <1>5, <1>6, <2>3
      <3>3. at1[Len(received')] = 0 /\ reading' # "body"
        BY <1>5, <1>6, <2>6
      <3> QED BY <3>1, <3>2, <3>3, Zenon
    <2> QED BY <2>7 DEF FramesInTransit
  <1> QED BY <1>7, <1>8, <1>9, <1>10, <1>11 DEF Inv

LEMMA Invariance == Spec => []Inv
PROOF
  <1>1. Init => Inv
    BY InvHoldsInitially
  <1>2. Inv /\ [Next]_vars => Inv'
    <2> SUFFICES ASSUME Inv, [Next]_vars PROVE Inv'
      OBVIOUS
    <2>1. ASSUME NEW l \in Line, GetLine(l) PROVE Inv'
      BY <2>1, GetLineKeeps
    <2>2. ASSUME NEW l \in Line, GetLineFails(l) PROVE Inv'
      BY <2>2, GetLineFailsKeeps
    <2>3. ASSUME NEW k \in Piece, Arrive(k) PROVE Inv'
      BY <2>3, ArriveKeeps
    <2>4. CASE HeaderRead
      BY <2>4, HeaderReadKeeps
    <2>5. CASE BodyRead
      BY <2>5, BodyReadKeeps
    <2>6. CASE UNCHANGED vars
      <3>1. /\ typing' = typing /\ typed' = typed /\ stream' = stream
            /\ reading' = reading /\ got' = got /\ data_' = data_ /\ have' = have
            /\ body_length_' = body_length_ /\ received' = received
        BY <2>6 DEF vars, have, Offset
      <3>2. TypeOK'
        BY <3>1 DEF Inv, TypeOK
      <3>3. /\ NotRefused' /\ Filled' /\ WithinRead' /\ TypedFit'
            /\ BodyIsDue' /\ Delivered' /\ FramesInTransit'
        BY <3>1 DEF Inv, NotRefused, Filled, Offset, WithinRead, Wanted, TypedFit, BodyIsDue,
                    Delivered, FramesInTransit
      <3> QED BY <3>2, <3>3 DEF Inv
    <2> QED BY <2>1, <2>2, <2>3, <2>4, <2>5, <2>6 DEF Next
  <1> QED BY <1>1, <1>2, PTL DEF Spec

-----------------------------------------------------------------------------
(* The theorems. *)

(* Every part of the state keeps its type; body_length_ stays within the    *)
(* buffer of a chat_message.                                                *)
THEOREM TypeCorrect == Spec => []TypeOK
PROOF
  <1>1. Inv => TypeOK
    BY DEF Inv
  <1> QED BY <1>1, Invariance, PTL

(* No header that arrives is refused: decode_header never makes a receiver  *)
(* give up a connection to a chat_client.                                   *)
THEOREM NoHeaderRefused == Spec => [](reading # "closed")
PROOF
  <1>1. Inv => reading # "closed"
    BY DEF Inv, NotRefused
  <1> QED BY <1>1, Invariance, PTL

(* What is delivered are the lines that were typed, in order, each up to    *)
(* its first NUL: do_read_header and do_read_body never take a header for a *)
(* body, whatever the lines are and however their bytes are cut.            *)
THEOREM LinesComeThrough == Spec => []LinesArrive
PROOF
  <1>1. Inv => LinesArrive
    <2> SUFFICES ASSUME Inv PROVE LinesArrive
      OBVIOUS
    <2>1. /\ typed \in Seq(Seq(Char)) /\ Len(typed) \in Nat
          /\ received \in Seq(Seq(Char)) /\ Len(received) \in Nat
      BY Types DEF Inv
    <2>2. Len(received) <= Len(typed)
      BY DEF Inv, Delivered
    <2>3. DOMAIN received = 1 .. Len(received)
      BY <2>1, LenProperties
    <2>4. ASSUME NEW i \in 1 .. Len(received)
          PROVE  /\ IsPrefix(received[i], typed[i])
                 /\ "nul" \notin Range(received[i])
                 /\ received[i] = typed[i] \/ typed[i][Len(received[i]) + 1] = "nul"
      <3> DEFINE l == typed[i]
                 b == received[i]
                 n == Strlen(l)
      <3>1. i \in 1 .. Len(typed)
        BY <2>1, <2>2
      <3>2. l \in Seq(Char) /\ Fits(l) /\ b = SubSeq(l, 1, SentLength(l))
        BY <2>1, <3>1, ElementOfSeq DEF Inv, TypedFit, Delivered
      <3>3. /\ n \in 0 .. Len(l) /\ Len(l) \in Nat
            /\ \A j \in 1 .. n : l[j] # "nul"
            /\ n = Len(l) \/ l[n + 1] = "nul"
        BY <3>2, StrlenIs, LenProperties
      <3>4. SentLength(l) = n
        <4> HIDE DEF l
        <4> QED BY <3>2, <3>3, MaxBodyAssumption DEF SentLength, Clamped, Fits
      <3>5. b = SubSeq(l, 1, n)
        BY <3>2, <3>4
      <3> HIDE DEF l, b, n
      <3>6. b \in Seq(Char) /\ Len(b) = n /\ \A j \in 1 .. n : b[j] = l[j]
        <4>1. l \in Seq(Char) /\ n \in Nat /\ n <= Len(l)
          BY <3>2, <3>3
        <4>2. /\ SubSeq(l, 1, n) \in Seq(Char)
              /\ Len(SubSeq(l, 1, n)) = n
              /\ \A j \in 1 .. n : SubSeq(l, 1, n)[j] = l[j]
          BY <4>1, FrontIs
        <4> QED BY <3>5, <4>2
      <3>7. IsPrefix(b, l)
        <4>1. SubSeq(b, 1, Len(b)) = b
          BY <3>6, SubSeqFull
        <4>2. Len(b) <= Len(l)
          BY <3>3, <3>6
        <4> QED BY <3>5, <3>6, <4>1, <4>2 DEF IsPrefix
      <3>8. "nul" \notin Range(b)
        <4>1. Range(b) = {b[j] : j \in 1 .. Len(b)}
          BY <3>6, RangeEquality
        <4> QED BY <3>3, <3>6, <4>1
      <3>9. b = l \/ l[Len(b) + 1] = "nul"
        <4>1. CASE n = Len(l)
          BY <3>2, <3>5, <4>1, SubSeqFull
        <4>2. CASE l[n + 1] = "nul"
          BY <3>6, <4>2
        <4> QED BY <3>3, <4>1, <4>2
      <3> QED BY <3>7, <3>8, <3>9 DEF b, l
    <2> QED BY <2>2, <2>3, <2>4 DEF LinesArrive
  <1> QED BY <1>1, Invariance, PTL

-----------------------------------------------------------------------------
(* The connection as a queue.                                               *)

Fitting == {l \in Line : Fits(l)}

(* The texts of the lines ls after the first n. *)
Pending(ls, n) == [k \in 1 .. Len(ls) - n |-> Text[ls[n + k]]]

LEMMA PendingIs ==
  ASSUME NEW ls \in Seq(Fitting), NEW n \in 0 .. Len(ls)
  PROVE  /\ Pending(ls, n) \in Seq(Range(Text))
         /\ Len(Pending(ls, n)) = Len(ls) - n
         /\ \A k \in 1 .. Len(ls) - n : Pending(ls, n)[k] = Text[ls[n + k]]
PROOF
  <1>1. Len(ls) \in Nat /\ n \in Nat /\ Len(ls) - n \in Nat
    BY LenProperties
  <1>2. \A k \in 1 .. Len(ls) - n : Text[ls[n + k]] \in Range(Text)
    <2> SUFFICES ASSUME NEW k \in 1 .. Len(ls) - n PROVE Text[ls[n + k]] \in Range(Text)
      OBVIOUS
    <2>1. n + k \in 1 .. Len(ls)
      BY <1>1
    <2>2. ls[n + k] \in Fitting /\ DOMAIN Text = Fitting
      BY <2>1, ElementOfSeq DEF Text, Fitting
    <2> QED BY <2>2 DEF Range
  <1>3. Pending(ls, n) \in Seq(Range(Text))
    BY <1>1, <1>2, IsASeq DEF Pending
  <1>4. DOMAIN Pending(ls, n) = 1 .. Len(ls) - n
    BY DEF Pending
  <1>5. Len(Pending(ls, n)) = Len(ls) - n
    BY <1>1, <1>3, <1>4, LenProperties
  <1> QED BY <1>3, <1>5 DEF Pending

LEMMA PendingGrows ==
  ASSUME NEW ls \in Seq(Fitting), NEW n \in 0 .. Len(ls), NEW l \in Fitting
  PROVE  Pending(Append(ls, l), n) = Append(Pending(ls, n), Text[l])
PROOF
  <1> DEFINE a == Append(ls, l)
             p == Pending(ls, n)
             q == Pending(a, n)
             m == Len(ls) - n
  <1>1. Len(ls) \in Nat /\ n \in Nat /\ m \in Nat
    BY LenProperties
  <1>2. /\ a \in Seq(Fitting) /\ Len(a) = Len(ls) + 1 /\ a[Len(ls) + 1] = l
        /\ \A i \in 1 .. Len(ls) : a[i] = ls[i]
    BY AppendProperties
  <1>3. p \in Seq(Range(Text)) /\ Len(p) = m /\ \A k \in 1 .. m : p[k] = Text[ls[n + k]]
    BY PendingIs
  <1>4. /\ q \in Seq(Range(Text)) /\ Len(q) = m + 1
        /\ \A k \in 1 .. m + 1 : q[k] = Text[a[n + k]]
    <2>1. n \in 0 .. Len(a) /\ Len(a) - n = m + 1
      BY <1>1, <1>2
    <2> HIDE DEF a, m
    <2>2. /\ q \in Seq(Range(Text)) /\ Len(q) = Len(a) - n
          /\ \A k \in 1 .. Len(a) - n : q[k] = Text[a[n + k]]
      BY <1>2, <2>1, PendingIs
    <2> HIDE DEF q
    <2> QED BY <2>1, <2>2
  <1>5. Text[l] \in Range(Text)
    BY DEF Range, Text, Fitting
  <1>6. /\ Append(p, Text[l]) \in Seq(Range(Text)) /\ Len(Append(p, Text[l])) = m + 1
        /\ Append(p, Text[l])[m + 1] = Text[l]
        /\ \A k \in 1 .. m : Append(p, Text[l])[k] = p[k]
    <2> HIDE DEF p, m
    <2> QED BY <1>3, <1>5, AppendProperties
  <1>7. n + (m + 1) = Len(ls) + 1 /\ \A k \in 1 .. m : n + k \in 1 .. Len(ls) /\ k \in 1 .. m + 1
    BY <1>1
  <1> HIDE DEF a, p, q, m
  <1>8. ASSUME NEW k \in 1 .. m + 1 PROVE q[k] = Append(p, Text[l])[k]
    <2>1. q[k] = Text[a[n + k]]
      BY <1>4
    <2>2. CASE k = m + 1
      BY <1>2, <1>6, <1>7, <2>1, <2>2
    <2>3. CASE k \in 1 .. m
      <3>1. a[n + k] = ls[n + k]
        BY <1>2, <1>7, <2>3
      <3>2. p[k] = Text[ls[n + k]] /\ Append(p, Text[l])[k] = p[k]
        BY <1>3, <1>6, <2>3
      <3> QED BY <2>1, <3>1, <3>2
    <2>4. k = m + 1 \/ k \in 1 .. m
      BY <1>1
    <2> QED BY <2>2, <2>3, <2>4
  <1>9. q = Append(p, Text[l])
    BY <1>4, <1>6, <1>8, SeqEqual
  <1> QED BY <1>9 DEF a, p, q

LEMMA PendingShrinks ==
  ASSUME NEW ls \in Seq(Fitting), NEW n \in 0 .. Len(ls), n < Len(ls)
  PROVE  /\ Pending(ls, n) # <<>>
         /\ Head(Pending(ls, n)) = Text[ls[n + 1]]
         /\ Tail(Pending(ls, n)) = Pending(ls, n + 1)
PROOF
  <1> DEFINE p == Pending(ls, n)
             q == Pending(ls, n + 1)
             m == Len(ls) - n
  <1>1. Len(ls) \in Nat /\ n \in Nat /\ m \in Nat /\ m >= 1
    BY LenProperties
  <1>2. p \in Seq(Range(Text)) /\ Len(p) = m /\ \A k \in 1 .. m : p[k] = Text[ls[n + k]]
    BY PendingIs
  <1>3. /\ q \in Seq(Range(Text)) /\ Len(q) = m - 1
        /\ \A k \in 1 .. m - 1 : q[k] = Text[ls[(n + 1) + k]]
    <2>1. n + 1 \in 0 .. Len(ls) /\ Len(ls) - (n + 1) = m - 1
      BY <1>1
    <2> HIDE DEF m
    <2> QED BY <2>1, PendingIs
  <1>4. p # <<>>
    <2> HIDE DEF p, m
    <2> QED BY <1>1, <1>2, EmptySeq
  <1>5. Head(p) = p[1]
    <2> HIDE DEF p, m
    <2> QED BY <1>1, <1>2
  <1>6. /\ Tail(p) \in Seq(Range(Text)) /\ Len(Tail(p)) = m - 1
        /\ \A k \in 1 .. m - 1 : Tail(p)[k] = p[k + 1]
    <2> HIDE DEF p, m
    <2> QED BY <1>2, <1>4, HeadTailProperties
  <1>7. \A k \in 1 .. m - 1 : k + 1 \in 1 .. m /\ n + (k + 1) = (n + 1) + k
    BY <1>1
  <1> HIDE DEF p, q, m
  <1>8. ASSUME NEW k \in 1 .. m - 1 PROVE Tail(p)[k] = q[k]
    <2>1. Tail(p)[k] = p[k + 1] /\ q[k] = Text[ls[(n + 1) + k]]
      BY <1>3, <1>6
    <2>2. p[k + 1] = Text[ls[n + (k + 1)]]
      BY <1>2, <1>7
    <2> QED BY <1>7, <2>1, <2>2
  <1>9. Tail(p) = q
    BY <1>3, <1>6, <1>8, SeqEqual
  <1>10. p[1] = Text[ls[n + 1]]
    BY <1>1, <1>2
  <1> QED BY <1>4, <1>5, <1>9, <1>10 DEF p, q

(* The lines typed are ones that fit, and Undelivered are those pending. *)
LEMMA UndeliveredIs ==
  ASSUME Inv
  PROVE  /\ typed \in Seq(Fitting) /\ Len(typed) \in Nat
         /\ Len(received) \in 0 .. Len(typed)
         /\ Undelivered = Pending(typed, Len(received))
PROOF
  <1>1. typed \in Seq(Line) /\ Len(typed) \in Nat /\ Len(received) \in Nat
    BY Types DEF Inv, TypeOK
  <1>2. \A i \in 1 .. Len(typed) : typed[i] \in Fitting
    BY <1>1, ElementOfSeq DEF Inv, TypedFit, Fitting
  <1>3. typed \in Seq(Fitting)
    <2>1. typed = [i \in 1 .. Len(typed) |-> typed[i]]
      BY <1>1, LenProperties
    <2> QED BY <1>1, <1>2, <2>1, IsASeq
  <1> QED BY <1>1, <1>3 DEF Inv, Delivered, Undelivered, Pending

(* The text of a line that fits is what is delivered of it. *)
LEMMA TextIs ==
  ASSUME NEW l \in Fitting
  PROVE  Text[l] = SubSeq(l, 1, SentLength(l))
PROOF
  <1>1. l \in Seq(Char) /\ Fits(l)
    BY LineAssumption DEF Fitting
  <1>2. Strlen(l) \in 0 .. Len(l) /\ Len(l) \in Nat
    BY <1>1, StrlenIs, LenProperties
  <1>3. SentLength(l) = Strlen(l)
    BY <1>1, <1>2, MaxBodyAssumption DEF SentLength, Clamped, Fits
  <1> QED BY <1>3 DEF Text, Fitting

LEMMA RefinesNext == Inv /\ Inv' /\ [Next]_vars => [Queue!Next]_(Queue!vars)
PROOF
  <1> SUFFICES ASSUME Inv, Inv', [Next]_vars PROVE [Queue!Next]_(Queue!vars)
    OBVIOUS
  <1> DEFINE r == Len(received)
  <1>1. /\ typed \in Seq(Fitting) /\ Len(typed) \in Nat /\ r \in 0 .. Len(typed)
        /\ Undelivered = Pending(typed, r)
    BY UndeliveredIs
  <1>2. Undelivered' = Pending(typed', Len(received'))
    BY DEF Undelivered, Pending
  <1>3. ASSUME UNCHANGED <<typed, received>> PROVE [Queue!Next]_(Queue!vars)
    BY <1>3 DEF Queue!vars, Undelivered
  <1>4. ASSUME NEW l \in Line, GetLine(l) PROVE Queue!Next
    <2>1. l \in Fitting /\ typed' = Append(typed, l) /\ received' = received
      BY <1>4 DEF GetLine, Fitting
    <2>2. Pending(Append(typed, l), r) = Append(Pending(typed, r), Text[l])
      BY <1>1, <2>1, PendingGrows
    <2>3. Undelivered' = Append(Undelivered, Text[l])
      BY <1>1, <1>2, <2>1, <2>2
    <2>4. Text[l] \in Range(Text)
      BY <2>1 DEF Range, Text, Fitting
    <2>5. Queue!Send(Text[l])
      BY <2>1, <2>3 DEF Queue!Send
    <2> QED BY <2>4, <2>5 DEF Queue!Next
  <1>5. ASSUME BodyRead PROVE Queue!Next
    <2> DEFINE l == typed[r + 1]
    <2>1. reading = "body" /\ Len(have) = body_length_ /\ Body = have
      BY <1>5, BodyIsRead
    <2>2. r < Len(typed)
      BY <2>1 DEF Inv, BodyIsDue
    <2>3. have = SubSeq(l, 1, SentLength(l))
      BY <2>1, BodyIsNext
    <2>4. l \in Fitting
      <3>1. r + 1 \in 1 .. Len(typed)
        BY <1>1, <2>2
      <3> QED BY <1>1, <3>1, ElementOfSeq
    <2>5. have = Text[l]
      BY <2>3, <2>4, TextIs
    <2>6. /\ Pending(typed, r) # <<>> /\ Head(Pending(typed, r)) = Text[l]
          /\ Tail(Pending(typed, r)) = Pending(typed, r + 1)
      BY <1>1, <2>2, PendingShrinks
    <2>7. received' = Append(received, have) /\ typed' = typed
      BY <1>5, <2>1 DEF BodyRead
    <2>8. Len(received') = r + 1
      <3>1. received \in Seq(Seq(Char)) /\ have \in Seq(Char)
        BY Types DEF Inv
      <3> QED BY <2>7, <3>1, AppendProperties
    <2>9. Undelivered' = Tail(Undelivered)
      BY <1>1, <1>2, <2>6, <2>7, <2>8
    <2>10. Queue!Deliver
      <3>1. Undelivered # <<>> /\ received' = Append(received, Head(Undelivered))
        BY <1>1, <2>5, <2>6, <2>7
      <3> QED BY <2>9, <3>1 DEF Queue!Deliver
    <2> QED BY <2>10 DEF Queue!Next
  <1>6. ASSUME NEW l \in Line, GetLineFails(l) PROVE UNCHANGED <<typed, received>>
    BY <1>6 DEF GetLineFails
  <1>7. ASSUME NEW k \in Piece, Arrive(k) PROVE UNCHANGED <<typed, received>>
    BY <1>7 DEF Arrive
  <1>8. ASSUME HeaderRead PROVE UNCHANGED <<typed, received>>
    BY <1>8 DEF HeaderRead
  <1>9. ASSUME UNCHANGED vars PROVE UNCHANGED <<typed, received>>
    BY <1>9 DEF vars
  <1> QED BY <1>3, <1>4, <1>5, <1>6, <1>7, <1>8, <1>9 DEF Next

(* A direction of a connection is a queue of messages to its two ends: the  *)
(* header, the pieces and the two reads of do_read_header and do_read_body  *)
(* add nothing to it and take nothing from it.                              *)
THEOREM ActsAsQueue == Spec => IsQueue
PROOF
  <1>1. Init => Queue!Init
    <2> SUFFICES ASSUME Init PROVE Queue!Init
      OBVIOUS
    <2>1. typed = <<>> /\ received = <<>> /\ Len(<<>>) = 0
      BY EmptySeq DEF Init
    <2>2. Undelivered = <<>>
      BY <2>1 DEF Undelivered
    <2> QED BY <2>1, <2>2 DEF Queue!Init
  <1>2. Inv /\ Inv' /\ [Next]_vars => [Queue!Next]_(Queue!vars)
    BY RefinesNext
  <1> QED BY <1>1, <1>2, Invariance, PTL DEF Spec, IsQueue, Queue!Spec
=============================================================================
