---------------------------- MODULE ChatMessage ----------------------------
(* The header of a chat_message (demo_boost_asio/chat_message.h): four      *)
(* characters that hold the length of the body in decimal.  A character is  *)
(* told apart only as far as atoi() and strncat() tell it apart.            *)
EXTENDS Naturals, Sequences

CONSTANT max_body_length
ASSUME MaxBodyAssumption == max_body_length \in 0 .. 9999

header_length == 4

Digit == [d \in 0 .. 9 |-> <<"0", "1", "2", "3", "4", "5", "6", "7", "8", "9">>[d + 1]]
Digits == {Digit[d] : d \in 0 .. 9}
DigitValue(c) == CHOOSE d \in 0 .. 9 : Digit[d] = c
Blank == " "
Space == {Blank, "\t"}
Sign == {"+", "-"}
Char == Digits \cup Space \cup Sign \cup {"nul", "x"}

(* body_length(n): the setter. *)
Clamped(n) == IF n > max_body_length THEN max_body_length ELSE n

(* encode_header: sprintf("%4d"), right aligned and padded with blanks.     *)
Power == <<1000, 100, 10, 1>>
EncodedHeader(n) ==
  [i \in 1 .. header_length |->
     IF n < Power[i] /\ i < header_length THEN Blank ELSE Digit[(n \div Power[i]) % 10]]

(* One character of atoi(): leading blanks, a sign, digits; what follows    *)
(* the number is ignored, and so is everything after a NUL, which ends what *)
(* strncat() copied.                                                        *)
Scan(a, c) ==
  CASE a.at = "start" /\ c \in Space -> a
    [] a.at = "start" /\ c \in Sign ->
         [at |-> "digits", minus |-> c = "-", value |-> 0]
    [] a.at \in {"start", "digits"} /\ c \in Digits ->
         [a EXCEPT !.at = "digits", !.value = 10 * @ + DigitValue(c)]
    [] OTHER -> [a EXCEPT !.at = "end"]

Atoi(h) ==
  Scan(Scan(Scan(Scan([at |-> "start", minus |-> FALSE, value |-> 0],
                      h[1]), h[2]), h[3]), h[4])

(* decode_header.  The int goes into a size_t: a negative number is then    *)
(* larger than any limit.  A header without a number is one for length 0.   *)
AcceptsBelow(h) ==  \* a mistake: ">=" for ">"
  LET a == Atoi(h) IN (a.minus => a.value = 0) /\ a.value < max_body_length
Accepts(h) ==
  LET a == Atoi(h) IN (a.minus => a.value = 0) /\ a.value <= max_body_length
DecodedLength(h) == IF Accepts(h) THEN Atoi(h).value ELSE 0
=============================================================================
