---------------------------- MODULE ChatFraming ----------------------------
(* One direction of a chat connection as bytes: chat_client's main turns    *)
(* lines into messages, TCP delivers their bytes in pieces of any size, and *)
(* the receiver's two async_reads put them together again.  Both the server *)
(* (chat_server.cpp:95-130) and the client (chat_client.cpp:60-94) receive  *)
(* this way, and the server forwards what it received byte for byte.        *)
EXTENDS ChatMessage, SequencesExt

CONSTANTS Line,      \* the lines a user may type, sequences of Char
          Piece,     \* the sizes of the pieces in which TCP delivers
          MaxLines   \* bound of the instances: lines typed
ASSUME LineAssumption ==
  /\ Line \subseteq Seq(Char) /\ Piece \subseteq Nat \ {0}
  /\ MaxLines \in Nat

VARIABLES typing,        \* whether main's getline loop is still running
          typed,         \* history: the lines getline accepted
          stream,        \* the bytes on their way
          reading,       \* the pending async_read: "header", "body", "closed"
          got,           \* how many bytes that read has so far
          data_,         \* of the receiver's read_msg_, used for every message
          body_length_,  \* of it, too
          received       \* history: the bodies delivered

vars == <<typing, typed, stream, reading, got, data_, body_length_, received>>

(* What data_ holds where nothing was written: nobody initialises it. *)
Unset == "unset"
Size == header_length + max_body_length

TypeOK ==
  /\ typing \in BOOLEAN
  /\ typed \in Seq(Line)
  /\ stream \in Seq(Char)
  /\ reading \in {"header", "body", "closed"}
  /\ got \in Nat
  /\ data_ \in [1 .. Size -> Char \cup {Unset}]
  /\ body_length_ \in 0 .. max_body_length
  /\ received \in Seq(Seq(Char))

Init ==
  /\ typing = TRUE /\ typed = <<>> /\ stream = <<>>
  /\ reading = "header" /\ got = 0 /\ data_ = [i \in 1 .. Size |-> Unset]
  /\ body_length_ = 0 /\ received = <<>>

(* strlen(line): what is typed up to the first NUL. *)
Strlen(l) == IF \E i \in DOMAIN l : l[i] = "nul"
               THEN (CHOOSE i \in DOMAIN l :
                       l[i] = "nul" /\ \A j \in 1 .. i - 1 : l[j] # "nul") - 1
               ELSE Len(l)

\* A mistake: the size of the line for strlen(line).
WholeLine(l) == LET n == Clamped(Len(l)) IN EncodedHeader(n) \o SubSeq(l, 1, n)

(* The message main makes of a line, as write() sends it: length() bytes.   *)
Frame(l) == LET n == Clamped(Strlen(l)) IN EncodedHeader(n) \o SubSeq(l, 1, n)

(* getline() stores a line that fits; one that does not sets failbit and    *)
(* ends the loop, and nothing of it is sent.                                *)
Fits(l) == Len(l) <= max_body_length
GetLine(l) ==
  /\ typing
  /\ Len(typed) < MaxLines
  /\ Fits(l)
  /\ typed' = Append(typed, l)
  /\ stream' = stream \o Frame(l)
  /\ UNCHANGED <<typing, reading, got, data_, body_length_, received>>

GetLineFails(l) ==
  /\ typing
  /\ ~Fits(l)
  /\ typing' = FALSE
  /\ UNCHANGED <<typed, stream, reading, got, data_, body_length_, received>>

(* What the pending async_read was asked for: how many bytes, and where in  *)
(* data_ they go, to data() or to body().                                   *)
Wanted == IF reading = "header" THEN header_length ELSE body_length_
Offset == IF reading = "header" THEN 0 ELSE header_length

(* A piece arrives, cut to what the pending read still takes; the rest of   *)
(* data_ stays as it was.                                                   *)
Arrive(k) ==
  LET n == Min({k, Wanted - got, Len(stream)})
      at == Offset + got
  IN
  /\ reading # "closed"
  /\ n > 0
  /\ data_' = SubSeq(data_, 1, at) \o SubSeq(stream, 1, n) \o SubSeq(data_, at + n + 1, Size)
  /\ got' = got + n
  /\ stream' = SubSeq(stream, n + 1, Len(stream))
  /\ UNCHANGED <<typing, typed, reading, body_length_, received>>

(* do_read_header's handler. *)
Header == [i \in 1 .. header_length |-> data_[i]]
HeaderRead ==
  /\ reading = "header"
  /\ got = Wanted
  /\ body_length_' = DecodedLength(Header)
  /\ reading' = IF Accepts(Header) THEN "body" ELSE "closed"
  /\ got' = 0
  /\ UNCHANGED <<typing, typed, stream, data_, received>>

(* do_read_body's handler: as much of body() is delivered as body_length()  *)
(* says, whatever a longer message has left behind it.                      *)
UpToNul ==  \* a mistake: as if a NUL ended it
  LET rest == SubSeq(data_, header_length + 1, Size) IN SubSeq(rest, 1, Strlen(rest))
Body == [i \in 1 .. body_length_ |-> data_[header_length + i]]
BodyRead ==
  /\ reading = "body"
  /\ got = Wanted
  /\ received' = Append(received, Body)
  /\ reading' = "header"
  /\ got' = 0
  /\ UNCHANGED <<typing, typed, stream, data_, body_length_>>

Next ==
  \/ \E l \in Line : GetLine(l) \/ GetLineFails(l)
  \/ \E k \in Piece : Arrive(k)
  \/ HeaderRead
  \/ BodyRead

(* TCP delivers what was sent while the connection is up, and io_service    *)
(* runs the handler of a read that is complete.                             *)
Receiving == HeaderRead \/ BodyRead \/ \E k \in Piece : Arrive(k)
Spec == Init /\ [][Next]_vars /\ WF_vars(Receiving)

-----------------------------------------------------------------------------
(* What is delivered are the lines that were typed, each up to its first    *)
(* NUL, in order: however the bytes were cut, no header is taken for a body *)
(* or the other way round, at any length up to the limit, and nothing that  *)
(* data_ still holds of a message before is delivered again.                *)
LinesArrive ==
  /\ Len(received) <= Len(typed)
  /\ \A i \in DOMAIN received :
       LET l == typed[i]
           b == received[i]
       IN  /\ IsPrefix(b, l)
           /\ "nul" \notin Range(b)
           /\ b = l \/ l[Len(b) + 1] = "nul"

(* Every line that getline accepted is delivered in the end, the empty and  *)
(* the longest ones too: no header that the sender wrote is refused.        *)
AllArrive == \A n \in 1 .. MaxLines : Len(typed) >= n ~> Len(received) >= n

(* What is sent of a line, and the texts that were not delivered yet. *)
Text == [l \in {x \in Line : Fits(x)} |-> SubSeq(l, 1, Strlen(l))]
Undelivered == [k \in 1 .. Len(typed) - Len(received) |-> Text[typed[Len(received) + k]]]
Queue == INSTANCE LineQueue WITH
  Body <- Range(Text), queue <- Undelivered, delivered <- received

(* To its ends the connection is a queue of the texts that were typed: one  *)
(* is added when main writes a line, one is taken when do_read_body's       *)
(* handler runs, and no other step has an effect that they could see.       *)
IsQueue == Queue!Spec
=============================================================================
