----------------------------- MODULE ChatSystem -----------------------------
(* The chat as its users see it: the server of ChatServer and one client    *)
(* per session, joined by a TCP connection, which is a FIFO channel in each *)
(* direction.  Of a client only what ChatClient!NothingLost promises is     *)
(* kept: what is typed is sent in order, up to the point where the          *)
(* connection breaks; and what arrives is printed in order.                 *)
EXTENDS ChatServer, SequencesExt

CONSTANT MaxTyped  \* bound of the instances: MaxTyped[s] lines from user s

(* The n-th line typed by the user of session s. *)
Line(s, n) == <<s, n>>
ASSUME LinesAreMessages ==
  /\ MaxTyped \in [Session -> Nat]
  /\ Message = UNION {{Line(s, n) : n \in 1 .. MaxTyped[s]} : s \in Session}

VARIABLES up,      \* up[s]: sent by the client and not yet read by the server
          down,    \* down[s]: written by the server and not yet printed
          typed,   \* typed[s]: how many lines the user of s has typed
          screen,  \* screen[s]: what the client of s has printed
          before   \* history: before[m]: on the author's screen when m was typed

clientVars == <<up, down, typed, screen, before>>
systemVars == <<vars, clientVars>>

SystemInit ==
  /\ Init
  /\ up = [s \in Session |-> <<>>]
  /\ down = [s \in Session |-> <<>>]
  /\ typed = [s \in Session |-> 0]
  /\ screen = [s \in Session |-> <<>>]
  /\ before = [m \in Message |-> {}]

(* chat_client's main, write() and do_write(): a line goes out.             *)
TypeLine(s) ==
  LET m == Line(s, typed[s] + 1) IN
  /\ typed[s] < MaxTyped[s]
  /\ typed' = [typed EXCEPT ![s] = @ + 1]
  /\ up' = [up EXCEPT ![s] = Append(@, m)]
  /\ before' = [before EXCEPT ![m] = Range(screen[s])]
  /\ UNCHANGED <<vars, down, screen>>

(* chat_client's do_read_body(): a message is printed.                      *)
PrintLine(s) ==
  /\ down[s] # <<>>
  /\ screen' = [screen EXCEPT ![s] = Append(@, Head(down[s]))]
  /\ down' = [down EXCEPT ![s] = Tail(@)]
  /\ UNCHANGED <<vars, up, typed, before>>

(* The server's handlers, fed by the connection. *)
Connect(s) == Accept(s) /\ UNCHANGED clientVars

HeaderArrives(s) ==
  /\ up[s] # <<>>
  /\ ReadHeader(s)
  /\ UNCHANGED clientVars

BodyArrives(s) ==
  /\ up[s] # <<>>
  /\ ReadBody(s, Head(up[s]))
  /\ up' = [up EXCEPT ![s] = Tail(@)]
  /\ UNCHANGED <<down, typed, screen, before>>

Written(s) ==
  /\ WriteDone(s)
  /\ down' = [down EXCEPT ![s] = Append(@, Head(inflight[s]))]
  /\ UNCHANGED <<up, typed, screen, before>>

(* A connection breaks, which its two chains learn separately.              *)
Breaks(s) == (ReadFail(s) \/ WriteFail(s)) /\ UNCHANGED clientVars

SystemNext ==
  \E s \in Session :
    \/ TypeLine(s)
    \/ PrintLine(s)
    \/ Connect(s)
    \/ HeaderArrives(s)
    \/ BodyArrives(s)
    \/ Written(s)
    \/ Breaks(s)

SystemSpec == SystemInit /\ [][SystemNext]_systemVars

-----------------------------------------------------------------------------
(* Two users who both see two messages see them in the same order.          *)
ScreensAgree ==
  \A s, t \in Session :
    \A i, j \in DOMAIN screen[s], k, l \in DOMAIN screen[t] :
      /\ screen[s][i] = screen[t][k]
      /\ screen[s][j] = screen[t][l]
      => (i < j <=> k < l)

(* Nobody sees an answer before what it answers: a message that was on its  *)
(* author's screen when the author typed another is above that one on every *)
(* screen of the room, unless it is too old for that screen altogether.     *)
AnswersFollow ==
  \A s \in Session :
    \A j \in DOMAIN screen[s] :
      \A m \in before[screen[s][j]] :
        \/ \E i \in 1 .. j - 1 : screen[s][i] = m
        \/ \E i \in 1 .. skipped[s] : log[RoomOf[s]][i] = m

(* Every screen shows the lines of one author one after the other as they   *)
(* were typed, without one missing in between; the author's own screen too. *)
AuthorsInOrder ==
  \A s \in Session :
    \A i, j \in DOMAIN screen[s] :
      /\ i < j
      /\ screen[s][i][1] = screen[s][j][1]
      /\ \A k \in i + 1 .. j - 1 : screen[s][k][1] # screen[s][i][1]
      => screen[s][j][2] = screen[s][i][2] + 1
=============================================================================
