---------------------------- MODULE SearchClient ----------------------------
(* thrift_client's SearchClient and thrift_server's SearchProcessor, field  *)
(* by field.  Who reads a struct takes the fields it knows, skips all       *)
(* others, and must leave the stream where the next message begins: the     *)
(* other side may have been generated from another version of the service.  *)
EXTENDS Integers, Sequences, SequencesExt

CONSTANTS Id,        \* what is asked for
          Extra,     \* fields of other versions, each a sequence of tokens
          MaxCalls   \* bound of the instances: calls on the connection
ASSUME IdAssumption == Id \subseteq Int
ASSUME CallsAssumption == MaxCalls \in Nat

VARIABLES
  version,  \* what the two sides do differently from this source
  pc,       \* "idle" or "processing", "header" or "body" of a message
  in,       \* in[e]: what is on its way to end e, as tokens
  stack,    \* stack[e]: the structs that e is in the middle of
  taken,    \* taken[e]: the fields of args, and of the caller's Response
  asked,    \* the last call: its method and its argument
  outcome,  \* what came of it
  calls,    \* how many there were
  up        \* whether the connection is up

vars == <<version, pc, in, stack, taken, asked, outcome, calls, up>>

(* A value holds what the properties ask for: numbers are numbers, and a    *)
(* string is what it is made of.                                            *)
Number(n) == <<n>>
Text(s, n) == <<s, n>>
Token(type, fid, val) == [type |-> type, fid |-> fid, val |-> val]
STOP == Token("STOP", 0, <<>>)

Method == {"searchName", "other"}
Blank == [id |-> Number(0), name |-> Text("", 0), success |-> FALSE]

(* method: which one the client has; more: the fields its args have more,   *)
(* and those of the Response; success: the type of the result.              *)
Init ==
  /\ version \in [method : Method, more : Extra, success : {"STRUCT", "STRING"}]
  /\ pc = [client |-> "idle", server |-> "header"]
  /\ in = [client |-> <<>>, server |-> <<>>]
  /\ stack = [client |-> <<>>, server |-> <<>>]
  /\ taken = [client |-> Blank, server |-> Blank]
  /\ asked = [method |-> "searchName", id |-> 0]
  /\ outcome = "none" /\ calls = 0 /\ up = TRUE

-----------------------------------------------------------------------------
(* Reading a struct: args, presult, Response and TApplicationException.     *)

KnownFields == {<<"args", 1, "I32">>, <<"result", 0, "STRUCT">>,
                <<"Response", 1, "I32">>, <<"Response", 2, "STRING">>,
                <<"TApplicationException", 1, "STRING">>,
                <<"TApplicationException", 2, "I32">>}

Known(s, t) == <<s, t.fid, t.type>> \in KnownFields

(* Fields that may come with those of args and of Response: every struct    *)
(* among them is closed again, and outside of them nothing is known here.   *)
(* depth[k] is how many structs are open after the first k tokens.          *)
Nesting(f, depth) ==
  /\ depth[0] = 0 /\ depth[Len(f)] = 0
  /\ \A k \in 1 .. Len(f) :
       /\ depth[k - 1] = 0 => ~Known("args", f[k]) /\ ~Known("Response", f[k])
       /\ depth[k] = CASE f[k].type = "STRUCT" -> depth[k - 1] + 1
                       [] f[k].type = "STOP" -> depth[k - 1] - 1
                       [] OTHER -> depth[k - 1]
Fields(f) == \E depth \in [0 .. Len(f) -> 0 .. Len(f)] : Nesting(f, depth)
ASSUME ExtraAssumption == \A f \in Extra : f \in Seq(Range(f)) /\ Fields(f)

Stored(v, s, t) ==
  CASE s \in {"args", "Response"} /\ t.fid = 1 -> [v EXCEPT !.id = t.val]
    [] s = "Response" /\ t.fid = 2 -> [v EXCEPT !.name = t.val]
    [] s = "result" -> [v EXCEPT !.success = TRUE]
    [] OTHER -> v

(* The structs being read once token t of struct s has been: a struct is    *)
(* entered, to be read or to be skipped, and left at its end.               *)
Flat(e, s, t) ==  \* a mistake: a struct is skipped without its fields
  IF t.type = "STOP" THEN Tail(stack[e])
  ELSE IF Known(s, t) /\ t.type = "STRUCT" THEN <<"Response">> \o stack[e]
  ELSE stack[e]
Mixed(e, s, t) ==  \* a mistake: any struct is read as a Response
  IF t.type = "STOP" THEN Tail(stack[e])
  ELSE IF t.type = "STRUCT" THEN <<"Response">> \o stack[e]
  ELSE stack[e]
Nested(e, s, t) ==
  IF t.type = "STOP" THEN Tail(stack[e])
  ELSE IF t.type = "STRUCT"
    THEN <<IF Known(s, t) THEN "Response" ELSE "skipped">> \o stack[e]
  ELSE stack[e]

ReadField(e) ==
  LET s == Head(stack[e])
      t == Head(in[e])
  IN
  /\ pc[e] = "body"
  /\ stack[e] # <<>> /\ in[e] # <<>>
  /\ in' = [in EXCEPT ![e] = Tail(@)]
  /\ taken' = [taken EXCEPT ![e] = IF Known(s, t) THEN Stored(@, s, t) ELSE @]
  /\ stack' = [stack EXCEPT ![e] = Nested(e, s, t)]
  /\ UNCHANGED <<version, pc, asked, outcome, calls, up>>

-----------------------------------------------------------------------------
(* The client.                                                              *)

(* send_searchName, or the same of another method of a newer service.       *)
CallMessage(i) ==
  <<Token("CALL", 0, version.method), Token("I32", 1, Number(i))>>
    \o version.more \o <<STOP>>
Send(i) ==
  /\ pc.client = "idle"
  /\ up
  /\ calls < MaxCalls
  /\ calls' = calls + 1
  /\ asked' = [method |-> version.method, id |-> i]
  /\ in' = [in EXCEPT !.server = @ \o CallMessage(i)]
  /\ pc' = [pc EXCEPT !.client = "header"]
  /\ outcome' = "none"
  /\ UNCHANGED <<version, stack, taken, up>>

(* recv_searchName: the header tells what struct follows.                   *)
Receive ==
  /\ pc.client = "header"
  /\ in.client # <<>>
  /\ in' = [in EXCEPT !.client = Tail(@)]
  /\ stack' = [stack EXCEPT !.client =
       IF Head(in.client).type = "EXCEPTION" THEN <<"TApplicationException">>
                                             ELSE <<"result">>]
  /\ taken' = [taken EXCEPT !.client.success = FALSE]
  /\ pc' = [pc EXCEPT !.client = "body"]
  /\ outcome' = IF Head(in.client).type = "EXCEPTION" THEN "exception" ELSE "none"
  /\ UNCHANGED <<version, asked, calls, up>>

(* It has been read: recv_searchName returns, or throws. *)
Return ==
  /\ pc.client = "body"
  /\ stack.client = <<>>
  /\ outcome' = IF outcome = "exception" THEN "exception"
                ELSE IF taken.client.success THEN "returned" ELSE "missing"
  /\ pc' = [pc EXCEPT !.client = "idle"]
  /\ UNCHANGED <<version, in, stack, taken, asked, calls, up>>

(* The transport throws at the end of the stream. *)
Throw ==
  /\ \/ pc.client = "header"
     \/ pc.client = "body" /\ stack.client # <<>>
  /\ ~up /\ in.client = <<>>
  /\ outcome' = "lost"
  /\ pc' = [pc EXCEPT !.client = "idle"]
  /\ stack' = [stack EXCEPT !.client = <<>>]
  /\ UNCHANGED <<version, in, taken, asked, calls, up>>

-----------------------------------------------------------------------------
(* The server.                                                              *)

(* dispatchCall: an unknown method's argument is skipped. *)
Dispatch ==
  /\ pc.server = "header"
  /\ in.server # <<>>
  /\ in' = [in EXCEPT !.server = Tail(@)]
  /\ stack' = [stack EXCEPT !.server =
       <<IF Head(in.server).val = "searchName" THEN "args" ELSE "skipped">>]
  /\ taken' = [taken EXCEPT !.server = Blank]
  /\ pc' = [pc EXCEPT !.server = "body"]
  /\ UNCHANGED <<version, asked, outcome, calls, up>>

ArgsRead ==
  /\ pc.server = "body"
  /\ stack.server = <<>>
  /\ pc' = [pc EXCEPT !.server = "processing"]
  /\ UNCHANGED <<version, in, stack, taken, asked, outcome, calls, up>>

(* What goes out: the answer, or an exception where the method is unknown   *)
(* or SearchHandler throws.                                                 *)
Response(i) ==
  <<Token("STRUCT", 0, <<>>)>> \o version.more
    \o <<Token("I32", 1, Number(0)), Token("STRING", 2, Text("xiongyu: ", i)), STOP>>
Reply(i) ==
  <<Token("REPLY", 0, asked.method)>>
    \o (IF version.success = "STRUCT" THEN Response(i)
                                      ELSE <<Token("STRING", 0, Text("", 0))>>)
    \o <<STOP>>
Unflushed == <<>>  \* a mistake: the exception stays in the buffer
Refusal ==
  <<Token("EXCEPTION", 0, asked.method), Token("STRING", 1, Text("", 0)),
    Token("I32", 2, Number(0)), STOP>>
Refused == asked.method # "searchName" \/ taken.server.id[1] < 1000

Process ==
  /\ pc.server = "processing"
  /\ in' = [in EXCEPT !.client = @ \o (IF ~up THEN <<>>
                                       ELSE IF Refused THEN Refusal
                                       ELSE Reply(taken.server.id[1]))]
  /\ pc' = [pc EXCEPT !.server = "header"]
  /\ UNCHANGED <<version, stack, taken, asked, outcome, calls, up>>

(* The connection is lost, with what was on its way or the end of it.       *)
Disconnect ==
  /\ up
  /\ up' = FALSE
  /\ \E n \in 0 .. Len(in.client) :
       in' = [client |-> SubSeq(in.client, 1, n), server |-> <<>>]
  /\ UNCHANGED <<version, pc, stack, taken, asked, outcome, calls>>

Client == Receive \/ ReadField("client") \/ Return \/ Throw
Server == Dispatch \/ ReadField("server") \/ ArgsRead \/ Process
Next == (\E i \in Id : Send(i)) \/ Client \/ Server \/ Disconnect

(* Both programs run.  A call need not be made, nor the connection be lost. *)
Spec == Init /\ [][Next]_vars /\ WF_vars(Client) /\ WF_vars(Server)

-----------------------------------------------------------------------------
(* Between two calls nothing is left of the first one in either stream, nor *)
(* is the server in the middle of it: what is not known was skipped to its  *)
(* end, and no more than that.                                              *)
AtBoundary ==
  pc.client = "idle" /\ up =>
    in.client = <<>> /\ in.server = <<>> /\ pc.server = "header"

(* A call returns the name made of its own argument, whatever other fields  *)
(* came with it; it throws if there is no such method, if the id is below   *)
(* 1000, if the result is not a Response, or if the connection was lost.    *)
AnswerIsOwn ==
  pc.client = "idle" =>
    /\ outcome = "lost" => ~up
    /\ outcome = "exception" => asked.method # "searchName" \/ asked.id < 1000
    /\ outcome = "missing" => version.success # "STRUCT"
    /\ outcome = "returned" => /\ version.success = "STRUCT" /\ asked.id >= 1000
                               /\ taken.client.name = Text("xiongyu: ", asked.id)

(* Every call ends. *)
EveryCallEnds == pc.client # "idle" ~> pc.client = "idle"
=============================================================================
