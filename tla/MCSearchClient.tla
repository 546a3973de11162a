--------------------------- MODULE MCSearchClient ---------------------------
(* Instances of SearchClient for TLC. *)
EXTENDS SearchClient

(* No other field; one more; a known number with another type; a struct     *)
(* with numbers that are known outside of it, and with a struct inside.     *)
SomeExtra ==
  {<<>>,
   <<Token("I32", 3, Number(9))>>,
   <<Token("STRING", 1, Text("", 0)), Token("I32", 2, Number(9))>>,
   <<Token("STRUCT", 4, <<>>), Token("STRING", 2, Text("", 0)), STOP>>,
   <<Token("STRUCT", 2, <<>>), Token("I32", 1, Number(9)),
     Token("STRUCT", 0, <<>>), Token("STRING", 2, Text("", 0)), STOP, STOP>>}
=============================================================================
