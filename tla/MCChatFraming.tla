--------------------------- MODULE MCChatFraming ---------------------------
(* Instances of ChatFraming for TLC.                                        *)
EXTENDS ChatFraming

Repeat(c, n) == [i \in 1 .. n |-> c]

(* Lines around the limit and around the lengths at which the header gets   *)
(* one more digit; of digits, so that a body can be taken for a header; and *)
(* with a NUL inside.                                                       *)
EdgeLines ==
  {Repeat("7", n) : n \in {0, 9, 10, 99, 100, 511, 512, 513}}
    \cup {<<"x", "nul", "7">>, <<"nul">>}
=============================================================================
