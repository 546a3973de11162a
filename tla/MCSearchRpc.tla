---------------------------- MODULE MCSearchRpc ----------------------------
(* Instances of SearchRpc for TLC. *)
EXTENDS SearchRpc

CONSTANTS t1, t2, t3

(* One thread that is refused, and two whose answers differ. *)
OneEach == [t \in Thread |-> CASE t = t1 -> {1} [] t = t2 -> {1000} [] t = t3 -> {1001}]
=============================================================================
