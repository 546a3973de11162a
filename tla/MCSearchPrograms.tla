-------------------------- MODULE MCSearchPrograms --------------------------
(* Instances of SearchPrograms for TLC. *)
EXTENDS SearchPrograms

CONSTANTS p1, p2, p3

(* Two as in the source, and one that would be answered. *)
Asked == [p \in Program |-> IF p = p3 THEN 1000 ELSE 1]
=============================================================================
