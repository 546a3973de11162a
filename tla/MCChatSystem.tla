---------------------------- MODULE MCChatSystem ----------------------------
(* Instances of ChatSystem for TLC. *)
EXTENDS ChatSystem

CONSTANTS s1, s2, s3, r1

OneRoom == [s \in Session |-> r1]

(* An author, one who may answer, and one who looks on. *)
ThreeUsers == [s \in Session |-> CASE s = s1 -> 2 [] s = s2 -> 1 [] s = s3 -> 0]
Lines == UNION {{Line(s, n) : n \in 1 .. ThreeUsers[s]} : s \in Session}
=============================================================================
