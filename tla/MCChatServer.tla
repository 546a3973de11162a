---------------------------- MODULE MCChatServer ----------------------------
(* Instances of ChatServer for TLC. *)
EXTENDS ChatServer

CONSTANTS s1, s2, s3, r1, r2

TwoRooms == [s \in Session |-> IF s = s3 THEN r2 ELSE r1]
=============================================================================
