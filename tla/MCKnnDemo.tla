----------------------------- MODULE MCKnnDemo -----------------------------
(* Instances of KnnDemo for TLC. *)
EXTENDS KnnDemo

SomeSizes == {<<>>, <<0, 0>>, <<3>>, <<2, 2>>, <<1, 3>>, <<3, 0>>, <<1, 2, 2>>,
              <<2, 1, 1>>, <<0, 2, 1>>}
TwoTwoOne == <<2, 2, 1>>
SomeTexts == DOMAIN Noted \cup {<<>>, <<255>>, <<128, 0>>}
=============================================================================
