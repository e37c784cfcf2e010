--------------------------- MODULE MCTimeControl ---------------------------
(* Clocks at the 60 ms that are kept back and a little above, with and       *)
(* without increment; one or many moves to go, opening and endgame.          *)
EXTENDS TimeControl

LowClocks   == {60, 100}
TheirClocks == {3000}
NoneOrSome  == {0, 20}
ToGo        == {0, 2}
BothStages  == {15, 35}
SomeTimes   == {2, 40}
=============================================================================
