---------------------------- MODULE MCTreeSearch ----------------------------
(* TreeSearch on a small game.                                              *)
EXTENDS TreeSearch

Pos(ply, moves) ==
  [ply |-> ply, moves |-> moves, captures |-> {}, forcing |-> {}, winning |-> {},
   recaptures |-> {}, losing |-> {}, check |-> FALSE, drawn |-> FALSE, pass |-> None, threat |-> 0, gain |-> 0]

\* From 1: 5, 7, 10, 11 and 12 are reached in two ways, 13 is mate, 15 is
\* stalemate, 9 a draw, 14 is 2 after a null move, 18 lies on the horizon.
\* From 19: 20 allows mate in two, 21 has the longer way.  From 27: 28 is mate.
\* From 30: 35 is mate in the horizon's forcing lines, 33 is a nearer one outside them.
Game ==
  <<Pos(0, <<2, 3, 4>>),
    [Pos(1, <<5, 6>>) EXCEPT !.pass = 14],
    [Pos(1, <<9, 5, 7, 10>>) EXCEPT !.captures = {7}, !.gain = 100, !.winning = {7}],
    Pos(1, <<7, 8>>),
    [Pos(2, <<11, 12>>) EXCEPT !.captures = {11, 12}, !.losing = {12}, !.gain = 50],
    [Pos(2, <<11, 15>>) EXCEPT !.captures = {11}, !.recaptures = {11}, !.gain = 100],
    [Pos(2, <<12>>) EXCEPT !.captures = {12}, !.losing = {12}, !.gain = 50],
    [Pos(2, <<13, 17>>) EXCEPT !.forcing = {13, 17}],
    [Pos(2, <<>>) EXCEPT !.drawn = TRUE],
    Pos(2, <<11, 12>>),
    [Pos(3, <<16, 26>>) EXCEPT !.captures = {16}, !.gain = 30],
    Pos(3, <<16, 26>>),
    [Pos(3, <<>>) EXCEPT !.check = TRUE],
    [Pos(2, <<11>>) EXCEPT !.threat = 20],
    Pos(3, <<>>),
    [Pos(4, <<18>>) EXCEPT !.captures = {18}, !.gain = 100],
    [Pos(3, <<16>>) EXCEPT !.check = TRUE],
    Pos(5, <<>>),
    Pos(0, <<20, 21>>),
    Pos(1, <<22>>),
    [Pos(1, <<23, 22>>) EXCEPT !.check = TRUE],
    [Pos(2, <<24, 25>>) EXCEPT !.forcing = {25}],
    Pos(2, <<24>>),
    Pos(3, <<16>>),
    [Pos(3, <<>>) EXCEPT !.check = TRUE],
    Pos(4, <<>>),
    Pos(0, <<29, 28>>),
    [Pos(1, <<>>) EXCEPT !.check = TRUE],
    Pos(1, <<9>>),
    Pos(0, <<31>>),
    [Pos(1, <<32, 33>>) EXCEPT !.captures = {33}, !.losing = {33}, !.forcing = {32}],
    [Pos(2, <<34>>) EXCEPT !.check = TRUE, !.captures = {34}, !.recaptures = {34}],
    [Pos(2, <<>>) EXCEPT !.check = TRUE],
    [Pos(3, <<35>>) EXCEPT !.captures = {35}],
    [Pos(4, <<>>) EXCEPT !.check = TRUE]>>

AllGames == {1, 19, 27, 30}

Four == {4}

Reduced == [d \in 1..9 |-> [m \in 1..9 |-> IF d >= 3 /\ m >= 4 THEN 1 ELSE 0]]

\* Evaluations without a pattern: near ones, which no pruning fires on by much, and
\* far ones.
Eval(k, scale) == [n \in Node |-> (((n * k) % 19) - 9) * scale]

NearAndFar == {Eval(k, 1) : k \in {5, 11}} \cup {Eval(k, 15) : k \in {2, 7, 8}}
=============================================================================
