---------------------------- MODULE MCMoveList ------------------------------
EXTENDS MoveList

W(pc, sq) == <<pc, White, sq>>
B(pc, sq) == <<pc, Black, sq>>
Fen(men, stm, flags, ep) ==
  [men |-> men, stm |-> stm, flags |-> flags, epSq |-> ep, moves |-> 0]

\* White may castle; a bishop and a pawn can take; Black's rook may be lost.
Open == Fen({W(King, 32), W(Rook, 56), W(Pawn, 28), B(King, 39), B(Rook, 29), B(Pawn, 45)}, White, {0}, -1)
\* Black is in check from the rook on the e-file.
Check == Fen({W(King, 0), W(Rook, 32), B(King, 38), B(Knight, 44), B(Pawn, 27)}, Black, {}, -1)
\* A promotion, en passant, a pinned pawn.
Pawns == Fen({W(King, 4), W(Pawn, 28), W(Pawn, 14), B(King, 47), B(Rook, 60), B(Pawn, 36)}, White, {}, 37)

MCStarts == {[fen |-> Open,  cuts |-> {28, 37, 46}, hist |-> (7 * 64 + 37) :> 1824],
             [fen |-> Check, cuts |-> {}, hist |-> << >>],
             [fen |-> Pawns, cuts |-> {}, hist |-> << >>]}
=============================================================================
