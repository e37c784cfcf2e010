---------------------------- MODULE MCChessGame -----------------------------
\* Positions in which each rule of the board matters, and two shuffles for the draws.
EXTENDS ChessGame

W(pc, sq) == <<pc, White, sq>>
B(pc, sq) == <<pc, Black, sq>>
Fen(men, stm, flags, ep, moves) ==
  [men |-> men, stm |-> stm, flags |-> flags, epSq |-> ep, moves |-> moves]
Try(fen, lanes, plies) == [fen |-> fen, lanes |-> lanes, plies |-> plies]

\* Castling on both wings, lost by a capture of the rook, and a claim that is void.
Castlings == Fen({W(King, 32), W(Rook, 0), W(Rook, 56), B(King, 39), B(Rook, 7), B(Pawn, 58)},
                 White, 0..3, -1, 3)
\* A castling that gives check, another onto an attacked square.
Towers == Fen({W(King, 32), W(Rook, 0), W(Rook, 56), B(King, 47), B(Knight, 10)}, White, {0, 1}, -1, 0)
\* En passant on an open rank: Ka5, Pb5 against Pc7, Rh5.
EnPassants == Fen({W(King, 4), W(Pawn, 12), W(Pawn, 28), B(King, 55), B(Pawn, 22), B(Rook, 60)},
                  Black, {}, -1, 0)
\* A pawn about to promote by a push or a capture on each side, pinned men around.
Promotions == Fen({W(King, 32), W(Pawn, 14), W(Bishop, 40), B(King, 39), B(Rook, 7), B(Pawn, 49), B(Queen, 48)},
                  White, {}, -1, 9)
\* Batteries: discovered, double and knight checks, and exchanges on d5.
Batteries == Fen({W(King, 0), W(Rook, 32), W(Knight, 35), W(Bishop, 17), B(King, 38), B(Knight, 45), B(Pawn, 28), B(Queen, 31)},
                 White, {}, -1, 20)
\* Two kings and a bishop each, to shuffle; the clock far from and near the end.
Shuffle(clock) == Fen({W(King, 0), B(King, 63), W(Bishop, 16), B(Bishop, 47), W(Pawn, 2), B(Pawn, 3)},
                      White, {}, -1, clock)

MCStarts == {Try(Castlings, Squares, 2), Try(Towers, Squares, 2), Try(EnPassants, Squares, 2), Try(Promotions, Squares, 2),
             Try(Batteries, Squares, 2), Try(Shuffle(0), {0, 1, 63, 62}, 8), Try(Shuffle(96), {0, 1, 8, 63, 62}, 5)}
=============================================================================
