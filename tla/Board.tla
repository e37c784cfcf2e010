------------------------------- MODULE Board --------------------------------
(***************************************************************************)
(* The board of board/board.go with its copies of the position: one        *)
(* bitboard per piece and per side, the piece on each square, the kings,   *)
(* the counts, the incremental keys, and the undo stack.                   *)
(*                                                                         *)
(* A square is 8 * file + rank and a bitboard a set of squares.  A Zobrist *)
(* key is the set of the indexes of randVal that have been XORed into it,  *)
(* so that two keys are equal when their indexes are.                      *)
(***************************************************************************)
EXTENDS Integers, Sequences, FiniteSetsExt

White == 0
Black == 1
Sides == {White, Black}
Opposite(sd) == 1 - sd

Pawn   == 0
Knight == 1
Bishop == 2
Rook   == 3
Queen  == 4
King   == 5
None   == 6
Pieces == Pawn..King

Squares  == 0..63
NoSquare == -1
File(sq) == sq \div 8
Rank(sq) == sq % 8
RankSd(sq, sd) == IF sd = White THEN Rank(sq) ELSE 7 - Rank(sq)
IsPromotion(sq) == Rank(sq) \in {0, 7}
SameColor(s1, s2) == (File(s1) + Rank(s1)) % 2 = (File(s2) + Rank(s2)) % 2
PawnInc(sd) == IF sd = White THEN 1 ELSE -1
Distance(a, b) == IF a < b THEN b - a ELSE a - b

MakeP12(pc, sd) == 2 * pc + sd
P12s == 0..11
Phase(pc) == CASE pc \in {Knight, Bishop} -> 1 [] pc = Rook -> 2 [] pc = Queen -> 4 [] OTHER -> 0

\* A move of move/move.go: None is the code 0 and Null the code 1.
Mv(fr, to, pc, cp, pp) == [fr |-> fr, to |-> to, pc |-> pc, cp |-> cp, pp |-> pp]
Code(mv)   == (((mv.pc * 8 + mv.cp) * 8 + mv.pp) * 64 + mv.fr) * 64 + mv.to
NoMove     == Mv(0, 0, 0, 0, 0)
NullMove   == Mv(0, 1, 0, 0, 0)
IsTactical(mv) == mv.cp # None \/ mv.pp # None
IsCastling(mv) == mv.pc = King /\ Distance(mv.to, mv.fr) = 16

\* hash/hash.go: where each part of a position has its random number.
StmIx            == 12 * 64
StmKey(sd)       == IF sd = White THEN {} ELSE {StmIx}
FlagKey(flags)   == {StmIx + 1 + i : i \in flags}
PieceKey(p12, sq) == {p12 * 64 + sq}
EnPassantKey(sq) == IF sq = NoSquare THEN {} ELSE {StmIx + 5 + File(sq)}

\* board/castling.go: the castlings 0..3 and the squares that void each right.
CastleInfo == << [KingFr |-> 32, KingTo |-> 48, RookFr |-> 56, RookTo |-> 40],
                 [KingFr |-> 32, KingTo |-> 16, RookFr |->  0, RookTo |-> 24],
                 [KingFr |-> 39, KingTo |-> 55, RookFr |-> 63, RookTo |-> 47],
                 [KingFr |-> 39, KingTo |-> 23, RookFr |->  7, RookTo |-> 31] >>
Castle(i)       == CastleInfo[i + 1]
CastleIndex(sd, wg) == 2 * sd + wg
\* Mutant: a move from or to the square of a rook leaves the right.
CastleMaskOfKing(sq) == {i \in 0..3 : sq = Castle(i).KingFr}
CastleMask(sq)  == {i \in 0..3 : sq \in {Castle(i).KingFr, Castle(i).RookFr}}

-----------------------------------------------------------------------------
PieceSd(bd, pc, sd) == bd.piece[pc] \cap bd.side[sd]
Empty(bd)           == Squares \ bd.all
Officers(bd, sd)    == bd.side[sd] \ bd.piece[Pawn]     \* Pieces(sd)
SquareSide(bd, sq)  == IF sq \in bd.side[Black] THEN Black ELSE White
SquareIs(bd, sq, pc, sd) == bd.square[sq] = pc /\ SquareSide(bd, sq) = sd
Ply(bd)             == Len(bd.stack) - bd.rootIx

PositionKey(copy) == SymDiff(SymDiff(copy.key, FlagKey(copy.flags)), EnPassantKey(copy.epSq))
Key(bd)           == PositionKey(bd.copy)
EvalKey(bd)       == SymDiff(SymDiff(bd.copy.key, StmKey(bd.stm)), FlagKey(bd.copy.flags))

Clear ==
  [piece |-> [pc \in Pieces |-> {}], side |-> [sd \in Sides |-> {}], all |-> {},
   king |-> [sd \in Sides |-> NoSquare], count |-> [p \in P12s |-> 0],
   square |-> [sq \in Squares |-> None], stm |-> White,
   copy |-> [key |-> {}, pawnKey |-> {}, flags |-> {}, epSq |-> NoSquare, moves |-> 0,
             recap |-> NoSquare, phase |-> 0],
   rootIx |-> 0, stack |-> << >>]

\* The keys and the phase after a piece has appeared on sq (d = 1) or left it.
Rekey(copy, pc, sd, sq, d) ==
  LET k == PieceKey(MakeP12(pc, sd), sq) IN
  [copy EXCEPT !.key = SymDiff(@, k),
               !.pawnKey = IF pc = Pawn THEN SymDiff(@, k) ELSE @,
               !.phase = @ + d * Phase(pc)]

SetSquare(bd, pc, sd, sq, upd) ==
  [bd EXCEPT !.piece[pc] = @ \cup {sq}, !.side[sd] = @ \cup {sq}, !.square[sq] = pc,
             !.king[sd] = IF pc = King THEN sq ELSE @,
             !.count[MakeP12(pc, sd)] = @ + 1,
             !.copy = IF upd THEN Rekey(@, pc, sd, sq, 1) ELSE @]

ClearSquare(bd, pc, sd, sq, upd) ==
  [bd EXCEPT !.piece[pc] = @ \ {sq}, !.side[sd] = @ \ {sq}, !.square[sq] = None,
             !.count[MakeP12(pc, sd)] = @ - 1,
             !.copy = IF upd THEN Rekey(@, pc, sd, sq, -1) ELSE @]

MoveSquare(bd, pc, sd, fr, to, upd) ==
  SetSquare(ClearSquare(bd, pc, sd, fr, upd), pc, sd, to, upd)

FlipStm(bd) == [bd EXCEPT !.stm = Opposite(@), !.copy.key = SymDiff(@, {StmIx})]
Update(bd)  == [bd EXCEPT !.all = bd.side[White] \cup bd.side[Black]]

\* A pawn of sd may take on sq, the square an enemy pawn has passed.
PawnIsAttacked(bd, sq, sd) ==
  LET behind == sq - PawnInc(sd) IN
  \/ File(sq) # 0 /\ SquareIs(bd, behind - 8, Pawn, sd)
  \/ File(sq) # 7 /\ SquareIs(bd, behind + 8, Pawn, sd)

CastleOk(bd, i) ==
  SquareIs(bd, Castle(i).KingFr, King, i \div 2) /\ SquareIs(bd, Castle(i).RookFr, Rook, i \div 2)

-----------------------------------------------------------------------------
\* fen: the men as a set of <<piece, side, square>>, the side to move, the
\* castling rights and the en passant square that are claimed, the clock.
SetFen(fen) ==
  LET men  == FoldSet(LAMBDA m, bd : SetSquare(bd, m[1], m[2], m[3], TRUE), Clear, fen.men)
      copy == [men.copy EXCEPT
                 !.key = SymDiff(@, StmKey(fen.stm)),
                 !.flags = {i \in fen.flags : CastleOk(men, i)},
                 !.epSq = IF fen.epSq # NoSquare /\ PawnIsAttacked(men, fen.epSq, fen.stm)
                          THEN fen.epSq ELSE NoSquare,
                 !.moves = fen.moves]
  IN  Update([men EXCEPT !.stm = fen.stm, !.copy = copy])

\* The men and the state that CreateFen writes out.
CreateFen(bd) ==
  [men |-> {<<bd.square[sq], SquareSide(bd, sq), sq>> : sq \in {s \in Squares : bd.square[s] # None}},
   stm |-> bd.stm, flags |-> bd.copy.flags, epSq |-> bd.copy.epSq, moves |-> bd.copy.moves]

SetRoot(bd) == [bd EXCEPT !.rootIx = Len(bd.stack)]

\* make: the move that a move of the position command names.
FromString(bd, fr, to, prom) ==
  LET pc == bd.square[fr]
      cp == IF pc = Pawn /\ to = bd.copy.epSq THEN Pawn ELSE bd.square[to]
      pp == IF pc = Pawn /\ IsPromotion(to) /\ prom = None THEN Queen ELSE prom
  IN  Mv(fr, to, pc, cp, pp)

\* A castling moves the rook of its wing, from fr to to or back.
CastlingRook(bd, mv, sd, back) ==
  LET c == Castle(CastleIndex(sd, IF mv.to < mv.fr THEN 1 ELSE 0)) IN
  IF back THEN MoveSquare(bd, Rook, sd, c.RookTo, c.RookFr, FALSE)
          ELSE MoveSquare(bd, Rook, sd, c.RookFr, c.RookTo, TRUE)

CapSq(bd, mv) ==
  IF mv.pc = Pawn /\ mv.to = bd.copy.epSq THEN mv.to - PawnInc(bd.stm)
  ELSE IF mv.cp # None THEN mv.to ELSE NoSquare

\* The men after a move and the square it captures on, keys and phase included.
MoveMen(bd, mv, sd) ==
  LET capSq == CapSq(bd, mv)
      b1 == IF capSq = NoSquare THEN bd ELSE ClearSquare(bd, mv.cp, Opposite(sd), capSq, TRUE)
      b2 == IF mv.pp # None
            THEN SetSquare(ClearSquare(b1, Pawn, sd, mv.fr, TRUE), mv.pp, sd, mv.to, TRUE)
            ELSE MoveSquare(b1, mv.pc, sd, mv.fr, mv.to, TRUE)
  IN  FlipStm(IF IsCastling(mv) THEN CastlingRook(b2, mv, sd, FALSE) ELSE b2)

Move(bd, mv) ==
  LET sd   == bd.stm
      undo == [copy |-> bd.copy, move |-> mv, capSq |-> CapSq(bd, mv), castling |-> IsCastling(mv)]
      men  == MoveMen(bd, mv, sd)
      mid  == (mv.fr + mv.to) \div 2
      copy == [men.copy EXCEPT
                 !.flags = (@ \ CastleMask(mv.fr)) \ CastleMask(mv.to),
                 !.epSq = IF /\ mv.pc = Pawn /\ Distance(mv.to, mv.fr) = 2
                             /\ PawnIsAttacked(men, mid, Opposite(sd))
                          THEN mid ELSE NoSquare,
                 !.moves = IF mv.cp # None \/ mv.pc = Pawn THEN 0 ELSE @ + 1,
                 !.recap = IF IsTactical(mv) THEN mv.to ELSE NoSquare]
  IN  Update([men EXCEPT !.stack = Append(@, undo), !.copy = copy])

MakeFenMve(bd, mv) == Move(bd, mv)     \* a move of the game, by the same text

PopStack(bd) == [bd EXCEPT !.stack = SubSeq(@, 1, Len(@) - 1)]
LastUndo(bd) == bd.stack[Len(bd.stack)]

\* Mutant: the castled rook is not brought back.
UndoRookStays(bd, undo) == bd
UndoRook(bd, undo) ==
  IF undo.castling THEN CastlingRook(bd, undo.move, Opposite(bd.stm), TRUE) ELSE bd

UndoMen(bd, undo) ==
  LET mv == undo.move
      xd == bd.stm
      sd == Opposite(xd)
      b1 == IF mv.pp # None
            THEN SetSquare(ClearSquare(bd, mv.pp, sd, mv.to, FALSE), Pawn, sd, mv.fr, FALSE)
            ELSE MoveSquare(bd, mv.pc, sd, mv.to, mv.fr, FALSE)
  IN  IF mv.cp # None THEN SetSquare(b1, mv.cp, xd, undo.capSq, FALSE) ELSE b1

Undo(bd) ==
  LET undo == LastUndo(bd)
      men  == UndoMen(UndoRook(bd, undo), undo)
  IN  Update([PopStack(FlipStm(men)) EXCEPT !.copy = undo.copy])

MoveNull(bd) ==
  LET undo == [copy |-> bd.copy, move |-> NullMove, capSq |-> NoSquare, castling |-> FALSE]
      men  == FlipStm(bd)
      copy == [men.copy EXCEPT !.epSq = NoSquare, !.moves = 0, !.recap = NoSquare]
  IN  Update([men EXCEPT !.stack = Append(@, undo), !.copy = copy])

UndoNull(bd) == Update([PopStack(FlipStm(bd)) EXCEPT !.copy = LastUndo(bd).copy])

-----------------------------------------------------------------------------
\* Neither side can mate: no pawn, rook or queen, and at most one knight or
\* bishops of one colour.
IsDeadMaterial(bd) ==
  LET knights == bd.count[MakeP12(Knight, White)] + bd.count[MakeP12(Knight, Black)]
      bishops == bd.piece[Bishop]
  IN  /\ bd.piece[Pawn] \cup bd.piece[Rook] \cup bd.piece[Queen] = {}
      /\ IF knights # 0 THEN bishops = {} /\ knights = 1
                        ELSE \A a, b \in bishops : SameColor(a, b)

\* Mutant: the nearest repetition is skipped.
RepeatsFrom6(bd) ==
  {i \in 6..Len(bd.stack) : /\ i % 2 = 0 /\ i <= bd.copy.moves
                            /\ PositionKey(bd.stack[Len(bd.stack) - i + 1].copy) = Key(bd)}
\* The indexes from the top of the stack that the repetition loop compares.
Repeats(bd) ==
  {i \in 4..Len(bd.stack) : /\ i % 2 = 0 /\ i <= bd.copy.moves
                            /\ PositionKey(bd.stack[Len(bd.stack) - i + 1].copy) = Key(bd)}

DrawState(bd) ==
  LET matches == Cardinality(Repeats(bd)) IN
  CASE IsDeadMaterial(bd) -> "DeadMaterialDraw"
    [] ~IsDeadMaterial(bd) /\ bd.copy.moves >= 100 -> "FiftyMoveDraw"
    [] ~IsDeadMaterial(bd) /\ bd.copy.moves < 100 /\ matches >= 2 -> "ThreefoldRepetition"
    [] ~IsDeadMaterial(bd) /\ bd.copy.moves < 100 /\ matches = 1 /\ Ply(bd) > 0 -> "SearchRepetition"
    [] OTHER -> "NoDraw"

\* A move of the table may be tried: its squares hold what it says.
IsMove(bd, mv) ==
  /\ SquareIs(bd, mv.fr, mv.pc, bd.stm)
  /\ ~(bd.square[mv.to] # None /\ SquareSide(bd, mv.to) = bd.stm)
  /\ IF mv.pc = Pawn /\ mv.to = bd.copy.epSq THEN mv.cp = Pawn ELSE bd.square[mv.to] = mv.cp
  /\ mv.cp # King

LoneKing(bd, sd) == \A pc \in Knight..Queen : bd.count[MakeP12(pc, sd)] = 0
=============================================================================
