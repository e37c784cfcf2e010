------------------------------ MODULE Attacks -------------------------------
(***************************************************************************)
(* eval/attacks.go: the attack tables AtkInit builds on the 16 x 8 board,  *)
(* and what the engine asks of them about a position: is a square          *)
(* attacked, who gives check, who is pinned, does a move give check.       *)
(***************************************************************************)
EXTENDS Board

\* On the 16 x 8 board a step off the edge is never a square.
To88(sq)     == sq + 8 * File(sq)
From88(s88)  == (s88 + (s88 % 8)) \div 2
Valid88(s88) == s88 \in 0..127 /\ s88 % 16 < 8

PawnInc88 == << {-15, 17}, {-17, 15} >>
KnightInc == {-33, -31, -18, -14, 14, 18, 31, 33}
BishopInc == {-17, -15, 15, 17}
RookInc   == {-16, -1, 1, 16}
QueenInc  == BishopInc \cup RookInc

Leaps(sq, incs)  == {From88(t) : t \in {u \in {To88(sq) + i : i \in incs} : Valid88(u)}}
Line(sq, inc)    == {From88(t) : t \in {u \in {To88(sq) + k * inc : k \in 1..7} : Valid88(u)}}
LineTable        == [sq \in Squares |-> [inc \in QueenInc |-> Line(sq, inc)]]
Lines(sq, incs)  == UNION {LineTable[sq][inc] : inc \in incs}
DeltaInc         == [fr \in Squares |-> [to \in Squares |->
                      IF \E i \in QueenInc : to \in LineTable[fr][i]
                      THEN CHOOSE i \in QueenInc : to \in LineTable[fr][i] ELSE 0]]

\* The squares between two squares, and those behind the second one.
Between == [fr \in Squares |-> [to \in Squares |->
              LET inc == DeltaInc[fr][to] IN
              IF inc = 0 THEN {} ELSE {s \in LineTable[fr][inc] : to \in LineTable[s][inc]}]]
Behind  == [fr \in Squares |-> [to \in Squares |->
              LET inc == DeltaInc[fr][to] IN IF inc = 0 THEN {} ELSE LineTable[to][inc]]]
Ray(fr, to) == Between[fr][to] \cup Behind[fr][to]

PawnAttacks  == [sd \in Sides |-> [sq \in Squares |-> Leaps(sq, PawnInc88[sd + 1])]]
PieceAttacks == [pc \in Knight..King |-> [sq \in Squares |->
                   CASE pc = Knight -> Leaps(sq, KnightInc)
                     [] pc = Bishop -> Lines(sq, BishopInc)
                     [] pc = Rook   -> Lines(sq, RookInc)
                     [] pc = Queen  -> Lines(sq, QueenInc)
                     [] pc = King   -> Leaps(sq, QueenInc)]]
\* The attacked squares with another attacked square behind them.
Blockers     == [pc \in Knight..King |-> [fr \in Squares |->
                   {sq \in PieceAttacks[pc][fr] : PieceAttacks[pc][fr] \cap Behind[fr][sq] # {}}]]

-----------------------------------------------------------------------------
LineIsEmpty(bd, fr, to) == bd.all \cap Between[fr][to] = {}

PseudoAttacksFrom(pc, sd, fr) == IF pc = Pawn THEN PawnAttacks[sd][fr] ELSE PieceAttacks[pc][fr]
PseudoAttacksTo(pc, sd, to)   == PseudoAttacksFrom(pc, Opposite(sd), to)

PieceAttacksFrom(bd, pc, fr) ==
  PieceAttacks[pc][fr] \ UNION {Behind[fr][sq] : sq \in bd.all \cap Blockers[pc][fr]}
AttacksTo(bd, pc, sd, to) ==
  IF pc = Pawn THEN PawnAttacks[Opposite(sd)][to] ELSE PieceAttacksFrom(bd, pc, to)

PieceAttack(bd, pc, fr, to) == to \in PieceAttacks[pc][fr] /\ LineIsEmpty(bd, fr, to)
Attack(bd, pc, sd, fr, to)  ==
  IF pc = Pawn THEN to \in PawnAttacks[sd][fr] ELSE PieceAttack(bd, pc, fr, to)

\* A shift of a bitboard: what leaves the 64 bits is lost, a file is 8 bits.
Shift(squares, n) == {s + n : s \in squares} \cap Squares
PawnAttacksFrom(bd, sd) ==
  LET fs == PieceSd(bd, Pawn, sd) IN
  IF sd = White THEN Shift(fs, -7) \cup Shift(fs, 9) ELSE Shift(fs, -9) \cup Shift(fs, 7)

SliderPseudoAttacksTo(bd, sd, to) ==
  UNION {PieceSd(bd, pc, sd) \cap PieceAttacks[pc][to] : pc \in Bishop..Queen}

IsAttacked(bd, to, sd) ==
  \/ PieceSd(bd, Pawn, sd) \cap PawnAttacks[Opposite(sd)][to] # {}
  \/ PieceSd(bd, Knight, sd) \cap PieceAttacks[Knight][to] # {}
  \/ PieceSd(bd, King, sd) \cap PieceAttacks[King][to] # {}
  \/ \E fr \in SliderPseudoAttacksTo(bd, sd, to) : LineIsEmpty(bd, fr, to)

IsInCheck(bd) == IsAttacked(bd, bd.king[bd.stm], Opposite(bd.stm))
IsLegal(bd)   == ~IsAttacked(bd, bd.king[Opposite(bd.stm)], bd.stm)

\* The men that stand alone between a slider of sd and the square to.
PinnedBy(bd, to, sd) ==
  UNION {b \in {bd.all \cap Between[fr][to] : fr \in SliderPseudoAttacksTo(bd, sd, to)} :
         Cardinality(b) = 1}

\* InitAttacks: who gives check to the king of sd (one man that is no slider
\* at most), the squares on the lines of the sliders among them, the pinned men.
InitAttacks(bd, sd) ==
  LET opp   == Opposite(sd)
      king  == bd.king[sd]
      leapers == (PieceSd(bd, Pawn, opp) \cap PawnAttacks[sd][king])
                   \cup (PieceSd(bd, Knight, opp) \cap PieceAttacks[Knight][king])
      sliders == {fr \in SliderPseudoAttacksTo(bd, opp, king) : LineIsEmpty(bd, fr, king)}
      first == IF leapers = {} THEN {} ELSE {Min(leapers)}
  IN  [squares |-> first \cup sliders,
       avoid   |-> UNION {Ray(fr, king) : fr \in sliders},
       pinned  |-> PinnedBy(bd, king, opp)]
InCheck(attacks) == attacks.squares # {}

AttackBehind(bd, fr, to, sd) ==
  \E sq \in SliderPseudoAttacksTo(bd, sd, to) \cap Behind[fr][to] :
    Cardinality(bd.all \cap Between[sq][fr]) <= 1

IsEnPassant(bd, mv) == mv.pc = Pawn /\ mv.to = bd.copy.epSq

InCheckAfterMove(bd, mv) == IsInCheck(Move(bd, mv))

\* Whether a move gives check, most often found without making it.
IsCheck(bd, mv) ==
  IF mv.pp # None \/ IsEnPassant(bd, mv) \/ IsCastling(mv) THEN InCheckAfterMove(bd, mv)
  ELSE LET sd   == SquareSide(bd, mv.fr)
           king == bd.king[Opposite(sd)]
       IN  \/ Attack(bd, mv.pc, sd, mv.to, king)
           \/ AttackBehind(bd, king, mv.fr, sd) /\ mv.to \notin Ray(king, mv.fr)
=============================================================================
