------------------------------ MODULE MoveGen -------------------------------
(***************************************************************************)
(* gen/fastgen.go: the generators of pseudo-legal moves, the legality      *)
(* tests, and the static exchange evaluation.                              *)
(*                                                                         *)
(* A generator is the sequence of the sets of moves its loops add, so that *)
(* a move that two loops add is in the list twice.                         *)
(***************************************************************************)
EXTENDS Attacks, TLC

AsSeq(S) == FoldSet(LAMBDA m, s : Append(s, m), << >>, S)

\* The list that the loops of a generator fill.
ListOf(loops) ==
  LET filled[i \in 0..Len(loops)] == IF i = 0 THEN << >> ELSE filled[i - 1] \o AsSeq(loops[i])
  IN  filled[Len(loops)]

RankSet == [sd \in Sides |-> [r \in 0..7 |-> {sq \in Squares : RankSd(sq, sd) = r}]]

PieceMv(bd, fr, to) == Mv(fr, to, bd.square[fr], bd.square[to], None)
PawnMvs(bd, fr, to) ==
  {Mv(fr, to, Pawn, bd.square[to], pp) : pp \in IF IsPromotion(to) THEN Knight..Queen ELSE {None}}
PawnStep(bd, froms, d) == UNION {PawnMvs(bd, fr, fr + d) : fr \in froms}

PieceMovesFr(bd, fr, ts) ==
  {PieceMv(bd, fr, to) : to \in PieceAttacksFrom(bd, bd.square[fr], fr) \cap ts}
PieceMoves(bd, sd, pcs, ts) ==
  UNION {PieceMovesFr(bd, fr, ts) : fr \in UNION {PieceSd(bd, pc, sd) : pc \in pcs}}

AddPieceCaptures(bd, sd, ts) ==
  UNION {{PieceMv(bd, fr, to) : to \in {t \in PieceAttacks[bd.square[fr]][fr] \cap ts : LineIsEmpty(bd, fr, t)}} :
         fr \in Officers(bd, sd)}

AddPawnCaptures(bd, sd, ts) ==
  LET pawns == PieceSd(bd, Pawn, sd)
      on    == ts \cap bd.side[Opposite(sd)]
      Take(d) == PawnStep(bd, Shift(on, -d) \cap pawns, d)
  IN  IF sd = White THEN <<Take(-7), Take(9)>> ELSE <<Take(-9), Take(7)>>

AddEnPassant(bd, sd) ==
  IF bd.copy.epSq = NoSquare THEN {}
  ELSE {Mv(fr, bd.copy.epSq, Pawn, Pawn, None) :
        fr \in PieceSd(bd, Pawn, sd) \cap PawnAttacks[Opposite(sd)][bd.copy.epSq]}

AddCaptures(bd, sd) ==
  LET ts == bd.side[Opposite(sd)] IN
  AddPawnCaptures(bd, sd, ts) \o <<AddPieceCaptures(bd, sd, ts), AddEnPassant(bd, sd)>>

AddProms(bd, sd, ts) ==
  LET d == PawnInc(sd) IN
  <<PawnStep(bd, PieceSd(bd, Pawn, sd) \cap Shift(ts, -d) \cap RankSet[sd][6], d)>>

\* Pawn moves to ts that do not promote; for Black a single step looks at ts only.
AddPawnQuiets(bd, sd, ts) ==
  LET d == PawnInc(sd)
      pawns == PieceSd(bd, Pawn, sd)
      free  == Shift(Empty(bd), -d)
      one   == (pawns \cap Shift(ts, -d)) \ RankSet[sd][6]
  IN  << PawnStep(bd, IF sd = White THEN one \cap free ELSE one, d),
         PawnStep(bd, pawns \cap Shift(ts, -2 * d) \cap free \cap RankSet[sd][1], 2 * d) >>

\* Mutant: the square the king passes is not asked.
CanCastleThrough(bd, sd, wg) ==
  LET i == CastleIndex(sd, wg) IN i \in bd.copy.flags /\ LineIsEmpty(bd, Castle(i).KingFr, Castle(i).RookFr)
\* The king's own square and its target are left to the caller and to isLegal.
CanCastle(bd, sd, wg) ==
  LET i == CastleIndex(sd, wg) IN
  /\ i \in bd.copy.flags
  /\ LineIsEmpty(bd, Castle(i).KingFr, Castle(i).RookFr)
  /\ ~IsAttacked(bd, Castle(i).RookTo, Opposite(sd))

AddCastling(bd, sd) ==
  {PieceMv(bd, Castle(CastleIndex(sd, wg)).KingFr, Castle(CastleIndex(sd, wg)).KingTo) :
     wg \in {w \in {0, 1} : CanCastle(bd, sd, w)}}

AddQuietMoves(bd, sd) ==
  <<AddCastling(bd, sd), PieceMoves(bd, sd, Knight..King, Empty(bd))>>
    \o AddPawnQuiets(bd, sd, Empty(bd))

AddEvasionCaptures(bd, sd, to) ==
  UNION {UNION {IF pc = Pawn THEN PawnMvs(bd, fr, to) ELSE {PieceMv(bd, fr, to)} :
                fr \in PieceSd(bd, pc, sd) \cap AttacksTo(bd, pc, sd, to)} : pc \in Pawn..Queen}

AddEvasions(bd, sd, attacks) ==
  LET king  == bd.king[sd]
      steps == PieceMovesFr(bd, king, Squares \ (bd.side[sd] \cup attacks.avoid))
      from  == Min(attacks.squares)
      ts    == Between[king][from]
  IN  IF Cardinality(attacks.squares) # 1 THEN <<steps>>
      ELSE <<steps, AddEvasionCaptures(bd, sd, from), AddEnPassant(bd, sd)>>
             \o IF ts = {} THEN << >>
                ELSE AddPawnQuiets(bd, sd, ts) \o AddProms(bd, sd, ts)
                       \o <<PieceMoves(bd, sd, Knight..Queen, ts)>>

\* Quiet moves that give check where no pawn can take: by uncovering a
\* slider, by a pawn, by a knight, by a slider.
AddChecks(bd, sd) ==
  LET opp    == Opposite(sd)
      king   == bd.king[opp]
      pinned == PinnedBy(bd, king, sd)
      safe   == Empty(bd) \ PawnAttacksFrom(bd, opp)
      Target(pc) == PseudoAttacksTo(pc, sd, king) \cap safe
      Direct(pc, fr) == {to \in PieceAttacks[pc][fr] \cap Target(pc) :
                           pc = Knight \/ (LineIsEmpty(bd, fr, to) /\ LineIsEmpty(bd, to, king))}
      DirectBy(pc) == UNION {{PieceMv(bd, fr, to) : to \in Direct(pc, fr)} :
                             fr \in PieceSd(bd, pc, sd) \ pinned}
  IN  << UNION {PieceMovesFr(bd, fr, safe \ Ray(king, fr)) : fr \in Officers(bd, sd) \cap pinned} >>
      \o AddPawnQuiets(bd, sd, Target(Pawn))
      \o <<DirectBy(Knight), DirectBy(Bishop), DirectBy(Rook), DirectBy(Queen)>>

\* Pushes to the seventh rank, and to the sixth when the way ahead is free of
\* pawns and no pawn can take.
PawnPushes(bd, sd) ==
  LET ahead == Shift(Squares \ bd.piece[Pawn], -PawnInc(sd))
      ts == RankSet[sd][6] \cup ((RankSet[sd][5] \ PawnAttacksFrom(bd, Opposite(sd))) \cap ahead)
  IN  AddPawnQuiets(bd, sd, ts \cap Empty(bd))

-----------------------------------------------------------------------------
\* IsLegalMv makes the move and looks; isLegal does so for en passant only.
IsLegalMv(bd, mv) == IsLegal(Move(bd, mv))

IsLegalFast(bd, attacks, mv) ==
  IF IsEnPassant(bd, mv) THEN IsLegalMv(bd, mv)
  ELSE IF mv.pc = King THEN ~IsAttacked(bd, mv.to, Opposite(bd.stm))
  ELSE mv.fr \in attacks.pinned => mv.to \in Ray(bd.king[bd.stm], mv.fr)

GenPseudos(bd) ==
  LET sd == bd.stm IN
  IF IsInCheck(bd) THEN AddEvasions(bd, sd, InitAttacks(bd, sd))
  ELSE AddCaptures(bd, sd) \o AddProms(bd, sd, Empty(bd)) \o AddQuietMoves(bd, sd)

LegalMoves(bd) == SelectSeq(ListOf(GenPseudos(bd)), LAMBDA mv : IsLegalMv(bd, mv))

\* A killer may be tried: it is a quiet move of this position, but for its legality.
IsQuiet(bd, mv) ==
  /\ SquareIs(bd, mv.fr, mv.pc, bd.stm)
  /\ bd.square[mv.to] = None
  /\ LET inc == PawnInc(bd.stm) IN
     IF mv.pc # Pawn THEN PieceAttack(bd, mv.pc, mv.fr, mv.to)
     ELSE \/ mv.to - mv.fr = inc /\ ~IsPromotion(mv.to)
          \/ /\ mv.to - mv.fr = 2 * inc /\ RankSd(mv.fr, bd.stm) = 1
             /\ bd.square[mv.fr + inc] = None

-----------------------------------------------------------------------------
Value(pc) == <<100, 325, 325, 500, 975, 10000, 0>>[pc + 1]

\* The least valuable attacker of to among all, NoSquare when there is none.
PickLva(bd, to, all, sd) ==
  LET Attackers(pc) == {fr \in PieceSd(bd, pc, sd) \cap PseudoAttacksTo(pc, sd, to) \cap all :
                          all \cap Between[fr][to] = {}}
      pcs == {pc \in Pieces : Attackers(pc) # {}}
  IN  IF pcs = {} THEN NoSquare ELSE Min(Attackers(Min(pcs)))

\* moveVal: the man on fr takes what stands on the square; what it wins and
\* what then stands there.  After the king has been taken nobody takes back.
MoveVal(bd, to, se, fr) ==
  LET delta == IF bd.square[fr] = Pawn /\ IsPromotion(to) THEN Value(Queen) - Value(Pawn) ELSE 0
      val   == se.value + delta
  IN  [val |-> val,
       se  |-> [value |-> Value(bd.square[fr]) + delta, color |-> Opposite(se.color),
                all |-> IF val = Value(King) THEN {} ELSE se.all \ {fr}]]

\* The window as the side to take back sees it, once val has been won.
SeeWindow(val, alpha, beta) == [alpha |-> val - beta, beta |-> val - alpha]

\* seeRec between alpha and beta: stand pat, give up, or take with the least man.
SeeRec(bd, to, start, a0, b0) ==
  LET rec[se \in [value : Int, color : Sides, all : SUBSET Squares], alpha \in Int, beta \in Int] ==
        LET lower == IF alpha < 0 THEN 0 ELSE alpha
            fr    == PickLva(bd, to, se.all, se.color)
            mv    == MoveVal(bd, to, se, fr)
            w     == SeeWindow(mv.val, lower, beta)
            won   == mv.val - rec[mv.se, w.alpha, w.beta]
        IN  IF alpha < 0 /\ beta <= 0 THEN 0
            ELSE IF se.value <= lower THEN se.value
            ELSE IF fr = NoSquare THEN 0
            ELSE IF won > 0 THEN won ELSE 0
  IN  rec[start, a0, b0]

\* The first capture of an exchange: what it wins, an under-promotion corrected.
FirstTake(bd, mv) ==
  LET take  == MoveVal(bd, mv.to, [value |-> Value(bd.square[mv.to]), all |-> bd.all,
                                   color |-> SquareSide(bd, mv.fr)], mv.fr)
      delta == IF mv.pc = Pawn /\ IsPromotion(mv.to) THEN Value(Queen) - Value(mv.pp) ELSE 0
  IN  [val |-> take.val - delta, se |-> [take.se EXCEPT !.value = @ - delta]]

See(bd, mv, alpha, beta) ==
  LET t == FirstTake(bd, mv)
      w == SeeWindow(t.val, alpha, beta)
  IN  t.val - SeeRec(bd, mv.to, t.se, w.alpha, w.beta)

NoSacrifice(bd, mv) ==
  \/ mv.pc = King
  \/ Value(mv.cp) >= Value(mv.pc)
  \/ mv.pp \in {None, Queen} /\ See(bd, mv, -1, 0) >= 0

IsWin(bd, mv) ==
  \/ mv.pc = King
  \/ Value(mv.cp) > Value(mv.pc)
  \/ mv.pp \in {None, Queen} /\ See(bd, mv, 0, 1) > 0

IsRecapture(bd, mv) == mv.to = bd.copy.recap /\ IsWin(bd, mv)
=============================================================================
