----------------------------- MODULE ChessGame ------------------------------
(***************************************************************************)
(* The board in use: the position command sets it up and plays the game's  *)
(* moves on it (uci/uci.go), a search marks the root and then makes moves, *)
(* null moves and takes them back (search/search.go).                      *)
(***************************************************************************)
EXTENDS MoveGen

CONSTANT Starts    \* [fen, lanes, plies]: the squares moved to, the moves made at most

VARIABLES
  start,           \* the element of Starts that is played
  bd,
  rooted,          \* the root has been marked
  past             \* history: the positions before the current one

chessVars == <<start, bd, rooted, past>>

\* A position as the rules of chess see it.
Position(b) ==
  [at |-> [sq \in b.all |-> <<b.square[sq], SquareSide(b, sq)>>], stm |-> b.stm,
   rights |-> b.copy.flags, ep |-> b.copy.epSq, clock |-> b.copy.moves]

Rules == INSTANCE ChessRules WITH
           Starts <- {Position(SetFen(s.fen)) : s \in Starts}, game <- Append(past, Position(bd))

\* A legal position: a man to a square, a king to a side, the pawns inside, and
\* behind the en passant square the pawn that has passed it.
FenOk(fen) ==
  /\ fen.men \subseteq Pieces \X Sides \X Squares
  /\ \A m, n \in fen.men : m[3] = n[3] \/ (m[1] = King /\ n[1] = King /\ m[2] = n[2]) => m = n
  /\ \A sd \in Sides : \E m \in fen.men : m[1] = King /\ m[2] = sd
  /\ \A m \in fen.men : m[1] = Pawn => ~IsPromotion(m[3])
  /\ fen.stm \in Sides /\ fen.flags \subseteq 0..3 /\ fen.moves \in Nat
  /\ fen.epSq # NoSquare => /\ fen.epSq \in Squares /\ RankSd(fen.epSq, fen.stm) = 5
                            /\ \A m \in fen.men : m[3] # fen.epSq
                            /\ <<Pawn, Opposite(fen.stm), fen.epSq - PawnInc(fen.stm)>> \in fen.men
  /\ IsLegal(SetFen(fen))

ASSUME StartsAssumption == \A s \in Starts : FenOk(s.fen) /\ s.plies \in Nat

\* What the generator lets pass and IsLegal confirms.
Playable == {mv \in UNION {GenPseudos(bd)[i] : i \in DOMAIN GenPseudos(bd)} : IsLegalMv(bd, mv)}
Tried    == {mv \in Playable : mv.to \in start.lanes}

ChessInit == /\ start \in Starts /\ bd = SetFen(start.fen)
            /\ rooted = FALSE /\ past = << >>

Step(b) == bd' = b /\ past' = Append(past, Position(bd)) /\ UNCHANGED <<start, rooted>>

\* A move of the position command, made from its string.
FenMove == /\ ~rooted /\ Len(past) < start.plies
           /\ \E mv \in Tried : Step(MakeFenMve(bd, FromString(bd, mv.fr, mv.to, mv.pp)))

GoSearch == /\ ~rooted /\ rooted' = TRUE /\ bd' = SetRoot(bd)
            /\ UNCHANGED <<start, past>>

SearchMove == /\ rooted /\ Len(past) < start.plies
              /\ \E mv \in Tried : Step(Move(bd, mv))

SearchNull == /\ rooted /\ Len(past) < start.plies
              /\ ~IsInCheck(bd) /\ ~LoneKing(bd, bd.stm)
              /\ Step(MoveNull(bd))

SearchUndo == /\ rooted /\ Ply(bd) > 0
              /\ bd' = IF LastUndo(bd).move = NullMove THEN UndoNull(bd) ELSE Undo(bd)
              /\ past' = SubSeq(past, 1, Len(past) - 1)
              /\ UNCHANGED <<start, rooted>>

ChessNext == FenMove \/ GoSearch \/ SearchMove \/ SearchNull \/ SearchUndo
ChessSpec == ChessInit /\ [][ChessNext]_chessVars

-----------------------------------------------------------------------------
\* However moves, null moves, castlings, promotions and en passant captures
\* have been made and taken back, the board is the one that its own FEN sets
\* up: the bitboards, the kings, the counts, the
\* phase and both keys are those of the squares; the castling rights still have
\* their king and rook, and the en passant square a pawn that may take on it.
BoardConsistent ==
  LET fresh == SetFen(CreateFen(bd)) IN
  /\ bd = [fresh EXCEPT !.stack = bd.stack, !.rootIx = bd.rootIx, !.copy.recap = bd.copy.recap]
  /\ \A sd \in Sides : PieceSd(bd, King, sd) = {bd.king[sd]}
  /\ bd.piece[Pawn] \cap (RankSet[White][0] \cup RankSet[White][7]) = {}
  /\ EvalKey(bd) = SymDiff(Key(fresh), SymDiff(StmKey(bd.stm), EnPassantKey(bd.copy.epSq)))

\* A legal move made is a move of chess, the position before it comes back
\* when it is taken back, and nothing else ever happens to the position.
IsChess == Rules!Spec

\* The generator with its legality test finds every legal move of the position
\* and no other, each once.
MovesAreTheRules ==
  LET ml == LegalMoves(bd) IN
  /\ {<<ml[i].fr, ml[i].to, ml[i].pp>> : i \in DOMAIN ml} = Rules!Legal(Position(bd))
  /\ Cardinality({ml[i] : i \in DOMAIN ml}) = Len(ml)

Same(p, q) == [p EXCEPT !.clock = 0] = [q EXCEPT !.clock = 0]

\* A position is called drawn by repetition when it has stood on the board
\* before: twice, or once if the search has made a move since the root; and a
\* third occurrence since the last null move is never missed.
DrawsAreTrue ==
  LET earlier == {k \in DOMAIN past : Same(past[k], Position(bd))}
      passed  == {k \in DOMAIN past : bd.stack[k].move = NullMove}
      since   == {k \in earlier : \A j \in passed : j < k}
  IN  /\ DrawState(bd) = "ThreefoldRepetition" => Cardinality(earlier) >= 2
      /\ DrawState(bd) = "SearchRepetition" => earlier # {} /\ Ply(bd) > 0
      /\ Cardinality(since) >= 2 => DrawState(bd) # "NoDraw"
      /\ since # {} /\ Ply(bd) > 0 => DrawState(bd) # "NoDraw"

\* Asked before a move is made whether it gives check, the tables answer what
\* is on the board after it.
ChecksAreSeen ==
  \A mv \in Playable :
    LET after == Rules!After(Position(bd), <<mv.fr, mv.to, mv.pp>>) IN
    IsCheck(bd, mv) = Rules!Checked(after.at, after.stm)

\* What a side gains by taking on a square as long as it pays, no bound pruned.
Exchange(b, to, start0) ==
  LET best[se \in [value : Int, color : Sides, all : SUBSET Squares]] ==
        LET fr == PickLva(b, to, se.all, se.color)
            mv == MoveVal(b, to, se, fr)
        IN  IF fr = NoSquare \/ mv.val <= best[mv.se] THEN 0 ELSE mv.val - best[mv.se]
  IN  best[start0]

\* The exchange evaluation, cut off at its window, decides as the whole
\* exchange does; promotions on the square, which it approximates, are left out.
SeeDecides ==
  \A mv \in Playable :
    IsPromotion(mv.to) \/
    LET t == FirstTake(bd, mv)
        gain == t.val - Exchange(bd, mv.to, t.se)
    IN  (See(bd, mv, -1, 0) >= 0 <=> gain >= 0) /\ (See(bd, mv, 0, 1) > 0 <=> gain > 0)

\* What the generators and the tables say of a position is what the rules of chess
\* say of it: its moves, which of them give check, and which lose material.
GeneratorIsRight == MovesAreTheRules /\ ChecksAreSeen /\ SeeDecides
=============================================================================
