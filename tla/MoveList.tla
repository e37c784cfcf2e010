------------------------------ MODULE MoveList ------------------------------
(***************************************************************************)
(* gen.List, the staged list of moves, in the search that uses it: a stack *)
(* of searches, one per ply, each with a list of its own, on one board     *)
(* that is moved forward and back between them, with one table of killers  *)
(* per ply and one table of history scores (gen/fastgen.go, gen/killer.go, *)
(* gen/history.go, the move loop of search/search.go).  What the search    *)
(* finds is left open: it may go one ply deeper or not, cut off or go on.  *)
(*                                                                         *)
(* An iteration of the loop of List.Next is a step of its own.             *)
(***************************************************************************)
EXTENDS MoveGen

CONSTANTS
  Starts,      \* [fen, cuts, hist]: a position, the squares to which a move may cut
               \* off, the history scores that earlier searches have left
  MaxFrames,   \* searches on the stack
  MaxCuts      \* cutoffs in a behaviour

VARIABLES
  start,
  bd,
  frames,      \* the searches, the innermost last
  killers,     \* ply -> <<k1, k2>>
  hist,        \* p12 * 64 + to -> score, histHalf where there is no entry
  cuts         \* number of cutoffs, for the bound

vars == <<start, bd, frames, killers, hist, cuts>>

Rules == INSTANCE ChessRules WITH Starts <- {}, game <- << >>

\* The programs: a generating stage and what Next asks of its moves.
Main    == << <<"Trans", "Killer">>, <<"Tactical", "MoveSEE">>, <<"Killer", "KillerSEE">>,
              <<"Quiet", "MoveSEE">>, <<"Bad", "Bad">>, <<"End", "End">> >>
QSRoot  == << <<"Trans", "Killer">>, <<"Tactical", "Move">>, <<"Check", "Killer">>,
              <<"Pawn", "Move">>, <<"End", "End">> >>
QS      == << <<"Trans", "Killer">>, <<"Tactical", "Move">>, <<"End", "End">> >>
Evasion == << <<"Evasion", "MoveSEE">>, <<"Bad", "Bad">>, <<"End", "End">> >>

NewList(b, depth, trans, useFP) ==
  LET attacks == InitAttacks(b, b.stm) IN
  [prog |-> IF InCheck(attacks) THEN Evasion
            ELSE IF depth < 0 THEN QS
            ELSE IF depth = 0 \/ useFP THEN QSRoot ELSE Main,
   attacks |-> attacks, trans |-> trans, idx |-> 0, pos |-> 0,
   todo |-> << >>, done |-> << >>, bad |-> << >>]

TacticalScore(mv) ==
  IF mv.cp # None THEN mv.cp * 6 + (5 - mv.pc) + 4
  ELSE CASE mv.pp = Queen -> 3 [] mv.pp = Knight -> 2 [] mv.pp = Rook -> 1 [] OTHER -> 0

EvasionScore(mv, trans) ==
  IF mv = trans THEN 2047 ELSE IF IsTactical(mv) THEN TacticalScore(mv) + 1 ELSE 0

HistHalf == 1024
HistMax  == 2047
HistIx(b, mv) == MakeP12(mv.pc, SquareSide(b, mv.fr)) * 64 + mv.to
HistScore(h, ix) == IF ix \in DOMAIN h THEN h[ix] ELSE HistHalf
HistBonus(depth) == IF depth <= 0 THEN 0 ELSE IF depth >= 20 THEN 400 ELSE depth * depth

\* Mutant: a history score is not held to its largest value.
HistCapNone(sc) == Max({0, sc})
HistCap(sc)     == Max({0, Min({HistMax, sc})})
\* good for the best move, bad for the others searched; captures have no entry.
HistAdd(h, b, best, searched, depth) ==
  LET bonus == HistBonus(depth)
      Raise(t, mv) == IF IsTactical(mv) THEN t
                      ELSE (HistIx(b, mv) :> HistCap(HistScore(t, HistIx(b, mv)) + bonus)) @@ t
      Lower(t, mv) == IF IsTactical(mv) \/ mv = best THEN t
                      ELSE (HistIx(b, mv) :> HistCap(HistScore(t, HistIx(b, mv)) - bonus)) @@ t
      after[i \in 0..Len(searched)] ==
        IF i = 0 THEN Raise(h, best) ELSE Lower(after[i - 1], searched[i])
  IN  after[Len(searched)]

KillerAdd(k, mv) == IF k[1] = mv THEN k ELSE <<mv, k[1]>>

\* Score and move share a word, and the list is sorted by the word.
SortBy(list, score) ==
  SortSeq(list, LAMBDA m, n : score[m] > score[n] \/ (score[m] = score[n] /\ Code(m) > Code(n)))

\* The moves that a stage generates.
Generated(l, stage, b, k, h) ==
  LET sd == b.stm
      evasions  == ListOf(AddEvasions(b, sd, l.attacks))
      tacticals == ListOf(AddCaptures(b, sd) \o AddProms(b, sd, Empty(b)))
      quiets    == ListOf(AddQuietMoves(b, sd))
  IN
  CASE stage = "Evasion" -> SortBy(evasions, [m \in Range(evasions) |-> EvasionScore(m, l.trans)])
    [] stage = "Trans" -> IF l.trans # NoMove /\ IsMove(b, l.trans) THEN <<l.trans>> ELSE << >>
    [] stage = "Tactical" -> SortBy(tacticals, [m \in Range(tacticals) |-> TacticalScore(m)])
    [] stage = "Killer" -> SelectSeq(k, LAMBDA m : m # NoMove /\ IsQuiet(b, m))
    [] stage = "Check" -> ListOf(AddChecks(b, sd))
    [] stage = "Pawn"  -> ListOf(<<AddCastling(b, sd)>> \o PawnPushes(b, sd))
    [] stage = "Quiet" -> SortBy(quiets, [m \in Range(quiets) |-> HistScore(h, HistIx(b, m))])
    [] stage = "Bad"   -> l.bad
    [] stage = "End"   -> << >>

Contain(list, mv) == \E i \in DOMAIN list : list[i] = mv

\* Mutant: what a list has given is not remembered.
MarkNot(l, mv)     == l
Mark(l, mv)        == [l EXCEPT !.done = Append(@, mv)]
PutAside(l, mv)    == [l EXCEPT !.bad = Append(@, mv)]
AsksSEE(post)      == post \in {"MoveSEE", "KillerSEE"}

\* What post makes of the list with the move mv, and whether it is given out.
Posted(l, post, b, mv) ==
  LET fresh  == ~Contain(l.done, mv) /\ IsLegalFast(b, l.attacks, mv)
      kept   == IF post \in {"Killer", "KillerSEE"} THEN Mark(l, mv) ELSE l
  IN  CASE post = "Bad" -> [list |-> l, ok |-> TRUE]
        [] post # "Bad" /\ ~fresh -> [list |-> l, ok |-> FALSE]
        [] ~AsksSEE(post) /\ post # "Bad" /\ fresh -> [list |-> kept, ok |-> TRUE]
        [] AsksSEE(post) /\ fresh ->
             IF NoSacrifice(b, mv) THEN [list |-> kept, ok |-> TRUE]
             ELSE [list |-> PutAside(kept, mv), ok |-> FALSE]

-----------------------------------------------------------------------------
Top   == frames[Len(frames)]
Stage == Top.list.prog[Top.list.idx]
Depth == Len(frames)          \* lists are counted from the first one
SetTop(f) == frames' = [frames EXCEPT ![Len(frames)] = f]

Position(b) ==
  [at |-> [sq \in b.all |-> <<b.square[sq], SquareSide(b, sq)>>], stm |-> b.stm,
   rights |-> b.copy.flags, ep |-> b.copy.epSq, clock |-> b.copy.moves]

\* A search begins: board and copy are kept to compare, mv is the move that is
\* being searched, given what Next has returned.
NewFrame(b, depth, trans, useFP) ==
  [list |-> NewList(b, depth, trans, useFP), depth |-> depth, mv |-> NoMove,
   given |-> << >>, over |-> FALSE, at |-> Position(b), copy |-> b.copy]

\* The table's move is none or a legal one: the highest and the lowest are tried.
TransTried(b) ==
  LET ml == LegalMoves(b)
      codes == {Code(ml[i]) : i \in DOMAIN ml}
  IN  {NoMove} \cup {ml[i] : i \in {j \in DOMAIN ml : Code(ml[j]) \in {Min(codes), Max(codes)}}}

Init ==
  /\ start \in Starts /\ bd = SetFen(start.fen)
  /\ killers = [ply \in 0..(MaxFrames - 1) |-> <<NoMove, NoMove>>]
  /\ hist = start.hist /\ cuts = 0
  /\ \E depth \in {-1, 0, 20}, trans \in TransTried(bd), fp \in BOOLEAN :
       (fp => depth > 0) /\ frames = <<NewFrame(bd, depth, trans, fp)>>

\* Next: there is no move left in the stage, the following one is generated.
NextStage ==
  /\ Top.mv = NoMove /\ ~Top.over /\ Top.list.pos >= Len(Top.list.todo)
  /\ LET l  == [Top.list EXCEPT !.idx = @ + 1, !.pos = 0]
         st == l.prog[l.idx][1]
     IN  SetTop([Top EXCEPT !.list = [l EXCEPT !.todo = Generated(l, st, bd, killers[Depth - 1], hist)],
                            !.over = (st = "End")])
  /\ UNCHANGED <<start, bd, killers, hist, cuts>>

\* Next: the following move of the stage is returned, or dropped, or put aside.
NextMove ==
  /\ Top.mv = NoMove /\ ~Top.over /\ Top.list.pos < Len(Top.list.todo)
  /\ LET l == [Top.list EXCEPT !.pos = @ + 1]
         mv == l.todo[l.pos]
         p == Posted(l, Stage[2], bd, mv)
     IN  SetTop([Top EXCEPT !.list = p.list,
                            !.mv = IF p.ok THEN mv ELSE NoMove,
                            !.given = IF p.ok THEN Append(@, mv) ELSE @])
  /\ UNCHANGED <<start, bd, killers, hist, cuts>>

\* The move is made and its position searched by a list of its own...
Descend ==
  /\ Top.mv # NoMove /\ Depth < MaxFrames
  /\ LET b == Move(bd, Top.mv) IN
     /\ bd' = b
     /\ \E trans \in TransTried(b) :
          frames' = Append(frames, NewFrame(b, Top.depth - 1, trans, FALSE))
  /\ UNCHANGED <<start, killers, hist, cuts>>

\* ... or has been searched in some other way: the board is as before.
Searched ==
  /\ Top.mv # NoMove
  /\ SetTop([Top EXCEPT !.mv = NoMove])
  /\ UNCHANGED <<start, bd, killers, hist, cuts>>

\* Before its list is begun a search may try the null move.
DescendNull ==
  /\ Top.list.idx = 0 /\ Depth < MaxFrames /\ Top.depth > 0
  /\ ~InCheck(Top.list.attacks) /\ ~LoneKing(bd, bd.stm)
  /\ LET b == MoveNull(bd) IN bd' = b /\ frames' = Append(frames, NewFrame(b, Top.depth - 4, NoMove, FALSE))
  /\ UNCHANGED <<start, killers, hist, cuts>>

\* The search on top returns to the one below, which takes its move back.
Return ==
  LET below == frames[Depth - 1] IN
  /\ Depth > 1
  /\ bd' = IF below.mv = NoMove THEN UndoNull(bd) ELSE Undo(bd)
  /\ frames' = [SubSeq(frames, 1, Depth - 1) EXCEPT ![Depth - 1].mv = NoMove]

Finish == Top.over /\ Return /\ UNCHANGED <<start, killers, hist, cuts>>

\* A cutoff: a quiet move becomes a killer of its ply and a good move.
Cutoff ==
  /\ Top.mv # NoMove /\ cuts < MaxCuts /\ Top.mv.to \in start.cuts
  /\ cuts' = cuts + 1
  /\ IF Top.depth > 0 /\ ~InCheck(Top.list.attacks) /\ ~IsTactical(Top.mv)
     THEN /\ killers' = [killers EXCEPT ![Depth - 1] = KillerAdd(@, Top.mv)]
          /\ hist' = HistAdd(hist, bd, Top.mv, Top.given, Top.depth)
     ELSE UNCHANGED <<killers, hist>>
  /\ Return
  /\ UNCHANGED start

Next == NextStage \/ NextMove \/ Descend \/ Searched \/ DescendNull \/ Finish \/ Cutoff
Spec == Init /\ [][Next]_vars

-----------------------------------------------------------------------------
Triple(mv) == <<mv.fr, mv.to, mv.pp>>
Given(f)   == {f.given[i] : i \in DOMAIN f.given}

\* Killers are quiet and the two of a ply differ; a history score fits the 11
\* bits it has beside a move.
TypeOK ==
  /\ Depth \in 1..MaxFrames /\ cuts \in 0..MaxCuts
  /\ \A i \in 1..Depth : frames[i].list.idx \in 0..Len(frames[i].list.prog)
  /\ \A ply \in DOMAIN killers :
       LET k == killers[ply] IN /\ \A i \in {1, 2} : k[i] # NoMove => ~IsTactical(k[i])
                                /\ k[1] = k[2] => k[1] = NoMove
  /\ \A ix \in DOMAIN hist : hist[ix] \in 0..HistMax

\* Whatever has been searched below it, a search finds the board as it left it,
\* keys, clock, rights and en passant square included.
BoardRestored ==
  Top.mv = NoMove => Position(bd) = Top.at /\ bd.copy = Top.copy

\* What outlives a subtree: the board as it was, and killers and history scores
\* that the lists still to be made can use.
SearchLeavesUsable == TypeOK /\ BoardRestored

\* A list gives only legal moves, and none twice, though the table's move, the
\* killers and the checks come before the stages that generate them again.
LegalAndOnce ==
  /\ Cardinality(Given(Top)) = Len(Top.given)
  /\ {Triple(mv) : mv \in Given(Top)} \subseteq Rules!Legal(Top.at)

\* A list that has ended has left nothing out: every legal move of a main list
\* and of evasions, every capture and promotion of a quiescence list,
\* every castling too at its root.
NothingLeftOut ==
  Top.over =>
    LET legal == Rules!Legal(Top.at)
        man(m) == Top.at.at[m[1]][1]
        loud  == {m \in legal : m[2] \in DOMAIN Top.at.at \/ m[3] # None \/ (man(m) = Pawn /\ m[2] = Top.at.ep)}
        castlings == {m \in legal : man(m) = King /\ Distance(m[1], m[2]) = 16}
        owed  == CASE Top.list.prog \in {Main, Evasion} -> legal
                   [] Top.list.prog = QSRoot -> loud \cup castlings
                   [] Top.list.prog = QS -> loud
    IN  owed \subseteq {Triple(mv) : mv \in Given(Top)}

\* A list brings each move it owes exactly once and no other.
ListIsComplete == LegalAndOnce /\ NothingLeftOut

\* Moves that lose material come after all others, whichever stage, killer or
\* history score proposed them; only the table's move is exempt.
LosingMovesLast ==
  Top.list.prog \in {Main, Evasion} =>
    \A i, j \in DOMAIN Top.given :
      /\ i < j /\ ~NoSacrifice(bd, Top.given[i])
      /\ Top.list.prog = Main => Top.given[i] # Top.list.trans
      => ~NoSacrifice(bd, Top.given[j])

\* The staged list is the sorted list of the legal moves, made piece by piece.
StagedListIsRight == ListIsComplete /\ LosingMovesLast
=============================================================================
