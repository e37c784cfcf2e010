----------------------------- MODULE TreeSearch -----------------------------
(***************************************************************************)
(* The search of search/search.go from searchID down: iterative deepening, *)
(* aspiration, principal variation search with quiescence, on the table of *)
(* TransTable.  One goroutine runs it; another, or the clock, may set      *)
(* bStop at any moment.                                                    *)
(*                                                                         *)
(* The game is a finite graph: Position[n] says what the code computes of  *)
(* node n without searching.  A move is named by the node it leads to.     *)
(* Killers and history only order and exempt moves: the generator's order  *)
(* is fixed but for the table's move, and a move they could exempt from    *)
(* pruning may or may not be exempt.                                       *)
(***************************************************************************)
EXTENDS MateScore, Sequences, FiniteSets

CONSTANTS
  Position,            \* [1..n -> record], see PositionAssumption
  Roots,               \* the positions a go may ask about
  Evals,               \* the evaluations that are tried, [1..n -> Int]
  MaxDepth,            \* limit.depth
  MaxPly,              \* maxPly
  AspirationDepth,     \* AspirationMinDepth
  AspirationMargin,    \* AspirationInitialMarginCP
  LMPMoves,            \* LMPMoveMultiplier
  LMRMoves,            \* lmrMoveLimit - 1
  LMRReduction,        \* lmrReductions, by depth and move number
  Contempt,            \* Engine.Contempt
  TableSizes,          \* numbers of entries of the transposition table
  MaxGen               \* its largest generation: 65535

Node == DOMAIN Position
None == 0

\* ply: distance from the root.  drawn: asked of every node but the root.  moves: legal moves in the generator's order.
\* captures: captures and promotions.  forcing: checks, castling, pawn pushes.
\* winning: winning captures and pawn pushes.  recaptures.  losing: moves that
\* lose material (NoSacrifice is false).  pass: the position
\* after a null move, None for a lone king.  threat: the best exchange for the
\* side to move, 0 if none wins.  gain: CaptMax of its captures.
ASSUME PositionAssumption ==
  /\ \A r \in Roots : /\ r \in Node /\ Position[r].ply = 0
                      /\ Position[r].moves # <<>> /\ ~Position[r].drawn
  /\ \A n \in Node :
      LET p == Position[n] IN
      /\ n \in Nat \ {None} /\ p.ply \in Nat
      /\ p.check \in BOOLEAN /\ p.drawn \in BOOLEAN
      /\ p.threat \in Nat /\ p.gain \in Nat
      /\ p.pass # None => p.pass \in Node /\ Position[p.pass].ply = p.ply + 1
      /\ p.moves \in Seq(Node)
      /\ \A i \in DOMAIN p.moves : Position[p.moves[i]].ply = p.ply + 1
      /\ p.captures \cup p.forcing \subseteq {p.moves[i] : i \in DOMAIN p.moves}

\* What the code takes for granted: no evaluation, with the best exchange on top of
\* it or not, looks like a mate (EvalMAX).
ASSUME EvalsAssumption ==
  \A e \in Evals : /\ e \in [Node -> -EvalMax..EvalMax]
                   /\ \A n \in Node : e[n] + 100 + Position[n].threat <= EvalMax

\* The code's limits: maxDepth 100, maxPly 100, a Contempt of at most 100, an
\* aspiration margin below 500, reductions of at most depth - 2.  Beside the largest
\* evaluation, 8999, there is room for a thousand plies of mates.
ASSUME LimitsAssumption ==
  /\ MaxDepth \in 1..99 /\ MaxPly \in 1..500 /\ AspirationDepth \in Nat
  /\ AspirationMargin \in 1..499 /\ LMPMoves \in Nat
  /\ Contempt \in -EvalMax..EvalMax
  /\ TableSizes \subseteq Nat \ {0} /\ MaxGen \in Nat /\ MaxGen >= 2
  /\ LMRMoves \in Nat \ {0}
  /\ \A d \in 3..MaxDepth : \A m \in 1..LMRMoves : LMRReduction[d][m] \in 0..(d - 2)

Mate     == EvalMax + 1001
NoScore  == -Mate
MaxScore == Mate - 1
MinScore == -MaxScore

VARIABLES
  Root,        \* the position searched
  ev,          \* the evaluation, for the side to move
  stop,        \* bStop
  stack,       \* calls of search, the innermost first
  ret,         \* what the last call returned, << >> once the caller has read it
  root,        \* searchAsp and searchRoot: the pass at the root
  ml,          \* the root moves
  lastScore,   \* limit.lastScore
  best,        \* Best
  completed,   \* searchID's completed
  entries, size, generation, cntUsed,
  plain        \* history: nothing has been pruned, reduced unrefuted, answered
               \* by a deeper entry, or added for the principal variation only

table == <<entries, size, generation, cntUsed>>
vars  == <<Root, ev, stop, stack, ret, root, ml, lastScore, best, completed, table, plain>>

TT == INSTANCE TransTable WITH
        Keys <- [index : Node, lock : Node], Sizes <- TableSizes, Window <- 2,
        Moves <- Node \cup {None}, Depths <- -1..99,
        Plies <- 0..MaxPly, Scores <- MinScore..MaxScore

Lower == TT!Lower
Upper == TT!Upper

Larger(a, b)  == IF a > b THEN a ELSE b
Smaller(a, b) == IF a < b THEN a ELSE b

DrawScore(ply) == IF ply % 2 = 0 THEN -Contempt ELSE Contempt

\* Mutant: alpha is not looked at.
TypeByBeta(sc, alpha, beta) == IF sc < beta THEN Lower + Upper ELSE Lower

scoreType(sc, alpha, beta) ==
  (IF sc > alpha THEN Lower ELSE 0) + (IF sc < beta THEN Upper ELSE 0)

-----------------------------------------------------------------------------
(* Moves.                                                                  *)

InCheck(n) == Position[n].check
Moves(n)   == {Position[n].moves[i] : i \in DOMAIN Position[n].moves}
Loud(n, m) == \/ m \in Position[n].captures \cup Position[n].forcing
              \/ InCheck(n) \/ InCheck(m)

\* Init's choice of program: all moves, or those of quiescence, of which those that
\* lose material are left out (material pruning).
Tried(n, depth, hard) ==
  IF InCheck(n) \/ (depth > 0 /\ ~hard) THEN Moves(n)
  ELSE (Position[n].captures \cup (IF depth < 0 THEN {} ELSE Position[n].forcing))
         \ Position[n].losing

\* What the staged list gives out: the table's move if it is one, and the others.
MoveList(n, depth, hard, trans) ==
  Tried(n, depth, hard)
    \cup ({trans} \cap (Moves(n) \ (IF hard THEN Position[n].losing ELSE {})))

\* The first of the set todo in the generator's order.
FirstOf(n, todo) ==
  LET pm == Position[n].moves
  IN  pm[CHOOSE i \in DOMAIN pm : /\ pm[i] \in todo
                                  /\ \A j \in DOMAIN pm : pm[j] \in todo => i <= j]

\* The move a frame comes to next: the table's first.
Upcoming(g) == IF g.trans \in g.todo THEN g.trans ELSE FirstOf(g.node, g.todo)

extension(n, m, depth, pvNode) ==
  IF \/ depth <= 4 /\ (InCheck(m) \/ m \in Position[n].recaptures)
     \/ pvNode /\ (InCheck(m) \/ m \in Position[n].winning)
  THEN 1 ELSE 0

\* reduction, with any standing of the move among killers and in the history.
reduction(n, m, depth, pvNode, searched, candidate) ==
  IF depth < 3 \/ searched < 3 \/ Loud(n, m) \/ candidate THEN {0}
  ELSE 0..Larger(0, LMRReduction[depth][Smaller(searched + 1, LMRMoves)] - (IF pvNode THEN 1 ELSE 0))

\* Qs: stand pat, or the best winning exchange on top of it.
Qs(n, beta, gain) ==
  IF ev[n] >= beta \/ Position[n].threat = 0 THEN ev[n]
  ELSE ev[n] + gain + Position[n].threat

-----------------------------------------------------------------------------
(* Calls.  A frame is one call of search: its parameters, its locals, and  *)
(* where it is.                                                            *)

Frame(n, depth, alpha, beta) ==
  [node |-> n, depth |-> depth, alpha |-> alpha, beta |-> beta, oldAlpha |-> alpha,
   pvNode |-> depth > 0 /\ beta # alpha + 1, bs |-> NoScore, bm |-> None,
   head |-> None, hard |-> FALSE, val |-> NoScore, trans |-> None, todo |-> {},
   searched |-> 0, mv |-> None, deep |-> 0, red |-> 0, at |-> "enter"]

f == Head(stack)
At(where) == stack # <<>> /\ f.at = where
Ply(g) == Position[g.node].ply
Key(n) == [index |-> n, lock |-> n]

Goto(g)     == stack' = <<g>> \o Tail(stack) /\ ret' = <<>>
Call(g, h)  == stack' = <<h, g>> \o Tail(stack) /\ ret' = <<>>
Return(sc, head) == stack' = Tail(stack) /\ ret' = <<sc, head>>

Keep == UNCHANGED <<Root, ev, stop, root, ml, lastScore, best, completed>>
StaysPlain == plain' = plain
Departs(b) == plain' = (plain /\ ~b)

UseTrans(g)   == g.depth >= 0 \/ InCheck(g.node)
TransDepth(g) == Larger(g.depth, 0)

Store(g, mv, sc, t) ==
  IF UseTrans(g)
  THEN TT!StoreOf(Key(g.node), TransDepth(g), TT!Stored(Key(g.node), TransDepth(g), Ply(g), mv, sc, t))
  ELSE UNCHANGED table

-----------------------------------------------------------------------------
(* On entry: mate distance, draws, the table, the horizon.                 *)

\* The best there is from here: mate with the next move.
MateNext(g) == Mate - 1 - Ply(g)

Decided(g) == MateNext(g) <= g.alpha \/ Position[g.node].drawn

MateDistance ==
  /\ At("enter") /\ MateNext(f) <= f.alpha
  /\ Return(MateNext(f), None)
  /\ Keep /\ StaysPlain /\ UNCHANGED table

DrawnNode ==
  /\ At("enter") /\ MateNext(f) > f.alpha /\ Position[f.node].drawn
  /\ Return(DrawScore(Ply(f)), None)
  /\ Keep /\ StaysPlain /\ UNCHANGED table

\* Retrieve: its answer, and the entry's new date.
Found(g) == {i \in TT!Tries : UseTrans(g) /\ TT!Finds(Key(g.node), i)}

Retrieved(g) ==
  IF Found(g) = {} THEN [ok |-> FALSE, move |-> None, score |-> 0, flags |-> 0]
  ELSE TT!Answer(TT!At(Key(g.node), CHOOSE i \in Found(g) : TRUE), TransDepth(g), Ply(g))

Retrieve(g) ==
  IF Found(g) = {} THEN UNCHANGED table
  ELSE \E i \in Found(g) : TT!Write(TT!Slot(Key(g.node), i),
                                    [TT!At(Key(g.node), i) EXCEPT !.date = generation])

\* In check below the horizon: the node uses the table as one of depth 0.
Mislabelled(g) == g.depth < 0 /\ InCheck(g.node)

\* The answer settles a node off the principal variation.
Cuts(g) ==
  LET a == Retrieved(g)
  IN  /\ a.ok /\ ~g.pvNode
      /\ \/ a.flags = Lower /\ a.score >= Smaller(g.beta, MateNext(g))
         \/ a.flags = Upper /\ a.score <= g.alpha
         \/ a.flags = Lower + Upper

TransCut ==
  /\ At("enter") /\ ~Decided(f) /\ Cuts(f)
  /\ Retrieve(f)
  /\ Return(Retrieved(f).score, None)
  /\ \E i \in Found(f) : Departs(TT!At(Key(f.node), i).depth > f.depth)
  /\ Keep

Horizon ==
  /\ At("enter") /\ ~Decided(f) /\ ~Cuts(f)
  /\ (Ply(f) >= MaxPly \/ stop)
  /\ Retrieve(f)
  /\ Return(ev[f.node], None)
  /\ Keep /\ StaysPlain

Descend ==
  /\ At("enter") /\ ~Decided(f) /\ ~Cuts(f)
  /\ Ply(f) < MaxPly /\ ~stop
  /\ Retrieve(f)
  /\ Goto([f EXCEPT !.beta = Smaller(@, MateNext(f)), !.trans = Retrieved(f).move, !.at = "static"])
  /\ Keep /\ Departs(Mislabelled(f))

-----------------------------------------------------------------------------
(* Pruning before any move: beta pruning and the null move.                *)

MayPrune(g) == ~g.pvNode /\ g.depth > 0 /\ ~IsMateScore(g.beta) /\ ~InCheck(g.node)

FarAbove(g)  == MayPrune(g) /\ g.depth <= 3 /\ ev[g.node] - g.depth * 50 >= g.beta
TriesNull(g) == MayPrune(g) /\ Position[g.node].pass # None /\ ev[g.node] >= g.beta

BetaPruning ==
  /\ At("static") /\ FarAbove(f)
  /\ Return(ev[f.node] - f.depth * 50, None)
  /\ Departs(TRUE) /\ Keep /\ UNCHANGED table

\* What the null move's score leads to.
NullScore(sc) ==
  \/ /\ sc >= f.beta
     /\ Store(f, None, sc, Lower)
     /\ Return(sc, None) /\ Departs(TRUE)
  \/ /\ sc < f.beta /\ stop
     /\ Return(sc, None) /\ StaysPlain /\ UNCHANGED table
  \/ /\ sc < f.beta /\ ~stop
     /\ Goto([f EXCEPT !.at = "open"]) /\ StaysPlain /\ UNCHANGED table

NullStatic ==
  /\ At("static") /\ ~FarAbove(f) /\ TriesNull(f) /\ f.depth <= 3
  /\ NullScore(-Qs(Position[f.node].pass, -f.beta + 1, 100))
  /\ Keep

NullDynamic ==
  /\ At("static") /\ TriesNull(f) /\ f.depth > 3
  /\ Call([f EXCEPT !.at = "null"],
          Frame(Position[f.node].pass, f.depth - 4, -f.beta, -f.beta + 1))
  /\ Keep /\ StaysPlain /\ UNCHANGED table

NullBack ==
  /\ At("null") /\ ret # <<>>
  /\ NullScore(-ret[1])
  /\ Keep

NoNull ==
  /\ At("static") /\ ~FarAbove(f) /\ ~TriesNull(f)
  /\ Goto([f EXCEPT !.at = "open"])
  /\ Keep /\ StaysPlain /\ UNCHANGED table

-----------------------------------------------------------------------------
(* Stand pat, futility, internal iterative deepening.                      *)

Quiescent(g) == ~InCheck(g.node) /\ g.depth <= 0
Futile(g) == /\ ~InCheck(g.node) /\ g.depth \in 1..8 /\ ~IsMateScore(g.alpha)
             /\ ev[g.node] + g.depth * 40 <= g.alpha

\* The frame when the moves begin.
Opened(g) ==
  LET e == ev[g.node] IN
  IF Quiescent(g) THEN [g EXCEPT !.bs = e, !.alpha = Larger(@, e), !.hard = TRUE, !.val = e + 100]
  ELSE IF Futile(g) THEN [g EXCEPT !.bs = e + g.depth * 40, !.hard = TRUE,
                                   !.val = e + g.depth * 40 + 50]
  ELSE g

Looping(g, trans) ==
  [g EXCEPT !.trans = trans, !.todo = MoveList(g.node, g.depth, g.hard, trans), !.at = "loop"]

StandPat ==
  /\ At("open") /\ Quiescent(f) /\ ev[f.node] > f.alpha /\ ev[f.node] >= f.beta
  /\ Return(ev[f.node], None)
  /\ Keep /\ StaysPlain /\ UNCHANGED table

Deepens(g) == g.pvNode /\ g.depth >= 3 /\ g.trans = None

Open ==
  /\ At("open") /\ ~(Quiescent(f) /\ Opened(f).alpha >= f.beta)
  /\ IF Deepens(f)
     THEN Call([Opened(f) EXCEPT !.at = "iid"], Frame(f.node, f.depth - 2, Opened(f).alpha, f.beta))
     ELSE Goto(Looping(Opened(f), f.trans))
  /\ Departs(Futile(f) \/ f.trans \in Moves(f.node) \ Tried(f.node, f.depth, FALSE))
  /\ Keep /\ UNCHANGED table

IidBack ==
  /\ At("iid") /\ ret # <<>>
  /\ Goto(Looping(f, IF ret[1] > f.alpha THEN ret[2] ELSE None))
  /\ Keep /\ StaysPlain /\ UNCHANGED table

-----------------------------------------------------------------------------
(* The move loop.                                                          *)

\* Delta pruning.
TooLittle(g, m) ==
  /\ g.hard /\ m \in Position[g.node].captures /\ ~InCheck(m)
  /\ g.val + Position[g.node].gain <= g.alpha

lateMovePrune(g, m) ==
  /\ ~g.pvNode /\ g.depth \in 1..3 /\ ~IsMateScore(g.bs)
  /\ g.searched >= g.depth * LMPMoves
  /\ ~Loud(g.node, m) /\ m # g.trans

Skip ==
  /\ At("loop") /\ f.todo # {}
  /\ TooLittle(f, Upcoming(f)) \/ lateMovePrune(f, Upcoming(f))
  /\ Goto([f EXCEPT !.todo = @ \ {Upcoming(f)}])
  /\ Departs(TRUE) /\ Keep /\ UNCHANGED table

NextMove ==
  /\ At("loop") /\ f.todo # {} /\ ~TooLittle(f, Upcoming(f))
  /\ LET m   == Upcoming(f)
         ext == extension(f.node, m, f.depth, f.pvNode)
         g   == [f EXCEPT !.todo = @ \ {m}, !.mv = m, !.deep = f.depth + ext - 1]
     IN /\ \E red \in IF ext = 1 THEN {0}
                      ELSE reduction(f.node, m, f.depth, f.pvNode, f.searched, m = f.trans) :
          IF (f.pvNode /\ f.searched # 0) \/ red # 0
          THEN Call([g EXCEPT !.red = red, !.at = "scout"], Frame(m, g.deep - red, -f.alpha - 1, -f.alpha))
          ELSE Call([g EXCEPT !.at = "full"], Frame(m, g.deep, -f.beta, -f.alpha))
        /\ Departs(ext # extension(f.node, m, f.depth, FALSE))
  /\ Keep /\ UNCHANGED table

\* Mutant: beta itself is no cutoff.
FailsAbove(sc, beta) == sc > beta

FailsHigh(sc, beta) == sc >= beta

\* A move came back with sc.
Took(sc) ==
  LET better == sc > f.bs
      raises == better /\ sc > f.alpha
      g == [f EXCEPT !.searched = @ + 1, !.at = "loop",
                     !.bs    = IF better THEN sc ELSE @,
                     !.head  = IF better THEN f.mv ELSE @,
                     !.bm    = IF raises THEN f.mv ELSE @,
                     !.alpha = IF raises THEN sc ELSE @]
  IN /\ IF raises THEN Store(f, f.mv, sc, Lower) ELSE UNCHANGED table
     /\ IF raises /\ FailsHigh(sc, f.beta) THEN Return(sc, g.head)
        ELSE IF stop THEN Return(g.alpha, g.head)
        ELSE Goto(g)

\* The first look says better than alpha: look again, unless stopped.
SearchAgain(sc) == ~stop /\ sc > f.alpha

ScoutBack ==
  /\ At("scout") /\ ret # <<>>
  /\ IF SearchAgain(-ret[1])
     THEN /\ Call([f EXCEPT !.at = "full"], Frame(f.mv, f.deep, -f.beta, -f.alpha))
          /\ StaysPlain /\ UNCHANGED table
     ELSE Took(-ret[1]) /\ Departs(f.red # 0)
  /\ Keep

FullBack ==
  /\ At("full") /\ ret # <<>>
  /\ Took(-ret[1])
  /\ Keep /\ StaysPlain

NoMoves ==
  /\ At("loop") /\ f.todo = {} /\ f.bs = NoScore
  /\ Return(IF InCheck(f.node) THEN -Mate + Ply(f) ELSE DrawScore(Ply(f)), None)
  /\ Keep /\ StaysPlain /\ UNCHANGED table

Finish ==
  /\ At("loop") /\ f.todo = {} /\ f.bs # NoScore
  /\ Store(f, f.bm, f.bs, scoreType(f.bs, f.oldAlpha, f.beta))
  /\ Return(f.bs, f.head)
  /\ Keep /\ StaysPlain

-----------------------------------------------------------------------------
(* The root: searchID, searchAsp, searchRoot.                              *)

RootVars == <<root, ml, lastScore, best, completed>>

\* margin: the aspiration margin, 0 for the full window.
RootPass(depth, margin) ==
  LET alpha == IF margin = 0 THEN MinScore ELSE lastScore - margin
      beta  == IF margin = 0 THEN MaxScore ELSE lastScore + margin
  IN  [depth |-> depth, margin |-> margin, alpha |-> alpha, beta |-> beta, oldAlpha |-> alpha,
       bs |-> NoScore, bm |-> None, pos |-> 0, seen |-> {}, red |-> 0, at |-> "loop"]

AtRoot(where) == stack = <<>> /\ root.at = where

NoBest(m) == [depth |-> 0, move |-> m, score |-> 0, type |-> 0]

\* searchID's first lines: the moves are sorted by their quick scores, that is,
\* in any order.
Init ==
  /\ Root \in Roots /\ ev \in Evals /\ stop = FALSE /\ stack = <<>> /\ ret = <<>>
  /\ ml \in {s \in [1..Cardinality(Moves(Root)) -> Moves(Root)] :
              \A i, j \in DOMAIN s : s[i] = s[j] => i = j}
  /\ lastScore = NoScore
  /\ root = [depth |-> 0, margin |-> 0, alpha |-> MinScore, beta |-> MaxScore,
             oldAlpha |-> MinScore, bs |-> NoScore, bm |-> None, pos |-> 0, seen |-> {},
             red |-> 0, at |-> "iterate"]
  /\ best = NoBest(ml[1]) /\ completed = best
  /\ size \in TableSizes /\ entries = TT!Blank(size) /\ generation = 2 /\ cntUsed = 0
  /\ plain = TRUE

\* bStop is set: by stop, by incNode when a limit is reached, by searchID when
\* too little time is left for another depth.
Stop ==
  /\ ~stop /\ root.at # "done"
  /\ stop' = TRUE
  /\ UNCHANGED <<Root, ev, stack, ret, RootVars, table, plain>>

\* searchAsp's first margin.
StartDepth ==
  /\ AtRoot("iterate")
  /\ UNCHANGED <<lastScore, ml, best, completed, Root, ev, stop, stack, ret, table, plain>>
  /\ LET d == root.depth + 1
     IN root' = RootPass(d, IF d >= AspirationDepth /\ ~IsMateScore(lastScore)
                            THEN AspirationMargin ELSE 0)

RootStep == UNCHANGED <<Root, ev, stop, lastScore, completed>>

RootMove == ml[root.pos + 1]

\* The move is made; when the search is stopped it is only taken back.
RootNext ==
  /\ AtRoot("loop") /\ root.pos < Len(ml)
  /\ RootStep /\ UNCHANGED <<ml, best, table>>
  /\ LET m    == RootMove
         ext  == extension(Root, m, root.depth, TRUE)
         deep == root.depth - 1 + ext
         r    == [root EXCEPT !.seen = @ \cup {m}]
     IN \/ stop /\ root' = [r EXCEPT !.at = "passed"] /\ UNCHANGED <<stack, ret, plain>>
        \/ /\ ~stop /\ Departs(ext # extension(Root, m, root.depth, FALSE))
           /\ \E red \in IF ext = 1 THEN {0}
                          ELSE reduction(Root, m, root.depth, TRUE, root.pos, FALSE) :
                IF root.pos = 0
                THEN /\ root' = [r EXCEPT !.at = "full"]
                     /\ stack' = <<Frame(m, deep, -root.beta, -root.alpha)>>
                ELSE /\ root' = [r EXCEPT !.red = red, !.at = "scout"]
                     /\ stack' = <<Frame(m, deep - red, -root.alpha - 1, -root.alpha)>>
           /\ ret' = <<>>

\* Mutant: the shift runs one too far.
ToFrontPast(s, i) ==
  [j \in DOMAIN s |-> IF j = 1 THEN s[i] ELSE IF j <= i + 1 THEN s[j - 1] ELSE s[j]]

\* MoveToFront.
ToFront(s, i) ==
  [j \in DOMAIN s |-> IF j = 1 THEN s[i] ELSE IF j <= i THEN s[j - 1] ELSE s[j]]

RootFrame == [Frame(Root, root.depth, root.alpha, root.beta) EXCEPT !.at = "root"]

\* A root move came back with sc.
RootTook(sc) ==
  LET raises == sc > root.bs /\ sc > root.alpha
  IN  /\ ret' = <<>> /\ UNCHANGED stack
      /\ IF stop
         THEN root' = [root EXCEPT !.at = "passed"] /\ UNCHANGED <<best, ml, table>>
         ELSE /\ best' = IF sc <= root.bs THEN best
                         ELSE [depth |-> root.depth, move |-> RootMove, score |-> sc,
                               type |-> scoreType(sc, root.alpha, root.beta)]
              /\ ml' = IF raises THEN ToFront(ml, root.pos + 1) ELSE ml
              /\ root' = [root EXCEPT !.bs = Larger(@, sc), !.pos = @ + 1,
                                      !.bm = IF raises THEN RootMove ELSE @,
                                      !.alpha = IF raises THEN sc ELSE @,
                                      !.at = IF raises /\ FailsHigh(sc, root.beta) THEN "passed" ELSE "loop"]
              /\ IF raises THEN Store(RootFrame, RootMove, sc, Lower) ELSE UNCHANGED table

RootFull ==
  /\ AtRoot("full") /\ ret # <<>>
  /\ RootTook(-ret[1])
  /\ RootStep /\ StaysPlain

\* The second search begins also when bStop has just been set.
RootScout ==
  /\ AtRoot("scout") /\ ret # <<>>
  /\ \/ /\ -ret[1] > root.alpha
        /\ root' = [root EXCEPT !.at = "full"]
        /\ stack' = <<Frame(RootMove, root.depth - 1 + extension(Root, RootMove, root.depth, TRUE),
                            -root.beta, -root.alpha)>>
        /\ ret' = <<>> /\ StaysPlain /\ UNCHANGED <<ml, best, table>>
     \/ -ret[1] <= root.alpha /\ RootTook(-ret[1]) /\ Departs(root.red # 0)
  /\ RootStep

RootEnd ==
  /\ AtRoot("loop") /\ root.pos = Len(ml)
  /\ Store(RootFrame, root.bm, root.bs, scoreType(root.bs, root.oldAlpha, root.beta))
  /\ root' = [root EXCEPT !.at = "passed"]
  /\ RootStep /\ StaysPlain /\ UNCHANGED <<ml, best, stack, ret>>

Inside == best.score > root.oldAlpha /\ best.score < root.beta

\* Mutant: the window is tried again as it was.
SameMargin == IF IsMateScore(best.score) THEN 0 ELSE root.margin

\* After a score outside the window: twice the margin, or no window at all.
NextMargin == IF IsMateScore(best.score) \/ root.margin * 2 >= 500 THEN 0 ELSE root.margin * 2

Widen ==
  /\ AtRoot("passed") /\ ~stop /\ root.margin # 0 /\ ~Inside
  /\ RootStep /\ StaysPlain /\ UNCHANGED <<ml, best, stack, ret, table>>
  /\ root' = RootPass(root.depth, NextMargin)

\* The depth is complete.
Complete ==
  /\ AtRoot("passed") /\ ~stop /\ (root.margin = 0 \/ Inside)
  /\ completed' = best /\ lastScore' = best.score
  /\ root' = [root EXCEPT !.at = "completed"]
  /\ UNCHANGED <<Root, ev, stop, ml, best, stack, ret, table, plain>>

NextDepth ==
  /\ AtRoot("completed") /\ ~stop /\ root.depth < MaxDepth
  /\ root' = [root EXCEPT !.at = "iterate"]
  /\ UNCHANGED <<Root, ev, stop, ml, lastScore, best, completed, stack, ret, table, plain>>

\* Mutant: an aborted depth's move is announced.
AnnounceLatest ==
  /\ \/ AtRoot("passed") /\ stop
     \/ AtRoot("completed") /\ (stop \/ root.depth = MaxDepth)
  /\ root' = [root EXCEPT !.at = "done"]
  /\ UNCHANGED <<Root, ev, stop, ml, lastScore, best, completed, stack, ret, table, plain>>

\* Aborted, or done with the last depth: the last completed one is announced.
Announce ==
  /\ \/ AtRoot("passed") /\ stop
     \/ AtRoot("completed") /\ (stop \/ root.depth = MaxDepth)
  /\ best' = completed
  /\ root' = [root EXCEPT !.at = "done"]
  /\ UNCHANGED <<Root, ev, stop, ml, lastScore, completed, stack, ret, table, plain>>

Step ==
  \/ StartDepth \/ RootNext \/ RootFull \/ RootScout \/ RootEnd
  \/ Widen \/ Complete \/ NextDepth \/ Announce
  \/ MateDistance \/ DrawnNode \/ TransCut \/ Horizon \/ Descend
  \/ BetaPruning \/ NullStatic \/ NullDynamic \/ NullBack \/ NoNull
  \/ StandPat \/ Open \/ IidBack
  \/ Skip \/ NextMove \/ ScoutBack \/ FullBack \/ NoMoves \/ Finish

Next == Step \/ Stop

\* The search goroutine runs on.
Spec == Init /\ [][Next]_vars /\ WF_vars(Step)

-----------------------------------------------------------------------------
(* Properties.                                                             *)

Values == -Mate..Mate

TypeOK ==
  /\ Root \in Roots /\ ev \in Evals /\ stop \in BOOLEAN /\ plain \in BOOLEAN
  /\ \A i \in DOMAIN stack :
       LET g == stack[i] IN
       /\ g.node \in Node /\ g.depth \in -MaxPly..root.depth
       /\ {g.alpha, g.beta, g.oldAlpha, g.bs, g.val} \subseteq Values
       /\ {g.bm, g.head, g.trans, g.mv} \subseteq Moves(g.node) \cup {None}
  /\ ret = <<>> \/ (ret[1] \in Values /\ ret[2] \in Node \cup {None})
  /\ TT!TypeOK

Highest(S) == CHOOSE v \in S : \A w \in S : w <= v

\* A node's value at a depth from those of its children: minimax over the moves the
\* search would try, with its extensions, without a window, a table or any pruning.
\* V: the values, e: the evaluation.
Options(V, e, n, d) ==
  {-V[m][d - 1 + extension(n, m, d, FALSE)] : m \in Tried(n, d, FALSE)}
    \cup (IF d <= 0 /\ ~InCheck(n) THEN {e[n]} ELSE {})

Minimax(V, e, n, d) ==
  LET p == Position[n] IN
  IF p.drawn THEN DrawScore(p.ply)
  ELSE IF p.ply >= MaxPly THEN e[n]
  ELSE IF Options(V, e, n, d) # {} THEN Highest(Options(V, e, n, d))
  ELSE IF p.check THEN -Mate + p.ply ELSE DrawScore(p.ply)

ValueOf(e) == LET V[n \in Node] == [d \in Int |-> Minimax(V, e, n, d)] IN V

Value == ValueOf(ev)

\* What search() owes its caller: a score above alpha is reached, a score below
\* beta is not exceeded.  The window it is held to is the one it was called with.
ReturnIsBound ==
  stack # <<>> /\ stack' = Tail(stack) /\ ~stop /\ plain' =>
    LET v == ret'[1]  true == Value[f.node][f.depth]
    IN  /\ v > f.oldAlpha => true >= v
        /\ v < f.beta \/ v >= MateNext(f) => true <= v

EveryReturnIsBound == [][ReturnIsBound]_vars

\* What is stored bounds the value of its node at the entry's depth, whatever
\* windows, aspiration passes and earlier depths it comes from.
StoredIsBound ==
  ~stop /\ plain' => \A s \in DOMAIN entries :
    entries'[s] # entries[s] =>
      LET e == entries'[s]
          sc == AddMatePly(e.score, Position[e.lock].ply)  true == Value[e.lock][e.depth]
      IN  /\ TT!HasLower(e.scoreType) => true >= sc
          /\ TT!HasUpper(e.scoreType) => true <= sc

TableSound == [][StoredIsBound]_vars

\* What Retrieve answers from an entry too shallow for the question is a mate, and a
\* bound for the deeper search too: it may find a nearer mate, so the score that was
\* exact is a lower bound of it and no more, and of a mate suffered no lower bound.
ShallowMatesStand ==
  ~stop /\ plain =>
    LET value == Value IN
    \A s \in {t \in DOMAIN entries : entries[t].date # 0} :
      \A d \in entries[s].depth + 1..MaxDepth :
        LET n == entries[s].lock
            a == TT!Answer(entries[s], d, Position[n].ply)
        IN  a.ok => /\ TT!HasLower(a.flags) => value[n][d] >= a.score
                    /\ TT!HasUpper(a.flags) => value[n][d] <= a.score

\* Whichever way a score takes, up the stack or through the table, it bounds the
\* value on the side its reader takes it for.
ScoresAreBounds == EveryReturnIsBound /\ TableSound

\* The move and score announced are those of the last completed depth, whenever
\* the stop came.  The score is exact; only a mate with the first move, above which
\* there is nothing, has come as a lower bound.
AnnouncedIsTrue ==
  root.at = "done" /\ best.depth > 0 =>
    /\ best.type = IF best.score = MaxScore THEN Lower ELSE Lower + Upper
    /\ plain => LET d == best.depth IN
         /\ best.score = Value[Root][d]
         /\ best.score = -Value[best.move][d - 1 + extension(Root, best.move, d, TRUE)]

\* Assertions of the code: a call gets a window that is not empty, a node whose
\* moves are through has failed low or is inside.
WindowsOpen ==
  \A i \in DOMAIN stack : LET g == stack[i] IN
    /\ g.alpha < g.beta
    /\ g.at = "loop" => g.bs < g.beta

\* A pass searches every root move once although moves change places under it: so
\* many different moves have been searched as the loop has passed, and they are the
\* ones it has passed.
RootMovesOnce ==
  root.at = "loop" => /\ root.seen = {ml[i] : i \in 1..root.pos}
                      /\ Cardinality(root.seen) = root.pos

\* No depth, score or move runs out of its range, however extensions, windows and
\* the mate bounds combine, no window closes and no root move is left out or searched
\* twice (search, searchRoot).
FramesFit == TypeOK /\ WindowsOpen /\ RootMovesOnce

\* Every search ends, stopped or not.
Termination == <>(root.at = "done")
=============================================================================
