-------------------------- MODULE TreeSearchProofs --------------------------
(***************************************************************************)
(* Proofs about TreeSearch, for any game, evaluation, depth and table.     *)
(***************************************************************************)
EXTENDS TreeSearch, FiniteSetTheorems, SequenceTheorems, WellFoundedInduction, TLAPS

-----------------------------------------------------------------------------
(* The value of a node.                                                    *)

\* A property of the naturals that fails somewhere fails somewhere first.
LEMMA FirstIn ==
  ASSUME NEW S \in SUBSET Nat, S # {}
  PROVE  \E k \in S : \A j \in S : k <= j
<1>1. PICK k \in S : \A j \in S : ~(<<j, k>> \in OpToRel(<, Nat))
  <2>1. IsWellFoundedOn(OpToRel(<, Nat), Nat)
    BY NatLessThanWellFounded
  <2> QED
    BY <2>1, WFMin
<1>2. ASSUME NEW j \in S
      PROVE  k <= j
  <2>1. ~(j < k)
    BY <1>1, ZenonT(30) DEF OpToRel
  <2> QED
    BY <2>1
<1> QED
  BY <1>2

\* A set of integers with a bound above it has a highest member.
LEMMA HighestIs ==
  ASSUME NEW S \in SUBSET Int, S # {}, NEW b \in Int, \A v \in S : v <= b
  PROVE  Highest(S) \in S /\ \A v \in S : v <= Highest(S)
<1> DEFINE T == {b - v : v \in S}
<1>1. T \in SUBSET Nat /\ T # {}
  <2>1. \A v \in S : b - v \in Nat
    OBVIOUS
  <2>2. PICK v \in S : TRUE
    OBVIOUS
  <2>3. b - v \in T
    OBVIOUS
  <2> QED
    BY <2>1, <2>3
<1> HIDE DEF T
<1>2. PICK k \in T : \A j \in T : k <= j
  BY <1>1, FirstIn
<1>3. PICK v \in S : k = b - v
  BY <1>2 DEF T
<1>4. \A w \in S : w <= v
  <2>1. ASSUME NEW w \in S PROVE w <= v
    <3>1. b - w \in T
      BY DEF T
    <3> QED
      BY <3>1, <1>2, <1>3
  <2> QED
    BY <2>1
<1> QED
  BY <1>4 DEF Highest

PlyOf(n) == Position[n].ply

\* What is assumed of the game, for one node.
LEMMA GameIs ==
  ASSUME NEW n \in Node
  PROVE  /\ n \in Nat /\ n # None
         /\ PlyOf(n) \in Nat
         /\ Position[n].check \in BOOLEAN /\ Position[n].drawn \in BOOLEAN
         /\ Moves(n) \subseteq Node
         /\ \A m \in Moves(n) : PlyOf(m) = PlyOf(n) + 1
         /\ Position[n].captures \subseteq Moves(n)
         /\ Position[n].forcing \subseteq Moves(n)
<1>1. Position[n].moves \in Seq(Node)
  BY PositionAssumption DEF PositionAssumption
<1>2. \A i \in DOMAIN Position[n].moves : Position[n].moves[i] \in Node
  BY <1>1
<1>3. \A i \in DOMAIN Position[n].moves : Position[Position[n].moves[i]].ply = Position[n].ply + 1
  BY PositionAssumption DEF PositionAssumption
<1>4. /\ n \in Nat /\ n # None /\ Position[n].ply \in Nat
      /\ Position[n].check \in BOOLEAN /\ Position[n].drawn \in BOOLEAN
  BY PositionAssumption DEF PositionAssumption
<1>5. /\ Position[n].captures \subseteq Moves(n)
      /\ Position[n].forcing \subseteq Moves(n)
  BY PositionAssumption DEF PositionAssumption, Moves
<1> QED
  BY <1>2, <1>3, <1>4, <1>5 DEF Moves, PlyOf

\* Numbers that are far apart.
LEMMA ScoresAre ==
  /\ EvalMax \in Nat /\ MaxPly \in 1..500 /\ Mate = EvalMax + 1001
  /\ Mate \in Nat /\ NoScore = -Mate /\ MaxScore = Mate - 1 /\ MinScore = 1 - Mate
  /\ \A p : DrawScore(p) \in -EvalMax..EvalMax
<1>1. EvalMax \in Nat /\ MaxPly \in 1..500 /\ Contempt \in -EvalMax..EvalMax
  BY EvalMaxAssumption, LimitsAssumption DEF EvalMaxAssumption, LimitsAssumption
<1>2. -Contempt \in -EvalMax..EvalMax
  BY <1>1
<1> QED
  BY <1>1, <1>2 DEF Mate, NoScore, MaxScore, MinScore, DrawScore

\* The moves tried are moves, and more depth leaves none of them out.
LEMMA TriedAre ==
  ASSUME NEW n \in Node, NEW d \in Int
  PROVE  /\ Tried(n, d, FALSE) \subseteq Moves(n)
         /\ InCheck(n) \/ d > 0 => Tried(n, d, FALSE) = Moves(n)
         /\ \A c \in Int : c <= d => Tried(n, c, FALSE) \subseteq Tried(n, d, FALSE)
  BY GameIs DEF Tried

\* The depth at which move m of node n is searched at depth d.
Below(n, m, d) == d - 1 + extension(n, m, d, FALSE)

\* An extension is one ply or none, and depth is never lost by being deeper.
LEMMA ExtensionIs ==
  /\ \A n, m, d : \A pv \in BOOLEAN : extension(n, m, d, pv) = 0 \/ extension(n, m, d, pv) = 1
  /\ \A n, m : \A d \in Int : Below(n, m, d) \in Int /\ Below(n, m, d) \in (d - 1)..d
  /\ \A n, m : \A c, d \in Int : c <= d => Below(n, m, c) <= Below(n, m, d)
  BY DEF extension, Below

\* The minimax of a node depends on the values of its children only, and not even on
\* them at the last ply.
LEMMA MinimaxLocal ==
  ASSUME NEW V, NEW W, NEW e, NEW n \in Node, NEW d \in Int,
         PlyOf(n) < MaxPly => \A m \in Moves(n) : \A c \in Int : V[m][c] = W[m][c]
  PROVE  Minimax(V, e, n, d) = Minimax(W, e, n, d)
<1>1. CASE PlyOf(n) < MaxPly
  <2>1. \A m \in Tried(n, d, FALSE) :
          V[m][Below(n, m, d)] = W[m][Below(n, m, d)]
    <3> SUFFICES ASSUME NEW m \in Tried(n, d, FALSE)
                 PROVE  V[m][Below(n, m, d)] = W[m][Below(n, m, d)]
      OBVIOUS
    <3>1. m \in Moves(n)
      BY TriedAre
    <3>2. Below(n, m, d) \in Int
      BY ExtensionIs
    <3> QED
      BY <1>1, <3>1, <3>2
  <2>2. Options(V, e, n, d) = Options(W, e, n, d)
    BY <2>1 DEF Options, Below
  <2> QED
    BY <2>2 DEF Minimax
<1>2. CASE ~(PlyOf(n) < MaxPly)
  <2>1. Position[n].ply >= MaxPly
    BY <1>2, GameIs, ScoresAre DEF PlyOf
  <2> QED
    BY <2>1 DEF Minimax
<1> QED
  BY <1>1, <1>2

\* There is a function that gives every node the minimax of its children: it is found
\* ply by ply, from the last one up.
LEMMA ValueExists ==
  ASSUME NEW e
  PROVE  \E V : V = [n \in Node |-> [d \in Int |-> Minimax(V, e, n, d)]]
<1> DEFINE Solves(V, k) == \A n \in Node : PlyOf(n) + k >= MaxPly =>
                            \A d \in Int : V[n][d] = Minimax(V, e, n, d)
           Unsolved == {k \in Nat : \A V : ~Solves(V, k)}
           Next1(V) == [n \in Node |-> [d \in Int |-> Minimax(V, e, n, d)]]
<1>1. ASSUME NEW V, NEW k \in Nat, k # 0 => Solves(V, k - 1)
      PROVE  Solves(Next1(V), k)
  <2> SUFFICES ASSUME NEW n \in Node, PlyOf(n) + k >= MaxPly, NEW d \in Int
               PROVE  Minimax(V, e, n, d) = Minimax(Next1(V), e, n, d)
    OBVIOUS
  <2>1. ASSUME PlyOf(n) < MaxPly, NEW m \in Moves(n), NEW c \in Int
        PROVE  V[m][c] = Next1(V)[m][c]
    <3>1. k # 0 /\ PlyOf(m) + (k - 1) >= MaxPly /\ m \in Node
      BY <2>1, GameIs, ScoresAre
    <3>2. V[m][c] = Minimax(V, e, m, c)
      BY <3>1, <1>1
    <3> QED
      BY <3>1, <3>2
  <2> HIDE DEF Next1
  <2> QED
    BY <2>1, MinimaxLocal
<1>2. Unsolved = {}
  <2> SUFFICES ASSUME Unsolved # {}
               PROVE  FALSE
    OBVIOUS
  <2>1. Unsolved \in SUBSET Nat
    OBVIOUS
  <2>2. PICK k \in Unsolved : \A j \in Unsolved : k <= j
    <3> HIDE DEF Unsolved
    <3> QED
      BY <2>1, FirstIn
  <2>3. k \in Nat /\ \A V : ~Solves(V, k)
    BY <2>2
  <2>4. CASE k = 0
    <3>1. Solves(Next1(e), k)
      BY <2>3, <2>4, <1>1
    <3> QED
      BY <3>1, <2>3
  <2>5. CASE k # 0
    <3>1. k - 1 \in Nat /\ ~(k - 1 >= k)
      BY <2>3, <2>5
    <3>2. k - 1 \notin Unsolved
      <4> HIDE DEF Unsolved
      <4> QED
        BY <2>2, <3>1, <2>3
    <3>3. PICK V : Solves(V, k - 1)
      BY <3>1, <3>2
    <3>4. Solves(Next1(V), k)
      BY <3>3, <1>1, <2>3
    <3> QED
      BY <3>4, <2>3
  <2> QED
    BY <2>4, <2>5
<1>3. PICK V : Solves(V, MaxPly)
  <2>1. MaxPly \in Nat
    BY ScoresAre
  <2> QED
    BY <1>2, <2>1
<1>4. \A n \in Node : \A d \in Int : V[n][d] = Minimax(V, e, n, d)
  BY <1>3, GameIs, ScoresAre
<1> DEFINE W == Next1(V)
<1>5. \A n \in Node : \A d \in Int : W[n][d] = V[n][d]
  BY <1>4
<1>6. \A n \in Node : \A d \in Int : Minimax(W, e, n, d) = Minimax(V, e, n, d)
  <2> HIDE DEF W
  <2> SUFFICES ASSUME NEW n \in Node, NEW d \in Int
               PROVE  Minimax(W, e, n, d) = Minimax(V, e, n, d)
    OBVIOUS
  <2>1. \A m \in Moves(n) : \A c \in Int : W[m][c] = V[m][c]
    BY <1>5, GameIs
  <2> QED
    BY <2>1, MinimaxLocal
<1>7. W = [n \in Node |-> [d \in Int |-> Minimax(W, e, n, d)]]
  <2> HIDE DEF W
  <2>1. W = [n \in Node |-> [d \in Int |-> Minimax(V, e, n, d)]]
    BY DEF W
  <2> QED
    BY <2>1, <1>6
<1> QED
  BY <1>7

\* A node has the minimax value of its moves' values: the recursion is one over plies.
LEMMA ValueEquation ==
  ASSUME NEW e, NEW n \in Node, NEW d \in Int
  PROVE  ValueOf(e)[n][d] = Minimax(ValueOf(e), e, n, d)
<1>1. ValueOf(e) = [k \in Node |-> [c \in Int |-> Minimax(ValueOf(e), e, k, c)]]
  BY ValueExists DEF ValueOf
<1> QED
  BY <1>1

-----------------------------------------------------------------------------
(* What is known of a node's value.                                        *)

\* The scores a node at ply can have: from mated here to mate with the next move.
Reach(ply) == (ply - Mate)..(Mate - 1 - ply)

\* The score of move m of node n at depth d.
ScoreOf(e, n, m, d) == -ValueOf(e)[m][Below(n, m, d)]

\* Quiescence.
Quiet(n, d) == d <= 0 /\ ~InCheck(n)

\* v is the best of the moves of n and, in quiescence, of the evaluation.
BestOf(e, n, d, v) ==
  /\ \A m \in Tried(n, d, FALSE) : v >= ScoreOf(e, n, m, d)
  /\ Quiet(n, d) => v >= e[n]
  /\ \/ \E m \in Tried(n, d, FALSE) : v = ScoreOf(e, n, m, d)
     \/ Quiet(n, d) /\ v = e[n]
     \/ /\ Tried(n, d, FALSE) = {} /\ ~Quiet(n, d)
        /\ v = IF InCheck(n) THEN PlyOf(n) - Mate ELSE DrawScore(PlyOf(n))

\* The value of a node: of a draw, at the last ply, and above it.
ValueIs(e, n, d, v) ==
  /\ Position[n].drawn => v = DrawScore(PlyOf(n))
  /\ ~Position[n].drawn /\ PlyOf(n) >= MaxPly => v = e[n]
  /\ ~Position[n].drawn /\ PlyOf(n) < MaxPly => BestOf(e, n, d, v)

\* One step of the induction over the plies, from the last one up.
LEMMA ValueFromChildren ==
  ASSUME NEW e \in Evals, NEW n \in Node, NEW d \in Int, PlyOf(n) <= MaxPly,
         PlyOf(n) < MaxPly =>
           \A m \in Moves(n) : \A c \in Int : ValueOf(e)[m][c] \in Reach(PlyOf(m))
  PROVE  ValueOf(e)[n][d] \in Reach(PlyOf(n)) /\ ValueIs(e, n, d, ValueOf(e)[n][d])
<1> DEFINE p == PlyOf(n)
           S == Options(ValueOf(e), e, n, d)
           v == ValueOf(e)[n][d]
<1>1. /\ p \in Nat /\ p <= MaxPly /\ MaxPly \in 1..500 /\ EvalMax \in Nat /\ Mate = EvalMax + 1001
      /\ e[n] \in -EvalMax..EvalMax /\ DrawScore(p) \in -EvalMax..EvalMax
      /\ -Mate + p = p - Mate
  BY GameIs, ScoresAre, EvalsAssumption DEF EvalsAssumption
<1>2. -EvalMax..EvalMax \subseteq Reach(p) /\ p - Mate \in Reach(p)
  <2> HIDE DEF p
  <2> QED
    BY <1>1 DEF Reach
<1>3. v = Minimax(ValueOf(e), e, n, d)
  BY ValueEquation
<1>4. CASE Position[n].drawn
  <2>1. v = DrawScore(p)
    BY <1>3, <1>4 DEF Minimax, PlyOf
  <2> QED
    BY <2>1, <1>1, <1>2, <1>4 DEF ValueIs
<1>5. CASE ~Position[n].drawn /\ p >= MaxPly
  <2>1. v = e[n]
    BY <1>3, <1>5 DEF Minimax, PlyOf
  <2> QED
    BY <2>1, <1>1, <1>2, <1>5 DEF ValueIs
<1>6. CASE ~Position[n].drawn /\ p < MaxPly
  <2>1. \A m \in Tried(n, d, FALSE) : ScoreOf(e, n, m, d) \in Reach(p)
    <3> SUFFICES ASSUME NEW m \in Tried(n, d, FALSE)
                 PROVE  ScoreOf(e, n, m, d) \in Reach(p)
      OBVIOUS
    <3>1. m \in Moves(n) /\ PlyOf(m) = p + 1
      BY TriedAre, GameIs
    <3>2. PICK c \in Int : c = Below(n, m, d)
      BY ExtensionIs
    <3>3. PICK w : w = ValueOf(e)[m][c]
      OBVIOUS
    <3>4. w \in Reach(p + 1) /\ ScoreOf(e, n, m, d) = -w
      BY <3>1, <3>2, <3>3, <1>6 DEF ScoreOf
    <3> HIDE DEF p
    <3> QED
      BY <3>4, <1>1 DEF Reach
  <2>2. S = {ScoreOf(e, n, m, d) : m \in Tried(n, d, FALSE)}
              \cup (IF d <= 0 /\ ~InCheck(n) THEN {e[n]} ELSE {})
    BY DEF Options, ScoreOf, Below
  <2>3. v = IF S # {} THEN Highest(S) ELSE IF InCheck(n) THEN p - Mate ELSE DrawScore(p)
    <3>1. ~(Position[n].ply >= MaxPly)
      BY <1>1, <1>6 DEF PlyOf
    <3> QED
      BY <1>1, <1>3, <1>6, <3>1 DEF Minimax, InCheck, PlyOf
  <2> HIDE DEF S
  <2>4. S \subseteq Reach(p)
    <3>1. e[n] \in Reach(p)
      BY <1>1, <1>2
    <3> QED
      BY <2>1, <2>2, <3>1
  <2>5. CASE S # {}
    <3>1. S \in SUBSET Int /\ Mate \in Int /\ \A w \in S : w <= Mate
      <4> HIDE DEF p
      <4> QED
        BY <2>4, <1>1 DEF Reach
    <3>2. v \in S /\ \A w \in S : w <= v
      BY <2>3, <2>5, <3>1, HighestIs
    <3>3. \A w \in S : v >= w
      <4> HIDE DEF v
      <4> QED
        BY <3>1, <3>2
    <3>4. v \in Reach(p)
      BY <3>2, <2>4
    <3>5. \A m \in Tried(n, d, FALSE) : v >= ScoreOf(e, n, m, d)
      BY <3>3, <2>2
    <3>6. Quiet(n, d) => v >= e[n]
      BY <3>3, <2>2 DEF Quiet
    <3>7. \/ \E m \in Tried(n, d, FALSE) : v = ScoreOf(e, n, m, d)
          \/ Quiet(n, d) /\ v = e[n]
      BY <3>2, <2>2 DEF Quiet
    <3> HIDE DEF v
    <3>8. BestOf(e, n, d, v)
      BY <3>5, <3>6, <3>7 DEF BestOf
    <3> QED
      BY <3>4, <3>8, <1>6, <1>1 DEF ValueIs, v
  <2>6. CASE S = {}
    <3>1. Tried(n, d, FALSE) = {} /\ ~Quiet(n, d)
      BY <2>6, <2>2 DEF Quiet
    <3>2. v = IF InCheck(n) THEN p - Mate ELSE DrawScore(p)
      BY <2>3, <2>6
    <3>3. v \in Reach(p)
      BY <3>2, <1>1, <1>2
    <3> HIDE DEF v
    <3>4. BestOf(e, n, d, v)
      BY <3>1, <3>2 DEF BestOf
    <3> QED
      BY <3>3, <3>4, <1>1, <1>6 DEF ValueIs, v
  <2> QED
    BY <2>5, <2>6
<1> QED
  BY <1>1, <1>4, <1>5, <1>6

\* The value of every node within reach is what ValueIs says, and a score the node can have.
LEMMA ValueRight ==
  ASSUME NEW e \in Evals, NEW n \in Node, PlyOf(n) <= MaxPly, NEW d \in Int
  PROVE  ValueOf(e)[n][d] \in Reach(PlyOf(n)) /\ ValueIs(e, n, d, ValueOf(e)[n][d])
<1> DEFINE Holds(m) == \A c \in Int : ValueOf(e)[m][c] \in Reach(PlyOf(m))
           Fails == {k \in Nat : \E m \in Node : PlyOf(m) + k = MaxPly /\ ~Holds(m)}
<1>1. ASSUME NEW m \in Node, PlyOf(m) < MaxPly, NEW k \in Nat, PlyOf(m) + k = MaxPly,
             \A j \in Nat : j < k => j \notin Fails
      PROVE  \A i \in Moves(m) : Holds(i)
  <2> SUFFICES ASSUME NEW i \in Moves(m)
               PROVE  Holds(i)
    OBVIOUS
  <2>1. i \in Node /\ PlyOf(i) = PlyOf(m) + 1 /\ PlyOf(m) \in Nat
    BY GameIs
  <2>2. k - 1 \in Nat /\ k - 1 < k /\ PlyOf(i) + (k - 1) = MaxPly
    BY <2>1, <1>1, ScoresAre
  <2>3. k - 1 \notin Fails
    <3> HIDE DEF Fails
    <3> QED
      BY <2>2, <1>1
  <2> HIDE DEF Holds
  <2> QED
    BY <2>1, <2>2, <2>3
<1>2. Fails = {}
  <2> SUFFICES ASSUME Fails # {}
               PROVE  FALSE
    OBVIOUS
  <2>1. PICK k \in Fails : \A j \in Fails : k <= j
    <3>1. Fails \in SUBSET Nat
      OBVIOUS
    <3> HIDE DEF Fails
    <3> QED
      BY <3>1, FirstIn
  <2>2. PICK m \in Node : PlyOf(m) + k = MaxPly /\ ~Holds(m)
    BY <2>1
  <2>3. k \in Nat
    BY <2>1
  <2>4. \A j \in Nat : j < k => j \notin Fails
    <3> HIDE DEF Fails
    <3> QED
      BY <2>1, <2>3
  <2>5. PlyOf(m) <= MaxPly
    BY <2>2, <2>3, GameIs
  <2>6. PlyOf(m) < MaxPly => \A i \in Moves(m) : Holds(i)
    <3> HIDE DEF Fails, Holds
    <3> QED
      BY <1>1, <2>2, <2>3, <2>4
  <2>7. Holds(m)
    BY <2>5, <2>6, ValueFromChildren
  <2> QED
    BY <2>2, <2>7
<1>3. \A m \in Node : PlyOf(m) <= MaxPly => Holds(m)
  <2> SUFFICES ASSUME NEW m \in Node, PlyOf(m) <= MaxPly
               PROVE  Holds(m)
    OBVIOUS
  <2>1. MaxPly - PlyOf(m) \in Nat /\ PlyOf(m) + (MaxPly - PlyOf(m)) = MaxPly
    BY GameIs, ScoresAre
  <2> HIDE DEF Holds
  <2> QED
    BY <1>2, <2>1
<1>4. PlyOf(n) < MaxPly => \A m \in Moves(n) : Holds(m)
  <2>1. PlyOf(n) < MaxPly => \A m \in Moves(n) : m \in Node /\ PlyOf(m) <= MaxPly
    BY GameIs, ScoresAre
  <2> HIDE DEF Holds
  <2> QED
    BY <1>3, <2>1
<1> QED
  BY <1>4, ValueFromChildren

\* A mate that is found stays found: with more depth the winner does at least as well,
\* the loser no better.
MatesStay(e, n) ==
  \A c, d \in Int : c <= d =>
    /\ ValueOf(e)[n][c] > EvalMax => ValueOf(e)[n][d] >= ValueOf(e)[n][c]
    /\ ValueOf(e)[n][c] < -EvalMax => ValueOf(e)[n][d] <= ValueOf(e)[n][c]

\* One step of the induction: a winning move stays one; all moves that lose stay losing.
LEMMA MatesFromChildren ==
  ASSUME NEW e \in Evals, NEW n \in Node, PlyOf(n) <= MaxPly,
         PlyOf(n) < MaxPly => \A m \in Moves(n) : MatesStay(e, m)
  PROVE  MatesStay(e, n)
<1> SUFFICES ASSUME NEW c \in Int, NEW d \in Int, c <= d,
                    NEW v, v = ValueOf(e)[n][c], NEW w, w = ValueOf(e)[n][d]
             PROVE  /\ v > EvalMax => w >= v
                    /\ v < -EvalMax => w <= v
  BY DEF MatesStay
<1>1. /\ PlyOf(n) \in Nat /\ MaxPly \in 1..500 /\ EvalMax \in Nat /\ Mate = EvalMax + 1001
      /\ e[n] \in -EvalMax..EvalMax /\ DrawScore(PlyOf(n)) \in -EvalMax..EvalMax
  BY GameIs, ScoresAre, EvalsAssumption DEF EvalsAssumption
<1>2. v \in Int /\ w \in Int /\ ValueIs(e, n, c, v) /\ ValueIs(e, n, d, w)
  <2>1. v \in Reach(PlyOf(n)) /\ w \in Reach(PlyOf(n))
    BY ValueRight
  <2>2. Reach(PlyOf(n)) \subseteq Int
    BY <1>1 DEF Reach
  <2> QED
    BY <2>1, <2>2, ValueRight
<1>3. CASE Position[n].drawn \/ PlyOf(n) >= MaxPly
  BY <1>1, <1>2, <1>3 DEF ValueIs
<1>4. CASE ~Position[n].drawn /\ PlyOf(n) < MaxPly
  <2>1. BestOf(e, n, c, v) /\ BestOf(e, n, d, w)
    BY <1>2, <1>4 DEF ValueIs
  <2>2. ASSUME NEW m \in Moves(n)
        PROVE  /\ ScoreOf(e, n, m, c) \in Int /\ ScoreOf(e, n, m, d) \in Int
               /\ ScoreOf(e, n, m, c) > EvalMax => ScoreOf(e, n, m, d) >= ScoreOf(e, n, m, c)
               /\ ScoreOf(e, n, m, c) < -EvalMax => ScoreOf(e, n, m, d) <= ScoreOf(e, n, m, c)
    <3>1. PICK i \in Int, j \in Int : i = Below(n, m, c) /\ j = Below(n, m, d) /\ i <= j
      BY ExtensionIs
    <3>2. m \in Node /\ PlyOf(m) <= MaxPly
      BY <1>4, <1>1, GameIs
    <3>3. PICK x, y : x = ValueOf(e)[m][i] /\ y = ValueOf(e)[m][j]
      OBVIOUS
    <3>4. x \in Int /\ y \in Int
      <4>1. x \in Reach(PlyOf(m)) /\ y \in Reach(PlyOf(m))
        BY <3>2, <3>3, ValueRight
      <4>2. PlyOf(m) \in Nat
        BY <3>2, GameIs
      <4> QED
        BY <4>1, <4>2, <1>1 DEF Reach
    <3>5. (x > EvalMax => y >= x) /\ (x < -EvalMax => y <= x)
      BY <1>4, <3>1, <3>3 DEF MatesStay
    <3>6. ScoreOf(e, n, m, c) = -x /\ ScoreOf(e, n, m, d) = -y
      BY <3>1, <3>3 DEF ScoreOf
    <3> QED
      BY <3>4, <3>5, <3>6, <1>1
  <2>3. Tried(n, c, FALSE) \subseteq Tried(n, d, FALSE) /\ Tried(n, d, FALSE) \subseteq Moves(n)
    BY TriedAre
  <2>4. ASSUME v > EvalMax
        PROVE  w >= v
    <3>1. PICK m \in Tried(n, c, FALSE) : v = ScoreOf(e, n, m, c)
      <4>1. v # e[n] /\ v # DrawScore(PlyOf(n)) /\ v # PlyOf(n) - Mate
        BY <1>1, <1>2, <2>4
      <4> QED
        BY <2>1, <4>1 DEF BestOf
    <3>2. PICK s \in Int : s = ScoreOf(e, n, m, d) /\ s >= v /\ w >= s
      BY <2>1, <2>2, <2>3, <2>4, <3>1 DEF BestOf
    <3> QED
      BY <3>2, <1>2
  <2>5. ASSUME v < -EvalMax
        PROVE  w <= v
    <3>1. ~Quiet(n, c)
      BY <1>1, <1>2, <2>1, <2>5 DEF BestOf
    <3>2. ~Quiet(n, d) /\ Tried(n, c, FALSE) = Moves(n) /\ Tried(n, d, FALSE) = Moves(n)
      <4>1. (InCheck(n) \/ c > 0) /\ (InCheck(n) \/ d > 0) /\ ~Quiet(n, d)
        BY <3>1 DEF Quiet
      <4>2. Tried(n, c, FALSE) = Moves(n)
        BY <4>1, TriedAre
      <4>3. Tried(n, d, FALSE) = Moves(n)
        BY <4>1, TriedAre
      <4> QED
        BY <4>1, <4>2, <4>3
    <3>3. CASE Moves(n) = {}
      <4> DEFINE end == IF InCheck(n) THEN PlyOf(n) - Mate ELSE DrawScore(PlyOf(n))
      <4>1. v = end
        BY <2>1, <3>1, <3>2, <3>3 DEF BestOf
      <4>2. w = end
        BY <2>1, <3>1, <3>2, <3>3 DEF BestOf
      <4> HIDE DEF end
      <4>3. v = w
        BY <4>1, <4>2
      <4> QED
        BY <4>3, <1>2
    <3>4. CASE Moves(n) # {}
      <4>1. PICK m \in Moves(n) : w = ScoreOf(e, n, m, d)
        BY <2>1, <3>2, <3>4 DEF BestOf
      <4>2. PICK s \in Int : s = ScoreOf(e, n, m, c) /\ v >= s
        BY <2>1, <2>2, <3>2 DEF BestOf
      <4>3. w <= s
        BY <2>2, <2>5, <4>1, <4>2, <1>1, <1>2
      <4> QED
        BY <4>2, <4>3, <1>2
    <3> QED
      BY <3>3, <3>4
  <2> QED
    BY <2>4, <2>5
<1> QED
  BY <1>1, <1>2, <1>3, <1>4

\* A mate found at a depth is found, as near or nearer, at every greater one, for any game and
\* evaluation: why Retrieve may answer with a mate that was stored at a smaller depth.
LEMMA MatesAreKept ==
  ASSUME NEW e \in Evals
  PROVE  \A n \in Node : PlyOf(n) <= MaxPly => MatesStay(e, n)
<1> DEFINE Fails == {k \in Nat : \E m \in Node : PlyOf(m) + k = MaxPly /\ ~MatesStay(e, m)}
<1>1. Fails = {}
  <2> SUFFICES ASSUME Fails # {}
               PROVE  FALSE
    OBVIOUS
  <2>1. PICK k \in Fails : \A j \in Fails : k <= j
    <3>1. Fails \in SUBSET Nat
      OBVIOUS
    <3> HIDE DEF Fails
    <3> QED
      BY <3>1, FirstIn
  <2>2. PICK n \in Node : PlyOf(n) + k = MaxPly /\ ~MatesStay(e, n)
    BY <2>1
  <2>3. k \in Nat /\ PlyOf(n) <= MaxPly
    BY <2>1, <2>2, GameIs
  <2>4. ASSUME PlyOf(n) < MaxPly, NEW m \in Moves(n)
        PROVE  MatesStay(e, m)
    <3>1. m \in Node /\ PlyOf(m) = PlyOf(n) + 1 /\ PlyOf(n) \in Nat
      BY GameIs
    <3>2. k - 1 \in Nat /\ ~(k <= k - 1) /\ PlyOf(m) + (k - 1) = MaxPly
      BY <3>1, <2>2, <2>3, <2>4, ScoresAre
    <3>3. k - 1 \notin Fails
      <4> HIDE DEF Fails
      <4> QED
        BY <2>1, <3>2
    <3> QED
      BY <3>1, <3>2, <3>3
  <2> QED
    BY <2>2, <2>3, <2>4, MatesFromChildren
<1> SUFFICES ASSUME NEW n \in Node, PlyOf(n) <= MaxPly
             PROVE  MatesStay(e, n)
  OBVIOUS
<1>2. MaxPly - PlyOf(n) \in Nat /\ PlyOf(n) + (MaxPly - PlyOf(n)) = MaxPly
  BY GameIs, ScoresAre
<1> QED
  BY <1>1, <1>2

-----------------------------------------------------------------------------
(* The inductive invariant.  Each part comes in three strengths: what holds *)
(* always, what holds until the search is stopped (a stopped call returns   *)
(* its alpha, which need not be a score), and what holds as long as nothing *)
(* has been pruned either.                                                  *)

Exact == plain /\ ~stop

Waiting == {"null", "iid", "scout", "full"}
Begun   == {"iid", "loop", "scout", "full"}

FrameSet ==
  [node : Node, depth : Int, alpha : Int, beta : Int, oldAlpha : Int, pvNode : BOOLEAN,
   bs : Int, bm : Nat, head : Nat, hard : BOOLEAN, val : Int, trans : Nat,
   todo : SUBSET Node, searched : Nat, mv : Nat, deep : Int, red : Nat,
   at : {"enter", "static", "open", "loop"} \cup Waiting]

OrNone(n) == Moves(n) \cup {None}

\* The best score from node n: mate with the next move.
Top(n) == Mate - 1 - PlyOf(n)

\* A reduction takes a call no lower than depth 1.
Reduces(depth, red) == red = 0 \/ (depth >= 3 /\ red <= depth - 2)

\* What holds of a call's frame always; D: the depth of the pass.
Shape(g, D) ==
  /\ g \in FrameSet
  /\ PlyOf(g.node) <= MaxPly /\ -PlyOf(g.node) <= g.depth /\ g.depth <= D
  /\ {g.alpha, g.beta, g.oldAlpha, g.bs, g.val} \subseteq Values
  /\ g.alpha < g.beta
  /\ {g.bm, g.head, g.trans, g.mv} \subseteq OrNone(g.node) /\ g.todo \subseteq Moves(g.node)
  /\ g.at \notin Begun =>
       g.alpha = g.oldAlpha /\ g.bs = NoScore /\ g.hard = FALSE /\ g.bm = None /\ g.head = None
  /\ g.at # "enter" => /\ ~Position[g.node].drawn /\ PlyOf(g.node) < MaxPly
                       /\ g.beta <= Top(g.node)
  /\ g.at \in Begun => g.bs < g.beta
  /\ g.at \in {"scout", "full"} => /\ g.mv \in Moves(g.node)
                                   /\ g.deep \in (g.depth - 1)..g.depth
  /\ g.at = "null" => Position[g.node].pass # None /\ g.depth > 3
  /\ g.at = "iid" => g.depth >= 3

\* Until the search is stopped: the best score so far is one the node can have.
Possible(g) == g.bs = NoScore \/ g.bs \in Reach(PlyOf(g.node))

\* As long as nothing has been pruned: a best score above the first alpha is reached
\* by the node, ...
Settled(g, e) ==
  LET n == g.node  d == g.depth IN
  /\ g.alpha = Larger(g.oldAlpha, g.bs)
  /\ g.hard <=> Quiet(n, d)
  /\ Quiet(n, d) => g.bs >= e[n]
  /\ g.bs > g.oldAlpha => ValueOf(e)[n][d] >= g.bs
  /\ g.bs # NoScore => Tried(n, d, FALSE) # {} \/ Quiet(n, d)

\* ... and each of its moves is still to come, being searched, or no better than the
\* best score.
Faithful(g, e) ==
  LET n == g.node  d == g.depth IN
  /\ g.at # "enter" => d >= 0 \/ ~InCheck(n)
  /\ g.at \in Begun => Settled(g, e) /\ g.trans \in Tried(n, d, FALSE) \cup {None}
  /\ g.at \in {"loop", "scout", "full"} =>
       /\ g.todo \subseteq Tried(n, d, FALSE)
       /\ \A m \in Tried(n, d, FALSE) : \/ m \in g.todo
                                        \/ m = g.mv /\ g.at # "loop"
                                        \/ ScoreOf(e, n, m, d) <= g.bs
  /\ g.at \in {"scout", "full"} => g.mv \in Tried(n, d, FALSE) /\ g.deep = Below(n, g.mv, d)

FrameOK(g) == /\ Shape(g, root.depth)
              /\ ~stop => Possible(g)
              /\ Exact => Faithful(g, ev)

\* The call a frame waits for, and the one the root waits for.
Asked(n, depth, alpha, beta) == [node |-> n, depth |-> depth, alpha |-> alpha, beta |-> beta]

CallOf(g) ==
  IF g.at = "null" THEN Asked(Position[g.node].pass, g.depth - 4, -g.beta, -g.beta + 1)
  ELSE IF g.at = "iid" THEN Asked(g.node, g.depth - 2, g.alpha, g.beta)
  ELSE IF g.at = "scout" THEN Asked(g.mv, g.deep - g.red, -g.alpha - 1, -g.alpha)
  ELSE Asked(g.mv, g.deep, -g.beta, -g.alpha)

RootDeep == root.depth - 1 + extension(Root, RootMove, root.depth, TRUE)

RootCall == IF root.at = "scout" THEN Asked(RootMove, RootDeep - root.red, -root.alpha - 1, -root.alpha)
            ELSE Asked(RootMove, RootDeep, -root.beta, -root.alpha)

\* The call that the i-th frame serves; the 0-th is the one just answered.
CallAt(i) == IF i < Len(stack) THEN CallOf(stack[i + 1]) ELSE RootCall

Serves(g, c) ==
  /\ g.node = c.node /\ g.depth = c.depth /\ g.oldAlpha = c.alpha
  /\ g.beta = IF g.at = "enter" THEN c.beta ELSE Smaller(c.beta, Top(c.node))

\* A score is a bound of the value as the window says.
Bounds(c, e, sc) ==
  /\ sc > c.alpha => ValueOf(e)[c.node][c.depth] >= sc
  /\ sc < c.beta \/ sc >= Top(c.node) => ValueOf(e)[c.node][c.depth] <= sc

\* sc and mv answer the call c.
AnswerOK(c, sc, mv) ==
  /\ sc \in Values /\ mv \in OrNone(c.node)
  /\ ~stop => sc \in Reach(PlyOf(c.node))
  /\ Exact => Bounds(c, ev, sc)

StackOK ==
  /\ stack \in Seq(FrameSet)
  /\ \A i \in 1..Len(stack) : FrameOK(stack[i]) /\ Serves(stack[i], CallAt(i))
  /\ \A i \in 2..Len(stack) : stack[i].at \in Waiting
  /\ stack # <<>> => (stack[1].at \in Waiting <=> ret # <<>>)
  /\ (stack # <<>> \/ ret # <<>>) <=> root.at \in {"scout", "full"}
  /\ ret # <<>> => ret = <<ret[1], ret[2]>> /\ AnswerOK(CallAt(0), ret[1], ret[2])

\* What a slot of the table holds.
EntryOK(x) ==
  LET sc == AddMatePly(x.score, PlyOf(x.lock))  true == ValueOf(ev)[x.lock][x.depth] IN
  x.date # 0 =>
    /\ x.lock \in Node /\ PlyOf(x.lock) <= MaxPly /\ x.move \in OrNone(x.lock) /\ sc \in Values
    /\ ~stop => sc \in Reach(PlyOf(x.lock))
    /\ Exact => /\ TT!HasLower(x.scoreType) => true >= sc
                /\ TT!HasUpper(x.scoreType) => true <= sc

TableOK == TT!TypeOK /\ \A s \in TT!Slots : EntryOK(entries[s])

InPass == {"loop", "scout", "full"}

RootSet ==
  [depth : 0..MaxDepth, margin : 0..499, alpha : Int, beta : Int, oldAlpha : Int, bs : Int,
   bm : Nat, pos : Nat, seen : SUBSET Node, red : Nat,
   at : {"iterate", "passed", "completed", "done"} \cup InPass]

BestSet == [depth : 0..MaxDepth, move : Nat, score : Int, type : Nat]

\* What holds at the root always.
RootShape ==
  /\ Root \in Roots /\ ev \in Evals /\ stop \in BOOLEAN /\ plain \in BOOLEAN
  /\ root \in RootSet /\ best \in BestSet /\ completed \in BestSet /\ lastScore \in Values
  /\ ml \in [1..Cardinality(Moves(Root)) -> Moves(Root)]
  /\ \A i, j \in DOMAIN ml : ml[i] = ml[j] => i = j
  /\ {root.alpha, root.beta, root.oldAlpha, root.bs} \subseteq Values
  /\ root.bm \in OrNone(Root) /\ best.move \in Moves(Root) /\ completed.move \in Moves(Root)
  /\ root.at = "iterate" => root.depth < MaxDepth
  /\ root.at # "iterate" => root.depth >= 1
  /\ root.at \in InPass => root.alpha < root.beta
  /\ root.at = "loop" => root.pos \in 0..Len(ml) /\ root.seen = {ml[i] : i \in 1..root.pos}
  /\ root.at \in {"scout", "full"} =>
       root.pos + 1 \in 1..Len(ml) /\ root.seen = {ml[i] : i \in 1..(root.pos + 1)}
  /\ root.at \in InPass \cup {"passed"} =>
       /\ root.margin = 0 => root.oldAlpha = MinScore /\ root.beta = MaxScore
       /\ root.margin # 0 => root.beta < MaxScore /\ ~IsMateScore(lastScore)

\* A root move's score.
RootReach == (2 - Mate)..(Mate - 1)

\* Best tells of the present pass.
BestTells ==
  /\ best.depth = root.depth /\ best.score = root.bs /\ root.bs \in RootReach
  /\ best.type = scoreType(root.bs, root.oldAlpha, root.beta)

\* Until the search is stopped.
RootPossible ==
  /\ root.at \in InPass =>
       /\ root.alpha = Larger(root.oldAlpha, root.bs)
       /\ root.pos = 0 => root.bs = NoScore
       /\ root.pos # 0 => BestTells
  /\ root.at = "passed" => BestTells

\* The extension of a root move is one a value has.
SameExtension(m, d) == extension(Root, m, d, TRUE) = extension(Root, m, d, FALSE)

\* As long as nothing has been pruned.
RootFaithful ==
  /\ root.at \in {"scout", "full"} => SameExtension(RootMove, root.depth)
  /\ root.at \in InPass \cup {"passed"} /\ root.bs > root.oldAlpha =>
       /\ SameExtension(best.move, root.depth)
       /\ ScoreOf(ev, Root, best.move, root.depth) >= root.bs
  /\ root.at \in InPass => \A i \in 1..root.pos : ScoreOf(ev, Root, ml[i], root.depth) <= root.bs
  /\ root.at = "passed" /\ root.bs < root.beta => ValueOf(ev)[Root][root.depth] <= root.bs

\* What AnnouncedIsTrue says, of the last completed depth.
CompletedOK ==
  completed.depth > 0 =>
    /\ completed.type = IF completed.score = MaxScore THEN Lower ELSE Lower + Upper
    /\ plain => LET d == completed.depth IN
         /\ completed.score = ValueOf(ev)[Root][d]
         /\ completed.score = -ValueOf(ev)[completed.move][d - 1 + extension(Root, completed.move, d, TRUE)]

RootOK == /\ RootShape
          /\ ~stop => RootPossible
          /\ Exact => RootFaithful
          /\ CompletedOK
          /\ root.at = "done" => best = completed

IInv == RootOK /\ StackOK /\ TableOK

-----------------------------------------------------------------------------
(* What the three ways to leave a frame make of the stack.                 *)

\* Goto, Call and Return on sequences.
LEMMA StackSteps ==
  ASSUME NEW S, NEW s \in Seq(S), s # <<>>
  PROVE  /\ Len(s) \in Nat /\ Len(s) >= 1 /\ Head(s) = s[1] /\ Head(s) \in S
         /\ Tail(s) \in Seq(S) /\ Len(Tail(s)) = Len(s) - 1
         /\ \A i \in 1..(Len(s) - 1) : Tail(s)[i] = s[i + 1]
<1>1. Len(s) \in Nat /\ Len(s) >= 1
  OBVIOUS
<1> QED
  BY <1>1

\* A top replaced, as by Goto.
LEMMA PushOne ==
  ASSUME NEW S, NEW s \in Seq(S), s # <<>>, NEW g \in S, NEW t, t = <<g>> \o Tail(s)
  PROVE  /\ t \in Seq(S) /\ Len(t) = Len(s) /\ t # <<>> /\ t[1] = g
         /\ \A i \in 2..Len(s) : t[i] = s[i]
<1>1. /\ Len(s) \in Nat /\ Len(s) >= 1
      /\ Tail(s) \in Seq(S) /\ Len(Tail(s)) = Len(s) - 1
      /\ \A i \in 1..(Len(s) - 1) : Tail(s)[i] = s[i + 1]
  BY StackSteps
<1> DEFINE r == Tail(s)
<1> HIDE DEF r
<1>2. r \in Seq(S) /\ Len(r) = Len(s) - 1 /\ t = <<g>> \o r
  BY <1>1 DEF r
<1>3. t \in Seq(S) /\ Len(t) = 1 + Len(r) /\ t[1] = g
  BY <1>1, <1>2
<1>4. \A i \in 2..(1 + Len(r)) : t[i] = r[i - 1]
  BY <1>1, <1>2
<1>5. \A i \in 2..Len(s) : t[i] = s[i]
  BY <1>1, <1>2, <1>4 DEF r
<1> QED
  BY <1>1, <1>2, <1>3, <1>5

\* A top replaced and a frame pushed, as by Call.
LEMMA PushTwo ==
  ASSUME NEW S, NEW s \in Seq(S), s # <<>>, NEW g \in S, NEW h \in S, NEW t, t = <<h, g>> \o Tail(s)
  PROVE  /\ t \in Seq(S) /\ Len(t) = Len(s) + 1 /\ t # <<>> /\ t[1] = h /\ t[2] = g
         /\ \A i \in 2..Len(s) : t[i + 1] = s[i]
<1>1. /\ Len(s) \in Nat /\ Len(s) >= 1
      /\ Tail(s) \in Seq(S) /\ Len(Tail(s)) = Len(s) - 1
      /\ \A i \in 1..(Len(s) - 1) : Tail(s)[i] = s[i + 1]
  BY StackSteps
<1> DEFINE r == Tail(s)
<1> HIDE DEF r
<1>2. r \in Seq(S) /\ Len(r) = Len(s) - 1 /\ t = <<h, g>> \o r
  BY <1>1 DEF r
<1>3. t \in Seq(S) /\ Len(t) = 2 + Len(r) /\ t[1] = h /\ t[2] = g
  BY <1>1, <1>2
<1>4. \A i \in 3..(2 + Len(r)) : t[i] = r[i - 2]
  BY <1>1, <1>2
<1>5. \A i \in 2..Len(s) : t[i + 1] = s[i]
  BY <1>1, <1>2, <1>4 DEF r
<1> QED
  BY <1>1, <1>2, <1>3, <1>5

\* The frame on top.
LEMMA TopFrame ==
  ASSUME StackOK, stack # <<>>
  PROVE  /\ f = stack[1] /\ f \in FrameSet /\ FrameOK(f) /\ Serves(f, CallAt(1))
         /\ Len(stack) \in Nat /\ Len(stack) >= 1
         /\ root.at \in {"scout", "full"}
         /\ f.at \in Waiting <=> ret # <<>>
         /\ ret # <<>> => ret = <<ret[1], ret[2]>> /\ AnswerOK(CallOf(f), ret[1], ret[2])
<1>1. stack \in Seq(FrameSet)
  BY DEF StackOK
<1>2. Len(stack) \in Nat /\ Len(stack) >= 1 /\ f = stack[1] /\ f \in FrameSet
  BY <1>1, StackSteps DEF f
<1>3. 1 \in 1..Len(stack) /\ 0 < Len(stack)
  BY <1>2
<1>4. CallAt(0) = CallOf(f)
  BY <1>2, <1>3 DEF CallAt
<1> QED
  BY <1>2, <1>3, <1>4 DEF StackOK

\* A step that changes neither the root nor the evaluation, and takes nothing back.
Inner == /\ UNCHANGED <<Root, ev, root, ml, stop>>
         /\ plain' => plain

\* A frame stays right while root and evaluation stay.
LEMMA FrameKept ==
  ASSUME Inner, NEW g, FrameOK(g)
  PROVE  FrameOK(g)'
<1>1. root' = root /\ ev' = ev /\ (Exact' => Exact) /\ (~stop' => ~stop)
  BY DEF Inner, Exact
<1>2. Shape(g, root.depth)' /\ (~stop' => Possible(g)')
  BY <1>1 DEF FrameOK
<1>3. Exact' => Faithful(g, ev)'
  BY <1>1 DEF FrameOK
<1> QED
  BY <1>2, <1>3 DEF FrameOK

\* What the root waits for does not change inside a call.
LEMMA RootCallKept ==
  ASSUME Inner
  PROVE  RootCall' = RootCall
  BY DEF Inner, RootCall, RootDeep, RootMove

\* A frame that goes on in its own code keeps the stack right.
LEMMA GotoKeeps ==
  ASSUME StackOK, stack # <<>>, Inner, NEW g \in FrameSet, Goto(g),
         FrameOK(g)', Serves(g, CallAt(1)), g.at \notin Waiting
  PROVE  StackOK'
<1>1. stack \in Seq(FrameSet) /\ Len(stack) \in Nat /\ Len(stack) >= 1 /\ root.at \in {"scout", "full"}
  BY TopFrame DEF StackOK
<1>2. ret' = <<>> /\ stack' = <<g>> \o Tail(stack)
  BY DEF Goto
<1>3. /\ stack' \in Seq(FrameSet) /\ Len(stack') = Len(stack) /\ stack' # <<>> /\ stack'[1] = g
      /\ \A i \in 2..Len(stack) : stack'[i] = stack[i]
  BY <1>1, <1>2, PushOne
<1>4. \A i \in 1..Len(stack) : CallAt(i)' = CallAt(i)
  <2> SUFFICES ASSUME NEW i \in 1..Len(stack)
               PROVE  CallAt(i)' = CallAt(i)
    OBVIOUS
  <2>1. CASE i < Len(stack)
    <3>1. i + 1 \in 2..Len(stack) /\ i < Len(stack')
      BY <1>1, <1>3, <2>1
    <3> QED
      BY <1>3, <2>1, <3>1 DEF CallAt
  <2>2. CASE ~(i < Len(stack))
    BY <1>3, <2>2, RootCallKept DEF CallAt
  <2> QED
    BY <2>1, <2>2
<1>5. ASSUME NEW i \in 1..Len(stack), NEW h, h = stack'[i]
      PROVE  FrameOK(h)' /\ Serves(h, CallAt(i)')
  <2>1. CASE i = 1
    <3>1. h = g /\ CallAt(i)' = CallAt(1)
      BY <1>1, <1>3, <1>4, <1>5, <2>1
    <3> QED
      BY <3>1
  <2>2. CASE i # 1
    <3>1. i \in 2..Len(stack) /\ h = stack[i]
      BY <1>1, <1>3, <1>5, <2>2
    <3>2. FrameOK(h) /\ Serves(h, CallAt(i))
      BY <3>1 DEF StackOK
    <3>3. FrameOK(h)'
      BY <3>2, FrameKept
    <3> QED
      BY <1>4, <3>2, <3>3
  <2> QED
    BY <2>1, <2>2
<1>6. \A i \in 1..Len(stack') : FrameOK(stack[i])' /\ Serves(stack[i], CallAt(i))'
  BY <1>3, <1>5
<1>7. \A i \in 2..Len(stack') : stack'[i].at \in Waiting
  BY <1>3 DEF StackOK
<1>8. root' = root
  BY DEF Inner
<1> QED
  BY <1>1, <1>2, <1>3, <1>6, <1>7, <1>8 DEF StackOK

\* A call keeps the stack right when the frame called serves it.
LEMMA CallKeeps ==
  ASSUME StackOK, stack # <<>>, Inner, NEW g \in FrameSet, NEW h \in FrameSet, Call(g, h),
         FrameOK(g)', Serves(g, CallAt(1)), g.at \in Waiting,
         FrameOK(h)', Serves(h, CallOf(g)), h.at \notin Waiting
  PROVE  StackOK'
<1>1. stack \in Seq(FrameSet) /\ Len(stack) \in Nat /\ Len(stack) >= 1 /\ root.at \in {"scout", "full"}
  BY TopFrame DEF StackOK
<1>2. ret' = <<>> /\ stack' = <<h, g>> \o Tail(stack)
  BY DEF Call
<1>3. /\ stack' \in Seq(FrameSet) /\ Len(stack') = Len(stack) + 1 /\ stack' # <<>>
      /\ stack'[1] = h /\ stack'[2] = g
      /\ \A i \in 2..Len(stack) : stack'[i + 1] = stack[i]
  BY <1>1, <1>2, PushTwo
<1>4. ASSUME NEW i \in 1..Len(stack)
      PROVE  CallAt(i + 1)' = CallAt(i)
  <2>1. CASE i < Len(stack)
    <3>1. i + 1 \in 2..Len(stack) /\ i + 1 < Len(stack') /\ stack'[(i + 1) + 1] = stack[i + 1]
      BY <1>1, <1>3, <2>1
    <3> QED
      BY <2>1, <3>1 DEF CallAt
  <2>2. CASE ~(i < Len(stack))
    <3>1. ~(i + 1 < Len(stack'))
      BY <1>1, <1>3, <2>2
    <3> QED
      BY <2>2, <3>1, RootCallKept DEF CallAt
  <2> QED
    BY <2>1, <2>2
<1>5. CallAt(1)' = CallOf(g)
  <2>1. 1 < Len(stack') /\ stack'[1 + 1] = g
    BY <1>1, <1>3
  <2> QED
    BY <2>1 DEF CallAt
<1>6. ASSUME NEW i \in 1..Len(stack'), NEW k, k = stack'[i]
      PROVE  FrameOK(k)' /\ Serves(k, CallAt(i)')
  <2>1. CASE i = 1
    <3>1. k = h /\ CallAt(i)' = CallOf(g)
      BY <1>3, <1>5, <1>6, <2>1
    <3> QED
      BY <3>1
  <2>2. CASE i = 2
    <3>1. k = g
      BY <1>3, <1>6, <2>2
    <3>2. CallAt(2)' = CallAt(1)
      <4>1. 1 \in 1..Len(stack)
        BY <1>1
      <4>2. CallAt(1 + 1)' = CallAt(1)
        BY <4>1, <1>4
      <4> QED
        BY <4>2
    <3>3. CallAt(i)' = CallAt(1)
      BY <3>2, <2>2
    <3> QED
      BY <3>1, <3>3
  <2>3. CASE i # 1 /\ i # 2
    <3>1. PICK j \in 2..Len(stack) : i = j + 1
      <4>1. i - 1 \in 2..Len(stack) /\ i = (i - 1) + 1
        BY <1>1, <1>3, <2>3
      <4> QED
        BY <4>1
    <3>2. k = stack[j] /\ j \in 1..Len(stack)
      BY <1>3, <1>6, <3>1
    <3>3. FrameOK(k) /\ Serves(k, CallAt(j))
      BY <3>2 DEF StackOK
    <3>4. FrameOK(k)'
      BY <3>3, FrameKept
    <3>5. CallAt(j + 1)' = CallAt(j)
      BY <3>2, <1>4
    <3>6. CallAt(i)' = CallAt(j)
      BY <3>5, <3>1
    <3> QED
      BY <3>3, <3>4, <3>6
  <2> QED
    BY <2>1, <2>2, <2>3
<1>7. \A i \in 1..Len(stack') : FrameOK(stack[i])' /\ Serves(stack[i], CallAt(i))'
  BY <1>6
<1>8. \A i \in 2..Len(stack') : stack'[i].at \in Waiting
  <2> SUFFICES ASSUME NEW i \in 2..Len(stack')
               PROVE  stack'[i].at \in Waiting
    OBVIOUS
  <2>1. CASE i = 2
    BY <1>3, <2>1
  <2>2. CASE i # 2
    <3>1. PICK j \in 2..Len(stack) : i = j + 1
      <4>1. i - 1 \in 2..Len(stack) /\ i = (i - 1) + 1
        BY <1>1, <1>3, <2>2
      <4> QED
        BY <4>1
    <3> QED
      BY <3>1, <1>3 DEF StackOK
  <2> QED
    BY <2>1, <2>2
<1>9. root' = root
  BY DEF Inner
<1> QED
  BY <1>1, <1>2, <1>3, <1>7, <1>8, <1>9 DEF StackOK

\* A return keeps the stack right when it answers the call.
LEMMA ReturnKeeps ==
  ASSUME StackOK, stack # <<>>, Inner, NEW sc, NEW mv, Return(sc, mv),
         NEW c, c = CallAt(1), AnswerOK(c, sc, mv)'
  PROVE  StackOK'
<1>1. stack \in Seq(FrameSet) /\ Len(stack) \in Nat /\ Len(stack) >= 1 /\ root.at \in {"scout", "full"}
  BY TopFrame DEF StackOK
<1>2. ret' = <<sc, mv>> /\ stack' = Tail(stack)
  BY DEF Return
<1>3. /\ stack' \in Seq(FrameSet) /\ Len(stack') = Len(stack) - 1
      /\ \A i \in 1..(Len(stack) - 1) : stack'[i] = stack[i + 1]
  BY <1>1, <1>2, StackSteps
<1>4. ASSUME NEW i \in 0..Len(stack')
      PROVE  CallAt(i)' = CallAt(i + 1)
  <2>1. CASE i < Len(stack')
    <3>1. i + 1 < Len(stack) /\ i + 1 \in 1..(Len(stack) - 1)
      BY <1>1, <1>3, <2>1
    <3>2. stack'[i + 1] = stack[(i + 1) + 1]
      BY <1>3, <3>1
    <3> QED
      BY <2>1, <3>1, <3>2 DEF CallAt
  <2>2. CASE ~(i < Len(stack'))
    <3>1. ~(i + 1 < Len(stack))
      BY <1>1, <1>3, <2>2
    <3> QED
      BY <2>2, <3>1, RootCallKept DEF CallAt
  <2> QED
    BY <2>1, <2>2
<1>5. CallAt(0)' = c
  <2>1. 0 \in 0..Len(stack')
    BY <1>1, <1>3
  <2>2. CallAt(0)' = CallAt(0 + 1)
    BY <2>1, <1>4
  <2> QED
    BY <2>2
<1>6. ASSUME NEW i \in 1..Len(stack'), NEW k, k = stack'[i]
      PROVE  FrameOK(k)' /\ Serves(k, CallAt(i)') /\ k.at \in Waiting
  <2>1. i + 1 \in 2..Len(stack) /\ i + 1 \in 1..Len(stack) /\ i \in 0..Len(stack') /\ k = stack[i + 1]
    BY <1>1, <1>3, <1>6
  <2>2. FrameOK(k) /\ Serves(k, CallAt(i + 1)) /\ k.at \in Waiting
    BY <2>1 DEF StackOK
  <2>3. FrameOK(k)'
    BY <2>2, FrameKept
  <2> QED
    BY <1>4, <2>1, <2>2, <2>3
<1>7. \A i \in 1..Len(stack') : FrameOK(stack[i])' /\ Serves(stack[i], CallAt(i))'
  BY <1>6
<1>8. \A i \in 1..Len(stack') : stack'[i].at \in Waiting
  BY <1>6
<1>9. root' = root
  BY DEF Inner
<1>10. ret' # <<>> /\ ret'[1] = sc /\ ret'[2] = mv
  BY <1>2
<1>11. AnswerOK(CallAt(0), ret[1], ret[2])'
  BY <1>5, <1>10
<1>12. stack' # <<>> => 1 \in 1..Len(stack')
  BY <1>3
<1> QED
  BY <1>1, <1>2, <1>3, <1>7, <1>8, <1>9, <1>10, <1>11, <1>12 DEF StackOK

-----------------------------------------------------------------------------
(* The table.                                                              *)

\* What a step may change beside the table.
Onward == UNCHANGED <<ev, stop>> /\ (plain' => plain)

\* A right entry stays right while the evaluation stays and the search goes on.
LEMMA EntryKept ==
  ASSUME Onward, NEW x, EntryOK(x)
  PROVE  EntryOK(x)'
<1>1. ev' = ev /\ (Exact' => Exact) /\ (~stop' => ~stop)
  BY DEF Onward, Exact
<1> QED
  BY <1>1 DEF EntryOK

\* The table keeps its size, and every slot that changes is a slot in use.
Dated == /\ size' = size
         /\ \A s \in DOMAIN entries : entries'[s] # entries[s] => entries'[s].date # 0

\* Sizes and ranges of the table.
LEMMA TableIs ==
  ASSUME TableOK
  PROVE  /\ size \in Nat \ {0} /\ TT!Slots = 0..(size - 1) /\ entries \in [TT!Slots -> TT!Entry]
         /\ generation \in 1..MaxGen /\ cntUsed \in Nat
         /\ \A n \in Node, i \in TT!Tries : TT!Slot(Key(n), i) \in TT!Slots
<1>1. /\ size \in Nat \ {0} /\ TT!Slots = 0..(size - 1) /\ entries \in [TT!Slots -> TT!Entry]
      /\ generation \in 1..MaxGen /\ cntUsed \in Nat
  BY LimitsAssumption DEF TableOK, TT!TypeOK, TT!Slots, LimitsAssumption
<1>2. ASSUME NEW n \in Node, NEW i \in TT!Tries
      PROVE  TT!Slot(Key(n), i) \in TT!Slots
  <2>1. PICK a \in Nat : a = n + i
    BY GameIs DEF TT!Tries
  <2>2. PICK b \in Nat \ {0} : b = size
    BY <1>1
  <2>3. a % b \in 0..(b - 1)
    BY <2>1, <2>2
  <2>4. TT!Slot(Key(n), i) = a % b
    BY <2>1, <2>2 DEF TT!Slot, Key
  <2> QED
    BY <1>1, <2>2, <2>3, <2>4
<1> QED
  BY <1>1, <1>2

\* A right entry of the present generation keeps the table right.
LEMMA WriteKeeps ==
  ASSUME TableOK, Onward, NEW s \in TT!Slots, NEW x \in TT!Entry, TT!Write(s, x),
         x.date = generation, EntryOK(x)'
  PROVE  TableOK' /\ Dated
<1>1. /\ size \in Nat \ {0} /\ TT!Slots = 0..(size - 1) /\ entries \in [TT!Slots -> TT!Entry]
      /\ generation \in 1..MaxGen /\ cntUsed \in Nat
  BY TableIs
<1>2. /\ entries' = [entries EXCEPT ![s] = x] /\ size' = size /\ generation' = generation
      /\ cntUsed' \in Nat
  BY <1>1 DEF TT!Write
<1>3. TT!Slots' = TT!Slots
  BY <1>2 DEF TT!Slots
<1>4. TT!TypeOK'
  BY <1>1, <1>2, <1>3 DEF TT!TypeOK, TableOK
<1>5. ASSUME NEW j \in TT!Slots, NEW y, y = entries'[j]
      PROVE  EntryOK(y)'
  <2>1. CASE j = s
    BY <1>1, <1>2, <1>5, <2>1
  <2>2. CASE j # s
    <3>1. y = entries[j]
      BY <1>1, <1>2, <1>5, <2>2
    <3>2. EntryOK(y)
      BY <3>1 DEF TableOK
    <3> QED
      BY <3>2, EntryKept
  <2> QED
    BY <2>1, <2>2
<1>6. \A j \in TT!Slots' : EntryOK(entries[j])'
  BY <1>3, <1>5
<1>7. Dated
  BY <1>1, <1>2 DEF Dated
<1> QED
  BY <1>4, <1>6, <1>7 DEF TableOK

\* A table that is left alone.
LEMMA TableKept ==
  ASSUME TableOK, Onward, UNCHANGED table
  PROVE  TableOK' /\ Dated
<1>1. entries' = entries /\ size' = size /\ generation' = generation /\ cntUsed' = cntUsed
  BY DEF table
<1>2. TT!Slots' = TT!Slots /\ TT!TypeOK'
  BY <1>1 DEF TT!Slots, TT!TypeOK, TableOK
<1>3. ASSUME NEW j \in TT!Slots, NEW y, y = entries'[j]
      PROVE  EntryOK(y)'
  <2>1. EntryOK(y)
    BY <1>1, <1>3 DEF TableOK
  <2> QED
    BY <2>1, EntryKept
<1>4. \A j \in TT!Slots' : EntryOK(entries[j])'
  BY <1>2, <1>3
<1> QED
  BY <1>1, <1>2, <1>4 DEF TableOK, Dated

\* A lookup only renews a date.
LEMMA RetrieveKeeps ==
  ASSUME TableOK, Onward, NEW g, g.node \in Node, Retrieve(g)
  PROVE  TableOK' /\ Dated
<1>1. CASE Found(g) = {}
  BY <1>1, TableKept DEF Retrieve
<1>2. CASE Found(g) # {}
  <2>1. PICK i \in Found(g) : TT!Write(TT!Slot(Key(g.node), i),
                                    [TT!At(Key(g.node), i) EXCEPT !.date = generation])
    BY <1>2 DEF Retrieve
  <2>2. PICK s : s = TT!Slot(Key(g.node), i)
    OBVIOUS
  <2>3. PICK x : x = entries[s]
    OBVIOUS
  <2>4. s \in TT!Slots /\ x = TT!At(Key(g.node), i) /\ x.date # 0
    BY <2>1, <2>2, <2>3, TableIs DEF Found, TT!Finds, TT!At
  <2>5. x \in TT!Entry /\ EntryOK(x)
    BY <2>3, <2>4, TableIs DEF TableOK
  <2>6. PICK y : y = [x EXCEPT !.date = generation]
    OBVIOUS
  <2>7. generation \in Nat
    BY TableIs
  <2>8. /\ y \in TT!Entry /\ y.date = generation /\ y.lock = x.lock /\ y.move = x.move
        /\ y.score = x.score /\ y.depth = x.depth /\ y.scoreType = x.scoreType
    BY <2>5, <2>6, <2>7 DEF TT!Entry
  <2>9. EntryOK(x)'
    BY <2>5, EntryKept
  <2>10. EntryOK(y)'
    BY <2>4, <2>8, <2>9 DEF EntryOK
  <2>11. TT!Write(s, y)
    BY <2>1, <2>2, <2>4, <2>6
  <2> QED
    BY <2>4, <2>8, <2>10, <2>11, WriteKeeps
<1> QED
  BY <1>1, <1>2

\* An entry is right when one of the same position, score, depth and type is.
LEMMA SameEntry ==
  ASSUME NEW x, NEW y, EntryOK(x)', x.date # 0, y.lock = x.lock, y.score = x.score,
         y.depth = x.depth, y.scoreType = x.scoreType, y.move \in OrNone(x.lock)
  PROVE  EntryOK(y)'
  BY DEF EntryOK

\* The table's mates are the search's.
LEMMA SameScores ==
  /\ TT!None = None /\ TT!Lower = Lower /\ TT!Upper = Upper
  /\ \A sc, ply : /\ TT!RemMatePly(sc, ply) = RemMatePly(sc, ply)
                  /\ TT!AddMatePly(sc, ply) = AddMatePly(sc, ply)
                  /\ TT!IsMateScore(sc) <=> IsMateScore(sc)
  BY DEF TT!None, None, Lower, Upper, TT!RemMatePly, RemMatePly, TT!AddMatePly, AddMatePly,
         TT!IsMateScore, IsMateScore

\* What the table keeps of a score is what a reader at the same ply gets back.
LEMMA RoundTrip ==
  ASSUME NEW sc \in Int, NEW ply \in Nat
  PROVE  RemMatePly(sc, ply) \in Int /\ AddMatePly(RemMatePly(sc, ply), ply) = sc
  BY ScoresAre DEF RemMatePly, AddMatePly

\* A store keeps the table right when what it says of the node is right.
LEMMA StoreKeeps ==
  ASSUME TableOK, Onward, NEW n \in Node, PlyOf(n) <= MaxPly, NEW d \in 0..99,
         NEW mv \in OrNone(n), NEW sc \in Values, NEW t \in {0} \cup TT!Types,
         ~stop' => sc \in Reach(PlyOf(n)),
         Exact' => /\ TT!HasLower(t) => ValueOf(ev)[n][d] >= sc
                   /\ TT!HasUpper(t) => ValueOf(ev)[n][d] <= sc,
         TT!StoreOf(Key(n), d, TT!Stored(Key(n), d, PlyOf(n), mv, sc, t))
  PROVE  TableOK' /\ Dated
<1>1. /\ size \in Nat \ {0} /\ TT!Slots = 0..(size - 1) /\ entries \in [TT!Slots -> TT!Entry]
      /\ generation \in 1..MaxGen /\ MaxGen \in Nat
      /\ \A i \in TT!Tries : TT!Slot(Key(n), i) \in TT!Slots
  BY TableIs, LimitsAssumption DEF LimitsAssumption
<1>2. n \in Nat /\ PlyOf(n) \in Nat /\ OrNone(n) \subseteq Node \cup {None} /\ Values \subseteq Int
  BY GameIs, ScoresAre DEF OrNone, Values
<1>3. PICK x : x = TT!Stored(Key(n), d, PlyOf(n), mv, sc, t)
  OBVIOUS
<1>4. d \in -128..127 /\ TT!Int8(d) = d
  <2>1. (d + 128) % 256 = d + 128
    OBVIOUS
  <2> QED
    BY <2>1 DEF TT!Int8
<1>5. /\ x.lock = n /\ x.move = mv /\ x.score = RemMatePly(sc, PlyOf(n)) /\ x.date = generation
      /\ x.depth = d /\ x.scoreType = t
  BY <1>3, <1>4, SameScores DEF TT!Stored, Key
<1>6. x \in TT!Entry
  <2>1. RemMatePly(sc, PlyOf(n)) \in Int /\ generation \in Nat
    <3>1. sc \in Int /\ PlyOf(n) \in Nat
      BY <1>2
    <3>2. RemMatePly(sc, PlyOf(n)) \in Int
      BY <3>1, RoundTrip, Zenon
    <3> QED
      BY <1>1, <3>2
  <2> QED
    BY <1>2, <1>3, <1>4, <2>1, SameScores DEF TT!Stored, TT!Entry, Key
<1>7. EntryOK(x)'
  <2>1. ev' = ev
    BY DEF Onward
  <2>2. AddMatePly(x.score, PlyOf(x.lock)) = sc
    BY <1>2, <1>5, RoundTrip
  <2> QED
    BY <1>5, <2>1, <2>2 DEF EntryOK
<1>8. ASSUME NEW i \in TT!Tries, NEW y \in TT!Entry, y.date = generation, EntryOK(y)',
             TT!Write(TT!Slot(Key(n), i), y)
      PROVE  TableOK' /\ Dated
  BY <1>1, <1>8, WriteKeeps
<1>9. CASE TT!StoreEvict(Key(n), x)
  <2>1. PICK i \in TT!Tries : TT!Write(TT!Slot(Key(n), i), x)
    BY <1>9 DEF TT!StoreEvict
  <2> QED
    BY <2>1, <1>5, <1>6, <1>7, <1>8
<1>10. CASE TT!StoreMatch(Key(n), d, x)
  <2>1. PICK i \in TT!Tries : /\ TT!Matches(Key(n), i)
                              /\ TT!Write(TT!Slot(Key(n), i), TT!Merge(TT!At(Key(n), i), x, d))
    BY <1>10 DEF TT!StoreMatch
  <2>2. PICK old : old = TT!At(Key(n), i)
    OBVIOUS
  <2>3. old \in TT!Entry /\ old.lock = n /\ EntryOK(old)
    BY <1>1, <2>1, <2>2 DEF TT!At, TT!Matches, TableOK, Key
  <2>4. EntryOK(old)'
    BY <2>3, EntryKept
  <2>5. old.date = generation => old.date # 0 /\ old.move \in OrNone(n)
    BY <1>1, <2>3 DEF EntryOK
  <2>6. PICK y : y = TT!Merge(old, x, d)
    OBVIOUS
  <2>7. CASE y = x
    BY <1>5, <1>6, <1>7, <1>8, <2>1, <2>2, <2>6, <2>7
  <2>8. CASE old.date = generation /\ d >= old.depth
    <3>1. y = [x EXCEPT !.move = IF @ = TT!None THEN old.move ELSE @]
      BY <2>6, <2>8, Zenon DEF TT!Merge
    <3>2. /\ y \in TT!Entry /\ y.date = generation /\ y.lock = x.lock /\ y.score = x.score
          /\ y.depth = x.depth /\ y.scoreType = x.scoreType /\ y.move \in OrNone(x.lock)
      BY <3>1, <1>5, <1>6, <2>3, <2>5, <2>8 DEF TT!Entry
    <3>3. EntryOK(y)'
      BY <3>2, <1>1, <1>5, <1>7, SameEntry
    <3> QED
      BY <3>2, <3>3, <1>8, <2>1, <2>2, <2>6
  <2>9. CASE old.date = generation /\ ~(d >= old.depth)
    <3>1. y = [old EXCEPT !.move = IF @ = TT!None THEN x.move ELSE @]
      BY <2>6, <2>9, Zenon DEF TT!Merge
    <3>2. /\ y \in TT!Entry /\ y.date = generation /\ y.lock = old.lock /\ y.score = old.score
          /\ y.depth = old.depth /\ y.scoreType = old.scoreType /\ y.move \in OrNone(old.lock)
      BY <3>1, <1>5, <1>6, <2>3, <2>5, <2>9 DEF TT!Entry
    <3>3. EntryOK(y)'
      BY <3>2, <2>4, <2>5, <2>9, SameEntry
    <3> QED
      BY <3>2, <3>3, <1>8, <2>1, <2>2, <2>6
  <2>10. y = x \/ old.date = generation
    BY <2>6 DEF TT!Merge
  <2> QED
    BY <2>7, <2>8, <2>9, <2>10
<1> QED
  BY <1>3, <1>9, <1>10 DEF TT!StoreOf

\* The table after a node's store, or without one.
LEMMA NodeStores ==
  ASSUME TableOK, Onward, NEW g, g.node \in Node, PlyOf(g.node) <= MaxPly, g.depth \in Int,
         g.depth <= 99, NEW mv \in OrNone(g.node), NEW sc \in Values, NEW t \in {0} \cup TT!Types,
         ~stop' => sc \in Reach(PlyOf(g.node)),
         Exact' => /\ g.depth >= 0 \/ ~InCheck(g.node)
                   /\ TT!HasLower(t) => ValueOf(ev)[g.node][g.depth] >= sc
                   /\ TT!HasUpper(t) => ValueOf(ev)[g.node][g.depth] <= sc,
         Store(g, mv, sc, t)
  PROVE  TableOK' /\ Dated
<1>1. CASE ~UseTrans(g)
  BY <1>1, TableKept DEF Store
<1>2. CASE UseTrans(g)
  <2>1. PICK d \in 0..99 : d = TransDepth(g)
    BY DEF TransDepth, Larger
  <2>2. PICK n \in Node : n = g.node
    OBVIOUS
  <2>3. TT!StoreOf(Key(n), d, TT!Stored(Key(n), d, PlyOf(n), mv, sc, t))
    BY <1>2, <2>1, <2>2 DEF Store, Ply, PlyOf
  <2>4. Exact' => d = g.depth
    BY <1>2, <2>1 DEF UseTrans, TransDepth, Larger
  <2> QED
    BY <2>2, <2>3, <2>4, StoreKeeps
<1> QED
  BY <1>1, <1>2

-----------------------------------------------------------------------------
(* Steps of a call.                                                        *)

\* What every step of a call starts from.
LEMMA Running ==
  ASSUME IInv, stack # <<>>, NEW t, t = f
  PROVE  /\ t \in FrameSet /\ t.node \in Node /\ PlyOf(t.node) \in Nat /\ PlyOf(t.node) <= MaxPly
         /\ t.depth \in Int /\ root.depth \in 1..MaxDepth /\ MaxDepth <= 99 /\ t.depth <= 99
         /\ Shape(t, root.depth) /\ (~stop => Possible(t)) /\ (Exact => Faithful(t, ev))
         /\ Serves(t, CallAt(1))
         /\ ev \in Evals /\ ev[t.node] \in -EvalMax..EvalMax
         /\ t.at \in Waiting <=> ret # <<>>
<1>1. RootOK /\ StackOK
  BY DEF IInv
<1>2. /\ t \in FrameSet /\ FrameOK(t) /\ Serves(t, CallAt(1))
      /\ t.at \in Waiting <=> ret # <<>>
      /\ root.at \in {"scout", "full"}
  BY <1>1, TopFrame
<1>3. ev \in Evals /\ root.depth \in 1..MaxDepth /\ MaxDepth \in 1..99
  BY <1>1, <1>2, LimitsAssumption DEF RootOK, RootShape, RootSet, LimitsAssumption
<1>4. t.node \in Node /\ t.depth \in Int
  BY <1>2 DEF FrameSet
<1>5. PlyOf(t.node) \in Nat /\ ev[t.node] \in -EvalMax..EvalMax
  BY <1>3, <1>4, GameIs, EvalsAssumption DEF EvalsAssumption
<1>6. Shape(t, root.depth) /\ (~stop => Possible(t)) /\ (Exact => Faithful(t, ev))
  BY <1>2 DEF FrameOK
<1>7. PlyOf(t.node) <= MaxPly /\ t.depth <= root.depth
  BY <1>6 DEF Shape
<1>8. t.depth <= 99
  BY <1>3, <1>4, <1>7
<1> QED
  BY <1>2, <1>3, <1>4, <1>5, <1>6, <1>7, <1>8

\* What they leave alone.
LEMMA Beside ==
  ASSUME Keep, plain' => plain
  PROVE  /\ Inner /\ Onward /\ stop' = stop /\ root' = root /\ ev' = ev
         /\ Exact' => Exact
  BY DEF Keep, Inner, Onward, Exact

\* The bounds that the value of a node has by its ply.
LEMMA ValueInReach ==
  ASSUME NEW e \in Evals, NEW n \in Node, PlyOf(n) <= MaxPly, NEW d \in Int
  PROVE  /\ ValueOf(e)[n][d] \in Int
         /\ PlyOf(n) - Mate <= ValueOf(e)[n][d] /\ ValueOf(e)[n][d] <= Top(n)
<1>1. ValueOf(e)[n][d] \in Reach(PlyOf(n)) /\ PlyOf(n) \in Nat /\ Mate \in Nat
  BY ValueRight, GameIs, ScoresAre
<1> QED
  BY <1>1 DEF Reach, Top

\* An answer that is the value, and one that is as good as there is.
LEMMA ExactAnswers ==
  ASSUME NEW c, NEW e \in Evals, c.node \in Node, PlyOf(c.node) <= MaxPly, c.depth \in Int,
         NEW sc, sc = ValueOf(e)[c.node][c.depth]
  PROVE  Bounds(c, e, sc)
<1>1. sc \in Int
  BY ValueInReach
<1> QED
  BY <1>1 DEF Bounds

\* The scores that are no mates are within reach of every node.
LEMMA InReach ==
  ASSUME NEW n \in Node, PlyOf(n) <= MaxPly
  PROVE  /\ -EvalMax..EvalMax \subseteq Reach(PlyOf(n)) /\ Reach(PlyOf(n)) \subseteq Values
         /\ Top(n) \in Reach(PlyOf(n)) /\ PlyOf(n) - Mate \in Reach(PlyOf(n))
         /\ Top(n) \in Values /\ Top(n) > EvalMax /\ Top(n) < Mate
  BY GameIs, ScoresAre DEF Reach, Values, Top



\* A step that returns: what its answer must be, in the frame's terms.
LEMMA Answers ==
  ASSUME IInv, stack # <<>>, Keep, plain' => plain, NEW t, t = f,
         NEW sc \in Values, NEW mv \in OrNone(t.node), Return(sc, mv),
         ~stop => sc \in Reach(PlyOf(t.node)),
         Exact' => Bounds(CallAt(1), ev, sc)
  PROVE  StackOK'
<1>1. StackOK /\ Inner /\ stop' = stop /\ ev' = ev
  BY Beside DEF IInv
<1>2. PICK c : c = CallAt(1)
  OBVIOUS
<1>3. c.node = t.node
  BY <1>2, Running DEF Serves
<1>4. AnswerOK(c, sc, mv)'
  BY <1>1, <1>2, <1>3 DEF AnswerOK
<1> QED
  BY <1>1, <1>2, <1>4, ReturnKeeps

\* No mate can be found within the window: beta is lowered, or the call ends.
LEMMA MateDistanceKeeps ==
  ASSUME IInv, MateDistance
  PROVE  StackOK' /\ TableOK' /\ Dated
<1>1. PICK t : t = f
  OBVIOUS
<1>2. /\ stack # <<>> /\ t.at = "enter" /\ MateNext(t) <= t.alpha /\ Return(MateNext(t), None)
      /\ Keep /\ (plain' => plain) /\ UNCHANGED table
  BY <1>1 DEF MateDistance, At, StaysPlain
<1>3. MateNext(t) = Top(t.node)
  BY DEF MateNext, Top, Ply, PlyOf
<1>4. None \in OrNone(t.node)
  BY DEF OrNone
<1>5. Top(t.node) \in Values /\ Top(t.node) \in Reach(PlyOf(t.node)) /\ Top(t.node) \in Int
  BY <1>1, <1>2, Running, InReach DEF Values
<1>6. Bounds(CallAt(1), ev, Top(t.node))
  <2>1. PICK c : c = CallAt(1)
    OBVIOUS
  <2>2. /\ c.node = t.node /\ c.depth = t.depth /\ t.oldAlpha = c.alpha /\ t.alpha = t.oldAlpha
        /\ t.alpha \in Int
    BY <1>1, <1>2, <2>1, Running DEF Serves, Shape, Begun, FrameSet
  <2>3. ValueOf(ev)[t.node][t.depth] <= Top(t.node)
    BY <1>1, <1>2, Running, ValueInReach
  <2> QED
    BY <1>2, <1>3, <1>5, <2>1, <2>2, <2>3 DEF Bounds
<1>7. StackOK'
  BY <1>1, <1>2, <1>3, <1>4, <1>5, <1>6, Answers
<1>8. TableOK' /\ Dated
  BY <1>2, Beside, TableKept DEF IInv
<1> QED
  BY <1>7, <1>8

\* A drawn node has the score of a draw.
LEMMA DrawnNodeKeeps ==
  ASSUME IInv, DrawnNode
  PROVE  StackOK' /\ TableOK' /\ Dated
<1>1. PICK t : t = f
  OBVIOUS
<1>2. PICK sc : sc = DrawScore(Ply(t))
  OBVIOUS
<1>3. /\ stack # <<>> /\ Position[t.node].drawn /\ Return(sc, None)
      /\ Keep /\ (plain' => plain) /\ UNCHANGED table
  BY <1>1, <1>2 DEF DrawnNode, At, StaysPlain
<1>4. None \in OrNone(t.node)
  BY DEF OrNone
<1>5. sc \in Values /\ sc \in Reach(PlyOf(t.node))
  BY <1>1, <1>2, <1>3, Running, InReach, ScoresAre
<1>6. Bounds(CallAt(1), ev, sc)
  <2>1. sc = ValueOf(ev)[t.node][t.depth]
    <3>1. ValueIs(ev, t.node, t.depth, ValueOf(ev)[t.node][t.depth])
      BY <1>1, <1>3, Running, ValueRight
    <3> QED
      BY <1>2, <1>3, <3>1 DEF ValueIs, Ply, PlyOf
  <2>2. PICK c : c = CallAt(1)
    OBVIOUS
  <2>3. c.node = t.node /\ c.depth = t.depth
    BY <1>1, <1>3, <2>2, Running DEF Serves
  <2> QED
    BY <1>1, <1>3, <2>1, <2>2, <2>3, Running, ExactAnswers
<1>7. StackOK'
  BY <1>1, <1>3, <1>4, <1>5, <1>6, Answers
<1>8. TableOK' /\ Dated
  BY <1>3, Beside, TableKept DEF IInv
<1> QED
  BY <1>7, <1>8

\* A lookup finds one entry at most.
LEMMA FoundOne ==
  ASSUME NEW g, NEW i \in Found(g), NEW j \in Found(g)
  PROVE  i = j
<1>1. i \in Int /\ j \in Int /\ i \in TT!Tries /\ j \in TT!Tries
  BY DEF Found, TT!Tries
<1>2. ~(i < j) /\ ~(j < i)
  BY <1>1 DEF Found, TT!Finds
<1> QED
  BY <1>1, <1>2

\* What a lookup answers, in terms of the entry x that it finds.
LEMMA RetrievedIs ==
  ASSUME TableOK, NEW g, g.node \in Node, g.depth \in Int
  PROVE  /\ Retrieved(g).move \in OrNone(g.node)
         /\ \A i \in Found(g) : \E x \in TT!Entry :
              /\ x = TT!At(Key(g.node), i) /\ x.lock = g.node /\ EntryOK(x) /\ x.date # 0
              /\ Retrieved(g).score = AddMatePly(x.score, PlyOf(g.node))
              /\ Retrieved(g).ok <=> x.depth >= TransDepth(g) \/ IsMateScore(Retrieved(g).score)
              /\ Retrieved(g).flags = IF x.depth >= TransDepth(g) THEN x.scoreType
                                      ELSE IF TT!HasLower(x.scoreType) /\ Retrieved(g).score >= 0
                                      THEN Lower ELSE 0
              /\ Retrieved(g).move = x.move
<1>1. PICK r : r = Retrieved(g)
  OBVIOUS
<1>2. ASSUME NEW i \in Found(g)
      PROVE  \E x \in TT!Entry :
              /\ x = TT!At(Key(g.node), i) /\ x.lock = g.node /\ EntryOK(x) /\ x.date # 0
              /\ r.score = AddMatePly(x.score, PlyOf(g.node))
              /\ r.ok <=> x.depth >= TransDepth(g) \/ IsMateScore(r.score)
              /\ r.flags = IF x.depth >= TransDepth(g) THEN x.scoreType
                           ELSE IF TT!HasLower(x.scoreType) /\ r.score >= 0 THEN Lower ELSE 0
              /\ r.move = x.move /\ r.move \in OrNone(g.node)
  <2>1. PICK k : k = CHOOSE j \in Found(g) : TRUE
    OBVIOUS
  <2>2. k = i
    BY <1>2, <2>1, FoundOne
  <2>3. PICK x : x = TT!At(Key(g.node), i)
    OBVIOUS
  <2>4. i \in TT!Tries /\ TT!Finds(Key(g.node), i)
    BY <1>2 DEF Found
  <2>5. x \in TT!Entry /\ x.lock = g.node /\ EntryOK(x) /\ x.date # 0
    <3>1. TT!Slot(Key(g.node), i) \in TT!Slots /\ entries \in [TT!Slots -> TT!Entry]
      BY <2>4, TableIs
    <3> QED
      BY <2>3, <2>4, <3>1 DEF TableOK, TT!At, TT!Finds, Key
  <2>6. r = TT!Answer(x, TransDepth(g), Ply(g))
    BY <1>1, <1>2, <2>1, <2>2, <2>3 DEF Retrieved
  <2>7. /\ r.score = AddMatePly(x.score, PlyOf(g.node)) /\ r.move = x.move
        /\ r.ok <=> x.depth >= TransDepth(g) \/ IsMateScore(r.score)
        /\ r.flags = IF x.depth >= TransDepth(g) THEN x.scoreType
                     ELSE IF TT!HasLower(x.scoreType) /\ r.score >= 0 THEN Lower ELSE 0
    BY <2>6, SameScores DEF TT!Answer, TT!Flags, Ply, PlyOf
  <2>8. r.move \in OrNone(g.node)
    BY <2>5, <2>7 DEF EntryOK
  <2> QED
    BY <2>3, <2>5, <2>7, <2>8
<1>3. Found(g) = {} => r.move \in OrNone(g.node)
  BY <1>1 DEF Retrieved, OrNone
<1> QED
  BY <1>1, <1>2, <1>3

\* An answer of the table that settles a node is one: an entry of the call's depth says
\* what the window asks, a shallower one only that the node is won.
LEMMA CutIsAnswer ==
  ASSUME NEW t, NEW c, NEW e \in Evals, Serves(t, c), t.at = "enter", t.alpha = t.oldAlpha,
         t.alpha \in Int, t.beta \in Int,
         t.node \in Node, PlyOf(t.node) <= MaxPly, t.depth \in Int,
         NEW x, x.depth \in Int, x.depth <= t.depth,
         NEW sc \in Int, NEW flags,
         TT!HasLower(x.scoreType) => ValueOf(e)[t.node][x.depth] >= sc,
         TT!HasUpper(x.scoreType) => ValueOf(e)[t.node][x.depth] <= sc,
         x.depth >= TransDepth(t) \/ IsMateScore(sc),
         flags = IF x.depth >= TransDepth(t) THEN x.scoreType
                 ELSE IF TT!HasLower(x.scoreType) /\ sc >= 0 THEN Lower ELSE 0,
         \/ flags = Lower /\ sc >= Smaller(t.beta, MateNext(t))
         \/ flags = Upper /\ sc <= t.alpha
         \/ flags = Lower + Upper
  PROVE  Bounds(c, e, sc)
<1>1. /\ c.node = t.node /\ c.depth = t.depth /\ c.alpha = t.alpha /\ c.beta = t.beta
      /\ MateNext(t) = Top(t.node)
  BY DEF Serves, MateNext, Top, Ply, PlyOf
<1>2. PICK v \in Int : v = ValueOf(e)[t.node][t.depth] /\ v <= Top(t.node)
  BY ValueInReach
<1>3. PICK w \in Int : w = ValueOf(e)[t.node][x.depth]
  BY ValueInReach
<1>4. Top(t.node) \in Int
  BY GameIs, ScoresAre DEF Top
<1>5. Lower = 1 /\ Upper = 2 /\ EvalMax \in Nat
  BY ScoresAre DEF Lower, Upper, TT!Lower, TT!Upper
<1>6. CASE x.depth >= TransDepth(t)
  <2>1. x.depth = t.depth
    BY <1>6 DEF TransDepth, Larger
  <2>2. v = w
    BY <1>2, <1>3, <2>1
  <2>3. \/ x.scoreType = 1 /\ sc >= Smaller(t.beta, Top(t.node))
        \/ x.scoreType = 2 /\ sc <= t.alpha
        \/ x.scoreType = 3
    BY <1>1, <1>5, <1>6
  <2>4. /\ x.scoreType = 1 \/ x.scoreType = 3 => w >= sc
        /\ x.scoreType = 2 \/ x.scoreType = 3 => w <= sc
    BY <1>3 DEF TT!HasLower, TT!HasUpper, TT!Lower, TT!Upper
  <2>5. (sc > c.alpha => v >= sc) /\ (sc < c.beta \/ sc >= Top(t.node) => v <= sc)
    BY <1>1, <1>2, <1>4, <2>2, <2>3, <2>4 DEF Smaller
  <2> QED
    BY <1>1, <1>2, <2>5 DEF Bounds
<1>7. CASE ~(x.depth >= TransDepth(t))
  <2>1. IsMateScore(sc) /\ TT!HasLower(x.scoreType) /\ sc >= 0
        /\ sc >= Smaller(t.beta, Top(t.node))
    BY <1>1, <1>5, <1>7
  <2>2. w >= sc /\ w > EvalMax
    BY <1>3, <1>5, <2>1 DEF IsMateScore
  <2>3. v >= w
    <3>1. MatesStay(e, t.node)
      BY MatesAreKept
    <3> QED
      BY <1>2, <1>3, <2>2, <3>1 DEF MatesStay
  <2>4. (sc > c.alpha => v >= sc) /\ (sc < c.beta \/ sc >= Top(t.node) => v <= sc)
    BY <1>1, <1>2, <1>4, <2>1, <2>2, <2>3 DEF Smaller
  <2> QED
    BY <1>1, <1>2, <2>4 DEF Bounds
<1> QED
  BY <1>6, <1>7

\* The table answers the call.
LEMMA TransCutKeeps ==
  ASSUME IInv, TransCut
  PROVE  StackOK' /\ TableOK' /\ Dated
<1>1. PICK t : t = f
  OBVIOUS
<1>2. PICK r : r = Retrieved(t)
  OBVIOUS
<1>3. PICK i \in Found(t) : Departs(TT!At(Key(t.node), i).depth > t.depth)
  BY <1>1 DEF TransCut
<1>4. /\ stack # <<>> /\ t.at = "enter" /\ Cuts(t) /\ Retrieve(t) /\ Return(r.score, None)
      /\ Keep /\ (plain' => plain)
  BY <1>1, <1>2, <1>3 DEF TransCut, At, Departs
<1>5. TableOK /\ t.node \in Node /\ t.depth \in Int /\ PlyOf(t.node) <= MaxPly
  BY <1>1, <1>4, Running DEF IInv
<1>6. PICK x \in TT!Entry :
         /\ x = TT!At(Key(t.node), i) /\ x.lock = t.node /\ EntryOK(x) /\ x.date # 0
         /\ r.score = AddMatePly(x.score, PlyOf(t.node))
         /\ r.ok <=> x.depth >= TransDepth(t) \/ IsMateScore(r.score)
         /\ r.flags = IF x.depth >= TransDepth(t) THEN x.scoreType
                      ELSE IF TT!HasLower(x.scoreType) /\ r.score >= 0 THEN Lower ELSE 0
  BY <1>2, <1>3, <1>5, RetrievedIs
<1>7. r.score \in Values /\ (~stop => r.score \in Reach(PlyOf(t.node)))
  BY <1>6 DEF EntryOK
<1>8. ASSUME Exact'
      PROVE  Bounds(CallAt(1), ev, r.score)
  <2>1. Exact /\ ~(x.depth > t.depth)
    BY <1>3, <1>4, <1>6, <1>8, Beside DEF Exact, Departs
  <2>2. x.depth \in Int /\ x.depth <= t.depth
    BY <1>5, <2>1 DEF TT!Entry
  <2>3. /\ TT!HasLower(x.scoreType) => ValueOf(ev)[t.node][x.depth] >= r.score
        /\ TT!HasUpper(x.scoreType) => ValueOf(ev)[t.node][x.depth] <= r.score
    BY <1>6, <2>1 DEF EntryOK
  <2>4. /\ r.ok
        /\ \/ r.flags = Lower /\ r.score >= Smaller(t.beta, MateNext(t))
           \/ r.flags = Upper /\ r.score <= t.alpha
           \/ r.flags = Lower + Upper
    BY <1>2, <1>4 DEF Cuts
  <2>5. PICK c : c = CallAt(1)
    OBVIOUS
  <2>6. t \in FrameSet /\ Shape(t, root.depth) /\ Serves(t, c) /\ ev \in Evals
    BY <1>1, <1>4, <2>5, Running
  <2>8. t.alpha = t.oldAlpha /\ t.alpha \in Int /\ t.beta \in Int
    BY <1>4, <2>6 DEF Shape, Begun, FrameSet
  <2>7. PICK sc \in Int : sc = r.score
    BY <1>7, ScoresAre DEF Values
  <2> QED
    BY <1>4, <1>5, <1>6, <2>2, <2>3, <2>4, <2>5, <2>6, <2>7, <2>8, CutIsAnswer, ZenonT(30)
<1>9. None \in OrNone(t.node)
  BY DEF OrNone
<1>10. StackOK'
  BY <1>1, <1>4, <1>7, <1>8, <1>9, Answers
<1>11. TableOK' /\ Dated
  BY <1>4, <1>5, Beside, RetrieveKeeps
<1> QED
  BY <1>10, <1>11

\* At the last ply the score is the evaluation.
LEMMA HorizonKeeps ==
  ASSUME IInv, Horizon
  PROVE  StackOK' /\ TableOK' /\ Dated
<1>1. PICK t : t = f
  OBVIOUS
<1>2. PICK sc : sc = ev[t.node]
  OBVIOUS
<1>3. /\ stack # <<>> /\ t.at = "enter" /\ ~Position[t.node].drawn /\ (Ply(t) >= MaxPly \/ stop)
      /\ Retrieve(t) /\ Return(sc, None) /\ Keep /\ (plain' => plain)
  BY <1>1, <1>2 DEF Horizon, At, StaysPlain, Decided
<1>4. None \in OrNone(t.node)
  BY DEF OrNone
<1>5. sc \in Values /\ sc \in Reach(PlyOf(t.node))
  BY <1>1, <1>2, <1>3, Running, InReach
<1>6. Exact' => Bounds(CallAt(1), ev, sc)
  <2> SUFFICES ASSUME Exact'
               PROVE  Bounds(CallAt(1), ev, sc)
    OBVIOUS
  <2>1. Ply(t) >= MaxPly
    BY <1>3, Beside DEF Exact
  <2>2. sc = ValueOf(ev)[t.node][t.depth]
    <3>1. ValueIs(ev, t.node, t.depth, ValueOf(ev)[t.node][t.depth])
      BY <1>1, <1>3, Running, ValueRight
    <3> QED
      BY <1>2, <1>3, <2>1, <3>1 DEF ValueIs, Ply, PlyOf
  <2>3. PICK c : c = CallAt(1)
    OBVIOUS
  <2>4. c.node = t.node /\ c.depth = t.depth
    BY <1>1, <1>3, <2>3, Running DEF Serves
  <2> QED
    BY <1>1, <1>3, <2>2, <2>3, <2>4, Running, ExactAnswers
<1>7. StackOK'
  BY <1>1, <1>3, <1>4, <1>5, <1>6, Answers
<1>8. t.node \in Node
  BY <1>1, <1>3, Running
<1>9. TableOK' /\ Dated
  BY <1>3, <1>8, Beside, RetrieveKeeps DEF IInv
<1> QED
  BY <1>7, <1>9

\* A step within a frame.
LEMMA Goes ==
  ASSUME IInv, stack # <<>>, Keep, plain' => plain, NEW t, t = f,
         NEW g \in FrameSet, Goto(g), g.at \notin Waiting,
         Shape(g, root.depth), ~stop => Possible(g), Exact' => Faithful(g, ev),
         Serves(g, CallAt(1))
  PROVE  StackOK'
<1>1. StackOK /\ Inner /\ stop' = stop /\ root' = root /\ ev' = ev
  BY Beside DEF IInv
<1>2. FrameOK(g)'
  BY <1>1 DEF FrameOK
<1> QED
  BY <1>1, <1>2, GotoKeeps

\* A node is entered, with the move the table has for it.
LEMMA DescendKeeps ==
  ASSUME IInv, Descend
  PROVE  StackOK' /\ TableOK' /\ Dated
<1>1. PICK t : t = f
  OBVIOUS
<1>2. PICK b, m : b = Smaller(t.beta, MateNext(t)) /\ m = Retrieved(t).move
  OBVIOUS
<1>3. PICK g : g = [t EXCEPT !.beta = b, !.trans = m, !.at = "static"]
  OBVIOUS
<1>4. /\ stack # <<>> /\ t.at = "enter" /\ ~(MateNext(t) <= t.alpha) /\ ~Position[t.node].drawn
      /\ Ply(t) < MaxPly
      /\ Retrieve(t) /\ Keep /\ (plain' => plain) /\ (plain' => ~Mislabelled(t))
      /\ Goto(g)
  <2>1. Goto(g)
    BY <1>1, <1>2, <1>3, Zenon DEF Descend
  <2>2. /\ stack # <<>> /\ f.at = "enter" /\ ~Decided(f) /\ Ply(f) < MaxPly
        /\ Retrieve(f) /\ Keep /\ Departs(Mislabelled(f))
    BY DEF Descend, At
  <2> QED
    BY <1>1, <2>1, <2>2 DEF Decided, Departs
<1>5. TableOK /\ t \in FrameSet /\ t.node \in Node /\ t.depth \in Int /\ PlyOf(t.node) <= MaxPly
      /\ Shape(t, root.depth) /\ Serves(t, CallAt(1))
  BY <1>1, <1>4, Running DEF IInv
<1>6. m \in OrNone(t.node)
  BY <1>2, <1>5, RetrievedIs
<1>7. /\ b \in Int /\ b \in Values /\ b > t.alpha /\ b <= Top(t.node) /\ b = Smaller(t.beta, Top(t.node))
  <2>1. MateNext(t) = Top(t.node) /\ Top(t.node) \in Values
    BY <1>5, InReach DEF MateNext, Top, Ply, PlyOf
  <2>2. t.beta \in Values /\ t.alpha < t.beta /\ t.alpha \in Values
    BY <1>5 DEF Shape
  <2>3. PICK x \in Int, y \in Int, z \in Int : x = t.alpha /\ y = t.beta /\ z = Top(t.node)
    BY <2>1, <2>2, ScoresAre DEF Values
  <2>4. b = y \/ b = z
    BY <1>2, <2>1, <2>3 DEF Smaller
  <2> QED
    BY <1>2, <1>4, <2>1, <2>2, <2>3, <2>4 DEF Smaller
<1>8. OrNone(t.node) \subseteq Nat
  BY <1>5, GameIs DEF OrNone, None
<1>9. /\ g \in FrameSet /\ g.node = t.node /\ g.depth = t.depth /\ g.alpha = t.alpha /\ g.beta = b
      /\ g.oldAlpha = t.oldAlpha /\ g.bs = t.bs /\ g.val = t.val /\ g.bm = t.bm /\ g.head = t.head
      /\ g.trans = m /\ g.mv = t.mv /\ g.todo = t.todo /\ g.hard = t.hard /\ g.at = "static"
  BY <1>3, <1>5, <1>6, <1>7, <1>8 DEF FrameSet
<1>10. Shape(g, root.depth) /\ Possible(g)
  BY <1>4, <1>5, <1>6, <1>7, <1>9 DEF Shape, Begun, Waiting, Ply, PlyOf, Possible
<1>11. Exact' => Faithful(g, ev)
  BY <1>4, <1>5, <1>9 DEF Exact, Faithful, Begun, Mislabelled
<1>12. Serves(g, CallAt(1))
  BY <1>4, <1>5, <1>7, <1>9 DEF Serves, Top
<1>13. StackOK'
  BY <1>1, <1>4, <1>9, <1>10, <1>11, <1>12, Goes DEF Waiting
<1>14. TableOK' /\ Dated
  BY <1>4, <1>5, Beside, RetrieveKeeps
<1> QED
  BY <1>13, <1>14

\* What is in force before the moves of a node begin.
Early == {"static", "null", "open"}

\* A frame before its first move has the window it was called with, and no move yet.
LEMMA EarlyFrame ==
  ASSUME IInv, stack # <<>>, NEW t, t = f, t.at \in Early
  PROVE  /\ t \in FrameSet /\ t.node \in Node /\ PlyOf(t.node) < MaxPly /\ ~Position[t.node].drawn
         /\ t.alpha = t.oldAlpha /\ t.bs = NoScore /\ t.hard = FALSE /\ t.bm = None /\ t.head = None
         /\ t.alpha \in Int /\ t.beta \in Int /\ t.depth \in Int /\ t.alpha < t.beta
         /\ t.alpha \in Values /\ t.beta \in Values /\ t.beta <= Top(t.node) /\ t.trans \in OrNone(t.node)
<1>1. t \in FrameSet /\ Shape(t, root.depth)
  BY Running
<1>2. t.at \notin Begun /\ t.at # "enter"
  BY DEF Early, Begun
<1> QED
  BY <1>1, <1>2 DEF Shape, FrameSet

\* No pruning: on to the moves.
LEMMA OpensUp ==
  ASSUME IInv, stack # <<>>, NEW t, t = f, t.at \in Early, NEW at \in {"open", "null"},
         at = "null" => Position[t.node].pass # None /\ t.depth > 3,
         NEW g, g = [t EXCEPT !.at = at]
  PROVE  /\ g \in FrameSet /\ Shape(g, root.depth) /\ (~stop => Possible(g)) /\ (Exact => Faithful(g, ev))
         /\ Serves(g, CallAt(1)) /\ g.at = at /\ g.node = t.node /\ g.depth = t.depth /\ g.beta = t.beta
<1>1. /\ t \in FrameSet /\ Shape(t, root.depth) /\ (~stop => Possible(t)) /\ (Exact => Faithful(t, ev))
      /\ Serves(t, CallAt(1))
  BY Running
<1>2. /\ g \in FrameSet /\ g.node = t.node /\ g.depth = t.depth /\ g.alpha = t.alpha /\ g.beta = t.beta
      /\ g.oldAlpha = t.oldAlpha /\ g.bs = t.bs /\ g.val = t.val /\ g.bm = t.bm /\ g.head = t.head
      /\ g.trans = t.trans /\ g.mv = t.mv /\ g.todo = t.todo /\ g.hard = t.hard /\ g.at = at
  BY <1>1 DEF FrameSet, Waiting
<1>3. t.at # "enter" /\ t.at \notin Begun /\ at # "enter" /\ at \notin Begun
  BY DEF Early, Begun
<1>4. Shape(g, root.depth)
  BY <1>1, <1>2, <1>3 DEF Shape, Begun
<1>5. (~stop => Possible(g)) /\ (Exact => Faithful(g, ev))
  BY <1>1, <1>2, <1>3 DEF Possible, Faithful, Begun
<1>6. Serves(g, CallAt(1))
  BY <1>1, <1>2, <1>3 DEF Serves
<1> QED
  BY <1>2, <1>4, <1>5, <1>6

\* No null move is tried.
LEMMA NoNullKeeps ==
  ASSUME IInv, NoNull
  PROVE  StackOK' /\ TableOK' /\ Dated
<1>1. PICK t : t = f
  OBVIOUS
<1>2. PICK g : g = [t EXCEPT !.at = "open"]
  OBVIOUS
<1>3. stack # <<>> /\ t.at = "static" /\ Goto(g) /\ Keep /\ (plain' => plain) /\ UNCHANGED table
  BY <1>1, <1>2 DEF NoNull, At, StaysPlain
<1>4. /\ g \in FrameSet /\ Shape(g, root.depth) /\ (~stop => Possible(g)) /\ (Exact => Faithful(g, ev))
      /\ Serves(g, CallAt(1)) /\ g.at = "open"
  BY <1>1, <1>2, <1>3, OpensUp DEF Early
<1>5. StackOK'
  BY <1>1, <1>3, <1>4, Beside, Goes DEF Waiting
<1>6. TableOK' /\ Dated
  BY <1>3, Beside, TableKept DEF IInv
<1> QED
  BY <1>5, <1>6

\* The position after a null move.
LEMMA PassIs ==
  ASSUME NEW n \in Node, Position[n].pass # None
  PROVE  Position[n].pass \in Node /\ PlyOf(Position[n].pass) = PlyOf(n) + 1
  BY PositionAssumption DEF PositionAssumption, PlyOf

\* A quick score is no mate.
LEMMA QsIs ==
  ASSUME ev \in Evals, NEW n \in Node, NEW b
  PROVE  Qs(n, b, 100) \in -EvalMax..EvalMax
<1>1. ev[n] \in -EvalMax..EvalMax /\ ev[n] + 100 + Position[n].threat <= EvalMax
  BY EvalsAssumption DEF EvalsAssumption
<1>2. Position[n].threat \in Nat
  BY PositionAssumption DEF PositionAssumption
<1>3. EvalMax \in Nat
  BY ScoresAre
<1> QED
  BY <1>1, <1>2, <1>3 DEF Qs

\* The evaluation is so far above beta that the call ends.
LEMMA BetaPruningKeeps ==
  ASSUME IInv, BetaPruning
  PROVE  StackOK' /\ TableOK' /\ Dated
<1>1. PICK t : t = f
  OBVIOUS
<1>2. PICK sc : sc = ev[t.node] - t.depth * 50
  OBVIOUS
<1>3. /\ stack # <<>> /\ t.at = "static" /\ FarAbove(t) /\ Return(sc, None)
      /\ Keep /\ ~plain' /\ UNCHANGED table
  BY <1>1, <1>2 DEF BetaPruning, At, Departs
<1>4. None \in OrNone(t.node)
  BY DEF OrNone
<1>5. ev[t.node] \in -EvalMax..EvalMax /\ t.node \in Node /\ PlyOf(t.node) <= MaxPly
  BY <1>1, <1>3, Running
<1>6. t.depth \in 1..3 /\ ev[t.node] - t.depth * 50 >= t.beta /\ ~IsMateScore(t.beta) /\ t.beta \in Int
  <2>1. /\ t.depth > 0 /\ t.depth <= 3 /\ ev[t.node] - t.depth * 50 >= t.beta
        /\ ~IsMateScore(t.beta)
    BY <1>3 DEF FarAbove, MayPrune
  <2>2. t.depth \in Int /\ t.beta \in Int
    BY <1>1, <1>3, EarlyFrame DEF Early
  <2> QED
    BY <2>1, <2>2
<1>7. EvalMax \in Nat
  BY ScoresAre
<1>8. sc \in -EvalMax..EvalMax
  <2>1. PICK e \in -EvalMax..EvalMax, d \in 1..3, b \in Int : e = ev[t.node] /\ d = t.depth /\ b = t.beta
    BY <1>5, <1>6
  <2> QED
    BY <1>2, <1>6, <1>7, <2>1 DEF IsMateScore
<1>9. sc \in Values /\ sc \in Reach(PlyOf(t.node))
  BY <1>5, <1>8, InReach
<1>10. StackOK'
  BY <1>1, <1>3, <1>4, <1>9, Answers DEF Exact
<1>11. TableOK' /\ Dated
  BY <1>3, Beside, TableKept DEF IInv
<1> QED
  BY <1>10, <1>11

\* What a null move's score leads to keeps the invariant.
LEMMA NullScoreKeeps ==
  ASSUME IInv, stack # <<>>, f.at \in Early, f.depth > 0, Keep,
         NEW sc \in Values, ~stop => sc \in Reach(PlyOf(f.node)), NullScore(sc)
  PROVE  StackOK' /\ TableOK' /\ Dated
<1>1. PICK t : t = f
  OBVIOUS
<1>2. PICK g : g = [t EXCEPT !.at = "open"]
  OBVIOUS
<1>3. /\ t.at \in Early /\ t.depth > 0 /\ (~stop => sc \in Reach(PlyOf(t.node)))
      /\ t.node \in Node /\ t.depth \in Int /\ t.depth <= 99 /\ PlyOf(t.node) <= MaxPly
  BY <1>1, Running
<1>4. None \in OrNone(t.node)
  BY DEF OrNone
<1>5. CASE Store(t, None, sc, Lower) /\ Return(sc, None) /\ Departs(TRUE)
  <2>1. ~plain'
    BY <1>5 DEF Departs
  <2>2. Onward /\ stop' = stop
    BY <2>1, Beside
  <2>3. StackOK'
    BY <1>1, <1>3, <1>4, <1>5, <2>1, Answers DEF Exact
  <2>4. Lower \in {0} \cup TT!Types
    BY DEF Lower, TT!Types
  <2>5. TableOK' /\ Dated
    BY <1>3, <1>4, <1>5, <2>1, <2>2, <2>4, NodeStores DEF IInv, Exact
  <2> QED
    BY <2>3, <2>5
<1>6. CASE stop /\ Return(sc, None) /\ StaysPlain /\ UNCHANGED table
  <2>1. Onward /\ stop' = stop
    BY <1>6, Beside DEF StaysPlain
  <2>2. StackOK'
    BY <1>1, <1>3, <1>4, <1>6, <2>1, Answers DEF Exact, StaysPlain
  <2>3. TableOK' /\ Dated
    BY <1>6, <2>1, TableKept DEF IInv
  <2> QED
    BY <2>2, <2>3
<1>7. CASE Goto(g) /\ StaysPlain /\ UNCHANGED table
  <2>1. /\ g \in FrameSet /\ Shape(g, root.depth) /\ (~stop => Possible(g)) /\ (Exact => Faithful(g, ev))
        /\ Serves(g, CallAt(1)) /\ g.at = "open"
    BY <1>1, <1>2, <1>3, OpensUp
  <2>2. Onward /\ (Exact' => Exact) /\ (plain' => plain)
    BY <1>7, Beside DEF StaysPlain
  <2>3. StackOK'
    BY <1>1, <1>7, <2>1, <2>2, Goes DEF Waiting
  <2>4. TableOK' /\ Dated
    BY <1>7, <2>2, TableKept DEF IInv
  <2> QED
    BY <2>3, <2>4
<1> QED
  BY <1>1, <1>2, <1>5, <1>6, <1>7 DEF NullScore

\* The evaluation stands for the null move: the call ends.
LEMMA NullStaticKeeps ==
  ASSUME IInv, NullStatic
  PROVE  StackOK' /\ TableOK' /\ Dated
<1>1. PICK sc : sc = -Qs(Position[f.node].pass, -f.beta + 1, 100)
  OBVIOUS
<1>2. stack # <<>> /\ f.at \in Early /\ f.depth > 0 /\ Position[f.node].pass # None /\ Keep /\ NullScore(sc)
  BY <1>1 DEF NullStatic, At, TriesNull, MayPrune, Early
<1>3. f.node \in Node /\ PlyOf(f.node) <= MaxPly /\ ev \in Evals
  BY <1>2, Running
<1>4. PICK q \in -EvalMax..EvalMax : sc = -q
  BY <1>1, <1>2, <1>3, PassIs, QsIs
<1>5. sc \in -EvalMax..EvalMax
  BY <1>4, ScoresAre
<1>6. sc \in Values /\ sc \in Reach(PlyOf(f.node))
  BY <1>3, <1>5, InReach
<1> QED
  BY <1>2, <1>6, NullScoreKeeps

\* A score a ply below, seen from above.
LEMMA SeenFromAbove ==
  ASSUME NEW n \in Node, NEW m \in Node, PlyOf(m) = PlyOf(n) + 1, PlyOf(m) <= MaxPly, NEW v \in Values
  PROVE  -v \in Values /\ (v \in Reach(PlyOf(m)) => -v \in Reach(PlyOf(n)) /\ -v > NoScore)
<1>1. PICK p \in Nat : p = PlyOf(n) /\ p < MaxPly
  BY GameIs, ScoresAre
<1> QED
  BY <1>1, ScoresAre DEF Values, Reach

\* The score of the null move is back: the call ends, or goes on.
LEMMA NullBackKeeps ==
  ASSUME IInv, NullBack
  PROVE  StackOK' /\ TableOK' /\ Dated
<1>1. stack # <<>> /\ f.at = "null" /\ ret # <<>> /\ Keep /\ NullScore(-ret[1])
  BY DEF NullBack, At
<1>2. /\ Shape(f, root.depth) /\ f.node \in Node /\ PlyOf(f.node) <= MaxPly /\ f.depth \in Int
  BY <1>1, Running
<1>3. f.depth > 0 /\ Position[f.node].pass # None /\ PlyOf(f.node) < MaxPly
  BY <1>1, <1>2 DEF Shape
<1>4. AnswerOK(CallOf(f), ret[1], ret[2])
  BY <1>1, TopFrame DEF IInv
<1>5. CallOf(f).node = Position[f.node].pass
  BY <1>1 DEF CallOf, Asked
<1>6. ret[1] \in Values /\ (~stop => ret[1] \in Reach(PlyOf(Position[f.node].pass)))
  BY <1>4, <1>5 DEF AnswerOK
<1>7. PlyOf(Position[f.node].pass) <= MaxPly /\ PlyOf(f.node) \in Nat
  BY <1>2, <1>3, GameIs, PassIs, ScoresAre
<1>8. -ret[1] \in Values /\ (~stop => -ret[1] \in Reach(PlyOf(f.node)))
  BY <1>2, <1>3, <1>6, <1>7, PassIs, SeenFromAbove
<1> QED
  BY <1>1, <1>3, <1>8, NullScoreKeeps DEF Early

\* A frame on its own, just called.
LEMMA CalledFrame ==
  ASSUME NEW n \in Node, PlyOf(n) <= MaxPly, NEW d \in Int, -PlyOf(n) <= d, d <= root.depth,
         NEW a \in Values, NEW b \in Values, a < b,
         NEW h, h = Frame(n, d, a, b)
  PROVE  /\ h \in FrameSet /\ Shape(h, root.depth) /\ Possible(h) /\ (\A e : Faithful(h, e))
         /\ Serves(h, Asked(n, d, a, b)) /\ h.at = "enter"
<1>1. a \in Int /\ b \in Int /\ NoScore \in Values /\ NoScore \in Int
  BY ScoresAre DEF Values
<1>2. PICK pv \in BOOLEAN : pv = (d > 0 /\ b # a + 1)
  OBVIOUS
<1>3. /\ h \in FrameSet /\ h.node = n /\ h.depth = d /\ h.alpha = a /\ h.beta = b /\ h.oldAlpha = a
      /\ h.bs = NoScore /\ h.val = NoScore /\ h.bm = None /\ h.head = None /\ h.trans = None
      /\ h.mv = None /\ h.todo = {} /\ h.hard = FALSE /\ h.at = "enter"
  BY <1>1, <1>2 DEF Frame, FrameSet, None
<1>4. Shape(h, root.depth)
  BY <1>1, <1>3 DEF Shape, Begun, OrNone
<1>5. Possible(h) /\ (\A e : Faithful(h, e))
  BY <1>3 DEF Possible, Faithful, Begun
<1>6. Serves(h, Asked(n, d, a, b))
  BY <1>3 DEF Serves, Asked
<1> QED
  BY <1>3, <1>4, <1>5, <1>6

\* A step that calls.
LEMMA Calls ==
  ASSUME IInv, stack # <<>>, Keep, plain' => plain, NEW t, t = f,
         NEW g \in FrameSet, NEW h \in FrameSet, Call(g, h), g.at \in Waiting, h.at = "enter",
         Shape(g, root.depth), ~stop => Possible(g), Exact' => Faithful(g, ev),
         Serves(g, CallAt(1)),
         Shape(h, root.depth), Possible(h), \A e : Faithful(h, e), Serves(h, CallOf(g))
  PROVE  StackOK'
<1>1. StackOK /\ Inner /\ stop' = stop /\ root' = root /\ ev' = ev
  BY Beside DEF IInv
<1>2. FrameOK(g)' /\ FrameOK(h)'
  BY <1>1 DEF FrameOK
<1>3. h.at \notin Waiting
  BY DEF Waiting
<1> QED
  BY <1>1, <1>2, <1>3, CallKeeps

\* The null move is searched.
LEMMA NullDynamicKeeps ==
  ASSUME IInv, NullDynamic
  PROVE  StackOK' /\ TableOK' /\ Dated
<1>1. PICK t : t = f
  OBVIOUS
<1>2. PICK g : g = [t EXCEPT !.at = "null"]
  OBVIOUS
<1>3. PICK n, d, a, b : n = Position[t.node].pass /\ d = t.depth - 4 /\ a = -t.beta /\ b = -t.beta + 1
  OBVIOUS
<1>4. PICK h : h = Frame(n, d, a, b)
  OBVIOUS
<1>5. /\ stack # <<>> /\ t.at = "static" /\ TriesNull(t) /\ t.depth > 3 /\ Call(g, h)
      /\ Keep /\ (plain' => plain) /\ UNCHANGED table
  BY <1>1, <1>2, <1>3, <1>4 DEF NullDynamic, At, StaysPlain
<1>6. n # None /\ ~IsMateScore(t.beta)
  BY <1>3, <1>5 DEF TriesNull, MayPrune
<1>7. /\ t.node \in Node /\ t.depth \in Int /\ PlyOf(t.node) < MaxPly /\ t.beta \in Int
      /\ t.at \in Early /\ t.depth <= root.depth /\ root.depth \in Int /\ PlyOf(t.node) \in Nat
  <2>1. t.at \in Early
    BY <1>5 DEF Early
  <2>2. /\ t.node \in Node /\ t.depth \in Int /\ PlyOf(t.node) < MaxPly /\ t.beta \in Int
    BY <1>1, <1>5, <2>1, EarlyFrame
  <2>3. Shape(t, root.depth) /\ root.depth \in Int /\ PlyOf(t.node) \in Nat
    BY <1>1, <1>5, Running
  <2> QED
    BY <2>1, <2>2, <2>3 DEF Shape
<1>8. n \in Node /\ PlyOf(n) = PlyOf(t.node) + 1
  <2>1. PICK k \in Node : k = t.node /\ n = Position[k].pass
    BY <1>3, <1>7
  <2> QED
    BY <1>6, <2>1, PassIs
<1>9. PlyOf(n) \in Nat /\ PlyOf(n) <= MaxPly /\ d \in Int /\ -PlyOf(n) <= d /\ d <= root.depth
  <2>1. PICK x \in Int, p \in Nat, D \in Int :
           x = t.depth /\ p = PlyOf(t.node) /\ D = root.depth /\ x <= D /\ p < MaxPly /\ x > 3
    BY <1>5, <1>7
  <2>2. d = x - 4 /\ PlyOf(n) = p + 1 /\ MaxPly \in Nat
    BY <1>3, <1>8, <2>1, ScoresAre
  <2>3. x - 4 \in Int /\ -(p + 1) <= x - 4 /\ x - 4 <= D /\ p + 1 <= MaxPly
    BY <2>1, <2>2
  <2> QED
    BY <2>1, <2>2, <2>3
<1>10. a \in Values /\ b \in Values /\ a < b
  <2>1. PICK x \in Int : x = t.beta
    BY <1>7
  <2> QED
    BY <1>3, <1>6, <2>1, ScoresAre DEF Values, IsMateScore
<1>11. /\ h \in FrameSet /\ Shape(h, root.depth) /\ Possible(h) /\ (\A e : Faithful(h, e))
       /\ Serves(h, Asked(n, d, a, b)) /\ h.at = "enter"
  BY <1>4, <1>8, <1>9, <1>10, CalledFrame
<1>12. /\ g \in FrameSet /\ Shape(g, root.depth) /\ (~stop => Possible(g)) /\ (Exact => Faithful(g, ev))
       /\ Serves(g, CallAt(1)) /\ g.at = "null" /\ g.node = t.node /\ g.depth = t.depth /\ g.beta = t.beta
  BY <1>1, <1>2, <1>3, <1>5, <1>6, <1>7, OpensUp
<1>13. Serves(h, CallOf(g))
  BY <1>3, <1>11, <1>12 DEF CallOf
<1>14. StackOK'
  BY <1>1, <1>5, <1>11, <1>12, <1>13, Beside, Calls DEF Waiting
<1>15. TableOK' /\ Dated
  BY <1>5, Beside, TableKept DEF IInv
<1> QED
  BY <1>14, <1>15

\* In quiescence the evaluation is above beta: the call ends.
LEMMA StandPatKeeps ==
  ASSUME IInv, StandPat
  PROVE  StackOK' /\ TableOK' /\ Dated
<1>1. PICK t : t = f
  OBVIOUS
<1>2. PICK sc : sc = ev[t.node]
  OBVIOUS
<1>3. /\ stack # <<>> /\ t.at = "open" /\ Quiescent(t) /\ sc >= t.beta /\ Return(sc, None)
      /\ Keep /\ (plain' => plain) /\ UNCHANGED table
  BY <1>1, <1>2 DEF StandPat, At, StaysPlain
<1>4. None \in OrNone(t.node)
  BY DEF OrNone
<1>5. sc \in Values /\ sc \in Reach(PlyOf(t.node)) /\ sc \in Int
  BY <1>1, <1>2, <1>3, Running, InReach DEF Values
<1>6. Bounds(CallAt(1), ev, sc)
  <2>1. PICK c : c = CallAt(1)
    OBVIOUS
  <2>2. /\ t.node \in Node /\ PlyOf(t.node) < MaxPly /\ ~Position[t.node].drawn /\ t.beta \in Int
        /\ t.depth \in Int
    BY <1>1, <1>3, EarlyFrame DEF Early
  <2>3. Serves(t, c) /\ ev \in Evals /\ PlyOf(t.node) <= MaxPly
    BY <1>1, <1>3, <2>1, Running
  <2>4. PICK v \in Int : v = ValueOf(ev)[t.node][t.depth] /\ v <= Top(t.node)
    BY <2>2, <2>3, ValueInReach
  <2>5. v >= sc
    <3>1. BestOf(ev, t.node, t.depth, v)
      BY <2>2, <2>3, <2>4, ValueRight DEF ValueIs
    <3> QED
      BY <1>2, <1>3, <3>1 DEF BestOf, Quiescent, Quiet
  <2>6. Top(t.node) \in Int
    BY <2>2, GameIs, ScoresAre DEF Top
  <2>7. sc < c.beta \/ sc >= Top(c.node) => v <= sc
    BY <1>3, <1>5, <2>2, <2>3, <2>4, <2>6 DEF Serves, Smaller
  <2> QED
    BY <2>1, <2>3, <2>4, <2>5, <2>7 DEF Bounds, Serves
<1>7. StackOK'
  BY <1>1, <1>3, <1>4, <1>5, <1>6, Answers
<1>8. TableOK' /\ Dated
  BY <1>3, Beside, TableKept DEF IInv
<1> QED
  BY <1>7, <1>8

\* The shape of a frame whose moves have begun.
Started(g, D) ==
  /\ ~Position[g.node].drawn /\ PlyOf(g.node) < MaxPly /\ -PlyOf(g.node) <= g.depth /\ g.depth <= D
  /\ {g.alpha, g.beta, g.oldAlpha, g.bs, g.val} \subseteq Values
  /\ g.alpha < g.beta /\ g.bs < g.beta /\ g.beta <= Top(g.node)
  /\ {g.bm, g.head, g.trans, g.mv} \subseteq OrNone(g.node) /\ g.todo \subseteq Moves(g.node)

\* The frame g is o but for its moves and where it is.
AsFar(g, o) ==
  /\ g.node = o.node /\ g.depth = o.depth /\ g.alpha = o.alpha /\ g.beta = o.beta
  /\ g.oldAlpha = o.oldAlpha /\ g.pvNode = o.pvNode /\ g.bs = o.bs /\ g.bm = o.bm
  /\ g.head = o.head /\ g.hard = o.hard /\ g.val = o.val

\* A frame that has gone as far as its opening has the shape of a frame at its first move.
LEMMA StartedShape ==
  ASSUME NEW D, NEW o, Started(o, D), NEW g \in FrameSet, AsFar(g, o),
         g.trans \in OrNone(o.node), g.mv \in OrNone(o.node), g.todo \subseteq Moves(o.node),
         g.at \in Begun, g.at = "iid" => o.depth >= 3,
         g.at \in {"scout", "full"} => /\ g.mv \in Moves(o.node)
                                       /\ g.deep \in (o.depth - 1)..o.depth
  PROVE  Shape(g, D) /\ (Possible(o) => Possible(g)) /\ \A e : Settled(o, e) => Settled(g, e)
<1>1. g.at # "enter" /\ g.at # "null" /\ g.node \in Node
  BY DEF Begun, FrameSet
<1>2. PlyOf(g.node) <= MaxPly
  BY <1>1, GameIs, ScoresAre DEF Started, AsFar
<1>3. Shape(g, D)
  BY <1>1, <1>2 DEF Shape, Started, AsFar
<1>4. (Possible(o) => Possible(g)) /\ \A e : Settled(o, e) => Settled(g, e)
  BY DEF Possible, Settled, AsFar
<1> QED
  BY <1>3, <1>4

\* A call whose moves have begun.
LEMMA BegunFrame ==
  ASSUME IInv, stack # <<>>, NEW t, t = f, t.at \in Begun
  PROVE  /\ Started(t, root.depth) /\ (~stop => Possible(t))
         /\ Exact => /\ Settled(t, ev) /\ t.trans \in Tried(t.node, t.depth, FALSE) \cup {None}
                     /\ t.depth >= 0 \/ ~InCheck(t.node)
<1>1. Shape(t, root.depth) /\ (~stop => Possible(t)) /\ (Exact => Faithful(t, ev))
  BY Running
<1>2. t.at # "enter"
  BY DEF Begun
<1> QED
  BY <1>1, <1>2 DEF Shape, Started, Faithful

\* The moves begin.
LEMMA LoopBegins ==
  ASSUME NEW D, NEW o \in FrameSet, Started(o, D), NEW trans \in OrNone(o.node),
         NEW g, g = Looping(o, trans)
  PROVE  /\ g \in FrameSet /\ Shape(g, D) /\ (Possible(o) => Possible(g)) /\ g.at = "loop"
         /\ AsFar(g, o)
         /\ \A e : /\ Settled(o, e) /\ trans \in Tried(o.node, o.depth, FALSE) \cup {None}
                   /\ o.depth >= 0 \/ ~InCheck(o.node)
                   => Faithful(g, e)
<1>1. PICK todo : todo = MoveList(o.node, o.depth, o.hard, trans)
  OBVIOUS
<1>2. o.node \in Node /\ o.depth \in Int /\ o.hard \in BOOLEAN
  BY DEF FrameSet
<1>3. /\ Position[o.node].captures \subseteq Moves(o.node) /\ Position[o.node].forcing \subseteq Moves(o.node)
      /\ Moves(o.node) \subseteq Node /\ trans \in Nat
  BY <1>2, GameIs DEF OrNone, None
<1>4. todo \subseteq Moves(o.node)
  BY <1>1, <1>3 DEF MoveList, Tried
<1>5. /\ g \in FrameSet /\ g.trans = trans /\ g.todo = todo /\ g.at = "loop" /\ g.mv = o.mv /\ AsFar(g, o)
  BY <1>1, <1>3, <1>4 DEF Looping, FrameSet, AsFar
<1>6. g.at \in Begun /\ g.mv \in OrNone(o.node)
  BY <1>5 DEF Begun, Started
<1>7. Shape(g, D) /\ (Possible(o) => Possible(g)) /\ \A e : Settled(o, e) => Settled(g, e)
  BY <1>4, <1>5, <1>6, StartedShape
<1>8. ASSUME NEW e, Settled(o, e), trans \in Tried(o.node, o.depth, FALSE) \cup {None},
             o.depth >= 0 \/ ~InCheck(o.node)
      PROVE  Faithful(g, e)
  <2>1. o.hard <=> Quiet(o.node, o.depth)
    BY <1>8 DEF Settled
  <2>2. Tried(o.node, o.depth, o.hard) = Tried(o.node, o.depth, FALSE)
    BY <1>2, <2>1 DEF Tried, Quiet
  <2>3. None \notin Moves(o.node)
    BY <1>2, <1>3, GameIs
  <2>4. todo = Tried(o.node, o.depth, FALSE)
    BY <1>1, <1>8, <2>2, <2>3 DEF MoveList
  <2>5. Settled(g, e)
    BY <1>7, <1>8
  <2> QED
    BY <1>5, <1>8, <2>4, <2>5 DEF Faithful, AsFar
<1> QED
  BY <1>5, <1>7, <1>8

\* The frame in which the moves begin.
LEMMA OpenedIs ==
  ASSUME IInv, stack # <<>>, NEW t, t = f, t.at = "open",
         ~(Quiescent(t) /\ Opened(t).alpha >= t.beta), NEW o, o = Opened(t)
  PROVE  /\ o \in FrameSet /\ Started(o, root.depth) /\ (~stop => Possible(o))
         /\ Exact /\ ~Futile(t) => Settled(o, ev)
         /\ o.node = t.node /\ o.depth = t.depth /\ o.beta = t.beta /\ o.oldAlpha = t.oldAlpha
         /\ o.trans = t.trans
<1>1. /\ t \in FrameSet /\ t.node \in Node /\ PlyOf(t.node) < MaxPly /\ ~Position[t.node].drawn
      /\ t.alpha = t.oldAlpha /\ t.bs = NoScore /\ t.hard = FALSE /\ t.bm = None /\ t.head = None
      /\ t.alpha \in Int /\ t.beta \in Int /\ t.depth \in Int /\ t.alpha < t.beta
      /\ t.alpha \in Values /\ t.beta \in Values /\ t.beta <= Top(t.node) /\ t.trans \in OrNone(t.node)
  BY EarlyFrame DEF Early
<1>2. /\ Shape(t, root.depth) /\ ev \in Evals /\ ev[t.node] \in -EvalMax..EvalMax
      /\ PlyOf(t.node) \in Nat /\ PlyOf(t.node) <= MaxPly
  BY Running
<1>4. -Mate < t.beta /\ -Mate \in Values /\ -Mate \in Int /\ EvalMax \in Nat /\ Mate = EvalMax + 1001
  BY <1>1, ScoresAre DEF Values
<1>5. NoScore = -Mate
  BY ScoresAre
<1>6. Started(t, root.depth)
  BY <1>1, <1>2, <1>4, <1>5 DEF Shape, Started
<1>7. PICK e \in -EvalMax..EvalMax : e = ev[t.node]
  BY <1>2
<1>8. CASE Quiescent(t)
  <2>1. PICK a, v : a = Larger(t.alpha, e) /\ v = e + 100
    OBVIOUS
  <2>2. o = [t EXCEPT !.bs = e, !.alpha = a, !.hard = TRUE, !.val = v]
    BY <1>7, <1>8, <2>1, Zenon DEF Opened
  <2>3. a \in Values /\ v \in Values /\ e \in Values /\ a \in Int /\ v \in Int /\ e \in Int /\ e <= a
    BY <1>1, <1>4, <2>1 DEF Larger, Values
  <2>4. /\ o \in FrameSet /\ o.node = t.node /\ o.depth = t.depth /\ o.alpha = a /\ o.beta = t.beta
        /\ o.oldAlpha = t.oldAlpha /\ o.bs = e /\ o.hard = TRUE /\ o.val = v /\ o.bm = t.bm
        /\ o.head = t.head /\ o.trans = t.trans /\ o.mv = t.mv /\ o.todo = t.todo
    <3>1. t \in FrameSet /\ e \in Int /\ a \in Int /\ v \in Int
      BY <1>1, <2>3
    <3> QED
      BY <2>2, <3>1, ZenonT(60) DEF FrameSet
  <2>5. a < t.beta
    BY <1>1, <1>8, <2>3, <2>4
  <2>6. e < t.beta
    BY <1>1, <2>3, <2>5
  <2>7. Started(o, root.depth)
    BY <1>6, <2>3, <2>4, <2>5, <2>6 DEF Started
  <2>8. Possible(o)
    BY <1>1, <1>2, <2>4, InReach DEF Possible
  <2>9. Quiet(t.node, t.depth)
    BY <1>8 DEF Quiescent, Quiet
  <2>10. Settled(o, ev)
    <3>1. PICK v1 \in Int : v1 = ValueOf(ev)[t.node][t.depth]
      BY <1>1, <1>2, ValueInReach
    <3>2. v1 >= e
      <4>1. BestOf(ev, t.node, t.depth, v1)
        BY <1>1, <1>2, <3>1, ValueRight DEF ValueIs
      <4> QED
        BY <1>7, <2>9, <4>1 DEF BestOf
    <3>3. a = Larger(t.oldAlpha, e)
      BY <1>1, <2>1
    <3> QED
      BY <1>7, <2>3, <2>4, <2>9, <3>1, <3>2, <3>3 DEF Settled
  <2> QED
    BY <2>4, <2>7, <2>8, <2>10
<1>9. CASE ~Quiescent(t) /\ Futile(t)
  <2>1. PICK b, v : b = e + t.depth * 40 /\ v = e + t.depth * 40 + 50
    OBVIOUS
  <2>2. o = [t EXCEPT !.bs = b, !.hard = TRUE, !.val = v]
    BY <1>7, <1>9, <2>1, Zenon DEF Opened
  <2>3. t.depth \in 1..8 /\ b <= t.alpha /\ ~IsMateScore(t.alpha)
    BY <1>7, <1>9, <2>1 DEF Futile
  <2>4. PICK d \in 1..8, x \in Int, y \in Int :
           d = t.depth /\ x = t.alpha /\ y = t.beta /\ x < y
    BY <1>1, <2>3
  <2>5. b = e + d * 40 /\ v = e + d * 40 + 50 /\ b <= x /\ ~IsMateScore(x)
    BY <2>1, <2>3, <2>4
  <2>6. b \in -EvalMax..EvalMax
    <3>1. EvalMax \in Nat /\ x >= -EvalMax /\ x <= EvalMax
      <4>1. EvalMax \in Nat /\ x \in Int /\ ~IsMateScore(x)
        BY <1>4, <2>4, <2>5
      <4> QED
        BY <4>1, SMTT(30) DEF IsMateScore
    <3>2. e \in -EvalMax..EvalMax /\ d \in 1..8 /\ x \in Int
      BY <1>7, <2>4
    <3>3. b \in Int /\ b >= -EvalMax
      BY <2>5, <3>1, <3>2
    <3> QED
      BY <2>5, <3>1, <3>2, <3>3
  <2>10. b \in Values /\ v \in Values /\ b \in Int /\ v \in Int /\ b < y
    <3>1. EvalMax \in Nat /\ Mate = EvalMax + 1001
      BY <1>4
    <3>2. b \in -EvalMax..EvalMax /\ v = b + 50 /\ b <= x /\ x < y /\ x \in Int /\ y \in Int
      <4>1. e \in Int /\ d \in Int
        BY <1>7, <2>4
      <4> QED
        BY <2>4, <2>5, <2>6, <4>1
    <3>3. b \in Int /\ v \in Int /\ b < y
      BY <3>1, <3>2
    <3>4. b \in Values /\ v \in Values
      BY <3>1, <3>2 DEF Values
    <3> QED
      BY <3>3, <3>4
  <2>7. /\ o \in FrameSet /\ o.node = t.node /\ o.depth = t.depth /\ o.alpha = t.alpha /\ o.beta = t.beta
        /\ o.oldAlpha = t.oldAlpha /\ o.bs = b /\ o.hard = TRUE /\ o.val = v /\ o.bm = t.bm
        /\ o.head = t.head /\ o.trans = t.trans /\ o.mv = t.mv /\ o.todo = t.todo
    <3>1. t \in FrameSet /\ b \in Int /\ v \in Int
      BY <1>1, <2>10
    <3> QED
      BY <2>2, <3>1, ZenonT(60) DEF FrameSet
  <2>8. Started(o, root.depth)
    BY <1>6, <2>4, <2>10, <2>7 DEF Started
  <2>9. Possible(o)
    BY <1>1, <1>2, <2>6, <2>7, InReach DEF Possible
  <2> QED
    BY <1>9, <2>7, <2>8, <2>9
<1>10. CASE ~Quiescent(t) /\ ~Futile(t)
  <2>1. o = t
    BY <1>10 DEF Opened
  <2>2. Possible(t)
    BY <1>1 DEF Possible
  <2>3. Settled(t, ev)
    <3>1. ~Quiet(t.node, t.depth)
      BY <1>10 DEF Quiescent, Quiet
    <3>2. t.alpha = Larger(t.oldAlpha, t.bs) /\ ~(t.bs > t.oldAlpha)
      BY <1>1, <1>4, <1>5 DEF Larger, Values
    <3> QED
      BY <1>1, <3>1, <3>2 DEF Settled
  <2> QED
    BY <1>1, <1>6, <2>1, <2>2, <2>3
<1> QED
  BY <1>8, <1>9, <1>10

\* The staged list is opened, or a shallower search for a first move is asked for.
LEMMA OpenKeeps ==
  ASSUME IInv, Open
  PROVE  StackOK' /\ TableOK' /\ Dated
<1>1. PICK t : t = f
  OBVIOUS
<1>2. PICK o : o = Opened(t)
  OBVIOUS
<1>3. PICK g : g = [o EXCEPT !.at = "iid"]
  OBVIOUS
<1>4. PICK q : q = Looping(o, t.trans)
  OBVIOUS
<1>5. PICK h : h = Frame(t.node, t.depth - 2, o.alpha, t.beta)
  OBVIOUS
<1>6. /\ stack # <<>> /\ t.at = "open" /\ ~(Quiescent(t) /\ Opened(t).alpha >= t.beta)
      /\ Keep /\ UNCHANGED table
  BY <1>1, Zenon DEF Open, At
<1>7. IF Deepens(t) THEN Call(g, h) ELSE Goto(q)
  BY <1>1, <1>2, <1>3, <1>4, <1>5, Zenon DEF Open
<1>17. Departs(Futile(t) \/ t.trans \in Moves(t.node) \ Tried(t.node, t.depth, FALSE))
  BY <1>1, Zenon DEF Open
<1>18. plain' => plain
  BY <1>17 DEF Departs
<1>8. plain' => ~Futile(t) /\ t.trans \notin Moves(t.node) \ Tried(t.node, t.depth, FALSE)
  BY <1>17 DEF Departs
<1>9. /\ o \in FrameSet /\ Started(o, root.depth) /\ (~stop => Possible(o))
      /\ Exact /\ ~Futile(t) => Settled(o, ev)
      /\ o.node = t.node /\ o.depth = t.depth /\ o.beta = t.beta /\ o.oldAlpha = t.oldAlpha
      /\ o.trans = t.trans
  BY <1>1, <1>2, <1>6, OpenedIs
<1>10. /\ t.node \in Node /\ t.depth \in Int /\ PlyOf(t.node) \in Nat /\ PlyOf(t.node) <= MaxPly
       /\ Serves(t, CallAt(1)) /\ t.depth <= root.depth /\ root.depth \in Int /\ t.trans \in OrNone(t.node)
       /\ Exact => t.depth >= 0 \/ ~InCheck(t.node)
  <2>1. /\ t.node \in Node /\ t.depth \in Int /\ PlyOf(t.node) \in Nat /\ PlyOf(t.node) <= MaxPly
        /\ Serves(t, CallAt(1)) /\ root.depth \in Int /\ Shape(t, root.depth)
        /\ Exact => Faithful(t, ev)
    BY <1>1, <1>6, Running
  <2> QED
    BY <1>6, <2>1 DEF Shape, Faithful
<1>11. Exact' => Exact /\ Settled(o, ev)
  BY <1>6, <1>8, <1>9, <1>18, Beside DEF Exact
<1>12. Exact' => t.trans \in Tried(t.node, t.depth, FALSE) \cup {None}
  BY <1>8, <1>10 DEF Exact, OrNone
<1>13. ASSUME Deepens(t), Call(g, h)
       PROVE  StackOK'
  <2>1. t.depth >= 3
    BY <1>13 DEF Deepens
  <2>2. /\ g \in FrameSet /\ AsFar(g, o) /\ g.trans = o.trans /\ g.mv = o.mv /\ g.todo = o.todo
        /\ g.at = "iid"
    BY <1>3, <1>9 DEF FrameSet, AsFar, Waiting
  <2>3. Shape(g, root.depth) /\ (~stop => Possible(g)) /\ (Exact' => Settled(g, ev))
    <3>1. g.trans \in OrNone(o.node) /\ g.mv \in OrNone(o.node) /\ g.todo \subseteq Moves(o.node)
      BY <1>9, <2>2 DEF Started
    <3>2. g.at \in Begun /\ g.at \notin {"scout", "full"}
      BY <2>2 DEF Begun
    <3> QED
      BY <1>9, <1>11, <2>1, <2>2, <3>1, <3>2, StartedShape
  <2>4. Exact' => Faithful(g, ev)
    BY <1>9, <1>10, <1>11, <1>12, <2>2, <2>3 DEF Faithful, AsFar
  <2>5. Serves(g, CallAt(1))
    BY <1>6, <1>9, <1>10, <2>2 DEF Serves, AsFar
  <2>6. o.alpha \in Values /\ t.beta \in Values /\ o.alpha < t.beta
    BY <1>9 DEF Started
  <2>7. t.depth - 2 \in Int /\ -PlyOf(t.node) <= t.depth - 2 /\ t.depth - 2 <= root.depth
    BY <1>10, <2>1
  <2>8. /\ h \in FrameSet /\ Shape(h, root.depth) /\ Possible(h) /\ (\A e : Faithful(h, e))
        /\ Serves(h, Asked(t.node, t.depth - 2, o.alpha, t.beta)) /\ h.at = "enter"
    BY <1>5, <1>10, <2>6, <2>7, CalledFrame
  <2>9. Serves(h, CallOf(g))
    BY <1>9, <2>2, <2>8 DEF CallOf, AsFar
  <2> QED
    BY <1>1, <1>6, <1>18, <1>13, <2>2, <2>3, <2>4, <2>5, <2>8, <2>9, Calls DEF Waiting
<1>14. ASSUME ~Deepens(t), Goto(q)
       PROVE  StackOK'
  <2>1. /\ q \in FrameSet /\ Shape(q, root.depth) /\ (~stop => Possible(q)) /\ q.at = "loop"
        /\ AsFar(q, o) /\ (Exact' => Faithful(q, ev))
    <3>1. PICK m \in OrNone(o.node) : m = t.trans
      BY <1>9, <1>10
    <3>2. q = Looping(o, m) /\ o \in FrameSet /\ Started(o, root.depth)
      BY <1>4, <1>9, <3>1
    <3>3. /\ q \in FrameSet /\ Shape(q, root.depth) /\ (Possible(o) => Possible(q)) /\ q.at = "loop"
          /\ AsFar(q, o)
          /\ /\ Settled(o, ev) /\ m \in Tried(o.node, o.depth, FALSE) \cup {None}
             /\ o.depth >= 0 \/ ~InCheck(o.node)
             => Faithful(q, ev)
      BY <3>1, <3>2, LoopBegins
    <3> QED
      BY <1>9, <1>10, <1>11, <1>12, <3>1, <3>3
  <2>2. Serves(q, CallAt(1))
    BY <1>6, <1>9, <1>10, <2>1 DEF Serves, AsFar
  <2> QED
    BY <1>1, <1>6, <1>18, <1>14, <2>1, <2>2, Goes DEF Waiting
<1>15. StackOK'
  BY <1>7, <1>13, <1>14
<1>16. TableOK' /\ Dated
  BY <1>6, <1>18, Beside, TableKept DEF IInv
<1> QED
  BY <1>15, <1>16

\* The shallower search is back with a move to try first.
LEMMA IidBackKeeps ==
  ASSUME IInv, IidBack
  PROVE  StackOK' /\ TableOK' /\ Dated
<1>1. PICK t : t = f
  OBVIOUS
<1>2. PICK m : m = IF ret[1] > t.alpha THEN ret[2] ELSE None
  OBVIOUS
<1>3. PICK q : q = Looping(t, m)
  OBVIOUS
<1>4. /\ stack # <<>> /\ t.at = "iid" /\ ret # <<>> /\ Goto(q) /\ Keep /\ (plain' => plain)
      /\ UNCHANGED table
  BY <1>1, <1>2, <1>3 DEF IidBack, At, StaysPlain
<1>5. /\ t \in FrameSet /\ t.node \in Node /\ t.depth \in Int /\ Serves(t, CallAt(1))
      /\ Shape(t, root.depth)
  BY <1>1, <1>4, Running
<1>6. m \in OrNone(t.node)
  <2>1. AnswerOK(CallOf(t), ret[1], ret[2])
    BY <1>1, <1>4, TopFrame DEF IInv
  <2>2. CallOf(t).node = t.node
    BY <1>4 DEF CallOf, Asked
  <2> QED
    BY <1>2, <2>1, <2>2 DEF AnswerOK, OrNone
<1>7. Tried(t.node, t.depth, FALSE) = Moves(t.node)
  <2>1. t.depth > 0
    BY <1>4, <1>5 DEF Shape
  <2> QED
    BY <1>5, <2>1, TriedAre
<1>8. /\ Started(t, root.depth) /\ (~stop => Possible(t))
      /\ Exact' => Settled(t, ev) /\ (t.depth >= 0 \/ ~InCheck(t.node))
  <2>1. t.at \in Begun
    BY <1>4 DEF Begun
  <2> QED
    BY <1>1, <1>4, <2>1, BegunFrame, Beside
<1>9. /\ q \in FrameSet /\ Shape(q, root.depth) /\ (~stop => Possible(q)) /\ q.at = "loop"
      /\ AsFar(q, t) /\ (Exact' => Faithful(q, ev))
  BY <1>3, <1>5, <1>6, <1>7, <1>8, LoopBegins DEF OrNone
<1>10. Serves(q, CallAt(1))
  BY <1>4, <1>5, <1>9 DEF Serves, AsFar
<1>11. StackOK'
  BY <1>1, <1>4, <1>9, <1>10, Goes DEF Waiting
<1>12. TableOK' /\ Dated
  BY <1>4, Beside, TableKept DEF IInv
<1> QED
  BY <1>11, <1>12

\* The move that comes next is one of those to come.
LEMMA UpcomingIn ==
  ASSUME NEW g, g.node \in Node, g.todo # {}, g.todo \subseteq Moves(g.node)
  PROVE  Upcoming(g) \in g.todo
<1>1. PICK pm \in Seq(Node) : pm = Position[g.node].moves
  BY PositionAssumption DEF PositionAssumption
<1>2. PICK S : S = {i \in DOMAIN pm : pm[i] \in g.todo}
  OBVIOUS
<1>3. S \in SUBSET Nat /\ S # {}
  <2>1. DOMAIN pm = 1..Len(pm) /\ Len(pm) \in Nat
    BY <1>1
  <2>2. PICK m \in g.todo : TRUE
    OBVIOUS
  <2>3. PICK i \in DOMAIN pm : m = pm[i]
    BY <1>1, <2>2 DEF Moves
  <2> QED
    BY <1>2, <2>1, <2>2, <2>3
<1>4. PICK k \in S : \A j \in S : k <= j
  BY <1>3, FirstIn
<1>5. \E i \in DOMAIN pm : pm[i] \in g.todo /\ \A j \in DOMAIN pm : pm[j] \in g.todo => i <= j
  BY <1>2, <1>4
<1>6. FirstOf(g.node, g.todo) \in g.todo
  <2>1. PICK c : c = CHOOSE i \in DOMAIN pm : /\ pm[i] \in g.todo
                                              /\ \A j \in DOMAIN pm : pm[j] \in g.todo => i <= j
    OBVIOUS
  <2>2. pm[c] \in g.todo
    BY <1>5, <2>1
  <2>3. FirstOf(g.node, g.todo) = pm[c]
    BY <1>1, <2>1, Zenon DEF FirstOf
  <2> QED
    BY <2>2, <2>3
<1> QED
  BY <1>6 DEF Upcoming

\* Reductions leave a depth of one at least.
LEMMA ReductionIs ==
  ASSUME NEW n, NEW m, NEW d \in Int, d <= MaxDepth, NEW pv, NEW searched \in Nat,
         NEW candidate, NEW red \in reduction(n, m, d, pv, searched, candidate)
  PROVE  red \in Nat /\ Reduces(d, red)
<1>1. CASE red = 0
  BY <1>1 DEF Reduces
<1>2. CASE red # 0
  <2>1. PICK k : k = Smaller(searched + 1, LMRMoves)
    OBVIOUS
  <2>2. MaxDepth \in Int /\ LMRMoves \in Nat \ {0}
        /\ \A c \in 3..MaxDepth : \A i \in 1..LMRMoves : LMRReduction[c][i] \in 0..(c - 2)
    BY LimitsAssumption DEF LimitsAssumption
  <2>3. k \in 1..LMRMoves
    BY <2>1, <2>2 DEF Smaller
  <2>4. /\ ~(d < 3)
        /\ red \in 0..Larger(0, LMRReduction[d][k] - (IF pv THEN 1 ELSE 0))
    BY <1>2, <2>1 DEF reduction
  <2>5. PICK l \in 0..(d - 2) : l = LMRReduction[d][k]
    BY <2>2, <2>3, <2>4
  <2>6. red \in 0..Larger(0, l - (IF pv THEN 1 ELSE 0))
    BY <2>4, <2>5
  <2>7. red \in 0..l
    BY <2>5, <2>6 DEF Larger
  <2> QED
    BY <2>4, <2>5, <2>7 DEF Reduces
<1> QED
  BY <1>1, <1>2

\* A move is left out: it gains too little, or comes late.
LEMMA SkipKeeps ==
  ASSUME IInv, Skip
  PROVE  StackOK' /\ TableOK' /\ Dated
<1>1. PICK t : t = f
  OBVIOUS
<1>2. PICK todo : todo = t.todo \ {Upcoming(t)}
  OBVIOUS
<1>3. PICK g : g = [t EXCEPT !.todo = todo]
  OBVIOUS
<1>4. /\ stack # <<>> /\ t.at = "loop" /\ Goto(g) /\ Keep /\ ~plain' /\ UNCHANGED table
  BY <1>1, <1>2, <1>3 DEF Skip, At, Departs
<1>5. t \in FrameSet /\ Serves(t, CallAt(1))
  BY <1>1, <1>4, Running
<1>6. t.at \in Begun
  BY <1>4 DEF Begun
<1>7. Started(t, root.depth) /\ (~stop => Possible(t))
  BY <1>1, <1>4, <1>6, BegunFrame
<1>8. /\ g \in FrameSet /\ AsFar(g, t) /\ g.todo = todo /\ g.at = "loop" /\ g.trans = t.trans
      /\ g.mv = t.mv
  BY <1>2, <1>3, <1>4, <1>5 DEF FrameSet, AsFar
<1>9. Shape(g, root.depth) /\ (~stop => Possible(g))
  <2>1. g.trans \in OrNone(t.node) /\ g.mv \in OrNone(t.node) /\ g.todo \subseteq Moves(t.node)
    BY <1>2, <1>7, <1>8 DEF Started
  <2>2. g.at \in Begun
    BY <1>8 DEF Begun
  <2> QED
    BY <1>7, <1>8, <2>1, <2>2, StartedShape
<1>10. Serves(g, CallAt(1))
  BY <1>4, <1>5, <1>8 DEF Serves, AsFar
<1>11. StackOK'
  BY <1>1, <1>4, <1>8, <1>9, <1>10, Goes DEF Waiting, Exact
<1>12. TableOK' /\ Dated
  BY <1>4, Beside, TableKept DEF IInv
<1> QED
  BY <1>11, <1>12

\* The next move is searched, reduced and with an empty window or not.
LEMMA NextMoveKeeps ==
  ASSUME IInv, NextMove
  PROVE  StackOK' /\ TableOK' /\ Dated
<1>1. PICK t : t = f
  OBVIOUS
<1>2. PICK m, ext : m = Upcoming(t) /\ ext = extension(t.node, m, t.depth, t.pvNode)
  OBVIOUS
<1>3. PICK deep, todo : deep = t.depth + ext - 1 /\ todo = t.todo \ {m}
  OBVIOUS
<1>4. PICK g0 : g0 = [t EXCEPT !.todo = todo, !.mv = m, !.deep = deep]
  OBVIOUS
<1>5. /\ stack # <<>> /\ t.at = "loop" /\ t.todo # {} /\ Keep /\ UNCHANGED table
  BY <1>1, Zenon DEF NextMove, At
<1>6. Departs(ext # extension(t.node, m, t.depth, FALSE))
  BY <1>1, <1>2, Zenon DEF NextMove
<1>7. PICK red \in IF ext = 1 THEN {0}
                   ELSE reduction(t.node, m, t.depth, t.pvNode, t.searched, m = t.trans) :
        IF (t.pvNode /\ t.searched # 0) \/ red # 0
        THEN Call([g0 EXCEPT !.red = red, !.at = "scout"], Frame(m, g0.deep - red, -t.alpha - 1, -t.alpha))
        ELSE Call([g0 EXCEPT !.at = "full"], Frame(m, g0.deep, -t.beta, -t.alpha))
  BY <1>1, <1>2, <1>3, <1>4, ZenonT(60) DEF NextMove
<1>8. (plain' => plain) /\ (Exact' => Exact /\ ext = extension(t.node, m, t.depth, FALSE))
  BY <1>5, <1>6, Beside DEF Departs, Exact
<1>9. /\ t \in FrameSet /\ Serves(t, CallAt(1)) /\ t.node \in Node /\ t.depth \in Int
      /\ t.depth <= MaxDepth /\ root.depth \in Int /\ PlyOf(t.node) \in Nat
  <2>1. /\ t \in FrameSet /\ Serves(t, CallAt(1)) /\ t.node \in Node /\ t.depth \in Int
        /\ root.depth \in 1..MaxDepth /\ Shape(t, root.depth) /\ PlyOf(t.node) \in Nat
    BY <1>1, <1>5, Running
  <2>2. MaxDepth \in Int
    BY LimitsAssumption DEF LimitsAssumption
  <2> QED
    BY <2>1, <2>2 DEF Shape
<1>10. t.at \in Begun
  BY <1>5 DEF Begun
<1>11. Started(t, root.depth) /\ (~stop => Possible(t)) /\ (Exact => Faithful(t, ev) /\ Settled(t, ev))
  BY <1>1, <1>5, <1>10, Running, BegunFrame
<1>12. m \in t.todo /\ m \in Moves(t.node) /\ m \in Node /\ m \in Nat /\ PlyOf(m) = PlyOf(t.node) + 1
  <2>1. t.todo \subseteq Moves(t.node)
    BY <1>11 DEF Started
  <2>2. m \in t.todo
    BY <1>2, <1>5, <1>9, <2>1, UpcomingIn
  <2> QED
    BY <1>9, <2>1, <2>2, GameIs
<1>13. (ext = 0 \/ ext = 1) /\ deep \in Int /\ deep \in (t.depth - 1)..t.depth
  <2>1. t.pvNode \in BOOLEAN
    BY <1>9 DEF FrameSet
  <2>2. ext = 0 \/ ext = 1
    BY <1>2, <2>1, ExtensionIs
  <2> QED
    BY <1>3, <1>9, <2>2
<1>14. red \in Nat /\ Reduces(t.depth, red)
  <2>1. t.searched \in Nat
    BY <1>9 DEF FrameSet
  <2> QED
    BY <1>7, <1>9, <2>1, ReductionIs DEF Reduces
<1>15. /\ g0 \in FrameSet /\ AsFar(g0, t) /\ g0.todo = todo /\ g0.mv = m /\ g0.deep = deep
       /\ g0.trans = t.trans
  <2>1. todo \in SUBSET Node
    BY <1>3, <1>9 DEF FrameSet
  <2> QED
    BY <1>4, <1>9, <1>12, <1>13, <2>1 DEF FrameSet, AsFar
<1>16. ASSUME NEW g \in FrameSet, AsFar(g, g0), g.todo = todo, g.mv = m, g.deep = deep,
              g.trans = t.trans, g.at \in {"scout", "full"}
       PROVE  /\ Shape(g, root.depth) /\ (~stop => Possible(g)) /\ (Exact' => Faithful(g, ev))
              /\ Serves(g, CallAt(1)) /\ g.at \in Waiting
  <2>1. AsFar(g, t)
    BY <1>15, <1>16 DEF AsFar
  <2>2. g.trans \in OrNone(t.node) /\ g.mv \in OrNone(t.node) /\ g.todo \subseteq Moves(t.node)
    BY <1>3, <1>11, <1>12, <1>16 DEF Started, OrNone
  <2>3. g.at \in Begun /\ g.at # "iid" /\ g.at # "loop" /\ g.at # "enter" /\ g.at \in Waiting
    BY <1>16 DEF Begun, Waiting
  <2>4. Shape(g, root.depth) /\ (~stop => Possible(g)) /\ (Exact => Settled(g, ev))
    BY <1>11, <1>12, <1>13, <1>16, <2>1, <2>2, <2>3, StartedShape
  <2>5. ASSUME Exact'
        PROVE  Faithful(g, ev)
    <3>1. Faithful(t, ev) /\ Settled(g, ev) /\ deep = Below(t.node, m, t.depth)
      <4>1. Faithful(t, ev) /\ Settled(g, ev) /\ ext = extension(t.node, m, t.depth, FALSE)
        BY <1>8, <1>11, <2>4, <2>5
      <4>2. Below(t.node, m, t.depth) = t.depth - 1 + ext
        BY <4>1 DEF Below
      <4>3. t.depth - 1 + ext = t.depth + ext - 1
        BY <1>9, <1>13
      <4> QED
        BY <1>3, <4>1, <4>2, <4>3
    <3>2. /\ t.depth >= 0 \/ ~InCheck(t.node)
          /\ t.trans \in Tried(t.node, t.depth, FALSE) \cup {None}
          /\ t.todo \subseteq Tried(t.node, t.depth, FALSE)
          /\ \A k \in Tried(t.node, t.depth, FALSE) :
                k \in t.todo \/ ScoreOf(ev, t.node, k, t.depth) <= t.bs
      BY <1>5, <1>10, <3>1 DEF Faithful
    <3>3. /\ todo \subseteq Tried(t.node, t.depth, FALSE) /\ m \in Tried(t.node, t.depth, FALSE)
          /\ \A k \in Tried(t.node, t.depth, FALSE) :
                k \in todo \/ k = m \/ ScoreOf(ev, t.node, k, t.depth) <= t.bs
      BY <1>3, <1>12, <3>2
    <3> QED
      BY <1>16, <2>1, <2>3, <3>1, <3>2, <3>3 DEF Faithful, AsFar
  <2>6. Serves(g, CallAt(1))
    BY <1>5, <1>9, <2>1, <2>3 DEF Serves, AsFar
  <2> QED
    BY <2>3, <2>4, <2>5, <2>6, <1>8
<1>17. PICK a \in Int, b \in Int : a = t.alpha /\ b = t.beta /\ a \in Values /\ b \in Values /\ a < b /\ b <= Mate - 1
  <2>1. t.alpha \in Int /\ t.beta \in Int
    BY <1>9 DEF FrameSet
  <2>2. Top(t.node) \in Int /\ Top(t.node) <= Mate - 1 /\ Mate \in Int
    BY <1>9, ScoresAre DEF Top
  <2> QED
    BY <1>11, <2>1, <2>2 DEF Started
<1>18. /\ -a - 1 \in Values /\ -a \in Values /\ -b \in Values /\ -a - 1 < -a /\ -b < -a
  BY <1>17, ScoresAre DEF Values
<1>19. PlyOf(m) <= MaxPly
  BY <1>9, <1>11, <1>12, ScoresAre DEF Started
<1>20. t.depth <= root.depth /\ -PlyOf(t.node) <= t.depth
  BY <1>11 DEF Started
<1>21. /\ deep - red \in Int /\ -PlyOf(m) <= deep - red /\ deep - red <= root.depth
       /\ -PlyOf(m) <= deep /\ deep <= root.depth
  BY <1>9, <1>12, <1>13, <1>14, <1>20 DEF Reduces
<1>22. PICK g1 : g1 = [g0 EXCEPT !.red = red, !.at = "scout"]
  OBVIOUS
<1>23. PICK g2 : g2 = [g0 EXCEPT !.at = "full"]
  OBVIOUS
<1>24. ASSUME NEW h, h = Frame(m, deep - red, -a - 1, -a), Call(g1, h)
       PROVE  StackOK'
  <2>1. /\ g1 \in FrameSet /\ AsFar(g1, g0) /\ g1.todo = todo /\ g1.mv = m /\ g1.deep = deep
        /\ g1.trans = t.trans /\ g1.at = "scout" /\ g1.red = red
    BY <1>14, <1>15, <1>22 DEF FrameSet, AsFar, Waiting
  <2>2. /\ Shape(g1, root.depth) /\ (~stop => Possible(g1)) /\ (Exact' => Faithful(g1, ev))
        /\ Serves(g1, CallAt(1)) /\ g1.at \in Waiting
    BY <1>14, <1>16, <2>1
  <2>3. /\ h \in FrameSet /\ Shape(h, root.depth) /\ Possible(h) /\ (\A e : Faithful(h, e))
        /\ Serves(h, Asked(m, deep - red, -a - 1, -a)) /\ h.at = "enter"
    BY <1>12, <1>18, <1>19, <1>21, <1>24, CalledFrame
  <2>4. Serves(h, CallOf(g1))
    <3>1. g1.alpha = a
      BY <1>15, <1>17, <2>1 DEF AsFar
    <3> QED
      BY <2>1, <2>3, <3>1 DEF CallOf
  <2> QED
    BY <1>1, <1>5, <1>8, <1>24, <2>1, <2>2, <2>3, <2>4, Calls
<1>25. ASSUME NEW h, h = Frame(m, deep, -b, -a), Call(g2, h)
       PROVE  StackOK'
  <2>1. /\ g2 \in FrameSet /\ AsFar(g2, g0) /\ g2.todo = todo /\ g2.mv = m /\ g2.deep = deep
        /\ g2.trans = t.trans /\ g2.at = "full"
    BY <1>15, <1>23 DEF FrameSet, AsFar, Waiting
  <2>2. /\ Shape(g2, root.depth) /\ (~stop => Possible(g2)) /\ (Exact' => Faithful(g2, ev))
        /\ Serves(g2, CallAt(1)) /\ g2.at \in Waiting
    BY <1>16, <2>1
  <2>3. /\ h \in FrameSet /\ Shape(h, root.depth) /\ Possible(h) /\ (\A e : Faithful(h, e))
        /\ Serves(h, Asked(m, deep, -b, -a)) /\ h.at = "enter"
    BY <1>12, <1>13, <1>18, <1>19, <1>21, <1>25, CalledFrame
  <2>4. Serves(h, CallOf(g2))
    <3>1. g2.alpha = a /\ g2.beta = b
      BY <1>15, <1>17, <2>1 DEF AsFar
    <3> QED
      BY <2>1, <2>3, <3>1 DEF CallOf
  <2> QED
    BY <1>1, <1>5, <1>8, <1>25, <2>1, <2>2, <2>3, <2>4, Calls
<1>26. StackOK'
  BY <1>7, <1>15, <1>17, <1>22, <1>23, <1>24, <1>25, Zenon
<1>27. TableOK' /\ Dated
  BY <1>5, <1>8, Beside, TableKept DEF IInv
<1> QED
  BY <1>26, <1>27

\* The frame t after its move came back with sc.
TookFrame(t, sc) ==
  LET better == sc > t.bs
      raises == better /\ sc > t.alpha
  IN  [t EXCEPT !.searched = @ + 1, !.at = "loop",
                !.bs    = IF better THEN sc ELSE @,
                !.head  = IF better THEN t.mv ELSE @,
                !.bm    = IF raises THEN t.mv ELSE @,
                !.alpha = IF raises THEN sc ELSE @]

\* What a frame may take: the score of its move, as far as the window says.
Takes(t, e, sc) ==
  /\ sc > t.alpha => ScoreOf(e, t.node, t.mv, t.depth) >= sc
  /\ sc < t.beta => ScoreOf(e, t.node, t.mv, t.depth) <= sc

\* A frame that goes on to its next move.
LEMMA TookFrameIs ==
  ASSUME IInv, stack # <<>>, NEW t, t = f, t.at \in {"scout", "full"},
         NEW sc \in Values, ~stop => sc \in Reach(PlyOf(t.node)), Exact' => Exact /\ Takes(t, ev, sc),
         NEW g, g = TookFrame(t, sc)
  PROVE  /\ g.alpha \in Values /\ g.head \in OrNone(t.node) /\ t.mv \in Moves(t.node)
         /\ sc > t.bs /\ sc > t.alpha => g.head = t.mv
         /\ sc > t.bs /\ sc > t.alpha /\ Exact' => ValueOf(ev)[t.node][t.depth] >= sc /\ sc > t.oldAlpha
         /\ ~(sc > t.bs /\ sc > t.alpha /\ sc >= t.beta) =>
              /\ g \in FrameSet /\ Shape(g, root.depth) /\ (~stop => Possible(g)) /\ g.at = "loop"
              /\ (Exact' => Faithful(g, ev)) /\ Serves(g, CallAt(1))
<1>1. /\ t \in FrameSet /\ Serves(t, CallAt(1)) /\ t.node \in Node /\ t.depth \in Int
      /\ Shape(t, root.depth) /\ (Exact => Faithful(t, ev)) /\ ev \in Evals
  BY Running
<1>2. t.at \in Begun /\ t.at # "enter"
  BY DEF Begun
<1>3. Started(t, root.depth) /\ (~stop => Possible(t)) /\ (Exact => Settled(t, ev))
  BY <1>2, BegunFrame
<1>4. t.mv \in Moves(t.node) /\ t.mv \in Nat /\ t.mv \in OrNone(t.node)
  BY <1>1, GameIs DEF Shape, OrNone, FrameSet
<1>5. PICK a \in Int, b \in Int, o \in Int, s \in Int, v \in Int :
        a = t.alpha /\ b = t.beta /\ o = t.oldAlpha /\ s = t.bs /\ v = sc
  BY <1>1, ScoresAre DEF FrameSet, Values
<1>6. PICK na, nb, nh, nm :
        /\ nb = (IF v > s THEN v ELSE s) /\ nh = (IF v > s THEN t.mv ELSE t.head)
        /\ nm = (IF v > s /\ v > a THEN t.mv ELSE t.bm) /\ na = (IF v > s /\ v > a THEN v ELSE a)
  OBVIOUS
<1>7. PICK k \in Nat : k = t.searched + 1
  BY <1>1 DEF FrameSet
<1>8. g = [t EXCEPT !.searched = k, !.at = "loop", !.bs = nb, !.head = nh, !.bm = nm, !.alpha = na]
  BY <1>5, <1>6, <1>7, Zenon DEF TookFrame
<1>9. na \in Int /\ nb \in Int /\ nh \in Nat /\ nm \in Nat
  <2>1. t.head \in Nat /\ t.bm \in Nat
    BY <1>1 DEF FrameSet
  <2> QED
    BY <1>4, <1>5, <1>6, <2>1
<1>10. /\ g \in FrameSet /\ g.node = t.node /\ g.depth = t.depth /\ g.alpha = na /\ g.beta = b
       /\ g.oldAlpha = o /\ g.bs = nb /\ g.val = t.val /\ g.bm = nm /\ g.head = nh /\ g.trans = t.trans
       /\ g.mv = t.mv /\ g.todo = t.todo /\ g.hard = t.hard /\ g.at = "loop"
  <2>1. /\ g \in FrameSet /\ g.node = t.node /\ g.depth = t.depth /\ g.alpha = na /\ g.beta = t.beta
        /\ g.oldAlpha = t.oldAlpha /\ g.bs = nb /\ g.val = t.val /\ g.bm = nm /\ g.head = nh
        /\ g.trans = t.trans /\ g.mv = t.mv /\ g.todo = t.todo /\ g.hard = t.hard /\ g.at = "loop"
    <3>1. PICK x : x = [t EXCEPT !.searched = k, !.at = "loop", !.bs = nb]
      OBVIOUS
    <3>2. g = [x EXCEPT !.head = nh, !.bm = nm, !.alpha = na]
      BY <1>8, <3>1, Zenon
    <3>3. /\ x \in FrameSet /\ x.node = t.node /\ x.depth = t.depth /\ x.beta = t.beta
          /\ x.oldAlpha = t.oldAlpha /\ x.bs = nb /\ x.val = t.val /\ x.trans = t.trans
          /\ x.mv = t.mv /\ x.todo = t.todo /\ x.hard = t.hard /\ x.at = "loop"
      BY <1>1, <1>7, <1>9, <3>1, ZenonT(60) DEF FrameSet
    <3> QED
      BY <1>9, <3>2, <3>3, ZenonT(60) DEF FrameSet
  <2> QED
    BY <1>5, <2>1
<1>11. /\ a \in Values /\ b \in Values /\ o \in Values /\ s \in Values /\ v \in Values /\ a < b /\ s < b
       /\ t.head \in OrNone(t.node) /\ t.bm \in OrNone(t.node)
  BY <1>3, <1>5 DEF Started
<1>12. /\ na \in Values /\ nb \in Values /\ nh \in OrNone(t.node) /\ nm \in OrNone(t.node)
  BY <1>4, <1>6, <1>11
<1>13. ASSUME ~(v > s /\ v > a /\ v >= b)
       PROVE  Shape(g, root.depth) /\ (~stop => Possible(g))
  <2>1. na < b /\ nb < b
    BY <1>5, <1>6, <1>11, <1>13
  <2>2. g.at # "enter" /\ g.at # "null" /\ g.at # "iid" /\ g.at \notin {"scout", "full"} /\ g.at \in Begun
    BY <1>10 DEF Begun
  <2>3. Shape(g, root.depth)
    BY <1>1, <1>2, <1>5, <1>10, <1>12, <2>1, <2>2 DEF Shape
  <2>4. ~stop => Possible(g)
    BY <1>3, <1>5, <1>6, <1>10 DEF Possible
  <2> QED
    BY <2>3, <2>4
<1>14. Serves(g, CallAt(1))
  BY <1>1, <1>2, <1>5, <1>10 DEF Serves
<1>15. ASSUME Exact'
       PROVE  /\ v > s /\ v > a => ValueOf(ev)[t.node][t.depth] >= v /\ v > o
              /\ ~(v > s /\ v > a /\ v >= b) => Faithful(g, ev)
  <2>0. /\ t.alpha = Larger(t.oldAlpha, t.bs) /\ (t.hard <=> Quiet(t.node, t.depth))
        /\ Quiet(t.node, t.depth) => t.bs >= ev[t.node]
        /\ t.bs > t.oldAlpha => ValueOf(ev)[t.node][t.depth] >= t.bs
    BY <1>3, <1>15 DEF Settled
  <2>15. /\ sc > t.alpha => ScoreOf(ev, t.node, t.mv, t.depth) >= sc
         /\ sc < t.beta => ScoreOf(ev, t.node, t.mv, t.depth) <= sc
    BY <1>15 DEF Takes
  <2>1. PICK n, d, m, e : n = t.node /\ d = t.depth /\ m = t.mv /\ e = ev
    OBVIOUS
  <2>2. n \in Node /\ d \in Int /\ m \in Moves(n) /\ e \in Evals
    BY <1>1, <1>4, <2>1
  <2>3. /\ Settled(t, e) /\ Faithful(t, e) /\ Takes(t, e, v)
        /\ d >= 0 \/ ~InCheck(n)
        /\ t.trans \in Tried(n, d, FALSE) \cup {None} /\ t.todo \subseteq Tried(n, d, FALSE)
        /\ m \in Tried(n, d, FALSE)
        /\ \A i \in Tried(n, d, FALSE) : i \in t.todo \/ i = m \/ ScoreOf(e, n, i, d) <= s
    BY <1>1, <1>3, <1>5, <1>15, <1>2, <2>1 DEF Faithful
  <2>4. PICK val : val = ValueOf(e)[n][d]
    OBVIOUS
  <2>5. PlyOf(n) <= MaxPly /\ ~Position[n].drawn /\ PlyOf(n) < MaxPly
    <3>1. ~Position[n].drawn /\ PlyOf(n) < MaxPly
      BY <1>3, <2>1 DEF Started
    <3>2. PlyOf(n) \in Nat /\ MaxPly \in Nat
      BY <2>2, GameIs, ScoresAre
    <3> QED
      BY <3>1, <3>2
  <2>6. BestOf(e, n, d, val)
    <3>1. ValueIs(e, n, d, val)
      BY <2>2, <2>4, <2>5, ValueRight
    <3> QED
      BY <2>5, <3>1 DEF ValueIs
  <2>7. val \in Int
    BY <2>2, <2>4, <2>5, ValueInReach
  <2>8. ASSUME NEW i \in Tried(n, d, FALSE)
        PROVE  ScoreOf(e, n, i, d) \in Int
    <3>1. i \in Node /\ PlyOf(i) <= MaxPly
      <4>1. i \in Moves(n) /\ MaxPly \in Nat /\ PlyOf(n) \in Nat
        <5>1. MaxPly \in Nat
          BY ScoresAre
        <5> QED
          BY <2>2, <5>1, TriedAre, GameIs
      <4>2. i \in Node /\ PlyOf(i) = PlyOf(n) + 1
        BY <2>2, <4>1, GameIs
      <4> QED
        BY <2>5, <4>1, <4>2
    <3>2. Below(n, i, d) \in Int
      BY <2>2, ExtensionIs
    <3>3. ValueOf(e)[i][Below(n, i, d)] \in Int
      BY <2>2, <3>1, <3>2, ValueInReach
    <3> QED
      BY <3>3 DEF ScoreOf
  <2>9. PICK x \in Int : x = ScoreOf(e, n, m, d) /\ x <= val
    BY <2>3, <2>6, <2>7, <2>8 DEF BestOf
  <2>10. (v > a => x >= v) /\ (v < b => x <= v)
    BY <1>5, <2>1, <2>9, <2>15
  <2>11. a = Larger(o, s)
    BY <1>5, <2>0
  <2>12. v > s /\ v > a => val >= v /\ v > o
    BY <1>5, <2>7, <2>9, <2>10, <2>11 DEF Larger
  <2>13. ASSUME ~(v > s /\ v > a /\ v >= b)
         PROVE  Faithful(g, e)
    <3>1. na = Larger(o, nb)
      BY <1>5, <1>6, <2>11 DEF Larger
    <3>2. nb >= s /\ nb >= v /\ x <= nb
      BY <1>5, <1>6, <1>11, <2>9, <2>10, <2>13
    <3>3. nb > o => val >= nb
      <4>1. s > o => val >= s
        BY <1>5, <2>1, <2>4, <2>0
      <4> QED
        BY <1>5, <1>6, <2>7, <2>11, <2>12, <4>1 DEF Larger
    <3>4. Settled(g, e)
      <4>1. Quiet(n, d) => nb >= e[n]
        <5>1. Quiet(n, d) => s >= e[n]
          BY <1>5, <2>1, <2>0
        <5>2. e[n] \in Int
          BY <2>2, EvalsAssumption, ScoresAre DEF EvalsAssumption
        <5> QED
          BY <1>5, <1>9, <3>2, <5>1, <5>2
      <4>2. t.hard <=> Quiet(n, d)
        BY <2>1, <2>0
      <4>3. Tried(n, d, FALSE) # {}
        BY <2>3
      <4> QED
        BY <1>10, <2>1, <2>4, <3>1, <3>3, <4>1, <4>2, <4>3 DEF Settled
    <3>5. \A i \in Tried(n, d, FALSE) : i \in t.todo \/ ScoreOf(e, n, i, d) <= nb
      <4>1. ASSUME NEW i \in Tried(n, d, FALSE), i \notin t.todo
            PROVE  ScoreOf(e, n, i, d) <= nb
        <5>1. PICK y \in Int : y = ScoreOf(e, n, i, d)
          BY <2>8
        <5>2. y = x \/ y <= s
          BY <2>3, <2>9, <4>1, <5>1
        <5> QED
          BY <1>5, <1>9, <2>9, <3>2, <5>1, <5>2
      <4> QED
        BY <4>1
    <3> QED
      BY <1>10, <2>1, <2>3, <3>4, <3>5 DEF Faithful
  <2> QED
    BY <2>1, <2>4, <2>12, <2>13
<1> QED
  BY <1>4, <1>5, <1>6, <1>10, <1>12, <1>13, <1>14, <1>15

\* A score that comes back keeps the invariant.
LEMMA TookKeeps ==
  ASSUME IInv, stack # <<>>, f.at \in {"scout", "full"}, Keep, plain' => plain,
         NEW sc \in Values, ~stop => sc \in Reach(PlyOf(f.node)), Exact' => Takes(f, ev, sc),
         Took(sc)
  PROVE  StackOK' /\ TableOK' /\ Dated
<1>1. PICK t : t = f
  OBVIOUS
<1>2. PICK g : g = TookFrame(t, sc)
  OBVIOUS
<1>3. /\ IF sc > t.bs /\ sc > t.alpha THEN Store(t, t.mv, sc, Lower) ELSE UNCHANGED table
      /\ IF sc > t.bs /\ sc > t.alpha /\ FailsHigh(sc, t.beta) THEN Return(sc, g.head)
         ELSE IF stop THEN Return(g.alpha, g.head) ELSE Goto(g)
  BY <1>1, <1>2, Zenon DEF Took, TookFrame
<1>4. /\ t.at \in {"scout", "full"} /\ (~stop => sc \in Reach(PlyOf(t.node)))
      /\ (Exact' => Exact /\ Takes(t, ev, sc))
  BY <1>1, Beside
<1>5. /\ t.node \in Node /\ t.depth \in Int /\ t.depth <= 99 /\ PlyOf(t.node) <= MaxPly
      /\ (Exact => Faithful(t, ev)) /\ Serves(t, CallAt(1)) /\ t.beta \in Int /\ ev \in Evals
      /\ t.alpha \in Int /\ t.bs \in Int
  BY <1>1, Running, SMTT(60) DEF FrameSet
<1>6. /\ g.alpha \in Values /\ g.head \in OrNone(t.node) /\ t.mv \in Moves(t.node)
      /\ sc > t.bs /\ sc > t.alpha => g.head = t.mv
      /\ sc > t.bs /\ sc > t.alpha /\ Exact' => ValueOf(ev)[t.node][t.depth] >= sc /\ sc > t.oldAlpha
      /\ ~(sc > t.bs /\ sc > t.alpha /\ sc >= t.beta) =>
           /\ g \in FrameSet /\ Shape(g, root.depth) /\ (~stop => Possible(g)) /\ g.at = "loop"
           /\ (Exact' => Faithful(g, ev)) /\ Serves(g, CallAt(1))
  BY <1>1, <1>2, <1>4, TookFrameIs
<1>7. t.mv \in OrNone(t.node) /\ Onward /\ stop' = stop /\ ev' = ev
  BY <1>6, Beside DEF OrNone
<1>8. TableOK' /\ Dated
  <2>1. CASE sc > t.bs /\ sc > t.alpha
    <3>1. Store(t, t.mv, sc, Lower)
      BY <1>3, <2>1
    <3>2. Lower \in {0} \cup TT!Types /\ TT!HasLower(Lower) /\ ~TT!HasUpper(Lower)
      BY DEF Lower, Upper, TT!Lower, TT!Upper, TT!Types, TT!HasLower, TT!HasUpper
    <3>3. ASSUME Exact'
          PROVE  /\ t.depth >= 0 \/ ~InCheck(t.node)
                 /\ ValueOf(ev)[t.node][t.depth] >= sc
      BY <1>4, <1>5, <1>6, <2>1, <3>3 DEF Faithful
    <3>4. ~stop' => sc \in Reach(PlyOf(t.node))
      BY <1>4, <1>7
    <3>5. Exact' => /\ t.depth >= 0 \/ ~InCheck(t.node)
                    /\ TT!HasLower(Lower) => ValueOf(ev)'[t.node][t.depth] >= sc
                    /\ TT!HasUpper(Lower) => ValueOf(ev)'[t.node][t.depth] <= sc
      BY <1>7, <3>2, <3>3
    <3> QED
      BY <1>5, <1>7, <3>1, <3>2, <3>4, <3>5, NodeStores DEF IInv
  <2>2. CASE ~(sc > t.bs /\ sc > t.alpha)
    BY <1>3, <1>7, <2>2, TableKept DEF IInv
  <2> QED
    BY <2>1, <2>2
<1>9. CASE sc > t.bs /\ sc > t.alpha /\ sc >= t.beta
  <2>1. Return(sc, g.head)
    BY <1>3, <1>9 DEF FailsHigh
  <2>2. ASSUME Exact'
        PROVE  Bounds(CallAt(1), ev, sc)
    <3>1. PICK c : c = CallAt(1)
      OBVIOUS
    <3>2. /\ c.node = t.node /\ c.depth = t.depth /\ t.oldAlpha = c.alpha
          /\ t.beta = Smaller(c.beta, Top(t.node))
      BY <1>4, <1>5, <3>1 DEF Serves
    <3>3. PICK val \in Int : val = ValueOf(ev)[t.node][t.depth] /\ val >= sc /\ val <= Top(t.node)
      <4>1. ValueOf(ev)[t.node][t.depth] \in Int /\ ValueOf(ev)[t.node][t.depth] <= Top(t.node)
        BY <1>5, ValueInReach
      <4> QED
        BY <1>6, <1>9, <2>2, <4>1
    <3>4. sc \in Int /\ Top(t.node) \in Int
      BY <1>5, ScoresAre, InReach DEF Values
    <3>5. sc < c.beta => sc >= Top(t.node)
      BY <1>5, <1>9, <3>2, <3>4 DEF Smaller
    <3>6. sc >= Top(t.node) => val <= sc
      BY <3>3, <3>4
    <3> QED
      BY <3>1, <3>2, <3>3, <3>5, <3>6 DEF Bounds
  <2>3. StackOK'
    BY <1>1, <1>4, <1>6, <2>1, <2>2, Answers
  <2> QED
    BY <1>8, <2>3
<1>10. CASE ~(sc > t.bs /\ sc > t.alpha /\ sc >= t.beta)
  <2>1. /\ g \in FrameSet /\ Shape(g, root.depth) /\ (~stop => Possible(g)) /\ g.at = "loop"
        /\ (Exact' => Faithful(g, ev)) /\ Serves(g, CallAt(1))
    BY <1>6, <1>10
  <2>2. CASE stop
    <3>1. Return(g.alpha, g.head)
      BY <1>3, <1>10, <2>2 DEF FailsHigh
    <3>2. ~Exact'
      BY <1>7, <2>2 DEF Exact
    <3>3. StackOK'
      BY <1>1, <1>6, <2>2, <3>1, <3>2, Answers
    <3> QED
      BY <1>8, <3>3
  <2>3. CASE ~stop
    <3>1. Goto(g)
      BY <1>3, <1>10, <2>3 DEF FailsHigh
    <3>2. g.at \notin Waiting
      BY <2>1 DEF Waiting
    <3>3. StackOK'
      BY <1>1, <2>1, <3>1, <3>2, Goes
    <3> QED
      BY <1>8, <3>3
  <2> QED
    BY <2>2, <2>3
<1> QED
  BY <1>9, <1>10

\* What the call of a move brings back.
LEMMA MoveAnswered ==
  ASSUME IInv, stack # <<>>, NEW t, t = f, t.at \in {"scout", "full"}, ret # <<>>, NEW sc, sc = -ret[1]
  PROVE  /\ sc \in Values /\ (~stop => sc \in Reach(PlyOf(t.node)))
         /\ Exact /\ t.at = "full" => Takes(t, ev, sc)
         /\ Exact /\ t.at = "scout" /\ t.red = 0 /\ ~(sc > t.alpha) => Takes(t, ev, sc)
<1>1. /\ t \in FrameSet /\ t.node \in Node /\ t.depth \in Int /\ Shape(t, root.depth)
      /\ (Exact => Faithful(t, ev)) /\ ev \in Evals
  BY Running
<1>2. t.mv \in Moves(t.node) /\ PlyOf(t.node) < MaxPly
  BY <1>1 DEF Shape
<1>3. PICK m : m = t.mv
  OBVIOUS
<1>4. m \in Node /\ PlyOf(m) = PlyOf(t.node) + 1 /\ PlyOf(m) <= MaxPly
  <2>1. MaxPly \in Nat /\ PlyOf(t.node) \in Nat
    BY <1>1, GameIs, ScoresAre
  <2>2. m \in Node /\ PlyOf(m) = PlyOf(t.node) + 1
    BY <1>1, <1>2, <1>3, GameIs
  <2> QED
    BY <1>2, <2>1, <2>2
<1>5. AnswerOK(CallOf(t), ret[1], ret[2])
  BY TopFrame DEF IInv
<1>6. PICK c : c = CallOf(t)
  OBVIOUS
<1>7. /\ c.node = m
      /\ t.at = "scout" => c.depth = t.deep - t.red /\ c.alpha = -t.alpha - 1 /\ c.beta = -t.alpha
      /\ t.at = "full" => c.depth = t.deep /\ c.alpha = -t.beta /\ c.beta = -t.alpha
  BY <1>3, <1>6 DEF CallOf, Asked
<1>8. PICK r \in Values : r = ret[1] /\ sc = -r /\ r \in Int
  BY <1>5, ScoresAre DEF AnswerOK, Values
<1>9. ~stop => r \in Reach(PlyOf(m))
  BY <1>5, <1>6, <1>7, <1>8 DEF AnswerOK
<1>10. sc \in Values /\ (~stop => sc \in Reach(PlyOf(t.node)))
  BY <1>1, <1>4, <1>8, <1>9, SeenFromAbove
<1>11. ASSUME Exact, t.at = "full" \/ (t.at = "scout" /\ t.red = 0 /\ ~(sc > t.alpha))
       PROVE  Takes(t, ev, sc)
  <2>1. Faithful(t, ev) /\ t.deep = Below(t.node, m, t.depth)
    BY <1>1, <1>3, <1>11 DEF Faithful
  <2>2. t.deep \in Int /\ t.alpha \in Int /\ t.beta \in Int /\ t.red \in Int /\ t.alpha < t.beta
    BY <1>1 DEF FrameSet, Shape
  <2>3. c.depth = t.deep
    BY <1>7, <1>11, <2>2
  <2>4. PICK v \in Int : v = ValueOf(ev)[m][t.deep]
    BY <1>1, <1>4, <2>2, ValueInReach
  <2>5. ScoreOf(ev, t.node, t.mv, t.depth) = -v
    BY <1>3, <2>1, <2>4 DEF ScoreOf
  <2>6. /\ r > c.alpha => v >= r
        /\ r < c.beta => v <= r
    BY <1>5, <1>6, <1>7, <1>8, <1>11, <2>3, <2>4 DEF AnswerOK, Bounds
  <2>7. CASE t.at = "full"
    <3>1. sc > t.alpha => -v >= sc
      BY <1>7, <1>8, <2>2, <2>4, <2>6, <2>7
    <3>2. sc < t.beta => -v <= sc
      BY <1>7, <1>8, <2>2, <2>4, <2>6, <2>7
    <3> QED
      BY <2>5, <3>1, <3>2 DEF Takes
  <2>8. CASE t.at = "scout" /\ ~(sc > t.alpha)
    <3>1. -v <= sc
      BY <1>7, <1>8, <2>2, <2>4, <2>6, <2>8
    <3> QED
      BY <2>5, <2>8, <3>1 DEF Takes
  <2> QED
    BY <1>11, <2>7, <2>8
<1> QED
  BY <1>10, <1>11

\* A move's score is back: it is taken.
LEMMA FullBackKeeps ==
  ASSUME IInv, FullBack
  PROVE  StackOK' /\ TableOK' /\ Dated
<1>1. PICK sc : sc = -ret[1]
  OBVIOUS
<1>2. stack # <<>> /\ f.at = "full" /\ ret # <<>> /\ Took(sc) /\ Keep /\ (plain' => plain)
  BY <1>1 DEF FullBack, At, StaysPlain
<1>3. /\ sc \in Values /\ (~stop => sc \in Reach(PlyOf(f.node)))
      /\ (Exact => Takes(f, ev, sc))
  BY <1>1, <1>2, MoveAnswered
<1>4. Exact' => Takes(f, ev, sc)
  BY <1>2, <1>3, Beside
<1> QED
  BY <1>2, <1>3, <1>4, TookKeeps

\* A scout's score is back: it is taken, or the move is searched again.
LEMMA ScoutBackKeeps ==
  ASSUME IInv, ScoutBack
  PROVE  StackOK' /\ TableOK' /\ Dated
<1>1. PICK t : t = f
  OBVIOUS
<1>2. PICK sc : sc = -ret[1]
  OBVIOUS
<1>3. PICK g : g = [t EXCEPT !.at = "full"]
  OBVIOUS
<1>4. PICK h : h = Frame(t.mv, t.deep, -t.beta, -t.alpha)
  OBVIOUS
<1>5. /\ stack # <<>> /\ t.at = "scout" /\ ret # <<>> /\ Keep
      /\ IF SearchAgain(sc) THEN Call(g, h) /\ StaysPlain /\ UNCHANGED table
         ELSE Took(sc) /\ Departs(t.red # 0)
  BY <1>1, <1>2, <1>3, <1>4, Zenon DEF ScoutBack, At
<1>6. /\ sc \in Values /\ (~stop => sc \in Reach(PlyOf(t.node)))
      /\ Exact /\ t.red = 0 /\ ~(sc > t.alpha) => Takes(t, ev, sc)
  BY <1>1, <1>2, <1>5, MoveAnswered
<1>7. CASE SearchAgain(sc)
  <2>1. Call(g, h) /\ (plain' => plain) /\ UNCHANGED table
    BY <1>5, <1>7 DEF StaysPlain
  <2>2. /\ t \in FrameSet /\ t.node \in Node /\ t.depth \in Int /\ Shape(t, root.depth)
        /\ (~stop => Possible(t)) /\ (Exact => Faithful(t, ev)) /\ Serves(t, CallAt(1))
        /\ root.depth \in Int /\ PlyOf(t.node) \in Nat
    BY <1>1, <1>5, Running
  <2>3. t.at \in Begun
    BY <1>5 DEF Begun
  <2>4. Started(t, root.depth) /\ (Exact => Settled(t, ev))
    BY <1>1, <1>5, <2>3, BegunFrame
  <2>5. /\ g \in FrameSet /\ AsFar(g, t) /\ g.todo = t.todo /\ g.mv = t.mv /\ g.deep = t.deep
        /\ g.trans = t.trans /\ g.at = "full" /\ g.alpha = t.alpha /\ g.beta = t.beta
    BY <1>3, <2>2 DEF FrameSet, AsFar, Waiting
  <2>6. t.mv \in Moves(t.node) /\ t.deep \in (t.depth - 1)..t.depth
    BY <1>5, <2>2 DEF Shape
  <2>7. Shape(g, root.depth) /\ (~stop => Possible(g)) /\ (Exact => Settled(g, ev))
    <3>1. g.trans \in OrNone(t.node) /\ g.mv \in OrNone(t.node) /\ g.todo \subseteq Moves(t.node)
      BY <2>4, <2>5 DEF Started
    <3>2. g.at \in Begun /\ g.at # "iid"
      BY <2>5 DEF Begun
    <3> QED
      BY <2>2, <2>4, <2>5, <2>6, <3>1, <3>2, StartedShape
  <2>8. Exact => Faithful(g, ev)
    BY <1>5, <2>2, <2>5, <2>7 DEF Faithful, AsFar, Begun
  <2>9. Serves(g, CallAt(1)) /\ g.at \in Waiting
    BY <1>5, <2>2, <2>5 DEF Serves, AsFar, Waiting
  <2>10. t.mv \in Node /\ PlyOf(t.mv) = PlyOf(t.node) + 1
    BY <2>2, <2>6, GameIs
  <2>11. PlyOf(t.mv) <= MaxPly /\ -PlyOf(t.mv) <= t.deep /\ t.deep <= root.depth
    <3>1. MaxPly \in Nat
      BY ScoresAre
    <3>2. PlyOf(t.node) < MaxPly /\ -PlyOf(t.node) <= t.depth /\ t.depth <= root.depth
      BY <2>4 DEF Started
    <3> QED
      BY <2>2, <2>6, <2>10, <3>1, <3>2
  <2>12. -t.beta \in Values /\ -t.alpha \in Values /\ -t.beta < -t.alpha
    <3>1. t.alpha \in Values /\ t.beta \in Values /\ t.alpha < t.beta
      BY <2>4 DEF Started
    <3> QED
      BY <3>1, ScoresAre DEF Values
  <2>13. t.deep \in Int
    BY <2>2 DEF FrameSet
  <2>14. /\ h \in FrameSet /\ Shape(h, root.depth) /\ Possible(h) /\ (\A e : Faithful(h, e))
         /\ Serves(h, Asked(t.mv, t.deep, -t.beta, -t.alpha)) /\ h.at = "enter"
    BY <1>4, <2>10, <2>11, <2>12, <2>13, CalledFrame
  <2>15. Serves(h, CallOf(g))
    BY <2>5, <2>14 DEF CallOf
  <2>16. StackOK'
    BY <1>1, <1>5, <2>1, <2>5, <2>7, <2>8, <2>9, <2>14, <2>15, Beside, Calls
  <2>17. TableOK' /\ Dated
    BY <1>5, <2>1, Beside, TableKept DEF IInv
  <2> QED
    BY <2>16, <2>17
<1>8. CASE ~SearchAgain(sc)
  <2>1. Took(sc) /\ Departs(t.red # 0)
    BY <1>5, <1>8
  <2>2. plain' => plain
    BY <2>1 DEF Departs
  <2>3. Exact' => Exact /\ t.red = 0
    BY <1>5, <2>1, <2>2, Beside DEF Departs, Exact
  <2>4. Exact => ~(sc > t.alpha)
    BY <1>1, <1>8 DEF SearchAgain, Exact
  <2>5. Exact' => Takes(f, ev, sc)
    BY <1>1, <1>6, <2>3, <2>4
  <2>6. f.at \in {"scout", "full"} /\ (~stop => sc \in Reach(PlyOf(f.node)))
    BY <1>1, <1>5, <1>6
  <2> QED
    BY <1>5, <1>6, <2>1, <2>2, <2>5, <2>6, TookKeeps
<1> QED
  BY <1>7, <1>8

\* A frame that has no move left: the best of its moves and, in quiescence, its
\* evaluation are known.
LEMMA AllMovesTaken ==
  ASSUME IInv, stack # <<>>, NEW t, t = f, t.at = "loop", t.todo = {}, Exact,
         NEW val, val = ValueOf(ev)[t.node][t.depth]
  PROVE  /\ t.depth >= 0 \/ ~InCheck(t.node)
         /\ t.bs > t.oldAlpha => val >= t.bs
         /\ t.bs # NoScore => val <= t.bs
         /\ t.bs = NoScore =>
              val = IF InCheck(t.node) THEN PlyOf(t.node) - Mate ELSE DrawScore(PlyOf(t.node))
<1>1. /\ t \in FrameSet /\ t.node \in Node /\ t.depth \in Int /\ ev \in Evals
      /\ Faithful(t, ev) /\ t.bs \in Int /\ ev[t.node] \in -EvalMax..EvalMax
  BY Running, SMTT(60) DEF FrameSet
<1>2. t.at \in Begun /\ t.at # "enter"
  BY DEF Begun
<1>3. ~Position[t.node].drawn /\ PlyOf(t.node) < MaxPly
  BY <1>2, BegunFrame DEF Started
<1>4. PICK n \in Node, d \in Int, s \in Int : n = t.node /\ d = t.depth /\ s = t.bs
  BY <1>1
<1>5. /\ n \in Node /\ d \in Int /\ PlyOf(n) \in Nat /\ PlyOf(n) < MaxPly /\ MaxPly \in Nat
  <2>1. PlyOf(n) < MaxPly /\ MaxPly \in Nat
    BY <1>3, <1>4, ScoresAre
  <2> QED
    BY <1>4, <2>1, GameIs
<1>6. BestOf(ev, n, d, val) /\ val \in Int
  <2>1. ValueIs(ev, n, d, val) /\ val \in Int
    BY <1>1, <1>4, <1>5, ValueRight, ValueInReach
  <2> QED
    BY <1>3, <1>4, <1>5, <2>1 DEF ValueIs
<1>7. /\ t.depth >= 0 \/ ~InCheck(t.node)
      /\ \A m \in Tried(n, d, FALSE) : ScoreOf(ev, n, m, d) <= s
  BY <1>1, <1>2, <1>4 DEF Faithful
<1>8. /\ Quiet(n, d) => s >= ev[n]
      /\ s > t.oldAlpha => val >= s
      /\ s # NoScore => Tried(n, d, FALSE) # {} \/ Quiet(n, d)
  BY <1>1, <1>2, <1>4 DEF Faithful, Settled
<1>9. ASSUME NEW m \in Tried(n, d, FALSE)
      PROVE  ScoreOf(ev, n, m, d) \in Int /\ ScoreOf(ev, n, m, d) > NoScore
  <2>1. m \in Moves(n)
    BY <1>5, TriedAre
  <2>2. m \in Node /\ PlyOf(m) = PlyOf(n) + 1 /\ PlyOf(m) <= MaxPly
    BY <1>5, <2>1, GameIs
  <2>3. Below(n, m, d) \in Int
    BY <1>5, ExtensionIs
  <2>4. PICK v : v = ValueOf(ev)[m][Below(n, m, d)]
    OBVIOUS
  <2>5. v \in Reach(PlyOf(m)) /\ v \in Values /\ v \in Int
    BY <1>1, <2>2, <2>3, <2>4, ValueRight, ValueInReach, InReach
  <2>6. -v > NoScore
    BY <1>5, <2>2, <2>5, SeenFromAbove
  <2> QED
    BY <2>4, <2>5, <2>6 DEF ScoreOf
<1>10. ASSUME s # NoScore
       PROVE  val <= s
  <2>1. CASE \E m \in Tried(n, d, FALSE) : val = ScoreOf(ev, n, m, d)
    BY <1>7, <2>1
  <2>2. CASE Quiet(n, d) /\ val = ev[n]
    BY <1>4, <1>6, <1>8, <2>2
  <2> QED
    BY <1>6, <1>8, <1>10, <2>1, <2>2 DEF BestOf
<1>11. ASSUME s = NoScore
       PROVE  val = IF InCheck(n) THEN PlyOf(n) - Mate ELSE DrawScore(PlyOf(n))
  <2>1. Tried(n, d, FALSE) = {}
    <3> SUFFICES ASSUME NEW m \in Tried(n, d, FALSE)
                 PROVE  FALSE
      OBVIOUS
    <3>1. PICK x \in Int : x = ScoreOf(ev, n, m, d) /\ x > NoScore
      BY <1>9
    <3>2. x <= s
      BY <1>7, <3>1
    <3> QED
      BY <1>11, <3>1, <3>2
  <2>2. ~Quiet(n, d)
    <3>1. ev[n] \in Int /\ ev[n] > NoScore
      BY <1>1, <1>4, ScoresAre
    <3> QED
      BY <1>8, <1>11, <3>1
  <2> QED
    BY <1>6, <2>1, <2>2 DEF BestOf
<1> QED
  BY <1>4, <1>7, <1>8, <1>10, <1>11

\* No move was there to try: mate, stalemate, or a score of its own.
LEMMA NoMovesKeeps ==
  ASSUME IInv, NoMoves
  PROVE  StackOK' /\ TableOK' /\ Dated
<1>1. PICK t : t = f
  OBVIOUS
<1>2. PICK sc : sc = IF InCheck(t.node) THEN -Mate + Ply(t) ELSE DrawScore(Ply(t))
  OBVIOUS
<1>3. /\ stack # <<>> /\ t.at = "loop" /\ t.todo = {} /\ t.bs = NoScore /\ Return(sc, None)
      /\ Keep /\ (plain' => plain) /\ UNCHANGED table
  BY <1>1, <1>2 DEF NoMoves, At, StaysPlain
<1>4. /\ t.node \in Node /\ t.depth \in Int /\ PlyOf(t.node) \in Nat /\ PlyOf(t.node) <= MaxPly
      /\ Serves(t, CallAt(1)) /\ ev \in Evals
  BY <1>1, <1>3, Running
<1>5. None \in OrNone(t.node)
  BY DEF OrNone
<1>6. sc = IF InCheck(t.node) THEN PlyOf(t.node) - Mate ELSE DrawScore(PlyOf(t.node))
  <2>1. -Mate + PlyOf(t.node) = PlyOf(t.node) - Mate
    BY <1>4, ScoresAre
  <2> QED
    BY <1>2, <2>1 DEF Ply, PlyOf
<1>7. sc \in Values /\ sc \in Reach(PlyOf(t.node))
  BY <1>4, <1>6, InReach, ScoresAre
<1>8. ASSUME Exact'
      PROVE  Bounds(CallAt(1), ev, sc)
  <2>1. Exact
    BY <1>3, <1>8, Beside
  <2>2. sc = ValueOf(ev)[t.node][t.depth]
    BY <1>1, <1>3, <1>6, <2>1, AllMovesTaken
  <2>3. PICK c : c = CallAt(1)
    OBVIOUS
  <2>4. c.node = t.node /\ c.depth = t.depth
    BY <1>4, <2>3 DEF Serves
  <2> QED
    BY <1>4, <2>2, <2>3, <2>4, ExactAnswers
<1>9. StackOK'
  BY <1>1, <1>3, <1>5, <1>7, <1>8, Answers
<1>10. TableOK' /\ Dated
  BY <1>3, Beside, TableKept DEF IInv
<1> QED
  BY <1>9, <1>10

\* What scoreType says.
LEMMA ScoreTypeIs ==
  ASSUME NEW sc \in Int, NEW a \in Int, NEW b \in Int, NEW ty, ty = scoreType(sc, a, b)
  PROVE  /\ ty \in {0} \cup TT!Types /\ ty \in Nat
         /\ TT!HasLower(ty) <=> sc > a
         /\ TT!HasUpper(ty) <=> sc < b
  BY DEF scoreType, Lower, Upper, TT!Lower, TT!Upper, TT!Types, TT!HasLower, TT!HasUpper

\* All moves are searched: what is known is stored and returned.
LEMMA FinishKeeps ==
  ASSUME IInv, Finish
  PROVE  StackOK' /\ TableOK' /\ Dated
<1>1. PICK t : t = f
  OBVIOUS
<1>2. PICK ty : ty = scoreType(t.bs, t.oldAlpha, t.beta)
  OBVIOUS
<1>3. /\ stack # <<>> /\ t.at = "loop" /\ t.todo = {} /\ t.bs # NoScore
      /\ Store(t, t.bm, t.bs, ty) /\ Return(t.bs, t.head) /\ Keep /\ (plain' => plain)
  BY <1>1, <1>2 DEF Finish, At, StaysPlain
<1>4. /\ t \in FrameSet /\ t.node \in Node /\ t.depth \in Int /\ t.depth <= 99
      /\ PlyOf(t.node) <= MaxPly /\ Serves(t, CallAt(1)) /\ ev \in Evals
  BY <1>1, <1>3, Running
<1>5. t.at \in Begun
  BY <1>3 DEF Begun
<1>6. Started(t, root.depth) /\ (~stop => Possible(t))
  BY <1>1, <1>3, <1>5, BegunFrame
<1>7. /\ t.bs \in Values /\ t.bm \in OrNone(t.node) /\ t.head \in OrNone(t.node)
      /\ ~stop => t.bs \in Reach(PlyOf(t.node))
  BY <1>3, <1>6 DEF Started, Possible
<1>8. t.bs \in Int /\ t.oldAlpha \in Int /\ t.beta \in Int
  BY <1>4 DEF FrameSet
<1>9. /\ ty \in {0} \cup TT!Types
      /\ TT!HasLower(ty) <=> t.bs > t.oldAlpha
  BY <1>2, <1>8, ScoreTypeIs
<1>10. Exact' => /\ t.depth >= 0 \/ ~InCheck(t.node)
                 /\ t.bs > t.oldAlpha => ValueOf(ev)[t.node][t.depth] >= t.bs
                 /\ ValueOf(ev)[t.node][t.depth] <= t.bs
  BY <1>1, <1>3, Beside, AllMovesTaken
<1>11. Onward /\ ev' = ev /\ stop' = stop
  BY <1>3, Beside
<1>12. Exact' => Bounds(CallAt(1), ev, t.bs)
  <2>1. PICK c : c = CallAt(1)
    OBVIOUS
  <2>2. c.node = t.node /\ c.depth = t.depth /\ t.oldAlpha = c.alpha
    BY <1>4, <2>1 DEF Serves
  <2> QED
    BY <1>10, <2>1, <2>2 DEF Bounds
<1>13. StackOK'
  BY <1>1, <1>3, <1>7, <1>12, Answers
<1>14. TableOK' /\ Dated
  <2>1. ~stop' => t.bs \in Reach(PlyOf(t.node))
    BY <1>7, <1>11
  <2>2. Exact' => /\ t.depth >= 0 \/ ~InCheck(t.node)
                  /\ TT!HasLower(ty) => ValueOf(ev)'[t.node][t.depth] >= t.bs
                  /\ TT!HasUpper(ty) => ValueOf(ev)'[t.node][t.depth] <= t.bs
    BY <1>9, <1>10, <1>11
  <2> QED
    BY <1>3, <1>4, <1>7, <1>9, <1>11, <2>1, <2>2, NodeStores DEF IInv
<1> QED
  BY <1>13, <1>14

-----------------------------------------------------------------------------
(* The root.                                                               *)

\* The steps of a call.
FrameStep ==
  \/ MateDistance \/ DrawnNode \/ TransCut \/ Horizon \/ Descend
  \/ BetaPruning \/ NullStatic \/ NullDynamic \/ NullBack \/ NoNull
  \/ StandPat \/ Open \/ IidBack
  \/ Skip \/ NextMove \/ ScoutBack \/ FullBack \/ NoMoves \/ Finish

\* What every step inside a call leaves alone.
LEMMA FrameStepIs ==
  ASSUME FrameStep
  PROVE  stack # <<>> /\ Keep /\ (plain' => plain) /\ (plain \in BOOLEAN => plain' \in BOOLEAN)
<1>1. CASE MateDistance \/ DrawnNode \/ Horizon \/ NullDynamic \/ NoNull \/ StandPat \/ IidBack
           \/ FullBack \/ NoMoves \/ Finish
  BY <1>1 DEF MateDistance, DrawnNode, Horizon, NullDynamic, NoNull, StandPat, IidBack, FullBack,
              NoMoves, Finish, At, StaysPlain
<1>2. CASE TransCut \/ Descend \/ BetaPruning \/ Open \/ Skip
  <2>1. stack # <<>> /\ Keep /\ \E b : Departs(b)
    BY <1>2, Zenon DEF TransCut, Descend, BetaPruning, Open, Skip, At
  <2>2. PICK b : Departs(b)
    BY <2>1
  <2>3. (plain' => plain) /\ (plain \in BOOLEAN => plain' \in BOOLEAN)
    BY <2>2 DEF Departs
  <2> QED
    BY <2>1, <2>3
<1>7. ASSUME NEW sc, NullScore(sc)
      PROVE  (plain' => plain) /\ (plain \in BOOLEAN => plain' \in BOOLEAN)
  <2>1. Departs(TRUE) \/ StaysPlain
    BY <1>7, Zenon DEF NullScore
  <2>2. ASSUME NEW b, Departs(b)
        PROVE  (plain' => plain) /\ (plain \in BOOLEAN => plain' \in BOOLEAN)
    BY <2>2 DEF Departs
  <2>3. CASE StaysPlain
    BY <2>3 DEF StaysPlain
  <2> QED
    BY <2>1, <2>2, <2>3
<1>3. CASE NullStatic
  <2>1. PICK sc : NullScore(sc) /\ stack # <<>> /\ Keep
    BY <1>3 DEF NullStatic, At
  <2> QED
    BY <2>1, <1>7
<1>4. CASE NullBack
  <2>1. PICK sc : NullScore(sc) /\ stack # <<>> /\ Keep
    BY <1>4 DEF NullBack, At
  <2> QED
    BY <2>1, <1>7
<1>5. CASE NextMove
  <2>1. stack # <<>> /\ Keep /\ \E b : Departs(b)
    BY <1>5, Zenon DEF NextMove, At
  <2>2. PICK b : Departs(b)
    BY <2>1
  <2>3. (plain' => plain) /\ (plain \in BOOLEAN => plain' \in BOOLEAN)
    BY <2>2 DEF Departs
  <2> QED
    BY <2>1, <2>3
<1>6. CASE ScoutBack
  BY <1>6 DEF ScoutBack, At, Departs, StaysPlain
<1> QED
  BY <1>1, <1>2, <1>3, <1>4, <1>5, <1>6 DEF FrameStep

\* Every step inside a call keeps stack and table right.
LEMMA FrameStepKeeps ==
  ASSUME IInv, FrameStep
  PROVE  StackOK' /\ TableOK' /\ Dated
  BY MateDistanceKeeps, DrawnNodeKeeps, TransCutKeeps, HorizonKeeps, DescendKeeps, BetaPruningKeeps,
     NullStaticKeeps, NullDynamicKeeps, NullBackKeeps, NoNullKeeps, StandPatKeeps, OpenKeeps,
     IidBackKeeps, SkipKeeps, NextMoveKeeps, ScoutBackKeeps, FullBackKeeps, NoMovesKeeps, FinishKeeps
  DEF FrameStep

\* The announcement's worth does not change as long as nothing is completed.
LEMMA CompletedKept ==
  ASSUME CompletedOK, UNCHANGED <<Root, ev, completed>>, plain' => plain
  PROVE  CompletedOK'
  BY DEF CompletedOK

\* A step of a call leaves the root as it was.
LEMMA RootKept ==
  ASSUME RootOK, Keep, plain' => plain, plain' \in BOOLEAN
  PROVE  RootOK'
<1>1. /\ Root' = Root /\ ev' = ev /\ stop' = stop /\ root' = root /\ ml' = ml
      /\ lastScore' = lastScore /\ best' = best /\ completed' = completed
  BY DEF Keep
<1>2. RootShape'
  BY <1>1 DEF RootOK, RootShape
<1>3. (~stop => RootPossible)'
  BY <1>1 DEF RootOK, RootPossible, BestTells
<1>4. (Exact => RootFaithful)'
  BY <1>1 DEF RootOK, RootFaithful, Exact, SameExtension, RootMove
<1>5. CompletedOK'
  BY <1>1, CompletedKept DEF RootOK
<1> QED
  BY <1>1, <1>2, <1>3, <1>4, <1>5 DEF RootOK

\* The root's moves: a list in which each comes once.
LEMMA RootMovesAre ==
  ASSUME RootShape
  PROVE  /\ Root \in Node /\ PlyOf(Root) = 0 /\ ~Position[Root].drawn /\ Moves(Root) \subseteq Node
         /\ IsFiniteSet(Moves(Root)) /\ Cardinality(Moves(Root)) \in Nat
         /\ Len(ml) = Cardinality(Moves(Root)) /\ Len(ml) >= 1
         /\ ml \in [1..Len(ml) -> Moves(Root)] /\ DOMAIN ml = 1..Len(ml)
         /\ Moves(Root) = {ml[i] : i \in 1..Len(ml)}
<1>1. /\ Root \in Node /\ PlyOf(Root) = 0 /\ ~Position[Root].drawn
      /\ Position[Root].moves # <<>>
  BY PositionAssumption DEF RootShape, PositionAssumption, PlyOf
<1>2. PICK pm \in Seq(Node) : pm = Position[Root].moves
  BY <1>1, PositionAssumption DEF PositionAssumption
<1>3. Moves(Root) \subseteq Node
  BY <1>1, GameIs
<1>4. IsFiniteSet(Moves(Root)) /\ Moves(Root) # {}
  <2>1. Len(pm) \in Nat /\ DOMAIN pm = 1..Len(pm) /\ pm # <<>>
    BY <1>1, <1>2
  <2>2. Moves(Root) = {pm[i] : i \in 1..Len(pm)}
    BY <1>2, <2>1 DEF Moves
  <2>3. IsFiniteSet(1..Len(pm))
    BY <2>1, FS_Interval
  <2>4. pm \in Surjection(1..Len(pm), Moves(Root))
    <3>1. pm \in [1..Len(pm) -> Moves(Root)]
      BY <1>2, <2>1, <2>2
    <3>2. \A m \in Moves(Root) : \E i \in 1..Len(pm) : pm[i] = m
      BY <2>2
    <3> QED
      BY <3>1, <3>2 DEF Surjection
  <2>5. IsFiniteSet(Moves(Root))
    BY <2>3, <2>4, FS_Surjection
  <2>6. 1 \in 1..Len(pm)
    BY <2>1, <1>2
  <2> QED
    BY <2>2, <2>5, <2>6
<1>5. PICK c \in Nat : c = Cardinality(Moves(Root)) /\ c >= 1
  <2>1. Cardinality(Moves(Root)) \in Nat
    BY <1>4, FS_CardinalityType
  <2>2. Cardinality(Moves(Root)) # 0
    BY <1>4, FS_EmptySet
  <2> QED
    BY <2>1, <2>2
<1>6. ml \in [1..c -> Moves(Root)] /\ \A i, j \in 1..c : ml[i] = ml[j] => i = j
  BY <1>5 DEF RootShape
<1>7. Len(ml) = c /\ DOMAIN ml = 1..c
  <2>1. ml \in Seq(Moves(Root))
    BY <1>5, <1>6, SeqDef
  <2>2. 1..Len(ml) = 1..c /\ Len(ml) \in Nat
    BY <1>6, <2>1, LenProperties
  <2>3. Len(ml) \in 1..c \/ Len(ml) = 0
    BY <2>2
  <2>4. c \in 1..Len(ml)
    BY <1>5, <2>2
  <2> QED
    BY <1>5, <1>6, <2>2, <2>3, <2>4
<1>8. Moves(Root) = {ml[i] : i \in 1..c}
  <2>1. IsFiniteSet(1..c) /\ Cardinality(1..c) = c
    BY <1>5, FS_Interval
  <2>2. ml \in Injection(1..c, Moves(Root))
    BY <1>6 DEF Injection, IsInjective
  <2>3. ml \in Surjection(1..c, Moves(Root))
    BY <1>4, <1>5, <2>1, <2>2, FS_Injection
  <2>4. \A m \in Moves(Root) : \E i \in 1..c : ml[i] = m
    BY <2>3 DEF Surjection
  <2> QED
    BY <1>6, <2>4
<1> QED
  BY <1>1, <1>3, <1>4, <1>5, <1>6, <1>7, <1>8

\* Between the calls of the root.
LEMMA AtRootIs ==
  ASSUME IInv, NEW where, AtRoot(where)
  PROVE  /\ stack = <<>> /\ root.at = where /\ RootShape /\ (~stop => RootPossible)
         /\ (Exact => RootFaithful) /\ CompletedOK /\ TableOK
         /\ where \notin {"scout", "full"} => ret = <<>>
         /\ ret # <<>> => ret = <<ret[1], ret[2]>> /\ AnswerOK(RootCall, ret[1], ret[2])
         /\ root \in RootSet /\ root.depth \in Int /\ root.pos \in Nat /\ root.red \in Nat
         /\ root.alpha \in Int /\ root.beta \in Int /\ root.oldAlpha \in Int /\ root.bs \in Int
         /\ root.depth <= 99 /\ MaxDepth \in Int /\ ev \in Evals
<1>1. stack = <<>> /\ root.at = where
  BY DEF AtRoot
<1>2. RootShape /\ (~stop => RootPossible) /\ (Exact => RootFaithful) /\ CompletedOK /\ TableOK /\ StackOK
  BY DEF IInv, RootOK
<1>3. Len(stack) = 0 /\ CallAt(0) = RootCall
  BY <1>1 DEF CallAt
<1>4. /\ where \notin {"scout", "full"} => ret = <<>>
      /\ ret # <<>> => ret = <<ret[1], ret[2]>> /\ AnswerOK(RootCall, ret[1], ret[2])
  BY <1>1, <1>2, <1>3 DEF StackOK
<1>5. /\ root \in RootSet /\ root.depth \in 0..MaxDepth /\ root.pos \in Nat /\ root.red \in Nat
      /\ root.alpha \in Int /\ root.beta \in Int /\ root.oldAlpha \in Int /\ root.bs \in Int
      /\ ev \in Evals
  BY <1>2 DEF RootShape, RootSet
<1>6. MaxDepth \in Int /\ MaxDepth <= 99
  BY LimitsAssumption DEF LimitsAssumption
<1> QED
  BY <1>1, <1>2, <1>4, <1>5, <1>6

\* No call is open, and none is asked for.
LEMMA NoCall ==
  ASSUME stack' = <<>>, ret' = <<>>, root'.at \notin {"scout", "full"}
  PROVE  StackOK'
<1>1. Len(stack') = 0 /\ stack' \in Seq(FrameSet)
  OBVIOUS
<1>2. 1..Len(stack') = {} /\ 2..Len(stack') = {}
  BY <1>1
<1> QED
  BY <1>1, <1>2 DEF StackOK

\* A pass begins.
FreshPass(r, d, margin) ==
  /\ r \in RootSet /\ r.at = "loop" /\ r.depth = d /\ r.margin = margin /\ r.pos = 0
  /\ r.seen = {} /\ r.bs = NoScore /\ r.bm = None /\ r.alpha = r.oldAlpha
  /\ {r.alpha, r.beta, r.oldAlpha, r.bs} \subseteq Values
  /\ r.alpha < r.beta /\ r.alpha > NoScore
  /\ margin = 0 => r.oldAlpha = MinScore /\ r.beta = MaxScore
  /\ margin # 0 => r.beta < MaxScore

\* A pass over the root moves begins with a window that is open.
LEMMA PassBegins ==
  ASSUME NEW d \in 1..MaxDepth, NEW margin \in 0..499, lastScore \in Values,
         margin # 0 => ~IsMateScore(lastScore), NEW r, r = RootPass(d, margin)
  PROVE  FreshPass(r, d, margin)
<1>1. PICK a, b : /\ a = (IF margin = 0 THEN MinScore ELSE lastScore - margin)
                  /\ b = (IF margin = 0 THEN MaxScore ELSE lastScore + margin)
  OBVIOUS
<1>2. /\ r.alpha = a /\ r.beta = b /\ r.oldAlpha = a /\ r.at = "loop" /\ r.depth = d
      /\ r.margin = margin /\ r.pos = 0 /\ r.seen = {} /\ r.bs = NoScore /\ r.bm = None
      /\ r = [depth |-> d, margin |-> margin, alpha |-> a, beta |-> b, oldAlpha |-> a,
              bs |-> NoScore, bm |-> None, pos |-> 0, seen |-> {}, red |-> 0, at |-> "loop"]
  BY <1>1 DEF RootPass
<1>3. EvalMax \in Nat /\ Mate = EvalMax + 1001 /\ NoScore = -Mate /\ MaxScore = Mate - 1 /\ MinScore = 1 - Mate
  BY ScoresAre
<1>4. PICK l \in Int : l = lastScore /\ (margin # 0 => ~(l < -EvalMax) /\ ~(l > EvalMax))
  BY <1>3 DEF Values, IsMateScore
<1>5. /\ a \in Int /\ b \in Int /\ a \in Values /\ b \in Values /\ NoScore \in Values /\ NoScore \in Int
      /\ a < b /\ a > NoScore
      /\ margin = 0 => a = MinScore /\ b = MaxScore
      /\ margin # 0 => b < MaxScore
  BY <1>1, <1>3, <1>4 DEF Values
<1>6. r \in RootSet
  <2>1. MaxDepth \in Nat /\ d \in 0..MaxDepth
    BY LimitsAssumption DEF LimitsAssumption
  <2> QED
    BY <1>2, <1>5, <2>1 DEF RootSet, InPass, None
<1> QED
  BY <1>2, <1>5, <1>6 DEF FreshPass

\* The invariant when a pass begins.
LEMMA PassBegun ==
  ASSUME IInv, stack = <<>>, ret = <<>>, NEW d \in 1..MaxDepth, NEW margin \in 0..499,
         margin # 0 => ~IsMateScore(lastScore), root' = RootPass(d, margin),
         UNCHANGED <<Root, ev, stop, stack, ret, ml, lastScore, best, completed, table, plain>>
  PROVE  IInv' /\ Dated
<1>1. RootShape /\ CompletedOK
  BY DEF IInv, RootOK
<1>2. PICK r : r = root'
  OBVIOUS
<1>3. /\ r \in RootSet /\ r.at = "loop" /\ r.depth = d /\ r.margin = margin /\ r.pos = 0
      /\ r.seen = {} /\ r.bs = NoScore /\ r.bm = None /\ r.alpha = r.oldAlpha
      /\ {r.alpha, r.beta, r.oldAlpha, r.bs} \subseteq Values
      /\ r.alpha < r.beta /\ r.alpha > NoScore
      /\ margin = 0 => r.oldAlpha = MinScore /\ r.beta = MaxScore
      /\ margin # 0 => r.beta < MaxScore
  <2>1. lastScore \in Values
    BY <1>1 DEF RootShape
  <2>2. FreshPass(r, d, margin)
    BY <1>2, <2>1, PassBegins
  <2> QED
    BY <2>2 DEF FreshPass
<1>4. /\ Root' = Root /\ ev' = ev /\ stop' = stop /\ stack' = stack /\ ret' = ret /\ ml' = ml
      /\ lastScore' = lastScore /\ best' = best /\ completed' = completed /\ plain' = plain
      /\ UNCHANGED table /\ root' = r
  BY <1>2
<1>5. Len(ml) \in Nat /\ 1..0 = {}
  BY <1>1, RootMovesAre
<1>6. RootShape'
  <2>1. r.seen = {ml[i] : i \in 1..0} /\ r.pos \in 0..Len(ml)
    BY <1>3, <1>5
  <2>2. d >= 1 /\ None \in OrNone(Root)
    BY DEF OrNone
  <2> QED
    BY <1>1, <1>3, <1>4, <2>1, <2>2 DEF RootShape, InPass, OrNone
<1>7. RootPossible'
  <2>1. r.alpha \in Int /\ r.bs \in Int /\ r.alpha > r.bs
    BY <1>3 DEF RootSet
  <2>2. r.alpha = Larger(r.oldAlpha, r.bs)
    BY <1>3, <2>1 DEF Larger
  <2> QED
    BY <1>3, <1>4, <2>2 DEF RootPossible
<1>8. RootFaithful'
  <2>1. r.alpha \in Int /\ r.bs \in Int /\ ~(r.bs > r.oldAlpha)
    BY <1>3 DEF RootSet
  <2> QED
    BY <1>3, <1>4, <1>5, <2>1 DEF RootFaithful
<1>9. CompletedOK'
  BY <1>1, <1>4, CompletedKept
<1>10. RootOK'
  BY <1>3, <1>4, <1>6, <1>7, <1>8, <1>9 DEF RootOK
<1>11. StackOK'
  BY <1>3, <1>4, NoCall
<1>12. TableOK' /\ Dated
  BY <1>4, TableKept, SMTT(30) DEF IInv, Onward
<1> QED
  BY <1>10, <1>11, <1>12 DEF IInv

\* The next depth begins, with the window around the last score or the full one.
LEMMA StartDepthKeeps ==
  ASSUME IInv, StartDepth
  PROVE  IInv' /\ Dated
<1>1. AtRoot("iterate")
  BY DEF StartDepth
<1>2. /\ stack = <<>> /\ ret = <<>> /\ RootShape /\ root.at = "iterate" /\ MaxDepth \in Int
  BY <1>1, AtRootIs
<1>3. PICK margin : margin = IF root.depth + 1 >= AspirationDepth /\ ~IsMateScore(lastScore)
                             THEN AspirationMargin ELSE 0
  OBVIOUS
<1>4. root' = RootPass(root.depth + 1, margin)
  BY <1>3 DEF StartDepth
<1>5. root.depth + 1 \in 1..MaxDepth
  <2>1. root.depth \in 0..MaxDepth /\ root.depth < MaxDepth
    BY <1>2 DEF RootShape, RootSet
  <2> QED
    BY <1>2, <2>1
<1>6. margin \in 0..499 /\ (margin # 0 => ~IsMateScore(lastScore))
  <2>1. AspirationMargin \in 1..499
    BY LimitsAssumption DEF LimitsAssumption
  <2> QED
    BY <1>3, <2>1
<1>7. UNCHANGED <<Root, ev, stop, stack, ret, ml, lastScore, best, completed, table, plain>>
  BY SMTT(30) DEF StartDepth
<1> QED
  BY <1>2, <1>4, <1>5, <1>6, <1>7, PassBegun

\* The score was not inside the window: the pass is done over with a wider one.
LEMMA WidenKeeps ==
  ASSUME IInv, Widen
  PROVE  IInv' /\ Dated
<1>1. AtRoot("passed")
  BY DEF Widen
<1>2. /\ stack = <<>> /\ ret = <<>> /\ RootShape /\ root.at = "passed" /\ MaxDepth \in Int
  BY <1>1, AtRootIs
<1>3. root' = RootPass(root.depth, NextMargin) /\ root.margin # 0
  BY DEF Widen
<1>4. root.depth \in 1..MaxDepth /\ root.margin \in 0..499 /\ ~IsMateScore(lastScore)
  <2>1. root.depth \in 0..MaxDepth /\ root.margin \in 0..499 /\ root.depth >= 1
    BY <1>2 DEF RootShape, RootSet
  <2>2. ~IsMateScore(lastScore)
    BY <1>2, <1>3 DEF RootShape
  <2> QED
    BY <1>2, <2>1, <2>2
<1>5. NextMargin \in 0..499
  BY <1>4, SMTT(30) DEF NextMargin
<1>6. UNCHANGED <<Root, ev, stop, stack, ret, ml, lastScore, best, completed, table, plain>>
  BY DEF Widen, RootStep, StaysPlain
<1> QED
  BY <1>2, <1>3, <1>4, <1>5, <1>6, PassBegun, ZenonT(30)

\* The root's pass with its place changed.
LEMMA RootGoes ==
  ASSUME root \in RootSet, NEW w \in {"iterate", "passed", "completed", "done"} \cup InPass,
         NEW r, r = [root EXCEPT !.at = w]
  PROVE  /\ r \in RootSet /\ r.depth = root.depth /\ r.alpha = root.alpha /\ r.beta = root.beta
         /\ r.oldAlpha = root.oldAlpha /\ r.bs = root.bs /\ r.bm = root.bm /\ r.margin = root.margin
         /\ r.pos = root.pos /\ r.seen = root.seen /\ r.red = root.red /\ r.at = w
  BY DEF RootSet

\* The score was inside: the depth is completed with the value of the root.
LEMMA CompleteKeeps ==
  ASSUME IInv, Complete
  PROVE  IInv' /\ Dated
<1>1. AtRoot("passed")
  BY DEF Complete
<1>17. (~stop => RootPossible) /\ (Exact => RootFaithful)
  BY <1>1, AtRootIs
<1>2. /\ stack = <<>> /\ ret = <<>> /\ RootShape /\ root.at = "passed" /\ root \in RootSet
      /\ ev \in Evals /\ TableOK
      /\ root.beta \in Int /\ root.oldAlpha \in Int /\ root.bs \in Int /\ root.depth \in Int
  BY <1>1, AtRootIs
<1>3. PICK r : r = [root EXCEPT !.at = "completed"]
  OBVIOUS
<1>4. /\ ~stop /\ (root.margin = 0 \/ Inside) /\ completed' = best /\ lastScore' = best.score
      /\ root' = r /\ Root' = Root /\ ev' = ev /\ stop' = stop /\ ml' = ml /\ best' = best
      /\ stack' = stack /\ ret' = ret /\ UNCHANGED table /\ plain' = plain
  BY <1>3 DEF Complete
<1>5. /\ r \in RootSet /\ r.depth = root.depth /\ r.alpha = root.alpha /\ r.beta = root.beta
      /\ r.oldAlpha = root.oldAlpha /\ r.bs = root.bs /\ r.bm = root.bm /\ r.at = "completed"
  <2>1. root \in RootSet
    BY <1>2
  <2> QED
    BY <1>3, <2>1, RootGoes
<1>6. BestTells
  BY <1>2, <1>4, <1>17 DEF RootPossible
<1>7. PICK s \in Int : s = root.bs /\ s = best.score /\ s \in RootReach /\ s \in Values
  BY <1>2, <1>6, ScoresAre DEF BestTells, RootReach, Values
<1>8. RootShape'
  BY <1>2, <1>4, <1>5, <1>7 DEF RootShape, InPass
<1>9. /\ root.margin = 0 => root.oldAlpha = MinScore /\ root.beta = MaxScore
      /\ root.margin # 0 => root.beta < MaxScore
  BY <1>2 DEF RootShape
<1>10. /\ s > root.oldAlpha
       /\ s < root.beta \/ s = MaxScore
       /\ s < root.beta <=> s # MaxScore
  <2>1. Mate \in Int /\ MinScore = 1 - Mate /\ MaxScore = Mate - 1
    BY ScoresAre
  <2>2. 2 - Mate <= s /\ s <= Mate - 1
    BY <1>7, <2>1 DEF RootReach
  <2>3. CASE root.margin = 0
    BY <1>2, <1>7, <1>9, <2>1, <2>2, <2>3
  <2>4. CASE root.margin # 0
    <3>1. s > root.oldAlpha /\ s < root.beta /\ root.beta < MaxScore
      BY <1>4, <1>7, <1>9, <2>4 DEF Inside
    <3> QED
      BY <1>2, <2>1, <3>1
  <2> QED
    BY <2>3, <2>4
<1>11. best.type = IF best.score = MaxScore THEN Lower ELSE Lower + Upper
  <2>1. best.type = scoreType(s, root.oldAlpha, root.beta)
    BY <1>6, <1>7 DEF BestTells
  <2>2. Lower = 1 /\ Upper = 2
    BY DEF Lower, Upper, TT!Lower, TT!Upper
  <2> QED
    BY <1>7, <1>10, <2>1, <2>2 DEF scoreType
<1>12. ASSUME plain
       PROVE  /\ best.score = ValueOf(ev)[Root][best.depth]
              /\ best.score = -ValueOf(ev)[best.move][best.depth - 1 + extension(Root, best.move, best.depth, TRUE)]
  <2>1. RootFaithful /\ best.depth = root.depth
    BY <1>4, <1>6, <1>12, <1>17 DEF Exact, BestTells
  <2>2. PICK m \in Moves(Root), d \in Int : m = best.move /\ d = root.depth
    BY <1>2 DEF RootShape
  <2>3. /\ extension(Root, m, d, TRUE) = extension(Root, m, d, FALSE)
        /\ ScoreOf(ev, Root, m, d) >= s
        /\ s < root.beta => ValueOf(ev)[Root][d] <= s
    BY <1>2, <1>7, <1>10, <2>1, <2>2 DEF RootFaithful, InPass, SameExtension
  <2>4. m \in Moves(Root) /\ d >= 1
    BY <1>2, <2>2 DEF RootShape
  <2>5. /\ Root \in Node /\ PlyOf(Root) = 0 /\ ~Position[Root].drawn /\ MaxPly \in Nat \ {0} /\ m \in Node
    <3>1. MaxPly \in Nat \ {0}
      BY ScoresAre
    <3>2. Root \in Node /\ PlyOf(Root) = 0 /\ ~Position[Root].drawn /\ Moves(Root) \subseteq Node
      BY <1>2, RootMovesAre
    <3> QED
      BY <2>4, <3>1, <3>2
  <2>6. PICK val \in Int : val = ValueOf(ev)[Root][d] /\ val <= Top(Root)
    BY <1>2, <2>2, <2>5, ValueInReach
  <2>7. BestOf(ev, Root, d, val)
    <3>1. ValueIs(ev, Root, d, val)
      BY <1>2, <2>2, <2>5, <2>6, ValueRight
    <3> QED
      BY <2>5, <3>1 DEF ValueIs
  <2>8. m \in Tried(Root, d, FALSE)
    <3>1. d > 0
      BY <2>2, <2>4
    <3>2. Tried(Root, d, FALSE) = Moves(Root)
      BY <2>2, <2>5, <3>1, TriedAre
    <3> QED
      BY <2>4, <3>2
  <2>9. PICK x \in Int : x = ScoreOf(ev, Root, m, d)
    <3>1. Below(Root, m, d) \in Int
      BY <2>2, ExtensionIs
    <3>2. PlyOf(m) <= MaxPly
      BY <2>4, <2>5, GameIs
    <3>3. ValueOf(ev)[m][Below(Root, m, d)] \in Int
      BY <1>2, <2>5, <3>1, <3>2, ValueInReach
    <3> QED
      BY <3>3 DEF ScoreOf
  <2>10. val >= x /\ x >= s
    BY <2>3, <2>7, <2>8, <2>9 DEF BestOf
  <2>11. val <= s
    <3>1. CASE s < root.beta
      BY <2>3, <2>6, <3>1
    <3>2. CASE s = MaxScore
      BY <2>5, <2>6, <3>2, ScoresAre DEF Top
    <3> QED
      BY <1>10, <3>1, <3>2
  <2>12. val = s /\ x = s
    BY <1>7, <2>6, <2>9, <2>10, <2>11
  <2>13. ScoreOf(ev, Root, m, d) = -ValueOf(ev)[m][d - 1 + extension(Root, m, d, TRUE)]
    BY <2>3 DEF ScoreOf, Below
  <2> QED
    BY <1>7, <2>1, <2>2, <2>6, <2>9, <2>12, <2>13
<1>13. CompletedOK'
  BY <1>4, <1>11, <1>12 DEF CompletedOK
<1>14. RootOK'
  <2>1. RootPossible' /\ RootFaithful'
    BY <1>4, <1>5 DEF RootPossible, RootFaithful, InPass
  <2> QED
    BY <1>4, <1>5, <1>8, <1>13, <2>1 DEF RootOK
<1>15. StackOK'
  BY <1>2, <1>4, <1>5, NoCall
<1>16. TableOK' /\ Dated
  BY <1>2, <1>4, TableKept DEF Onward
<1> QED
  BY <1>14, <1>15, <1>16 DEF IInv

\* On to the next depth.
LEMMA NextDepthKeeps ==
  ASSUME IInv, NextDepth
  PROVE  IInv' /\ Dated
<1>1. AtRoot("completed")
  BY DEF NextDepth
<1>2. /\ stack = <<>> /\ ret = <<>> /\ RootShape /\ root \in RootSet /\ TableOK /\ CompletedOK
  BY <1>1, AtRootIs
<1>3. PICK r : r = [root EXCEPT !.at = "iterate"]
  OBVIOUS
<1>4. /\ root.depth < MaxDepth /\ completed' = completed /\ lastScore' = lastScore
      /\ root' = r /\ Root' = Root /\ ev' = ev /\ stop' = stop /\ ml' = ml /\ best' = best
      /\ stack' = stack /\ ret' = ret /\ UNCHANGED table /\ plain' = plain
  BY <1>3 DEF NextDepth
<1>5. /\ r \in RootSet /\ r.depth = root.depth /\ r.alpha = root.alpha /\ r.beta = root.beta
      /\ r.oldAlpha = root.oldAlpha /\ r.bs = root.bs /\ r.bm = root.bm /\ r.at = "iterate"
  BY <1>2, <1>3, RootGoes
<1>6. RootShape'
  BY <1>2, <1>4, <1>5 DEF RootShape, InPass
<1>7. CompletedOK'
  BY <1>2, <1>4, CompletedKept
<1>8. RootOK'
  <2>1. RootPossible' /\ RootFaithful'
    BY <1>4, <1>5 DEF RootPossible, RootFaithful, InPass
  <2> QED
    BY <1>4, <1>5, <1>6, <1>7, <2>1 DEF RootOK
<1>9. StackOK'
  BY <1>2, <1>4, <1>5, NoCall
<1>10. TableOK' /\ Dated
  BY <1>2, <1>4, TableKept DEF Onward
<1> QED
  BY <1>8, <1>9, <1>10 DEF IInv

\* The move of the last completed depth is announced.
LEMMA AnnounceKeeps ==
  ASSUME IInv, Announce
  PROVE  IInv' /\ Dated
<1>1. PICK where \in {"passed", "completed"} : AtRoot(where)
  BY DEF Announce
<1>2. /\ stack = <<>> /\ ret = <<>> /\ RootShape /\ root \in RootSet /\ TableOK /\ CompletedOK
      /\ root.at = where
  BY <1>1, AtRootIs
<1>3. PICK r : r = [root EXCEPT !.at = "done"]
  OBVIOUS
<1>4. /\ completed' = completed /\ lastScore' = lastScore /\ best' = completed
      /\ root' = r /\ Root' = Root /\ ev' = ev /\ stop' = stop /\ ml' = ml
      /\ stack' = stack /\ ret' = ret /\ UNCHANGED table /\ plain' = plain
  BY <1>3 DEF Announce
<1>5. /\ r \in RootSet /\ r.depth = root.depth /\ r.alpha = root.alpha /\ r.beta = root.beta
      /\ r.oldAlpha = root.oldAlpha /\ r.bs = root.bs /\ r.bm = root.bm /\ r.at = "done"
  BY <1>2, <1>3, RootGoes
<1>6. RootShape'
  BY <1>1, <1>2, <1>4, <1>5 DEF RootShape, InPass
<1>7. CompletedOK'
  BY <1>2, <1>4, CompletedKept
<1>8. RootOK'
  <2>1. RootPossible' /\ RootFaithful'
    BY <1>4, <1>5 DEF RootPossible, RootFaithful, InPass
  <2> QED
    BY <1>4, <1>5, <1>6, <1>7, <2>1 DEF RootOK
<1>9. StackOK'
  BY <1>2, <1>4, <1>5, NoCall
<1>10. TableOK' /\ Dated
  BY <1>2, <1>4, TableKept DEF Onward
<1> QED
  BY <1>8, <1>9, <1>10 DEF IInv

\* The stop takes what depends on the search being let run.
LEMMA StopKeeps ==
  ASSUME IInv, Stop
  PROVE  IInv' /\ Dated
<1>1. /\ stop' /\ stop' = TRUE /\ root' = root /\ Root' = Root /\ ev' = ev /\ ml' = ml /\ best' = best
      /\ completed' = completed /\ lastScore' = lastScore /\ plain' = plain /\ stack' = stack /\ ret' = ret
      /\ UNCHANGED table /\ ~Exact' /\ root.at # "done"
  BY DEF Stop, RootVars, Exact
<1>2. RootOK'
  <2>1. RootShape'
    <3>1. stop' \in BOOLEAN /\ RootShape
      BY <1>1 DEF IInv, RootOK
    <3> QED
      BY <1>1, <3>1 DEF RootShape
  <2>2. CompletedOK'
    BY <1>1, CompletedKept DEF IInv, RootOK
  <2> QED
    BY <1>1, <2>1, <2>2 DEF RootOK
<1>3. RootCall' = RootCall
  BY <1>1 DEF RootCall, RootDeep, RootMove
<1>4. \A i : CallAt(i)' = CallAt(i)
  BY <1>1, <1>3 DEF CallAt
<1>5. StackOK'
  <2>1. \A g : FrameOK(g) => FrameOK(g)'
    BY <1>1 DEF FrameOK
  <2>2. \A i \in 1..Len(stack) : FrameOK(stack[i])' /\ Serves(stack[i], CallAt(i))'
    <3>1. ASSUME NEW i \in 1..Len(stack)
          PROVE  FrameOK(stack[i])' /\ Serves(stack[i], CallAt(i))'
      <4>1. PICK g : g = stack[i]
        OBVIOUS
      <4>2. FrameOK(g) /\ Serves(g, CallAt(i))
        BY <4>1 DEF IInv, StackOK
      <4>3. FrameOK(g)' /\ Serves(g, CallAt(i)')
        BY <1>4, <2>1, <4>2
      <4> QED
        BY <1>1, <4>1, <4>3
    <3> QED
      BY <3>1
  <2>3. ret # <<>> => AnswerOK(CallAt(0), ret[1], ret[2])'
    <3>1. ret # <<>> => AnswerOK(CallAt(0), ret[1], ret[2])
      BY DEF IInv, StackOK
    <3> QED
      BY <1>1, <1>4, <3>1 DEF AnswerOK
  <2> QED
    BY <1>1, <2>2, <2>3 DEF IInv, StackOK
<1>6. TableOK' /\ Dated
  <2>1. entries' = entries /\ size' = size /\ generation' = generation /\ cntUsed' = cntUsed
    BY <1>1 DEF table
  <2>2. TT!Slots' = TT!Slots /\ TT!TypeOK'
    BY <2>1 DEF TT!Slots, TT!TypeOK, TableOK, IInv
  <2>3. \A x : EntryOK(x) => EntryOK(x)'
    BY <1>1 DEF EntryOK
  <2>4. ASSUME NEW j \in TT!Slots, NEW y, y = entries'[j]
        PROVE  EntryOK(y)'
    <3>1. EntryOK(y)
      BY <2>1, <2>4 DEF TableOK, IInv
    <3> QED
      BY <2>3, <3>1
  <2>5. \A j \in TT!Slots' : EntryOK(entries[j])'
    BY <2>2, <2>4
  <2> QED
    BY <2>1, <2>2, <2>5 DEF TableOK, Dated
<1> QED
  BY <1>2, <1>5, <1>6 DEF IInv

\* The frame h is a call just made for c.
JustCalled(h, c) ==
  /\ h \in FrameSet /\ h.at = "enter" /\ Shape(h, root.depth) /\ Possible(h)
  /\ \A e : Faithful(h, e)
  /\ Serves(h, c)

\* The calls the root makes for its moves.
LEMMA RootFrames ==
  ASSUME IInv, root.at \in InPass, root.pos + 1 \in 1..Len(ml),
         NEW ext \in {0, 1}, NEW deep, deep = root.depth - 1 + ext,
         NEW red \in Nat, Reduces(root.depth, red)
  PROVE  /\ JustCalled(Frame(RootMove, deep, -root.beta, -root.alpha),
                       Asked(RootMove, deep, -root.beta, -root.alpha))
         /\ JustCalled(Frame(RootMove, deep - red, -root.alpha - 1, -root.alpha),
                       Asked(RootMove, deep - red, -root.alpha - 1, -root.alpha))
<1>1. RootShape
  BY DEF IInv, RootOK
<1>2. PICK m : m = RootMove
  OBVIOUS
<1>3. m \in Moves(Root) /\ m \in Node /\ PlyOf(m) = 1
  <2>1. ml \in [1..Len(ml) -> Moves(Root)] /\ Root \in Node /\ PlyOf(Root) = 0
    BY <1>1, RootMovesAre
  <2>2. m \in Moves(Root)
    BY <1>2, <2>1 DEF RootMove
  <2> QED
    BY <2>1, <2>2, GameIs
<1>4. PlyOf(m) <= MaxPly
  BY <1>3, ScoresAre
<1>5. PICK d \in Int : d = root.depth /\ d >= 1
  BY <1>1 DEF RootShape, RootSet, InPass
<1>6. PICK a \in Int, b \in Int : a = root.alpha /\ b = root.beta /\ a < b /\ a \in Values /\ b <= Mate - 1
  <2>1. root.alpha \in Int /\ root.beta \in Int /\ root.alpha < root.beta /\ root.alpha \in Values
    BY <1>1 DEF RootShape, RootSet
  <2>2. root.beta <= MaxScore
    BY <1>1, <2>1, ScoresAre DEF RootShape
  <2> QED
    BY <2>1, <2>2, ScoresAre
<1>7. -a - 1 \in Values /\ -a \in Values /\ -b \in Values /\ -a - 1 < -a /\ -b < -a
  <2>1. Mate \in Int /\ -Mate <= a /\ a < b /\ b <= Mate - 1
    BY <1>6, ScoresAre DEF Values
  <2> QED
    BY <2>1 DEF Values
<1>8. /\ deep \in Int /\ -PlyOf(m) <= deep /\ deep <= root.depth
      /\ deep - red \in Int /\ -PlyOf(m) <= deep - red /\ deep - red <= root.depth
  <2>1. PICK x \in Int : x = deep
    BY <1>5
  <2>2. (x = d - 1 \/ x = d) /\ (red = 0 \/ (d >= 3 /\ red <= d - 2)) /\ d >= 1
    BY <1>5, <2>1 DEF Reduces
  <2>3. -1 <= x /\ x <= d /\ x - red \in Int /\ -1 <= x - red /\ x - red <= d
    BY <2>1, <2>2
  <2> QED
    BY <1>3, <1>5, <2>1, <2>3
<1>9. ASSUME NEW e \in Int, -PlyOf(m) <= e, e <= root.depth, NEW x \in Values, NEW y \in Values, x < y,
             NEW h, h = Frame(m, e, x, y)
      PROVE  JustCalled(h, Asked(m, e, x, y))
  <2>1. /\ h \in FrameSet /\ Shape(h, root.depth) /\ Possible(h) /\ (\A k : Faithful(h, k))
        /\ Serves(h, Asked(m, e, x, y)) /\ h.at = "enter"
    BY <1>3, <1>4, <1>9, CalledFrame
  <2> QED
    BY <2>1 DEF JustCalled
<1> QED
  BY <1>2, <1>6, <1>7, <1>8, <1>9

\* A step with which the root calls.
LEMMA RootPushes ==
  ASSUME NEW h, NEW c, JustCalled(h, c), c = RootCall', stack' = <<h>>, ret' = <<>>,
         root'.depth = root.depth, root'.at \in {"scout", "full"}
  PROVE  StackOK'
<1>1. /\ h \in FrameSet /\ h.at = "enter" /\ Shape(h, root.depth) /\ Possible(h)
      /\ (\A e : Faithful(h, e)) /\ Serves(h, c)
  BY DEF JustCalled
<1>2. stack' \in Seq(FrameSet) /\ Len(stack') = 1 /\ stack'[1] = h /\ stack' # <<>>
  BY <1>1
<1>3. 1..Len(stack') = {1} /\ 2..Len(stack') = {}
  BY <1>2
<1>4. FrameOK(h)'
  <2>1. Shape(h, root.depth)'
    BY <1>1
  <2>2. Possible(h)' /\ Faithful(h, ev)'
    BY <1>1
  <2> QED
    BY <2>1, <2>2 DEF FrameOK
<1>5. CallAt(1)' = c
  <2>1. ~(1 < Len(stack'))
    BY <1>2
  <2> QED
    BY <2>1 DEF CallAt
<1>6. Serves(h, CallAt(1))'
  BY <1>1, <1>5
<1>7. h.at \notin Waiting
  BY <1>1 DEF Waiting
<1> QED
  BY <1>2, <1>3, <1>4, <1>6, <1>7 DEF StackOK

\* A root move is searched, or the stop is seen.
LEMMA RootNextKeeps ==
  ASSUME IInv, RootNext
  PROVE  IInv' /\ Dated
<1>1. AtRoot("loop") /\ root.pos < Len(ml)
  BY DEF RootNext
<1>2. /\ stack = <<>> /\ ret = <<>> /\ RootShape /\ root.at = "loop" /\ root \in RootSet
      /\ TableOK /\ root.pos \in Nat /\ root.red \in Nat /\ root.depth \in Int
  BY <1>1, AtRootIs
<1>3. (~stop => RootPossible) /\ (Exact => RootFaithful) /\ CompletedOK
  BY <1>1, AtRootIs
<1>4. /\ Root' = Root /\ ev' = ev /\ stop' = stop /\ lastScore' = lastScore /\ completed' = completed
      /\ ml' = ml /\ best' = best /\ UNCHANGED table
  BY DEF RootNext, RootStep
<1>5. PICK m, ext : m = RootMove /\ ext = extension(Root, m, root.depth, TRUE)
  OBVIOUS
<1>6. PICK deep : deep = root.depth - 1 + ext
  OBVIOUS
<1>7. PICK seen, r : seen = root.seen \cup {m} /\ r = [root EXCEPT !.seen = seen]
  OBVIOUS
<1>8. \/ stop /\ root' = [r EXCEPT !.at = "passed"] /\ UNCHANGED <<stack, ret, plain>>
      \/ /\ ~stop /\ Departs(ext # extension(Root, m, root.depth, FALSE))
         /\ \E red \in IF ext = 1 THEN {0}
                        ELSE reduction(Root, m, root.depth, TRUE, root.pos, FALSE) :
              IF root.pos = 0
              THEN /\ root' = [r EXCEPT !.at = "full"]
                   /\ stack' = <<Frame(m, deep, -root.beta, -root.alpha)>>
              ELSE /\ root' = [r EXCEPT !.red = red, !.at = "scout"]
                   /\ stack' = <<Frame(m, deep - red, -root.alpha - 1, -root.alpha)>>
         /\ ret' = <<>>
  BY <1>5, <1>6, <1>7, Zenon DEF RootNext
<1>9. /\ Len(ml) \in Nat /\ root.pos + 1 \in 1..Len(ml) /\ ml \in [1..Len(ml) -> Moves(Root)]
      /\ DOMAIN ml = 1..Len(ml) /\ Moves(Root) \subseteq Node
  <2>1. /\ Cardinality(Moves(Root)) \in Nat /\ Len(ml) = Cardinality(Moves(Root))
        /\ ml \in [1..Len(ml) -> Moves(Root)] /\ DOMAIN ml = 1..Len(ml) /\ Moves(Root) \subseteq Node
    BY <1>2, RootMovesAre
  <2> QED
    BY <1>1, <1>2, <2>1
<1>10. m \in Moves(Root) /\ m \in Node /\ (ext = 0 \/ ext = 1) /\ ext \in {0, 1}
  BY <1>5, <1>9, ExtensionIs DEF RootMove
<1>11. seen = {ml[i] : i \in 1..(root.pos + 1)}
  <2>1. root.seen = {ml[i] : i \in 1..root.pos}
    BY <1>2 DEF RootShape
  <2>2. 1..(root.pos + 1) = (1..root.pos) \cup {root.pos + 1}
    BY <1>2
  <2> QED
    BY <1>5, <1>7, <2>1, <2>2 DEF RootMove
<1>12. /\ r \in RootSet /\ r.depth = root.depth /\ r.margin = root.margin /\ r.alpha = root.alpha
       /\ r.beta = root.beta /\ r.oldAlpha = root.oldAlpha /\ r.bs = root.bs /\ r.bm = root.bm
       /\ r.pos = root.pos /\ r.seen = seen /\ r.at = "loop" /\ r.red = root.red
  <2>1. seen \in SUBSET Node
    BY <1>2, <1>7, <1>10 DEF RootSet
  <2>2. root \in RootSet /\ root.at = "loop"
    BY <1>2
  <2> QED
    BY <1>7, <2>1, <2>2 DEF RootSet
<1>13. TableOK' /\ Dated
  <2>1. plain' => plain
    BY <1>8, Zenon DEF Departs
  <2> QED
    BY <1>2, <1>4, <2>1, TableKept DEF Onward
<1>14. CompletedOK'
  <2>1. plain' => plain
    BY <1>8, Zenon DEF Departs
  <2> QED
    BY <1>3, <1>4, <2>1, CompletedKept
<1>15. ASSUME NEW q \in RootSet, root' = q, q.at \in {"passed", "scout", "full"}, q.depth = root.depth,
              q.margin = root.margin, q.alpha = root.alpha, q.beta = root.beta,
              q.oldAlpha = root.oldAlpha, q.bs = root.bs, q.bm = root.bm,
              q.pos = root.pos, q.seen = seen, plain' \in BOOLEAN
       PROVE  RootShape'
  BY <1>2, <1>4, <1>9, <1>11, <1>15 DEF RootShape, InPass
<1>16. CASE stop
  <2>1. PICK q : q = [r EXCEPT !.at = "passed"]
    OBVIOUS
  <2>2. root' = q /\ stack' = stack /\ ret' = ret /\ plain' = plain
    BY <1>8, <1>16, <2>1
  <2>3. /\ q \in RootSet /\ q.at = "passed" /\ q.depth = root.depth
        /\ q.margin = root.margin /\ q.alpha = root.alpha /\ q.beta = root.beta
        /\ q.oldAlpha = root.oldAlpha /\ q.bs = root.bs /\ q.bm = root.bm
        /\ q.pos = root.pos /\ q.seen = seen
    BY <1>12, <2>1 DEF RootSet
  <2>4. plain' \in BOOLEAN
    BY <1>2, <2>2 DEF RootShape
  <2>5. RootShape'
    BY <1>15, <2>2, <2>3, <2>4
  <2>6. RootOK'
    BY <1>4, <1>14, <1>16, <2>2, <2>3, <2>5 DEF RootOK, Exact
  <2>7. StackOK'
    BY <1>2, <2>2, <2>3, NoCall
  <2> QED
    BY <1>13, <2>6, <2>7 DEF IInv
<1>17. CASE ~stop
  <2>1. Departs(ext # extension(Root, m, root.depth, FALSE)) /\ ret' = <<>>
    BY <1>8, <1>17
  <2>2. PICK red \in IF ext = 1 THEN {0}
                     ELSE reduction(Root, m, root.depth, TRUE, root.pos, FALSE) :
          IF root.pos = 0
          THEN /\ root' = [r EXCEPT !.at = "full"]
               /\ stack' = <<Frame(m, deep, -root.beta, -root.alpha)>>
          ELSE /\ root' = [r EXCEPT !.red = red, !.at = "scout"]
               /\ stack' = <<Frame(m, deep - red, -root.alpha - 1, -root.alpha)>>
    BY <1>8, <1>17
  <2>3. red \in Nat /\ Reduces(root.depth, red)
    <3>1. PICK d \in Int, k \in Nat : d = root.depth /\ d <= MaxDepth /\ k = root.pos
      BY <1>2 DEF RootSet
    <3>2. CASE ext = 1
      BY <2>2, <3>2 DEF Reduces
    <3>3. CASE ext # 1
      <4>1. red \in reduction(Root, m, d, TRUE, k, FALSE)
        BY <2>2, <3>1, <3>3
      <4>2. red \in Nat /\ Reduces(d, red)
        BY <3>1, <4>1, ReductionIs
      <4> QED
        BY <3>1, <4>2
    <3> QED
      BY <3>2, <3>3
  <2>4. plain' \in BOOLEAN /\ (plain' => plain) /\ (Exact' => Exact /\ ext = extension(Root, m, root.depth, FALSE))
    BY <1>4, <2>1 DEF Departs, Exact
  <2>5. /\ JustCalled(Frame(m, deep, -root.beta, -root.alpha),
                      Asked(m, deep, -root.beta, -root.alpha))
        /\ JustCalled(Frame(m, deep - red, -root.alpha - 1, -root.alpha),
                      Asked(m, deep - red, -root.alpha - 1, -root.alpha))
    <3>1. root.at \in InPass
      BY <1>2 DEF InPass
    <3> QED
      BY <1>5, <1>6, <1>9, <1>10, <2>3, <3>1, RootFrames
  <2>6. ASSUME NEW q \in RootSet, root' = q, q.at \in {"scout", "full"}, q.depth = root.depth,
               q.margin = root.margin, q.alpha = root.alpha, q.beta = root.beta,
               q.oldAlpha = root.oldAlpha, q.bs = root.bs, q.bm = root.bm,
               q.pos = root.pos, q.seen = seen
        PROVE  RootOK'
    <3>1. RootShape'
      BY <1>15, <2>4, <2>6
    <3>2. RootPossible'
      <4>1. RootPossible
        BY <1>3, <1>17
      <4> QED
        BY <1>2, <1>4, <2>6, <4>1 DEF RootPossible, BestTells, InPass
    <3>3. ASSUME Exact'
          PROVE  RootFaithful'
      <4>1. RootFaithful /\ ext = extension(Root, m, root.depth, FALSE)
        BY <1>3, <2>4, <3>3
      <4>2. RootMove' = m /\ SameExtension(m, root.depth)
        BY <1>4, <1>5, <2>6, <4>1 DEF RootMove, SameExtension
      <4>3. SameExtension(RootMove, root.depth)'
        BY <1>4, <2>6, <4>2 DEF SameExtension
      <4>4. /\ root.bs > root.oldAlpha =>
                 /\ SameExtension(best.move, root.depth)
                 /\ ScoreOf(ev, Root, best.move, root.depth) >= root.bs
            /\ \A i \in 1..root.pos : ScoreOf(ev, Root, ml[i], root.depth) <= root.bs
        BY <1>2, <4>1 DEF RootFaithful, InPass
      <4>5. (root.bs > root.oldAlpha => SameExtension(best.move, root.depth))'
        BY <1>4, <2>6, <4>4 DEF SameExtension
      <4> QED
        BY <1>4, <2>6, <4>3, <4>4, <4>5 DEF RootFaithful
    <3> QED
      BY <1>14, <2>6, <3>1, <3>2, <3>3 DEF RootOK
  <2>7. ASSUME NEW q, q.depth = root.depth, q.alpha = root.alpha, q.beta = root.beta, q.pos = root.pos,
               root' = q
        PROVE  /\ q.at = "scout" => RootCall' = Asked(m, deep - q.red, -root.alpha - 1, -root.alpha)
               /\ q.at = "full" => RootCall' = Asked(m, deep, -root.beta, -root.alpha)
    <3>1. RootMove' = m
      BY <1>4, <1>5, <2>7 DEF RootMove
    <3>2. RootDeep' = deep
      BY <1>4, <1>5, <1>6, <2>7, <3>1 DEF RootDeep
    <3> QED
      BY <2>7, <3>1, <3>2 DEF RootCall
  <2>8. CASE root.pos = 0
    <3>1. PICK q : q = [r EXCEPT !.at = "full"]
      OBVIOUS
    <3>2. root' = q /\ stack' = <<Frame(m, deep, -root.beta, -root.alpha)>>
      BY <2>2, <2>8, <3>1
    <3>3. /\ q \in RootSet /\ q.at = "full" /\ q.depth = root.depth
          /\ q.margin = root.margin /\ q.alpha = root.alpha /\ q.beta = root.beta
          /\ q.oldAlpha = root.oldAlpha /\ q.bs = root.bs /\ q.bm = root.bm
          /\ q.pos = root.pos /\ q.seen = seen
      BY <1>12, <3>1 DEF RootSet, InPass
    <3>4. RootOK'
      BY <2>6, <3>2, <3>3
    <3>5. RootCall' = Asked(m, deep, -root.beta, -root.alpha)
      BY <2>7, <3>2, <3>3
    <3>6. StackOK'
      BY <2>1, <2>5, <3>2, <3>3, <3>5, RootPushes
    <3> QED
      BY <1>13, <3>4, <3>6 DEF IInv
  <2>9. CASE root.pos # 0
    <3>1. PICK q : q = [r EXCEPT !.red = red, !.at = "scout"]
      OBVIOUS
    <3>2. root' = q /\ stack' = <<Frame(m, deep - red, -root.alpha - 1, -root.alpha)>>
      BY <2>2, <2>9, <3>1
    <3>3. /\ q \in RootSet /\ q.at = "scout" /\ q.depth = root.depth
          /\ q.margin = root.margin /\ q.alpha = root.alpha /\ q.beta = root.beta
          /\ q.oldAlpha = root.oldAlpha /\ q.bs = root.bs /\ q.bm = root.bm
          /\ q.pos = root.pos /\ q.seen = seen /\ q.red = red
      <4>1. PICK p : p = [r EXCEPT !.red = red]
        OBVIOUS
      <4>2. q = [p EXCEPT !.at = "scout"]
        BY <3>1, <4>1, Zenon
      <4>3. /\ p \in RootSet /\ p.depth = root.depth
            /\ p.margin = root.margin /\ p.alpha = root.alpha /\ p.beta = root.beta
            /\ p.oldAlpha = root.oldAlpha /\ p.bs = root.bs /\ p.bm = root.bm
            /\ p.pos = root.pos /\ p.seen = seen /\ p.red = red
        BY <1>12, <2>3, <4>1 DEF RootSet
      <4> QED
        BY <4>2, <4>3 DEF RootSet, InPass
    <3>4. RootOK'
      BY <2>6, <3>2, <3>3
    <3>5. RootCall' = Asked(m, deep - red, -root.alpha - 1, -root.alpha)
      BY <2>7, <3>2, <3>3
    <3>6. StackOK'
      BY <2>1, <2>5, <3>2, <3>3, <3>5, RootPushes
    <3> QED
      BY <1>13, <3>4, <3>6 DEF IInv
  <2> QED
    BY <2>8, <2>9
<1> QED
  BY <1>16, <1>17

\* The root's value: the best score of its moves.
LEMMA RootValueIs ==
  ASSUME RootShape, NEW d \in Int, d >= 1
  PROVE  /\ ValueOf(ev)[Root][d] \in Int
         /\ \A m \in Moves(Root) : /\ ScoreOf(ev, Root, m, d) \in Int
                                   /\ ValueOf(ev)[Root][d] >= ScoreOf(ev, Root, m, d)
         /\ \E m \in Moves(Root) : ValueOf(ev)[Root][d] = ScoreOf(ev, Root, m, d)
<1>1. ev \in Evals
  BY DEF RootShape
<1>2. MaxPly \in Nat \ {0}
  BY ScoresAre
<1>3. /\ Root \in Node /\ PlyOf(Root) = 0 /\ ~Position[Root].drawn /\ Moves(Root) \subseteq Node
      /\ Moves(Root) # {}
  <2>1. Root \in Node /\ PlyOf(Root) = 0 /\ ~Position[Root].drawn /\ Moves(Root) \subseteq Node
    BY RootMovesAre
  <2>2. ml \in [1..Len(ml) -> Moves(Root)] /\ Len(ml) >= 1 /\ Cardinality(Moves(Root)) \in Nat
        /\ Len(ml) = Cardinality(Moves(Root))
    BY RootMovesAre
  <2>3. 1 \in 1..Len(ml)
    BY <2>2
  <2> QED
    BY <2>1, <2>2, <2>3
<1>4. PICK val : val = ValueOf(ev)[Root][d]
  OBVIOUS
<1>5. val \in Int /\ ValueIs(ev, Root, d, val)
  BY <1>1, <1>2, <1>3, <1>4, ValueInReach, ValueRight
<1>6. BestOf(ev, Root, d, val)
  BY <1>2, <1>3, <1>5 DEF ValueIs
<1>7. d > 0 /\ ~(d <= 0)
  OBVIOUS
<1>8. Tried(Root, d, FALSE) = Moves(Root) /\ ~Quiet(Root, d)
  BY <1>3, <1>7, TriedAre DEF Quiet
<1>9. ASSUME NEW m \in Moves(Root)
      PROVE  ScoreOf(ev, Root, m, d) \in Int
  <2>1. m \in Node /\ PlyOf(m) <= MaxPly
    BY <1>2, <1>3, GameIs
  <2>2. Below(Root, m, d) \in Int
    BY ExtensionIs
  <2>3. ValueOf(ev)[m][Below(Root, m, d)] \in Int
    BY <1>1, <2>1, <2>2, ValueInReach
  <2> QED
    BY <2>3 DEF ScoreOf
<1>10. /\ \A m \in Moves(Root) : val >= ScoreOf(ev, Root, m, d)
       /\ \E m \in Moves(Root) : val = ScoreOf(ev, Root, m, d)
  BY <1>3, <1>6, <1>8 DEF BestOf
<1> QED
  BY <1>4, <1>5, <1>9, <1>10

\* Moving a move to the front changes the order of the moves up to it only.
SameUpTo(s, k) ==
  /\ s \in [1..Len(ml) -> Moves(Root)]
  /\ \A i, j \in 1..Len(ml) : s[i] = s[j] => i = j
  /\ \A i \in 1..k : \E j \in 1..k : s[i] = ml[j]
  /\ \A j \in 1..k : \E i \in 1..k : s[i] = ml[j]

\* MoveToFront leaves out no move and doubles none.
LEMMA ToFrontIs ==
  ASSUME RootShape, NEW k \in 1..Len(ml)
  PROVE  SameUpTo(ToFront(ml, k), k)
<1> DEFINE s == ToFront(ml, k)
<1> HIDE DEF s
<1>1. PICK n \in Nat : n = Len(ml)
  BY RootMovesAre
<1>2. /\ ml \in [1..n -> Moves(Root)] /\ DOMAIN ml = 1..n /\ k \in 1..n
      /\ \A i, j \in 1..n : ml[i] = ml[j] => i = j
  <2>1. ml \in [1..n -> Moves(Root)] /\ DOMAIN ml = 1..n
    BY <1>1, RootMovesAre
  <2>2. \A i, j \in DOMAIN ml : ml[i] = ml[j] => i = j
    BY DEF RootShape
  <2> QED
    BY <1>1, <2>1, <2>2
<1>3. s = [j \in 1..n |-> IF j = 1 THEN ml[k] ELSE IF j <= k THEN ml[j - 1] ELSE ml[j]]
  BY <1>2 DEF ToFront, s
<1>4. ASSUME NEW j \in 1..n
      PROVE  /\ j = 1 => s[j] = ml[k]
             /\ j # 1 /\ j <= k => s[j] = ml[j - 1] /\ j - 1 \in 1..n
             /\ ~(j <= k) => s[j] = ml[j] /\ j # 1
  BY <1>2, <1>3
<1>5. \A j \in 1..n : \E i \in 1..n : /\ s[j] = ml[i] /\ (j <= k => i <= k)
                                      /\ i = IF j = 1 THEN k ELSE IF j <= k THEN j - 1 ELSE j
  <2>1. ASSUME NEW j \in 1..n
        PROVE  \E i \in 1..n : /\ s[j] = ml[i] /\ (j <= k => i <= k)
                               /\ i = IF j = 1 THEN k ELSE IF j <= k THEN j - 1 ELSE j
    <3>1. CASE j = 1
      BY <1>2, <1>4, <3>1
    <3>2. CASE j # 1 /\ j <= k
      <4>1. s[j] = ml[j - 1] /\ j - 1 \in 1..n /\ j - 1 <= k
        BY <1>2, <1>4, <3>2
      <4> QED
        BY <3>2, <4>1
    <3>3. CASE ~(j <= k)
      BY <1>4, <3>3
    <3> QED
      BY <3>1, <3>2, <3>3
  <2> QED
    BY <2>1
<1>6. s \in [1..n -> Moves(Root)]
  <2>1. ASSUME NEW j \in 1..n
        PROVE  s[j] \in Moves(Root)
    <3>1. PICK i \in 1..n : s[j] = ml[i]
      BY <1>5
    <3> QED
      BY <1>2, <3>1
  <2> QED
    BY <1>3, <2>1
<1>7. ASSUME NEW i \in 1..n, NEW j \in 1..n, s[i] = s[j]
      PROVE  i = j
  <2>1. PICK a \in 1..n : s[i] = ml[a] /\ a = IF i = 1 THEN k ELSE IF i <= k THEN i - 1 ELSE i
    BY <1>5
  <2>2. PICK b \in 1..n : s[j] = ml[b] /\ b = IF j = 1 THEN k ELSE IF j <= k THEN j - 1 ELSE j
    BY <1>5
  <2>3. a = b
    BY <1>2, <1>7, <2>1, <2>2
  <2> QED
    BY <1>2, <2>1, <2>2, <2>3
<1>8. ASSUME NEW j \in 1..k
      PROVE  \E i \in 1..k : s[i] = ml[j]
  <2>1. CASE j = k
    <3>1. 1 \in 1..n /\ 1 \in 1..k
      BY <1>2
    <3> QED
      BY <1>4, <2>1, <3>1
  <2>2. CASE j # k
    <3>1. j + 1 \in 1..n /\ j + 1 \in 1..k /\ j + 1 # 1 /\ j + 1 <= k /\ (j + 1) - 1 = j
      BY <1>2, <2>2
    <3>2. s[j + 1] = ml[j]
      BY <1>4, <3>1
    <3> QED
      BY <3>1, <3>2
  <2> QED
    BY <2>1, <2>2
<1>9. ASSUME NEW i \in 1..k
      PROVE  \E j \in 1..k : s[i] = ml[j]
  <2>1. i \in 1..n /\ i <= k
    BY <1>2
  <2>2. PICK j \in 1..n : s[i] = ml[j] /\ (i <= k => j <= k)
    BY <1>5, <2>1
  <2>3. j \in 1..k
    BY <1>2, <2>1, <2>2
  <2> QED
    BY <2>2, <2>3
<1>10. SameUpTo(s, k)
  BY <1>1, <1>6, <1>7, <1>8, <1>9 DEF SameUpTo
<1> QED
  BY <1>10 DEF s

\* What the root may take: the score of its move, as far as the window says.
RootTakes(sc) ==
  /\ sc > root.alpha => ScoreOf(ev, Root, RootMove, root.depth) >= sc
  /\ sc < root.beta => ScoreOf(ev, Root, RootMove, root.depth) <= sc

\* What a root move's call brings back.
LEMMA RootAnswered ==
  ASSUME IInv, NEW where \in {"scout", "full"}, AtRoot(where), ret # <<>>, NEW sc, sc = -ret[1]
  PROVE  /\ sc \in Values /\ (~stop => sc \in RootReach)
         /\ Exact /\ where = "full" => RootTakes(sc)
         /\ Exact /\ where = "scout" /\ root.red = 0 /\ sc <= root.alpha => RootTakes(sc)
<1>1. /\ RootShape /\ root.at = where /\ root.depth \in Int /\ root.red \in Nat
      /\ root.alpha \in Int /\ root.beta \in Int /\ ev \in Evals
  BY AtRootIs
<1>2. PICK m : m = RootMove
  OBVIOUS
<1>3. m \in Moves(Root) /\ m \in Node /\ PlyOf(m) = 1 /\ Root \in Node
  <2>1. /\ ml \in [1..Len(ml) -> Moves(Root)] /\ Root \in Node /\ PlyOf(Root) = 0
        /\ Moves(Root) \subseteq Node
    BY <1>1, RootMovesAre
  <2>2. root.pos + 1 \in 1..Len(ml)
    BY <1>1 DEF RootShape
  <2>3. m \in Moves(Root)
    BY <1>2, <2>1, <2>2 DEF RootMove
  <2> QED
    BY <2>1, <2>3, GameIs
<1>4. PICK c : c = RootCall
  OBVIOUS
<1>5. AnswerOK(c, ret[1], ret[2])
  BY <1>4, AtRootIs
<1>6. /\ c.node = m
      /\ where = "scout" => /\ c.depth = RootDeep - root.red
                            /\ c.alpha = -root.alpha - 1 /\ c.beta = -root.alpha
      /\ where = "full" => c.depth = RootDeep /\ c.alpha = -root.beta /\ c.beta = -root.alpha
  BY <1>1, <1>2, <1>4 DEF RootCall, Asked
<1>7. PICK r \in Values : r = ret[1] /\ sc = -r /\ r \in Int
  BY <1>5, ScoresAre DEF AnswerOK, Values
<1>8. ~stop => r \in Reach(1)
  BY <1>3, <1>5, <1>6, <1>7 DEF AnswerOK
<1>9. sc \in Values /\ (~stop => sc \in RootReach)
  BY <1>7, <1>8, ScoresAre DEF Values, Reach, RootReach
<1>10. ASSUME Exact, where = "full" \/ (where = "scout" /\ root.red = 0 /\ sc <= root.alpha)
       PROVE  RootTakes(sc)
  <2>1. SameExtension(m, root.depth)
    <3>1. Exact => RootFaithful
      BY AtRootIs
    <3> QED
      BY <1>1, <1>2, <1>10, <3>1 DEF RootFaithful
  <2>2. PICK d \in Int, a \in Int, b \in Int :
          d = root.depth /\ a = root.alpha /\ b = root.beta /\ a < b
    BY <1>1 DEF RootShape, InPass
  <2>3. RootDeep = Below(Root, m, d)
    BY <1>2, <2>1, <2>2 DEF RootDeep, Below, SameExtension
  <2>4. PICK deep \in Int : deep = RootDeep
    BY <2>2, <2>3, ExtensionIs
  <2>5. c.depth = deep
    BY <1>1, <1>6, <1>10, <2>4
  <2>6. PICK v \in Int : v = ValueOf(ev)[m][deep]
    <3>1. PlyOf(m) <= MaxPly
      BY <1>3, ScoresAre
    <3> QED
      BY <1>1, <1>3, <2>4, <3>1, ValueInReach
  <2>7. ScoreOf(ev, Root, RootMove, root.depth) = -v
    BY <1>2, <2>2, <2>3, <2>4, <2>6 DEF ScoreOf
  <2>8. /\ r > c.alpha => v >= r
        /\ r < c.beta => v <= r
    BY <1>5, <1>6, <1>7, <1>10, <2>5, <2>6 DEF AnswerOK, Bounds
  <2>9. CASE where = "full"
    <3>1. c.alpha = -b /\ c.beta = -a
      BY <1>6, <2>2, <2>9
    <3>2. (r > -b => v >= r) /\ (r < -a => v <= r)
      BY <2>8, <3>1
    <3>3. r \in Int /\ sc = -r
      BY <1>7
    <3>4. /\ sc > a => -v >= sc
          /\ sc < b => -v <= sc
      BY <2>2, <2>6, <3>2, <3>3, SMTT(30)
    <3> QED
      BY <2>2, <2>7, <3>4 DEF RootTakes
  <2>10. CASE where = "scout" /\ sc <= root.alpha
    <3>1. c.alpha = -a - 1 /\ sc <= a
      BY <1>6, <2>2, <2>10
    <3>2. -v <= sc /\ ~(sc > a)
      BY <1>7, <2>2, <2>6, <2>8, <3>1
    <3> QED
      BY <2>2, <2>7, <3>2 DEF RootTakes
  <2> QED
    BY <1>10, <2>9, <2>10
<1> QED
  BY <1>9, <1>10

\* The root's variables after a move that is taken.
LEMMA RootTookIs ==
  ASSUME IInv, root.at \in {"scout", "full"}, ~stop, NEW sc \in RootReach, RootTook(sc),
         NEW raises \in BOOLEAN, raises <=> sc > root.bs /\ sc > root.alpha
  PROVE  /\ root' \in RootSet
         /\ root'.depth = root.depth /\ root'.margin = root.margin /\ root'.beta = root.beta
         /\ root'.oldAlpha = root.oldAlpha /\ root'.seen = root.seen
         /\ root'.bs = Larger(root.bs, sc) /\ root'.pos = root.pos + 1
         /\ root'.bm = (IF raises THEN RootMove ELSE root.bm)
         /\ root'.alpha = (IF raises THEN sc ELSE root.alpha)
         /\ root'.at = (IF raises /\ sc >= root.beta THEN "passed" ELSE "loop")
         /\ best' = (IF sc <= root.bs THEN best
                     ELSE [depth |-> root.depth, move |-> RootMove, score |-> sc,
                           type |-> scoreType(sc, root.alpha, root.beta)])
         /\ ml' = (IF raises THEN ToFront(ml, root.pos + 1) ELSE ml)
         /\ IF raises THEN Store(RootFrame, RootMove, sc, Lower) ELSE UNCHANGED table
<1>1. /\ best' = IF sc <= root.bs THEN best
                 ELSE [depth |-> root.depth, move |-> RootMove, score |-> sc,
                       type |-> scoreType(sc, root.alpha, root.beta)]
      /\ ml' = IF raises THEN ToFront(ml, root.pos + 1) ELSE ml
      /\ IF raises THEN Store(RootFrame, RootMove, sc, Lower) ELSE UNCHANGED table
  BY Zenon DEF RootTook
<1>2. RootShape /\ root \in RootSet
  BY DEF IInv, RootOK, RootShape
<1>3. PICK nb, pos, bm, a, w : /\ nb = Larger(root.bs, sc) /\ pos = root.pos + 1
                               /\ bm = (IF raises THEN RootMove ELSE root.bm)
                               /\ a = (IF raises THEN sc ELSE root.alpha)
                               /\ w = (IF raises /\ sc >= root.beta THEN "passed" ELSE "loop")
  OBVIOUS
<1>4. PICK x, p, y, z : /\ x = [root EXCEPT !.bs = nb] /\ p = [x EXCEPT !.pos = pos]
                        /\ y = [p EXCEPT !.bm = bm] /\ z = [y EXCEPT !.alpha = a]
  OBVIOUS
<1>5. root' = [z EXCEPT !.at = w]
  BY <1>3, <1>4, Zenon DEF RootTook, FailsHigh
<1>6. sc \in Int /\ nb \in Int /\ pos \in Nat /\ bm \in Nat /\ a \in Int /\ w \in {"passed", "loop"}
  <2>1. sc \in Int
    BY ScoresAre DEF RootReach
  <2>2. root.bs \in Int /\ root.pos \in Nat /\ root.alpha \in Int /\ root.bm \in Nat
    BY <1>2 DEF RootSet
  <2>3. RootMove \in Nat
    <3>1. ml \in [1..Len(ml) -> Moves(Root)] /\ Root \in Node /\ Moves(Root) \subseteq Node
      BY <1>2, RootMovesAre
    <3>2. root.pos + 1 \in 1..Len(ml)
      BY <1>2 DEF RootShape
    <3>3. RootMove \in Node
      BY <3>1, <3>2 DEF RootMove
    <3> QED
      BY <3>3, GameIs
  <2> QED
    BY <1>3, <2>1, <2>2, <2>3 DEF Larger
<1>7. PICK r, q : r = root /\ q = root'
  OBVIOUS
<1>8. r \in RootSet
  BY <1>2, <1>7
<1>9. /\ x \in RootSet /\ x.depth = r.depth /\ x.margin = r.margin /\ x.beta = r.beta
        /\ x.oldAlpha = r.oldAlpha /\ x.seen = r.seen /\ x.bs = nb
  <2>1. nb \in Int
    BY <1>6
  <2>2. x = [r EXCEPT !.bs = nb]
    BY <1>4, <1>5, <1>7
  <2> QED
    BY <1>8, <2>1, <2>2 DEF RootSet, InPass
<1>10. /\ p \in RootSet /\ p.depth = x.depth /\ p.margin = x.margin /\ p.beta = x.beta
        /\ p.oldAlpha = x.oldAlpha /\ p.seen = x.seen /\ p.bs = x.bs /\ p.pos = pos
  <2>1. pos \in Nat
    BY <1>6
  <2>2. p = [x EXCEPT !.pos = pos]
    BY <1>4, <1>5, <1>7
  <2> QED
    BY <1>9, <2>1, <2>2 DEF RootSet, InPass
<1>11. /\ y \in RootSet /\ y.depth = p.depth /\ y.margin = p.margin /\ y.beta = p.beta
        /\ y.oldAlpha = p.oldAlpha /\ y.seen = p.seen /\ y.bs = p.bs /\ y.pos = p.pos /\ y.bm = bm
  <2>1. bm \in Nat
    BY <1>6
  <2>2. y = [p EXCEPT !.bm = bm]
    BY <1>4, <1>5, <1>7
  <2> QED
    BY <1>10, <2>1, <2>2 DEF RootSet, InPass
<1>12. /\ z \in RootSet /\ z.depth = y.depth /\ z.margin = y.margin /\ z.beta = y.beta
        /\ z.oldAlpha = y.oldAlpha /\ z.seen = y.seen /\ z.bs = y.bs /\ z.pos = y.pos /\ z.bm = y.bm /\ z.alpha = a
  <2>1. a \in Int
    BY <1>6
  <2>2. z = [y EXCEPT !.alpha = a]
    BY <1>4, <1>5, <1>7
  <2> QED
    BY <1>11, <2>1, <2>2 DEF RootSet, InPass
<1>13. /\ q \in RootSet /\ q.depth = z.depth /\ q.margin = z.margin /\ q.beta = z.beta
        /\ q.oldAlpha = z.oldAlpha /\ q.seen = z.seen /\ q.bs = z.bs /\ q.pos = z.pos /\ q.bm = z.bm /\ q.alpha = z.alpha /\ q.at = w
  <2>1. w \in {"passed", "loop"}
    BY <1>6
  <2>2. q = [z EXCEPT !.at = w]
    BY <1>4, <1>5, <1>7
  <2> QED
    BY <1>12, <2>1, <2>2 DEF RootSet, InPass
<1> QED
  BY <1>1, <1>3, <1>7, <1>9, <1>10, <1>11, <1>12, <1>13

\* The root takes a score, or stops.
LEMMA RootTookKeeps ==
  ASSUME IInv, NEW where \in {"scout", "full"}, AtRoot(where), ret # <<>>, RootStep,
         plain' => plain, plain' \in BOOLEAN, NEW sc \in Values, ~stop => sc \in RootReach,
         Exact' => RootTakes(sc), RootTook(sc)
  PROVE  IInv' /\ Dated
<1>1. /\ stack = <<>> /\ root.at = where /\ RootShape /\ (~stop => RootPossible)
      /\ (Exact => RootFaithful) /\ CompletedOK /\ TableOK
  BY AtRootIs
<1>2. /\ root \in RootSet /\ root.depth \in Int /\ root.pos \in Nat
      /\ root.alpha \in Int /\ root.beta \in Int /\ root.oldAlpha \in Int /\ root.bs \in Int
      /\ root.depth <= 99 /\ ev \in Evals
  BY AtRootIs
<1>3. Root' = Root /\ ev' = ev /\ stop' = stop /\ lastScore' = lastScore /\ completed' = completed
  BY DEF RootStep
<1>4. ret' = <<>> /\ stack' = <<>>
  BY <1>1, Zenon DEF RootTook
<1>5. CompletedOK'
  BY <1>1, <1>3, CompletedKept
<1>6. Exact' => Exact
  BY <1>3 DEF Exact
<1>7. Onward
  BY <1>3 DEF Onward
<1>8. PICK k \in Nat : k = root.pos + 1
  BY <1>2
<1>9. PICK m : m = RootMove /\ m = ml[k]
  BY <1>8 DEF RootMove
<1>10. PICK n \in Nat : /\ n = Len(ml) /\ n = Cardinality(Moves(Root)) /\ ml \in [1..n -> Moves(Root)]
                        /\ DOMAIN ml = 1..n /\ Moves(Root) \subseteq Node /\ Root \in Node /\ PlyOf(Root) = 0
  BY <1>1, RootMovesAre
<1>11. k \in 1..n /\ root.seen = {ml[i] : i \in 1..k} /\ root.alpha < root.beta
  BY <1>1, <1>8, <1>10 DEF RootShape, InPass
<1>12. m \in Moves(Root) /\ m \in Node
  BY <1>9, <1>10, <1>11
<1>13. CASE stop
  <2>1. root' = [root EXCEPT !.at = "passed"] /\ best' = best /\ ml' = ml /\ UNCHANGED table
    BY <1>13, Zenon DEF RootTook
  <2>2. PICK q : q = root'
    OBVIOUS
  <2>3. /\ q \in RootSet /\ q.depth = root.depth /\ q.alpha = root.alpha /\ q.beta = root.beta
        /\ q.oldAlpha = root.oldAlpha /\ q.bs = root.bs /\ q.bm = root.bm /\ q.margin = root.margin
        /\ q.at = "passed"
    <3>1. root \in RootSet /\ q = [root EXCEPT !.at = "passed"]
      BY <1>2, <2>1, <2>2
    <3> QED
      BY <3>1, RootGoes
  <2>4. RootShape'
    BY <1>1, <1>3, <2>1, <2>2, <2>3 DEF RootShape, InPass
  <2>5. RootOK'
    BY <1>3, <1>5, <1>13, <2>2, <2>3, <2>4 DEF RootOK, Exact
  <2>6. StackOK'
    BY <1>4, <2>2, <2>3, NoCall
  <2>7. TableOK' /\ Dated
    BY <1>1, <1>7, <2>1, TableKept
  <2> QED
    BY <2>5, <2>6, <2>7 DEF IInv
<1>14. CASE ~stop
  <2>1. sc \in RootReach /\ RootPossible /\ (Exact => RootFaithful)
    BY <1>1, <1>14
  <2>2. PICK bs \in Int, oa \in Int, b \in Int, a \in Int, v \in Int, d \in Int :
          /\ bs = root.bs /\ oa = root.oldAlpha /\ b = root.beta /\ a = root.alpha /\ v = sc /\ d = root.depth
    <3>1. sc \in Int
      BY ScoresAre DEF Values
    <3>2. root.bs \in Int /\ root.oldAlpha \in Int /\ root.beta \in Int /\ root.alpha \in Int
          /\ root.depth \in Int
      BY <1>2
    <3> QED
      BY <3>1, <3>2, Zenon
  <2>3. a = Larger(oa, bs) /\ a < b /\ (root.pos = 0 => bs = NoScore) /\ (root.pos # 0 => BestTells)
    BY <1>1, <1>11, <2>1, <2>2 DEF RootPossible, InPass
  <2>4. PICK raises \in BOOLEAN : raises <=> v > bs /\ v > a
    OBVIOUS
  <2>5. PICK na, nb \in Int : na = (IF raises THEN v ELSE a) /\ nb = Larger(bs, v)
    BY <2>2 DEF Larger
  <2>6. /\ na = Larger(oa, nb) /\ nb >= bs /\ nb >= v
        /\ v > bs => (v > a <=> v > oa) /\ nb = v
        /\ v <= bs => nb = bs
        /\ ~(raises /\ v >= b) => v < b /\ na < b
    <3>1. bs \in Int /\ oa \in Int /\ b \in Int /\ a \in Int /\ v \in Int
      BY <2>2
    <3>2. a = Larger(oa, bs) /\ a < b
      BY <2>3
    <3>3. na = (IF raises THEN v ELSE a) /\ nb = Larger(bs, v)
      BY <2>5
    <3>4. CASE raises
      <4>1. v > bs /\ v > a /\ na = v
        BY <2>4, <3>3, <3>4
      <4> QED
        BY <3>1, <3>2, <3>3, <4>1 DEF Larger
    <3>5. CASE ~raises
      <4>1. ~(v > bs /\ v > a) /\ na = a
        BY <2>4, <3>3, <3>5
      <4> QED
        BY <3>1, <3>2, <3>3, <4>1 DEF Larger
    <3> QED
      BY <3>4, <3>5
  <2>7. PICK w : w = IF raises /\ v >= b THEN "passed" ELSE "loop"
    OBVIOUS
  <2>8. raises <=> sc > root.bs /\ sc > root.alpha
    BY <2>2, <2>4
  <2>9. /\ root' \in RootSet
        /\ root'.depth = root.depth /\ root'.margin = root.margin /\ root'.beta = root.beta
        /\ root'.oldAlpha = root.oldAlpha /\ root'.seen = root.seen
        /\ root'.bs = Larger(root.bs, sc) /\ root'.pos = root.pos + 1
        /\ root'.bm = (IF raises THEN RootMove ELSE root.bm)
        /\ root'.alpha = (IF raises THEN sc ELSE root.alpha)
        /\ root'.at = (IF raises /\ sc >= root.beta THEN "passed" ELSE "loop")
        /\ best' = (IF sc <= root.bs THEN best
                    ELSE [depth |-> root.depth, move |-> RootMove, score |-> sc,
                          type |-> scoreType(sc, root.alpha, root.beta)])
        /\ ml' = (IF raises THEN ToFront(ml, root.pos + 1) ELSE ml)
        /\ IF raises THEN Store(RootFrame, RootMove, sc, Lower) ELSE UNCHANGED table
    BY <1>1, <1>14, <2>1, <2>4, <2>8, RootTookIs
  <2>10. PICK q : q = root'
    OBVIOUS
  <2>11. /\ q \in RootSet /\ q.depth = d /\ q.margin = root.margin /\ q.beta = b /\ q.oldAlpha = oa
         /\ q.seen = root.seen /\ q.bs = nb /\ q.pos = k /\ q.alpha = na /\ q.at = w
         /\ q.bm = (IF raises THEN m ELSE root.bm)
    BY <1>8, <1>9, <2>2, <2>5, <2>7, <2>9, <2>10
  <2>12. w \in {"loop", "passed"} /\ w \notin {"scout", "full"}
    BY <2>7
  <2>13. PICK t : t = best'
    OBVIOUS
  <2>14. /\ v <= bs => t = best
         /\ v > bs => t = [depth |-> d, move |-> m, score |-> v, type |-> scoreType(v, a, b)]
    <3>1. best' = IF sc <= root.bs THEN best
                  ELSE [depth |-> root.depth, move |-> RootMove, score |-> sc,
                        type |-> scoreType(sc, root.alpha, root.beta)]
      BY <2>9
    <3>2. t = IF v <= bs THEN best
              ELSE [depth |-> d, move |-> m, score |-> v, type |-> scoreType(v, a, b)]
      BY <1>9, <2>2, <2>13, <3>1
    <3>3. v \in Int /\ bs \in Int
      BY <2>2
    <3>4. v > bs => ~(v <= bs)
      BY <3>3
    <3> QED
      BY <3>2, <3>4, Zenon
  <2>15. PICK s : s = ml'
    OBVIOUS
  <2>16. /\ s \in [1..n -> Moves(Root)] /\ DOMAIN s = 1..n /\ \A i, j \in 1..n : s[i] = s[j] => i = j
         /\ \A i \in 1..k : \E j \in 1..k : s[i] = ml[j]
         /\ \A j \in 1..k : \E i \in 1..k : s[i] = ml[j]
    <3>1. CASE raises
      <4>1. s = ToFront(ml, k)
        BY <1>8, <2>9, <2>15, <3>1
      <4>2. k \in 1..Len(ml) /\ n = Len(ml)
        BY <1>10, <1>11
      <4>3. /\ s \in [1..Len(ml) -> Moves(Root)] /\ (\A i, j \in 1..Len(ml) : s[i] = s[j] => i = j)
            /\ (\A i \in 1..k : \E j \in 1..k : s[i] = ml[j])
            /\ (\A j \in 1..k : \E i \in 1..k : s[i] = ml[j])
        <5>1. RootShape
          BY <1>1
        <5>2. SameUpTo(s, k)
          BY <4>1, <4>2, <5>1, ToFrontIs
        <5> QED
          BY <5>2 DEF SameUpTo
      <4> QED
        BY <4>2, <4>3
    <3>2. CASE ~raises
      <4>1. s = ml
        BY <2>9, <2>15, <3>2
      <4>2. \A i, j \in 1..n : ml[i] = ml[j] => i = j
        BY <1>1, <1>10 DEF RootShape
      <4> QED
        BY <1>10, <4>1, <4>2
    <3> QED
      BY <3>1, <3>2
  <2>17. q.seen = {s[i] : i \in 1..k}
    <3>1. {s[i] : i \in 1..k} = {ml[i] : i \in 1..k}
      <4>1. ASSUME NEW x \in {s[i] : i \in 1..k}
            PROVE  x \in {ml[i] : i \in 1..k}
        <5>1. PICK i \in 1..k : x = s[i]
          BY <4>1
        <5>2. PICK j \in 1..k : s[i] = ml[j]
          BY <2>16, <5>1
        <5> QED
          BY <5>1, <5>2
      <4>2. ASSUME NEW x \in {ml[i] : i \in 1..k}
            PROVE  x \in {s[i] : i \in 1..k}
        <5>1. PICK j \in 1..k : x = ml[j]
          BY <4>2
        <5>2. PICK i \in 1..k : s[i] = ml[j]
          BY <2>16, <5>1
        <5> QED
          BY <5>1, <5>2
      <4> QED
        BY <4>1, <4>2
    <3> QED
      BY <1>11, <2>11, <3>1
  <2>18. t \in BestSet /\ t.move \in Moves(Root)
    <3>1. best \in BestSet /\ best.move \in Moves(Root)
      BY <1>1 DEF RootShape
    <3>2. d \in 0..MaxDepth /\ m \in Nat /\ scoreType(v, a, b) \in Nat
      BY <1>2, <1>12, <2>2, GameIs, ScoreTypeIs DEF RootSet
    <3>3. CASE v <= bs
      BY <2>14, <3>1, <3>3
    <3>4. CASE v > bs
      BY <1>12, <2>14, <3>2, <3>4 DEF BestSet
    <3> QED
      BY <3>3, <3>4
  <2>19. nb \in RootReach /\ nb \in Values
    <3>1. ASSUME v > bs
          PROVE  nb \in RootReach
      <4>1. v \in RootReach /\ nb = v
        BY <2>1, <2>2, <2>6, <3>1
      <4> QED
        BY <4>1
    <3>2. ASSUME v <= bs
          PROVE  nb \in RootReach
      <4>1. v >= 2 - Mate /\ NoScore = -Mate /\ Mate \in Int
        BY <2>1, <2>2, ScoresAre DEF RootReach
      <4>2. root.pos # 0
        BY <2>3, <3>2, <4>1
      <4>3. bs \in RootReach
        BY <2>2, <2>3, <4>2 DEF BestTells
      <4>4. nb = bs
        BY <2>6, <3>2
      <4> QED
        BY <4>3, <4>4
    <3>3. nb \in RootReach
      BY <3>1, <3>2
    <3>4. Mate \in Nat
      BY ScoresAre
    <3> QED
      BY <3>3, <3>4 DEF RootReach, Values
  <2>20. BestTells'
    <3>1. t.depth = d /\ t.score = nb /\ t.type = scoreType(nb, oa, b)
      <4>1. CASE v > bs
        <5>1. t.depth = d /\ t.score = v /\ t.type = scoreType(v, a, b)
          BY <2>14, <4>1
        <5>2. scoreType(v, a, b) = scoreType(v, oa, b)
          BY <2>6, <4>1 DEF scoreType
        <5> QED
          BY <2>6, <4>1, <5>1, <5>2
      <4>2. CASE v <= bs
        <5>1. v >= 2 - Mate /\ NoScore = -Mate /\ Mate \in Int
          BY <2>1, <2>2, ScoresAre DEF RootReach
        <5>2. root.pos # 0
          BY <2>3, <4>2, <5>1
        <5>3. best.depth = d /\ best.score = bs /\ best.type = scoreType(bs, oa, b)
          BY <2>2, <2>3, <5>2 DEF BestTells
        <5> QED
          BY <2>6, <2>14, <4>2, <5>3
      <4> QED
        BY <4>1, <4>2
    <3> QED
      BY <2>10, <2>11, <2>13, <2>19, <3>1 DEF BestTells
  <2>21. RootShape'
    <3>1. na \in Values
      BY <1>1, <2>2, <2>5 DEF RootShape
    <3>2. q.bm \in OrNone(Root)
      BY <1>1, <1>12, <2>11 DEF RootShape, OrNone
    <3>3. w = "loop" => na < b
      BY <2>6, <2>7
    <3>4. k \in 0..n /\ Len(s) = n
      BY <1>11, <2>16
    <3>5. Root \in Roots /\ ev \in Evals /\ stop \in BOOLEAN /\ completed \in BestSet
          /\ lastScore \in Values /\ {root.beta, root.oldAlpha} \subseteq Values
          /\ completed.move \in Moves(Root) /\ root.depth >= 1
          /\ (root.margin = 0 => root.oldAlpha = MinScore /\ root.beta = MaxScore)
          /\ (root.margin # 0 => root.beta < MaxScore /\ ~IsMateScore(lastScore))
      BY <1>1 DEF RootShape, InPass
    <3>6. /\ {q.alpha, q.beta, q.oldAlpha, q.bs} \subseteq Values /\ q.depth >= 1
          /\ (q.margin = 0 => q.oldAlpha = MinScore /\ q.beta = MaxScore)
          /\ (q.margin # 0 => q.beta < MaxScore)
      BY <2>2, <2>11, <2>19, <3>1, <3>5
    <3>7. /\ q.at \in InPass => q.alpha < q.beta
          /\ q.at = "loop" => q.pos \in 0..Len(s) /\ q.seen = {s[i] : i \in 1..q.pos}
          /\ q.at \notin {"scout", "full"} /\ q.at # "iterate"
      BY <2>11, <2>12, <2>17, <3>3, <3>4 DEF InPass
    <3>8. /\ s \in [1..Cardinality(Moves(Root)) -> Moves(Root)]
          /\ \A i, j \in DOMAIN s : s[i] = s[j] => i = j
      BY <1>10, <2>16
    <3>9. /\ root' \in RootSet /\ root'.bm \in OrNone(Root) /\ root'.depth >= 1
          /\ {root'.alpha, root'.beta, root'.oldAlpha, root'.bs} \subseteq Values
          /\ (root'.margin = 0 => root'.oldAlpha = MinScore /\ root'.beta = MaxScore)
          /\ (root'.margin # 0 => root'.beta < MaxScore /\ ~IsMateScore(lastScore))
          /\ root'.at # "iterate" /\ root'.at \notin {"scout", "full"}
          /\ (root'.at \in InPass => root'.alpha < root'.beta)
          /\ (root'.at = "loop" => root'.pos \in 0..Len(s) /\ root'.seen = {s[i] : i \in 1..root'.pos})
      BY <2>10, <2>11, <3>2, <3>5, <3>6, <3>7
    <3>10. Root' \in Roots /\ ev' \in Evals /\ stop' \in BOOLEAN /\ plain' \in BOOLEAN
           /\ best' \in BestSet /\ best'.move \in Moves(Root)' /\ completed' \in BestSet
           /\ completed'.move \in Moves(Root)' /\ lastScore' \in Values
           /\ Moves(Root)' = Moves(Root)
      BY <1>3, <2>13, <2>18, <3>5 DEF Moves
    <3>11. /\ ml' \in [1..Cardinality(Moves(Root)) -> Moves(Root)]
           /\ \A i, j \in DOMAIN ml' : ml'[i] = ml'[j] => i = j
      BY <2>15, <3>8
    <3>12. root'.at = "loop" => root'.pos \in 0..Len(ml') /\ root'.seen = {ml'[i] : i \in 1..root'.pos}
      BY <2>15, <3>9
    <3>13. /\ root'.at = "iterate" => root'.depth < MaxDepth
           /\ root'.at \in {"scout", "full"} =>
                root'.pos + 1 \in 1..Len(ml') /\ root'.seen = {ml'[i] : i \in 1..(root'.pos + 1)}
      BY <3>9
    <3> QED
      BY <1>3, <3>9, <3>10, <3>11, <3>12, <3>13 DEF RootShape, OrNone
  <2>22. RootPossible'
    <3>1. k # 0
      BY <1>11
    <3> QED
      BY <2>6, <2>10, <2>11, <2>20, <3>1 DEF RootPossible
  <2>23. ASSUME Exact'
         PROVE  /\ SameExtension(m, d)
                /\ v > a => ScoreOf(ev, Root, m, d) >= v
                /\ v < b => ScoreOf(ev, Root, m, d) <= v
    <3>1. SameExtension(RootMove, root.depth)
      BY <1>1, <1>6, <2>23 DEF RootFaithful
    <3>2. RootTakes(sc)
      BY <2>23
    <3> QED
      BY <1>9, <2>2, <3>1, <3>2 DEF RootTakes
  <2>24. ASSUME Exact'
         PROVE  RootFaithful'
    <3>1. /\ bs > oa => SameExtension(best.move, d) /\ ScoreOf(ev, Root, best.move, d) >= bs
          /\ \A i \in 1..root.pos : ScoreOf(ev, Root, ml[i], d) <= bs
      BY <1>1, <1>6, <2>2, <2>24 DEF RootFaithful, InPass
    <3>2. nb > oa => SameExtension(t.move, d) /\ ScoreOf(ev, Root, t.move, d) >= nb
      <4>1. CASE v > bs
        BY <2>6, <2>14, <2>23, <2>24, <4>1
      <4>2. CASE v <= bs
        BY <2>6, <2>14, <3>1, <4>2
      <4> QED
        BY <4>1, <4>2
    <3>3. ASSUME w = "loop", NEW i \in 1..k
          PROVE  ScoreOf(ev, Root, s[i], d) <= nb
      <4>1. PICK j \in 1..k : s[i] = ml[j]
        BY <2>16
      <4>2. ScoreOf(ev, Root, ml[j], d) \in Int
        <5>1. ml[j] \in Moves(Root) /\ d >= 1
          <6>1. j \in 1..n
            BY <1>11
          <6>2. root.depth >= 1
            BY <1>1 DEF RootShape
          <6> QED
            BY <1>10, <2>2, <6>1, <6>2
        <5> QED
          BY <1>1, <5>1, RootValueIs
      <4>3. CASE j = k
        <5>1. ~(raises /\ v >= b)
          BY <2>7, <3>3
        <5>2. v < b
          BY <2>6, <5>1
        <5>3. ScoreOf(ev, Root, ml[j], d) <= v
          BY <1>9, <2>23, <2>24, <4>3, <5>2
        <5> QED
          BY <2>6, <4>1, <4>2, <5>3
      <4>4. CASE j # k
        <5>1. j \in 1..root.pos
          BY <1>2, <1>8, <4>4
        <5>2. ScoreOf(ev, Root, ml[j], d) <= bs
          BY <3>1, <5>1
        <5> QED
          BY <2>6, <4>1, <4>2, <5>2
      <4> QED
        BY <4>3, <4>4
    <3>4. w = "passed" => ~(nb < b)
      BY <2>4, <2>6, <2>7
    <3>5. (nb > oa => SameExtension(best.move, root.depth)')
      <4>1. SameExtension(best.move, root.depth)' = SameExtension(t.move, d)
        BY <1>3, <2>10, <2>11, <2>13 DEF SameExtension
      <4> QED
        BY <3>2, <4>1
    <3>6. (ScoreOf(ev, Root, best.move, root.depth))' = ScoreOf(ev, Root, t.move, d)
      BY <1>3, <2>10, <2>11, <2>13
    <3>7. q.at \notin {"scout", "full"} /\ (q.at \in InPass => q.at = "loop")
      BY <2>11, <2>12 DEF InPass
    <3> QED
      BY <1>3, <2>10, <2>11, <2>13, <2>15, <3>2, <3>3, <3>4, <3>5, <3>6, <3>7 DEF RootFaithful
  <2>25. RootOK'
    BY <1>5, <2>10, <2>11, <2>12, <2>21, <2>22, <2>24 DEF RootOK
  <2>26. StackOK'
    BY <1>4, <2>10, <2>11, <2>12, NoCall
  <2>27. TableOK' /\ Dated
    <3>1. CASE ~raises
      <4>1. UNCHANGED table
        BY <2>9, <3>1
      <4> QED
        BY <1>1, <1>7, <4>1, TableKept
    <3>2. CASE raises
      <4>1. PICK g : g = RootFrame
        OBVIOUS
      <4>2. g.node = Root /\ g.depth = d /\ g.depth \in Int /\ g.depth <= 99 /\ d >= 1
        <5>1. g.node = Root /\ g.depth = root.depth
          BY <4>1 DEF RootFrame, Frame
        <5>2. root.depth >= 1
          BY <1>1 DEF RootShape
        <5> QED
          BY <1>2, <2>2, <5>1, <5>2
      <4>3. Store(g, m, v, Lower)
        BY <1>9, <2>2, <2>9, <3>2, <4>1
      <4>4. g.node \in Node /\ PlyOf(g.node) <= MaxPly /\ m \in OrNone(g.node) /\ v \in Values
        <5>1. MaxPly \in Nat
          BY ScoresAre
        <5>2. g.node = Root /\ PlyOf(Root) = 0 /\ Root \in Node
          BY <1>10, <4>2
        <5>3. v \in Values
          BY <2>2
        <5> QED
          BY <1>12, <5>1, <5>2, <5>3 DEF OrNone
      <4>5. Lower \in {0} \cup TT!Types /\ TT!HasLower(Lower) /\ ~TT!HasUpper(Lower)
        BY DEF Lower, TT!Lower, TT!Upper, TT!Types, TT!HasLower, TT!HasUpper
      <4>6. v \in Reach(PlyOf(g.node))
        <5>1. Mate \in Nat
          BY ScoresAre
        <5> QED
          BY <1>10, <2>1, <2>2, <4>2, <5>1 DEF RootReach, Reach
      <4>7. ASSUME Exact'
            PROVE  ValueOf(ev)[g.node][g.depth] >= v
        <5>1. ScoreOf(ev, Root, m, d) >= v
          BY <2>4, <2>23, <3>2, <4>7
        <5>2. /\ ValueOf(ev)[Root][d] \in Int /\ ScoreOf(ev, Root, m, d) \in Int
              /\ ValueOf(ev)[Root][d] >= ScoreOf(ev, Root, m, d)
          BY <1>1, <1>12, <4>2, RootValueIs
        <5> QED
          BY <4>2, <5>1, <5>2
      <4>8. g.depth >= 0
        BY <4>2
      <4> QED
        BY <1>1, <1>7, <4>2, <4>3, <4>4, <4>5, <4>6, <4>7, <4>8, NodeStores
    <3> QED
      BY <3>1, <3>2
  <2> QED
    BY <2>25, <2>26, <2>27 DEF IInv
<1> QED
  BY <1>13, <1>14

\* A root move's score is back.
LEMMA RootFullKeeps ==
  ASSUME IInv, RootFull
  PROVE  IInv' /\ Dated
<1>1. AtRoot("full") /\ ret # <<>> /\ RootTook(-ret[1]) /\ RootStep /\ plain' = plain
  BY DEF RootFull, StaysPlain
<1>2. PICK sc : sc = -ret[1]
  OBVIOUS
<1>3. /\ sc \in Values /\ (~stop => sc \in RootReach)
      /\ Exact => RootTakes(sc)
  BY <1>1, <1>2, RootAnswered
<1>4. plain \in BOOLEAN
  BY DEF IInv, RootOK, RootShape
<1>5. Exact' => Exact
  BY <1>1 DEF RootStep, Exact
<1>6. RootTook(sc)
  BY <1>1, <1>2
<1> QED
  BY <1>1, <1>3, <1>4, <1>5, <1>6, RootTookKeeps

\* The score of a root move's scout is back.
LEMMA RootScoutKeeps ==
  ASSUME IInv, RootScout
  PROVE  IInv' /\ Dated
<1>1. AtRoot("scout") /\ ret # <<>> /\ RootStep
  BY DEF RootScout
<1>2. PICK sc : sc = -ret[1]
  OBVIOUS
<1>3. /\ sc \in Values /\ (~stop => sc \in RootReach)
      /\ Exact /\ root.red = 0 /\ sc <= root.alpha => RootTakes(sc)
  BY <1>1, <1>2, RootAnswered
<1>4. plain \in BOOLEAN
  BY DEF IInv, RootOK, RootShape
<1>5. stop' = stop /\ Root' = Root /\ ev' = ev /\ lastScore' = lastScore /\ completed' = completed
  BY <1>1 DEF RootStep
<1>6. PICK ext, deep : /\ ext = extension(Root, RootMove, root.depth, TRUE)
                       /\ deep = root.depth - 1 + ext
  OBVIOUS
<1>7. \/ /\ root' = [root EXCEPT !.at = "full"]
         /\ stack' = <<Frame(RootMove, deep, -root.beta, -root.alpha)>>
         /\ ret' = <<>> /\ plain' = plain /\ ml' = ml /\ best' = best /\ UNCHANGED table
      \/ sc <= root.alpha /\ RootTook(sc) /\ Departs(root.red # 0)
  BY <1>2, <1>6, Zenon DEF RootScout, StaysPlain
<1>8. CASE sc <= root.alpha /\ RootTook(sc) /\ Departs(root.red # 0)
  <2>1. plain' \in BOOLEAN /\ (plain' => plain) /\ (Exact' => Exact /\ root.red = 0)
    BY <1>5, <1>8 DEF Departs, Exact
  <2>2. Exact' => RootTakes(sc)
    BY <1>3, <1>8, <2>1
  <2> QED
    BY <1>1, <1>3, <1>8, <2>1, <2>2, RootTookKeeps
<1>9. CASE /\ root' = [root EXCEPT !.at = "full"]
           /\ stack' = <<Frame(RootMove, deep, -root.beta, -root.alpha)>>
           /\ ret' = <<>> /\ plain' = plain /\ ml' = ml /\ best' = best /\ UNCHANGED table
  <2>1. /\ root.at = "scout" /\ RootShape /\ (~stop => RootPossible)
        /\ (Exact => RootFaithful) /\ CompletedOK /\ TableOK
    BY <1>1, AtRootIs
  <2>2. root \in RootSet
    BY <1>1, AtRootIs
  <2>3. PICK q : q = root'
    OBVIOUS
  <2>4. /\ q \in RootSet /\ q.depth = root.depth /\ q.alpha = root.alpha /\ q.beta = root.beta
        /\ q.oldAlpha = root.oldAlpha /\ q.bs = root.bs /\ q.bm = root.bm /\ q.margin = root.margin
        /\ q.pos = root.pos /\ q.seen = root.seen /\ q.at = "full"
    <3>1. q = [root EXCEPT !.at = "full"] /\ "full" \in {"iterate", "passed", "completed", "done"} \cup InPass
      BY <1>9, <2>3 DEF InPass
    <3> QED
      BY <2>2, <3>1, RootGoes
  <2>5. TableOK' /\ Dated
    <3>1. Onward
      BY <1>5, <1>9 DEF Onward
    <3> QED
      BY <1>9, <2>1, <3>1, TableKept
  <2>6. CompletedOK'
    BY <1>5, <1>9, <2>1, CompletedKept
  <2>7. RootShape'
    BY <1>5, <1>9, <2>1, <2>3, <2>4 DEF RootShape, InPass
  <2>8. ~stop => RootPossible'
    <3>1. ASSUME ~stop
          PROVE  RootPossible'
      <4>1. RootPossible
        BY <2>1, <3>1
      <4> QED
        BY <1>9, <2>1, <2>3, <2>4, <4>1 DEF RootPossible, BestTells, InPass
    <3> QED
      BY <3>1
  <2>9. RootMove' = RootMove
    BY <1>9, <2>3, <2>4 DEF RootMove
  <2>10. ASSUME Exact'
         PROVE  RootFaithful'
    <3>1. Exact
      BY <1>5, <1>9, <2>10 DEF Exact
    <3>2. /\ SameExtension(RootMove, root.depth)
          /\ root.bs > root.oldAlpha =>
               /\ SameExtension(best.move, root.depth)
               /\ ScoreOf(ev, Root, best.move, root.depth) >= root.bs
          /\ \A i \in 1..root.pos : ScoreOf(ev, Root, ml[i], root.depth) <= root.bs
      BY <2>1, <3>1 DEF RootFaithful, InPass
    <3>3. SameExtension(RootMove, root.depth)'
      BY <1>5, <2>3, <2>4, <2>9, <3>2 DEF SameExtension
    <3>4. (root.bs > root.oldAlpha => SameExtension(best.move, root.depth))'
      BY <1>5, <1>9, <2>3, <2>4, <3>2 DEF SameExtension
    <3> QED
      BY <1>5, <1>9, <2>3, <2>4, <3>2, <3>3, <3>4 DEF RootFaithful
  <2>11. RootOK'
    BY <1>5, <2>3, <2>4, <2>6, <2>7, <2>8, <2>10 DEF RootOK
  <2>12. StackOK'
    <3>1. root.at \in InPass /\ root.pos + 1 \in 1..Len(ml) /\ ext \in {0, 1}
          /\ 0 \in Nat /\ Reduces(root.depth, 0)
      BY <1>6, <2>1, ExtensionIs DEF RootShape, InPass, Reduces
    <3>2. JustCalled(Frame(RootMove, deep, -root.beta, -root.alpha),
                     Asked(RootMove, deep, -root.beta, -root.alpha))
      BY <1>6, <3>1, RootFrames
    <3>3. RootCall' = Asked(RootMove, deep, -root.beta, -root.alpha)
      <4>1. RootDeep' = deep
        BY <1>5, <1>6, <2>3, <2>4, <2>9 DEF RootDeep
      <4> QED
        BY <2>3, <2>4, <2>9, <4>1 DEF RootCall
    <3> QED
      BY <1>9, <2>3, <2>4, <3>2, <3>3, RootPushes
  <2> QED
    BY <2>5, <2>11, <2>12 DEF IInv
<1> QED
  BY <1>7, <1>8, <1>9

\* All root moves are searched.
LEMMA RootEndKeeps ==
  ASSUME IInv, RootEnd
  PROVE  IInv' /\ Dated
<1>1. AtRoot("loop") /\ root.pos = Len(ml)
  BY DEF RootEnd
<1>2. /\ stack = <<>> /\ ret = <<>> /\ root.at = "loop" /\ RootShape /\ (~stop => RootPossible)
      /\ (Exact => RootFaithful) /\ CompletedOK /\ TableOK
  BY <1>1, AtRootIs
<1>3. /\ root \in RootSet /\ root.depth \in Int /\ root.oldAlpha \in Int /\ root.beta \in Int
      /\ root.bs \in Int /\ root.depth <= 99
  BY <1>1, AtRootIs
<1>4. /\ Root' = Root /\ ev' = ev /\ stop' = stop /\ lastScore' = lastScore /\ completed' = completed
      /\ ml' = ml /\ best' = best /\ stack' = <<>> /\ ret' = <<>> /\ plain' = plain
  BY <1>2 DEF RootEnd, RootStep, StaysPlain
<1>5. root' = [root EXCEPT !.at = "passed"]
  BY DEF RootEnd
<1>6. PICK q : q = root'
  OBVIOUS
<1>7. /\ q \in RootSet /\ q.depth = root.depth /\ q.alpha = root.alpha /\ q.beta = root.beta
      /\ q.oldAlpha = root.oldAlpha /\ q.bs = root.bs /\ q.bm = root.bm /\ q.margin = root.margin
      /\ q.at = "passed"
  <2>1. root \in RootSet /\ q = [root EXCEPT !.at = "passed"]
    BY <1>3, <1>5, <1>6
  <2> QED
    BY <2>1, RootGoes
<1>8. PICK n \in Nat : /\ n = Len(ml) /\ n >= 1 /\ Moves(Root) = {ml[i] : i \in 1..n}
                       /\ Root \in Node /\ PlyOf(Root) = 0
  BY <1>2, RootMovesAre
<1>9. PICK d \in Int, s \in Int, o \in Int, b \in Int :
        d = root.depth /\ s = root.bs /\ o = root.oldAlpha /\ b = root.beta
  BY <1>3
<1>10. d >= 1 /\ s \in Values /\ root.bm \in OrNone(Root)
  BY <1>2, <1>9 DEF RootShape
<1>11. ~stop => BestTells
  <2>1. root.pos # 0
    BY <1>1, <1>8
  <2> QED
    BY <1>2, <2>1 DEF RootPossible, InPass
<1>12. ASSUME Exact
       PROVE  /\ ValueOf(ev)[Root][d] <= s
              /\ s > o => ValueOf(ev)[Root][d] >= s
  <2>1. /\ s > o => ScoreOf(ev, Root, best.move, d) >= s
        /\ \A i \in 1..n : ScoreOf(ev, Root, ml[i], d) <= s
    BY <1>1, <1>2, <1>8, <1>9, <1>12 DEF RootFaithful, InPass
  <2>2. PICK m \in Moves(Root) : ValueOf(ev)[Root][d] = ScoreOf(ev, Root, m, d)
    BY <1>2, <1>10, RootValueIs
  <2>3. PICK i \in 1..n : m = ml[i]
    BY <1>8, <2>2
  <2>4. ValueOf(ev)[Root][d] <= s
    BY <2>1, <2>2, <2>3
  <2>5. best.move \in Moves(Root)
    BY <1>2 DEF RootShape
  <2>6. /\ ValueOf(ev)[Root][d] \in Int /\ ScoreOf(ev, Root, best.move, d) \in Int
        /\ ValueOf(ev)[Root][d] >= ScoreOf(ev, Root, best.move, d)
    BY <1>2, <1>10, <2>5, RootValueIs
  <2>7. s > o => ValueOf(ev)[Root][d] >= s
    <3>1. PICK x \in Int, y \in Int : x = ValueOf(ev)[Root][d] /\ y = ScoreOf(ev, Root, best.move, d) /\ x >= y
      BY <2>6
    <3> QED
      BY <1>9, <2>1, <3>1
  <2> QED
    BY <2>4, <2>7
<1>13. RootShape'
  BY <1>2, <1>4, <1>6, <1>7 DEF RootShape, InPass
<1>14. ASSUME ~stop
       PROVE  RootPossible'
  <2>1. BestTells
    BY <1>11, <1>14
  <2>2. BestTells'
    BY <1>4, <1>6, <1>7, <2>1 DEF BestTells
  <2> QED
    BY <1>6, <1>7, <2>2 DEF RootPossible, InPass
<1>15. ASSUME Exact'
       PROVE  RootFaithful'
  <2>1. Exact
    BY <1>4, <1>15 DEF Exact
  <2>2. root.bs > root.oldAlpha =>
          /\ SameExtension(best.move, root.depth)
          /\ ScoreOf(ev, Root, best.move, root.depth) >= root.bs
    BY <1>2, <2>1 DEF RootFaithful, InPass
  <2>3. (root.bs > root.oldAlpha => SameExtension(best.move, root.depth))'
    BY <1>4, <1>6, <1>7, <2>2 DEF SameExtension
  <2>4. ValueOf(ev)[Root][root.depth] <= root.bs
    BY <1>9, <1>12, <2>1
  <2> QED
    BY <1>4, <1>6, <1>7, <2>2, <2>3, <2>4 DEF RootFaithful, InPass
<1>16. RootOK'
  <2>1. CompletedOK'
    BY <1>2, <1>4, CompletedKept
  <2> QED
    BY <1>4, <1>6, <1>7, <1>13, <1>14, <1>15, <2>1 DEF RootOK
<1>17. StackOK'
  BY <1>4, <1>6, <1>7, NoCall
<1>18. TableOK' /\ Dated
  <2>1. PICK g : g = RootFrame
    OBVIOUS
  <2>2. g.node = Root /\ g.depth = d /\ g.depth \in Int /\ g.depth <= 99 /\ g.depth >= 0
    <3>1. g.node = Root /\ g.depth = root.depth
      BY <2>1 DEF RootFrame, Frame
    <3> QED
      BY <1>3, <1>9, <1>10, <3>1
  <2>3. PICK t : t = scoreType(s, o, b)
    OBVIOUS
  <2>4. Store(g, root.bm, s, t)
    BY <1>9, <2>1, <2>3 DEF RootEnd
  <2>5. PICK bm : bm = root.bm
    OBVIOUS
  <2>6. g.node \in Node /\ PlyOf(g.node) <= MaxPly /\ bm \in OrNone(g.node)
    <3>1. MaxPly \in Nat
      BY ScoresAre
    <3> QED
      BY <1>8, <1>10, <2>2, <2>5, <3>1
  <2>7. /\ t \in {0} \cup TT!Types
        /\ TT!HasLower(t) <=> s > o
        /\ TT!HasUpper(t) <=> s < b
    BY <2>3, ScoreTypeIs
  <2>8. ASSUME ~stop'
        PROVE  s \in Reach(PlyOf(g.node))
    <3>1. Mate \in Nat
      BY ScoresAre
    <3>2. s \in RootReach
      BY <1>4, <1>9, <1>11, <2>8 DEF BestTells
    <3> QED
      BY <1>8, <2>2, <3>1, <3>2 DEF RootReach, Reach
  <2>9. ASSUME Exact'
        PROVE  /\ TT!HasLower(t) => ValueOf(ev)[g.node][g.depth] >= s
               /\ TT!HasUpper(t) => ValueOf(ev)[g.node][g.depth] <= s
    <3>1. Exact
      BY <1>4, <2>9 DEF Exact
    <3> QED
      BY <1>12, <2>2, <2>7, <3>1
  <2>10. Onward
    BY <1>4 DEF Onward
  <2>11. Store(g, bm, s, t)
    BY <2>4, <2>5
  <2>12. TableOK
    BY <1>2
  <2> QED
    BY <1>10, <2>2, <2>6, <2>7, <2>8, <2>9, <2>10, <2>11, <2>12, NodeStores
<1> QED
  BY <1>16, <1>17, <1>18 DEF IInv

-----------------------------------------------------------------------------
(* The invariant.                                                          *)

\* The table is empty when a search of the model begins.
LEMMA BlankOK ==
  ASSUME NEW n \in TableSizes, size = n, entries = TT!Blank(n), generation = 2, cntUsed = 0
  PROVE  TableOK
<1>1. n \in Nat /\ n >= 1 /\ MaxGen \in Nat /\ MaxGen >= 2
  BY LimitsAssumption DEF LimitsAssumption
<1>2. TT!Empty \in TT!Entry /\ TT!Empty.date = 0
  BY DEF TT!Empty, TT!Entry, TT!None, None
<1>3. entries = [s \in TT!Slots |-> TT!Empty]
  BY DEF TT!Blank, TT!Slots
<1>4. TT!TypeOK
  BY <1>1, <1>2, <1>3 DEF TT!TypeOK
<1>5. \A s \in TT!Slots : EntryOK(entries[s])
  BY <1>2, <1>3 DEF EntryOK
<1> QED
  BY <1>4, <1>5 DEF TableOK

\* The search starts with an empty stack and an empty table.
LEMMA InitInv == Init => IInv
<1> SUFFICES ASSUME Init
             PROVE  IInv
  OBVIOUS
<1>1. /\ Root \in Roots /\ ev \in Evals /\ stop = FALSE /\ stack = <<>> /\ ret = <<>>
      /\ lastScore = NoScore /\ plain = TRUE
  BY DEF Init
<1>2. PICK n : n = Cardinality(Moves(Root))
  OBVIOUS
<1>3. ml \in [1..n -> Moves(Root)] /\ \A i, j \in DOMAIN ml : ml[i] = ml[j] => i = j
  BY <1>2 DEF Init
<1>4. best = NoBest(ml[1]) /\ completed = best
  BY DEF Init
<1>5. PICK r : r = root
  OBVIOUS
<1>6. r = [depth |-> 0, margin |-> 0, alpha |-> MinScore, beta |-> MaxScore,
           oldAlpha |-> MinScore, bs |-> NoScore, bm |-> None, pos |-> 0, seen |-> {},
           red |-> 0, at |-> "iterate"]
  BY <1>5 DEF Init
<1>7. /\ Mate \in Nat /\ Mate >= 1001 /\ NoScore = -Mate /\ MaxScore = Mate - 1 /\ MinScore = 1 - Mate
      /\ MaxDepth \in Nat /\ MaxDepth >= 1
  <2>1. EvalMax \in Nat /\ Mate = EvalMax + 1001 /\ NoScore = -Mate /\ MaxScore = Mate - 1 /\ MinScore = 1 - Mate
    BY ScoresAre
  <2> QED
    BY <2>1, LimitsAssumption DEF LimitsAssumption
<1>8. NoScore \in Values /\ MinScore \in Values /\ MaxScore \in Values
      /\ NoScore \in Int /\ MinScore \in Int /\ MaxScore \in Int
  BY <1>7 DEF Values
<1>9. /\ r \in RootSet /\ r.depth = 0 /\ r.alpha = MinScore /\ r.beta = MaxScore /\ r.oldAlpha = MinScore
      /\ r.bs = NoScore /\ r.bm = None /\ r.at = "iterate"
  <2>1. 0 \in 0..MaxDepth /\ 0 \in 0..499 /\ None \in Nat
    BY <1>7 DEF None
  <2> QED
    BY <1>6, <1>8, <2>1 DEF RootSet
<1>10. n \in Nat /\ n >= 1 /\ Moves(Root) \subseteq Node
  <2>1. /\ Root \in Node /\ Position[Root].moves # <<>> /\ Position[Root].moves \in Seq(Node)
    BY <1>1, PositionAssumption DEF PositionAssumption
  <2>2. PICK k \in Nat : k = Len(Position[Root].moves) /\ k >= 1 /\ DOMAIN Position[Root].moves = 1..k
    BY <2>1
  <2>3. Moves(Root) = {Position[Root].moves[i] : i \in 1..k} /\ 1 \in 1..k
    BY <2>2 DEF Moves
  <2>4. IsFiniteSet(Moves(Root)) /\ Moves(Root) # {}
    <3> DEFINE g == [i \in 1..k |-> Position[Root].moves[i]]
    <3>1. IsFiniteSet(1..k)
      BY FS_Interval
    <3>2. g \in Surjection(1..k, Moves(Root))
      BY <2>3 DEF Surjection
    <3>3. IsFiniteSet(Moves(Root))
      BY <3>1, <3>2, FS_Surjection
    <3> QED
      BY <2>3, <3>3
  <2>5. n \in Nat /\ n # 0
    BY <1>2, <2>4, FS_CardinalityType, FS_EmptySet
  <2> QED
    BY <2>1, <2>5, GameIs
<1>11. ml[1] \in Moves(Root) /\ ml[1] \in Nat
  <2>1. 1 \in 1..n
    BY <1>10
  <2>2. ml[1] \in Moves(Root)
    BY <1>3, <2>1
  <2> QED
    BY <1>10, <2>2, GameIs
<1>12. best \in BestSet /\ best.move \in Moves(Root) /\ best.depth = 0
  <2>1. 0 \in 0..MaxDepth
    BY <1>7
  <2> QED
    BY <1>4, <1>11, <2>1 DEF NoBest, BestSet
<1>13. RootShape
  <2>1. None \in OrNone(Root)
    BY DEF OrNone
  <2>2. root \in RootSet /\ root.depth < MaxDepth /\ root.bm \in OrNone(Root) /\ root.at = "iterate"
        /\ {root.alpha, root.beta, root.oldAlpha, root.bs} \subseteq Values
    BY <1>5, <1>7, <1>8, <1>9, <2>1
  <2>3. completed \in BestSet /\ completed.move \in Moves(Root)
    BY <1>4, <1>12
  <2>4. lastScore \in Values
    BY <1>1, <1>8
  <2> QED
    BY <1>1, <1>2, <1>3, <1>12, <2>2, <2>3, <2>4 DEF RootShape, InPass
<1>14. RootOK
  <2>1. root.at = "iterate"
    BY <1>5, <1>9
  <2>2. RootPossible /\ RootFaithful
    BY <2>1 DEF RootPossible, RootFaithful, InPass
  <2>3. completed.depth = 0
    BY <1>4, <1>12
  <2>4. CompletedOK
    BY <2>3 DEF CompletedOK
  <2> QED
    BY <1>13, <2>1, <2>2, <2>4 DEF RootOK
<1>15. StackOK
  <2>1. stack \in Seq(FrameSet) /\ Len(stack) = 0
    BY <1>1
  <2>2. 1..Len(stack) = {} /\ 2..Len(stack) = {}
    BY <2>1
  <2>3. root.at \notin {"scout", "full"}
    BY <1>5, <1>9
  <2> QED
    BY <1>1, <2>1, <2>2, <2>3 DEF StackOK
<1>16. TableOK
  <2>1. PICK k \in TableSizes : size = k /\ entries = TT!Blank(k) /\ generation = 2 /\ cntUsed = 0
    BY DEF Init
  <2> QED
    BY <2>1, BlankOK
<1> QED
  BY <1>14, <1>15, <1>16 DEF IInv

\* Every step keeps the invariant, and the table its size; a slot written is a slot in use.
LEMMA NextKeeps ==
  ASSUME IInv, Next
  PROVE  IInv' /\ Dated
<1>1. CASE FrameStep
  <2>1. Keep /\ (plain' => plain) /\ plain' \in BOOLEAN
    BY <1>1, FrameStepIs DEF IInv, RootOK, RootShape
  <2>2. RootOK'
    BY <2>1, RootKept DEF IInv
  <2> QED
    BY <1>1, <2>2, FrameStepKeeps DEF IInv
<1>2. CASE StartDepth \/ RootNext \/ RootFull \/ RootScout \/ RootEnd
  BY <1>2, StartDepthKeeps, RootNextKeeps, RootFullKeeps, RootScoutKeeps, RootEndKeeps
<1>3. CASE Widen \/ Complete \/ NextDepth \/ Announce \/ Stop
  BY <1>3, WidenKeeps, CompleteKeeps, NextDepthKeeps, AnnounceKeeps, StopKeeps
<1> QED
  BY <1>1, <1>2, <1>3, Zenon DEF Next, Step, FrameStep

\* What is not in the variables does not matter.
LEMMA StutterKeeps ==
  ASSUME IInv, UNCHANGED vars
  PROVE  IInv'
<1>1. /\ Root' = Root /\ ev' = ev /\ stop' = stop /\ stack' = stack /\ ret' = ret /\ root' = root
      /\ ml' = ml /\ lastScore' = lastScore /\ best' = best /\ completed' = completed
      /\ UNCHANGED table /\ plain' = plain
  BY DEF vars
<1>2. RootOK'
  <2>1. Keep /\ plain' \in BOOLEAN
    BY <1>1 DEF Keep, IInv, RootOK, RootShape
  <2> QED
    BY <1>1, <2>1, RootKept DEF IInv
<1>3. TableOK'
  BY <1>1, TableKept DEF Onward, IInv
<1>4. StackOK'
  <2>1. StackOK
    BY DEF IInv
  <2> QED
    BY <1>1, <2>1 DEF StackOK, FrameOK, AnswerOK, CallAt, RootCall, RootDeep, RootMove, Exact
<1> QED
  BY <1>2, <1>3, <1>4 DEF IInv

\* The invariant is inductive.
LEMMA StepInv == IInv /\ [Next]_vars => IInv'
  BY NextKeeps, StutterKeeps

\* For every game, evaluation, depth and table, at every step: each frame's best score and
\* window bound its node's value over the moves done, each answer bounds the value of the
\* call it serves, each entry that of its node, and the root that of its pass.
THEOREM Invariance == Spec => []IInv
<1>1. Init => IInv
  BY InitInv
<1>2. IInv /\ [Next]_vars => IInv'
  BY StepInv
<1> QED
  BY <1>1, <1>2, PTL DEF Spec

-----------------------------------------------------------------------------
(* The theorems.                                                           *)

\* The node a call is for.
LEMMA CallNode ==
  ASSUME IInv, ret # <<>>
  PROVE  CallAt(0).node \in Node
<1>1. StackOK /\ RootShape
  BY DEF IInv, RootOK
<1>2. CASE stack # <<>>
  <2>1. PICK t : t = f
    OBVIOUS
  <2>2. t \in FrameSet /\ FrameOK(t) /\ t.at \in Waiting /\ stack[1] = t /\ 0 < Len(stack)
    BY <1>1, <1>2, <2>1, TopFrame
  <2>3. CallAt(0) = CallOf(t)
    BY <2>2 DEF CallAt
  <2>4. Shape(t, root.depth) /\ t.node \in Node
    BY <2>2 DEF FrameOK, FrameSet
  <2>5. CASE t.at = "null"
    <3>1. Position[t.node].pass # None
      BY <2>4, <2>5 DEF Shape
    <3>2. Position[t.node].pass \in Node
      BY <2>4, <3>1, PositionAssumption DEF PositionAssumption
    <3> QED
      BY <2>3, <2>5, <3>2 DEF CallOf, Asked
  <2>6. CASE t.at = "iid"
    BY <2>3, <2>4, <2>6 DEF CallOf, Asked
  <2>7. CASE t.at \in {"scout", "full"}
    <3>1. t.mv \in Moves(t.node)
      BY <2>4, <2>7 DEF Shape
    <3>2. t.mv \in Node
      BY <2>4, <3>1, GameIs
    <3> QED
      BY <2>3, <2>7, <3>2 DEF CallOf, Asked
  <2> QED
    BY <2>2, <2>5, <2>6, <2>7 DEF Waiting
<1>3. CASE stack = <<>>
  <2>1. root.at \in {"scout", "full"}
    BY <1>1 DEF StackOK
  <2>2. ml \in [1..Len(ml) -> Moves(Root)] /\ Moves(Root) \subseteq Node
    BY <1>1, RootMovesAre
  <2>3. root.pos + 1 \in 1..Len(ml)
    BY <1>1, <2>1 DEF RootShape
  <2>4. RootMove \in Node
    BY <2>2, <2>3 DEF RootMove
  <2>5. CallAt(0) = RootCall
    BY <1>3 DEF CallAt
  <2> QED
    BY <2>4, <2>5 DEF RootCall, Asked
<1> QED
  BY <1>2, <1>3

\* Types.
LEMMA InvTypes ==
  ASSUME IInv
  PROVE  TypeOK
<1>1. StackOK /\ RootShape /\ TT!TypeOK
  BY DEF IInv, RootOK, TableOK
<1>2. ASSUME NEW i \in DOMAIN stack, NEW g, g = stack[i]
      PROVE  /\ g.node \in Node /\ g.depth \in -MaxPly..root.depth
             /\ {g.alpha, g.beta, g.oldAlpha, g.bs, g.val} \subseteq Values
             /\ {g.bm, g.head, g.trans, g.mv} \subseteq Moves(g.node) \cup {None}
  <2>1. i \in 1..Len(stack)
    BY <1>1 DEF StackOK
  <2>2. FrameOK(g)
    BY <1>1, <1>2, <2>1 DEF StackOK
  <2>3. Shape(g, root.depth)
    BY <2>2 DEF FrameOK
  <2>4. PICK p \in Int, d \in Int, m \in Int, r \in Int :
          p = PlyOf(g.node) /\ d = g.depth /\ m = MaxPly /\ r = root.depth
    <3>1. g.depth \in Int
      BY <2>3 DEF Shape, FrameSet
    <3>2. root.depth \in Int
      BY <1>1 DEF RootShape, RootSet
    <3>3. MaxPly \in Int
      BY ScoresAre
    <3>4. PlyOf(g.node) \in Int
      BY <2>3, GameIs DEF Shape, FrameSet
    <3> QED
      BY <3>1, <3>2, <3>3, <3>4
  <2>5. g.node \in Node /\ p \in Int
    BY <2>3, <2>4, GameIs DEF Shape, FrameSet
  <2>6. p <= m /\ -p <= d /\ d <= r
    BY <2>3, <2>4 DEF Shape
  <2>7. d \in -m..r
    BY <2>4, <2>5, <2>6
  <2>8. /\ {g.alpha, g.beta, g.oldAlpha, g.bs, g.val} \subseteq Values
        /\ {g.bm, g.head, g.trans, g.mv} \subseteq OrNone(g.node)
    BY <2>3 DEF Shape
  <2> QED
    BY <2>4, <2>5, <2>7, <2>8 DEF OrNone
<1>3. ASSUME ret # <<>>
      PROVE  ret[1] \in Values /\ ret[2] \in Node \cup {None}
  <2>1. PICK c : c = CallAt(0)
    OBVIOUS
  <2>2. AnswerOK(c, ret[1], ret[2]) /\ c.node \in Node
    BY <1>1, <1>3, <2>1, CallNode DEF StackOK
  <2>3. ret[1] \in Values /\ ret[2] \in OrNone(c.node)
    BY <2>2 DEF AnswerOK
  <2> QED
    BY <2>2, <2>3, GameIs DEF OrNone
<1>4. Root \in Roots /\ ev \in Evals /\ stop \in BOOLEAN /\ plain \in BOOLEAN
  BY <1>1 DEF RootShape
<1> QED
  BY <1>1, <1>2, <1>3, <1>4 DEF TypeOK

\* No window closes.
LEMMA InvWindows ==
  ASSUME IInv
  PROVE  WindowsOpen
<1>1. StackOK
  BY DEF IInv
<1>2. ASSUME NEW i \in DOMAIN stack, NEW g, g = stack[i]
      PROVE  g.alpha < g.beta /\ (g.at = "loop" => g.bs < g.beta)
  <2>1. i \in 1..Len(stack)
    BY <1>1 DEF StackOK
  <2>2. FrameOK(g)
    BY <1>1, <1>2, <2>1 DEF StackOK
  <2> QED
    BY <2>2 DEF FrameOK, Shape, Begun
<1> QED
  BY <1>2 DEF WindowsOpen

\* No root move is left out or searched twice.
LEMMA InvMovesOnce ==
  ASSUME IInv
  PROVE  RootMovesOnce
<1> SUFFICES ASSUME root.at = "loop"
             PROVE  /\ root.seen = {ml[i] : i \in 1..root.pos}
                    /\ Cardinality(root.seen) = root.pos
  BY DEF RootMovesOnce
<1>1. RootShape
  BY DEF IInv, RootOK
<1>2. PICK n \in Nat : n = Len(ml) /\ DOMAIN ml = 1..n
  BY <1>1, RootMovesAre
<1>3. PICK k \in Nat : k = root.pos /\ k \in 0..n
  BY <1>1, <1>2 DEF RootShape
<1>4. root.seen = {ml[i] : i \in 1..k}
  BY <1>1, <1>3 DEF RootShape
<1>5. \A i, j \in 1..k : ml[i] = ml[j] => i = j
  <2>1. 1..k \subseteq 1..n
    BY <1>3
  <2> QED
    BY <1>1, <1>2, <2>1 DEF RootShape
<1>6. PICK S : S = root.seen
  OBVIOUS
<1> DEFINE g == [i \in 1..k |-> ml[i]]
<1>7. g \in Surjection(1..k, S)
  BY <1>4, <1>6 DEF Surjection
<1>8. g \in Injection(1..k, S)
  BY <1>4, <1>5, <1>6 DEF Injection, IsInjective
<1>9. IsFiniteSet(1..k) /\ Cardinality(1..k) = k
  BY FS_Interval
<1> HIDE DEF g
<1>10. Cardinality(S) = k
  BY <1>7, <1>8, <1>9, FS_Surjection
<1> QED
  BY <1>3, <1>4, <1>6, <1>10

\* No depth, score or move runs out of its range, however extensions, windows and the
\* mate bounds combine, no window closes and no root move is left out or searched twice.
THEOREM FramesAlwaysFit == Spec => []FramesFit
<1>1. IInv => FramesFit
  BY InvTypes, InvWindows, InvMovesOnce DEF FramesFit
<1> QED
  BY <1>1, Invariance, PTL

\* The move and score announced are those of the last completed depth, whenever the stop
\* came, and the score is the minimax value of that depth as long as nothing was pruned.
THEOREM AnnouncementIsTrue == Spec => []AnnouncedIsTrue
<1>1. IInv => AnnouncedIsTrue
  <2> SUFFICES ASSUME IInv, root.at = "done", best.depth > 0
               PROVE  /\ best.type = IF best.score = MaxScore THEN Lower ELSE Lower + Upper
                      /\ plain => LET d == best.depth IN
                           /\ best.score = Value[Root][d]
                           /\ best.score = -Value[best.move][d - 1 + extension(Root, best.move, d, TRUE)]
    BY DEF AnnouncedIsTrue
  <2>1. best = completed /\ CompletedOK
    BY DEF IInv, RootOK
  <2> QED
    BY <2>1 DEF CompletedOK, Value
<1> QED
  BY <1>1, Invariance, PTL

\* bStop is set by Stop only.
LEMMA StopOnly ==
  ASSUME Next
  PROVE  Stop \/ (stop' = stop /\ ev' = ev)
<1>1. CASE FrameStep
  BY <1>1, FrameStepIs DEF Keep
<1>2. CASE StartDepth \/ RootNext \/ RootFull \/ RootScout \/ RootEnd
  BY <1>2 DEF StartDepth, RootNext, RootFull, RootScout, RootEnd, RootStep
<1>3. CASE Widen \/ Complete \/ NextDepth \/ Announce
  BY <1>3 DEF Widen, Complete, NextDepth, Announce, RootStep
<1> QED
  BY <1>1, <1>2, <1>3, Zenon DEF Next, Step, FrameStep

\* The root's steps, and bStop, find no call running or leave it alone.
LEMMA InCallsOnly ==
  ASSUME IInv, Next, stack # <<>>, stack' # stack
  PROVE  FrameStep
<1>1. ~StartDepth /\ ~RootNext /\ ~RootFull /\ ~RootScout /\ ~RootEnd
  BY DEF StartDepth, RootNext, RootFull, RootScout, RootEnd, AtRoot
<1>2. ~Widen /\ ~Complete /\ ~NextDepth /\ ~Announce /\ ~Stop
  BY DEF Widen, Complete, NextDepth, Announce, Stop, AtRoot
<1> QED
  BY <1>1, <1>2, Zenon DEF Next, Step, FrameStep

\* The beta of the call on top is a number.
LEMMA CallBeta ==
  ASSUME IInv, stack # <<>>
  PROVE  CallAt(1).beta \in Int
<1>1. StackOK /\ root \in RootSet /\ stack \in Seq(FrameSet)
  BY DEF IInv, RootOK, RootShape, StackOK
<1>2. CASE 1 < Len(stack)
  <2>1. PICK g : g = stack[1 + 1]
    OBVIOUS
  <2>2. g \in FrameSet
    BY <1>1, <1>2, <2>1
  <2>3. g.alpha \in Int /\ g.beta \in Int
    BY <2>2 DEF FrameSet
  <2>4. CallOf(g).beta \in Int
    BY <2>3 DEF CallOf, Asked
  <2> QED
    BY <1>2, <2>1, <2>4 DEF CallAt
<1>3. CASE ~(1 < Len(stack))
  <2>1. root.alpha \in Int
    BY <1>1 DEF RootSet
  <2> QED
    BY <1>3, <2>1 DEF CallAt, RootCall, Asked
<1> QED
  BY <1>2, <1>3

\* What a call returns bounds its value.
LEMMA ReturnsBound ==
  ASSUME IInv, IInv', [Next]_vars
  PROVE  ReturnIsBound
<1> SUFFICES ASSUME stack # <<>>, stack' = Tail(stack), ~stop, plain'
             PROVE  LET v == ret'[1]  true == Value[f.node][f.depth]
                    IN  /\ v > f.oldAlpha => true >= v
                        /\ v < f.beta \/ v >= MateNext(f) => true <= v
  BY DEF ReturnIsBound
<1>1. StackOK /\ StackOK' /\ stack \in Seq(FrameSet)
  BY DEF IInv, StackOK
<1>2. PICK n \in Nat : n = Len(stack) /\ n >= 1 /\ Len(stack') = n - 1
  BY <1>1, StackSteps
<1>3. stack' # stack
  BY <1>2
<1>4. FrameStep
  BY <1>3, InCallsOnly DEF vars
<1>5. /\ ev' = ev /\ stop' = stop /\ root' = root /\ ml' = ml /\ Root' = Root
  BY <1>4, FrameStepIs DEF Keep
<1>6. \A i \in 1..(n - 1) : stack'[i] = stack[i + 1]
  BY <1>1, <1>2, StackSteps
<1>7. PICK t : t = f
  OBVIOUS
<1>8. t \in FrameSet /\ Serves(t, CallAt(1)) /\ root.at \in {"scout", "full"}
  BY <1>1, <1>7, TopFrame
<1>9. ret' # <<>>
  <2>1. CASE n = 1
    <3>1. stack' = <<>>
      BY <1>1, <1>2, <2>1
    <3> QED
      BY <1>1, <1>5, <1>8, <3>1 DEF StackOK
  <2>2. CASE n # 1
    <3>1. 2 \in 2..n /\ 1 \in 1..(n - 1)
      BY <1>2, <2>2
    <3>2. stack'[1] = stack[2] /\ stack[2].at \in Waiting /\ stack' # <<>>
      BY <1>1, <1>2, <1>6, <3>1 DEF StackOK
    <3> QED
      BY <1>1, <3>2 DEF StackOK
  <2> QED
    BY <2>1, <2>2
<1>10. PICK c : c = CallAt(1)
  OBVIOUS
<1>11. CallAt(0)' = c
  <2>1. RootCall' = RootCall
    BY <1>5 DEF RootCall, RootDeep, RootMove
  <2>2. CASE n = 1
    BY <1>2, <1>10, <2>1, <2>2 DEF CallAt
  <2>3. CASE n # 1
    <3>1. 1 \in 1..(n - 1) /\ 1 < n /\ 0 < n - 1 /\ 1 + 1 = 2
      BY <1>2, <2>3
    <3>2. stack'[1] = stack[2]
      <4>1. stack'[1] = stack[1 + 1]
        BY <1>6, <3>1
      <4> QED
        BY <3>1, <4>1
    <3> QED
      BY <1>2, <1>10, <3>1, <3>2 DEF CallAt
  <2> QED
    BY <2>2, <2>3
<1>12. PICK v : v = ret'[1]
  OBVIOUS
<1>13. v \in Values /\ Bounds(c, ev, v)
  <2>1. AnswerOK(CallAt(0), ret[1], ret[2])'
    BY <1>1, <1>9 DEF StackOK
  <2>2. Exact'
    BY <1>5 DEF Exact
  <2> QED
    BY <1>5, <1>11, <1>12, <2>1, <2>2 DEF AnswerOK
<1>14. /\ t.node = c.node /\ t.depth = c.depth /\ t.oldAlpha = c.alpha
       /\ t.beta = IF t.at = "enter" THEN c.beta ELSE Smaller(c.beta, Top(c.node))
  BY <1>8, <1>10 DEF Serves
<1>15. v < t.beta => v < c.beta \/ v >= Top(c.node)
  <2>1. CASE t.at = "enter"
    BY <1>14, <2>1
  <2>2. CASE t.at # "enter"
    <3>1. c.beta \in Int
      BY <1>10, CallBeta
    <3>2. Top(c.node) \in Int /\ v \in Int
      <4>1. Mate \in Int
        BY ScoresAre
      <4>2. c.node \in Node
        BY <1>8, <1>14 DEF FrameSet
      <4> QED
        BY <1>13, <4>1, <4>2, GameIs DEF Top, Values
    <3>3. PICK b \in Int, top \in Int : b = c.beta /\ top = Top(c.node)
      BY <3>1, <3>2
    <3>4. t.beta = IF b < top THEN b ELSE top
      BY <1>14, <2>2, <3>3 DEF Smaller
    <3> QED
      BY <3>2, <3>3, <3>4
  <2> QED
    BY <2>1, <2>2
<1>16. MateNext(t) = Top(c.node)
  BY <1>14 DEF MateNext, Ply, Top, PlyOf
<1>17. /\ v > t.oldAlpha => ValueOf(ev)[t.node][t.depth] >= v
       /\ v < t.beta \/ v >= MateNext(t) => ValueOf(ev)[t.node][t.depth] <= v
  BY <1>13, <1>14, <1>15, <1>16 DEF Bounds
<1> QED
  BY <1>7, <1>12, <1>17 DEF Value

\* What a step stores bounds the value of the node it is stored for.
LEMMA StoresBound ==
  ASSUME IInv, IInv', [Next]_vars
  PROVE  StoredIsBound
<1> SUFFICES ASSUME ~stop, plain', NEW s \in DOMAIN entries, entries'[s] # entries[s],
                    NEW e, e = entries'[s]
             PROVE  LET sc == AddMatePly(e.score, Position[e.lock].ply)  true == Value[e.lock][e.depth]
                    IN  /\ TT!HasLower(e.scoreType) => true >= sc
                        /\ TT!HasUpper(e.scoreType) => true <= sc
  BY DEF StoredIsBound
<1>1. Next
  BY DEF vars, table
<1>2. Dated
  BY <1>1, NextKeeps
<1>3. ~Stop
  BY DEF Stop, table
<1>4. stop' = stop /\ ev' = ev
  BY <1>1, <1>3, StopOnly
<1>5. s \in TT!Slots'
  <2>1. s \in TT!Slots
    BY TableIs DEF IInv
  <2> QED
    BY <1>2, <2>1 DEF Dated, TT!Slots
<1>6. EntryOK(e)'
  BY <1>5 DEF IInv, TableOK
<1>7. e.date # 0 /\ Exact'
  BY <1>2, <1>4 DEF Dated, Exact
<1>8. LET sc == AddMatePly(e.score, PlyOf(e.lock))  true == ValueOf(ev)[e.lock][e.depth]
      IN  /\ TT!HasLower(e.scoreType) => true >= sc
          /\ TT!HasUpper(e.scoreType) => true <= sc
  BY <1>4, <1>6, <1>7 DEF EntryOK
<1> QED
  BY <1>8 DEF Value, PlyOf

\* What an entry right for its own depth answers to a deeper question.
LEMMA ShallowAnswer ==
  ASSUME TableOK, Exact, ev \in Evals, NEW s \in TT!Slots, entries[s].date # 0, NEW d \in Int,
         entries[s].depth < d,
         NEW a, a = TT!Answer(entries[s], d, PlyOf(entries[s].lock)), a.ok
  PROVE  /\ TT!HasLower(a.flags) => ValueOf(ev)[entries[s].lock][d] >= a.score
         /\ TT!HasUpper(a.flags) => ValueOf(ev)[entries[s].lock][d] <= a.score
<1>1. PICK x : x = entries[s]
  OBVIOUS
<1>2. EntryOK(x) /\ x.depth \in Int /\ x.depth < d /\ ~(x.depth >= d)
  BY <1>1 DEF TableOK, TT!TypeOK, TT!Entry
<1>3. PICK n : n = x.lock /\ n \in Node /\ PlyOf(n) <= MaxPly
  BY <1>1, <1>2 DEF EntryOK
<1>4. PICK sc : sc = AddMatePly(x.score, PlyOf(n))
  OBVIOUS
<1>5. sc \in Int /\ EvalMax \in Nat
  BY <1>1, <1>2, <1>3, <1>4, ScoresAre DEF EntryOK, Values
<1>6. /\ a.score = sc /\ IsMateScore(sc)
      /\ a.flags = IF TT!HasLower(x.scoreType) /\ sc >= 0 THEN Lower ELSE 0
  BY <1>1, <1>2, <1>3, <1>4, SameScores DEF TT!Answer, TT!Flags
<1>7. ~TT!HasUpper(a.flags) /\ (TT!HasLower(a.flags) => TT!HasLower(x.scoreType) /\ sc >= 0)
  BY <1>6 DEF TT!HasLower, TT!HasUpper, Lower, Upper, TT!Lower, TT!Upper
<1>8. ASSUME TT!HasLower(a.flags)
      PROVE  ValueOf(ev)[n][d] >= sc
  <2>1. PICK w \in Int : w = ValueOf(ev)[n][x.depth]
    BY <1>2, <1>3, ValueInReach
  <2>2. PICK v \in Int : v = ValueOf(ev)[n][d]
    BY <1>3, ValueInReach
  <2>3. w >= sc
    BY <1>1, <1>2, <1>3, <1>4, <1>7, <1>8, <2>1 DEF EntryOK
  <2>4. w > EvalMax
    BY <1>5, <1>6, <1>7, <1>8, <2>3 DEF IsMateScore
  <2>5. v >= w
    BY <1>2, <1>3, <2>1, <2>2, <2>4, MatesAreKept DEF MatesStay
  <2> QED
    BY <1>5, <2>1, <2>2, <2>3, <2>5
<1> QED
  BY <1>1, <1>3, <1>6, <1>7, <1>8

\* A mate answered from too shallow an entry bounds the value at every greater depth,
\* whatever searches have written the entry.
THEOREM ShallowMatesHold == Spec => []ShallowMatesStand
<1>1. IInv => ShallowMatesStand
  <2> SUFFICES ASSUME IInv, ~stop, plain, NEW s \in DOMAIN entries, entries[s].date # 0,
                      NEW d \in entries[s].depth + 1..MaxDepth,
                      NEW a, a = TT!Answer(entries[s], d, PlyOf(entries[s].lock)), a.ok
               PROVE  /\ TT!HasLower(a.flags) => ValueOf(ev)[entries[s].lock][d] >= a.score
                      /\ TT!HasUpper(a.flags) => ValueOf(ev)[entries[s].lock][d] <= a.score
    BY DEF ShallowMatesStand, Value, PlyOf
  <2>1. TableOK /\ Exact /\ ev \in Evals /\ s \in TT!Slots
    BY TableIs DEF IInv, RootOK, RootShape, Exact
  <2>2. entries[s].depth \in Int /\ d \in Int /\ entries[s].depth < d
    BY <2>1, LimitsAssumption DEF TableOK, TT!TypeOK, TT!Entry, LimitsAssumption
  <2> QED
    BY <2>1, <2>2, ShallowAnswer
<1> QED
  BY <1>1, Invariance, PTL

\* Whichever way a score takes, up the stack or through the table, it bounds the value on
\* the side its reader takes it for: what a call returns, and what is stored.
THEOREM ScoresBound == Spec => ScoresAreBounds
<1>1. IInv /\ IInv' /\ [Next]_vars => [ReturnIsBound]_vars
  BY ReturnsBound
<1>2. IInv /\ IInv' /\ [Next]_vars => [StoredIsBound]_vars
  BY StoresBound
<1> QED
  BY <1>1, <1>2, Invariance, PTL DEF Spec, ScoresAreBounds, EveryReturnIsBound, TableSound
=============================================================================
