----------------------------- MODULE MateScore ------------------------------
(* Scores of search/trans.go: a score outside -EvalMax..EvalMax is a mate, *)
(* counted from the root in the search and from the node in the table.     *)
EXTENDS Integers

CONSTANT EvalMax
ASSUME EvalMaxAssumption == EvalMax \in Nat

IsMateScore(sc) == sc < -EvalMax \/ sc > EvalMax

\* What the table keeps of a score found ply plies below the root...
RemMatePly(sc, ply) == IF sc < -EvalMax THEN sc - ply
                       ELSE IF sc > EvalMax THEN sc + ply ELSE sc

\* ... and what a node at ply reads out of it.
AddMatePly(sc, ply) == IF sc < -EvalMax THEN sc + ply
                       ELSE IF sc > EvalMax THEN sc - ply ELSE sc
=============================================================================
