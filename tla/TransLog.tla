------------------------------ MODULE TransLog ------------------------------
(***************************************************************************)
(* TransTable with a record of what the last step was asked to store, to   *)
(* be compared with LossyCache.                                            *)
(***************************************************************************)
EXTENDS TransTable

VARIABLE last     \* history: <<result, hint>> of a store, Nothing of another step

logVars == <<entries, size, generation, cntUsed, last>>

Nothing == <<>>

ResultOf(e) == [lock |-> e.lock, depth |-> e.depth, score |-> e.score,
                scoreType |-> e.scoreType]
HintOf(e)   == [lock |-> e.lock, move |-> e.move]

LogInit == Init /\ last = Nothing

LoggedStore ==
  \E k \in Keys, depth \in Depths, ply \in Plies, mv \in Moves, sc \in Scores,
     t \in Types :
       LET new == Stored(k, depth, ply, mv, sc, t)
       IN  StoreOf(k, depth, new) /\ last' = <<ResultOf(new), HintOf(new)>>

LoggedOther == (Retrieve \/ IncDate \/ Clear \/ Resize) /\ last' = Nothing

LogNext == LoggedStore \/ LoggedOther

LogSpec == LogInit /\ [][LogNext]_logVars

-----------------------------------------------------------------------------
\* What a lookup may come upon: the results and the moves of the slots in use.
InUse   == {s \in Slots : entries[s].date # 0}
Results == {ResultOf(entries[s]) : s \in InUse}
Hints   == {HintOf(entries[s]) : s \in InUse}

Cache == INSTANCE LossyCache WITH results <- Results, hints <- Hints, stored <- last

\* The table forgets as it likes and invents nothing: what Retrieve finds under a lock
\* is the depth, score and bound of one Store under that lock, however the entry was
\* refreshed, merged or moved over since, and a move of some Store under that lock.
IsLossyCache == Cache!Spec
=============================================================================
