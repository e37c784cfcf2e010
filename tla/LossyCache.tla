----------------------------- MODULE LossyCache -----------------------------
(***************************************************************************)
(* What the search may rely on in its transposition table: it forgets at   *)
(* will and invents nothing.  A lookup of a lock can only come upon a      *)
(* result (depth, score and bound of one and the same store) or a move     *)
(* that was stored for that lock.                                          *)
(***************************************************************************)
VARIABLES results,  \* results a lookup may find: [lock, depth, score, scoreType]
          hints,    \* moves a lookup may find: [lock, move]
          stored    \* <<result, hint>> the last step was to store, <<>> if none

cacheVars == <<results, hints, stored>>

Init == results = {} /\ hints = {} /\ stored = <<>>

Forget == /\ stored' = <<>>
          /\ results' \subseteq results
          /\ hints' \subseteq hints

Remember == /\ stored' # <<>>
            /\ results' \subseteq results \cup {stored'[1]}
            /\ hints' \subseteq hints \cup {stored'[2]}

Next == Forget \/ Remember

Spec == Init /\ [][Next]_cacheVars
=============================================================================
