--------------------------- MODULE MCMatchMonitor ---------------------------
(* A book of three openings, one of them twice, in two orders.             *)
EXTENDS MatchMonitor, TLC

MCBook == <<"a", "b", "a", "c">>
MCRank == << "a" :> 1 @@ "b" :> 2 @@ "c" :> 3,
             "a" :> 3 @@ "b" :> 1 @@ "c" :> 2 >>
MCSeeds == {1, 2}
\* By symmetry the first start has the first seed.
MCSeedsOf == <<{1}, {1, 2}>>
=============================================================================
