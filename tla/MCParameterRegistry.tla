------------------------ MODULE MCParameterRegistry ------------------------
(* Three registries: evaluation with two parameters, the divisor of late-    *)
(* move reductions, and one that the search reads as it is (late-move pruning *)
(* and the two of aspiration are alike).                                      *)
EXTENDS ParameterRegistry

ThreeRegistries == {"eval", "lmr", "lmp"}

SmallDescriptors ==
  [eval |-> <<[name |-> "mobility", default |-> 2, min |-> 0, max |-> 3, step |-> 1],
              [name |-> "activity", default |-> 1, min |-> 1, max |-> 2, step |-> 1]>>,
   lmr  |-> <<[name |-> "divisor", default |-> 6, min |-> 2, max |-> 8, step |-> 2]>>,
   lmp  |-> <<[name |-> "multiplier", default |-> 3, min |-> 3, max |-> 5, step |-> 1]>>]

File(schema, registry, pairs) ==
  [schema |-> schema, registry |-> registry,
   parameters |-> [i \in DOMAIN pairs |-> [name |-> pairs[i][1], value |-> pairs[i][2]]]]

SomeFiles ==
  { \* good ones, one out of the registry's order
    File(1, "eval", <<<<"activity", 2>>, <<"mobility", 0>>>>),
    File(1, "eval", <<<<"mobility", 2>>, <<"activity", 1>>>>),
    File(1, "lmr", <<<<"divisor", 4>>>>),
    File(1, "lmp", <<<<"multiplier", 5>>>>),
    \* another schema, no such registry, too few, twice the same, no such name
    File(2, "lmr", <<<<"divisor", 4>>>>),
    File(1, "qs", <<<<"divisor", 4>>>>),
    File(1, "eval", <<<<"mobility", 3>>>>),
    File(1, "eval", <<<<"mobility", 3>>, <<"mobility", 1>>>>),
    File(1, "eval", <<<<"mobility", 3>>, <<"divisor", 1>>>>),
    \* out of range, off the grid
    File(1, "eval", <<<<"mobility", 3>>, <<"activity", 3>>>>),
    File(1, "lmr", <<<<"divisor", 5>>>>) }

SomeContempts == {-5, 0, 5, 11}
OneSet == {"syzygy"}
=============================================================================
