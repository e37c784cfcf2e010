------------------------- MODULE MCOptimizerSearch -------------------------
(* OptimizerSearch with two parameters, of three and of two values.        *)
EXTENDS OptimizerSearch

MCLowest    == <<0, 0>>
MCHighest   == <<2, 1>>
MCFirstStep == <<2, 1>>
MCMinStep   == <<1, 1>>
MCBaseline  == <<1, 0>>
=============================================================================
