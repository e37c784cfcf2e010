---------------------------- MODULE MCUciSession ----------------------------
(* UciSession on small instances: the cfg files choose the kinds of go, the *)
(* discipline of the GUI and the bounds.                                    *)
EXTENDS UciSession

AllKinds == {"timed", "infinite", "ponder"}
Timed    == {"timed"}
Ponder   == {"ponder"}
None     == {}

OnePosition  == {"startpos"}
TwoPositions == {"startpos", "fen"}
=============================================================================
