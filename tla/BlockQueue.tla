----------------------------- MODULE BlockQueue -----------------------------
(***************************************************************************)
(* What the optimizer promises about the blocks of a campaign, whatever    *)
(* happens to its processes: one block at a time is taken, always the      *)
(* first that is still to be played; a block that is given back is taken   *)
(* again; a block that is done stays done.                                 *)
(***************************************************************************)
EXTENDS Naturals

CONSTANT BlockCount

Blocks == 1..BlockCount

VARIABLE state

Init == state = [b \in Blocks |-> "open"]

Take(b) ==
  /\ state[b] = "open"
  /\ \A c \in Blocks : state[c] # "taken"
  /\ \A c \in Blocks : c < b => state[c] = "done"
  /\ state' = [state EXCEPT ![b] = "taken"]

GiveBack(b) ==
  /\ state[b] = "taken"
  /\ state' = [state EXCEPT ![b] = "open"]

Complete(b) ==
  /\ state[b] = "taken"
  /\ state' = [state EXCEPT ![b] = "done"]

Next == \E b \in Blocks : Take(b) \/ GiveBack(b) \/ Complete(b)

Spec == Init /\ [][Next]_state
=============================================================================
