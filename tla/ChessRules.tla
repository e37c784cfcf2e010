----------------------------- MODULE ChessRules -----------------------------
(***************************************************************************)
(* What the board, the attack tables and the generator together promise: a *)
(* game of chess.  game is the sequence of positions since the first one;  *)
(* a step plays a legal move, passes, or takes the last of these back.     *)
(*                                                                         *)
(* The rules are written on files and ranks, with no table and no          *)
(* bitboard.  A position is [at, stm, rights, ep, clock], where at gives   *)
(* the <<piece, side>> on every occupied square, the pieces numbered from  *)
(* 0, the pawn, to 5, the king; 6 is no piece.                             *)
(***************************************************************************)
EXTENDS Integers, Sequences

CONSTANT Starts     \* the positions a game may start from
VARIABLE game

\* The square k steps away, -1 off the board.
Go(sq, step, k) ==
  LET f == (sq \div 8) + k * step[1]
      r == (sq % 8) + k * step[2]
  IN  IF f \in 0..7 /\ r \in 0..7 THEN 8 * f + r ELSE -1

Forward(sd) == IF sd = 0 THEN 1 ELSE -1
Straight    == {<<1, 0>>, <<-1, 0>>, <<0, 1>>, <<0, -1>>}
Oblique     == {<<1, 1>>, <<-1, 1>>, <<1, -1>>, <<-1, -1>>}
Jumps       == {d \in {-2, -1, 1, 2} \X {-2, -1, 1, 2} : d[1] * d[1] + d[2] * d[2] = 5}
Stride(pc, sd) == CASE pc = 0 -> {<<1, Forward(sd)>>, <<-1, Forward(sd)>>}
                    [] pc = 1 -> Jumps
                    [] pc = 2 -> Oblique
                    [] pc = 3 -> Straight
                    [] pc \in {4, 5} -> Straight \cup Oblique

\* The squares that the man on sq attacks.
Hits(at, sq) ==
  LET man == at[sq]
      reach == IF man[1] \in {2, 3, 4} THEN 7 ELSE 1
  IN  (UNION {{Go(sq, d, k) : k \in {j \in 1..reach : \A i \in 1..(j - 1) : Go(sq, d, i) \notin DOMAIN at}} :
              d \in Stride(man[1], man[2])}) \ {-1}

Attacked(at, sq, by) == \E t \in DOMAIN at : at[t][2] = by /\ sq \in Hits(at, t)
KingOf(at, sd)       == CHOOSE sq \in DOMAIN at : at[sq] = <<5, sd>>
Checked(at, sd)      == Attacked(at, KingOf(at, sd), 1 - sd)

\* What castling right i needs at home: its king and its rook.
Home(i) == << <<32, 56>>, <<32, 0>>, <<39, 63>>, <<39, 7>> >>[i + 1]
Inside(i) == LET h == Home(i) IN IF h[1] < h[2] THEN {h[1] + 8, h[1] + 16}
                                                ELSE {h[1] - 8, h[1] - 16, h[1] - 24}
Wing(i) == IF i % 2 = 0 THEN 1 ELSE -1

\* A move is <<fr, to, pp>>.  What it takes, and the rook that a castling brings.
IsPawn(pos, m)  == pos.at[m[1]][1] = 0
Castles(pos, m) == pos.at[m[1]][1] = 5 /\ m[2] - m[1] \in {16, -16}
Corner(pos, m)  == Home(2 * pos.stm + (IF m[2] > m[1] THEN 0 ELSE 1))[2]
Middle(m)       == (m[1] + m[2]) \div 2
Taken(pos, m)   == IF IsPawn(pos, m) /\ m[2] = pos.ep THEN m[2] - Forward(pos.stm) ELSE m[2]

MenAfter(pos, m) ==
  LET gone == {m[1], Taken(pos, m)} \cup (IF Castles(pos, m) THEN {Corner(pos, m)} ELSE {})
      rook == IF Castles(pos, m) THEN {Middle(m)} ELSE {}
  IN  [sq \in (DOMAIN pos.at \ gone) \cup {m[2]} \cup rook |->
         IF sq = m[2] THEN IF m[3] = 6 THEN pos.at[m[1]] ELSE <<m[3], pos.stm>>
         ELSE IF sq \in rook THEN <<3, pos.stm>> ELSE pos.at[sq]]

\* The square a pawn has passed, as long as a pawn may take there.
Passed(at, pos, m) ==
  IF /\ IsPawn(pos, m) /\ m[2] - m[1] \in {2, -2}
     /\ \E t \in DOMAIN at : at[t] = <<0, 1 - pos.stm>> /\ Middle(m) \in Hits(at, t)
  THEN Middle(m) ELSE -1

After(pos, m) ==
  [at     |-> MenAfter(pos, m),
   stm    |-> 1 - pos.stm,
   rights |-> {i \in pos.rights : {m[1], m[2]} \cap {Home(i)[1], Home(i)[2]} = {}},
   ep     |-> Passed(MenAfter(pos, m), pos, m),
   clock  |-> IF IsPawn(pos, m) \/ Taken(pos, m) \in DOMAIN pos.at THEN 0 ELSE pos.clock + 1]

Mine(pos, sq) == sq \in DOMAIN pos.at /\ pos.at[sq][2] = pos.stm
Free(pos, sq) == sq \notin DOMAIN pos.at

\* Where the men of a side go, whether or not the king is left in check.
Pushes(pos, sq) ==
  LET fwd == Forward(pos.stm) IN
  {t \in {sq + fwd, sq + 2 * fwd} :
     /\ Free(pos, sq + fwd) /\ Free(pos, t)
     /\ t # sq + fwd => sq % 8 = (IF pos.stm = 0 THEN 1 ELSE 6)}
Takes(pos, sq)   == {t \in Hits(pos.at, sq) : t = pos.ep \/ ~(Free(pos, t) \/ Mine(pos, t))}
Targets(pos, sq) == IF pos.at[sq][1] = 0 THEN Pushes(pos, sq) \cup Takes(pos, sq)
                    ELSE {t \in Hits(pos.at, sq) : ~Mine(pos, t)}
Promoted(pos, sq, t) == IF pos.at[sq][1] = 0 /\ t % 8 \in {0, 7} THEN 1..4 ELSE {6}

Castlings(pos) ==
  {i \in pos.rights : /\ i \div 2 = pos.stm
                      /\ \A sq \in Inside(i) : Free(pos, sq)
                      /\ ~Checked(pos.at, pos.stm)
                      /\ ~Attacked(pos.at, Home(i)[1] + 8 * Wing(i), 1 - pos.stm)}

Moves(pos) ==
  (UNION {UNION {{<<sq, t, pp>> : pp \in Promoted(pos, sq, t)} : t \in Targets(pos, sq)} :
          sq \in {s \in DOMAIN pos.at : Mine(pos, s)}})
  \cup {<<Home(i)[1], Home(i)[1] + 16 * Wing(i), 6>> : i \in Castlings(pos)}

Legal(pos) == {m \in Moves(pos) : ~Checked(After(pos, m).at, pos.stm)}

-----------------------------------------------------------------------------
Current == game[Len(game)]

Init == game \in {<<pos>> : pos \in Starts}

Play == \E m \in Legal(Current) : game' = Append(game, After(Current, m))

\* The null move of the search, which starts the clock anew.
Pass == /\ ~Checked(Current.at, Current.stm)
        /\ game' = Append(game, [Current EXCEPT !.stm = 1 - @, !.ep = -1, !.clock = 0])

TakeBack == Len(game) > 1 /\ game' = SubSeq(game, 1, Len(game) - 1)

Next == Play \/ Pass \/ TakeBack
Spec == Init /\ [][Next]_game
=============================================================================
