----------------------------- MODULE GameProofs -----------------------------
(***************************************************************************)
(* A game, its board and its clock.                                        *)
(*                                                                         *)
(* ChessGame: from any set of legal positions, by moves, null moves and    *)
(* moves taken back.  Every board since the first is Good (the sets, the   *)
(* squares, the kings, the counts and the keys agree, the rights and the   *)
(* en passant square are true, the king that waits is not attacked), and   *)
(* every board but the last is the one that taking back the next restores. *)
(*                                                                         *)
(* TimeControl: for any clocks, increments, moves to go, stages of the     *)
(* game, lengths of an interval and number of moves, no move takes more    *)
(* than its limits and one interval, and so the clock keeps what SetHard   *)
(* keeps back.                                                             *)
(***************************************************************************)
EXTENDS ChessGame, TimeControl, FiniteSetTheorems, WellFoundedInduction, TLAPS

(***************************************************************************)
(* The board: what agrees with what.                                       *)

CopySet ==
  [key : SUBSET Nat, pawnKey : SUBSET Nat, flags : SUBSET (0..3), epSq : Squares \cup {NoSquare},
   moves : Nat, recap : Squares \cup {NoSquare}, phase : Int]

MoveSet == [fr : Squares, to : Squares, pc : 0..6, cp : 0..6, pp : 0..6]

UndoSet == [copy : CopySet, move : MoveSet, capSq : Squares \cup {NoSquare}, castling : BOOLEAN]

BoardSet ==
  [piece : [Pieces -> SUBSET Squares], side : [Sides -> SUBSET Squares], all : SUBSET Squares,
   king : [Sides -> Squares \cup {NoSquare}], count : [P12s -> Int], square : [Squares -> 0..6],
   stm : Sides, copy : CopySet, rootIx : Nat, stack : Seq(UndoSet)]

\* The bitboards, the counts and the kings are those of the squares.
SidesAgree(b) ==
  \A sq \in Squares :
    /\ b.square[sq] = None <=> \A sd \in Sides : sq \notin b.side[sd]
    /\ \A s, t \in Sides : sq \in b.side[s] /\ sq \in b.side[t] => s = t

PiecesAgree(b) == \A pc \in Pieces : \A sq \in Squares : sq \in b.piece[pc] <=> b.square[sq] = pc

CountsAgree(b) ==
  \A pc \in Pieces : \A sd \in Sides : b.count[MakeP12(pc, sd)] = Cardinality(PieceSd(b, pc, sd))

KingsAgree(b) == \A sd \in Sides : \A sq \in PieceSd(b, King, sd) : b.king[sd] = sq

MenAgree(b) == SidesAgree(b) /\ PiecesAgree(b) /\ CountsAgree(b) /\ KingsAgree(b)

\* The keys of the men of the pieces pcs.
MenKeys(b, pcs) ==
  {ix \in 0..767 : \E pc \in pcs : \E sd \in Sides : \E sq \in PieceSd(b, pc, sd) :
                     ix = MakeP12(pc, sd) * 64 + sq}

Both(b, pc) == b.count[MakeP12(pc, White)] + b.count[MakeP12(pc, Black)]
Phases(b) == Both(b, Knight) + Both(b, Bishop) + 2 * Both(b, Rook) + 4 * Both(b, Queen)

\* The place of a man's random number.
Ix(pc, sd, sq) == MakeP12(pc, sd) * 64 + sq

\* The keys and the phase are those of the men and the side to move.
KeysAgree(b) ==
  /\ b.copy.key = SymDiff(MenKeys(b, Pieces), StmKey(b.stm))
  /\ b.copy.pawnKey = MenKeys(b, {Pawn})
  /\ b.copy.phase = Phases(b)

\* A copy but for what the men say.
Rest(c) == <<c.flags, c.epSq, c.moves, c.recap>>

-----------------------------------------------------------------------------
LEMMA Numbers ==
  /\ Pieces = 0..5 /\ Squares = 0..63 /\ Sides = {0, 1} /\ P12s = 0..11
  /\ White = 0 /\ Black = 1 /\ None = 6 /\ NoSquare = -1 /\ Pawn = 0 /\ Knight = 1 /\ Bishop = 2
  /\ Rook = 3 /\ Queen = 4 /\ King = 5 /\ StmIx = 768
  BY DEF Pieces, Squares, Sides, P12s, White, Black, None, NoSquare, Pawn, Knight, Bishop, Rook,
         Queen, King, StmIx

\* Each man has a key of its own.
LEMMA ManKey ==
  ASSUME NEW pc \in Pieces, NEW sd \in Sides, NEW sq \in Squares
  PROVE  /\ MakeP12(pc, sd) \in P12s /\ MakeP12(pc, sd) * 64 + sq \in 0..767
         /\ \A p \in Pieces : \A s \in Sides : \A q \in Squares :
              /\ MakeP12(p, s) * 64 + q = MakeP12(pc, sd) * 64 + sq => p = pc /\ s = sd /\ q = sq
              /\ MakeP12(p, s) = MakeP12(pc, sd) => p = pc /\ s = sd
  BY Numbers DEF MakeP12

\* The men of a side and a piece are finitely many.
LEMMA FinitelyMany ==
  ASSUME NEW S \in SUBSET Squares
  PROVE  IsFiniteSet(S) /\ Cardinality(S) \in Nat
<1>1. IsFiniteSet(Squares)
  <2>1. PICK a \in Int, z \in Int : a = 0 /\ z = 63
    OBVIOUS
  <2>2. IsFiniteSet(a..z)
    BY FS_Interval
  <2> QED
    BY <2>1, <2>2 DEF Squares
<1> QED
  BY <1>1, FS_Subset, FS_CardinalityType

\* The fields of a copy after a man has come or gone.
LEMMA RekeyIs ==
  ASSUME NEW c \in CopySet, NEW pc \in Pieces, NEW sd \in Sides, NEW sq \in Squares, NEW d \in Int
  PROVE  /\ Rekey(c, pc, sd, sq, d) \in CopySet
         /\ Rekey(c, pc, sd, sq, d).key = SymDiff(c.key, PieceKey(MakeP12(pc, sd), sq))
         /\ Rekey(c, pc, sd, sq, d).pawnKey =
              IF pc = Pawn THEN SymDiff(c.pawnKey, PieceKey(MakeP12(pc, sd), sq)) ELSE c.pawnKey
         /\ Rekey(c, pc, sd, sq, d).phase = c.phase + d * Phase(pc)
         /\ Rest(Rekey(c, pc, sd, sq, d)) = Rest(c)
<1>1. PICK k, o : k = PieceKey(MakeP12(pc, sd), sq) /\ o = Rekey(c, pc, sd, sq, d)
  OBVIOUS
<1>2. PICK key, pawnKey, phase :
        /\ key = SymDiff(c.key, k) /\ phase = c.phase + d * Phase(pc)
        /\ pawnKey = IF pc = Pawn THEN SymDiff(c.pawnKey, k) ELSE c.pawnKey
  OBVIOUS
<1>3. o = [c EXCEPT !.key = key, !.pawnKey = pawnKey, !.phase = phase]
  BY <1>1, <1>2, Zenon DEF Rekey
<1>4. key \in SUBSET Nat /\ pawnKey \in SUBSET Nat
  <2>1. k \in SUBSET Nat
    BY <1>1, ManKey DEF PieceKey
  <2> QED
    BY <1>2, <2>1 DEF SymDiff, CopySet
<1>5. Phase(pc) \in 0..4
  BY Numbers DEF Phase
<1>6. phase \in Int
  <2>1. \A x \in Int, y \in 0..4 : x * y \in Int
    OBVIOUS
  <2>2. c.phase \in Int
    BY DEF CopySet
  <2> QED
    BY <1>2, <1>5, <2>1, <2>2
<1>7. /\ o \in CopySet /\ o.key = key /\ o.pawnKey = pawnKey /\ o.phase = phase
      /\ o.flags = c.flags /\ o.epSq = c.epSq /\ o.moves = c.moves /\ o.recap = c.recap
  BY <1>3, <1>4, <1>6 DEF CopySet
<1> QED
  BY <1>1, <1>2, <1>7 DEF Rest

\* Nothing but the men and the copy differs.
Others(b, o) == o.all = b.all /\ o.stm = b.stm /\ o.rootIx = b.rootIx /\ o.stack = b.stack

\* The board o is b with a man more, and with a man less.
Arrives(b, pc, sd, sq, o) ==
  /\ o.piece = [b.piece EXCEPT ![pc] = @ \cup {sq}]
  /\ o.side = [b.side EXCEPT ![sd] = @ \cup {sq}]
  /\ o.square = [b.square EXCEPT ![sq] = pc]
  /\ o.king = [b.king EXCEPT ![sd] = IF pc = King THEN sq ELSE @]
  /\ o.count = [b.count EXCEPT ![MakeP12(pc, sd)] = @ + 1]
  /\ Others(b, o)

Leaves(b, pc, sd, sq, o) ==
  /\ o.piece = [b.piece EXCEPT ![pc] = @ \ {sq}]
  /\ o.side = [b.side EXCEPT ![sd] = @ \ {sq}]
  /\ o.square = [b.square EXCEPT ![sq] = None]
  /\ o.king = b.king
  /\ o.count = [b.count EXCEPT ![MakeP12(pc, sd)] = @ - 1]
  /\ Others(b, o)

LEMMA SetSquareIs ==
  ASSUME NEW b \in BoardSet, NEW pc \in Pieces, NEW sd \in Sides, NEW sq \in Squares, NEW upd \in BOOLEAN
  PROVE  /\ SetSquare(b, pc, sd, sq, upd) \in BoardSet
         /\ Arrives(b, pc, sd, sq, SetSquare(b, pc, sd, sq, upd))
         /\ SetSquare(b, pc, sd, sq, upd).copy = IF upd THEN Rekey(b.copy, pc, sd, sq, 1) ELSE b.copy
<1>1. PICK piece, side, square, king, count, copy, o :
        /\ piece = [b.piece EXCEPT ![pc] = @ \cup {sq}]
        /\ side = [b.side EXCEPT ![sd] = @ \cup {sq}]
        /\ square = [b.square EXCEPT ![sq] = pc]
        /\ king = [b.king EXCEPT ![sd] = IF pc = King THEN sq ELSE @]
        /\ count = [b.count EXCEPT ![MakeP12(pc, sd)] = @ + 1]
        /\ copy = IF upd THEN Rekey(b.copy, pc, sd, sq, 1) ELSE b.copy
        /\ o = SetSquare(b, pc, sd, sq, upd)
  OBVIOUS
<1>2. /\ b.piece \in [Pieces -> SUBSET Squares] /\ b.side \in [Sides -> SUBSET Squares]
      /\ b.king \in [Sides -> Squares \cup {NoSquare}] /\ b.count \in [P12s -> Int]
      /\ b.square \in [Squares -> 0..6] /\ b.copy \in CopySet
  BY DEF BoardSet
<1>3. piece \in [Pieces -> SUBSET Squares] /\ side \in [Sides -> SUBSET Squares]
  BY <1>1, <1>2
<1>4. king \in [Sides -> Squares \cup {NoSquare}]
  BY <1>1, <1>2
<1>5. square \in [Squares -> 0..6]
  BY <1>1, <1>2, Numbers
<1>6. count \in [P12s -> Int]
  <2>1. MakeP12(pc, sd) \in P12s
    BY ManKey
  <2> QED
    BY <1>1, <1>2, <2>1
<1>7. copy \in CopySet
  <2>1. Rekey(b.copy, pc, sd, sq, 1) \in CopySet
    BY <1>2, RekeyIs
  <2> QED
    BY <1>1, <1>2, <2>1
<1>8. PICK x : x = [b EXCEPT !.piece = piece, !.side = side, !.square = square]
  OBVIOUS
<1>9. o = [x EXCEPT !.king = king, !.count = count, !.copy = copy]
  BY <1>1, <1>8, Zenon DEF SetSquare
<1>10. /\ x \in BoardSet /\ x.piece = piece /\ x.side = side /\ x.square = square
       /\ x.all = b.all /\ x.stm = b.stm /\ x.rootIx = b.rootIx /\ x.stack = b.stack
  BY <1>3, <1>5, <1>8 DEF BoardSet
<1>11. /\ o \in BoardSet /\ o.piece = piece /\ o.side = side /\ o.square = square
       /\ o.king = king /\ o.count = count /\ o.copy = copy
       /\ o.all = b.all /\ o.stm = b.stm /\ o.rootIx = b.rootIx /\ o.stack = b.stack
  BY <1>4, <1>6, <1>7, <1>9, <1>10 DEF BoardSet
<1> QED
  BY <1>1, <1>11 DEF Arrives, Others

LEMMA ClearSquareIs ==
  ASSUME NEW b \in BoardSet, NEW pc \in Pieces, NEW sd \in Sides, NEW sq \in Squares, NEW upd \in BOOLEAN
  PROVE  /\ ClearSquare(b, pc, sd, sq, upd) \in BoardSet
         /\ Leaves(b, pc, sd, sq, ClearSquare(b, pc, sd, sq, upd))
         /\ ClearSquare(b, pc, sd, sq, upd).copy = IF upd THEN Rekey(b.copy, pc, sd, sq, -1) ELSE b.copy
<1>1. PICK piece, side, square, count, copy, o :
        /\ piece = [b.piece EXCEPT ![pc] = @ \ {sq}]
        /\ side = [b.side EXCEPT ![sd] = @ \ {sq}]
        /\ square = [b.square EXCEPT ![sq] = None]
        /\ count = [b.count EXCEPT ![MakeP12(pc, sd)] = @ - 1]
        /\ copy = IF upd THEN Rekey(b.copy, pc, sd, sq, -1) ELSE b.copy
        /\ o = ClearSquare(b, pc, sd, sq, upd)
  OBVIOUS
<1>2. /\ b.piece \in [Pieces -> SUBSET Squares] /\ b.side \in [Sides -> SUBSET Squares]
      /\ b.count \in [P12s -> Int] /\ b.square \in [Squares -> 0..6] /\ b.copy \in CopySet
  BY DEF BoardSet
<1>3. piece \in [Pieces -> SUBSET Squares] /\ side \in [Sides -> SUBSET Squares]
  BY <1>1, <1>2
<1>5. square \in [Squares -> 0..6]
  BY <1>1, <1>2, Numbers
<1>6. count \in [P12s -> Int]
  <2>1. MakeP12(pc, sd) \in P12s
    BY ManKey
  <2> QED
    BY <1>1, <1>2, <2>1
<1>7. copy \in CopySet
  <2>1. Rekey(b.copy, pc, sd, sq, -1) \in CopySet
    BY <1>2, RekeyIs
  <2> QED
    BY <1>1, <1>2, <2>1
<1>8. PICK x : x = [b EXCEPT !.piece = piece, !.side = side, !.square = square]
  OBVIOUS
<1>9. o = [x EXCEPT !.count = count, !.copy = copy]
  BY <1>1, <1>8, Zenon DEF ClearSquare
<1>10. /\ x \in BoardSet /\ x.piece = piece /\ x.side = side /\ x.square = square /\ x.king = b.king
       /\ x.all = b.all /\ x.stm = b.stm /\ x.rootIx = b.rootIx /\ x.stack = b.stack
  BY <1>3, <1>5, <1>8 DEF BoardSet
<1>11. /\ o \in BoardSet /\ o.piece = piece /\ o.side = side /\ o.square = square
       /\ o.king = b.king /\ o.count = count /\ o.copy = copy
       /\ o.all = b.all /\ o.stm = b.stm /\ o.rootIx = b.rootIx /\ o.stack = b.stack
  BY <1>6, <1>7, <1>9, <1>10 DEF BoardSet
<1> QED
  BY <1>1, <1>11 DEF Leaves, Others

\* The men of each piece and side when one more has come, and when one has gone.
Gains(b, pc, sd, sq, o) ==
  \A p \in Pieces : \A s \in Sides :
    PieceSd(o, p, s) = IF p = pc /\ s = sd THEN PieceSd(b, p, s) \cup {sq} ELSE PieceSd(b, p, s)

Loses(b, pc, sd, sq, o) ==
  \A p \in Pieces : \A s \in Sides :
    PieceSd(o, p, s) = IF p = pc /\ s = sd THEN PieceSd(b, p, s) \ {sq} ELSE PieceSd(b, p, s)

LEMMA ArrivalAgrees ==
  ASSUME NEW b \in BoardSet, NEW o \in BoardSet, NEW pc \in Pieces, NEW sd \in Sides, NEW sq \in Squares,
         Arrives(b, pc, sd, sq, o), MenAgree(b), b.square[sq] = None,
         pc = King => PieceSd(b, King, sd) = {}
  PROVE  MenAgree(o) /\ Gains(b, pc, sd, sq, o) /\ sq \notin PieceSd(b, pc, sd)
<1>1. /\ b.piece \in [Pieces -> SUBSET Squares] /\ b.side \in [Sides -> SUBSET Squares]
      /\ b.king \in [Sides -> Squares \cup {NoSquare}] /\ b.count \in [P12s -> Int]
      /\ b.square \in [Squares -> 0..6]
  BY DEF BoardSet
<1>2. /\ \A p \in Pieces : o.piece[p] = IF p = pc THEN b.piece[p] \cup {sq} ELSE b.piece[p]
      /\ \A s \in Sides : o.side[s] = IF s = sd THEN b.side[s] \cup {sq} ELSE b.side[s]
      /\ \A q \in Squares : o.square[q] = IF q = sq THEN pc ELSE b.square[q]
      /\ \A s \in Sides : o.king[s] = IF s = sd /\ pc = King THEN sq ELSE b.king[s]
      /\ \A p \in P12s : o.count[p] = IF p = MakeP12(pc, sd) THEN b.count[p] + 1 ELSE b.count[p]
  <2>1. \A p \in Pieces : o.piece[p] = IF p = pc THEN b.piece[p] \cup {sq} ELSE b.piece[p]
    BY <1>1 DEF Arrives
  <2>2. \A s \in Sides : o.side[s] = IF s = sd THEN b.side[s] \cup {sq} ELSE b.side[s]
    BY <1>1 DEF Arrives
  <2>3. \A q \in Squares : o.square[q] = IF q = sq THEN pc ELSE b.square[q]
    BY <1>1 DEF Arrives
  <2>4. \A s \in Sides : o.king[s] = IF s = sd /\ pc = King THEN sq ELSE b.king[s]
    BY <1>1 DEF Arrives
  <2>5. \A p \in P12s : o.count[p] = IF p = MakeP12(pc, sd) THEN b.count[p] + 1 ELSE b.count[p]
    BY <1>1 DEF Arrives
  <2> QED
    BY <2>1, <2>2, <2>3, <2>4, <2>5
<1>3. \A s \in Sides : sq \notin b.side[s]
  BY DEF MenAgree, SidesAgree
<1>4. \A p \in Pieces : sq \notin b.piece[p]
  <2>1. None \notin Pieces
    BY Numbers
  <2> QED
    BY <2>1 DEF MenAgree, PiecesAgree
<1>5. ASSUME NEW p \in Pieces, NEW s \in Sides
      PROVE  PieceSd(o, p, s) = IF p = pc /\ s = sd THEN PieceSd(b, p, s) \cup {sq} ELSE PieceSd(b, p, s)
  <2>1. /\ o.piece[p] = IF p = pc THEN b.piece[p] \cup {sq} ELSE b.piece[p]
        /\ o.side[s] = IF s = sd THEN b.side[s] \cup {sq} ELSE b.side[s]
        /\ sq \notin b.piece[p] /\ sq \notin b.side[s]
    BY <1>2, <1>3, <1>4
  <2> QED
    BY <2>1 DEF PieceSd
<1>6. Gains(b, pc, sd, sq, o) /\ sq \notin PieceSd(b, pc, sd)
  BY <1>3, <1>5 DEF Gains, PieceSd
<1>7. SidesAgree(o)
  <2> SUFFICES ASSUME NEW q \in Squares
               PROVE  /\ o.square[q] = None <=> \A s \in Sides : q \notin o.side[s]
                      /\ \A s, t \in Sides : q \in o.side[s] /\ q \in o.side[t] => s = t
    BY DEF SidesAgree
  <2>1. /\ b.square[q] = None <=> \A s \in Sides : q \notin b.side[s]
        /\ \A s, t \in Sides : q \in b.side[s] /\ q \in b.side[t] => s = t
    BY DEF MenAgree, SidesAgree
  <2>2. pc # None
    BY Numbers
  <2>3. /\ \A s \in Sides : q \in o.side[s] <=> q \in b.side[s] \/ (q = sq /\ s = sd)
        /\ o.square[q] = IF q = sq THEN pc ELSE b.square[q]
    BY <1>2, ZenonT(40)
  <2> QED
    BY <1>3, <2>1, <2>2, <2>3
<1>9. PiecesAgree(o)
  <2> SUFFICES ASSUME NEW p \in Pieces, NEW q \in Squares
               PROVE  q \in o.piece[p] <=> o.square[q] = p
    BY DEF PiecesAgree
  <2>1. q \in b.piece[p] <=> b.square[q] = p
    BY DEF MenAgree, PiecesAgree
  <2>2. /\ q \in o.piece[p] <=> q \in b.piece[p] \/ (q = sq /\ p = pc)
        /\ o.square[q] = IF q = sq THEN pc ELSE b.square[q]
    BY <1>2, ZenonT(40)
  <2> QED
    BY <1>4, <2>1, <2>2
<1>10. CountsAgree(o)
  <2> SUFFICES ASSUME NEW p \in Pieces, NEW s \in Sides
               PROVE  o.count[MakeP12(p, s)] = Cardinality(PieceSd(o, p, s))
    BY DEF CountsAgree
  <2>1. PICK S : S = PieceSd(b, p, s)
    OBVIOUS
  <2>2. S \in SUBSET Squares /\ b.count[MakeP12(p, s)] = Cardinality(S)
    BY <1>1, <2>1 DEF PieceSd, MenAgree, CountsAgree
  <2>3. IsFiniteSet(S) /\ Cardinality(S) \in Nat
    BY <2>2, FinitelyMany
  <2>4. sq \notin S
    BY <1>3, <2>1 DEF PieceSd
  <2>5. Cardinality(S \cup {sq}) = Cardinality(S) + 1
    BY <2>3, <2>4, FS_AddElement
  <2>6. MakeP12(p, s) \in P12s /\ (MakeP12(p, s) = MakeP12(pc, sd) => p = pc /\ s = sd)
    BY ManKey
  <2>7. PieceSd(o, p, s) = IF p = pc /\ s = sd THEN S \cup {sq} ELSE S
    BY <1>5, <2>1
  <2>8. o.count[MakeP12(p, s)] = IF MakeP12(p, s) = MakeP12(pc, sd) THEN Cardinality(S) + 1 ELSE Cardinality(S)
    BY <1>2, <2>2, <2>6
  <2> QED
    BY <2>5, <2>6, <2>7, <2>8
<1>11. KingsAgree(o)
  <2> SUFFICES ASSUME NEW s \in Sides, NEW q \in PieceSd(o, King, s)
               PROVE  o.king[s] = q
    BY DEF KingsAgree
  <2>1. PieceSd(o, King, s) = IF King = pc /\ s = sd THEN PieceSd(b, King, s) \cup {sq} ELSE PieceSd(b, King, s)
    BY <1>5, Numbers
  <2>2. \A r \in PieceSd(b, King, s) : b.king[s] = r
    BY DEF MenAgree, KingsAgree
  <2>3. o.king[s] = IF s = sd /\ pc = King THEN sq ELSE b.king[s]
    BY <1>2
  <2> QED
    BY <2>1, <2>2, <2>3
<1> QED
  BY <1>6, <1>7, <1>9, <1>10, <1>11 DEF MenAgree

LEMMA LeavingAgrees ==
  ASSUME NEW b \in BoardSet, NEW o \in BoardSet, NEW pc \in Pieces, NEW sd \in Sides, NEW sq \in Squares,
         Leaves(b, pc, sd, sq, o), MenAgree(b), sq \in PieceSd(b, pc, sd)
  PROVE  MenAgree(o) /\ Loses(b, pc, sd, sq, o) /\ o.square[sq] = None
<1>1. /\ b.piece \in [Pieces -> SUBSET Squares] /\ b.side \in [Sides -> SUBSET Squares]
      /\ b.count \in [P12s -> Int] /\ b.square \in [Squares -> 0..6]
  BY DEF BoardSet
<1>2. /\ \A p \in Pieces : o.piece[p] = IF p = pc THEN b.piece[p] \ {sq} ELSE b.piece[p]
      /\ \A s \in Sides : o.side[s] = IF s = sd THEN b.side[s] \ {sq} ELSE b.side[s]
      /\ \A q \in Squares : o.square[q] = IF q = sq THEN None ELSE b.square[q]
      /\ o.king = b.king
      /\ \A p \in P12s : o.count[p] = IF p = MakeP12(pc, sd) THEN b.count[p] - 1 ELSE b.count[p]
  <2>1. \A p \in Pieces : o.piece[p] = IF p = pc THEN b.piece[p] \ {sq} ELSE b.piece[p]
    BY <1>1 DEF Leaves
  <2>2. \A s \in Sides : o.side[s] = IF s = sd THEN b.side[s] \ {sq} ELSE b.side[s]
    BY <1>1 DEF Leaves
  <2>3. \A q \in Squares : o.square[q] = IF q = sq THEN None ELSE b.square[q]
    BY <1>1 DEF Leaves
  <2>5. \A p \in P12s : o.count[p] = IF p = MakeP12(pc, sd) THEN b.count[p] - 1 ELSE b.count[p]
    BY <1>1 DEF Leaves
  <2> QED
    BY <2>1, <2>2, <2>3, <2>5 DEF Leaves
<1>3. sq \in b.side[sd] /\ sq \in b.piece[pc]
  BY DEF PieceSd
<1>4. b.square[sq] = pc /\ (\A p \in Pieces : sq \in b.piece[p] => p = pc)
  BY <1>3 DEF MenAgree, PiecesAgree
<1>8. \A s \in Sides : sq \in b.side[s] => s = sd
  BY <1>3 DEF MenAgree, SidesAgree
<1>5. ASSUME NEW p \in Pieces, NEW s \in Sides
      PROVE  PieceSd(o, p, s) = IF p = pc /\ s = sd THEN PieceSd(b, p, s) \ {sq} ELSE PieceSd(b, p, s)
  <2>1. /\ o.piece[p] = IF p = pc THEN b.piece[p] \ {sq} ELSE b.piece[p]
        /\ o.side[s] = IF s = sd THEN b.side[s] \ {sq} ELSE b.side[s]
        /\ (sq \in b.piece[p] => p = pc) /\ (sq \in b.side[s] => s = sd)
    BY <1>2, <1>8, <1>4
  <2> QED
    BY <2>1 DEF PieceSd
<1>6. Loses(b, pc, sd, sq, o) /\ o.square[sq] = None
  BY <1>2, <1>5 DEF Loses
<1>7. SidesAgree(o)
  <2> SUFFICES ASSUME NEW q \in Squares
               PROVE  /\ o.square[q] = None <=> \A s \in Sides : q \notin o.side[s]
                      /\ \A s, t \in Sides : q \in o.side[s] /\ q \in o.side[t] => s = t
    BY DEF SidesAgree
  <2>1. /\ b.square[q] = None <=> \A s \in Sides : q \notin b.side[s]
        /\ \A s, t \in Sides : q \in b.side[s] /\ q \in b.side[t] => s = t
    BY DEF MenAgree, SidesAgree
  <2>3. /\ \A s \in Sides : q \in o.side[s] <=> q \in b.side[s] /\ ~(q = sq /\ s = sd)
        /\ o.square[q] = IF q = sq THEN None ELSE b.square[q]
    BY <1>2
  <2> QED
    BY <1>8, <2>1, <2>3
<1>9. PiecesAgree(o)
  <2> SUFFICES ASSUME NEW p \in Pieces, NEW q \in Squares
               PROVE  q \in o.piece[p] <=> o.square[q] = p
    BY DEF PiecesAgree
  <2>1. q \in b.piece[p] <=> b.square[q] = p
    BY DEF MenAgree, PiecesAgree
  <2>2. /\ q \in o.piece[p] <=> q \in b.piece[p] /\ ~(q = sq /\ p = pc)
        /\ o.square[q] = IF q = sq THEN None ELSE b.square[q]
    BY <1>2
  <2>3. p # None
    BY Numbers
  <2> QED
    BY <1>4, <2>1, <2>2, <2>3
<1>10. CountsAgree(o)
  <2> SUFFICES ASSUME NEW p \in Pieces, NEW s \in Sides
               PROVE  o.count[MakeP12(p, s)] = Cardinality(PieceSd(o, p, s))
    BY DEF CountsAgree
  <2>1. PICK S : S = PieceSd(b, p, s)
    OBVIOUS
  <2>2. S \in SUBSET Squares /\ b.count[MakeP12(p, s)] = Cardinality(S)
    BY <1>1, <2>1 DEF PieceSd, MenAgree, CountsAgree
  <2>3. IsFiniteSet(S) /\ Cardinality(S) \in Nat
    BY <2>2, FinitelyMany
  <2>5. sq \in S => Cardinality(S \ {sq}) = Cardinality(S) - 1
    BY <2>3, FS_RemoveElement
  <2>6. MakeP12(p, s) \in P12s /\ (MakeP12(p, s) = MakeP12(pc, sd) => p = pc /\ s = sd)
    BY ManKey
  <2>7. PieceSd(o, p, s) = IF p = pc /\ s = sd THEN S \ {sq} ELSE S
    BY <1>5, <2>1
  <2>8. o.count[MakeP12(p, s)] = IF MakeP12(p, s) = MakeP12(pc, sd) THEN Cardinality(S) - 1 ELSE Cardinality(S)
    BY <1>2, <2>2, <2>6
  <2> QED
    BY <2>1, <2>5, <2>6, <2>7, <2>8
<1>11. KingsAgree(o)
  <2> SUFFICES ASSUME NEW s \in Sides, NEW q \in PieceSd(o, King, s)
               PROVE  o.king[s] = q
    BY DEF KingsAgree
  <2>1. PieceSd(o, King, s) \subseteq PieceSd(b, King, s)
    BY <1>5, Numbers
  <2>2. \A r \in PieceSd(b, King, s) : b.king[s] = r
    BY DEF MenAgree, KingsAgree
  <2> QED
    BY <1>2, <2>1, <2>2
<1> QED
  BY <1>6, <1>7, <1>9, <1>10, <1>11 DEF MenAgree

\* Two parts of a set with the same elements, and one with an element more or less.
LEMMA SameParts ==
  ASSUME NEW S, NEW X \in SUBSET S, NEW Y \in SUBSET S, NEW k \in S
  PROVE  /\ (\A i \in S : i \in Y <=> i \in X) => Y = X
         /\ (\A i \in S : i \in Y <=> i \in X \/ i = k) => Y = X \cup {k}
         /\ (\A i \in S : i \in Y <=> i \in X /\ i # k) => Y = X \ {k}
  OBVIOUS

\* The keys of the men with one more.
LEMMA KeysGain ==
  ASSUME NEW b \in BoardSet, NEW o \in BoardSet, NEW pc \in Pieces, NEW sd \in Sides, NEW sq \in Squares,
         Gains(b, pc, sd, sq, o), sq \notin PieceSd(b, pc, sd),
         NEW pcs, pcs \subseteq Pieces
  PROVE  /\ Ix(pc, sd, sq) \notin MenKeys(b, pcs) /\ Ix(pc, sd, sq) \in 0..767
         /\ pc \in pcs => MenKeys(o, pcs) = MenKeys(b, pcs) \cup {Ix(pc, sd, sq)}
         /\ pc \notin pcs => MenKeys(o, pcs) = MenKeys(b, pcs)
<1>0. PICK k : k = MakeP12(pc, sd) * 64 + sq
  OBVIOUS
<1>1. \A p \in Pieces : \A s \in Sides : PieceSd(b, p, s) \subseteq Squares
  BY DEF BoardSet, PieceSd
<1>2. /\ k \in 0..767
      /\ \A p \in Pieces : \A s \in Sides : \A q \in Squares :
           MakeP12(p, s) * 64 + q = k => p = pc /\ s = sd /\ q = sq
  BY <1>0, ManKey
<1>3. k \notin MenKeys(b, pcs)
  BY <1>1, <1>2 DEF MenKeys
<1>4. \A p \in pcs : \A s \in Sides : \A q :
        q \in PieceSd(o, p, s) <=> q \in PieceSd(b, p, s) \/ (q = sq /\ p = pc /\ s = sd)
  BY DEF Gains
<1>5. ASSUME NEW ix \in 0..767
      PROVE  ix \in MenKeys(o, pcs) <=> ix \in MenKeys(b, pcs) \/ (ix = k /\ pc \in pcs)
  <2>1. ASSUME ix \in MenKeys(o, pcs)
        PROVE  ix \in MenKeys(b, pcs) \/ (ix = k /\ pc \in pcs)
    <3>1. PICK p \in pcs, s \in Sides : \E q \in PieceSd(o, p, s) : ix = MakeP12(p, s) * 64 + q
      BY <2>1 DEF MenKeys
    <3>2. PICK q \in PieceSd(o, p, s) : ix = MakeP12(p, s) * 64 + q
      BY <3>1
    <3>3. CASE q \in PieceSd(b, p, s)
      BY <3>2, <3>3 DEF MenKeys
    <3>4. CASE q = sq /\ p = pc /\ s = sd
      BY <1>0, <3>2, <3>4
    <3> QED
      BY <1>4, <3>3, <3>4
  <2>2. ASSUME ix \in MenKeys(b, pcs)
        PROVE  ix \in MenKeys(o, pcs)
    <3>1. PICK p \in pcs, s \in Sides : \E q \in PieceSd(b, p, s) : ix = MakeP12(p, s) * 64 + q
      BY <2>2 DEF MenKeys
    <3>2. PICK q \in PieceSd(b, p, s) : ix = MakeP12(p, s) * 64 + q
      BY <3>1
    <3>3. q \in PieceSd(o, p, s)
      BY <1>4, <3>2
    <3> QED
      BY <3>2, <3>3 DEF MenKeys
  <2>3. ASSUME ix = k, pc \in pcs
        PROVE  ix \in MenKeys(o, pcs)
    <3>1. sq \in PieceSd(o, pc, sd)
      BY <1>4, <2>3
    <3> QED
      BY <1>0, <2>3, <3>1 DEF MenKeys
  <2> QED
    BY <2>1, <2>2, <2>3
<1>6. PICK X, Y : X = MenKeys(b, pcs) /\ Y = MenKeys(o, pcs)
  OBVIOUS
<1>7. X \subseteq 0..767 /\ Y \subseteq 0..767
  <2>1. X \subseteq 0..767
    BY <1>6, Zenon DEF MenKeys
  <2>2. Y \subseteq 0..767
    BY <1>6, Zenon DEF MenKeys
  <2> QED
    BY <2>1, <2>2
<1>8. \A ix \in 0..767 : ix \in Y <=> ix \in X \/ (ix = k /\ pc \in pcs)
  BY <1>5, <1>6, ZenonT(40)
<1>10. k \in 0..767
  BY <1>2
<1>9. Y = IF pc \in pcs THEN X \cup {k} ELSE X
  <2>1. PICK S : S = 0..767
    OBVIOUS
  <2>2. X \in SUBSET S /\ Y \in SUBSET S /\ k \in S
    BY <1>7, <1>10, <2>1, ZenonT(40)
  <2>3. \A ix \in S : ix \in Y <=> ix \in X \/ (ix = k /\ pc \in pcs)
    BY <1>8, <2>1, Zenon
  <2>4. ASSUME pc \in pcs
        PROVE  Y = X \cup {k}
    <3>1. \A i \in S : i \in Y <=> i \in X \/ i = k
      BY <2>3, <2>4
    <3> QED
      BY <2>2, <3>1, SameParts
  <2>5. ASSUME pc \notin pcs
        PROVE  Y = X
    <3>1. \A i \in S : i \in Y <=> i \in X
      BY <2>3, <2>5
    <3> QED
      BY <2>2, <3>1
  <2> QED
    BY <2>4, <2>5
<1>11. k = Ix(pc, sd, sq)
  BY <1>0 DEF Ix
<1>12. (pc \in pcs => Y = X \cup {k}) /\ (pc \notin pcs => Y = X)
  BY <1>9
<1> QED
  BY <1>3, <1>6, <1>10, <1>11, <1>12, ZenonT(40)

\* One man more: its key and its phase are added.
LEMMA ArrivalKeys ==
  ASSUME NEW b \in BoardSet, NEW o \in BoardSet, NEW pc \in Pieces, NEW sd \in Sides, NEW sq \in Squares,
         Arrives(b, pc, sd, sq, o), Gains(b, pc, sd, sq, o), sq \notin PieceSd(b, pc, sd),
         KeysAgree(b), o.copy = Rekey(b.copy, pc, sd, sq, 1)
  PROVE  KeysAgree(o) /\ Rest(o.copy) = Rest(b.copy)
<1>1. PICK k : k = Ix(pc, sd, sq)
  OBVIOUS
<1>2. b.copy \in CopySet
  BY DEF BoardSet
<1>3. /\ o.copy.key = SymDiff(b.copy.key, {k})
      /\ o.copy.pawnKey = IF pc = Pawn THEN SymDiff(b.copy.pawnKey, {k}) ELSE b.copy.pawnKey
      /\ o.copy.phase = b.copy.phase + 1 * Phase(pc) /\ Rest(o.copy) = Rest(b.copy)
  <2>1. PICK c, d : c = b.copy /\ d = 1
    OBVIOUS
  <2>2. d \in Int /\ c \in CopySet
    BY <1>2, <2>1
  <2>3. /\ Rekey(c, pc, sd, sq, d).key = SymDiff(c.key, PieceKey(MakeP12(pc, sd), sq))
        /\ Rekey(c, pc, sd, sq, d).pawnKey =
             IF pc = Pawn THEN SymDiff(c.pawnKey, PieceKey(MakeP12(pc, sd), sq)) ELSE c.pawnKey
        /\ Rekey(c, pc, sd, sq, d).phase = c.phase + d * Phase(pc)
        /\ Rest(Rekey(c, pc, sd, sq, d)) = Rest(c)
    BY <2>2, RekeyIs
  <2>4. PieceKey(MakeP12(pc, sd), sq) = {k}
    BY <1>1 DEF PieceKey, Ix
  <2> QED
    BY <2>1, <2>3, <2>4
<1>4. o.copy.key = SymDiff(MenKeys(o, Pieces), StmKey(o.stm))
  <2>1. k \notin MenKeys(b, Pieces) /\ k \in 0..767 /\ MenKeys(o, Pieces) = MenKeys(b, Pieces) \cup {k}
    <3>1. /\ Ix(pc, sd, sq) \notin MenKeys(b, Pieces) /\ Ix(pc, sd, sq) \in 0..767
          /\ pc \in Pieces => MenKeys(o, Pieces) = MenKeys(b, Pieces) \cup {Ix(pc, sd, sq)}
      BY KeysGain
    <3> QED
      BY <1>1, <3>1
  <2>2. k \notin StmKey(b.stm) /\ o.stm = b.stm
    BY <2>1, Numbers DEF StmKey, Arrives, Others
  <2>3. PICK X, S : X = MenKeys(b, Pieces) /\ S = StmKey(b.stm)
    OBVIOUS
  <2>4. b.copy.key = SymDiff(X, S)
    BY <2>3 DEF KeysAgree
  <2>5. SymDiff(SymDiff(X, S), {k}) = SymDiff(X \cup {k}, S)
    BY <2>1, <2>2, <2>3 DEF SymDiff
  <2> QED
    BY <1>3, <2>1, <2>2, <2>3, <2>4, <2>5
<1>5. o.copy.pawnKey = MenKeys(o, {Pawn})
  <2>1. Pawn \in Pieces
    BY Numbers
  <2>2. /\ k \notin MenKeys(b, {Pawn})
        /\ MenKeys(o, {Pawn}) = IF pc \in {Pawn} THEN MenKeys(b, {Pawn}) \cup {k} ELSE MenKeys(b, {Pawn})
    <3>0. {Pawn} \subseteq Pieces
      BY <2>1
    <3>1. /\ Ix(pc, sd, sq) \notin MenKeys(b, {Pawn})
          /\ pc \in {Pawn} => MenKeys(o, {Pawn}) = MenKeys(b, {Pawn}) \cup {Ix(pc, sd, sq)}
          /\ pc \notin {Pawn} => MenKeys(o, {Pawn}) = MenKeys(b, {Pawn})
      BY <3>0, KeysGain
    <3> QED
      BY <1>1, <3>1
  <2>3. b.copy.pawnKey = MenKeys(b, {Pawn})
    BY DEF KeysAgree
  <2> QED
    BY <1>3, <2>2, <2>3 DEF SymDiff
<1>6. o.copy.phase = Phases(o)
  <2>1. b.count \in [P12s -> Int]
    BY DEF BoardSet
  <2>2. ASSUME NEW p \in Pieces
        PROVE  Both(b, p) \in Int /\ Both(o, p) = Both(b, p) + (IF p = pc THEN 1 ELSE 0)
    <3>1. White \in Sides /\ Black \in Sides /\ (sd = White \/ sd = Black) /\ White # Black
      BY Numbers
    <3>2. PICK w, l : w = MakeP12(p, White) /\ l = MakeP12(p, Black)
      OBVIOUS
    <3>3. /\ w \in P12s /\ l \in P12s
          /\ w = MakeP12(pc, sd) <=> p = pc /\ sd = White
          /\ l = MakeP12(pc, sd) <=> p = pc /\ sd = Black
      BY <3>1, <3>2, ManKey
    <3>4. /\ o.count[w] = IF w = MakeP12(pc, sd) THEN b.count[w] + 1 ELSE b.count[w]
          /\ o.count[l] = IF l = MakeP12(pc, sd) THEN b.count[l] + 1 ELSE b.count[l]
          /\ b.count[w] \in Int /\ b.count[l] \in Int
      BY <2>1, <3>3 DEF Arrives
    <3> QED
      BY <3>1, <3>2, <3>3, <3>4 DEF Both
  <2>3. b.copy.phase = Phases(b)
    BY DEF KeysAgree
  <2>4. /\ Both(b, Knight) \in Int /\ Both(o, Knight) = Both(b, Knight) + (IF pc = Knight THEN 1 ELSE 0)
        /\ Both(b, Bishop) \in Int /\ Both(o, Bishop) = Both(b, Bishop) + (IF pc = Bishop THEN 1 ELSE 0)
        /\ Both(b, Rook) \in Int /\ Both(o, Rook) = Both(b, Rook) + (IF pc = Rook THEN 1 ELSE 0)
        /\ Both(b, Queen) \in Int /\ Both(o, Queen) = Both(b, Queen) + (IF pc = Queen THEN 1 ELSE 0)
    BY <2>2, Numbers
  <2>5. Phase(pc) = IF pc = Knight \/ pc = Bishop THEN 1 ELSE IF pc = Rook THEN 2 ELSE IF pc = Queen THEN 4 ELSE 0
    BY Numbers DEF Phase
  <2>6. Phases(o) = Phases(b) + Phase(pc) /\ Phases(b) \in Int /\ Phase(pc) \in Int
    BY <2>4, <2>5, Numbers DEF Phases
  <2> QED
    BY <1>3, <2>3, <2>6
<1> QED
  BY <1>3, <1>4, <1>5, <1>6 DEF KeysAgree


\* One man less: its key and its phase are taken off again.
LEMMA LeavingKeys ==
  ASSUME NEW b \in BoardSet, NEW o \in BoardSet, NEW pc \in Pieces, NEW sd \in Sides, NEW sq \in Squares,
         Leaves(b, pc, sd, sq, o), Loses(b, pc, sd, sq, o), sq \in PieceSd(b, pc, sd),
         KeysAgree(b), o.copy = Rekey(b.copy, pc, sd, sq, -1)
  PROVE  KeysAgree(o) /\ Rest(o.copy) = Rest(b.copy)
<1>1. PICK k : k = Ix(pc, sd, sq)
  OBVIOUS
<1>2. b.copy \in CopySet
  BY DEF BoardSet
<1>7. Gains(o, pc, sd, sq, b) /\ sq \notin PieceSd(o, pc, sd)
  <2>1. ASSUME NEW p \in Pieces, NEW s \in Sides
        PROVE  PieceSd(b, p, s) = IF p = pc /\ s = sd THEN PieceSd(o, p, s) \cup {sq} ELSE PieceSd(o, p, s)
    <3>1. PieceSd(o, p, s) = IF p = pc /\ s = sd THEN PieceSd(b, p, s) \ {sq} ELSE PieceSd(b, p, s)
      BY DEF Loses
    <3>2. PICK X, Y : X = PieceSd(b, p, s) /\ Y = PieceSd(o, p, s)
      OBVIOUS
    <3>3. p = pc /\ s = sd => Y = X \ {sq} /\ sq \in X
      BY <3>1, <3>2
    <3>4. ~(p = pc /\ s = sd) => Y = X
      BY <3>1, <3>2
    <3>5. sq \in X /\ Y = X \ {sq} => X = Y \cup {sq}
      OBVIOUS
    <3> QED
      BY <3>2, <3>3, <3>4, <3>5
  <2>2. PieceSd(o, pc, sd) = PieceSd(b, pc, sd) \ {sq}
    BY DEF Loses
  <2> QED
    BY <2>1, <2>2 DEF Gains
<1>3. /\ o.copy.key = SymDiff(b.copy.key, {k})
      /\ o.copy.pawnKey = IF pc = Pawn THEN SymDiff(b.copy.pawnKey, {k}) ELSE b.copy.pawnKey
      /\ o.copy.phase = b.copy.phase + (-1) * Phase(pc) /\ Rest(o.copy) = Rest(b.copy)
  <2>1. PICK c, d : c = b.copy /\ d = -1
    OBVIOUS
  <2>2. d \in Int /\ c \in CopySet
    BY <1>2, <2>1
  <2>3. /\ Rekey(c, pc, sd, sq, d).key = SymDiff(c.key, PieceKey(MakeP12(pc, sd), sq))
        /\ Rekey(c, pc, sd, sq, d).pawnKey =
             IF pc = Pawn THEN SymDiff(c.pawnKey, PieceKey(MakeP12(pc, sd), sq)) ELSE c.pawnKey
        /\ Rekey(c, pc, sd, sq, d).phase = c.phase + d * Phase(pc)
        /\ Rest(Rekey(c, pc, sd, sq, d)) = Rest(c)
    BY <2>2, RekeyIs
  <2>4. PieceKey(MakeP12(pc, sd), sq) = {k}
    BY <1>1 DEF PieceKey, Ix
  <2> QED
    BY <2>1, <2>3, <2>4
<1>4. o.copy.key = SymDiff(MenKeys(o, Pieces), StmKey(o.stm))
  <2>1. k \notin MenKeys(o, Pieces) /\ k \in 0..767 /\ MenKeys(b, Pieces) = MenKeys(o, Pieces) \cup {k}
    <3>1. /\ Ix(pc, sd, sq) \notin MenKeys(o, Pieces) /\ Ix(pc, sd, sq) \in 0..767
          /\ pc \in Pieces => MenKeys(b, Pieces) = MenKeys(o, Pieces) \cup {Ix(pc, sd, sq)}
      BY <1>7, KeysGain
    <3> QED
      BY <1>1, <3>1
  <2>2. k \notin StmKey(b.stm) /\ o.stm = b.stm
    BY <2>1, Numbers DEF StmKey, Leaves, Others
  <2>3. PICK X, S : X = MenKeys(o, Pieces) /\ S = StmKey(b.stm)
    OBVIOUS
  <2>4. b.copy.key = SymDiff(X \cup {k}, S)
    BY <2>1, <2>3 DEF KeysAgree
  <2>5. SymDiff(SymDiff(X \cup {k}, S), {k}) = SymDiff(X, S)
    BY <2>1, <2>2, <2>3 DEF SymDiff
  <2> QED
    BY <1>3, <2>2, <2>3, <2>4, <2>5
<1>5. o.copy.pawnKey = MenKeys(o, {Pawn})
  <2>1. Pawn \in Pieces
    BY Numbers
  <2>2. /\ k \notin MenKeys(o, {Pawn})
        /\ MenKeys(b, {Pawn}) = IF pc \in {Pawn} THEN MenKeys(o, {Pawn}) \cup {k} ELSE MenKeys(o, {Pawn})
    <3>0. {Pawn} \subseteq Pieces
      BY <2>1
    <3>1. /\ Ix(pc, sd, sq) \notin MenKeys(o, {Pawn})
          /\ pc \in {Pawn} => MenKeys(b, {Pawn}) = MenKeys(o, {Pawn}) \cup {Ix(pc, sd, sq)}
          /\ pc \notin {Pawn} => MenKeys(b, {Pawn}) = MenKeys(o, {Pawn})
      BY <1>7, <3>0, KeysGain
    <3> QED
      BY <1>1, <3>1
  <2>3. b.copy.pawnKey = MenKeys(b, {Pawn})
    BY DEF KeysAgree
  <2>4. PICK X : X = MenKeys(o, {Pawn})
    OBVIOUS
  <2>5. SymDiff(X \cup {k}, {k}) = X
    BY <2>2, <2>4 DEF SymDiff
  <2> QED
    BY <1>3, <2>2, <2>3, <2>4, <2>5
<1>6. o.copy.phase = Phases(o)
  <2>1. b.count \in [P12s -> Int]
    BY DEF BoardSet
  <2>2. ASSUME NEW p \in Pieces
        PROVE  Both(b, p) \in Int /\ Both(o, p) = Both(b, p) - (IF p = pc THEN 1 ELSE 0)
    <3>1. White \in Sides /\ Black \in Sides /\ (sd = White \/ sd = Black) /\ White # Black
      BY Numbers
    <3>2. PICK w, l : w = MakeP12(p, White) /\ l = MakeP12(p, Black)
      OBVIOUS
    <3>3. /\ w \in P12s /\ l \in P12s
          /\ w = MakeP12(pc, sd) <=> p = pc /\ sd = White
          /\ l = MakeP12(pc, sd) <=> p = pc /\ sd = Black
      BY <3>1, <3>2, ManKey
    <3>4. /\ o.count[w] = IF w = MakeP12(pc, sd) THEN b.count[w] - 1 ELSE b.count[w]
          /\ o.count[l] = IF l = MakeP12(pc, sd) THEN b.count[l] - 1 ELSE b.count[l]
          /\ b.count[w] \in Int /\ b.count[l] \in Int
      BY <2>1, <3>3 DEF Leaves
    <3> QED
      BY <3>1, <3>2, <3>3, <3>4 DEF Both
  <2>3. b.copy.phase = Phases(b)
    BY DEF KeysAgree
  <2>4. /\ Both(b, Knight) \in Int /\ Both(o, Knight) = Both(b, Knight) - (IF pc = Knight THEN 1 ELSE 0)
        /\ Both(b, Bishop) \in Int /\ Both(o, Bishop) = Both(b, Bishop) - (IF pc = Bishop THEN 1 ELSE 0)
        /\ Both(b, Rook) \in Int /\ Both(o, Rook) = Both(b, Rook) - (IF pc = Rook THEN 1 ELSE 0)
        /\ Both(b, Queen) \in Int /\ Both(o, Queen) = Both(b, Queen) - (IF pc = Queen THEN 1 ELSE 0)
    BY <2>2, Numbers
  <2>5. Phase(pc) = IF pc = Knight \/ pc = Bishop THEN 1 ELSE IF pc = Rook THEN 2 ELSE IF pc = Queen THEN 4 ELSE 0
    BY Numbers DEF Phase
  <2>6. Phases(o) = Phases(b) - Phase(pc) /\ Phases(b) \in Int /\ Phase(pc) \in Int
    BY <2>4, <2>5, Numbers DEF Phases
  <2> QED
    BY <1>3, <2>3, <2>6
<1> QED
  BY <1>3, <1>4, <1>5, <1>6 DEF KeysAgree

-----------------------------------------------------------------------------
(* Men come and go, square by square. *)

Sound(b) == b \in BoardSet /\ MenAgree(b)

\* o is b with a man on sq, and with sq empty.
Puts(b, pc, sd, sq, o) ==
  \A q \in Squares :
    /\ o.square[q] = IF q = sq THEN pc ELSE b.square[q]
    /\ \A s \in Sides : q \in o.side[s] <=> q \in b.side[s] \/ (q = sq /\ s = sd)

Takes(b, sq, o) ==
  \A q \in Squares :
    /\ o.square[q] = IF q = sq THEN None ELSE b.square[q]
    /\ \A s \in Sides : q \in o.side[s] <=> q \in b.side[s] /\ q # sq

\* Nothing but the men, their keys and their phase differs.
Keeps(b, o) == Others(b, o) /\ Rest(o.copy) = Rest(b.copy)

LEMMA SetSquareSound ==
  ASSUME NEW b, Sound(b), NEW pc \in Pieces, NEW sd \in Sides, NEW sq \in Squares, NEW upd \in BOOLEAN,
         b.square[sq] = None, pc = King => PieceSd(b, King, sd) = {}
  PROVE  /\ Sound(SetSquare(b, pc, sd, sq, upd))
         /\ Puts(b, pc, sd, sq, SetSquare(b, pc, sd, sq, upd))
         /\ Keeps(b, SetSquare(b, pc, sd, sq, upd))
         /\ upd /\ KeysAgree(b) => KeysAgree(SetSquare(b, pc, sd, sq, upd))
<1>1. PICK o : o = SetSquare(b, pc, sd, sq, upd)
  OBVIOUS
<1>2. b \in BoardSet /\ MenAgree(b)
  BY DEF Sound
<1>3. /\ o \in BoardSet /\ Arrives(b, pc, sd, sq, o)
      /\ o.copy = IF upd THEN Rekey(b.copy, pc, sd, sq, 1) ELSE b.copy
  BY <1>1, <1>2, SetSquareIs
<1>4. MenAgree(o) /\ Gains(b, pc, sd, sq, o) /\ sq \notin PieceSd(b, pc, sd)
  BY <1>2, <1>3, ArrivalAgrees
<1>5. Puts(b, pc, sd, sq, o)
  <2>1. /\ b.side \in [Sides -> SUBSET Squares] /\ b.square \in [Squares -> 0..6]
        /\ o.side = [b.side EXCEPT ![sd] = @ \cup {sq}] /\ o.square = [b.square EXCEPT ![sq] = pc]
    BY <1>2, <1>3 DEF BoardSet, Arrives
  <2> QED
    BY <2>1 DEF Puts
<1>6. Rest(o.copy) = Rest(b.copy)
  <2>1. b.copy \in CopySet
    BY <1>2 DEF BoardSet
  <2>2. CASE upd
    <3>1. PICK d : d = 1
      OBVIOUS
    <3>2. Rest(Rekey(b.copy, pc, sd, sq, d)) = Rest(b.copy)
      BY <2>1, <3>1, RekeyIs
    <3> QED
      BY <1>3, <2>2, <3>1, <3>2
  <2> QED
    BY <1>3, <2>2
<1>7. ASSUME upd, KeysAgree(b)
      PROVE  KeysAgree(o)
  BY <1>2, <1>3, <1>4, <1>7, ArrivalKeys
<1>8. Others(b, o)
  BY <1>3 DEF Arrives
<1> QED
  BY <1>1, <1>3, <1>4, <1>5, <1>6, <1>7, <1>8 DEF Sound, Keeps

LEMMA ClearSquareSound ==
  ASSUME NEW b, Sound(b), NEW pc \in Pieces, NEW sd \in Sides, NEW sq \in Squares, NEW upd \in BOOLEAN,
         sq \in PieceSd(b, pc, sd)
  PROVE  /\ Sound(ClearSquare(b, pc, sd, sq, upd))
         /\ Takes(b, sq, ClearSquare(b, pc, sd, sq, upd))
         /\ Keeps(b, ClearSquare(b, pc, sd, sq, upd))
         /\ upd /\ KeysAgree(b) => KeysAgree(ClearSquare(b, pc, sd, sq, upd))
         /\ pc = King => PieceSd(ClearSquare(b, pc, sd, sq, upd), King, sd) = {}
<1>1. PICK o : o = ClearSquare(b, pc, sd, sq, upd)
  OBVIOUS
<1>2. b \in BoardSet /\ MenAgree(b)
  BY DEF Sound
<1>3. /\ o \in BoardSet /\ Leaves(b, pc, sd, sq, o)
      /\ o.copy = IF upd THEN Rekey(b.copy, pc, sd, sq, -1) ELSE b.copy
  BY <1>1, <1>2, ClearSquareIs
<1>4. MenAgree(o) /\ Loses(b, pc, sd, sq, o)
  BY <1>2, <1>3, LeavingAgrees
<1>5. Takes(b, sq, o)
  <2>1. /\ b.side \in [Sides -> SUBSET Squares] /\ b.square \in [Squares -> 0..6]
        /\ o.side = [b.side EXCEPT ![sd] = @ \ {sq}] /\ o.square = [b.square EXCEPT ![sq] = None]
    BY <1>2, <1>3 DEF BoardSet, Leaves
  <2>2. \A s \in Sides : sq \in b.side[s] => s = sd
    BY <1>2 DEF MenAgree, SidesAgree, PieceSd
  <2>3. \A q \in Squares : o.square[q] = IF q = sq THEN None ELSE b.square[q]
    BY <2>1
  <2>4. ASSUME NEW q \in Squares, NEW s \in Sides
        PROVE  q \in o.side[s] <=> q \in b.side[s] /\ q # sq
    <3>1. o.side[s] = IF s = sd THEN b.side[s] \ {sq} ELSE b.side[s]
      BY <2>1
    <3> QED
      BY <2>2, <3>1
  <2> QED
    BY <2>3, <2>4 DEF Takes
<1>6. Rest(o.copy) = Rest(b.copy)
  <2>1. b.copy \in CopySet
    BY <1>2 DEF BoardSet
  <2>2. CASE upd
    <3>1. PICK d : d = -1
      OBVIOUS
    <3>2. Rest(Rekey(b.copy, pc, sd, sq, d)) = Rest(b.copy)
      BY <2>1, <3>1, RekeyIs
    <3> QED
      BY <1>3, <2>2, <3>1, <3>2
  <2> QED
    BY <1>3, <2>2
<1>7. ASSUME upd, KeysAgree(b)
      PROVE  KeysAgree(o)
  BY <1>2, <1>3, <1>4, <1>7, LeavingKeys
<1>8. Others(b, o)
  BY <1>3 DEF Leaves
<1>9. ASSUME pc = King
      PROVE  PieceSd(o, King, sd) = {}
  <2>1. PieceSd(o, King, sd) = PieceSd(b, King, sd) \ {sq}
    BY <1>4, <1>9 DEF Loses
  <2>2. \A q \in PieceSd(b, King, sd) : q = sq
    BY <1>2, <1>9 DEF MenAgree, KingsAgree
  <2> QED
    BY <2>1, <2>2
<1> QED
  BY <1>1, <1>3, <1>4, <1>5, <1>6, <1>7, <1>8, <1>9 DEF Sound, Keeps

LEMMA Opposites ==
  /\ \A sd \in Sides : Opposite(sd) \in Sides /\ Opposite(sd) # sd /\ Opposite(Opposite(sd)) = sd
  /\ \A s, t \in Sides : s = t \/ s = Opposite(t)
  BY Numbers DEF Opposite

\* A man, from the bitboards and from the squares.
LEMMA ManOn ==
  ASSUME NEW b, Sound(b), NEW pc \in Pieces, NEW sd \in Sides, NEW sq
  PROVE  /\ sq \in PieceSd(b, pc, sd) => /\ sq \in Squares /\ b.square[sq] = pc /\ sq \in b.side[sd]
                                         /\ \A s \in Sides : sq \in b.side[s] => s = sd
         /\ sq \in Squares /\ b.square[sq] = pc /\ sq \in b.side[sd] => sq \in PieceSd(b, pc, sd)
<1>1. b.side \in [Sides -> SUBSET Squares] /\ SidesAgree(b) /\ PiecesAgree(b)
  BY DEF Sound, BoardSet, MenAgree
<1>2. b.side[sd] \subseteq Squares
  BY <1>1
<1>3. \A q \in Squares : q \in b.piece[pc] <=> b.square[q] = pc
  BY <1>1 DEF PiecesAgree
<1>4. \A q \in Squares : \A s \in Sides : q \in b.side[s] /\ q \in b.side[sd] => s = sd
  BY <1>1 DEF SidesAgree
<1> QED
  BY <1>2, <1>3, <1>4 DEF PieceSd

LEMMA EmptyOn ==
  ASSUME NEW b, Sound(b), NEW sq \in Squares
  PROVE  /\ b.square[sq] \in 0..6 /\ (b.square[sq] # None => b.square[sq] \in Pieces)
         /\ b.square[sq] = None <=> \A s \in Sides : sq \notin b.side[s]
         /\ \A s \in Sides : b.square[sq] # None /\ sq \notin b.side[s] => sq \in b.side[Opposite(s)]
<1>1. b.square \in [Squares -> 0..6] /\ SidesAgree(b)
  BY DEF Sound, BoardSet, MenAgree
<1>2. b.square[sq] \in 0..6 /\ (b.square[sq] = None <=> \A s \in Sides : sq \notin b.side[s])
  BY <1>1 DEF SidesAgree
<1> QED
  BY <1>2, Opposites, Numbers

\* A man goes from one square to another.
Shifts(b, pc, sd, fr, to, o) ==
  \A q \in Squares :
    /\ o.square[q] = IF q = to THEN pc ELSE IF q = fr THEN None ELSE b.square[q]
    /\ \A s \in Sides : q \in o.side[s] <=> (q = to /\ s = sd) \/ (q \in b.side[s] /\ q # fr)

\* What replaces a man by another on another square; MoveSquare is the case p2 = p1.
LEMMA ExchangeSound ==
  ASSUME NEW b, Sound(b), NEW p1 \in Pieces, NEW p2 \in Pieces, NEW sd \in Sides, NEW upd \in BOOLEAN,
         NEW fr \in PieceSd(b, p1, sd), NEW to \in Squares, b.square[to] = None, p2 = King => p1 = King
  PROVE  LET o == SetSquare(ClearSquare(b, p1, sd, fr, upd), p2, sd, to, upd) IN
         /\ Sound(o) /\ Shifts(b, p2, sd, fr, to, o) /\ Keeps(b, o)
         /\ upd /\ KeysAgree(b) => KeysAgree(o)
<1>1. PICK x : x = ClearSquare(b, p1, sd, fr, upd)
  OBVIOUS
<1>2. PICK o : o = SetSquare(x, p2, sd, to, upd)
  OBVIOUS
<1>3. fr \in Squares
  BY ManOn
<1>4. /\ Sound(x) /\ Takes(b, fr, x) /\ Keeps(b, x) /\ (upd /\ KeysAgree(b) => KeysAgree(x))
      /\ p1 = King => PieceSd(x, King, sd) = {}
  BY <1>1, <1>3, ClearSquareSound
<1>5. x.square[to] = None
  BY <1>4 DEF Takes
<1>6. /\ Sound(o) /\ Puts(x, p2, sd, to, o) /\ Keeps(x, o) /\ (upd /\ KeysAgree(x) => KeysAgree(o))
  BY <1>2, <1>4, <1>5, SetSquareSound
<1>7. fr # to
  BY ManOn, Numbers
<1>8. Shifts(b, p2, sd, fr, to, o)
  BY <1>4, <1>6, <1>7 DEF Takes, Puts, Shifts
<1>9. Keeps(b, o)
  BY <1>4, <1>6 DEF Keeps, Others
<1> QED
  BY <1>1, <1>2, <1>4, <1>6, <1>8, <1>9

LEMMA MoveSquareSound ==
  ASSUME NEW b, Sound(b), NEW pc \in Pieces, NEW sd \in Sides, NEW upd \in BOOLEAN,
         NEW fr \in PieceSd(b, pc, sd), NEW to \in Squares, b.square[to] = None
  PROVE  LET o == MoveSquare(b, pc, sd, fr, to, upd) IN
         /\ Sound(o) /\ Shifts(b, pc, sd, fr, to, o) /\ Keeps(b, o)
         /\ upd /\ KeysAgree(b) => KeysAgree(o)
  BY ExchangeSound DEF MoveSquare

\* Two boards with the same bitboards, kings, counts and squares.
SameMen(b, o) ==
  /\ o.piece = b.piece /\ o.side = b.side /\ o.square = b.square /\ o.king = b.king /\ o.count = b.count

LEMMA SameMenSound ==
  ASSUME NEW b, Sound(b), NEW o \in BoardSet, SameMen(b, o)
  PROVE  /\ Sound(o) /\ MenKeys(o, Pieces) = MenKeys(b, Pieces) /\ MenKeys(o, {Pawn}) = MenKeys(b, {Pawn})
         /\ Phases(o) = Phases(b) /\ \A pc, sd : PieceSd(o, pc, sd) = PieceSd(b, pc, sd)
<1>1. \A pc, sd : PieceSd(o, pc, sd) = PieceSd(b, pc, sd)
  BY DEF SameMen, PieceSd
<1>2. MenKeys(o, Pieces) = MenKeys(b, Pieces)
  BY <1>1 DEF MenKeys
<1>3. MenKeys(o, {Pawn}) = MenKeys(b, {Pawn})
  BY <1>1 DEF MenKeys
<1>4. Phases(o) = Phases(b)
  BY DEF SameMen, Phases, Both
<1>5. SidesAgree(o)
  BY DEF Sound, MenAgree, SidesAgree, SameMen
<1>6. PiecesAgree(o)
  BY DEF Sound, MenAgree, PiecesAgree, SameMen
<1>7. CountsAgree(o)
  BY <1>1 DEF Sound, MenAgree, CountsAgree, SameMen
<1>8. KingsAgree(o)
  BY <1>1 DEF Sound, MenAgree, KingsAgree, SameMen
<1> QED
  BY <1>1, <1>2, <1>3, <1>4, <1>5, <1>6, <1>7, <1>8 DEF Sound, MenAgree

LEMMA FlipStmSound ==
  ASSUME NEW b, Sound(b)
  PROVE  /\ Sound(FlipStm(b)) /\ SameMen(b, FlipStm(b)) /\ FlipStm(b).stm = Opposite(b.stm)
         /\ Rest(FlipStm(b).copy) = Rest(b.copy) /\ FlipStm(b).all = b.all
         /\ FlipStm(b).rootIx = b.rootIx /\ FlipStm(b).stack = b.stack
         /\ KeysAgree(b) => KeysAgree(FlipStm(b))
<1>1. PICK key, copy, stm, o :
        /\ key = SymDiff(b.copy.key, {StmIx}) /\ copy = [b.copy EXCEPT !.key = key]
        /\ stm = Opposite(b.stm) /\ o = FlipStm(b)
  OBVIOUS
<1>2. o = [b EXCEPT !.stm = stm, !.copy = copy]
  BY <1>1 DEF FlipStm
<1>3. b \in BoardSet /\ b.copy \in CopySet /\ b.stm \in Sides
  BY DEF Sound, BoardSet
<1>4. key \in SUBSET Nat
  BY <1>1, <1>3, Numbers DEF CopySet, SymDiff
<1>5. /\ copy \in CopySet /\ copy.key = key /\ copy.pawnKey = b.copy.pawnKey /\ copy.phase = b.copy.phase
      /\ Rest(copy) = Rest(b.copy)
  BY <1>1, <1>3, <1>4 DEF CopySet, Rest
<1>6. stm \in Sides
  BY <1>1, <1>3, Opposites
<1>7. /\ o \in BoardSet /\ SameMen(b, o) /\ o.stm = stm /\ o.copy = copy
      /\ o.all = b.all /\ o.rootIx = b.rootIx /\ o.stack = b.stack
  BY <1>2, <1>3, <1>5, <1>6 DEF BoardSet, SameMen
<1>8. /\ Sound(o) /\ MenKeys(o, Pieces) = MenKeys(b, Pieces) /\ MenKeys(o, {Pawn}) = MenKeys(b, {Pawn})
      /\ Phases(o) = Phases(b)
  BY <1>7, SameMenSound
<1>9. ASSUME KeysAgree(b)
      PROVE  KeysAgree(o)
  <2>1. PICK X : X = MenKeys(b, Pieces)
    OBVIOUS
  <2>2. key = SymDiff(SymDiff(X, StmKey(b.stm)), {StmIx})
    BY <1>1, <1>9, <2>1 DEF KeysAgree
  <2>3. StmIx \notin X
    BY <2>1, Numbers DEF MenKeys
  <2>4. key = SymDiff(X, StmKey(stm))
    <3>1. CASE b.stm = White
      <4>1. StmKey(b.stm) = {} /\ StmKey(stm) = {StmIx}
        BY <1>1, <3>1, Numbers DEF StmKey, Opposite
      <4> QED
        BY <2>2, <4>1 DEF SymDiff
    <3>2. CASE b.stm = Black
      <4>1. StmKey(b.stm) = {StmIx} /\ StmKey(stm) = {}
        BY <1>1, <3>2, Numbers DEF StmKey, Opposite
      <4> QED
        BY <2>2, <2>3, <4>1 DEF SymDiff
    <3> QED
      BY <1>3, <3>1, <3>2 DEF Sides
  <2>5. o.copy.key = SymDiff(MenKeys(o, Pieces), StmKey(o.stm))
    BY <1>7, <1>5, <1>8, <2>1, <2>4
  <2> QED
    BY <1>5, <1>7, <1>8, <1>9, <2>5 DEF KeysAgree
<1> QED
  BY <1>1, <1>5, <1>7, <1>8, <1>9

LEMMA UpdateSound ==
  ASSUME NEW b, Sound(b)
  PROVE  /\ Sound(Update(b)) /\ SameMen(b, Update(b)) /\ Update(b).stm = b.stm
         /\ Update(b).copy = b.copy /\ Update(b).all = b.side[White] \cup b.side[Black]
         /\ Update(b).rootIx = b.rootIx /\ Update(b).stack = b.stack
         /\ KeysAgree(b) => KeysAgree(Update(b))
<1>1. PICK all, o : all = b.side[White] \cup b.side[Black] /\ o = Update(b)
  OBVIOUS
<1>2. o = [b EXCEPT !.all = all]
  BY <1>1 DEF Update
<1>3. b \in BoardSet /\ b.side \in [Sides -> SUBSET Squares]
  BY DEF Sound, BoardSet
<1>4. all \in SUBSET Squares
  BY <1>1, <1>3, Numbers
<1>5. /\ o \in BoardSet /\ SameMen(b, o) /\ o.stm = b.stm /\ o.copy = b.copy
      /\ o.all = all /\ o.rootIx = b.rootIx /\ o.stack = b.stack
  BY <1>2, <1>3, <1>4 DEF BoardSet, SameMen
<1>6. /\ Sound(o) /\ MenKeys(o, Pieces) = MenKeys(b, Pieces) /\ MenKeys(o, {Pawn}) = MenKeys(b, {Pawn})
      /\ Phases(o) = Phases(b)
  BY <1>5, SameMenSound
<1>7. KeysAgree(b) => KeysAgree(o)
  BY <1>5, <1>6 DEF KeysAgree
<1> QED
  BY <1>1, <1>5, <1>6, <1>7

-----------------------------------------------------------------------------
(* A move that fits the board: its squares hold what it says. *)

Tower(mv, sd) == Castle(CastleIndex(sd, IF mv.to < mv.fr THEN 1 ELSE 0))

TowerFits(b, mv) ==
  /\ mv.cp = None
  /\ Tower(mv, b.stm).RookFr \in PieceSd(b, Rook, b.stm)
  /\ Tower(mv, b.stm).RookTo \in Squares /\ b.square[Tower(mv, b.stm).RookTo] = None
  /\ Tower(mv, b.stm).RookTo # mv.to

Fits(b, mv) ==
  /\ mv \in MoveSet /\ mv.pc \in Pieces /\ mv.fr \in PieceSd(b, mv.pc, b.stm)
  /\ mv.to \notin b.side[b.stm]
  /\ IsEnPassant(b, mv) => /\ mv.cp = Pawn /\ b.square[mv.to] = None
                           /\ CapSq(b, mv) \in PieceSd(b, Pawn, Opposite(b.stm))
  /\ ~IsEnPassant(b, mv) => mv.cp = b.square[mv.to]
  /\ mv.pp = None \/ (mv.pc = Pawn /\ mv.pp \in Knight..Queen)
  /\ mv.cp # King
  /\ IsCastling(mv) => TowerFits(b, mv)

Arrived(mv) == IF mv.pp # None THEN mv.pp ELSE mv.pc
Comes(mv, sd) == IF IsCastling(mv) THEN {Tower(mv, sd).RookTo} ELSE {}
Goes(mv, sd)  == IF IsCastling(mv) THEN {Tower(mv, sd).RookFr} ELSE {}

\* The men of o are those of b after the move.
Moved(b, mv, o) ==
  \A q \in Squares :
    /\ o.square[q] = IF q = mv.to THEN Arrived(mv)
                     ELSE IF q \in Comes(mv, b.stm) THEN Rook
                     ELSE IF q \in {mv.fr, CapSq(b, mv)} \cup Goes(mv, b.stm) THEN None
                     ELSE b.square[q]
    /\ \A s \in Sides :
         q \in o.side[s] <=> \/ q \in {mv.to} \cup Comes(mv, b.stm) /\ s = b.stm
                             \/ q \in b.side[s] /\ q \notin {mv.fr, CapSq(b, mv)} \cup Goes(mv, b.stm)

\* What a move takes, and where.
LEMMA CapSqIs ==
  ASSUME NEW b, Sound(b), NEW mv, Fits(b, mv)
  PROVE  \/ CapSq(b, mv) = NoSquare /\ mv.cp = None /\ b.square[mv.to] = None
         \/ /\ mv.cp \in Pieces /\ CapSq(b, mv) \in PieceSd(b, mv.cp, Opposite(b.stm))
            /\ CapSq(b, mv) \in Squares /\ CapSq(b, mv) # NoSquare /\ mv.cp # None
            /\ b.square[mv.to] = None \/ CapSq(b, mv) = mv.to
<1>1. b.stm \in Sides /\ Opposite(b.stm) \in Sides /\ mv.to \in Squares
  <2>1. b.stm \in Sides
    BY DEF Sound, BoardSet
  <2>2. mv.to \in Squares
    BY DEF Fits, MoveSet
  <2> QED
    BY <2>1, <2>2, Opposites
<1>2. CASE IsEnPassant(b, mv)
  <2>1. mv.cp = Pawn /\ b.square[mv.to] = None /\ CapSq(b, mv) \in PieceSd(b, Pawn, Opposite(b.stm))
    BY <1>2 DEF Fits
  <2>2. CapSq(b, mv) \in Squares
    BY <1>1, <2>1, ManOn, Numbers
  <2> QED
    BY <2>1, <2>2, Numbers
<1>3. CASE ~IsEnPassant(b, mv)
  <2>1. mv.cp = b.square[mv.to] /\ CapSq(b, mv) = IF mv.cp # None THEN mv.to ELSE NoSquare
    BY <1>3 DEF Fits, CapSq, IsEnPassant
  <2>2. CASE mv.cp = None
    BY <2>1, <2>2
  <2>3. CASE mv.cp # None
    <3>1. mv.cp \in Pieces
      BY <1>1, <2>1, <2>3, EmptyOn
    <3>2. mv.to \in b.side[Opposite(b.stm)]
      BY <1>1, <2>1, <2>3, EmptyOn DEF Fits
    <3>3. mv.to \in PieceSd(b, mv.cp, Opposite(b.stm))
      BY <1>1, <2>1, <3>1, <3>2, ManOn
    <3> QED
      BY <1>1, <2>1, <2>3, <3>1, <3>3, Numbers
  <2> QED
    BY <2>2, <2>3
<1> QED
  BY <1>2, <1>3

LEMMA MoveMenSound ==
  ASSUME NEW b, Sound(b), NEW mv, Fits(b, mv)
  PROVE  LET o == MoveMen(b, mv, b.stm) IN
         /\ Sound(o) /\ Moved(b, mv, o) /\ o.stm = Opposite(b.stm) /\ Rest(o.copy) = Rest(b.copy)
         /\ o.rootIx = b.rootIx /\ o.stack = b.stack /\ (KeysAgree(b) => KeysAgree(o))
<1>1. PICK sd, xd, cap : sd = b.stm /\ xd = Opposite(sd) /\ cap = CapSq(b, mv)
  OBVIOUS
<1>2. sd \in Sides /\ xd \in Sides /\ xd # sd
  <2>1. b.stm \in Sides
    BY DEF Sound, BoardSet
  <2> QED
    BY <1>1, <2>1, Opposites
<1>3. /\ mv.fr \in Squares /\ mv.to \in Squares /\ mv.pc \in Pieces /\ mv.fr \in PieceSd(b, mv.pc, sd)
      /\ mv.to \notin b.side[sd] /\ (mv.pp = None \/ (mv.pc = Pawn /\ mv.pp \in Knight..Queen))
  BY <1>1 DEF Fits, MoveSet
<1>4. /\ b.square[mv.fr] = mv.pc /\ mv.fr \in b.side[sd] /\ mv.fr \notin b.side[xd] /\ mv.fr # mv.to
  BY <1>2, <1>3, ManOn
<1>5. \/ cap = NoSquare /\ mv.cp = None /\ b.square[mv.to] = None
      \/ /\ mv.cp \in Pieces /\ cap \in PieceSd(b, mv.cp, xd) /\ cap \in Squares /\ cap # NoSquare
         /\ b.square[mv.to] = None \/ cap = mv.to
  BY <1>1, CapSqIs
<1>6. PICK b1 : b1 = IF cap = NoSquare THEN b ELSE ClearSquare(b, mv.cp, xd, cap, TRUE)
  OBVIOUS
<1>7. /\ Sound(b1) /\ Keeps(b, b1) /\ (KeysAgree(b) => KeysAgree(b1))
      /\ \A q \in Squares : /\ b1.square[q] = IF q = cap THEN None ELSE b.square[q]
                            /\ \A s \in Sides : q \in b1.side[s] <=> q \in b.side[s] /\ q # cap
  <2>1. CASE cap = NoSquare
    <3>1. b1 = b /\ cap \notin Squares
      BY <1>6, <2>1, Numbers
    <3> QED
      BY <3>1 DEF Keeps, Others
  <2>2. CASE cap # NoSquare
    <3>1. mv.cp \in Pieces /\ cap \in PieceSd(b, mv.cp, xd) /\ cap \in Squares
      BY <1>5, <2>2
    <3>2. PICK t : t = TRUE
      OBVIOUS
    <3>3. t \in BOOLEAN /\ b1 = ClearSquare(b, mv.cp, xd, cap, t)
      BY <1>6, <2>2, <3>2
    <3>4. Sound(b1) /\ Takes(b, cap, b1) /\ Keeps(b, b1) /\ (t /\ KeysAgree(b) => KeysAgree(b1))
      BY <1>2, <3>1, <3>3, ClearSquareSound
    <3> QED
      BY <3>2, <3>4 DEF Takes
  <2> QED
    BY <2>1, <2>2
<1>8. mv.fr \in PieceSd(b1, mv.pc, sd) /\ b1.square[mv.to] = None
  <2>1. mv.fr # cap
    <3>1. cap # NoSquare => cap \in b.side[xd]
      BY <1>2, <1>5, ManOn
    <3>2. NoSquare \notin Squares
      BY Numbers
    <3> QED
      BY <1>3, <1>4, <3>1, <3>2
  <2>2. b1.square[mv.fr] = mv.pc /\ mv.fr \in b1.side[sd]
    BY <1>2, <1>3, <1>4, <1>7, <2>1
  <2>3. mv.fr \in PieceSd(b1, mv.pc, sd)
    BY <1>2, <1>3, <1>7, <2>2, ManOn
  <2>4. b1.square[mv.to] = None
    BY <1>3, <1>5, <1>7
  <2> QED
    BY <2>3, <2>4
<1>9. PICK b2 : b2 = IF mv.pp # None
                     THEN SetSquare(ClearSquare(b1, Pawn, sd, mv.fr, TRUE), mv.pp, sd, mv.to, TRUE)
                     ELSE MoveSquare(b1, mv.pc, sd, mv.fr, mv.to, TRUE)
  OBVIOUS
<1>10. /\ Sound(b2) /\ Shifts(b1, Arrived(mv), sd, mv.fr, mv.to, b2) /\ Keeps(b1, b2)
       /\ KeysAgree(b1) => KeysAgree(b2)
  <2>0. PICK t : t = TRUE
    OBVIOUS
  <2>1. CASE mv.pp = None
    <3>1. b2 = MoveSquare(b1, mv.pc, sd, mv.fr, mv.to, t) /\ t \in BOOLEAN
      BY <1>9, <2>0, <2>1
    <3>2. /\ Sound(b2) /\ Shifts(b1, mv.pc, sd, mv.fr, mv.to, b2) /\ Keeps(b1, b2)
          /\ t /\ KeysAgree(b1) => KeysAgree(b2)
      BY <1>2, <1>3, <1>7, <1>8, <3>1, MoveSquareSound
    <3> QED
      BY <2>0, <2>1, <3>2 DEF Arrived
  <2>2. CASE mv.pp # None
    <3>1. /\ b2 = SetSquare(ClearSquare(b1, mv.pc, sd, mv.fr, t), mv.pp, sd, mv.to, t) /\ t \in BOOLEAN
          /\ mv.pp \in Knight..Queen
      BY <1>3, <1>9, <2>0, <2>2
    <3>2. mv.pp \in Pieces /\ mv.pp # King
      BY <3>1, Numbers
    <3>3. /\ Sound(b2) /\ Shifts(b1, mv.pp, sd, mv.fr, mv.to, b2) /\ Keeps(b1, b2)
          /\ t /\ KeysAgree(b1) => KeysAgree(b2)
      BY <1>2, <1>3, <1>7, <1>8, <3>1, <3>2, ExchangeSound
    <3> QED
      BY <2>0, <2>2, <3>3 DEF Arrived
  <2> QED
    BY <2>1, <2>2
<1>11. PICK b3 : b3 = IF IsCastling(mv) THEN CastlingRook(b2, mv, sd, FALSE) ELSE b2
  OBVIOUS
<1>12. Sound(b3) /\ Moved(b, mv, b3) /\ Keeps(b2, b3) /\ (KeysAgree(b2) => KeysAgree(b3))
  <2>1. CASE ~IsCastling(mv)
    <3>1. b3 = b2 /\ Comes(mv, b.stm) = {} /\ Goes(mv, b.stm) = {}
      BY <1>11, <2>1 DEF Comes, Goes
    <3>2. Keeps(b2, b3)
      BY <3>1 DEF Keeps, Others
    <3>3. Moved(b, mv, b3)
      BY <1>1, <1>7, <1>10, <3>1 DEF Moved, Shifts
    <3> QED
      BY <1>10, <3>1, <3>2, <3>3
  <2>2. CASE IsCastling(mv)
    <3>1. PICK c : c = Tower(mv, sd)
      OBVIOUS
    <3>2. /\ mv.cp = None /\ c.RookFr \in PieceSd(b, Rook, sd) /\ c.RookTo \in Squares
          /\ b.square[c.RookTo] = None /\ c.RookTo # mv.to
      BY <1>1, <2>2, <3>1 DEF Fits, TowerFits
    <3>3. cap = NoSquare
      BY <1>5, <3>2, Numbers
    <3>4. Rook \in Pieces /\ c.RookFr \in Squares /\ b.square[c.RookFr] = Rook /\ c.RookFr \in b.side[sd]
      BY <1>2, <3>2, ManOn, Numbers
    <3>5. mv.pc = King /\ mv.pp = None
      BY <1>3, <2>2, Numbers DEF IsCastling
    <3>6. c.RookFr # mv.fr /\ c.RookFr # mv.to /\ c.RookTo # mv.fr /\ c.RookTo # c.RookFr
      BY <1>3, <1>4, <3>2, <3>4, <3>5, Numbers
    <3>7. /\ b2.square[c.RookFr] = Rook /\ c.RookFr \in b2.side[sd] /\ b2.square[c.RookTo] = None
      <4>1. b1.square[c.RookFr] = Rook /\ c.RookFr \in b1.side[sd] /\ b1.square[c.RookTo] = None
        BY <1>2, <1>7, <3>2, <3>3, <3>4, Numbers, SMTT(30)
      <4> QED
        BY <1>2, <1>10, <3>2, <3>4, <3>6, <4>1 DEF Shifts
    <3>8. c.RookFr \in PieceSd(b2, Rook, sd)
      BY <1>2, <1>10, <3>4, <3>7, ManOn
    <3>9. PICK t : t = TRUE
      OBVIOUS
    <3>10. t \in BOOLEAN /\ b3 = MoveSquare(b2, Rook, sd, c.RookFr, c.RookTo, t)
      BY <1>11, <2>2, <3>1, <3>9 DEF CastlingRook, Tower
    <3>11. /\ Sound(b3) /\ Shifts(b2, Rook, sd, c.RookFr, c.RookTo, b3) /\ Keeps(b2, b3)
           /\ t /\ KeysAgree(b2) => KeysAgree(b3)
      BY <1>2, <1>10, <3>2, <3>4, <3>7, <3>8, <3>10, MoveSquareSound
    <3>12. Comes(mv, b.stm) = {c.RookTo} /\ Goes(mv, b.stm) = {c.RookFr}
      BY <1>1, <2>2, <3>1 DEF Comes, Goes
    <3>13. Moved(b, mv, b3)
      <4> SUFFICES ASSUME NEW q \in Squares
                   PROVE  /\ b3.square[q] = IF q = mv.to THEN Arrived(mv) ELSE IF q = c.RookTo THEN Rook
                                            ELSE IF q \in {mv.fr, cap, c.RookFr} THEN None ELSE b.square[q]
                          /\ \A s \in Sides : q \in b3.side[s] <=>
                               \/ q \in {mv.to, c.RookTo} /\ s = sd
                               \/ q \in b.side[s] /\ q \notin {mv.fr, cap, c.RookFr}
        BY <1>1, <3>12 DEF Moved
      <4>1. /\ b1.square[q] = IF q = cap THEN None ELSE b.square[q]
            /\ \A s \in Sides : q \in b1.side[s] <=> q \in b.side[s] /\ q # cap
        BY <1>7
      <4>2. /\ b2.square[q] = IF q = mv.to THEN Arrived(mv) ELSE IF q = mv.fr THEN None ELSE b1.square[q]
            /\ \A s \in Sides : q \in b2.side[s] <=> (q = mv.to /\ s = sd) \/ (q \in b1.side[s] /\ q # mv.fr)
        BY <1>10 DEF Shifts
      <4>3. /\ b3.square[q] = IF q = c.RookTo THEN Rook ELSE IF q = c.RookFr THEN None ELSE b2.square[q]
            /\ \A s \in Sides : q \in b3.side[s] <=> (q = c.RookTo /\ s = sd) \/ (q \in b2.side[s] /\ q # c.RookFr)
        BY <3>11 DEF Shifts
      <4> QED
        BY <3>2, <3>6, <4>1, <4>2, <4>3
    <3> QED
      BY <3>9, <3>11, <3>13
  <2> QED
    BY <2>1, <2>2
<1>13. MoveMen(b, mv, b.stm) = FlipStm(b3)
  BY <1>1, <1>6, <1>9, <1>11 DEF MoveMen
<1>14. PICK o : o = FlipStm(b3)
  OBVIOUS
<1>15. /\ Sound(o) /\ SameMen(b3, o) /\ o.stm = Opposite(b3.stm) /\ Rest(o.copy) = Rest(b3.copy)
       /\ o.rootIx = b3.rootIx /\ o.stack = b3.stack /\ (KeysAgree(b3) => KeysAgree(o))
  BY <1>12, <1>14, FlipStmSound
<1>16. Moved(b, mv, o)
  BY <1>12, <1>15 DEF Moved, SameMen
<1>17. /\ b3.stm = b.stm /\ b3.rootIx = b.rootIx /\ b3.stack = b.stack /\ Rest(b3.copy) = Rest(b.copy)
  BY <1>7, <1>10, <1>12 DEF Keeps, Others
<1> QED
  BY <1>7, <1>10, <1>12, <1>13, <1>14, <1>15, <1>16, <1>17

UndoOf(b, mv) == [copy |-> b.copy, move |-> mv, capSq |-> CapSq(b, mv), castling |-> IsCastling(mv)]
Middle(mv) == (mv.fr + mv.to) \div 2

Steps2(b, mv, o) ==
  mv.pc = Pawn /\ Distance(mv.to, mv.fr) = 2 /\ PawnIsAttacked(o, Middle(mv), Opposite(b.stm))

\* What a move leaves in the copy besides keys and phase.
Recorded(b, mv, o) ==
  /\ o.copy.flags = (b.copy.flags \ CastleMask(mv.fr)) \ CastleMask(mv.to)
  /\ o.copy.epSq = IF Steps2(b, mv, o) THEN Middle(mv) ELSE NoSquare
  /\ o.copy.moves = IF mv.cp # None \/ mv.pc = Pawn THEN 0 ELSE b.copy.moves + 1
  /\ o.copy.recap \in Squares \cup {NoSquare}



\* A board with another stack and copy.
Resume(b, stack, copy) == [b EXCEPT !.stack = stack, !.copy = copy]

LEMMA StackCopySound ==
  ASSUME NEW b, Sound(b), NEW stack \in Seq(UndoSet), NEW copy \in CopySet
  PROVE  LET o == Resume(b, stack, copy) IN
         /\ Sound(o) /\ SameMen(b, o) /\ o.stm = b.stm /\ o.copy = copy /\ o.stack = stack
         /\ o.rootIx = b.rootIx /\ o.all = b.all
         /\ (/\ KeysAgree(b) /\ copy.key = b.copy.key /\ copy.pawnKey = b.copy.pawnKey
             /\ copy.phase = b.copy.phase) => KeysAgree(o)
<1>1. PICK o : o = Resume(b, stack, copy)
  OBVIOUS
<1>2. b \in BoardSet
  BY DEF Sound
<1>3. /\ o \in BoardSet /\ SameMen(b, o) /\ o.stm = b.stm /\ o.copy = copy
      /\ o.all = b.all /\ o.rootIx = b.rootIx /\ o.stack = stack
  BY <1>1, <1>2 DEF BoardSet, SameMen, Resume
<1>4. /\ Sound(o) /\ MenKeys(o, Pieces) = MenKeys(b, Pieces) /\ MenKeys(o, {Pawn}) = MenKeys(b, {Pawn})
      /\ Phases(o) = Phases(b)
  BY <1>3, SameMenSound
<1> QED
  BY <1>1, <1>3, <1>4 DEF KeysAgree

LEMMA UndoOfType ==
  ASSUME NEW b, Sound(b), NEW mv, Fits(b, mv)
  PROVE  UndoOf(b, mv) \in UndoSet
<1>1. CapSq(b, mv) \in Squares \cup {NoSquare}
  BY CapSqIs
<1>2. b.copy \in CopySet /\ mv \in MoveSet /\ IsCastling(mv) \in BOOLEAN
  BY DEF Sound, BoardSet, Fits, IsCastling
<1> QED
  BY <1>1, <1>2 DEF UndoOf, UndoSet

\* What stands on the squares decides whether a pawn may take en passant.
LEMMA PawnIsAttackedMen ==
  ASSUME NEW b, NEW o, SameMen(b, o), NEW sq, NEW sd
  PROVE  PawnIsAttacked(o, sq, sd) = PawnIsAttacked(b, sq, sd)
  BY DEF PawnIsAttacked, SquareIs, SquareSide, SameMen

LEMMA MoveSound ==
  ASSUME NEW b, Sound(b), NEW mv, Fits(b, mv)
  PROVE  LET o == Move(b, mv) IN
         /\ Sound(o) /\ Moved(b, mv, o) /\ Recorded(b, mv, o) /\ o.stm = Opposite(b.stm)
         /\ o.rootIx = b.rootIx /\ o.stack = Append(b.stack, UndoOf(b, mv))
         /\ o.all = o.side[White] \cup o.side[Black] /\ (KeysAgree(b) => KeysAgree(o))
<1>1. PICK men : men = MoveMen(b, mv, b.stm)
  OBVIOUS
<1>2. /\ Sound(men) /\ Moved(b, mv, men) /\ men.stm = Opposite(b.stm) /\ Rest(men.copy) = Rest(b.copy)
      /\ men.rootIx = b.rootIx /\ men.stack = b.stack /\ (KeysAgree(b) => KeysAgree(men))
  BY <1>1, MoveMenSound
<1>3. PICK stack, flags, epSq, moves, recap :
        /\ stack = Append(men.stack, UndoOf(b, mv))
        /\ flags = (men.copy.flags \ CastleMask(mv.fr)) \ CastleMask(mv.to)
        /\ epSq = IF Steps2(b, mv, men) THEN Middle(mv) ELSE NoSquare
        /\ moves = IF mv.cp # None \/ mv.pc = Pawn THEN 0 ELSE men.copy.moves + 1
        /\ recap = IF IsTactical(mv) THEN mv.to ELSE NoSquare
  OBVIOUS
<1>4. PICK copy : copy = [men.copy EXCEPT !.flags = flags, !.epSq = epSq, !.moves = moves, !.recap = recap]
  OBVIOUS
<1>5. men \in BoardSet /\ men.copy \in CopySet /\ b \in BoardSet
  BY <1>2 DEF Sound, BoardSet
<1>6. /\ flags \in SUBSET (0..3) /\ epSq \in Squares \cup {NoSquare} /\ moves \in Nat
      /\ recap \in Squares \cup {NoSquare}
  <2>1. mv.fr \in Squares /\ mv.to \in Squares
    BY DEF Fits, MoveSet
  <2>2. Middle(mv) \in Squares
    BY <2>1, Numbers DEF Middle
  <2>3. men.copy.flags \in SUBSET (0..3) /\ men.copy.moves \in Nat
    BY <1>5 DEF CopySet
  <2> QED
    BY <1>3, <2>1, <2>2, <2>3
<1>7. /\ copy \in CopySet /\ copy.key = men.copy.key /\ copy.pawnKey = men.copy.pawnKey
      /\ copy.phase = men.copy.phase
      /\ copy.flags = flags /\ copy.epSq = epSq /\ copy.moves = moves /\ copy.recap = recap
  <2>1. PICK c : c = men.copy
    OBVIOUS
  <2>2. c \in CopySet
    BY <1>5, <2>1
  <2>3. copy = [c EXCEPT !.flags = flags, !.epSq = epSq, !.moves = moves, !.recap = recap]
    BY <1>4, <2>1
  <2>4. /\ copy \in CopySet /\ copy.key = c.key /\ copy.pawnKey = c.pawnKey /\ copy.phase = c.phase
        /\ copy.flags = flags /\ copy.epSq = epSq /\ copy.moves = moves /\ copy.recap = recap
    BY <1>6, <2>2, <2>3 DEF CopySet
  <2> QED
    BY <2>1, <2>4
<1>8. stack \in Seq(UndoSet)
  <2>1. UndoOf(b, mv) \in UndoSet
    BY UndoOfType
  <2>2. men.stack \in Seq(UndoSet)
    BY <1>5 DEF BoardSet
  <2> QED
    BY <1>3, <2>1, <2>2
<1>9. PICK x : x = Resume(men, stack, copy)
  OBVIOUS
<1>10. Move(b, mv) = Update(x)
  <2>1. PICK c : c = men.copy
    OBVIOUS
  <2>2. [c EXCEPT !.flags = flags, !.epSq = epSq].moves = c.moves
    <3>1. c \in CopySet
      BY <1>5, <2>1
    <3> QED
      BY <3>1 DEF CopySet
  <2>3. [c EXCEPT !.flags = (@ \ CastleMask(mv.fr)) \ CastleMask(mv.to),
                  !.epSq = IF Steps2(b, mv, men) THEN Middle(mv) ELSE NoSquare,
                  !.moves = IF mv.cp # None \/ mv.pc = Pawn THEN 0 ELSE @ + 1,
                  !.recap = IF IsTactical(mv) THEN mv.to ELSE NoSquare] = copy
    BY <1>3, <1>4, <2>1, <2>2, Zenon
  <2>4. Move(b, mv) =
          Update([men EXCEPT
            !.stack = Append(@, UndoOf(b, mv)),
            !.copy = [men.copy EXCEPT
              !.flags = (@ \ CastleMask(mv.fr)) \ CastleMask(mv.to),
              !.epSq = IF Steps2(b, mv, men) THEN Middle(mv) ELSE NoSquare,
              !.moves = IF mv.cp # None \/ mv.pc = Pawn THEN 0 ELSE @ + 1,
              !.recap = IF IsTactical(mv) THEN mv.to ELSE NoSquare]])
    BY <1>1, Zenon DEF Move, UndoOf, Steps2, Middle
  <2> QED
    BY <1>3, <1>9, <2>1, <2>3, <2>4, Zenon DEF Resume
<1>11. /\ Sound(x) /\ SameMen(men, x) /\ x.stm = men.stm /\ x.copy = copy /\ x.stack = stack
       /\ x.rootIx = men.rootIx /\ (KeysAgree(men) => KeysAgree(x))
  BY <1>2, <1>7, <1>8, <1>9, StackCopySound
<1>12. PICK o : o = Update(x)
  OBVIOUS
<1>13. /\ Sound(o) /\ SameMen(x, o) /\ o.stm = x.stm /\ o.copy = x.copy
       /\ o.all = x.side[White] \cup x.side[Black]
       /\ o.rootIx = x.rootIx /\ o.stack = x.stack /\ (KeysAgree(x) => KeysAgree(o))
  BY <1>11, <1>12, UpdateSound
<1>14. SameMen(men, o)
  BY <1>11, <1>13 DEF SameMen
<1>15. Moved(b, mv, o)
  BY <1>2, <1>14 DEF Moved, SameMen
<1>16. Recorded(b, mv, o)
  <2>1. men.copy.flags = b.copy.flags /\ men.copy.moves = b.copy.moves
    BY <1>2 DEF Rest
  <2>2. PawnIsAttacked(o, Middle(mv), Opposite(b.stm)) = PawnIsAttacked(men, Middle(mv), Opposite(b.stm))
    BY <1>14, PawnIsAttackedMen
  <2>3. Steps2(b, mv, o) = Steps2(b, mv, men)
    BY <2>2 DEF Steps2
  <2> QED
    BY <1>3, <1>6, <1>7, <1>11, <1>13, <2>1, <2>3 DEF Recorded
<1>17. o.all = o.side[White] \cup o.side[Black]
  BY <1>13 DEF SameMen
<1> QED
  BY <1>2, <1>3, <1>10, <1>11, <1>12, <1>13, <1>15, <1>16, <1>17

-----------------------------------------------------------------------------
(* What is taken back. *)

HasKings(b) == \A sd \in Sides : PieceSd(b, King, sd) # {}
AllIs(b)    == b.all = b.side[White] \cup b.side[Black]

SameSquares(b, o) ==
  \A q \in Squares : o.square[q] = b.square[q] /\ \A s \in Sides : q \in o.side[s] <=> q \in b.side[s]

\* The squares decide everything about the men.
LEMMA SquaresDecide ==
  ASSUME NEW b, Sound(b), HasKings(b), NEW o, Sound(o), SameSquares(b, o)
  PROVE  SameMen(b, o)
<1>1. /\ b.piece \in [Pieces -> SUBSET Squares] /\ b.side \in [Sides -> SUBSET Squares]
      /\ b.king \in [Sides -> Squares \cup {NoSquare}] /\ b.count \in [P12s -> Int]
      /\ b.square \in [Squares -> 0..6]
  BY DEF Sound, BoardSet
<1>2. /\ o.piece \in [Pieces -> SUBSET Squares] /\ o.side \in [Sides -> SUBSET Squares]
      /\ o.king \in [Sides -> Squares \cup {NoSquare}] /\ o.count \in [P12s -> Int]
      /\ o.square \in [Squares -> 0..6]
  BY DEF Sound, BoardSet
<1>3. o.square = b.square
  BY <1>1, <1>2 DEF SameSquares
<1>4. o.side = b.side
  <2>1. ASSUME NEW s \in Sides
        PROVE  o.side[s] = b.side[s]
    <3>1. b.side[s] \in SUBSET Squares /\ o.side[s] \in SUBSET Squares
      BY <1>1, <1>2
    <3>2. \A q \in Squares : q \in o.side[s] <=> q \in b.side[s]
      BY DEF SameSquares
    <3> QED
      BY <3>1, <3>2
  <2> QED
    BY <1>1, <1>2, <2>1
<1>5. o.piece = b.piece
  <2>1. ASSUME NEW p \in Pieces
        PROVE  o.piece[p] = b.piece[p]
    <3>1. b.piece[p] \in SUBSET Squares /\ o.piece[p] \in SUBSET Squares
      BY <1>1, <1>2
    <3>2. \A q \in Squares : q \in o.piece[p] <=> q \in b.piece[p]
      BY <1>3 DEF Sound, MenAgree, PiecesAgree
    <3> QED
      BY <3>1, <3>2
  <2> QED
    BY <1>1, <1>2, <2>1
<1>6. \A pc, sd : PieceSd(o, pc, sd) = PieceSd(b, pc, sd)
  BY <1>4, <1>5 DEF PieceSd
<1>7. o.count = b.count
  <2>1. ASSUME NEW p \in P12s
        PROVE  o.count[p] = b.count[p]
    <3>1. PICK pc \in Pieces, sd \in Sides : p = MakeP12(pc, sd)
      <4>1. p \div 2 \in Pieces /\ p % 2 \in Sides /\ p = 2 * (p \div 2) + (p % 2)
        BY Numbers
      <4> QED
        BY <4>1 DEF MakeP12
    <3>2. o.count[p] = Cardinality(PieceSd(o, pc, sd)) /\ b.count[p] = Cardinality(PieceSd(b, pc, sd))
      BY <3>1 DEF Sound, MenAgree, CountsAgree
    <3> QED
      BY <1>6, <3>2
  <2> QED
    BY <1>1, <1>2, <2>1
<1>8. o.king = b.king
  <2>1. ASSUME NEW s \in Sides
        PROVE  o.king[s] = b.king[s]
    <3>1. PICK q : q \in PieceSd(b, King, s)
      BY DEF HasKings
    <3>2. b.king[s] = q /\ o.king[s] = q
      BY <1>6, <3>1 DEF Sound, MenAgree, KingsAgree
    <3> QED
      BY <3>2
  <2> QED
    BY <1>1, <1>2, <2>1
<1> QED
  BY <1>3, <1>4, <1>5, <1>7, <1>8 DEF SameMen

\* A board is its fields.
LEMMA FieldsDecide ==
  ASSUME NEW b \in BoardSet, NEW o \in BoardSet, SameMen(b, o), o.all = b.all, o.stm = b.stm,
         o.copy = b.copy, o.rootIx = b.rootIx, o.stack = b.stack
  PROVE  o = b
<1>1. b = [piece |-> b.piece, side |-> b.side, all |-> b.all, king |-> b.king, count |-> b.count,
           square |-> b.square, stm |-> b.stm, copy |-> b.copy, rootIx |-> b.rootIx, stack |-> b.stack]
  BY DEF BoardSet
<1>2. o = [piece |-> o.piece, side |-> o.side, all |-> o.all, king |-> o.king, count |-> o.count,
           square |-> o.square, stm |-> o.stm, copy |-> o.copy, rootIx |-> o.rootIx, stack |-> o.stack]
  BY DEF BoardSet
<1> QED
  BY <1>1, <1>2, Zenon DEF SameMen

LEMMA LastOf ==
  ASSUME NEW S, NEW s \in Seq(S), NEW e \in S
  PROVE  /\ Append(s, e) \in Seq(S) /\ Len(Append(s, e)) = Len(s) + 1
         /\ Append(s, e)[Len(Append(s, e))] = e
         /\ SubSeq(Append(s, e), 1, Len(Append(s, e)) - 1) = s
<1>1. PICK t : t = Append(s, e)
  OBVIOUS
<1>2. t \in Seq(S) /\ Len(t) = Len(s) + 1 /\ t[Len(t)] = e /\ \A i \in 1..Len(s) : t[i] = s[i]
  BY <1>1
<1>3. SubSeq(t, 1, Len(s)) = s
  BY <1>1, <1>2
<1> QED
  BY <1>1, <1>2, <1>3

\* The end of Undo and of UndoNull, once the men are back.
LEMMA PopSound ==
  ASSUME NEW b, Sound(b), HasKings(b), AllIs(b), NEW u \in UndoSet, u.copy = b.copy,
         NEW x, Sound(x), SameSquares(b, x), x.stm = Opposite(b.stm), x.rootIx = b.rootIx,
         x.stack = Append(b.stack, u)
  PROVE  Update([PopStack(FlipStm(x)) EXCEPT !.copy = u.copy]) = b
<1>1. PICK y : y = FlipStm(x)
  OBVIOUS
<1>2. /\ Sound(y) /\ SameMen(x, y) /\ y.stm = Opposite(x.stm) /\ y.rootIx = x.rootIx /\ y.stack = x.stack
  BY <1>1, FlipStmSound
<1>3. b \in BoardSet /\ b.stack \in Seq(UndoSet) /\ b.copy \in CopySet /\ b.stm \in Sides
  BY DEF Sound, BoardSet
<1>4. PICK z : z = Resume(y, b.stack, b.copy)
  OBVIOUS
<1>5. [PopStack(FlipStm(x)) EXCEPT !.copy = u.copy] = z
  <2>1. SubSeq(y.stack, 1, Len(y.stack) - 1) = b.stack
    BY <1>2, <1>3, LastOf
  <2> QED
    BY <1>1, <1>4, <2>1, Zenon DEF PopStack, Resume
<1>6. /\ Sound(z) /\ SameMen(y, z) /\ z.stm = y.stm /\ z.copy = b.copy /\ z.stack = b.stack
      /\ z.rootIx = y.rootIx
  BY <1>2, <1>3, <1>4, StackCopySound
<1>7. PICK o : o = Update(z)
  OBVIOUS
<1>8. /\ Sound(o) /\ SameMen(z, o) /\ o.stm = z.stm /\ o.copy = z.copy
      /\ o.all = z.side[White] \cup z.side[Black] /\ o.rootIx = z.rootIx /\ o.stack = z.stack
  BY <1>6, <1>7, UpdateSound
<1>9. SameSquares(b, o)
  BY <1>2, <1>6, <1>8 DEF SameSquares, SameMen
<1>10. SameMen(b, o)
  BY <1>8, <1>9, SquaresDecide
<1>11. o.stm = b.stm
  BY <1>2, <1>3, <1>6, <1>8, Opposites
<1>12. o.all = b.all
  BY <1>8, <1>10 DEF SameMen, AllIs
<1>13. o = b
  BY <1>2, <1>3, <1>6, <1>8, <1>10, <1>11, <1>12, FieldsDecide DEF Sound
<1> QED
  BY <1>5, <1>7, <1>13

LEMMA UndoMenSound ==
  ASSUME NEW b, Sound(b), NEW mv, Fits(b, mv), HasKings(b),
         NEW o, Sound(o), Moved(b, mv, o), o.stm = Opposite(b.stm), NEW u, u = UndoOf(b, mv)
  PROVE  LET x == UndoMen(UndoRook(o, u), u) IN Sound(x) /\ SameSquares(b, x) /\ Keeps(o, x)
<1>1. PICK sd, xd, cap : sd = b.stm /\ xd = Opposite(sd) /\ cap = CapSq(b, mv)
  OBVIOUS
<1>2. sd \in Sides /\ xd \in Sides /\ xd # sd /\ o.stm = xd /\ Opposite(o.stm) = sd
  <2>1. b.stm \in Sides
    BY DEF Sound, BoardSet
  <2> QED
    BY <1>1, <2>1, Opposites
<1>3. /\ mv.fr \in Squares /\ mv.to \in Squares /\ mv.pc \in Pieces /\ mv.fr \in PieceSd(b, mv.pc, sd)
      /\ mv.to \notin b.side[sd] /\ (mv.pp = None \/ (mv.pc = Pawn /\ mv.pp \in Knight..Queen))
      /\ mv.cp # King
  BY <1>1 DEF Fits, MoveSet
<1>4. /\ b.square[mv.fr] = mv.pc /\ mv.fr \in b.side[sd] /\ mv.fr \notin b.side[xd] /\ mv.fr # mv.to
  BY <1>2, <1>3, ManOn
<1>5. \/ cap = NoSquare /\ mv.cp = None /\ b.square[mv.to] = None
      \/ /\ mv.cp \in Pieces /\ cap \in PieceSd(b, mv.cp, xd) /\ cap \in Squares /\ cap # NoSquare
         /\ mv.cp # None /\ (b.square[mv.to] = None \/ cap = mv.to)
  BY <1>1, CapSqIs
<1>6. cap # mv.fr /\ (cap # NoSquare => b.square[cap] = mv.cp /\ cap \in b.side[xd] /\ cap \notin b.side[sd])
  <2>1. CASE cap = NoSquare
    <3>1. NoSquare \notin Squares
      BY Numbers
    <3> QED
      BY <1>3, <2>1, <3>1
  <2>2. CASE cap # NoSquare
    <3>1. b.square[cap] = mv.cp /\ cap \in b.side[xd] /\ cap \notin b.side[sd]
      BY <1>2, <1>5, <2>2, ManOn
    <3> QED
      BY <1>4, <3>1
  <2> QED
    BY <2>1, <2>2
<1>7. u.move = mv /\ u.capSq = cap /\ u.castling = IsCastling(mv)
  BY <1>1 DEF UndoOf
<1>8. Arrived(mv) \in Pieces
  BY <1>3, Numbers DEF Arrived
\* The square a pawn takes on is not the one it goes to, in passing.
<1>9. b.square[mv.to] # None => cap = mv.to
  BY <1>5
<1>10. PICK t : t = FALSE
  OBVIOUS
<1>11. PICK u1 : u1 = UndoRook(o, u)
  OBVIOUS
\* The board without its move but for the man moved and the man taken.
<1>12. /\ Sound(u1) /\ Keeps(o, u1)
       /\ \A q \in Squares :
            /\ u1.square[q] = IF q = mv.to THEN Arrived(mv) ELSE IF q \in {mv.fr, cap} THEN None
                              ELSE b.square[q]
            /\ \A s \in Sides : q \in u1.side[s] <=> \/ q = mv.to /\ s = sd
                                                     \/ q \in b.side[s] /\ q \notin {mv.fr, cap}
  <2>1. CASE ~IsCastling(mv)
    <3>1. u1 = o /\ Comes(mv, b.stm) = {} /\ Goes(mv, b.stm) = {}
      BY <1>7, <1>11, <2>1 DEF Comes, Goes, UndoRook
    <3>2. Keeps(o, u1)
      BY <3>1 DEF Keeps, Others
    <3> QED
      BY <1>1, <3>1, <3>2 DEF Moved
  <2>2. CASE IsCastling(mv)
    <3>1. PICK c : c = Tower(mv, sd)
      OBVIOUS
    <3>2. /\ mv.cp = None /\ c.RookFr \in PieceSd(b, Rook, sd) /\ c.RookTo \in Squares
          /\ b.square[c.RookTo] = None /\ c.RookTo # mv.to
      BY <1>1, <2>2, <3>1 DEF Fits, TowerFits
    <3>3. cap = NoSquare /\ cap \notin Squares
      BY <1>5, <3>2, Numbers
    <3>4. Rook \in Pieces /\ c.RookFr \in Squares /\ b.square[c.RookFr] = Rook /\ c.RookFr \in b.side[sd]
      BY <1>2, <3>2, ManOn, Numbers
    <3>5. mv.pc = King /\ mv.pp = None
      BY <1>3, <2>2, Numbers DEF IsCastling
    <3>6. c.RookFr # mv.fr /\ c.RookFr # mv.to /\ c.RookTo # mv.fr /\ c.RookTo # c.RookFr
      BY <1>3, <1>4, <3>2, <3>4, <3>5, Numbers
    <3>12. Comes(mv, b.stm) = {c.RookTo} /\ Goes(mv, b.stm) = {c.RookFr}
      BY <1>1, <2>2, <3>1 DEF Comes, Goes
    <3>13. ASSUME NEW q \in Squares
           PROVE  /\ o.square[q] = IF q = mv.to THEN Arrived(mv) ELSE IF q = c.RookTo THEN Rook
                                   ELSE IF q \in {mv.fr, cap, c.RookFr} THEN None ELSE b.square[q]
                  /\ \A s \in Sides : q \in o.side[s] <=>
                       \/ q \in {mv.to, c.RookTo} /\ s = sd
                       \/ q \in b.side[s] /\ q \notin {mv.fr, cap, c.RookFr}
      BY <1>1, <3>12 DEF Moved
    <3>7. /\ o.square[c.RookTo] = Rook /\ c.RookTo \in o.side[sd] /\ o.square[c.RookFr] = None
      BY <1>2, <3>2, <3>4, <3>6, <3>13
    <3>8. c.RookTo \in PieceSd(o, Rook, sd)
      BY <1>2, <3>2, <3>4, <3>7, ManOn
    <3>10. t \in BOOLEAN /\ u1 = MoveSquare(o, Rook, sd, c.RookTo, c.RookFr, t)
      BY <1>2, <1>7, <1>10, <1>11, <2>2, <3>1 DEF CastlingRook, Tower, UndoRook
    <3>11. /\ Sound(u1) /\ Shifts(o, Rook, sd, c.RookTo, c.RookFr, u1) /\ Keeps(o, u1)
      BY <1>2, <3>2, <3>4, <3>7, <3>8, <3>10, MoveSquareSound
    <3>14. ASSUME NEW q \in Squares
           PROVE  /\ u1.square[q] = IF q = mv.to THEN Arrived(mv) ELSE IF q \in {mv.fr, cap} THEN None
                                    ELSE b.square[q]
                  /\ \A s \in Sides : q \in u1.side[s] <=> \/ q = mv.to /\ s = sd
                                                           \/ q \in b.side[s] /\ q \notin {mv.fr, cap}
      <4>1. /\ u1.square[q] = IF q = c.RookFr THEN Rook ELSE IF q = c.RookTo THEN None ELSE o.square[q]
            /\ \A s \in Sides : q \in u1.side[s] <=> (q = c.RookFr /\ s = sd) \/ (q \in o.side[s] /\ q # c.RookTo)
        BY <3>11 DEF Shifts
      <4>2. /\ o.square[q] = IF q = mv.to THEN Arrived(mv) ELSE IF q = c.RookTo THEN Rook
                             ELSE IF q \in {mv.fr, cap, c.RookFr} THEN None ELSE b.square[q]
            /\ \A s \in Sides : q \in o.side[s] <=>
                       \/ q \in {mv.to, c.RookTo} /\ s = sd
                       \/ q \in b.side[s] /\ q \notin {mv.fr, cap, c.RookFr}
        BY <3>13
      <4>3. /\ \A s \in Sides : c.RookFr \in b.side[s] => s = sd
            /\ \A s \in Sides : c.RookTo \notin b.side[s]
        <5>1. \A s \in Sides : c.RookFr \in b.side[s] => s = sd
          BY <1>2, <3>2, <3>4, ManOn
        <5> QED
          BY <3>2, <5>1, EmptyOn
      <4>4. u1.square[q] = IF q = mv.to THEN Arrived(mv) ELSE IF q \in {mv.fr, cap} THEN None ELSE b.square[q]
        BY <3>2, <3>3, <3>4, <3>6, <4>1, <4>2
      <4>5. ASSUME NEW s \in Sides
            PROVE  q \in u1.side[s] <=> \/ q = mv.to /\ s = sd
                                        \/ q \in b.side[s] /\ q \notin {mv.fr, cap}
        BY <3>2, <3>3, <3>4, <3>6, <4>1, <4>2, <4>3
      <4> QED
        BY <4>4, <4>5
    <3> QED
      BY <3>11, <3>14
  <2> QED
    BY <2>1, <2>2
<1>13. PICK b1 : b1 = IF mv.pp # None
                      THEN SetSquare(ClearSquare(u1, mv.pp, sd, mv.to, FALSE), Pawn, sd, mv.fr, FALSE)
                      ELSE MoveSquare(u1, mv.pc, sd, mv.to, mv.fr, FALSE)
  OBVIOUS
<1>14. mv.to \in PieceSd(u1, Arrived(mv), sd) /\ u1.square[mv.fr] = None
  <2>1. u1.square[mv.to] = Arrived(mv) /\ mv.to \in u1.side[sd] /\ u1.square[mv.fr] = None
    BY <1>2, <1>3, <1>4, <1>12
  <2> QED
    BY <1>2, <1>3, <1>8, <1>12, <2>1, ManOn
<1>15. Sound(b1) /\ Shifts(u1, mv.pc, sd, mv.to, mv.fr, b1) /\ Keeps(u1, b1)
  <2>1. CASE mv.pp = None
    <3>1. b1 = MoveSquare(u1, mv.pc, sd, mv.to, mv.fr, t) /\ t \in BOOLEAN /\ Arrived(mv) = mv.pc
      BY <1>10, <1>13, <2>1 DEF Arrived
    <3> QED
      BY <1>2, <1>3, <1>12, <1>14, <3>1, MoveSquareSound
  <2>2. CASE mv.pp # None
    <3>1. /\ b1 = SetSquare(ClearSquare(u1, mv.pp, sd, mv.to, t), mv.pc, sd, mv.fr, t) /\ t \in BOOLEAN
          /\ Arrived(mv) = mv.pp /\ mv.pc # King
      <4>1. mv.pc = Pawn
        BY <1>3, <2>2
      <4>2. Pawn # King
        BY Numbers
      <4> QED
        BY <1>10, <1>13, <2>2, <4>1, <4>2 DEF Arrived
    <3> QED
      BY <1>2, <1>3, <1>8, <1>12, <1>14, <3>1, ExchangeSound
  <2> QED
    BY <2>1, <2>2
\* All but the man taken stand where they did.
<1>16. ASSUME NEW q \in Squares
       PROVE  /\ b1.square[q] = IF q = cap THEN None ELSE b.square[q]
              /\ \A s \in Sides : q \in b1.side[s] <=> q \in b.side[s] /\ q # cap
  <2>1. /\ b1.square[q] = IF q = mv.fr THEN mv.pc ELSE IF q = mv.to THEN None ELSE u1.square[q]
        /\ \A s \in Sides : q \in b1.side[s] <=> (q = mv.fr /\ s = sd) \/ (q \in u1.side[s] /\ q # mv.to)
    BY <1>15 DEF Shifts
  <2>2. /\ u1.square[q] = IF q = mv.to THEN Arrived(mv) ELSE IF q \in {mv.fr, cap} THEN None ELSE b.square[q]
        /\ \A s \in Sides : q \in u1.side[s] <=> \/ q = mv.to /\ s = sd
                                                 \/ q \in b.side[s] /\ q \notin {mv.fr, cap}
    BY <1>12
  <2>3. /\ \A s \in Sides : mv.fr \in b.side[s] => s = sd
        /\ cap = mv.to \/ (b.square[mv.to] = None /\ \A s \in Sides : mv.to \notin b.side[s])
    <3>1. \A s \in Sides : mv.fr \in b.side[s] => s = sd
      BY <1>2, <1>3, ManOn
    <3>2. b.square[mv.to] = None => \A s \in Sides : mv.to \notin b.side[s]
      BY <1>3, EmptyOn
    <3> QED
      BY <1>9, <3>1, <3>2
  <2>4. b1.square[q] = IF q = cap THEN None ELSE b.square[q]
    BY <1>4, <1>6, <2>1, <2>2, <2>3
  <2>5. ASSUME NEW s \in Sides
        PROVE  q \in b1.side[s] <=> q \in b.side[s] /\ q # cap
    BY <1>4, <1>6, <2>1, <2>2, <2>3
  <2> QED
    BY <2>4, <2>5
<1>17. PICK x : x = IF mv.cp # None THEN SetSquare(b1, mv.cp, xd, cap, FALSE) ELSE b1
  OBVIOUS
<1>18. Sound(x) /\ SameSquares(b, x) /\ Keeps(b1, x)
  <2>1. CASE mv.cp = None
    <3>1. x = b1 /\ cap \notin Squares
      BY <1>5, <1>17, <2>1, Numbers
    <3>2. Keeps(b1, x)
      BY <3>1 DEF Keeps, Others
    <3>3. SameSquares(b, x)
      BY <1>16, <3>1 DEF SameSquares
    <3> QED
      BY <1>15, <3>1, <3>2, <3>3
  <2>2. CASE mv.cp # None
    <3>1. mv.cp \in Pieces /\ cap \in Squares /\ cap # NoSquare
      BY <1>5, <2>2
    <3>2. x = SetSquare(b1, mv.cp, xd, cap, t) /\ t \in BOOLEAN
      BY <1>10, <1>17, <2>2
    <3>3. b1.square[cap] = None
      BY <1>16, <3>1
    <3>4. Sound(x) /\ Puts(b1, mv.cp, xd, cap, x) /\ Keeps(b1, x)
      BY <1>2, <1>3, <1>15, <3>1, <3>2, <3>3, SetSquareSound
    <3>5. \A s \in Sides : cap \in b.side[s] <=> s = xd
      BY <1>2, <1>6, <3>1, Opposites, Numbers
    <3>6. SameSquares(b, x)
      <4> SUFFICES ASSUME NEW q \in Squares
                   PROVE  x.square[q] = b.square[q] /\ \A s \in Sides : q \in x.side[s] <=> q \in b.side[s]
        BY DEF SameSquares
      <4>1. /\ x.square[q] = IF q = cap THEN mv.cp ELSE b1.square[q]
            /\ \A s \in Sides : q \in x.side[s] <=> q \in b1.side[s] \/ (q = cap /\ s = xd)
        BY <3>4 DEF Puts
      <4>2. /\ b1.square[q] = IF q = cap THEN None ELSE b.square[q]
            /\ \A s \in Sides : q \in b1.side[s] <=> q \in b.side[s] /\ q # cap
        BY <1>16
      <4> QED
        BY <1>6, <3>1, <3>5, <4>1, <4>2
    <3> QED
      BY <3>4, <3>6
  <2> QED
    BY <2>1, <2>2
<1>19. UndoMen(UndoRook(o, u), u) = x
  <2>1. u1.stm = o.stm
    BY <1>12 DEF Keeps, Others
  <2> QED
    BY <1>2, <1>7, <1>11, <1>13, <1>17, <2>1 DEF UndoMen
<1>20. Keeps(o, x)
  BY <1>12, <1>15, <1>18 DEF Keeps, Others
<1> QED
  BY <1>18, <1>19, <1>20

\* A move taken back leaves the board as it was, every field of it.
LEMMA UndoMove ==
  ASSUME NEW b, Sound(b), HasKings(b), AllIs(b), NEW mv, Fits(b, mv)
  PROVE  Undo(Move(b, mv)) = b
<1>1. PICK o, u : o = Move(b, mv) /\ u = UndoOf(b, mv)
  OBVIOUS
<1>2. /\ Sound(o) /\ Moved(b, mv, o) /\ o.stm = Opposite(b.stm)
      /\ o.rootIx = b.rootIx /\ o.stack = Append(b.stack, u)
  BY <1>1, MoveSound
<1>3. PICK x : x = UndoMen(UndoRook(o, u), u)
  OBVIOUS
<1>4. Sound(x) /\ SameSquares(b, x) /\ Keeps(o, x)
  BY <1>1, <1>2, <1>3, UndoMenSound
<1>5. u \in UndoSet /\ u.copy = b.copy
  <2>1. u.copy = b.copy
    BY <1>1 DEF UndoOf
  <2> QED
    BY <1>1, <2>1, UndoOfType
<1>6. x.stm = Opposite(b.stm) /\ x.rootIx = b.rootIx /\ x.stack = Append(b.stack, u)
  BY <1>2, <1>4 DEF Keeps, Others
<1>7. Update([PopStack(FlipStm(x)) EXCEPT !.copy = u.copy]) = b
  BY <1>4, <1>5, <1>6, PopSound
<1>8. LastUndo(o) = u
  <2>1. b.stack \in Seq(UndoSet)
    BY DEF Sound, BoardSet
  <2> QED
    BY <1>2, <1>5, <2>1, LastOf DEF LastUndo
<1> QED
  BY <1>1, <1>3, <1>7, <1>8, Zenon DEF Undo

NullOf(b) == [copy |-> b.copy, move |-> NullMove, capSq |-> NoSquare, castling |-> FALSE]

LEMMA NullSound ==
  ASSUME NEW b, Sound(b)
  PROVE  LET o == MoveNull(b) IN
         /\ Sound(o) /\ SameMen(b, o) /\ o.stm = Opposite(b.stm) /\ o.rootIx = b.rootIx
         /\ o.stack = Append(b.stack, NullOf(b)) /\ NullOf(b) \in UndoSet /\ AllIs(o)
         /\ o.copy.flags = b.copy.flags /\ o.copy.epSq = NoSquare /\ o.copy.moves = 0
         /\ (KeysAgree(b) => KeysAgree(o))
<1>1. PICK men : men = FlipStm(b)
  OBVIOUS
<1>2. /\ Sound(men) /\ SameMen(b, men) /\ men.stm = Opposite(b.stm) /\ Rest(men.copy) = Rest(b.copy)
      /\ men.rootIx = b.rootIx /\ men.stack = b.stack /\ (KeysAgree(b) => KeysAgree(men))
  BY <1>1, FlipStmSound
<1>3. PICK stack, copy :
        /\ stack = Append(men.stack, NullOf(b))
        /\ copy = [men.copy EXCEPT !.epSq = NoSquare, !.moves = 0, !.recap = NoSquare]
  OBVIOUS
<1>4. men \in BoardSet /\ men.copy \in CopySet /\ b.copy \in CopySet /\ b.stack \in Seq(UndoSet)
  BY <1>2 DEF Sound, BoardSet
<1>5. /\ copy \in CopySet /\ copy.key = men.copy.key /\ copy.pawnKey = men.copy.pawnKey
      /\ copy.phase = men.copy.phase /\ copy.flags = men.copy.flags /\ copy.epSq = NoSquare /\ copy.moves = 0
  <2>1. PICK c : c = men.copy
    OBVIOUS
  <2>2. c \in CopySet
    BY <1>4, <2>1
  <2>3. copy = [c EXCEPT !.epSq = NoSquare, !.moves = 0, !.recap = NoSquare]
    BY <1>3, <2>1
  <2>4. /\ copy \in CopySet /\ copy.key = c.key /\ copy.pawnKey = c.pawnKey
        /\ copy.phase = c.phase /\ copy.flags = c.flags /\ copy.epSq = NoSquare /\ copy.moves = 0
    BY <2>2, <2>3 DEF CopySet
  <2> QED
    BY <2>1, <2>4
<1>6. NullOf(b) \in UndoSet
  <2>1. NullMove \in MoveSet
    BY Numbers DEF NullMove, Mv, MoveSet
  <2> QED
    BY <1>4, <2>1 DEF NullOf, UndoSet
<1>7. stack \in Seq(UndoSet)
  BY <1>2, <1>3, <1>4, <1>6
<1>8. PICK x : x = Resume(men, stack, copy)
  OBVIOUS
<1>9. MoveNull(b) = Update(x)
  BY <1>1, <1>3, <1>8, Zenon DEF MoveNull, NullOf, Resume
<1>10. /\ Sound(x) /\ SameMen(men, x) /\ x.stm = men.stm /\ x.copy = copy /\ x.stack = stack
       /\ x.rootIx = men.rootIx /\ (KeysAgree(men) => KeysAgree(x))
  BY <1>2, <1>5, <1>7, <1>8, StackCopySound
<1>11. PICK o : o = Update(x)
  OBVIOUS
<1>12. /\ Sound(o) /\ SameMen(x, o) /\ o.stm = x.stm /\ o.copy = x.copy
       /\ o.all = x.side[White] \cup x.side[Black]
       /\ o.rootIx = x.rootIx /\ o.stack = x.stack /\ (KeysAgree(x) => KeysAgree(o))
  BY <1>10, <1>11, UpdateSound
<1>13. SameMen(b, o) /\ AllIs(o)
  BY <1>2, <1>10, <1>12 DEF SameMen, AllIs
<1>14. o.copy.flags = b.copy.flags
  BY <1>2, <1>5, <1>10, <1>12 DEF Rest
<1> QED
  BY <1>2, <1>3, <1>5, <1>6, <1>9, <1>10, <1>11, <1>12, <1>13, <1>14

LEMMA UndoOfNull ==
  ASSUME NEW b, Sound(b), HasKings(b), AllIs(b)
  PROVE  UndoNull(MoveNull(b)) = b /\ LastUndo(MoveNull(b)) = NullOf(b)
<1>1. PICK o, u : o = MoveNull(b) /\ u = NullOf(b)
  OBVIOUS
<1>2. /\ Sound(o) /\ SameMen(b, o) /\ o.stm = Opposite(b.stm) /\ o.rootIx = b.rootIx
      /\ o.stack = Append(b.stack, u) /\ u \in UndoSet
  BY <1>1, NullSound
<1>3. SameSquares(b, o) /\ u.copy = b.copy
  BY <1>1, <1>2 DEF SameSquares, SameMen, NullOf
<1>4. Update([PopStack(FlipStm(o)) EXCEPT !.copy = u.copy]) = b
  BY <1>2, <1>3, PopSound
<1>5. LastUndo(o) = u
  <2>1. b.stack \in Seq(UndoSet)
    BY DEF Sound, BoardSet
  <2> QED
    BY <1>2, <2>1, LastOf DEF LastUndo
<1> QED
  BY <1>1, <1>4, <1>5, Zenon DEF UndoNull

-----------------------------------------------------------------------------
(* What holds of the board of a game. *)

\* The castling rights, the en passant square and the pawns are where they should be.
RightsHold(b) == \A i \in b.copy.flags : CastleOk(b, i)

EpHolds(b) ==
  b.copy.epSq # NoSquare =>
    /\ b.copy.epSq \in Squares /\ RankSd(b.copy.epSq, b.stm) = 5 /\ b.square[b.copy.epSq] = None
    /\ b.copy.epSq - PawnInc(b.stm) \in PieceSd(b, Pawn, Opposite(b.stm))
    /\ PawnIsAttacked(b, b.copy.epSq, b.stm)

PawnsInside(b) == \A sq \in b.piece[Pawn] : Rank(sq) \in 1..6

Good(b) ==
  /\ Sound(b) /\ KeysAgree(b) /\ HasKings(b) /\ AllIs(b)
  /\ RightsHold(b) /\ EpHolds(b) /\ PawnsInside(b) /\ IsLegal(b)

\* How a pawn moves.
PawnShape(b, mv) ==
  mv.pc = Pawn =>
    /\ IsPromotion(mv.to) <=> mv.pp # None
    /\ Distance(mv.to, mv.fr) = 2 =>
         /\ RankSd(mv.fr, b.stm) = 1 /\ mv.to = mv.fr + 2 * PawnInc(b.stm)
         /\ b.square[mv.fr + PawnInc(b.stm)] = None

Generated(b) == UNION {GenPseudos(b)[i] : i \in DOMAIN GenPseudos(b)}

-----------------------------------------------------------------------------
(* The geometry of the tables: lines are straight, and go both ways. *)

LEMMA On88 ==
  ASSUME NEW sq \in Squares
  PROVE  /\ File(sq) \in 0..7 /\ Rank(sq) \in 0..7 /\ sq = 8 * File(sq) + Rank(sq)
         /\ To88(sq) = 16 * File(sq) + Rank(sq) /\ To88(sq) \in 0..127 /\ Valid88(To88(sq))
         /\ From88(To88(sq)) = sq
<1>1. PICK f \in 0..7, r \in 0..7 : f = sq \div 8 /\ r = sq % 8 /\ sq = 8 * f + r
  <2>1. sq \in 0..63
    BY DEF Squares
  <2>2. sq \div 8 \in 0..7 /\ sq % 8 \in 0..7 /\ sq = 8 * (sq \div 8) + (sq % 8)
    BY <2>1
  <2> QED
    BY <2>2
<1>2. File(sq) = f /\ Rank(sq) = r /\ To88(sq) = 16 * f + r
  BY <1>1 DEF File, Rank, To88
<1>3. PICK s : s = 16 * f + r
  OBVIOUS
<1>4. s \in 0..127 /\ s % 16 = r /\ s % 8 = r
  BY <1>3
<1>5. Valid88(s)
  BY <1>4 DEF Valid88
<1>6. From88(s) = sq
  <2>1. s + r = 2 * sq
    BY <1>1, <1>3
  <2>2. (2 * sq) \div 2 = sq
    BY DEF Squares
  <2> QED
    BY <1>4, <2>1, <2>2 DEF From88
<1> QED
  BY <1>1, <1>2, <1>3, <1>4, <1>5, <1>6

LEMMA Off88 ==
  ASSUME NEW s \in Int, Valid88(s)
  PROVE  From88(s) \in Squares /\ To88(From88(s)) = s
<1>1. s \in 0..127 /\ s % 16 < 8
  BY DEF Valid88
<1>2. PICK f \in 0..7, r \in 0..7 : s = 16 * f + r /\ s % 8 = r
  <2>1. s \div 16 \in 0..7 /\ s % 16 \in 0..7 /\ s = 16 * (s \div 16) + (s % 16) /\ s % 8 = s % 16
    BY <1>1
  <2> QED
    BY <2>1
<1>3. PICK q : q = 8 * f + r
  OBVIOUS
<1>4. q \in Squares /\ q \div 8 = f
  BY <1>3 DEF Squares
<1>5. From88(s) = q
  <2>1. s + r = 2 * q /\ q \in Int
    BY <1>2, <1>3
  <2>2. (2 * q) \div 2 = q
    BY <2>1
  <2> QED
    BY <1>2, <2>1, <2>2 DEF From88
<1>6. To88(q) = s
  BY <1>2, <1>3, <1>4 DEF To88, File
<1> QED
  BY <1>4, <1>5, <1>6

\* A square is where it is on the larger board.
LEMMA Same88 ==
  ASSUME NEW s \in Squares, NEW t \in Squares, To88(s) = To88(t)
  PROVE  s = t
  BY On88

LEMMA LeapIs ==
  ASSUME NEW sq \in Squares, NEW incs \in SUBSET Int, NEW t
  PROVE  t \in Leaps(sq, incs) <=> t \in Squares /\ \E i \in incs : To88(t) = To88(sq) + i
<1>1. To88(sq) \in Int
  BY On88
<1>2. ASSUME t \in Leaps(sq, incs)
      PROVE  t \in Squares /\ \E i \in incs : To88(t) = To88(sq) + i
  <2>1. PICK i \in incs : Valid88(To88(sq) + i) /\ t = From88(To88(sq) + i)
    BY <1>2 DEF Leaps
  <2> QED
    BY <1>1, <2>1, Off88
<1>3. ASSUME t \in Squares, NEW i \in incs, To88(t) = To88(sq) + i
      PROVE  t \in Leaps(sq, incs)
  <2>1. Valid88(To88(sq) + i) /\ t = From88(To88(sq) + i)
    BY <1>3, On88
  <2> QED
    BY <2>1 DEF Leaps
<1> QED
  BY <1>2, <1>3

LEMMA LineIs ==
  ASSUME NEW sq \in Squares, NEW i \in Int, NEW t
  PROVE  t \in Line(sq, i) <=> t \in Squares /\ \E k \in 1..7 : To88(t) = To88(sq) + k * i
<1>1. To88(sq) \in Int /\ \A k \in 1..7 : k * i \in Int
  BY On88
<1>2. ASSUME t \in Line(sq, i)
      PROVE  t \in Squares /\ \E k \in 1..7 : To88(t) = To88(sq) + k * i
  <2>1. PICK k \in 1..7 : Valid88(To88(sq) + k * i) /\ t = From88(To88(sq) + k * i)
    BY <1>2 DEF Line
  <2>2. PICK m \in Int : m = k * i
    BY <1>1
  <2>3. Valid88(To88(sq) + m) /\ t = From88(To88(sq) + m)
    BY <2>1, <2>2
  <2>4. t \in Squares /\ To88(t) = To88(sq) + m
    BY <1>1, <2>2, <2>3, Off88
  <2> QED
    BY <2>2, <2>4
<1>3. ASSUME t \in Squares, NEW k \in 1..7, To88(t) = To88(sq) + k * i
      PROVE  t \in Line(sq, i)
  <2>1. Valid88(To88(sq) + k * i) /\ t = From88(To88(sq) + k * i)
    BY <1>3, On88
  <2> QED
    BY <2>1 DEF Line
<1> QED
  BY <1>2, <1>3

\* What each increment is.
LEMMA Incs ==
  /\ QueenInc = {-17, -16, -15, -1, 1, 15, 16, 17} /\ QueenInc \subseteq Int
  /\ BishopInc \subseteq QueenInc /\ RookInc \subseteq QueenInc
  /\ KnightInc \subseteq Int /\ \A i \in KnightInc : -i \in KnightInc
  /\ \A i \in QueenInc : -i \in QueenInc /\ i # 0
  /\ \A i \in BishopInc : -i \in BishopInc
  /\ \A i \in RookInc : -i \in RookInc
<1>1. \A i : i \in QueenInc <=> i \in {-17, -16, -15, -1, 1, 15, 16, 17}
  BY DEF QueenInc, BishopInc, RookInc
<1>2. QueenInc = {-17, -16, -15, -1, 1, 15, 16, 17}
  BY <1>1, Zenon
<1>3. QueenInc \subseteq Int
  BY <1>2
<1>4. BishopInc \subseteq QueenInc /\ RookInc \subseteq QueenInc
  BY DEF QueenInc
<1>5. KnightInc \subseteq Int
  BY DEF KnightInc
<1>6. \A i \in KnightInc : -i \in KnightInc
  BY DEF KnightInc
<1>7. \A i \in QueenInc : -i \in QueenInc /\ i # 0
  BY <1>1
<1>8. \A i \in BishopInc : -i \in BishopInc
  BY DEF BishopInc
<1>9. \A i \in RookInc : -i \in RookInc
  BY DEF RookInc
<1> QED
  BY <1>2, <1>3, <1>4, <1>5, <1>6, <1>7, <1>8, <1>9

LEMMA OneDirection ==
  ASSUME NEW i \in QueenInc, NEW j \in QueenInc, NEW k \in 1..7, NEW m \in 1..7, k * i = m * j
  PROVE  i = j /\ k = m
<1> USE Incs
<1>1. CASE i = -17
  BY <1>1
<1>2. CASE i = -16
  BY <1>2
<1>3. CASE i = -15
  BY <1>3
<1>4. CASE i = -1
  BY <1>4
<1>5. CASE i = 1
  BY <1>5
<1>6. CASE i = 15
  BY <1>6
<1>7. CASE i = 16
  BY <1>7
<1>8. CASE i = 17
  BY <1>8
<1> QED
  BY <1>1, <1>2, <1>3, <1>4, <1>5, <1>6, <1>7, <1>8

LEMMA TableIs ==
  ASSUME NEW fr \in Squares, NEW to \in Squares
  PROVE  /\ \A i \in QueenInc : LineTable[fr][i] = Line(fr, i)
         /\ \A i \in QueenInc : to \in Line(fr, i) =>
              /\ DeltaInc[fr][to] = i /\ i # 0
              /\ Between[fr][to] = {s \in Line(fr, i) : to \in Line(s, i)}
         /\ (\A i \in QueenInc : to \notin Line(fr, i)) => Between[fr][to] = {}
<1>1. \A s \in Squares : \A i \in QueenInc : LineTable[s][i] = Line(s, i)
  BY DEF LineTable
<1>2. DeltaInc[fr][to] = IF \E i \in QueenInc : to \in LineTable[fr][i]
                         THEN CHOOSE i \in QueenInc : to \in LineTable[fr][i] ELSE 0
  BY DEF DeltaInc
<1>3. Between[fr][to] = IF DeltaInc[fr][to] = 0 THEN {}
                        ELSE {s \in LineTable[fr][DeltaInc[fr][to]] : to \in LineTable[s][DeltaInc[fr][to]]}
  BY DEF Between
<1>4. ASSUME NEW i \in QueenInc, to \in Line(fr, i)
      PROVE  DeltaInc[fr][to] = i /\ i # 0
  <2>1. PICK j : j = CHOOSE x \in QueenInc : to \in LineTable[fr][x]
    OBVIOUS
  <2>2. DeltaInc[fr][to] = j /\ j \in QueenInc /\ to \in Line(fr, j)
    <3>1. \E x \in QueenInc : to \in LineTable[fr][x]
      BY <1>1, <1>4
    <3>2. j \in QueenInc /\ to \in LineTable[fr][j]
      BY <2>1, <3>1, Zenon
    <3> QED
      BY <1>1, <1>2, <2>1, <3>1, <3>2
  <2>3. i \in Int /\ j \in Int
    BY <2>2, Incs
  <2>4. PICK k \in 1..7 : To88(to) = To88(fr) + k * i
    BY <1>4, <2>3, LineIs
  <2>5. PICK m \in 1..7 : To88(to) = To88(fr) + m * j
    BY <2>2, <2>3, LineIs
  <2>6. k * i = m * j
    <3>1. PICK x \in Int, y \in Int : x = k * i /\ y = m * j
      BY <2>3
    <3> QED
      BY <2>4, <2>5, <3>1, On88
  <2> QED
    BY <2>2, <2>6, OneDirection, Incs
<1>5. ASSUME NEW i \in QueenInc, to \in Line(fr, i)
      PROVE  Between[fr][to] = {s \in Line(fr, i) : to \in Line(s, i)}
  <2>1. DeltaInc[fr][to] = i /\ i # 0
    BY <1>4, <1>5
  <2>2. Between[fr][to] = {s \in LineTable[fr][i] : to \in LineTable[s][i]}
    BY <1>3, <2>1
  <2>3. \A s \in Line(fr, i) : s \in Squares
    BY LineIs, Incs
  <2> QED
    BY <1>1, <2>2, <2>3
<1>6. ASSUME \A i \in QueenInc : to \notin Line(fr, i)
      PROVE  Between[fr][to] = {}
  <2>1. DeltaInc[fr][to] = 0
    BY <1>1, <1>2, <1>6
  <2> QED
    BY <1>3, <2>1
<1> QED
  BY <1>1, <1>4, <1>5, <1>6

LEMMA LineBack ==
  ASSUME NEW s \in Squares, NEW t \in Squares, NEW i \in QueenInc
  PROVE  /\ -i \in QueenInc /\ -(-i) = i
         /\ t \in Line(s, i) => s \in Line(t, -i)
         /\ s \in Line(t, -i) => t \in Line(s, i)
<1>1. i \in Int /\ -i \in QueenInc /\ -(-i) = i
  BY Incs
<1>2. To88(s) \in Int /\ To88(t) \in Int
  BY On88
<1>3. ASSUME t \in Line(s, i)
      PROVE  s \in Line(t, -i)
  <2>1. PICK k \in 1..7 : To88(t) = To88(s) + k * i
    BY <1>1, <1>3, LineIs
  <2>2. To88(s) = To88(t) + k * (-i)
    BY <1>1, <1>2, <2>1
  <2> QED
    BY <1>1, <2>2, LineIs
<1>4. ASSUME s \in Line(t, -i)
      PROVE  t \in Line(s, i)
  <2>1. PICK k \in 1..7 : To88(s) = To88(t) + k * (-i)
    BY <1>1, <1>4, LineIs
  <2>2. To88(t) = To88(s) + k * i
    BY <1>1, <1>2, <2>1
  <2> QED
    BY <1>1, <2>2, LineIs
<1> QED
  BY <1>1, <1>3, <1>4

\* The squares between two squares are the same from either.
LEMMA BetweenBack ==
  ASSUME NEW a \in Squares, NEW z \in Squares
  PROVE  Between[a][z] \subseteq Between[z][a] /\ Between[a][z] \subseteq Squares
<1> SUFFICES ASSUME NEW s \in Between[a][z]
             PROVE  s \in Between[z][a] /\ s \in Squares
  OBVIOUS
<1>1. PICK i \in QueenInc : z \in Line(a, i)
  BY TableIs
<1>2. s \in Line(a, i) /\ z \in Line(s, i)
  BY <1>1, TableIs
<1>3. s \in Squares
  BY <1>2, LineIs, Incs
<1>4. -i \in QueenInc /\ s \in Line(z, -i) /\ a \in Line(s, -i) /\ a \in Line(z, -i)
  BY <1>1, <1>2, <1>3, LineBack
<1>5. s \in Between[z][a]
  BY <1>4, TableIs
<1> QED
  BY <1>3, <1>5

LEMMA InBetween ==
  ASSUME NEW a \in Squares, NEW s \in Squares, NEW z \in Squares, NEW i \in QueenInc,
         s \in Line(a, i), z \in Line(s, i), z \in Line(a, i)
  PROVE  s \in Between[a][z]
  BY TableIs

\* Nothing lies between a square and one that a knight or a pawn gives check from.
LEMMA NoneBetween ==
  ASSUME NEW a \in Squares, NEW z \in Squares, NEW n \in Int, To88(z) = To88(a) + n,
         n \in KnightInc \/ n \in QueenInc
  PROVE  Between[a][z] = {}
<1>1. To88(a) \in Int /\ To88(z) \in Int
  BY On88
<1>2. CASE n \in QueenInc
  <2>1. z \in Line(a, n)
    <3>1. To88(z) = To88(a) + 1 * n
      OBVIOUS
    <3> QED
      BY <3>1, LineIs
  <2>2. ASSUME NEW s \in Line(a, n), z \in Line(s, n)
        PROVE  FALSE
    <3>1. PICK k \in 1..7 : s \in Squares /\ To88(s) = To88(a) + k * n
      BY LineIs
    <3>2. PICK m \in 1..7 : To88(z) = To88(s) + m * n
      BY <2>2, <3>1, LineIs
    <3>3. n = k * n + m * n
      <4>1. PICK x \in Int, y \in Int : x = k * n /\ y = m * n
        OBVIOUS
      <4> QED
        BY <1>1, <3>1, <3>2, <4>1
    <3>4. n = (k + m) * n /\ n # 0
      BY <1>2, <3>3, Incs
    <3> QED
      BY <1>2, <3>4, Incs
  <2> QED
    BY <1>2, <2>1, <2>2, TableIs
<1>3. CASE n \in KnightInc
  <2>1. ASSUME NEW i \in QueenInc, z \in Line(a, i)
        PROVE  FALSE
    <3>0. i \in Int
      BY Incs
    <3>1. PICK k \in 1..7 : To88(z) = To88(a) + k * i
      BY <2>1, <3>0, LineIs
    <3>2. n = k * i
      <4>1. PICK x \in Int : x = k * i
        BY <3>0
      <4> QED
        BY <1>1, <3>1, <4>1
    <3>3. i \in {-17, -16, -15, -1, 1, 15, 16, 17}
      BY Incs
    <3> QED
      BY <1>3, <3>2, <3>3 DEF KnightInc
  <2> QED
    BY <2>1, TableIs
<1> QED
  BY <1>2, <1>3

LEMMA AttackIs ==
  ASSUME NEW pc \in Knight..King, NEW fr \in Squares
  PROVE  /\ PieceAttacks[pc][fr] \subseteq Squares
         /\ \A to \in PieceAttacks[pc][fr] : fr \in PieceAttacks[pc][to]
         /\ pc = King => \A to \in PieceAttacks[pc][fr] : Distance(to, fr) # 16
<1>1. \A s \in Squares :
        /\ PieceAttacks[Knight][s] = Leaps(s, KnightInc) /\ PieceAttacks[Bishop][s] = Lines(s, BishopInc)
        /\ PieceAttacks[Rook][s] = Lines(s, RookInc) /\ PieceAttacks[Queen][s] = Lines(s, QueenInc)
        /\ PieceAttacks[King][s] = Leaps(s, QueenInc)
  BY Numbers DEF PieceAttacks
<1>2. ASSUME NEW incs \in SUBSET Int, \A i \in incs : -i \in incs, NEW s \in Squares, NEW t \in Leaps(s, incs)
      PROVE  t \in Squares /\ s \in Leaps(t, incs)
  <2>1. PICK i \in incs : t \in Squares /\ To88(t) = To88(s) + i
    BY LeapIs
  <2>2. -i \in incs /\ To88(s) = To88(t) + (-i)
    BY <1>2, <2>1, On88
  <2> QED
    BY <2>1, <2>2, LeapIs
<1>3. ASSUME NEW incs \in SUBSET QueenInc, \A i \in incs : -i \in incs, NEW s \in Squares, NEW t \in Lines(s, incs)
      PROVE  t \in Squares /\ s \in Lines(t, incs)
  <2>1. PICK i \in incs : t \in LineTable[s][i]
    BY DEF Lines
  <2>2. LineTable[s][i] = Line(s, i) /\ i \in QueenInc /\ i \in Int
    BY TableIs, Incs
  <2>3. t \in Line(s, i)
    BY <2>1, <2>2
  <2>4. t \in Squares
    BY <2>2, <2>3, LineIs
  <2>5. s \in Line(t, -i) /\ -i \in incs /\ -i \in QueenInc
    BY <1>3, <2>2, <2>3, <2>4, LineBack
  <2>6. LineTable[t][-i] = Line(t, -i)
    BY <2>4, <2>5, TableIs
  <2> QED
    BY <2>4, <2>5, <2>6 DEF Lines
<1>4. pc = Knight \/ pc = Bishop \/ pc = Rook \/ pc = Queen \/ pc = King
  BY Numbers
<1>5. \A to \in PieceAttacks[pc][fr] : to \in Squares /\ fr \in PieceAttacks[pc][to]
  <2>1. CASE pc = Knight
    BY <1>1, <1>2, <2>1, Incs
  <2>2. CASE pc = Bishop
    BY <1>1, <1>3, <2>2, Incs
  <2>3. CASE pc = Rook
    BY <1>1, <1>3, <2>3, Incs
  <2>4. CASE pc = Queen
    BY <1>1, <1>3, <2>4, Incs
  <2>5. CASE pc = King
    BY <1>1, <1>2, <2>5, Incs
  <2> QED
    BY <1>4, <2>1, <2>2, <2>3, <2>4, <2>5
<1>6. ASSUME pc = King, NEW to \in PieceAttacks[pc][fr]
      PROVE  Distance(to, fr) # 16
  <2>1. PICK i \in QueenInc : to \in Squares /\ To88(to) = To88(fr) + i
    BY <1>1, <1>6, LeapIs, Incs
  <2>2. PICK f \in 0..7, r \in 0..7, g \in 0..7, q \in 0..7 :
          /\ fr = 8 * f + r /\ To88(fr) = 16 * f + r /\ to = 8 * g + q /\ To88(to) = 16 * g + q
    BY <2>1, On88
  <2>3. i \in {-17, -16, -15, -1, 1, 15, 16, 17}
    BY Incs
  <2>4. 16 * g + q = 16 * f + r + i
    BY <2>1, <2>2
  <2>5. g - f \in -1..1 /\ q - r \in -1..1
    BY <2>3, <2>4
  <2>6. to - fr = 8 * (g - f) + (q - r) /\ to \in Int /\ fr \in Int
    BY <2>2
  <2>7. to - fr # 16 /\ fr - to # 16
    BY <2>5, <2>6
  <2> QED
    BY <2>7 DEF Distance
<1> QED
  BY <1>5, <1>6

LEMMA PieceTable ==
  ASSUME NEW pc \in Knight..King, NEW fr \in Squares
  PROVE  \/ pc = Knight /\ PieceAttacks[pc][fr] = Leaps(fr, KnightInc)
         \/ pc = Bishop /\ PieceAttacks[pc][fr] = Lines(fr, BishopInc)
         \/ pc = Rook /\ PieceAttacks[pc][fr] = Lines(fr, RookInc)
         \/ pc = Queen /\ PieceAttacks[pc][fr] = Lines(fr, QueenInc)
         \/ pc = King /\ PieceAttacks[pc][fr] = Leaps(fr, QueenInc)
<1>1. /\ PieceAttacks[Knight][fr] = Leaps(fr, KnightInc) /\ PieceAttacks[Bishop][fr] = Lines(fr, BishopInc)
      /\ PieceAttacks[Rook][fr] = Lines(fr, RookInc) /\ PieceAttacks[Queen][fr] = Lines(fr, QueenInc)
      /\ PieceAttacks[King][fr] = Leaps(fr, QueenInc)
  BY Numbers DEF PieceAttacks
<1>2. pc = Knight \/ pc = Bishop \/ pc = Rook \/ pc = Queen \/ pc = King
  BY Numbers
<1> QED
  BY <1>1, <1>2, Zenon

\* What a piece attacks past the blockers is what it attacks with an empty line.
LEMMA AttacksFromIs ==
  ASSUME NEW b, NEW pc \in Knight..King, NEW fr \in Squares, NEW to \in PieceAttacksFrom(b, pc, fr)
  PROVE  PieceAttack(b, pc, fr, to)
<1>1. to \in PieceAttacks[pc][fr] /\ \A s \in b.all \cap Blockers[pc][fr] : to \notin Behind[fr][s]
  BY DEF PieceAttacksFrom
<1>2. to \in Squares
  BY <1>1, AttackIs
<1>3. Blockers[pc][fr] = {s \in PieceAttacks[pc][fr] : PieceAttacks[pc][fr] \cap Behind[fr][s] # {}}
  BY DEF Blockers
<1>4. ASSUME NEW incs \in SUBSET QueenInc, PieceAttacks[pc][fr] = Lines(fr, incs), NEW s \in b.all \cap Between[fr][to]
      PROVE  FALSE
  <2>1. PICK i \in incs : to \in LineTable[fr][i]
    BY <1>1, <1>4 DEF Lines
  <2>2. i \in QueenInc /\ to \in Line(fr, i) /\ LineTable[fr][i] = Line(fr, i)
    BY <1>2, <2>1, TableIs
  <2>3. s \in Line(fr, i) /\ to \in Line(s, i)
    BY <1>2, <1>4, <2>2, TableIs
  <2>4. s \in Squares
    BY <2>2, <2>3, LineIs, Incs
  <2>5. DeltaInc[fr][s] = i /\ i # 0 /\ LineTable[s][i] = Line(s, i)
    BY <2>2, <2>3, <2>4, TableIs
  <2>6. to \in Behind[fr][s]
    BY <2>3, <2>4, <2>5 DEF Behind
  <2>7. s \in PieceAttacks[pc][fr]
    BY <1>4, <2>1, <2>2, <2>3 DEF Lines
  <2>8. s \in Blockers[pc][fr]
    BY <1>1, <1>3, <2>6, <2>7
  <2> QED
    BY <1>1, <1>4, <2>6, <2>8
<1>5. ASSUME NEW incs, incs = KnightInc \/ incs = QueenInc, PieceAttacks[pc][fr] = Leaps(fr, incs)
      PROVE  Between[fr][to] = {}
  <2>1. PICK i \in incs : To88(to) = To88(fr) + i
    BY <1>1, <1>5, LeapIs, Incs
  <2> QED
    BY <1>2, <1>5, <2>1, NoneBetween, Incs
<1>6. \/ pc = Knight /\ PieceAttacks[pc][fr] = Leaps(fr, KnightInc)
      \/ pc = Bishop /\ PieceAttacks[pc][fr] = Lines(fr, BishopInc)
      \/ pc = Rook /\ PieceAttacks[pc][fr] = Lines(fr, RookInc)
      \/ pc = Queen /\ PieceAttacks[pc][fr] = Lines(fr, QueenInc)
      \/ pc = King /\ PieceAttacks[pc][fr] = Leaps(fr, QueenInc)
  BY PieceTable
<1>7. b.all \cap Between[fr][to] = {}
  BY <1>4, <1>5, <1>6, Incs
<1> QED
  BY <1>1, <1>7 DEF PieceAttack, LineIsEmpty

LEMMA PawnAttackIs ==
  ASSUME NEW sq \in Squares, NEW t
  PROVE  /\ t \in PawnAttacks[White][sq] <=> t \in Squares /\ \E i \in {-15, 17} : To88(t) = To88(sq) + i
         /\ t \in PawnAttacks[Black][sq] <=> t \in Squares /\ \E i \in {-17, 15} : To88(t) = To88(sq) + i
<1>1. White \in Sides /\ Black \in Sides /\ White + 1 = 1 /\ Black + 1 = 2
  BY Numbers
<1>2. PawnInc88[1] = {-15, 17} /\ PawnInc88[2] = {-17, 15}
  BY DEF PawnInc88
<1>3. PawnAttacks[White][sq] = Leaps(sq, PawnInc88[1]) /\ PawnAttacks[Black][sq] = Leaps(sq, PawnInc88[2])
  BY <1>1 DEF PawnAttacks
<1>4. PICK X, Y : X = {-15, 17} /\ Y = {-17, 15}
  OBVIOUS
<1>5. X \in SUBSET Int /\ Y \in SUBSET Int
  BY <1>4
<1>6. /\ t \in Leaps(sq, X) <=> t \in Squares /\ \E i \in X : To88(t) = To88(sq) + i
      /\ t \in Leaps(sq, Y) <=> t \in Squares /\ \E i \in Y : To88(t) = To88(sq) + i
  BY <1>5, LeapIs
<1> QED
  BY <1>2, <1>3, <1>4, <1>6, Zenon

-----------------------------------------------------------------------------
(* No move takes a king. *)

LEMMA StmOf ==
  ASSUME NEW b, Sound(b)
  PROVE  b.stm \in Sides /\ Opposite(b.stm) \in Sides /\ Opposite(b.stm) # b.stm
         /\ Opposite(Opposite(b.stm)) = b.stm /\ (b.stm = White \/ b.stm = Black)
<1>1. b.stm \in Sides
  BY DEF Sound, BoardSet
<1> QED
  BY <1>1, Opposites DEF Sides

LEMMA KingOf ==
  ASSUME NEW b, Sound(b), NEW to \in Squares, b.square[to] = King, to \notin b.side[b.stm]
  PROVE  b.king[Opposite(b.stm)] = to
<1>1. b.stm \in Sides /\ Opposite(b.stm) \in Sides
  BY StmOf, SMTT(30)
<1>2. to \in b.side[Opposite(b.stm)]
  BY <1>1, EmptyOn, Numbers, SMTT(30)
<1>3. to \in PieceSd(b, King, Opposite(b.stm))
  BY <1>1, <1>2, ManOn, Numbers
<1> QED
  BY <1>1, <1>3 DEF Sound, MenAgree, KingsAgree

LEMMA KingIsSafe ==
  ASSUME NEW b, Sound(b), IsLegal(b), NEW pc \in Pieces, NEW fr \in PieceSd(b, pc, b.stm),
         NEW to \in Squares, to \notin b.side[b.stm],
         \/ pc = Pawn /\ fr \in PawnAttacks[Opposite(b.stm)][to]
         \/ pc \in {Knight, King} /\ to \in PieceAttacks[pc][fr]
         \/ pc \in Bishop..Queen /\ to \in PieceAttacks[pc][fr] /\ LineIsEmpty(b, fr, to)
  PROVE  b.square[to] # King
<1> SUFFICES ASSUME b.square[to] = King
             PROVE  FALSE
  OBVIOUS
<1>1. b.king[Opposite(b.stm)] = to
  BY KingOf
<1>2. ~IsAttacked(b, to, b.stm)
  BY <1>1 DEF IsLegal
<1>3. fr \in Squares
  BY ManOn, StmOf
<1>4. CASE pc = Pawn /\ fr \in PawnAttacks[Opposite(b.stm)][to]
  BY <1>2, <1>4 DEF IsAttacked
<1>5. CASE pc = Knight /\ to \in PieceAttacks[pc][fr]
  <2>0. pc \in Knight..King
    BY <1>5, Numbers
  <2>1. fr \in PieceAttacks[Knight][to]
    BY <1>3, <1>5, <2>0, AttackIs
  <2> QED
    BY <1>2, <1>5, <2>1 DEF IsAttacked
<1>6. CASE pc = King /\ to \in PieceAttacks[pc][fr]
  <2>0. pc \in Knight..King
    BY <1>6, Numbers
  <2>1. fr \in PieceAttacks[King][to]
    BY <1>3, <1>6, <2>0, AttackIs
  <2> QED
    BY <1>2, <1>6, <2>1 DEF IsAttacked
<1>7. CASE pc \in Bishop..Queen /\ to \in PieceAttacks[pc][fr] /\ LineIsEmpty(b, fr, to)
  <2>0. pc \in Knight..King
    BY <1>7, Numbers
  <2>1. fr \in PieceAttacks[pc][to]
    BY <1>3, <1>7, <2>0, AttackIs
  <2>2. fr \in SliderPseudoAttacksTo(b, b.stm, to)
    BY <1>7, <2>1 DEF SliderPseudoAttacksTo
  <2> QED
    BY <1>2, <1>7, <2>2 DEF IsAttacked
<1> QED
  BY <1>4, <1>5, <1>6, <1>7

-----------------------------------------------------------------------------
(* What the generators add fits the board. *)

\* How a man gets there: a pawn takes, or steps, or steps twice; a piece attacks
\* the square, or castles.
PawnReaches(b, fr, to) ==
  \/ fr \in PawnAttacks[Opposite(b.stm)][to] /\ (to = b.copy.epSq \/ b.square[to] # None)
  \/ to = fr + PawnInc(b.stm) /\ b.square[to] = None
  \/ /\ to = fr + 2 * PawnInc(b.stm) /\ RankSd(fr, b.stm) = 1
     /\ b.square[fr + PawnInc(b.stm)] = None /\ b.square[to] = None

Castles(b, mv) ==
  /\ mv.pc = King /\ mv.pp = None /\ ~IsInCheck(b)
  /\ \E wg \in {0, 1} : /\ CanCastle(b, b.stm, wg)
                        /\ mv.fr = Castle(CastleIndex(b.stm, wg)).KingFr
                        /\ mv.to = Castle(CastleIndex(b.stm, wg)).KingTo

Reaches(b, mv) ==
  IF mv.pc = Pawn THEN PawnReaches(b, mv.fr, mv.to)
  ELSE PieceAttack(b, mv.pc, mv.fr, mv.to) \/ Castles(b, mv)

OkMoves(b) == {mv \in MoveSet : Fits(b, mv) /\ PawnShape(b, mv) /\ Reaches(b, mv)}

LEMMA EmptyIs ==
  ASSUME NEW b, Sound(b), AllIs(b), NEW sq \in Squares
  PROVE  sq \in Empty(b) <=> b.square[sq] = None
<1>1. \A sd \in Sides : sd = White \/ sd = Black
  BY DEF Sides
<1>2. sq \in Empty(b) <=> \A sd \in Sides : sq \notin b.side[sd]
  BY <1>1 DEF Empty, AllIs, Sides
<1> QED
  BY <1>2, EmptyOn

\* The moves of the pieces.
LEMMA PieceMvOk ==
  ASSUME NEW b, Sound(b), NEW pc \in Knight..King, NEW fr \in PieceSd(b, pc, b.stm),
         NEW to \in Squares, to \notin b.side[b.stm], b.square[to] # King, PieceAttack(b, pc, fr, to)
  PROVE  PieceMv(b, fr, to) \in OkMoves(b)
<1>1. b.stm \in Sides /\ pc \in Pieces /\ pc # Pawn
  BY StmOf, Numbers
<1>2. fr \in Squares /\ b.square[fr] = pc /\ b.square[to] \in 0..6
  BY <1>1, ManOn, EmptyOn
<1>3. PICK mv : mv = PieceMv(b, fr, to)
  OBVIOUS
<1>4. mv.fr = fr /\ mv.to = to /\ mv.pc = pc /\ mv.cp = b.square[to] /\ mv.pp = None
  BY <1>2, <1>3 DEF PieceMv, Mv
<1>5. mv \in MoveSet
  BY <1>1, <1>2, <1>3, Numbers DEF PieceMv, Mv, MoveSet
<1>6. ~IsEnPassant(b, mv) /\ ~IsCastling(mv)
  <2>1. Distance(to, fr) # 16 \/ pc # King
    BY <1>2, AttackIs DEF PieceAttack
  <2> QED
    BY <1>1, <1>4, <2>1 DEF IsEnPassant, IsCastling
<1>7. Fits(b, mv)
  BY <1>1, <1>4, <1>5, <1>6 DEF Fits
<1>8. PawnShape(b, mv) /\ Reaches(b, mv)
  BY <1>1, <1>4 DEF PawnShape, Reaches
<1> QED
  BY <1>3, <1>5, <1>7, <1>8 DEF OkMoves

\* The moves of a pawn to a square, promotions included.
LEMMA PawnMvsOk ==
  ASSUME NEW b, Sound(b), NEW fr \in PieceSd(b, Pawn, b.stm),
         NEW to \in Squares, to \notin b.side[b.stm], b.square[to] # King, to # b.copy.epSq,
         PawnReaches(b, fr, to),
         Distance(to, fr) = 2 => /\ RankSd(fr, b.stm) = 1 /\ to = fr + 2 * PawnInc(b.stm)
                                 /\ b.square[fr + PawnInc(b.stm)] = None
  PROVE  PawnMvs(b, fr, to) \in SUBSET OkMoves(b)
<1> SUFFICES ASSUME NEW mv \in PawnMvs(b, fr, to)
             PROVE  mv \in OkMoves(b)
  OBVIOUS
<1>1. b.stm \in Sides /\ Pawn \in Pieces /\ Pawn # King /\ Pawn \in 0..6
  BY StmOf, Numbers
<1>2. fr \in Squares /\ b.square[fr] = Pawn /\ b.square[to] \in 0..6
  BY <1>1, ManOn, EmptyOn
<1>3. PICK pp \in IF IsPromotion(to) THEN Knight..Queen ELSE {None} : mv = Mv(fr, to, Pawn, b.square[to], pp)
  BY DEF PawnMvs
<1>4. mv.fr = fr /\ mv.to = to /\ mv.pc = Pawn /\ mv.cp = b.square[to] /\ mv.pp = pp
  BY <1>3 DEF Mv
<1>5. /\ pp \in 0..6 /\ (pp = None \/ pp \in Knight..Queen) /\ (IsPromotion(to) <=> pp # None)
  <2>1. CASE IsPromotion(to)
    <3>1. pp \in Knight..Queen
      BY <1>3, <2>1
    <3> QED
      BY <3>1, Numbers
  <2>2. CASE ~IsPromotion(to)
    <3>1. pp = None
      BY <1>3, <2>2
    <3> QED
      BY <2>2, <3>1, Numbers
  <2> QED
    BY <2>1, <2>2
<1>6. mv \in MoveSet
  BY <1>1, <1>2, <1>3, <1>5 DEF Mv, MoveSet
<1>7. ~IsEnPassant(b, mv) /\ ~IsCastling(mv)
  BY <1>1, <1>4 DEF IsEnPassant, IsCastling
<1>8. Fits(b, mv)
  BY <1>1, <1>4, <1>5, <1>6, <1>7 DEF Fits
<1>9. PawnShape(b, mv) /\ Reaches(b, mv)
  BY <1>4, <1>5 DEF PawnShape, Reaches
<1> QED
  BY <1>6, <1>8, <1>9 DEF OkMoves

LEMMA EnPassantOk ==
  ASSUME NEW b, Sound(b), EpHolds(b)
  PROVE  AddEnPassant(b, b.stm) \in SUBSET OkMoves(b)
<1> SUFFICES ASSUME NEW mv \in AddEnPassant(b, b.stm)
             PROVE  mv \in OkMoves(b)
  OBVIOUS
<1>1. PICK sq : sq = b.copy.epSq
  OBVIOUS
<1>2. /\ sq \in Squares /\ RankSd(sq, b.stm) = 5 /\ b.square[sq] = None
      /\ sq - PawnInc(b.stm) \in PieceSd(b, Pawn, Opposite(b.stm)) /\ sq # NoSquare
  <2>1. sq # NoSquare
    BY <1>1 DEF AddEnPassant
  <2> QED
    BY <1>1, <2>1 DEF EpHolds
<1>3. PICK fr \in PieceSd(b, Pawn, b.stm) : /\ fr \in PawnAttacks[Opposite(b.stm)][sq]
                                            /\ mv = Mv(fr, sq, Pawn, Pawn, None)
  BY <1>1, <1>2 DEF AddEnPassant
<1>4. b.stm \in Sides /\ (b.stm = White \/ b.stm = Black) /\ Opposite(White) = Black /\ Opposite(Black) = White
  BY StmOf, Numbers DEF Opposite
<1>5. fr \in Squares /\ Pawn \in Pieces /\ Pawn # King /\ Pawn \in 0..6 /\ None \in 0..6 /\ Pawn # None
  BY <1>4, ManOn, Numbers
<1>6. mv.fr = fr /\ mv.to = sq /\ mv.pc = Pawn /\ mv.cp = Pawn /\ mv.pp = None
  BY <1>3 DEF Mv
<1>7. mv \in MoveSet
  BY <1>2, <1>3, <1>5 DEF Mv, MoveSet
<1>8. IsEnPassant(b, mv) /\ ~IsCastling(mv) /\ CapSq(b, mv) = sq - PawnInc(b.stm)
  BY <1>1, <1>5, <1>6 DEF IsEnPassant, IsCastling, CapSq
<1>9. sq \notin b.side[b.stm]
  BY <1>2, <1>4, EmptyOn
<1>10. Fits(b, mv)
  BY <1>2, <1>3, <1>5, <1>6, <1>7, <1>8, <1>9 DEF Fits
<1>11. ~IsPromotion(sq)
  BY <1>2, <1>4, Numbers DEF RankSd, IsPromotion
\* A pawn that takes in passing changes its file.
<1>12. Distance(sq, fr) # 2
  <2>1. PICK f \in 0..7, r \in 0..7, g \in 0..7, q \in 0..7 :
          /\ fr = 8 * f + r /\ To88(fr) = 16 * f + r /\ sq = 8 * g + q /\ To88(sq) = 16 * g + q
    BY <1>2, <1>5, On88
  <2>2. \E i \in {-17, -15, 15, 17} : To88(fr) = To88(sq) + i
    BY <1>2, <1>3, <1>4, PawnAttackIs
  <2>3. f - g \in {-1, 1} /\ r - q \in -1..1
    BY <2>1, <2>2
  <2>4. sq - fr = 8 * (g - f) + (q - r)
    BY <2>1
  <2>5. sq - fr # 2 /\ fr - sq # 2
    BY <2>1, <2>3
  <2> QED
    BY <2>5 DEF Distance
<1>13. PawnShape(b, mv)
  BY <1>6, <1>11, <1>12 DEF PawnShape
<1>14. Reaches(b, mv)
  BY <1>1, <1>3, <1>6 DEF Reaches, PawnReaches
<1> QED
  BY <1>7, <1>10, <1>13, <1>14 DEF OkMoves

LEMMA PushOk ==
  ASSUME NEW b, Sound(b), AllIs(b), EpHolds(b), NEW fr \in PieceSd(b, Pawn, b.stm),
         fr + PawnInc(b.stm) \in Empty(b)
  PROVE  PawnMvs(b, fr, fr + PawnInc(b.stm)) \in SUBSET OkMoves(b)
<1>1. b.stm \in Sides /\ Pawn \in Pieces /\ Pawn # None /\ King # None /\ NoSquare \notin Squares
  BY StmOf, Numbers
<1>2. fr \in Squares /\ PawnInc(b.stm) \in {-1, 1} /\ fr \in b.side[b.stm]
  BY <1>1, ManOn, Numbers DEF PawnInc
<1>3. PICK to : to = fr + PawnInc(b.stm)
  OBVIOUS
<1>4. to \in Squares /\ b.square[to] = None
  <2>1. to \in Squares
    BY <1>3 DEF Empty
  <2> QED
    BY <1>3, <2>1, EmptyIs
<1>5. to \notin b.side[b.stm] /\ b.square[to] # King
  BY <1>1, <1>4, EmptyOn
<1>6. to # b.copy.epSq
  <2>1. ASSUME to = b.copy.epSq
        PROVE  FALSE
    <3>1. to - PawnInc(b.stm) \in PieceSd(b, Pawn, Opposite(b.stm))
      BY <1>1, <1>4, <2>1 DEF EpHolds
    <3>2. fr \in PieceSd(b, Pawn, Opposite(b.stm))
      BY <1>2, <1>3, <3>1, Numbers
    <3>3. fr \in b.side[Opposite(b.stm)]
      BY <3>2 DEF PieceSd
    <3> QED
      BY <1>1, <3>3, ManOn, StmOf
  <2> QED
    BY <2>1
<1>7. Distance(to, fr) # 2
  BY <1>2, <1>3, Numbers DEF Distance
<1>8. PawnMvs(b, fr, to) \in SUBSET OkMoves(b)
  <2>1. PawnReaches(b, fr, to)
    BY <1>3, <1>4 DEF PawnReaches
  <2> QED
    BY <1>4, <1>5, <1>6, <1>7, <2>1, PawnMvsOk
<1> QED
  BY <1>3, <1>8

LEMMA DoubleOk ==
  ASSUME NEW b, Sound(b), AllIs(b), EpHolds(b), NEW fr \in PieceSd(b, Pawn, b.stm),
         RankSd(fr, b.stm) = 1, fr + PawnInc(b.stm) \in Empty(b), fr + 2 * PawnInc(b.stm) \in Empty(b)
  PROVE  PawnMvs(b, fr, fr + 2 * PawnInc(b.stm)) \in SUBSET OkMoves(b)
<1>1. b.stm \in Sides /\ Pawn \in Pieces /\ Pawn # None /\ King # None /\ NoSquare \notin Squares
  BY StmOf, Numbers
<1>2. fr \in Squares /\ PawnInc(b.stm) \in {-1, 1}
  BY <1>1, ManOn, Numbers DEF PawnInc
<1>3. PICK to, mid : to = fr + 2 * PawnInc(b.stm) /\ mid = fr + PawnInc(b.stm)
  OBVIOUS
<1>4. to \in Squares /\ b.square[to] = None /\ b.square[mid] = None
  <2>1. to \in Squares /\ mid \in Squares
    BY <1>3 DEF Empty
  <2> QED
    BY <1>3, <2>1, EmptyIs
<1>5. to \notin b.side[b.stm] /\ b.square[to] # King
  BY <1>1, <1>4, EmptyOn
<1>6. to # b.copy.epSq
  <2>1. ASSUME to = b.copy.epSq
        PROVE  FALSE
    <3>1. RankSd(to, b.stm) = 5
      BY <1>1, <1>4, <2>1 DEF EpHolds
    <3>2. PICK f \in 0..7, r \in 0..7 : fr = 8 * f + r /\ Rank(fr) = r
      BY <1>2, On88
    <3>3. PICK g \in 0..7, q \in 0..7 : to = 8 * g + q /\ Rank(to) = q
      BY <1>4, On88
    <3>4. CASE b.stm = White
      <4>1. r = 1 /\ q = 5 /\ to = fr + 2
        BY <1>3, <3>1, <3>2, <3>3, <3>4 DEF RankSd, PawnInc
      <4> QED
        BY <3>2, <3>3, <4>1
    <3>5. CASE b.stm = Black
      <4>1. r = 6 /\ q = 2 /\ to = fr - 2
        <5>1. White # Black
          BY Numbers
        <5>2. PawnInc(b.stm) = -1 /\ RankSd(fr, b.stm) = 7 - r /\ RankSd(to, b.stm) = 7 - q
          BY <3>2, <3>3, <3>5, <5>1 DEF RankSd, PawnInc
        <5>3. 7 - r = 1 /\ 7 - q = 5 /\ to = fr + 2 * (-1)
          BY <1>3, <3>1, <5>2
        <5> QED
          BY <1>2, <5>3, Numbers
      <4> QED
        BY <3>2, <3>3, <4>1
    <3> QED
      BY <1>1, <3>4, <3>5 DEF Sides
  <2> QED
    BY <2>1
<1>7. PawnMvs(b, fr, to) \in SUBSET OkMoves(b)
  <2>1. PawnReaches(b, fr, to)
    BY <1>3, <1>4 DEF PawnReaches
  <2> QED
    BY <1>3, <1>4, <1>5, <1>6, <2>1, PawnMvsOk
<1> QED
  BY <1>3, <1>7

LEMMA ShiftIs ==
  ASSUME NEW S \in SUBSET Squares, NEW d \in Int, NEW fr
  PROVE  fr \in Shift(S, -d) <=> fr \in Squares /\ fr + d \in S
<1>1. fr \in Shift(S, -d) <=> fr \in Squares /\ \E s \in S : fr = s + (-d)
  BY DEF Shift
<1>2. \A s \in S : s \in Int
  BY Numbers
<1>3. ASSUME fr \in Squares, fr + d \in S
      PROVE  fr = (fr + d) + (-d)
  BY <1>3, Numbers
<1>4. ASSUME NEW s \in S, fr = s + (-d)
      PROVE  fr + d = s
  BY <1>2, <1>4
<1> QED
  BY <1>1, <1>3, <1>4

LEMMA QuietsOk ==
  ASSUME NEW b, Sound(b), AllIs(b), EpHolds(b), NEW ts \in SUBSET Empty(b)
  PROVE  /\ AddPawnQuiets(b, b.stm, ts) \in Seq(SUBSET OkMoves(b))
         /\ AddProms(b, b.stm, ts) \in Seq(SUBSET OkMoves(b))
<1>1. PICK sd, d, e : sd = b.stm /\ d = PawnInc(sd) /\ e = 2 * d
  OBVIOUS
<1>2. sd \in Sides /\ d \in {-1, 1} /\ e \in Int
  BY <1>1, StmOf, Numbers DEF PawnInc
<1>3. ts \in SUBSET Squares /\ Empty(b) \in SUBSET Squares /\ -2 * d = -e
  BY <1>1, <1>2 DEF Empty
<1>4. ASSUME NEW S, S \subseteq PieceSd(b, Pawn, sd) \cap Shift(ts, -d)
      PROVE  PawnStep(b, S, d) \in SUBSET OkMoves(b)
  <2>1. ASSUME NEW fr \in S
        PROVE  PawnMvs(b, fr, fr + d) \in SUBSET OkMoves(b)
    <3>1. fr \in PieceSd(b, Pawn, sd) /\ fr + d \in ts /\ d \in Int
      BY <1>2, <1>3, <1>4, ShiftIs
    <3> QED
      BY <1>1, <3>1, PushOk
  <2> QED
    BY <2>1 DEF PawnStep
<1>5. PICK pawns, free, one, step, two :
        /\ pawns = PieceSd(b, Pawn, sd) /\ free = Shift(Empty(b), -d)
        /\ one = (pawns \cap Shift(ts, -d)) \ RankSet[sd][6]
        /\ step = IF sd = White THEN one \cap free ELSE one
        /\ two = pawns \cap Shift(ts, -2 * d) \cap free \cap RankSet[sd][1]
  OBVIOUS
<1>6. PawnStep(b, step, d) \in SUBSET OkMoves(b)
  <2>1. step \subseteq PieceSd(b, Pawn, sd) \cap Shift(ts, -d)
    BY <1>5
  <2> QED
    BY <1>4, <2>1
<1>7. PawnStep(b, two, e) \in SUBSET OkMoves(b)
  <2>1. ASSUME NEW fr \in two
        PROVE  PawnMvs(b, fr, fr + e) \in SUBSET OkMoves(b)
    <3>1. fr \in PieceSd(b, Pawn, sd) /\ fr \in Shift(ts, -e) /\ fr \in Shift(Empty(b), -d)
          /\ fr \in RankSet[sd][1]
      BY <1>3, <1>5
    <3>2. fr + e \in ts /\ fr + d \in Empty(b) /\ d \in Int
      BY <1>2, <1>3, <3>1, ShiftIs
    <3>3. RankSd(fr, sd) = 1
      <4>1. 1 \in 0..7
        OBVIOUS
      <4>2. RankSet[sd][1] = {sq \in Squares : RankSd(sq, sd) = 1}
        BY <1>2, <4>1 DEF RankSet
      <4> QED
        BY <3>1, <4>2
    <3> QED
      BY <1>1, <3>1, <3>2, <3>3, DoubleOk
  <2> QED
    BY <2>1 DEF PawnStep
<1>8. AddPawnQuiets(b, sd, ts) = <<PawnStep(b, step, d), PawnStep(b, two, e)>>
  BY <1>1, <1>5, Zenon DEF AddPawnQuiets
<1>9. PICK prom : prom = pawns \cap Shift(ts, -d) \cap RankSet[sd][6]
  OBVIOUS
<1>10. PawnStep(b, prom, d) \in SUBSET OkMoves(b)
  <2>1. prom \subseteq PieceSd(b, Pawn, sd) \cap Shift(ts, -d)
    BY <1>5, <1>9
  <2> QED
    BY <1>4, <2>1
<1>11. AddProms(b, sd, ts) = <<PawnStep(b, prom, d)>>
  BY <1>1, <1>5, <1>9, Zenon DEF AddProms
<1>12. PICK O, x, y, z : /\ O = SUBSET OkMoves(b) /\ x = PawnStep(b, step, d)
                         /\ y = PawnStep(b, two, e) /\ z = PawnStep(b, prom, d)
  OBVIOUS
<1>13. x \in O /\ y \in O /\ z \in O
  BY <1>6, <1>7, <1>10, <1>12
<1>14. <<x, y>> \in Seq(O) /\ <<z>> \in Seq(O)
  BY <1>13
<1> QED
  BY <1>1, <1>8, <1>11, <1>12, <1>14, Zenon

\* The pieces go to empty squares and to those of the enemy.
LEMMA PieceMovesOk ==
  ASSUME NEW b, Sound(b), AllIs(b), NEW ts \in SUBSET Empty(b), NEW pcs \in SUBSET (Knight..King)
  PROVE  PieceMoves(b, b.stm, pcs, ts) \in SUBSET OkMoves(b)
<1> SUFFICES ASSUME NEW mv \in PieceMoves(b, b.stm, pcs, ts)
             PROVE  mv \in OkMoves(b)
  OBVIOUS
<1>1. PICK pc \in pcs : \E fr \in PieceSd(b, pc, b.stm) : mv \in PieceMovesFr(b, fr, ts)
  BY DEF PieceMoves
<1>2. PICK fr \in PieceSd(b, pc, b.stm) : mv \in PieceMovesFr(b, fr, ts)
  BY <1>1
<1>3. pc \in Knight..King /\ pc \in Pieces /\ b.stm \in Sides /\ King # None
  BY StmOf, Numbers
<1>4. fr \in Squares /\ b.square[fr] = pc
  BY <1>3, ManOn
<1>5. PICK to \in PieceAttacksFrom(b, pc, fr) \cap ts : mv = PieceMv(b, fr, to)
  BY <1>2, <1>4 DEF PieceMovesFr
<1>6. to \in PieceAttacks[pc][fr] /\ to \in Squares /\ b.square[to] = None
  <2>1. to \in PieceAttacks[pc][fr]
    BY <1>5 DEF PieceAttacksFrom
  <2>2. to \in Squares
    BY <1>3, <1>4, <2>1, AttackIs
  <2> QED
    BY <1>5, <2>1, <2>2, EmptyIs
<1>7. to \notin b.side[b.stm] /\ b.square[to] # King
  BY <1>3, <1>6, EmptyOn
<1>8. PieceAttack(b, pc, fr, to)
  BY <1>3, <1>4, <1>5, AttacksFromIs
<1> QED
  BY <1>3, <1>5, <1>6, <1>7, <1>8, PieceMvOk

LEMMA OfficerOn ==
  ASSUME NEW b, Sound(b), NEW sd \in Sides, NEW fr \in Officers(b, sd)
  PROVE  fr \in Squares /\ b.square[fr] \in Knight..King /\ fr \in PieceSd(b, b.square[fr], sd)
<1>1. b.side \in [Sides -> SUBSET Squares] /\ PiecesAgree(b)
  BY DEF Sound, BoardSet, MenAgree
<1>2. fr \in Squares /\ fr \in b.side[sd] /\ fr \notin b.piece[Pawn]
  BY <1>1 DEF Officers
<1>3. b.square[fr] # None /\ b.square[fr] \in Pieces
  BY <1>2, EmptyOn
<1>4. b.square[fr] # Pawn
  BY <1>1, <1>2, Numbers DEF PiecesAgree
<1>5. b.square[fr] \in Knight..King
  BY <1>3, <1>4, Numbers
<1>6. fr \in PieceSd(b, b.square[fr], sd)
  BY <1>2, <1>3, ManOn
<1> QED
  BY <1>2, <1>5, <1>6

LEMMA PieceCapturesOk ==
  ASSUME NEW b, Sound(b), IsLegal(b)
  PROVE  AddPieceCaptures(b, b.stm, b.side[Opposite(b.stm)]) \in SUBSET OkMoves(b)
<1> SUFFICES ASSUME NEW mv \in AddPieceCaptures(b, b.stm, b.side[Opposite(b.stm)])
             PROVE  mv \in OkMoves(b)
  OBVIOUS
<1>1. PICK fr \in Officers(b, b.stm) :
        \E to \in PieceAttacks[b.square[fr]][fr] \cap b.side[Opposite(b.stm)] :
          LineIsEmpty(b, fr, to) /\ mv = PieceMv(b, fr, to)
  BY DEF AddPieceCaptures
<1>2. PICK to \in PieceAttacks[b.square[fr]][fr] \cap b.side[Opposite(b.stm)] :
        LineIsEmpty(b, fr, to) /\ mv = PieceMv(b, fr, to)
  BY <1>1
<1>3. PICK pc : pc = b.square[fr]
  OBVIOUS
<1>4. b.stm \in Sides /\ Opposite(b.stm) \in Sides /\ Opposite(b.stm) # b.stm
  BY StmOf
<1>5. fr \in Squares /\ pc \in Knight..King /\ fr \in PieceSd(b, pc, b.stm)
  BY <1>3, <1>4, OfficerOn
<1>6. to \in PieceAttacks[pc][fr] /\ to \in Squares /\ to \in b.side[Opposite(b.stm)]
  BY <1>2, <1>3, <1>5, AttackIs
<1>7. to \notin b.side[b.stm]
  <2>1. SidesAgree(b)
    BY DEF Sound, MenAgree
  <2> QED
    BY <1>4, <1>6, <2>1 DEF SidesAgree
<1>8. pc \in Pieces /\ (pc \in {Knight, King} \/ pc \in Bishop..Queen)
  BY <1>5, Numbers
<1>9. b.square[to] # King
  BY <1>2, <1>5, <1>6, <1>7, <1>8, KingIsSafe
<1>10. PieceAttack(b, pc, fr, to)
  BY <1>2, <1>6 DEF PieceAttack
<1> QED
  BY <1>2, <1>5, <1>6, <1>7, <1>9, <1>10, PieceMvOk

\* A pawn takes on a square that it attacks.
LEMMA PawnTakeOk ==
  ASSUME NEW b, Sound(b), IsLegal(b), EpHolds(b), NEW fr \in PieceSd(b, Pawn, b.stm),
         NEW to \in b.side[Opposite(b.stm)], fr \in PawnAttacks[Opposite(b.stm)][to]
  PROVE  PawnMvs(b, fr, to) \in SUBSET OkMoves(b)
<1>1. /\ b.stm \in Sides /\ Opposite(b.stm) \in Sides /\ Opposite(b.stm) # b.stm
      /\ (b.stm = White \/ b.stm = Black) /\ Opposite(White) = Black /\ Opposite(Black) = White
  BY StmOf, Numbers DEF Opposite
<1>2. SidesAgree(b) /\ b.side \in [Sides -> SUBSET Squares]
  BY DEF Sound, MenAgree, BoardSet
<1>3. to \in Squares /\ to \notin b.side[b.stm] /\ b.square[to] # None
  BY <1>1, <1>2 DEF SidesAgree
<1>4. Pawn \in Pieces /\ NoSquare \notin Squares
  BY Numbers
<1>5. fr \in Squares
  BY <1>1, <1>4, ManOn
<1>6. b.square[to] # King
  BY <1>3, <1>4, KingIsSafe
<1>7. to # b.copy.epSq
  <2>1. ASSUME to = b.copy.epSq
        PROVE  FALSE
    <3>1. b.copy.epSq # NoSquare
      BY <1>3, <1>4, <2>1
    <3>2. b.square[b.copy.epSq] = None
      BY <3>1, Zenon DEF EpHolds
    <3> QED
      BY <1>3, <2>1, <3>2
  <2> QED
    BY <2>1
<1>8. Distance(to, fr) # 2
  <2>1. PICK f \in 0..7, r \in 0..7, g \in 0..7, q \in 0..7 :
          /\ fr = 8 * f + r /\ To88(fr) = 16 * f + r /\ to = 8 * g + q /\ To88(to) = 16 * g + q
    BY <1>3, <1>5, On88
  <2>2. \E i \in {-17, -15, 15, 17} : To88(fr) = To88(to) + i
    BY <1>1, <1>3, PawnAttackIs
  <2>3. f - g \in {-1, 1} /\ r - q \in -1..1
    BY <2>1, <2>2, SMTT(30)
  <2>4. to - fr = 8 * (g - f) + (q - r)
    BY <2>1
  <2>5. to - fr # 2 /\ fr - to # 2
    BY <2>1, <2>3
  <2> QED
    BY <2>5 DEF Distance
<1>9. PawnReaches(b, fr, to)
  BY <1>3 DEF PawnReaches
<1> QED
  BY <1>3, <1>6, <1>7, <1>8, <1>9, PawnMvsOk

\* The shifts of the bitboards take no pawn over the edge of the board.
LEMMA ShiftTakes ==
  ASSUME NEW fr \in Squares, NEW to \in Squares, Rank(fr) \in 1..6
  PROVE  /\ to = fr - 7 \/ to = fr + 9 => fr \in PawnAttacks[Black][to]
         /\ to = fr - 9 \/ to = fr + 7 => fr \in PawnAttacks[White][to]
<1>1. PICK f \in 0..7, r \in 0..7, g \in 0..7, q \in 0..7 :
        /\ fr = 8 * f + r /\ To88(fr) = 16 * f + r /\ to = 8 * g + q /\ To88(to) = 16 * g + q /\ r = Rank(fr)
  BY On88
<1>2. r \in 1..6
  BY <1>1
<1>3. ASSUME to = fr - 7
      PROVE  fr \in PawnAttacks[Black][to]
  <2>0. 8 * g + q = 8 * f + r - 7
    BY <1>1, <1>3
  <2>1. g = f - 1 /\ q = r + 1
    BY <1>2, <2>0
  <2>2. To88(fr) = To88(to) + 15
    BY <1>1, <2>1
  <2> QED
    BY <2>2, PawnAttackIs
<1>4. ASSUME to = fr + 9
      PROVE  fr \in PawnAttacks[Black][to]
  <2>1. To88(fr) = To88(to) + (-17)
    BY <1>1, <1>2, <1>4
  <2> QED
    BY <2>1, PawnAttackIs
<1>5. ASSUME to = fr - 9
      PROVE  fr \in PawnAttacks[White][to]
  <2>1. To88(fr) = To88(to) + 17
    BY <1>1, <1>2, <1>5
  <2> QED
    BY <2>1, PawnAttackIs
<1>6. ASSUME to = fr + 7
      PROVE  fr \in PawnAttacks[White][to]
  <2>1. To88(fr) = To88(to) + (-15)
    BY <1>1, <1>2, <1>6
  <2> QED
    BY <2>1, PawnAttackIs
<1> QED
  BY <1>3, <1>4, <1>5, <1>6

LEMMA PawnCapturesOk ==
  ASSUME NEW b, Sound(b), IsLegal(b), EpHolds(b), PawnsInside(b)
  PROVE  AddPawnCaptures(b, b.stm, b.side[Opposite(b.stm)]) \in Seq(SUBSET OkMoves(b))
<1>1. PICK sd, on, pawns : sd = b.stm /\ on = b.side[Opposite(sd)] /\ pawns = PieceSd(b, Pawn, sd)
  OBVIOUS
<1>2. /\ sd \in Sides /\ Opposite(sd) \in Sides /\ (sd = White \/ sd = Black) /\ White # Black
      /\ Opposite(White) = Black /\ Opposite(Black) = White /\ Pawn \in Pieces
  BY <1>1, StmOf, Numbers DEF Opposite
<1>3. on \in SUBSET Squares
  BY <1>1, <1>2 DEF Sound, BoardSet
<1>4. ASSUME NEW d \in Int, IF sd = White THEN d \in {-7, 9} ELSE d \in {-9, 7}
      PROVE  PawnStep(b, Shift(on, -d) \cap pawns, d) \in SUBSET OkMoves(b)
  <2>1. ASSUME NEW fr \in Shift(on, -d) \cap pawns
        PROVE  PawnMvs(b, fr, fr + d) \in SUBSET OkMoves(b)
    <3>1. fr \in Squares /\ fr + d \in on /\ fr \in PieceSd(b, Pawn, sd)
      BY <1>1, <1>3, <2>1, ShiftIs
    <3>2. Rank(fr) \in 1..6
      <4>1. fr \in b.piece[Pawn]
        BY <3>1 DEF PieceSd
      <4> QED
        BY <4>1 DEF PawnsInside
    <3>3. PICK to : to = fr + d
      OBVIOUS
    <3>4. to \in Squares
      BY <1>3, <3>1, <3>3
    <3>5. fr \in Int
      BY <3>1, Numbers
    <3>6. fr \in PawnAttacks[Opposite(sd)][to]
      <4>1. CASE sd = White
        <5>1. to = fr - 7 \/ to = fr + 9
          BY <1>4, <3>3, <3>5, <4>1
        <5> QED
          BY <1>2, <3>1, <3>2, <3>4, <4>1, <5>1, ShiftTakes
      <4>2. CASE sd = Black
        <5>1. to = fr - 9 \/ to = fr + 7
          BY <1>2, <1>4, <3>3, <3>5, <4>2
        <5> QED
          BY <1>2, <3>1, <3>2, <3>4, <4>2, <5>1, ShiftTakes
      <4> QED
        BY <1>2, <4>1, <4>2
    <3>7. PawnMvs(b, fr, to) \in SUBSET OkMoves(b)
      BY <1>1, <3>1, <3>3, <3>6, PawnTakeOk
    <3> QED
      BY <3>3, <3>7
  <2> QED
    BY <2>1 DEF PawnStep
<1>5. on \cap on = on
  OBVIOUS
<1>6. ASSUME NEW d \in Int, NEW e \in Int, IF sd = White THEN d = -7 /\ e = 9 ELSE d = -9 /\ e = 7
      PROVE  <<PawnStep(b, Shift(on, -d) \cap pawns, d), PawnStep(b, Shift(on, -e) \cap pawns, e)>>
               \in Seq(SUBSET OkMoves(b))
  <2>1. PICK O, x, y : /\ O = SUBSET OkMoves(b) /\ x = PawnStep(b, Shift(on, -d) \cap pawns, d)
                       /\ y = PawnStep(b, Shift(on, -e) \cap pawns, e)
    OBVIOUS
  <2>2. x \in O /\ y \in O
    BY <1>4, <1>6, <2>1
  <2>3. <<x, y>> \in Seq(O)
    BY <2>2
  <2> QED
    BY <2>1, <2>3
<1>7. CASE sd = White
  <2>1. AddPawnCaptures(b, sd, on) =
          <<PawnStep(b, Shift(on, -(-7)) \cap pawns, -7), PawnStep(b, Shift(on, -9) \cap pawns, 9)>>
    BY <1>1, <1>5, <1>7, Zenon DEF AddPawnCaptures
  <2>2. -7 \in Int /\ 9 \in Int
    OBVIOUS
  <2>3. <<PawnStep(b, Shift(on, -(-7)) \cap pawns, -7), PawnStep(b, Shift(on, -9) \cap pawns, 9)>>
          \in Seq(SUBSET OkMoves(b))
    BY <1>6, <1>7, <2>2
  <2> QED
    BY <1>1, <2>1, <2>3, Zenon
<1>8. CASE sd = Black
  <2>1. AddPawnCaptures(b, sd, on) =
          <<PawnStep(b, Shift(on, -(-9)) \cap pawns, -9), PawnStep(b, Shift(on, -7) \cap pawns, 7)>>
    BY <1>1, <1>2, <1>5, <1>8, Zenon DEF AddPawnCaptures
  <2> QED
    BY <1>1, <1>2, <1>6, <1>8, <2>1
<1> QED
  BY <1>1, <1>2, <1>7, <1>8

\* The squares of the castlings, and what lies between the king and the rook.
LEMMA CastleNumbers ==
  /\ Castle(0).KingFr = 32 /\ Castle(0).KingTo = 48 /\ Castle(0).RookFr = 56 /\ Castle(0).RookTo = 40
  /\ Castle(1).KingFr = 32 /\ Castle(1).KingTo = 16 /\ Castle(1).RookFr = 0 /\ Castle(1).RookTo = 24
  /\ Castle(2).KingFr = 39 /\ Castle(2).KingTo = 55 /\ Castle(2).RookFr = 63 /\ Castle(2).RookTo = 47
  /\ Castle(3).KingFr = 39 /\ Castle(3).KingTo = 23 /\ Castle(3).RookFr = 7 /\ Castle(3).RookTo = 31
  BY DEF Castle, CastleInfo

LEMMA OnTheWay ==
  ASSUME NEW a \in Squares, NEW s \in Squares, NEW z \in Squares, NEW i \in {-16, 16},
         NEW k \in 1..7, NEW m \in 1..7, k + m <= 7,
         To88(s) = To88(a) + k * i, To88(z) = To88(s) + m * i
  PROVE  s \in Between[a][z]
<1>1. i \in QueenInc /\ i \in Int
  BY Incs
<1>2. To88(a) \in Int /\ To88(s) \in Int /\ To88(z) \in Int
  BY On88
<1>3. s \in Line(a, i)
  BY <1>1, LineIs
<1>4. z \in Line(s, i)
  BY <1>1, LineIs
<1>5. z \in Line(a, i)
  <2>1. k + m \in 1..7 /\ To88(z) = To88(a) + (k + m) * i
    BY <1>1, <1>2
  <2> QED
    BY <1>1, <2>1, LineIs
<1> QED
  BY <1>1, <1>3, <1>4, <1>5, InBetween

LEMMA CastleWay ==
  /\ 48 \in Between[32][56] /\ 40 \in Between[32][56]
  /\ 16 \in Between[32][0] /\ 24 \in Between[32][0]
  /\ 55 \in Between[39][63] /\ 47 \in Between[39][63]
  /\ 23 \in Between[39][7] /\ 31 \in Between[39][7]
<1>1. /\ To88(32) = 64 /\ To88(56) = 112 /\ To88(40) = 80 /\ To88(48) = 96 /\ To88(0) = 0 /\ To88(16) = 32
      /\ To88(24) = 48 /\ To88(39) = 71 /\ To88(63) = 119 /\ To88(55) = 103 /\ To88(47) = 87
      /\ To88(7) = 7 /\ To88(23) = 39 /\ To88(31) = 55
  BY DEF To88, File
<1>2. {32, 56, 40, 48, 0, 16, 24, 39, 63, 55, 47, 7, 23, 31} \subseteq Squares
  BY Numbers
<1>3. 48 \in Between[32][56]
  <2>1. To88(48) = To88(32) + 2 * 16 /\ To88(56) = To88(48) + 1 * 16
    BY <1>1
  <2> QED
    BY <1>2, <2>1, OnTheWay
<1>4. 40 \in Between[32][56]
  <2>1. To88(40) = To88(32) + 1 * 16 /\ To88(56) = To88(40) + 2 * 16
    BY <1>1
  <2> QED
    BY <1>2, <2>1, OnTheWay
<1>5. 16 \in Between[32][0]
  <2>1. To88(16) = To88(32) + 2 * (-16) /\ To88(0) = To88(16) + 2 * (-16)
    BY <1>1
  <2> QED
    BY <1>2, <2>1, OnTheWay
<1>6. 24 \in Between[32][0]
  <2>1. To88(24) = To88(32) + 1 * (-16) /\ To88(0) = To88(24) + 3 * (-16)
    BY <1>1
  <2> QED
    BY <1>2, <2>1, OnTheWay
<1>7. 55 \in Between[39][63]
  <2>1. To88(55) = To88(39) + 2 * 16 /\ To88(63) = To88(55) + 1 * 16
    BY <1>1
  <2> QED
    BY <1>2, <2>1, OnTheWay
<1>8. 47 \in Between[39][63]
  <2>1. To88(47) = To88(39) + 1 * 16 /\ To88(63) = To88(47) + 2 * 16
    BY <1>1
  <2> QED
    BY <1>2, <2>1, OnTheWay
<1>9. 23 \in Between[39][7]
  <2>1. To88(23) = To88(39) + 2 * (-16) /\ To88(7) = To88(23) + 2 * (-16)
    BY <1>1
  <2> QED
    BY <1>2, <2>1, OnTheWay
<1>10. 31 \in Between[39][7]
  <2>1. To88(31) = To88(39) + 1 * (-16) /\ To88(7) = To88(31) + 3 * (-16)
    BY <1>1
  <2> QED
    BY <1>2, <2>1, OnTheWay
<1> QED
  BY <1>3, <1>4, <1>5, <1>6, <1>7, <1>8, <1>9, <1>10

LEMMA CastleIs ==
  ASSUME NEW sd \in Sides, NEW wg \in {0, 1}
  PROVE  \E i \in 0..3, kf \in Squares, kt \in Squares, rf \in Squares, rt \in Squares :
           /\ i = CastleIndex(sd, wg) /\ i \div 2 = sd
           /\ kf = Castle(i).KingFr /\ kt = Castle(i).KingTo /\ rf = Castle(i).RookFr /\ rt = Castle(i).RookTo
           /\ kt \in Between[kf][rf] /\ rt \in Between[kf][rf] /\ rt # kt /\ rt # kf /\ kt # kf
           /\ Distance(kt, kf) = 16 /\ (IF kt < kf THEN 1 ELSE 0) = wg
<1>1. (sd = 0 /\ wg = 0) \/ (sd = 0 /\ wg = 1) \/ (sd = 1 /\ wg = 0) \/ (sd = 1 /\ wg = 1)
  BY Numbers
<1>2. {32, 56, 40, 48, 0, 16, 24, 39, 63, 55, 47, 7, 23, 31} \subseteq Squares
  BY Numbers
<1>3. CastleIndex(0, 0) = 0 /\ CastleIndex(0, 1) = 1 /\ CastleIndex(1, 0) = 2 /\ CastleIndex(1, 1) = 3
  BY DEF CastleIndex
<1>4. 0 \div 2 = 0 /\ 1 \div 2 = 0 /\ 2 \div 2 = 1 /\ 3 \div 2 = 1
  OBVIOUS
<1>5. /\ Distance(48, 32) = 16 /\ Distance(16, 32) = 16 /\ Distance(55, 39) = 16 /\ Distance(23, 39) = 16
      /\ (IF 48 < 32 THEN 1 ELSE 0) = 0 /\ (IF 16 < 32 THEN 1 ELSE 0) = 1
      /\ (IF 55 < 39 THEN 1 ELSE 0) = 0 /\ (IF 23 < 39 THEN 1 ELSE 0) = 1
  BY DEF Distance
<1>6. /\ 40 # 48 /\ 40 # 32 /\ 48 # 32 /\ 24 # 16 /\ 24 # 32 /\ 16 # 32
      /\ 47 # 55 /\ 47 # 39 /\ 55 # 39 /\ 31 # 23 /\ 31 # 39 /\ 23 # 39
      /\ 0 \in 0..3 /\ 1 \in 0..3 /\ 2 \in 0..3 /\ 3 \in 0..3
  OBVIOUS
<1>7. CASE sd = 0 /\ wg = 0
  <2> 0 \in 0..3 /\ 32 \in Squares /\ 48 \in Squares /\ 56 \in Squares /\ 40 \in Squares
    BY <1>2
  <2> WITNESS 0 \in 0..3, 32 \in Squares, 48 \in Squares, 56 \in Squares, 40 \in Squares
  <2> QED
    BY <1>3, <1>4, <1>5, <1>6, <1>7, CastleNumbers, CastleWay
<1>8. CASE sd = 0 /\ wg = 1
  <2> 1 \in 0..3 /\ 32 \in Squares /\ 16 \in Squares /\ 0 \in Squares /\ 24 \in Squares
    BY <1>2
  <2> WITNESS 1 \in 0..3, 32 \in Squares, 16 \in Squares, 0 \in Squares, 24 \in Squares
  <2> QED
    BY <1>3, <1>4, <1>5, <1>6, <1>8, CastleNumbers, CastleWay
<1>9. CASE sd = 1 /\ wg = 0
  <2> 2 \in 0..3 /\ 39 \in Squares /\ 55 \in Squares /\ 63 \in Squares /\ 47 \in Squares
    BY <1>2
  <2> WITNESS 2 \in 0..3, 39 \in Squares, 55 \in Squares, 63 \in Squares, 47 \in Squares
  <2> QED
    BY <1>3, <1>4, <1>5, <1>6, <1>9, CastleNumbers, CastleWay
<1>10. CASE sd = 1 /\ wg = 1
  <2> 3 \in 0..3 /\ 39 \in Squares /\ 23 \in Squares /\ 7 \in Squares /\ 31 \in Squares
    BY <1>2
  <2> WITNESS 3 \in 0..3, 39 \in Squares, 23 \in Squares, 7 \in Squares, 31 \in Squares
  <2> QED
    BY <1>3, <1>4, <1>5, <1>6, <1>10, CastleNumbers, CastleWay
<1> QED
  BY <1>1, <1>7, <1>8, <1>9, <1>10

\* A right that holds has its king and its rook.
LEMMA RightIs ==
  ASSUME NEW b, Sound(b), NEW pc \in Pieces, NEW sd \in Sides, NEW sq \in Squares, SquareIs(b, sq, pc, sd)
  PROVE  sq \in PieceSd(b, pc, sd)
<1>1. b.square[sq] = pc /\ pc # None /\ White # Black /\ sd \in {White, Black}
  BY Numbers DEF SquareIs
<1>2. sq \in b.side[sd]
  <2>1. sq \in b.side[White] \/ sq \in b.side[Black]
    BY <1>1, EmptyOn, Opposites DEF Sides
  <2> QED
    BY <1>1, <2>1 DEF SquareIs, SquareSide
<1> QED
  BY <1>1, <1>2, ManOn

LEMMA CastlingOk ==
  ASSUME NEW b, Sound(b), AllIs(b), RightsHold(b), ~IsInCheck(b)
  PROVE  AddCastling(b, b.stm) \in SUBSET OkMoves(b)
<1> SUFFICES ASSUME NEW mv \in AddCastling(b, b.stm)
             PROVE  mv \in OkMoves(b)
  OBVIOUS
<1>1. PICK wg \in {0, 1} :
        /\ CanCastle(b, b.stm, wg)
        /\ mv = PieceMv(b, Castle(CastleIndex(b.stm, wg)).KingFr, Castle(CastleIndex(b.stm, wg)).KingTo)
  BY DEF AddCastling
<1>2. PICK sd : sd = b.stm
  OBVIOUS
<1>3. sd \in Sides /\ King \in Pieces /\ Rook \in Pieces /\ King # Pawn /\ King # None /\ None \in 0..6 /\ King \in 0..6
  BY <1>2, StmOf, Numbers
<1>4. PICK i \in 0..3, kf \in Squares, kt \in Squares, rf \in Squares, rt \in Squares :
           /\ i = CastleIndex(sd, wg) /\ i \div 2 = sd
           /\ kf = Castle(i).KingFr /\ kt = Castle(i).KingTo /\ rf = Castle(i).RookFr /\ rt = Castle(i).RookTo
           /\ kt \in Between[kf][rf] /\ rt \in Between[kf][rf] /\ rt # kt /\ rt # kf /\ kt # kf
           /\ Distance(kt, kf) = 16 /\ (IF kt < kf THEN 1 ELSE 0) = wg
  BY <1>3, CastleIs
<1>5. i \in b.copy.flags /\ LineIsEmpty(b, kf, rf) /\ mv = PieceMv(b, kf, kt)
  BY <1>1, <1>2, <1>4, Zenon DEF CanCastle
<1>6. SquareIs(b, kf, King, sd) /\ SquareIs(b, rf, Rook, sd)
  <2>1. CastleOk(b, i)
    BY <1>5 DEF RightsHold
  <2> QED
    BY <1>4, <2>1, Zenon DEF CastleOk
<1>7. kf \in PieceSd(b, King, sd) /\ rf \in PieceSd(b, Rook, sd)
  BY <1>3, <1>6, RightIs
<1>8. kt \notin b.all /\ rt \notin b.all
  BY <1>4, <1>5 DEF LineIsEmpty
<1>9. b.square[kt] = None /\ b.square[rt] = None
  BY <1>8, EmptyIs DEF Empty
<1>10. kt \notin b.side[sd] /\ b.square[kf] = King
  BY <1>3, <1>7, <1>9, EmptyOn, ManOn
<1>11. mv = Mv(kf, kt, King, None, None)
  BY <1>5, <1>9, <1>10 DEF PieceMv
<1>12. mv.fr = kf /\ mv.to = kt /\ mv.pc = King /\ mv.cp = None /\ mv.pp = None
  BY <1>11 DEF Mv
<1>13. mv \in MoveSet
  BY <1>3, <1>11 DEF Mv, MoveSet
<1>14. ~IsEnPassant(b, mv)
  BY <1>3, <1>12 DEF IsEnPassant
<1>15. Tower(mv, sd) = Castle(i)
  BY <1>4, <1>12, Zenon DEF Tower
<1>16. TowerFits(b, mv)
  BY <1>2, <1>4, <1>7, <1>9, <1>12, <1>15, Zenon DEF TowerFits
<1>17. Fits(b, mv)
  BY <1>2, <1>3, <1>7, <1>9, <1>10, <1>12, <1>13, <1>14, <1>16 DEF Fits
<1>18. PawnShape(b, mv)
  BY <1>3, <1>12 DEF PawnShape
<1>19. Reaches(b, mv)
  <2>1. mv.fr = Castle(CastleIndex(b.stm, wg)).KingFr /\ mv.to = Castle(CastleIndex(b.stm, wg)).KingTo
    BY <1>2, <1>4, <1>12
  <2>2. Castles(b, mv)
    BY <1>1, <1>12, <2>1 DEF Castles
  <2> QED
    BY <1>3, <1>12, <2>2 DEF Reaches
<1> QED
  BY <1>13, <1>17, <1>18, <1>19 DEF OkMoves

-----------------------------------------------------------------------------
(* The answers to a check. *)

LEMMA MinIn ==
  ASSUME NEW S \in SUBSET Squares, S # {}
  PROVE  Min(S) \in S
<1>1. S \in SUBSET Nat
  BY Numbers
<1>2. PICK k \in S : \A j \in S : ~(<<j, k>> \in OpToRel(<, Nat))
  <2>1. IsWellFoundedOn(OpToRel(<, Nat), Nat)
    BY NatLessThanWellFounded
  <2> QED
    BY <1>1, <2>1, WFMin
<1>3. ASSUME NEW j \in S
      PROVE  k <= j
  <2>1. ~(j < k)
    BY <1>1, <1>2, ZenonT(30) DEF OpToRel
  <2> QED
    BY <1>1, <2>1
<1> QED
  BY <1>3 DEF Min

\* The one man that gives check: no king, and nothing between it and the king.
LEMMA CheckerIs ==
  ASSUME NEW b, Sound(b), HasKings(b),
         Cardinality(InitAttacks(b, b.stm).squares) = 1
  PROVE  LET from == Min(InitAttacks(b, b.stm).squares) IN
         /\ from \in Squares /\ from \in b.side[Opposite(b.stm)] /\ b.square[from] # King
         /\ b.all \cap Between[b.king[b.stm]][from] = {}
<1>1. PICK sd, opp, king : sd = b.stm /\ opp = Opposite(sd) /\ king = b.king[sd]
  OBVIOUS
<1>2. sd \in Sides /\ opp \in Sides /\ opp # sd /\ Opposite(opp) = sd
  BY <1>1, StmOf
<1>3. PICK leapers, sliders :
        /\ leapers = (PieceSd(b, Pawn, opp) \cap PawnAttacks[sd][king])
                        \cup (PieceSd(b, Knight, opp) \cap PieceAttacks[Knight][king])
        /\ sliders = {fr \in SliderPseudoAttacksTo(b, opp, king) : LineIsEmpty(b, fr, king)}
  OBVIOUS
<1>4. PICK squares : squares = (IF leapers = {} THEN {} ELSE {Min(leapers)}) \cup sliders
  OBVIOUS
<1>5. InitAttacks(b, sd).squares = squares
  BY <1>1, <1>3, <1>4, Zenon DEF InitAttacks
<1>6. king \in Squares
  <2>1. PICK q \in PieceSd(b, King, sd) : TRUE
    BY <1>2 DEF HasKings
  <2>2. b.king[sd] = q
    BY <1>2, <2>1 DEF Sound, MenAgree, KingsAgree
  <2> QED
    BY <1>1, <1>2, <2>1, <2>2, ManOn, Numbers
<1>7. \A q \in leapers : q \in Squares /\ q \in b.side[opp] /\ b.square[q] # King
  <2>1. Pawn \in Pieces /\ Knight \in Pieces /\ Pawn # King /\ Knight # King
    BY Numbers
  <2> QED
    BY <1>2, <1>3, <2>1, ManOn
<1>8. \A q \in sliders : /\ q \in Squares /\ q \in b.side[opp] /\ b.square[q] # King
                         /\ b.all \cap Between[q][king] = {}
  <2> SUFFICES ASSUME NEW q \in sliders
               PROVE  /\ q \in Squares /\ q \in b.side[opp] /\ b.square[q] # King
                      /\ b.all \cap Between[q][king] = {}
    OBVIOUS
  <2>1. q \in SliderPseudoAttacksTo(b, opp, king) /\ LineIsEmpty(b, q, king)
    BY <1>3
  <2>2. PICK pc \in Bishop..Queen : q \in PieceSd(b, pc, opp)
    BY <2>1 DEF SliderPseudoAttacksTo
  <2>3. pc \in Pieces /\ pc # King
    BY Numbers
  <2> QED
    BY <1>2, <2>1, <2>2, <2>3, ManOn DEF LineIsEmpty
\* Nothing lies between the king and a pawn or a knight that attacks it.
<1>9. \A q \in leapers : Between[king][q] = {}
  <2> SUFFICES ASSUME NEW q \in leapers
               PROVE  Between[king][q] = {}
    OBVIOUS
  <2>0. q \in Squares
    BY <1>7
  <2>1. CASE q \in PawnAttacks[sd][king]
    <3>1. \E i \in {-17, -15, 15, 17} : To88(q) = To88(king) + i
      BY <1>2, <1>6, <2>1, PawnAttackIs DEF Sides
    <3>2. PICK i \in {-17, -15, 15, 17} : To88(q) = To88(king) + i
      BY <3>1
    <3>3. i \in Int /\ i \in QueenInc
      BY Incs
    <3> QED
      BY <1>6, <2>0, <3>2, <3>3, NoneBetween
  <2>2. CASE q \in PieceAttacks[Knight][king]
    <3>1. PieceAttacks[Knight][king] = Leaps(king, KnightInc)
      BY <1>6, Numbers DEF PieceAttacks
    <3>2. PICK i \in KnightInc : To88(q) = To88(king) + i
      BY <1>6, <2>2, <3>1, LeapIs, Incs
    <3>3. i \in Int
      BY Incs
    <3> QED
      BY <1>6, <2>0, <3>2, <3>3, NoneBetween
  <2> QED
    BY <1>3, <2>1, <2>2
<1>10. ASSUME leapers # {}
       PROVE  Min(leapers) \in leapers
  <2>1. leapers \in SUBSET Squares
    BY <1>7
  <2> QED
    BY <1>10, <2>1, MinIn
<1>11. squares \in SUBSET (leapers \cup sliders) /\ squares \in SUBSET Squares
  BY <1>4, <1>7, <1>8, <1>10
<1>12. PICK from : from = Min(squares)
  BY Zenon
<1>13. from \in squares
  <2>1. squares # {}
    <3>1. Cardinality({}) = 0
      BY FS_EmptySet
    <3> QED
      BY <1>1, <1>5, <3>1
  <2> QED
    BY <1>11, <1>12, <2>1, MinIn
<1>14. from \in Squares /\ from \in b.side[opp] /\ b.square[from] # King
  BY <1>7, <1>8, <1>11, <1>13
<1>15. b.all \cap Between[king][from] = {}
  <2>1. CASE from \in leapers
    BY <1>9, <2>1
  <2>2. CASE from \in sliders
    <3>1. Between[king][from] \subseteq Between[from][king]
      BY <1>6, <1>14, BetweenBack
    <3> QED
      BY <1>8, <2>2, <3>1
  <2> QED
    BY <1>11, <1>13, <2>1, <2>2
<1> QED
  BY <1>1, <1>5, <1>12, <1>14, <1>15, Zenon

LEMMA KingStepsOk ==
  ASSUME NEW b, Sound(b), HasKings(b), IsLegal(b), NEW avoid
  PROVE  PieceMovesFr(b, b.king[b.stm], Squares \ (b.side[b.stm] \cup avoid)) \in SUBSET OkMoves(b)
<1>1. PICK fr : fr = b.king[b.stm]
  OBVIOUS
<1> SUFFICES ASSUME NEW mv \in PieceMovesFr(b, fr, Squares \ (b.side[b.stm] \cup avoid))
             PROVE  mv \in OkMoves(b)
  BY <1>1
<1>2. b.stm \in Sides /\ King \in Knight..King /\ King \in Pieces
  BY StmOf, Numbers
<1>3. fr \in PieceSd(b, King, b.stm)
  <2>1. PICK q \in PieceSd(b, King, b.stm) : TRUE
    BY <1>2 DEF HasKings
  <2> QED
    BY <1>1, <1>2, <2>1 DEF Sound, MenAgree, KingsAgree
<1>4. fr \in Squares /\ b.square[fr] = King
  BY <1>2, <1>3, ManOn
<1>5. PICK to \in PieceAttacksFrom(b, King, fr) \cap (Squares \ (b.side[b.stm] \cup avoid)) : mv = PieceMv(b, fr, to)
  BY <1>4 DEF PieceMovesFr
<1>6. to \in PieceAttacks[King][fr] /\ to \in Squares /\ to \notin b.side[b.stm]
  BY <1>5 DEF PieceAttacksFrom
<1>7. b.square[to] # King
  BY <1>2, <1>3, <1>6, KingIsSafe
<1>8. PieceAttack(b, King, fr, to)
  BY <1>2, <1>4, <1>5, AttacksFromIs
<1> QED
  BY <1>2, <1>3, <1>5, <1>6, <1>7, <1>8, PieceMvOk

LEMMA EvasionCapturesOk ==
  ASSUME NEW b, Sound(b), IsLegal(b), EpHolds(b),
         NEW to \in b.side[Opposite(b.stm)], b.square[to] # King
  PROVE  AddEvasionCaptures(b, b.stm, to) \in SUBSET OkMoves(b)
<1>1. b.stm \in Sides /\ Opposite(b.stm) \in Sides /\ Opposite(b.stm) # b.stm
  BY StmOf
<1>2. to \in Squares /\ to \notin b.side[b.stm]
  <2>1. SidesAgree(b) /\ b.side \in [Sides -> SUBSET Squares]
    BY DEF Sound, MenAgree, BoardSet
  <2> QED
    BY <1>1, <2>1 DEF SidesAgree
<1> SUFFICES ASSUME NEW mv \in AddEvasionCaptures(b, b.stm, to)
             PROVE  mv \in OkMoves(b)
  OBVIOUS
<1>3. PICK pc \in Pawn..Queen : \E fr \in PieceSd(b, pc, b.stm) \cap AttacksTo(b, pc, b.stm, to) :
         mv \in IF pc = Pawn THEN PawnMvs(b, fr, to) ELSE {PieceMv(b, fr, to)}
  BY DEF AddEvasionCaptures
<1>4. PICK fr \in PieceSd(b, pc, b.stm) \cap AttacksTo(b, pc, b.stm, to) :
         mv \in IF pc = Pawn THEN PawnMvs(b, fr, to) ELSE {PieceMv(b, fr, to)}
  BY <1>3
<1>5. CASE pc = Pawn
  <2>1. fr \in PawnAttacks[Opposite(b.stm)][to]
    BY <1>4, <1>5 DEF AttacksTo
  <2> QED
    BY <1>4, <1>5, <2>1, PawnTakeOk
<1>6. CASE pc # Pawn
  <2>1. pc \in Knight..King /\ pc # King /\ pc \in Pieces
    BY <1>6, Numbers
  <2>2. fr \in PieceAttacksFrom(b, pc, to) /\ fr \in Squares
    BY <1>1, <1>4, <1>6, <2>1, ManOn DEF AttacksTo
  <2>3. PieceAttack(b, pc, fr, to)
    <3>1. fr \in PieceAttacks[pc][to] /\ LineIsEmpty(b, to, fr)
      BY <1>2, <2>1, <2>2, AttacksFromIs DEF PieceAttack
    <3>2. to \in PieceAttacks[pc][fr]
      BY <1>2, <2>1, <3>1, AttackIs
    <3>3. Between[fr][to] \subseteq Between[to][fr]
      BY <1>2, <2>2, BetweenBack
    <3> QED
      BY <3>1, <3>2, <3>3 DEF PieceAttack, LineIsEmpty
  <2> QED
    BY <1>2, <1>4, <1>6, <2>1, <2>3, PieceMvOk
<1> QED
  BY <1>5, <1>6

\* Every move of the generators fits the board.
LEMMA GeneratedOk ==
  ASSUME NEW b, Good(b)
  PROVE  Generated(b) \in SUBSET OkMoves(b)
<1> USE DEF Good
<1>1. PICK sd, O : sd = b.stm /\ O = SUBSET OkMoves(b)
  OBVIOUS
<1>2. b.stm \in Sides /\ Empty(b) \in SUBSET Squares
  BY StmOf DEF Empty
<1>3. AddEnPassant(b, sd) \in O
  BY <1>1, EnPassantOk
<1>4. \A X, Y : X \in Seq(O) /\ Y \in Seq(O) => X \o Y \in Seq(O)
  OBVIOUS
<1>5. CASE ~IsInCheck(b)
  <2>1. PICK x, y, z, p, q, r, t :
          /\ x = AddPawnCaptures(b, sd, b.side[Opposite(sd)]) /\ y = AddPieceCaptures(b, sd, b.side[Opposite(sd)])
          /\ z = AddEnPassant(b, sd) /\ p = AddProms(b, sd, Empty(b)) /\ q = AddCastling(b, sd)
          /\ r = PieceMoves(b, sd, Knight..King, Empty(b)) /\ t = AddPawnQuiets(b, sd, Empty(b))
    OBVIOUS
  <2>2. x \in Seq(O) /\ y \in O /\ z \in O
    BY <1>1, <1>3, <2>1, PawnCapturesOk, PieceCapturesOk
  <2>3. p \in Seq(O) /\ t \in Seq(O)
    BY <1>1, <2>1, QuietsOk
  <2>4. q \in O
    BY <1>1, <1>5, <2>1, CastlingOk
  <2>5. r \in O
    BY <1>1, <2>1, PieceMovesOk
  <2>6. GenPseudos(b) = ((x \o <<y, z>>) \o p) \o (<<q, r>> \o t)
    BY <1>1, <1>5, <2>1, Zenon DEF GenPseudos, AddCaptures, AddQuietMoves
  <2>7. <<y, z>> \in Seq(O) /\ <<q, r>> \in Seq(O)
    BY <2>2, <2>4, <2>5
  <2>8. x \o <<y, z>> \in Seq(O) /\ <<q, r>> \o t \in Seq(O)
    BY <1>4, <2>2, <2>3, <2>7, Zenon
  <2>9. (x \o <<y, z>>) \o p \in Seq(O)
    BY <1>4, <2>3, <2>8, Zenon
  <2>10. GenPseudos(b) \in Seq(O)
    BY <1>4, <2>6, <2>8, <2>9, Zenon
  <2> QED
    BY <1>1, <2>10 DEF Generated
<1>6. CASE IsInCheck(b)
  <2>1. PICK attacks, king, steps, from, ts :
          /\ attacks = InitAttacks(b, sd) /\ king = b.king[sd]
          /\ steps = PieceMovesFr(b, king, Squares \ (b.side[sd] \cup attacks.avoid))
          /\ from = Min(attacks.squares) /\ ts = Between[king][from]
    OBVIOUS
  <2>2. steps \in O
    BY <1>1, <2>1, KingStepsOk
  <2>3. CASE Cardinality(attacks.squares) # 1
    <3>1. GenPseudos(b) = <<steps>>
      BY <1>1, <1>6, <2>1, <2>3, Zenon DEF GenPseudos, AddEvasions
    <3>2. GenPseudos(b) \in Seq(O)
      BY <2>2, <3>1
    <3> QED
      BY <1>1, <3>2 DEF Generated
  <2>4. CASE Cardinality(attacks.squares) = 1
    <3>1. /\ from \in Squares /\ from \in b.side[Opposite(sd)] /\ b.square[from] # King
          /\ b.all \cap ts = {}
      BY <1>1, <2>1, <2>4, CheckerIs, Zenon
    <3>2. ts \in SUBSET Empty(b)
      <4>1. king \in Squares
        <5>1. PICK e \in PieceSd(b, King, sd) : TRUE
          BY <1>1, <1>2 DEF HasKings
        <5>2. king = e
          BY <1>1, <1>2, <2>1, <5>1 DEF Sound, MenAgree, KingsAgree
        <5> QED
          BY <1>1, <1>2, <5>1, <5>2, ManOn, Numbers
      <4>2. ts \subseteq Squares
        BY <2>1, <3>1, <4>1, BetweenBack
      <4> QED
        BY <3>1, <4>2 DEF Empty
    <3>3. PICK x, p, q, r : /\ x = AddEvasionCaptures(b, sd, from) /\ p = AddPawnQuiets(b, sd, ts)
                            /\ q = AddProms(b, sd, ts) /\ r = PieceMoves(b, sd, Knight..Queen, ts)
      OBVIOUS
    <3>4. x \in O
      BY <1>1, <3>1, <3>3, EvasionCapturesOk
    <3>5. p \in Seq(O) /\ q \in Seq(O)
      BY <1>1, <3>2, <3>3, QuietsOk
    <3>6. r \in O
      <4>1. Knight..Queen \in SUBSET (Knight..King)
        BY Numbers
      <4> QED
        BY <1>1, <3>2, <3>3, <4>1, PieceMovesOk
    <3>7. PICK e : e = AddEnPassant(b, sd)
      OBVIOUS
    <3>8. e \in O
      BY <1>3, <3>7
    <3>9. GenPseudos(b) = <<steps, x, e>> \o (IF ts = {} THEN << >> ELSE (p \o q) \o <<r>>)
      BY <1>1, <1>6, <2>1, <2>4, <3>3, <3>7, Zenon DEF GenPseudos, AddEvasions
    <3>10. <<steps, x, e>> \in Seq(O) /\ <<r>> \in Seq(O) /\ << >> \in Seq(O)
      BY <2>2, <3>4, <3>6, <3>8
    <3>11. p \o q \in Seq(O)
      BY <1>4, <3>5, Zenon
    <3>12. (p \o q) \o <<r>> \in Seq(O)
      BY <1>4, <3>10, <3>11, Zenon
    <3>13. (IF ts = {} THEN << >> ELSE (p \o q) \o <<r>>) \in Seq(O)
      BY <3>10, <3>12
    <3>14. GenPseudos(b) \in Seq(O)
      BY <1>4, <3>9, <3>10, <3>13, Zenon
    <3> QED
      BY <1>1, <3>14 DEF Generated
  <2> QED
    BY <2>3, <2>4
<1> QED
  BY <1>5, <1>6

-----------------------------------------------------------------------------
(* What holds of the board of a game holds after a move. *)

LEMMA SquareIsBack ==
  ASSUME NEW b, Sound(b), NEW pc \in Pieces, NEW sd \in Sides, NEW sq \in PieceSd(b, pc, sd)
  PROVE  SquareIs(b, sq, pc, sd)
<1>1. sq \in Squares /\ b.square[sq] = pc /\ sq \in b.side[sd] /\ \A s \in Sides : sq \in b.side[s] => s = sd
  BY ManOn
<1>2. SquareSide(b, sq) = sd
  BY <1>1, Numbers DEF SquareSide
<1> QED
  BY <1>1, <1>2 DEF SquareIs

\* A man that neither moves nor is taken stays, whatever the move.
LEMMA StayingMan ==
  ASSUME NEW b, Sound(b), NEW mv, Fits(b, mv), NEW o, Sound(o), Moved(b, mv, o),
         NEW pc \in Pieces, NEW sd \in Sides, NEW q \in PieceSd(b, pc, sd),
         q # mv.fr, q # mv.to, q \notin Goes(mv, b.stm), pc # Pawn \/ q # CapSq(b, mv)
  PROVE  q \in PieceSd(o, pc, sd)
<1>1. q \in Squares /\ b.square[q] = pc /\ q \in b.side[sd] /\ pc # None
  BY ManOn, Numbers
<1>2. q \notin Comes(mv, b.stm)
  BY <1>1 DEF Comes, Fits, TowerFits
<1>3. q # CapSq(b, mv)
  <2>1. CASE IsEnPassant(b, mv)
    <3>1. b.stm \in Sides /\ Opposite(b.stm) \in Sides /\ Pawn \in Pieces
      BY StmOf, Numbers
    <3>2. CapSq(b, mv) \in PieceSd(b, Pawn, Opposite(b.stm))
      BY <2>1 DEF Fits
    <3>3. b.square[CapSq(b, mv)] = Pawn
      BY <3>1, <3>2, ManOn
    <3> QED
      BY <1>1, <3>3
  <2>2. CASE ~IsEnPassant(b, mv)
    <3>1. CapSq(b, mv) = IF mv.cp # None THEN mv.to ELSE NoSquare
      BY <2>2 DEF CapSq, IsEnPassant
    <3> QED
      BY <1>1, <3>1, Numbers
  <2> QED
    BY <2>1, <2>2
<1>4. o.square[q] = pc /\ q \in o.side[sd]
  BY <1>1, <1>2, <1>3, Zenon DEF Moved
<1> QED
  BY <1>1, <1>4, ManOn

\* The man that moves arrives.
LEMMA MovedMan ==
  ASSUME NEW b, Sound(b), NEW mv, Fits(b, mv), NEW o, Sound(o), Moved(b, mv, o)
  PROVE  Arrived(mv) \in Pieces /\ mv.to \in Squares /\ mv.to \in PieceSd(o, Arrived(mv), b.stm)
<1>1. b.stm \in Sides /\ mv.to \in Squares /\ Arrived(mv) \in Pieces
  <2>1. mv.to \in Squares /\ mv.pc \in Pieces /\ (mv.pp # None => mv.pp \in Knight..Queen)
    BY DEF Fits, MoveSet
  <2>2. Arrived(mv) \in Pieces
    BY <2>1, Numbers DEF Arrived
  <2> QED
    BY <2>1, <2>2, StmOf
<1>2. o.square[mv.to] = Arrived(mv) /\ mv.to \in o.side[b.stm]
  BY <1>1 DEF Moved
<1> QED
  BY <1>1, <1>2, ManOn

LEMMA MoveHasKings ==
  ASSUME NEW b, Sound(b), HasKings(b), NEW mv, Fits(b, mv), NEW o, Sound(o), Moved(b, mv, o)
  PROVE  HasKings(o)
<1> SUFFICES ASSUME NEW sd \in Sides
             PROVE  PieceSd(o, King, sd) # {}
  BY DEF HasKings
<1>1. PICK q \in PieceSd(b, King, sd) : TRUE
  BY DEF HasKings
<1>2. /\ King \in Pieces /\ King # Pawn /\ Rook \in Pieces /\ King # Rook /\ King # None
      /\ b.stm \in Sides /\ Opposite(b.stm) \in Sides
  BY StmOf, Numbers
<1>3. q \in Squares /\ b.square[q] = King /\ q \in b.side[sd] /\ \A s \in Sides : q \in b.side[s] => s = sd
  BY <1>2, ManOn
<1>4. q \notin Goes(mv, b.stm)
  <2>1. ASSUME IsCastling(mv), q = Tower(mv, b.stm).RookFr
        PROVE  FALSE
    <3>1. q \in PieceSd(b, Rook, b.stm)
      BY <2>1 DEF Fits, TowerFits
    <3> QED
      BY <1>2, <1>3, <3>1, ManOn
  <2> QED
    BY <2>1 DEF Goes
<1>5. mv.fr \in PieceSd(b, mv.pc, b.stm) /\ mv.pc \in Pieces /\ mv.to \notin b.side[b.stm]
  BY DEF Fits
<1>6. mv.fr \in Squares /\ b.square[mv.fr] = mv.pc /\ mv.fr \in b.side[b.stm]
  BY <1>2, <1>5, ManOn
<1>7. q # mv.to
  <2>1. ASSUME q = mv.to
        PROVE  FALSE
    <3>1. ~IsEnPassant(b, mv)
      BY <1>2, <1>3, <2>1 DEF Fits
    <3> QED
      BY <1>3, <2>1, <3>1 DEF Fits
  <2> QED
    BY <2>1
<1>8. CASE q # mv.fr
  BY <1>1, <1>2, <1>4, <1>7, <1>8, StayingMan
<1>9. CASE q = mv.fr
  <2>1. mv.pc = King /\ sd = b.stm
    BY <1>2, <1>3, <1>6, <1>9
  <2>2. Arrived(mv) = King
    BY <1>2, <2>1 DEF Arrived, Fits
  <2> QED
    BY <2>1, <2>2, MovedMan
<1> QED
  BY <1>8, <1>9

LEMMA MoveRights ==
  ASSUME NEW b, Sound(b), RightsHold(b), NEW mv, Fits(b, mv), NEW o, Sound(o), Moved(b, mv, o),
         Recorded(b, mv, o)
  PROVE  RightsHold(o)
<1> SUFFICES ASSUME NEW i \in o.copy.flags
             PROVE  CastleOk(o, i)
  BY DEF RightsHold
<1>1. i \in b.copy.flags /\ i \notin CastleMask(mv.fr) /\ i \notin CastleMask(mv.to) /\ i \in 0..3
  <2>1. i \in 0..3
    BY DEF Sound, BoardSet, CopySet
  <2> QED
    BY <2>1 DEF Recorded
<1>2. PICK sd \in Sides, wg \in {0, 1} : i = CastleIndex(sd, wg)
  <2>1. i = 0 \/ i = 1 \/ i = 2 \/ i = 3
    BY <1>1
  <2>2. CastleIndex(0, 0) = 0 /\ CastleIndex(0, 1) = 1 /\ CastleIndex(1, 0) = 2 /\ CastleIndex(1, 1) = 3
    BY DEF CastleIndex
  <2>3. 0 \in Sides /\ 1 \in Sides /\ 0 \in {0, 1} /\ 1 \in {0, 1}
    BY Numbers
  <2> QED
    BY <2>1, <2>2, <2>3
<1>3. PICK kf \in Squares, rf \in Squares : i \div 2 = sd /\ kf = Castle(i).KingFr /\ rf = Castle(i).RookFr
  BY <1>2, CastleIs
<1>4. mv.fr # kf /\ mv.fr # rf /\ mv.to # kf /\ mv.to # rf
  BY <1>1, <1>3 DEF CastleMask
<1>5. /\ King \in Pieces /\ Rook \in Pieces /\ King # Pawn /\ Rook # Pawn /\ b.stm \in Sides
  BY StmOf, Numbers
<1>6. kf \in PieceSd(b, King, sd) /\ rf \in PieceSd(b, Rook, sd)
  <2>1. SquareIs(b, kf, King, sd) /\ SquareIs(b, rf, Rook, sd)
    BY <1>1, <1>3 DEF RightsHold, CastleOk
  <2> QED
    BY <1>5, <2>1, RightIs
\* A king that castles has lost its rights; a rook that castles is its own.
<1>7. kf \notin Goes(mv, b.stm) /\ rf \notin Goes(mv, b.stm)
  <2> SUFFICES ASSUME IsCastling(mv)
               PROVE  kf # Tower(mv, b.stm).RookFr /\ rf # Tower(mv, b.stm).RookFr
    BY DEF Goes
  <2>1. Tower(mv, b.stm).RookFr \in PieceSd(b, Rook, b.stm)
    BY DEF Fits, TowerFits
  <2>2. Tower(mv, b.stm).RookFr \in b.side[b.stm]
    BY <1>5, <2>1, ManOn
  <2>3. sd # b.stm
    <3>1. ASSUME sd = b.stm
          PROVE  FALSE
      <4>1. mv.fr \in PieceSd(b, King, sd)
        BY <3>1 DEF Fits, IsCastling
      <4>2. b.king[sd] = mv.fr /\ b.king[sd] = kf
        BY <1>6, <4>1 DEF Sound, MenAgree, KingsAgree
      <4> QED
        BY <1>4, <4>2
    <3> QED
      BY <3>1
  <2>4. kf \notin b.side[b.stm] /\ rf \notin b.side[b.stm]
    BY <1>5, <1>6, <2>3, ManOn
  <2> QED
    BY <2>2, <2>4
<1>8. kf \in PieceSd(o, King, sd) /\ rf \in PieceSd(o, Rook, sd)
  BY <1>4, <1>5, <1>6, <1>7, StayingMan
<1>9. SquareIs(o, kf, King, sd) /\ SquareIs(o, rf, Rook, sd)
  BY <1>5, <1>8, SquareIsBack
<1> QED
  BY <1>3, <1>9, Zenon DEF CastleOk

LEMMA MovePawns ==
  ASSUME NEW b, Sound(b), PawnsInside(b), NEW mv, Fits(b, mv), PawnShape(b, mv), NEW o, Sound(o), Moved(b, mv, o)
  PROVE  PawnsInside(o)
<1> SUFFICES ASSUME NEW q \in o.piece[Pawn]
             PROVE  Rank(q) \in 1..6
  BY DEF PawnsInside
<1>1. Pawn \in Pieces /\ Pawn # None /\ Pawn # Rook /\ Pawn \notin Knight..Queen
  BY Numbers
<1>2. q \in Squares /\ o.square[q] = Pawn
  <2>1. o.piece \in [Pieces -> SUBSET Squares] /\ PiecesAgree(o)
    BY DEF Sound, BoardSet, MenAgree
  <2> QED
    BY <1>1, <2>1 DEF PiecesAgree
<1>3. CASE q = mv.to
  <2>1. Arrived(mv) = Pawn
    BY <1>2, <1>3 DEF Moved
  <2>2. mv.pc = Pawn /\ mv.pp = None
    BY <1>1, <2>1 DEF Arrived, Fits
  <2>3. ~IsPromotion(q)
    BY <1>3, <2>2 DEF PawnShape
  <2>4. Rank(q) \in 0..7
    BY <1>2, On88
  <2> QED
    BY <2>3, <2>4 DEF IsPromotion
<1>4. CASE q # mv.to
  <2>1. b.square[q] = Pawn
    BY <1>1, <1>2, <1>4, Zenon DEF Moved
  <2>2. q \in b.piece[Pawn]
    BY <1>1, <1>2, <2>1 DEF Sound, MenAgree, PiecesAgree
  <2> QED
    BY <2>2 DEF PawnsInside
<1> QED
  BY <1>3, <1>4

\* A pawn that steps twice, and the square it passes.
LEMMA TwoSteps ==
  ASSUME NEW fr \in Squares, NEW to \in Squares, NEW sd \in Sides, RankSd(fr, sd) = 1, to = fr + 2 * PawnInc(sd)
  PROVE  LET mid == (fr + to) \div 2 IN
         /\ mid = fr + PawnInc(sd) /\ mid \in Squares /\ to = mid + PawnInc(sd) /\ mid # fr /\ mid # to
         /\ RankSd(mid, Opposite(sd)) = 5 /\ ~IsPromotion(to) /\ to = mid - PawnInc(Opposite(sd))
<1>1. PICK fwd, mid, xd : fwd = PawnInc(sd) /\ mid = (fr + to) \div 2 /\ xd = Opposite(sd)
  OBVIOUS
<1>2. /\ (sd = White \/ sd = Black) /\ (sd = White => xd = Black) /\ (sd = Black => xd = White) /\ White # Black
  BY <1>1, Numbers DEF Opposite
<1>3. RankSd(fr, sd) = 1 /\ to = fr + 2 * fwd
  BY <1>1
<1> SUFFICES /\ mid = fr + fwd /\ mid \in Squares /\ to = mid + fwd /\ mid # fr /\ mid # to
             /\ RankSd(mid, xd) = 5 /\ ~IsPromotion(to) /\ to = mid - PawnInc(xd)
  BY <1>1
<1>4. PICK f \in 0..7, r \in 0..7 : fr = 8 * f + r /\ Rank(fr) = r
  BY <1>2, On88
<1>5. CASE sd = White
  <2>1. fwd = 1 /\ r = 1 /\ PawnInc(xd) = -1
    BY <1>1, <1>2, <1>3, <1>4, <1>5 DEF RankSd, PawnInc
  <2>2. to = 8 * f + 3 /\ fr = 8 * f + 1
    BY <1>3, <1>4, <2>1
  <2>3. mid = 8 * f + 2
    <3>1. fr + to = 2 * (8 * f + 2)
      BY <2>2
    <3> QED
      BY <1>1, <3>1
  <2>4. Rank(mid) = 2 /\ Rank(to) = 3
    BY <2>2, <2>3 DEF Rank
  <2>5. RankSd(mid, xd) = 5
    BY <1>2, <1>5, <2>4 DEF RankSd
  <2>6. mid \in Squares
    BY <2>3, Numbers
  <2>7. to = mid - PawnInc(xd)
    BY <2>1, <2>2, <2>3
  <2> QED
    BY <2>1, <2>2, <2>3, <2>4, <2>5, <2>6, <2>7 DEF IsPromotion
<1>6. CASE sd = Black
  <2>1. fwd = -1 /\ r = 6 /\ PawnInc(xd) = 1
    <3>1. fwd = -1 /\ PawnInc(xd) = 1 /\ RankSd(fr, sd) = 7 - r
      BY <1>1, <1>2, <1>4, <1>6 DEF RankSd, PawnInc
    <3> QED
      BY <1>3, <3>1
  <2>2. to = 8 * f + 4 /\ fr = 8 * f + 6
    <3>1. fr = 8 * f + 6
      BY <1>4, <2>1
    <3>2. to = fr + 2 * (-1)
      BY <1>3, <2>1
    <3> QED
      BY <3>1, <3>2
  <2>3. mid = 8 * f + 5
    <3>1. fr + to = 2 * (8 * f + 5)
      BY <2>2
    <3> QED
      BY <1>1, <3>1
  <2>4. Rank(mid) = 5 /\ Rank(to) = 4
    BY <2>2, <2>3 DEF Rank
  <2>5. RankSd(mid, xd) = 5
    BY <1>2, <1>6, <2>4 DEF RankSd
  <2>6. mid \in Squares
    BY <2>3, Numbers
  <2>7. mid = fr + fwd /\ to = mid + fwd /\ mid # fr /\ mid # to
    <3>0. fwd = -1 /\ f \in Int
      BY <2>1
    <3>1. fr + (-1) = 8 * f + 5
      BY <2>2
    <3>2. mid + (-1) = 8 * f + 4
      BY <2>3
    <3>3. mid # fr /\ mid # to
      BY <2>2, <2>3
    <3> QED
      BY <2>2, <2>3, <3>0, <3>1, <3>2, <3>3
  <2>8. to = mid - PawnInc(xd)
    BY <2>1, <2>2, <2>3
  <2>9. ~IsPromotion(to)
    BY <2>4 DEF IsPromotion
  <2> QED
    BY <2>5, <2>6, <2>7, <2>8, <2>9
<1> QED
  BY <1>2, <1>5, <1>6

LEMMA MoveEnPassant ==
  ASSUME NEW b, Sound(b), NEW mv, Fits(b, mv), PawnShape(b, mv), NEW o, Sound(o), Moved(b, mv, o),
         Recorded(b, mv, o), o.stm = Opposite(b.stm)
  PROVE  EpHolds(o)
<1> SUFFICES ASSUME o.copy.epSq # NoSquare
             PROVE  /\ o.copy.epSq \in Squares /\ RankSd(o.copy.epSq, o.stm) = 5 /\ o.square[o.copy.epSq] = None
                    /\ o.copy.epSq - PawnInc(o.stm) \in PieceSd(o, Pawn, Opposite(o.stm))
                    /\ PawnIsAttacked(o, o.copy.epSq, o.stm)
  BY DEF EpHolds
<1>1. o.copy.epSq = Middle(mv) /\ Steps2(b, mv, o)
  BY DEF Recorded
<1>2. mv.pc = Pawn /\ Distance(mv.to, mv.fr) = 2 /\ PawnIsAttacked(o, Middle(mv), o.stm)
  BY <1>1 DEF Steps2
<1>3. PICK fr, to, fwd, mid : fr = mv.fr /\ to = mv.to /\ fwd = PawnInc(b.stm) /\ mid = Middle(mv)
  OBVIOUS
<1>4. /\ b.stm \in Sides /\ Opposite(o.stm) = b.stm /\ fr \in Squares /\ to \in Squares
      /\ (b.stm = White \/ b.stm = Black) /\ Opposite(White) = Black /\ Opposite(Black) = White /\ White # Black
  BY <1>3, StmOf, Numbers DEF Fits, MoveSet, Opposite
<1>5. RankSd(fr, b.stm) = 1 /\ to = fr + 2 * fwd /\ b.square[fr + fwd] = None /\ (IsPromotion(to) <=> mv.pp # None)
  BY <1>2, <1>3 DEF PawnShape
<1>6. mid = fr + fwd /\ mid \in Squares /\ to = mid + fwd /\ RankSd(mid, o.stm) = 5 /\ mid # fr /\ mid # to
      /\ ~IsPromotion(to) /\ to = mid - PawnInc(o.stm)
  <2>1. o.stm = Opposite(b.stm) /\ mid = (fr + to) \div 2
    BY <1>3 DEF Middle
  <2> QED
    BY <1>3, <1>4, <1>5, <2>1, TwoSteps
<1>7. o.square[mid] = None
  <2>1. ~IsCastling(mv)
    BY <1>2, Numbers DEF IsCastling
  <2>2. Comes(mv, b.stm) = {}
    BY <2>1 DEF Comes
  <2>3. b.square[mid] = None
    BY <1>5, <1>6
  <2>4. mid # mv.to /\ mid \in Squares
    BY <1>3, <1>6
  <2> QED
    BY <2>2, <2>3, <2>4, Zenon DEF Moved
<1>8. mid - PawnInc(o.stm) = to /\ to \in PieceSd(o, Pawn, Opposite(o.stm))
  <2>1. Arrived(mv) = Pawn
    BY <1>2, <1>5, <1>6 DEF Arrived
  <2>2. to \in PieceSd(o, Pawn, b.stm)
    BY <1>3, <2>1, MovedMan
  <2> QED
    BY <1>4, <1>6, <2>2
<1> QED
  BY <1>1, <1>2, <1>3, <1>6, <1>7, <1>8

LEMMA MoveGood ==
  ASSUME NEW b, Good(b), NEW mv \in OkMoves(b), IsLegal(Move(b, mv))
  PROVE  Good(Move(b, mv))
<1>1. PICK o : o = Move(b, mv)
  OBVIOUS
<1>2. Fits(b, mv) /\ PawnShape(b, mv) /\ IsLegal(o)
  BY <1>1 DEF OkMoves
<1>3. /\ Sound(b) /\ KeysAgree(b) /\ HasKings(b) /\ RightsHold(b) /\ PawnsInside(b)
  BY DEF Good
<1>4. /\ Sound(o) /\ Moved(b, mv, o) /\ Recorded(b, mv, o) /\ o.stm = Opposite(b.stm)
      /\ o.all = o.side[White] \cup o.side[Black] /\ KeysAgree(o)
  BY <1>1, <1>2, <1>3, MoveSound
<1>5. HasKings(o) /\ RightsHold(o) /\ PawnsInside(o) /\ EpHolds(o)
  BY <1>2, <1>3, <1>4, MoveHasKings, MoveRights, MovePawns, MoveEnPassant
<1> QED
  BY <1>1, <1>2, <1>4, <1>5 DEF Good, AllIs

\* The squares decide which of them are attacked.
LEMMA IsAttackedMen ==
  ASSUME NEW b, NEW o, SameMen(b, o), o.all = b.all, NEW to, NEW sd
  PROVE  IsAttacked(o, to, sd) <=> IsAttacked(b, to, sd)
<1>1. \A pc, s : PieceSd(o, pc, s) = PieceSd(b, pc, s)
  BY DEF SameMen, PieceSd
<1>2. SliderPseudoAttacksTo(o, sd, to) = SliderPseudoAttacksTo(b, sd, to)
  BY <1>1 DEF SliderPseudoAttacksTo
<1>3. \A fr : LineIsEmpty(o, fr, to) <=> LineIsEmpty(b, fr, to)
  BY DEF LineIsEmpty
<1> QED
  BY <1>1, <1>2, <1>3 DEF IsAttacked

LEMMA SameMenGood ==
  ASSUME NEW b, Good(b), NEW o, Sound(o), SameMen(b, o), AllIs(o), o.copy.flags = b.copy.flags
  PROVE  HasKings(o) /\ RightsHold(o) /\ PawnsInside(o) /\ o.all = b.all
<1>1. \A pc, s : PieceSd(o, pc, s) = PieceSd(b, pc, s)
  BY DEF SameMen, PieceSd
<1>2. \A sq, pc, sd : SquareIs(o, sq, pc, sd) <=> SquareIs(b, sq, pc, sd)
  BY DEF SquareIs, SquareSide, SameMen
<1>3. \A i : CastleOk(o, i) <=> CastleOk(b, i)
  BY <1>2 DEF CastleOk
<1>4. HasKings(o)
  BY <1>1 DEF Good, HasKings
<1>5. RightsHold(o)
  BY <1>3 DEF Good, RightsHold
<1>6. PawnsInside(o)
  BY DEF Good, PawnsInside, SameMen
<1>7. o.all = b.all
  BY DEF Good, AllIs, SameMen
<1> QED
  BY <1>4, <1>5, <1>6, <1>7

LEMMA NullGood ==
  ASSUME NEW b, Good(b), ~IsInCheck(b)
  PROVE  Good(MoveNull(b))
<1>1. PICK o : o = MoveNull(b)
  OBVIOUS
<1>2. Sound(b) /\ KeysAgree(b)
  BY DEF Good
<1>3. /\ Sound(o) /\ SameMen(b, o) /\ o.stm = Opposite(b.stm) /\ AllIs(o)
      /\ o.copy.flags = b.copy.flags /\ o.copy.epSq = NoSquare /\ KeysAgree(o)
  BY <1>1, <1>2, NullSound
<1>4. HasKings(o) /\ RightsHold(o) /\ PawnsInside(o) /\ o.all = b.all
  BY <1>3, SameMenGood
<1>5. EpHolds(o)
  BY <1>3 DEF EpHolds
<1>6. IsLegal(o)
  <2>1. Opposite(o.stm) = b.stm /\ o.king = b.king
    BY <1>2, <1>3, StmOf DEF SameMen
  <2>2. ~IsAttacked(b, b.king[b.stm], Opposite(b.stm))
    BY DEF IsInCheck
  <2>3. ~IsAttacked(o, b.king[b.stm], Opposite(b.stm))
    BY <1>3, <1>4, <2>2, IsAttackedMen
  <2> QED
    BY <1>3, <2>1, <2>3 DEF IsLegal
<1> QED
  BY <1>1, <1>3, <1>4, <1>5, <1>6 DEF Good

LEMMA RootGood ==
  ASSUME NEW b, Good(b)
  PROVE  /\ Good(SetRoot(b)) /\ SetRoot(b).stack = b.stack /\ SetRoot(b).rootIx = Len(b.stack)
         /\ Position(SetRoot(b)) = Position(b)
<1>1. PICK n, o : n = Len(b.stack) /\ o = SetRoot(b)
  OBVIOUS
<1>2. o = [b EXCEPT !.rootIx = n]
  BY <1>1 DEF SetRoot
<1>3. Sound(b) /\ b \in BoardSet /\ KeysAgree(b)
  BY DEF Good, Sound
<1>4. n \in Nat
  BY <1>1, <1>3 DEF BoardSet
<1>5. /\ o \in BoardSet /\ SameMen(b, o) /\ o.stm = b.stm /\ o.copy = b.copy
      /\ o.all = b.all /\ o.rootIx = n /\ o.stack = b.stack
  BY <1>2, <1>3, <1>4 DEF BoardSet, SameMen
<1>6. Sound(o) /\ MenKeys(o, Pieces) = MenKeys(b, Pieces) /\ MenKeys(o, {Pawn}) = MenKeys(b, {Pawn})
      /\ Phases(o) = Phases(b)
  BY <1>3, <1>5, SameMenSound
<1>7. KeysAgree(o)
  BY <1>3, <1>5, <1>6 DEF KeysAgree
<1>8. AllIs(o)
  BY <1>5 DEF Good, AllIs, SameMen
<1>9. HasKings(o) /\ RightsHold(o) /\ PawnsInside(o)
  BY <1>5, <1>6, <1>8, SameMenGood
<1>10. EpHolds(o)
  <2>1. PieceSd(o, Pawn, Opposite(o.stm)) = PieceSd(b, Pawn, Opposite(b.stm))
    BY <1>5 DEF PieceSd, SameMen
  <2>2. PawnIsAttacked(o, b.copy.epSq, b.stm) <=> PawnIsAttacked(b, b.copy.epSq, b.stm)
    BY <1>5, PawnIsAttackedMen
  <2>3. o.square = b.square
    BY <1>5 DEF SameMen
  <2>4. EpHolds(b)
    BY DEF Good
  <2> QED
    BY <1>5, <2>1, <2>2, <2>3, <2>4, Zenon DEF EpHolds
<1>11. IsLegal(o)
  <2>1. IsAttacked(o, b.king[Opposite(b.stm)], b.stm) <=> IsAttacked(b, b.king[Opposite(b.stm)], b.stm)
    BY <1>5, IsAttackedMen
  <2>2. o.king = b.king /\ o.stm = b.stm
    BY <1>5 DEF SameMen
  <2>3. IsLegal(b)
    BY DEF Good
  <2> QED
    BY <2>1, <2>2, <2>3, Zenon DEF IsLegal
<1>12. Position(o) = Position(b)
  BY <1>5 DEF Position, SquareSide, SameMen
<1> QED
  BY <1>1, <1>5, <1>6, <1>7, <1>8, <1>9, <1>10, <1>11, <1>12 DEF Good

\* The move made from its string is the move of the generator, and it is not the null move.
LEMMA StringIs ==
  ASSUME NEW b, Good(b), NEW mv \in OkMoves(b)
  PROVE  FromString(b, mv.fr, mv.to, mv.pp) = mv /\ mv # NullMove
<1>1. Fits(b, mv) /\ PawnShape(b, mv) /\ mv \in MoveSet /\ Sound(b)
  BY DEF OkMoves, Good
<1>2. b.square[mv.fr] = mv.pc
  <2>1. b.stm \in Sides /\ mv.pc \in Pieces /\ mv.fr \in PieceSd(b, mv.pc, b.stm)
    BY <1>1, StmOf DEF Fits
  <2> QED
    BY <1>1, <2>1, ManOn
<1>3. (IF mv.pc = Pawn /\ mv.to = b.copy.epSq THEN Pawn ELSE b.square[mv.to]) = mv.cp
  BY <1>1 DEF Fits, IsEnPassant
<1>4. (IF mv.pc = Pawn /\ IsPromotion(mv.to) /\ mv.pp = None THEN Queen ELSE mv.pp) = mv.pp
  BY <1>1 DEF PawnShape
<1>5. mv = Mv(mv.fr, mv.to, mv.pc, mv.cp, mv.pp)
  BY <1>1 DEF MoveSet, Mv
<1>6. FromString(b, mv.fr, mv.to, mv.pp) = Mv(mv.fr, mv.to, mv.pc, mv.cp, mv.pp)
  BY <1>2, <1>3, <1>4, Zenon DEF FromString
<1>7. mv.pp # 0
  BY <1>1, Numbers DEF Fits
<1>8. NullMove.pp = 0
  BY DEF NullMove, Mv
<1> QED
  BY <1>5, <1>6, <1>7, <1>8

-----------------------------------------------------------------------------
(* The board that a FEN sets up. *)

FenStep(V, s) ==
  IF s = {} THEN Clear
  ELSE LET m == CHOOSE x \in s : TRUE IN SetSquare(V[s \ {m}], m[1], m[2], m[3], TRUE)

Setting(S) == CHOOSE V : V = [s \in SUBSET S |-> FenStep(V, s)]

LEMMA FoldIs ==
  ASSUME NEW S
  PROVE  FoldSet(LAMBDA m, x : SetSquare(x, m[1], m[2], m[3], TRUE), Clear, S) = Setting(S)[S]
  BY DEF FoldSet, MapThenFoldSet, Setting, FenStep

\* The first of the numbers.
LEMMA FirstIn ==
  ASSUME NEW S \in SUBSET Nat, S # {}
  PROVE  \E k \in S : \A j \in S : k <= j
<1>1. PICK k \in S : \A j \in S : ~(<<j, k>> \in OpToRel(<, Nat))
  <2>1. IsWellFoundedOn(OpToRel(<, Nat), Nat)
    BY NatLessThanWellFounded
  <2> QED
    BY <2>1, WFMin
<1>2. ASSUME NEW j \in S
      PROVE  k <= j
  <2>1. ~(j < k)
    BY <1>1, ZenonT(30) DEF OpToRel
  <2> QED
    BY <2>1
<1> QED
  BY <1>2

\* A set of men without the one that is chosen from it.
Chosen(s) == CHOOSE x \in s : TRUE

LEMMA Smaller ==
  ASSUME NEW S, IsFiniteSet(S), NEW s \in SUBSET S, s # {}
  PROVE  /\ Chosen(s) \in s /\ s \ {Chosen(s)} \in SUBSET S
         /\ Cardinality(s) \in Nat /\ Cardinality(s) # 0 /\ Cardinality(s \ {Chosen(s)}) = Cardinality(s) - 1
<1>1. Chosen(s) \in s
  BY DEF Chosen
<1>2. IsFiniteSet(s)
  BY FS_Subset
<1>3. Cardinality(s) \in Nat
  BY <1>2, FS_CardinalityType
<1>4. Cardinality(s) # 0
  BY <1>2, FS_EmptySet
<1>5. Cardinality(s \ {Chosen(s)}) = Cardinality(s) - 1
  BY <1>1, <1>2, FS_RemoveElement
<1> QED
  BY <1>1, <1>3, <1>4, <1>5

LEMMA FenStepLocal ==
  ASSUME NEW V, NEW W, NEW s, s # {} => V[s \ {Chosen(s)}] = W[s \ {Chosen(s)}]
  PROVE  FenStep(V, s) = FenStep(W, s)
  BY DEF FenStep, Chosen

\* The fold over the men is what it should be.
LEMMA SettingIs ==
  ASSUME NEW S, IsFiniteSet(S), NEW s \in SUBSET S
  PROVE  Setting(S)[s] = FenStep(Setting(S), s)
<1> DEFINE Solves(V, k) == \A t \in SUBSET S : Cardinality(t) <= k => V[t] = FenStep(V, t)
           Unsolved == {k \in Nat : \A V : ~Solves(V, k)}
           Next1(V) == [t \in SUBSET S |-> FenStep(V, t)]
<1>1. ASSUME NEW V, NEW k \in Nat, k # 0 => Solves(V, k - 1)
      PROVE  Solves(Next1(V), k)
  <2> SUFFICES ASSUME NEW t \in SUBSET S, Cardinality(t) <= k
               PROVE  FenStep(V, t) = FenStep(Next1(V), t)
    OBVIOUS
  <2>1. ASSUME t # {}
        PROVE  V[t \ {Chosen(t)}] = Next1(V)[t \ {Chosen(t)}]
    <3>1. PICK u \in SUBSET S : u = t \ {Chosen(t)}
      BY <2>1, Smaller
    <3>2. k # 0 /\ Cardinality(u) <= k - 1
      BY <2>1, <3>1, Smaller
    <3>3. V[u] = FenStep(V, u)
      BY <3>2, <1>1
    <3>4. Next1(V)[u] = FenStep(V, u)
      OBVIOUS
    <3> QED
      BY <3>1, <3>3, <3>4
  <2> HIDE DEF Next1
  <2> QED
    BY <2>1, FenStepLocal
<1>2. Unsolved = {}
  <2> SUFFICES ASSUME Unsolved # {}
               PROVE  FALSE
    OBVIOUS
  <2>1. Unsolved \in SUBSET Nat
    OBVIOUS
  <2>2. PICK k \in Unsolved : \A j \in Unsolved : k <= j
    <3> HIDE DEF Unsolved
    <3> QED
      BY <2>1, FirstIn
  <2>3. k \in Nat /\ \A V : ~Solves(V, k)
    BY <2>2
  <2>4. CASE k = 0
    <3>1. Solves(Next1(S), k)
      BY <2>3, <2>4, <1>1
    <3> QED
      BY <3>1, <2>3
  <2>5. CASE k # 0
    <3>1. k - 1 \in Nat /\ ~(k - 1 >= k)
      BY <2>3, <2>5
    <3>2. k - 1 \notin Unsolved
      <4> HIDE DEF Unsolved
      <4> QED
        BY <2>2, <3>1, <2>3
    <3>3. PICK V : Solves(V, k - 1)
      BY <3>1, <3>2
    <3>4. Solves(Next1(V), k)
      BY <3>3, <1>1, <2>3
    <3> QED
      BY <3>4, <2>3
  <2> QED
    BY <2>4, <2>5
<1>3. PICK V : Solves(V, Cardinality(S))
  <2>1. Cardinality(S) \in Nat
    BY FS_CardinalityType
  <2> QED
    BY <1>2, <2>1
<1>4. \A t \in SUBSET S : V[t] = FenStep(V, t)
  <2>1. \A t \in SUBSET S : Cardinality(t) <= Cardinality(S)
    BY FS_Subset
  <2> QED
    BY <1>3, <2>1
<1> DEFINE W == Next1(V)
<1>5. \A t \in SUBSET S : W[t] = V[t]
  BY <1>4
<1>6. \A t \in SUBSET S : FenStep(W, t) = FenStep(V, t)
  <2> HIDE DEF W
  <2> SUFFICES ASSUME NEW t \in SUBSET S
               PROVE  FenStep(W, t) = FenStep(V, t)
    OBVIOUS
  <2>1. t # {} => t \ {Chosen(t)} \in SUBSET S
    OBVIOUS
  <2> QED
    BY <1>5, <2>1, FenStepLocal
<1>7. W = [t \in SUBSET S |-> FenStep(W, t)]
  <2> HIDE DEF W
  <2>1. W = [t \in SUBSET S |-> FenStep(V, t)]
    BY DEF W
  <2> QED
    BY <2>1, <1>6
<1>8. Setting(S) = [t \in SUBSET S |-> FenStep(Setting(S), t)]
  <2> HIDE DEF W
  <2> QED
    BY <1>7 DEF Setting
<1> QED
  BY <1>8

-----------------------------------------------------------------------------

LEMMA ClearSound ==
  /\ Sound(Clear) /\ KeysAgree(Clear) /\ Clear.stm = White /\ Clear.rootIx = 0 /\ Clear.stack = << >>
  /\ Clear.copy.epSq = NoSquare /\ Clear.copy.moves = 0 /\ Clear.copy.recap = NoSquare /\ Clear.copy.flags = {}
  /\ \A q \in Squares : Clear.square[q] = None /\ \A s \in Sides : q \notin Clear.side[s]
<1>1. PICK b : b = Clear
  OBVIOUS
<1>2. /\ b.piece = [pc \in Pieces |-> {}] /\ b.side = [sd \in Sides |-> {}] /\ b.all = {}
      /\ b.king = [sd \in Sides |-> NoSquare] /\ b.count = [p \in P12s |-> 0]
      /\ b.square = [sq \in Squares |-> None] /\ b.stm = White /\ b.rootIx = 0 /\ b.stack = << >>
  BY <1>1 DEF Clear
<1>3. PICK c : c = b.copy
  OBVIOUS
<1>4. c = [key |-> {}, pawnKey |-> {}, flags |-> {}, epSq |-> NoSquare, moves |-> 0, recap |-> NoSquare, phase |-> 0]
  BY <1>1, <1>3 DEF Clear
<1>5. /\ c \in CopySet /\ c.key = {} /\ c.pawnKey = {} /\ c.flags = {} /\ c.epSq = NoSquare /\ c.moves = 0
      /\ c.recap = NoSquare /\ c.phase = 0
  BY <1>4 DEF CopySet
<1>6. /\ b.piece \in [Pieces -> SUBSET Squares] /\ b.side \in [Sides -> SUBSET Squares] /\ b.all \in SUBSET Squares
      /\ b.king \in [Sides -> Squares \cup {NoSquare}] /\ b.count \in [P12s -> Int]
      /\ b.square \in [Squares -> 0..6] /\ b.stm \in Sides /\ b.rootIx \in Nat /\ b.stack \in Seq(UndoSet)
  BY <1>2, Numbers
<1>7. b \in BoardSet
  <2>1. b = [piece |-> b.piece, side |-> b.side, all |-> b.all, king |-> b.king, count |-> b.count,
             square |-> b.square, stm |-> b.stm, copy |-> c, rootIx |-> b.rootIx, stack |-> b.stack]
    <3>1. c = [key |-> {}, pawnKey |-> {}, flags |-> {}, epSq |-> NoSquare, moves |-> 0, recap |-> NoSquare,
               phase |-> 0]
      BY <1>4
    <3> QED
      BY <1>1, <1>2, <3>1, Zenon DEF Clear
  <2> QED
    BY <1>5, <1>6, <2>1 DEF BoardSet
<1>8. \A pc, sd : pc \in Pieces /\ sd \in Sides => PieceSd(b, pc, sd) = {}
  BY <1>2 DEF PieceSd
<1>9. /\ Pawn \in Pieces /\ Knight \in Pieces /\ Bishop \in Pieces /\ Rook \in Pieces /\ Queen \in Pieces /\ King \in Pieces
      /\ White \in Sides /\ Black \in Sides /\ None \notin Pieces
  BY Numbers
<1>10. SidesAgree(b)
  BY <1>2 DEF SidesAgree
<1>11. PiecesAgree(b)
  BY <1>2, <1>9 DEF PiecesAgree
<1>12. KingsAgree(b)
  BY <1>8, <1>9 DEF KingsAgree
<1>13. CountsAgree(b)
  <2> SUFFICES ASSUME NEW pc \in Pieces, NEW sd \in Sides
               PROVE  b.count[MakeP12(pc, sd)] = Cardinality(PieceSd(b, pc, sd))
    BY DEF CountsAgree
  <2>1. MakeP12(pc, sd) \in P12s
    BY Numbers DEF MakeP12
  <2>2. b.count[MakeP12(pc, sd)] = 0
    BY <1>2, <2>1
  <2> QED
    BY <1>8, <2>2, FS_EmptySet
<1>14. MenKeys(b, Pieces) = {} /\ MenKeys(b, {Pawn}) = {}
  BY <1>8, <1>9 DEF MenKeys
<1>15. Phases(b) = 0
  <2>1. \A pc \in Pieces : Both(b, pc) = 0
    <3> SUFFICES ASSUME NEW pc \in Pieces
                 PROVE  Both(b, pc) = 0
      OBVIOUS
    <3>1. MakeP12(pc, White) \in P12s /\ MakeP12(pc, Black) \in P12s
      BY Numbers DEF MakeP12
    <3> QED
      BY <1>2, <3>1 DEF Both
  <2> QED
    BY <1>9, <2>1 DEF Phases
<1>16. KeysAgree(b)
  <2>1. StmKey(b.stm) = {}
    BY <1>2 DEF StmKey
  <2>2. SymDiff({}, {}) = {}
    BY DEF SymDiff
  <2> QED
    BY <1>3, <1>5, <1>14, <1>15, <2>1, <2>2 DEF KeysAgree
<1>17. \A q \in Squares : b.square[q] = None /\ \A s \in Sides : q \notin b.side[s]
  BY <1>2
<1> QED
  BY <1>1, <1>2, <1>3, <1>5, <1>7, <1>10, <1>11, <1>12, <1>13, <1>16, <1>17 DEF Sound, MenAgree

\* The men of b are those of the set.
Stands(b, men) ==
  \A q \in Squares :
    /\ \A m \in men : m[3] = q => b.square[q] = m[1] /\ q \in b.side[m[2]]
    /\ \A s \in Sides : q \in b.side[s] => \E m \in men : m[3] = q /\ m[2] = s

\* A man to a square and a king to a side.
MenOk(men) ==
  /\ men \subseteq Pieces \X Sides \X Squares
  /\ \A m, n \in men : m[3] = n[3] \/ (m[1] = King /\ n[1] = King /\ m[2] = n[2]) => m = n

LEMMA MenFinite ==
  ASSUME NEW S, MenOk(S)
  PROVE  IsFiniteSet(S)
<1>1. IsFiniteSet(0..63)
  <2>1. 0 \in Int /\ 63 \in Int
    OBVIOUS
  <2> QED
    BY <2>1, FS_Interval, Zenon
<1>2. PICK f : f = [m \in S |-> m[3]]
  OBVIOUS
<1>3. f \in [S -> 0..63]
  <2>1. \A m \in S : m[3] \in 0..63
    BY Numbers DEF MenOk
  <2> QED
    BY <1>2, <2>1
<1>4. \A m, n \in S : f[m] = f[n] => m = n
  BY <1>2 DEF MenOk
<1>5. f \in Injection(S, 0..63)
  BY <1>3, <1>4 DEF Injection, IsInjective
<1> QED
  BY <1>1, <1>5, FS_Injection

\* One man more.
SetWell(o, men) ==
  /\ Sound(o) /\ KeysAgree(o) /\ o.stm = White /\ o.rootIx = 0 /\ o.stack = << >> /\ Stands(o, men)
  /\ o.copy.recap = NoSquare

LEMMA OneManMore ==
  ASSUME NEW S, MenOk(S), NEW t \in SUBSET S, NEW m \in t, NEW b, SetWell(b, t \ {m})
  PROVE  SetWell(SetSquare(b, m[1], m[2], m[3], TRUE), t)
<1>1. PICK pc, sd, sq : pc = m[1] /\ sd = m[2] /\ sq = m[3]
  OBVIOUS
<1>2. pc \in Pieces /\ sd \in Sides /\ sq \in Squares /\ m \in S
  BY <1>1 DEF MenOk
<1>3. \A n \in t \ {m} : n[3] # sq /\ ~(n[1] = King /\ pc = King /\ n[2] = sd) /\ n[3] \in Squares
  BY <1>1 DEF MenOk
<1>4. Sound(b) /\ KeysAgree(b) /\ Stands(b, t \ {m})
  BY DEF SetWell
<1>5. b.square[sq] = None
  <2>1. \A s \in Sides : sq \notin b.side[s]
    BY <1>2, <1>3, <1>4 DEF Stands
  <2> QED
    BY <1>2, <1>4, <2>1, EmptyOn
<1>6. ASSUME pc = King
      PROVE  PieceSd(b, King, sd) = {}
  <2> SUFFICES ASSUME NEW q \in PieceSd(b, King, sd)
               PROVE  FALSE
    OBVIOUS
  <2>1. q \in Squares /\ b.square[q] = King /\ q \in b.side[sd]
    BY <1>2, <1>4, ManOn, Numbers
  <2>2. PICK n \in t \ {m} : n[3] = q /\ n[2] = sd
    BY <1>2, <1>4, <2>1 DEF Stands
  <2>3. n[1] = King
    BY <1>4, <2>1, <2>2 DEF Stands
  <2> QED
    BY <1>3, <1>6, <2>2, <2>3
<1>7. PICK o : o = SetSquare(b, pc, sd, sq, TRUE)
  OBVIOUS
<1>8. Sound(o) /\ Puts(b, pc, sd, sq, o) /\ Keeps(b, o) /\ KeysAgree(o)
  BY <1>2, <1>4, <1>5, <1>6, <1>7, SetSquareSound
<1>9. Stands(o, t)
  <2> SUFFICES ASSUME NEW q \in Squares
               PROVE  /\ \A n \in t : n[3] = q => o.square[q] = n[1] /\ q \in o.side[n[2]]
                      /\ \A s \in Sides : q \in o.side[s] => \E n \in t : n[3] = q /\ n[2] = s
    BY DEF Stands
  <2>1. ASSUME NEW n \in t, n[3] = q
        PROVE  o.square[q] = n[1] /\ q \in o.side[n[2]]
    <3>1. CASE n = m
      BY <1>1, <1>2, <1>8, <2>1, <3>1 DEF Puts
    <3>2. CASE n # m
      <4>1. n \in t \ {m} /\ q # sq /\ n[2] \in Sides
        BY <1>3, <2>1, <3>2 DEF MenOk
      <4>2. b.square[q] = n[1] /\ q \in b.side[n[2]]
        BY <1>4, <2>1, <4>1 DEF Stands
      <4> QED
        BY <1>8, <4>1, <4>2 DEF Puts
    <3> QED
      BY <3>1, <3>2
  <2>2. ASSUME NEW s \in Sides, q \in o.side[s]
        PROVE  \E n \in t : n[3] = q /\ n[2] = s
    <3>1. q \in b.side[s] \/ (q = sq /\ s = sd)
      BY <1>8, <2>2 DEF Puts
    <3>2. CASE q \in b.side[s]
      BY <1>4, <2>2, <3>2 DEF Stands
    <3>3. CASE q = sq /\ s = sd
      BY <1>1, <3>3
    <3> QED
      BY <3>1, <3>2, <3>3
  <2> QED
    BY <2>1, <2>2
<1>10. o.stm = White /\ o.rootIx = 0 /\ o.stack = << >> /\ o.copy.recap = NoSquare
  BY <1>8 DEF SetWell, Keeps, Others, Rest
<1> QED
  BY <1>1, <1>7, <1>8, <1>9, <1>10, Zenon DEF SetWell

LEMMA MenAreSet ==
  ASSUME NEW S, MenOk(S)
  PROVE  SetWell(Setting(S)[S], S)
<1>1. IsFiniteSet(S)
  BY MenFinite
<1> DEFINE Wrong == {k \in Nat : \E t \in SUBSET S : Cardinality(t) = k /\ ~SetWell(Setting(S)[t], t)}
<1>2. Wrong = {}
  <2> SUFFICES ASSUME Wrong # {}
               PROVE  FALSE
    OBVIOUS
  <2>1. Wrong \in SUBSET Nat
    OBVIOUS
  <2>2. PICK k \in Wrong : \A j \in Wrong : k <= j
    <3> HIDE DEF Wrong
    <3> QED
      BY <2>1, FirstIn
  <2>3. PICK t \in SUBSET S : Cardinality(t) = k /\ ~SetWell(Setting(S)[t], t)
    BY <2>2
  <2>4. CASE t = {}
    <3>1. Setting(S)[t] = Clear
      BY <1>1, <2>4, SettingIs DEF FenStep
    <3>2. Stands(Clear, t)
      BY <2>4, ClearSound DEF Stands
    <3> QED
      BY <2>3, <3>1, <3>2, ClearSound DEF SetWell
  <2>5. CASE t # {}
    <3>1. PICK m, u : m = Chosen(t) /\ u = t \ {m}
      OBVIOUS
    <3>2. m \in t /\ u \in SUBSET S /\ Cardinality(u) = k - 1 /\ k \in Nat /\ k # 0
      BY <1>1, <2>3, <2>5, <3>1, Smaller
    <3>3. SetWell(Setting(S)[u], u)
      <4>1. k - 1 \in Nat /\ ~(k <= k - 1)
        BY <3>2
      <4>2. k - 1 \notin Wrong
        <5> HIDE DEF Wrong
        <5> QED
          BY <2>2, <4>1
      <4> QED
        BY <3>2, <4>1, <4>2
    <3>4. Setting(S)[t] = SetSquare(Setting(S)[u], m[1], m[2], m[3], TRUE)
      <4>1. Setting(S)[t] = FenStep(Setting(S), t)
        BY <1>1, SettingIs
      <4> QED
        BY <2>5, <3>1, <4>1 DEF FenStep, Chosen
    <3> QED
      BY <2>3, <3>1, <3>2, <3>3, <3>4, OneManMore
  <2> QED
    BY <2>4, <2>5
<1>3. Cardinality(S) \in Nat
  BY <1>1, FS_CardinalityType
<1> QED
  BY <1>2, <1>3

\* Everything that a FEN says is on the board that it sets up.
FenSays(fen, o) ==
  /\ Sound(o) /\ KeysAgree(o) /\ AllIs(o) /\ Stands(o, fen.men) /\ o.stm = fen.stm /\ o.rootIx = 0
  /\ o.stack = << >> /\ o.copy.flags = {i \in fen.flags : CastleOk(o, i)} /\ o.copy.moves = fen.moves
  /\ o.copy.epSq = IF fen.epSq # NoSquare /\ PawnIsAttacked(o, fen.epSq, fen.stm) THEN fen.epSq ELSE NoSquare
  /\ o.copy.recap = NoSquare

LEMMA FenSaysIt ==
  ASSUME NEW fen, MenOk(fen.men), fen.stm \in Sides, fen.flags \subseteq 0..3, fen.moves \in Nat,
         fen.epSq \in Squares \cup {NoSquare}
  PROVE  FenSays(fen, SetFen(fen))
<1>1. PICK men : men = Setting(fen.men)[fen.men]
  OBVIOUS
<1>2. SetWell(men, fen.men)
  BY <1>1, MenAreSet
<1>3. Sound(men) /\ men \in BoardSet /\ men.copy \in CopySet
  BY <1>2 DEF SetWell, Sound, BoardSet
<1>4. PICK c, key, flags, epSq :
        /\ c = men.copy /\ key = SymDiff(c.key, StmKey(fen.stm))
        /\ flags = {i \in fen.flags : CastleOk(men, i)}
        /\ epSq = IF fen.epSq # NoSquare /\ PawnIsAttacked(men, fen.epSq, fen.stm) THEN fen.epSq ELSE NoSquare
  OBVIOUS
<1>5. PICK copy : copy = [c EXCEPT !.key = key, !.flags = flags, !.epSq = epSq, !.moves = fen.moves]
  OBVIOUS
<1>6. key \in SUBSET Nat /\ flags \in SUBSET (0..3) /\ epSq \in Squares \cup {NoSquare}
  <2>1. c.key \in SUBSET Nat
    BY <1>3, <1>4 DEF CopySet
  <2>2. StmKey(fen.stm) \in SUBSET Nat
    BY Numbers DEF StmKey
  <2>3. key \in SUBSET Nat
    BY <1>4, <2>1, <2>2 DEF SymDiff
  <2> QED
    BY <1>4, <2>3
<1>7. /\ copy \in CopySet /\ copy.key = key /\ copy.pawnKey = c.pawnKey /\ copy.phase = c.phase
      /\ copy.flags = flags /\ copy.epSq = epSq /\ copy.moves = fen.moves /\ copy.recap = c.recap
  BY <1>3, <1>4, <1>5, <1>6, ZenonT(40) DEF CopySet
<1>8. PICK stm, x : stm = fen.stm /\ x = [men EXCEPT !.stm = stm, !.copy = copy]
  OBVIOUS
<1>9. /\ x \in BoardSet /\ SameMen(men, x) /\ x.stm = stm /\ x.copy = copy
      /\ x.rootIx = men.rootIx /\ x.stack = men.stack
  BY <1>3, <1>7, <1>8 DEF BoardSet, SameMen
<1>10. SetFen(fen) = Update(x)
  <2>1. FoldSet(LAMBDA m, y : SetSquare(y, m[1], m[2], m[3], TRUE), Clear, fen.men) = men
    BY <1>1, FoldIs
  <2>2. c.key = men.copy.key
    BY <1>4
  <2>3. [c EXCEPT !.key = SymDiff(@, StmKey(fen.stm)),
                 !.flags = {i \in fen.flags : CastleOk(men, i)},
                 !.epSq = IF fen.epSq # NoSquare /\ PawnIsAttacked(men, fen.epSq, fen.stm)
                          THEN fen.epSq ELSE NoSquare,
                 !.moves = fen.moves] = copy
    BY <1>4, <1>5, Zenon
  <2> QED
    BY <1>4, <1>8, <2>1, <2>3, Zenon DEF SetFen
<1>11. Sound(x) /\ MenKeys(x, Pieces) = MenKeys(men, Pieces) /\ MenKeys(x, {Pawn}) = MenKeys(men, {Pawn})
       /\ Phases(x) = Phases(men)
  BY <1>3, <1>9, SameMenSound
<1>12. KeysAgree(x)
  <2>1. PICK X : X = MenKeys(men, Pieces)
    OBVIOUS
  <2>2. StmKey(men.stm) = {} /\ KeysAgree(men)
    BY <1>2 DEF StmKey, SetWell
  <2>3. c.key = X
    <3>1. c.key = SymDiff(X, {})
      BY <1>4, <2>1, <2>2 DEF KeysAgree
    <3> QED
      BY <3>1 DEF SymDiff
  <2>4. x.copy.key = SymDiff(MenKeys(x, Pieces), StmKey(x.stm))
    BY <1>4, <1>7, <1>8, <1>9, <1>11, <2>1, <2>3
  <2> QED
    BY <1>4, <1>7, <1>9, <1>11, <2>2, <2>4 DEF KeysAgree
<1>13. PICK o : o = Update(x)
  OBVIOUS
<1>14. /\ Sound(o) /\ SameMen(x, o) /\ o.stm = x.stm /\ o.copy = x.copy
       /\ o.all = x.side[White] \cup x.side[Black]
       /\ o.rootIx = x.rootIx /\ o.stack = x.stack /\ (KeysAgree(x) => KeysAgree(o))
  BY <1>11, <1>13, UpdateSound
<1>15. SameMen(men, o)
  BY <1>9, <1>14 DEF SameMen
<1>16. \A i : CastleOk(o, i) <=> CastleOk(men, i)
  BY <1>15 DEF CastleOk, SquareIs, SquareSide, SameMen
<1>17. PawnIsAttacked(o, fen.epSq, fen.stm) <=> PawnIsAttacked(men, fen.epSq, fen.stm)
  BY <1>15, PawnIsAttackedMen
<1>18. Stands(o, fen.men)
  BY <1>2, <1>15 DEF Stands, SetWell, SameMen
<1>19. AllIs(o)
  BY <1>14 DEF AllIs, SameMen
<1>20. o.copy.flags = {i \in fen.flags : CastleOk(o, i)}
  BY <1>4, <1>7, <1>9, <1>14, <1>16
<1>21. o.copy.epSq = IF fen.epSq # NoSquare /\ PawnIsAttacked(o, fen.epSq, fen.stm) THEN fen.epSq ELSE NoSquare
  BY <1>4, <1>7, <1>9, <1>14, <1>17
<1>22. /\ o.stm = fen.stm /\ o.rootIx = 0 /\ o.stack = << >> /\ o.copy.moves = fen.moves /\ o.copy.recap = NoSquare
  BY <1>2, <1>4, <1>7, <1>8, <1>9, <1>14 DEF SetWell
<1> QED
  BY <1>10, <1>12, <1>13, <1>14, <1>18, <1>19, <1>20, <1>21, <1>22 DEF FenSays

\* A man of the FEN, on the bitboards.
LEMMA FenMan ==
  ASSUME NEW fen, NEW o, Sound(o), MenOk(fen.men), Stands(o, fen.men), NEW pc, NEW sd, NEW sq
  PROVE  /\ <<pc, sd, sq>> \in fen.men => sq \in PieceSd(o, pc, sd)
         /\ sq \in Squares /\ o.square[sq] # None =>
              \E m \in fen.men : m = <<o.square[sq], m[2], sq>> /\ sq \in o.side[m[2]]
<1>1. ASSUME <<pc, sd, sq>> \in fen.men
      PROVE  sq \in PieceSd(o, pc, sd)
  <2>1. PICK m \in fen.men : m = <<pc, sd, sq>>
    BY <1>1
  <2>2. m[1] = pc /\ m[2] = sd /\ m[3] = sq /\ pc \in Pieces /\ sd \in Sides /\ sq \in Squares
    BY <2>1 DEF MenOk
  <2>3. o.square[sq] = pc /\ sq \in o.side[sd]
    BY <2>2 DEF Stands
  <2> QED
    BY <2>2, <2>3, ManOn
<1>2. ASSUME sq \in Squares, o.square[sq] # None
      PROVE  \E m \in fen.men : m = <<o.square[sq], m[2], sq>> /\ sq \in o.side[m[2]]
  <2>1. PICK s \in Sides : sq \in o.side[s]
    BY <1>2, EmptyOn
  <2>2. PICK m \in fen.men : m[3] = sq /\ m[2] = s
    BY <1>2, <2>1 DEF Stands
  <2>3. o.square[sq] = m[1] /\ sq \in o.side[m[2]]
    BY <1>2, <2>2 DEF Stands
  <2>4. m = <<m[1], m[2], m[3]>>
    BY DEF MenOk
  <2> QED
    BY <2>2, <2>3, <2>4
<1> QED
  BY <1>1, <1>2

LEMMA FenGood ==
  ASSUME NEW fen, FenOk(fen)
  PROVE  Good(SetFen(fen)) /\ SetFen(fen).stack = << >> /\ SetFen(fen).rootIx = 0
<1>1. PICK o : o = SetFen(fen)
  OBVIOUS
<1>2. MenOk(fen.men) /\ fen.stm \in Sides
  BY DEF FenOk, MenOk
<1>3. FenSays(fen, o)
  <2>1. fen.epSq \in Squares \cup {NoSquare}
    BY DEF FenOk
  <2> QED
    BY <1>1, <1>2, <2>1, FenSaysIt DEF FenOk
<1>4. Sound(o) /\ KeysAgree(o) /\ AllIs(o) /\ Stands(o, fen.men) /\ o.stm = fen.stm
  BY <1>3 DEF FenSays
<1>5. HasKings(o)
  <2> SUFFICES ASSUME NEW sd \in Sides
               PROVE  PieceSd(o, King, sd) # {}
    BY DEF HasKings
  <2>1. PICK m \in fen.men : m[1] = King /\ m[2] = sd
    BY DEF FenOk
  <2>2. m = <<King, sd, m[3]>>
    BY <1>2, <2>1 DEF MenOk
  <2>3. m[3] \in PieceSd(o, King, sd)
    BY <1>2, <1>4, <2>1, <2>2, FenMan
  <2> QED
    BY <2>3
<1>6. RightsHold(o)
  BY <1>3 DEF FenSays, RightsHold
<1>7. EpHolds(o)
  <2> SUFFICES ASSUME o.copy.epSq # NoSquare
               PROVE  /\ o.copy.epSq \in Squares /\ RankSd(o.copy.epSq, o.stm) = 5 /\ o.square[o.copy.epSq] = None
                      /\ o.copy.epSq - PawnInc(o.stm) \in PieceSd(o, Pawn, Opposite(o.stm))
                      /\ PawnIsAttacked(o, o.copy.epSq, o.stm)
    BY DEF EpHolds
  <2>1. PICK sq : sq = fen.epSq
    OBVIOUS
  <2>2. o.copy.epSq = sq /\ sq # NoSquare /\ PawnIsAttacked(o, sq, fen.stm)
    BY <1>3, <2>1 DEF FenSays
  <2>3. /\ sq \in Squares /\ RankSd(sq, fen.stm) = 5 /\ \A m \in fen.men : m[3] # sq
        /\ <<Pawn, Opposite(fen.stm), sq - PawnInc(fen.stm)>> \in fen.men
    BY <2>1, <2>2 DEF FenOk
  <2>4. o.square[sq] = None
    <3>1. \A s \in Sides : sq \notin o.side[s]
      BY <1>4, <2>3 DEF Stands
    <3> QED
      BY <1>4, <2>3, <3>1, EmptyOn
  <2>5. sq - PawnInc(fen.stm) \in PieceSd(o, Pawn, Opposite(fen.stm))
    BY <1>2, <1>4, <2>3, FenMan
  <2> QED
    BY <1>4, <2>2, <2>3, <2>4, <2>5
<1>8. PawnsInside(o)
  <2> SUFFICES ASSUME NEW q \in o.piece[Pawn]
               PROVE  Rank(q) \in 1..6
    BY DEF PawnsInside
  <2>1. q \in Squares /\ o.square[q] = Pawn /\ Pawn # None
    <3>1. o.piece \in [Pieces -> SUBSET Squares]
      BY <1>4 DEF Sound, BoardSet
    <3>2. PiecesAgree(o)
      BY <1>4 DEF Sound, MenAgree
    <3> QED
      BY <3>1, <3>2, Numbers DEF PiecesAgree
  <2>2. PICK m \in fen.men : m = <<Pawn, m[2], q>>
    <3>1. o.square[q] # None
      BY <2>1
    <3>2. \E m \in fen.men : m = <<o.square[q], m[2], q>>
      BY <1>2, <1>4, <2>1, <3>1, FenMan, ZenonT(40)
    <3> QED
      BY <2>1, <3>2
  <2>3. m[1] = Pawn /\ m[3] = q
    BY <2>2
  <2>4. ~IsPromotion(q)
    BY <2>3 DEF FenOk
  <2>5. Rank(q) \in 0..7
    BY <2>1, On88
  <2> QED
    BY <2>4, <2>5 DEF IsPromotion
<1>9. IsLegal(o)
  BY <1>1 DEF FenOk
<1> QED
  BY <1>1, <1>3, <1>4, <1>5, <1>6, <1>7, <1>8, <1>9 DEF Good, FenSays

-----------------------------------------------------------------------------
(* The board of a game and the board that its own FEN sets up. *)

\* The side of an occupied square.
LEMMA SideOf ==
  ASSUME NEW b, Sound(b), NEW q \in Squares
  PROVE  /\ SquareSide(b, q) \in Sides
         /\ b.square[q] # None => q \in b.side[SquareSide(b, q)]
         /\ \A s \in Sides : q \in b.side[s] => s = SquareSide(b, q) /\ b.square[q] # None
<1>1. White \in Sides /\ Black \in Sides /\ \A s \in Sides : s = White \/ s = Black
  BY DEF Sides
<1>2. SidesAgree(b)
  BY DEF Sound, MenAgree
<1>3. SquareSide(b, q) \in Sides
  BY <1>1 DEF SquareSide
<1>4. ASSUME b.square[q] # None
      PROVE  q \in b.side[SquareSide(b, q)]
  <2>1. PICK s \in Sides : q \in b.side[s]
    BY <1>4, EmptyOn
  <2> QED
    BY <1>1, <2>1 DEF SquareSide
<1>5. ASSUME NEW s \in Sides, q \in b.side[s]
      PROVE  s = SquareSide(b, q) /\ b.square[q] # None
  <2>1. b.square[q] # None
    BY <1>5, EmptyOn
  <2>2. q \in b.side[SquareSide(b, q)]
    BY <1>4, <2>1
  <2> QED
    BY <1>2, <1>3, <1>5, <2>1, <2>2 DEF SidesAgree
<1> QED
  BY <1>3, <1>4, <1>5

LEMMA CreateFenOk ==
  ASSUME NEW b, Good(b)
  PROVE  /\ MenOk(CreateFen(b).men)
         /\ \A m \in CreateFen(b).men :
              m[3] \in Squares /\ b.square[m[3]] # None /\ m[1] = b.square[m[3]] /\ m[2] = SquareSide(b, m[3])
         /\ \A q \in Squares : b.square[q] # None => <<b.square[q], SquareSide(b, q), q>> \in CreateFen(b).men
<1>1. PICK men : men = CreateFen(b).men
  OBVIOUS
<1>2. men = {<<b.square[sq], SquareSide(b, sq), sq>> : sq \in {s \in Squares : b.square[s] # None}}
  BY <1>1 DEF CreateFen
<1>3. Sound(b)
  BY DEF Good
<1>4. \A m \in men : \E q \in Squares : b.square[q] # None /\ m = <<b.square[q], SquareSide(b, q), q>>
  BY <1>2
<1>5. \A m \in men :
        m[3] \in Squares /\ b.square[m[3]] # None /\ m[1] = b.square[m[3]] /\ m[2] = SquareSide(b, m[3])
        /\ m = <<m[1], m[2], m[3]>>
  BY <1>4
<1>6. \A m \in men : m[1] \in Pieces /\ m[2] \in Sides
  BY <1>3, <1>5, EmptyOn, SideOf
<1>7. men \subseteq Pieces \X Sides \X Squares
  BY <1>5, <1>6
<1>8. ASSUME NEW m \in men, NEW n \in men, m[3] = n[3] \/ (m[1] = King /\ n[1] = King /\ m[2] = n[2])
      PROVE  m = n
  <2>1. ASSUME m[3] = n[3]
        PROVE  m = n
    BY <1>5, <2>1
  <2>2. ASSUME m[1] = King, n[1] = King, m[2] = n[2]
        PROVE  m[3] = n[3]
    <3>1. PICK sd \in Sides : sd = m[2]
      BY <1>6
    <3>2. m[3] \in PieceSd(b, King, sd) /\ n[3] \in PieceSd(b, King, sd)
      <4>1. /\ m[3] \in Squares /\ b.square[m[3]] = King /\ m[3] \in b.side[sd]
            /\ n[3] \in Squares /\ b.square[n[3]] = King /\ n[3] \in b.side[sd]
        BY <1>3, <1>5, <2>2, <3>1, SideOf
      <4> QED
        BY <1>3, <4>1, ManOn, Numbers
    <3> QED
      BY <1>3, <3>2 DEF Sound, MenAgree, KingsAgree
  <2> QED
    BY <1>8, <2>1, <2>2
<1>9. MenOk(men)
  BY <1>7, <1>8 DEF MenOk
<1>10. \A q \in Squares : b.square[q] # None => <<b.square[q], SquareSide(b, q), q>> \in men
  BY <1>2
<1> QED
  BY <1>1, <1>5, <1>9, <1>10

LEMMA FreshIs ==
  ASSUME NEW b, Good(b)
  PROVE  LET o == SetFen(CreateFen(b)) IN
         /\ Sound(o) /\ SameMen(b, o) /\ o.all = b.all /\ o.stm = b.stm
         /\ o.copy = [b.copy EXCEPT !.recap = NoSquare] /\ KeysAgree(o)
<1>1. PICK fen, o : fen = CreateFen(b) /\ o = SetFen(fen)
  OBVIOUS
<1>2. /\ fen.stm = b.stm /\ fen.flags = b.copy.flags /\ fen.epSq = b.copy.epSq /\ fen.moves = b.copy.moves
  BY <1>1 DEF CreateFen
<1>3. /\ MenOk(fen.men)
      /\ \A m \in fen.men :
           m[3] \in Squares /\ b.square[m[3]] # None /\ m[1] = b.square[m[3]] /\ m[2] = SquareSide(b, m[3])
      /\ \A q \in Squares : b.square[q] # None => <<b.square[q], SquareSide(b, q), q>> \in fen.men
  BY <1>1, CreateFenOk
<1>4. Sound(b) /\ b \in BoardSet /\ b.copy \in CopySet /\ b.stm \in Sides
  BY DEF Good, Sound, BoardSet
<1>5. FenSays(fen, o)
  <2>1. /\ fen.stm \in Sides /\ fen.flags \subseteq 0..3 /\ fen.moves \in Nat
        /\ fen.epSq \in Squares \cup {NoSquare}
    BY <1>2, <1>4 DEF CopySet
  <2> QED
    BY <1>1, <1>3, <2>1, FenSaysIt
<1>6. Sound(o) /\ KeysAgree(o) /\ AllIs(o) /\ Stands(o, fen.men) /\ o.stm = b.stm
  BY <1>2, <1>5 DEF FenSays
<1>7. SameSquares(b, o)
  <2> SUFFICES ASSUME NEW q \in Squares
               PROVE  o.square[q] = b.square[q] /\ \A s \in Sides : q \in o.side[s] <=> q \in b.side[s]
    BY DEF SameSquares
  <2>1. ASSUME NEW s \in Sides, q \in o.side[s]
        PROVE  q \in b.side[s]
    <3>1. PICK m \in fen.men : m[3] = q /\ m[2] = s
      BY <1>6, <2>1 DEF Stands
    <3> QED
      BY <1>3, <1>4, <3>1, SideOf
  <2>2. ASSUME b.square[q] # None
        PROVE  o.square[q] = b.square[q] /\ q \in o.side[SquareSide(b, q)]
    <3>1. PICK m \in fen.men : m = <<b.square[q], SquareSide(b, q), q>>
      BY <1>3, <2>2
    <3>2. m[1] = b.square[q] /\ m[2] = SquareSide(b, q) /\ m[3] = q
      BY <3>1
    <3> QED
      BY <1>6, <3>2 DEF Stands
  <2>3. ASSUME NEW s \in Sides, q \in b.side[s]
        PROVE  q \in o.side[s]
    <3>1. s = SquareSide(b, q) /\ b.square[q] # None
      BY <1>4, <2>3, SideOf
    <3> QED
      BY <2>2, <3>1
  <2>4. ASSUME b.square[q] = None
        PROVE  o.square[q] = None
    <3>1. \A s \in Sides : q \notin b.side[s]
      BY <1>4, <2>4, EmptyOn
    <3>2. \A s \in Sides : q \notin o.side[s]
      BY <2>1, <3>1
    <3> QED
      BY <1>6, <3>2, EmptyOn
  <2> QED
    BY <2>1, <2>2, <2>3, <2>4
<1>8. SameMen(b, o)
  BY <1>4, <1>6, <1>7, SquaresDecide DEF Good
<1>9. o.all = b.all
  BY <1>6, <1>8 DEF Good, AllIs, SameMen
<1>10. o \in BoardSet /\ o.copy \in CopySet
  BY <1>6 DEF Sound, BoardSet
<1>11. /\ MenKeys(o, Pieces) = MenKeys(b, Pieces) /\ MenKeys(o, {Pawn}) = MenKeys(b, {Pawn})
       /\ Phases(o) = Phases(b)
  BY <1>4, <1>8, <1>10, SameMenSound
<1>12. /\ o.copy.key = b.copy.key /\ o.copy.pawnKey = b.copy.pawnKey /\ o.copy.phase = b.copy.phase
  <2>1. KeysAgree(b)
    BY DEF Good
  <2> QED
    BY <1>6, <1>11, <2>1 DEF KeysAgree
<1>13. o.copy.flags = b.copy.flags
  <2>1. o.copy.flags = {i \in b.copy.flags : CastleOk(o, i)}
    BY <1>2, <1>5 DEF FenSays
  <2>2. \A i \in b.copy.flags : CastleOk(b, i)
    BY DEF Good, RightsHold
  <2>3. \A i : CastleOk(o, i) <=> CastleOk(b, i)
    BY <1>8 DEF CastleOk, SquareIs, SquareSide, SameMen
  <2> QED
    BY <2>1, <2>2, <2>3
<1>14. o.copy.epSq = b.copy.epSq
  <2>1. o.copy.epSq = IF b.copy.epSq # NoSquare /\ PawnIsAttacked(o, b.copy.epSq, b.stm) THEN b.copy.epSq ELSE NoSquare
    BY <1>2, <1>5 DEF FenSays
  <2>2. b.copy.epSq # NoSquare => PawnIsAttacked(b, b.copy.epSq, b.stm)
    BY DEF Good, EpHolds
  <2>3. PawnIsAttacked(o, b.copy.epSq, b.stm) <=> PawnIsAttacked(b, b.copy.epSq, b.stm)
    BY <1>8, PawnIsAttackedMen
  <2> QED
    BY <2>1, <2>2, <2>3
<1>15. o.copy.moves = b.copy.moves /\ o.copy.recap = NoSquare
  BY <1>2, <1>5 DEF FenSays
<1>16. o.copy = [b.copy EXCEPT !.recap = NoSquare]
  <2>1. PICK c, d : c = b.copy /\ d = o.copy
    OBVIOUS
  <2>2. c \in CopySet /\ d \in CopySet
    BY <1>4, <1>10, <2>1
  <2>3. /\ d.key = c.key /\ d.pawnKey = c.pawnKey /\ d.phase = c.phase /\ d.flags = c.flags /\ d.epSq = c.epSq
        /\ d.moves = c.moves /\ d.recap = NoSquare
    BY <1>12, <1>13, <1>14, <1>15, <2>1
  <2>4. d = [key |-> d.key, pawnKey |-> d.pawnKey, flags |-> d.flags, epSq |-> d.epSq, moves |-> d.moves,
             recap |-> d.recap, phase |-> d.phase]
    BY <2>2 DEF CopySet
  <2>5. [c EXCEPT !.recap = NoSquare] =
          [key |-> c.key, pawnKey |-> c.pawnKey, flags |-> c.flags, epSq |-> c.epSq, moves |-> c.moves,
           recap |-> NoSquare, phase |-> c.phase]
    BY <2>2 DEF CopySet
  <2>6. d = [c EXCEPT !.recap = NoSquare]
    BY <2>3, <2>4, <2>5, Zenon
  <2> QED
    BY <2>1, <2>6
<1> QED
  BY <1>1, <1>6, <1>8, <1>9, <1>16

LEMMA GoodIsConsistent ==
  ASSUME Good(bd)
  PROVE  BoardConsistent
<1>1. PICK b, fresh : b = bd /\ fresh = SetFen(CreateFen(b))
  OBVIOUS
<1>2. /\ Sound(fresh) /\ SameMen(b, fresh) /\ fresh.all = b.all /\ fresh.stm = b.stm
      /\ fresh.copy = [b.copy EXCEPT !.recap = NoSquare]
  BY <1>1, FreshIs
<1>3. Sound(b) /\ b \in BoardSet /\ b.copy \in CopySet /\ fresh \in BoardSet
  BY <1>1, <1>2 DEF Good, Sound, BoardSet
<1>4. b = [fresh EXCEPT !.stack = b.stack, !.rootIx = b.rootIx, !.copy.recap = b.copy.recap]
  <2>1. PICK c, stack, rootIx, x : /\ c = b.copy /\ stack = b.stack /\ rootIx = b.rootIx
                                   /\ x = [fresh EXCEPT !.stack = stack, !.rootIx = rootIx, !.copy = c]
    OBVIOUS
  <2>2. [fresh.copy EXCEPT !.recap = b.copy.recap] = c
    <3>1. PICK d : d = [c EXCEPT !.recap = NoSquare]
      OBVIOUS
    <3>2. c \in CopySet
      BY <1>3, <2>1
    <3>3. [d EXCEPT !.recap = c.recap] = c
      BY <3>1, <3>2 DEF CopySet
    <3> QED
      BY <1>2, <2>1, <3>1, <3>3
  <2>3. x \in BoardSet /\ SameMen(b, x) /\ x.all = b.all /\ x.stm = b.stm
        /\ x.copy = b.copy /\ x.rootIx = b.rootIx /\ x.stack = b.stack
    <3>1. stack \in Seq(UndoSet) /\ rootIx \in Nat /\ c \in CopySet
      BY <1>3, <2>1 DEF BoardSet
    <3>2. /\ x \in BoardSet /\ x.stack = stack /\ x.rootIx = rootIx /\ x.copy = c /\ SameMen(fresh, x)
          /\ x.all = fresh.all /\ x.stm = fresh.stm
      BY <1>3, <2>1, <3>1 DEF BoardSet, SameMen
    <3> QED
      BY <1>2, <2>1, <3>2 DEF SameMen
  <2>4. x = b
    BY <1>3, <2>3, FieldsDecide
  <2>5. [fresh EXCEPT !.stack = b.stack, !.rootIx = b.rootIx, !.copy.recap = b.copy.recap] =
          [fresh EXCEPT !.stack = stack, !.rootIx = rootIx, !.copy = [fresh.copy EXCEPT !.recap = b.copy.recap]]
    BY <1>3, <2>1 DEF BoardSet
  <2> QED
    BY <2>1, <2>2, <2>4, <2>5, Zenon
<1>5. \A sd \in Sides : PieceSd(b, King, sd) = {b.king[sd]}
  <2> SUFFICES ASSUME NEW sd \in Sides
               PROVE  PieceSd(b, King, sd) = {b.king[sd]}
    OBVIOUS
  <2>1. PieceSd(b, King, sd) # {}
    BY <1>1 DEF Good, HasKings
  <2>2. \A sq \in PieceSd(b, King, sd) : b.king[sd] = sq
    BY <1>3 DEF Sound, MenAgree, KingsAgree
  <2> QED
    BY <2>1, <2>2
<1>6. b.piece[Pawn] \cap (RankSet[White][0] \cup RankSet[White][7]) = {}
  <2>1. White \in Sides /\ 0 \in 0..7 /\ 7 \in 0..7
    BY Numbers
  <2>2. RankSet[White][0] = {sq \in Squares : RankSd(sq, White) = 0} /\ RankSet[White][7] = {sq \in Squares : RankSd(sq, White) = 7}
    BY <2>1 DEF RankSet
  <2>3. \A sq \in b.piece[Pawn] : Rank(sq) # 0 /\ Rank(sq) # 7
    BY <1>1 DEF Good, PawnsInside
  <2> QED
    BY <2>2, <2>3 DEF RankSd
<1>7. EvalKey(b) = SymDiff(Key(fresh), SymDiff(StmKey(b.stm), EnPassantKey(b.copy.epSq)))
  <2>1. PICK k, s, f, e : /\ k = b.copy.key /\ s = StmKey(b.stm) /\ f = FlagKey(b.copy.flags)
                          /\ e = EnPassantKey(b.copy.epSq)
    OBVIOUS
  <2>2. fresh.copy.key = k /\ fresh.copy.flags = b.copy.flags /\ fresh.copy.epSq = b.copy.epSq
    BY <1>2, <1>3, <2>1 DEF CopySet
  <2>3. Key(fresh) = SymDiff(SymDiff(k, f), e)
    BY <2>1, <2>2 DEF Key, PositionKey
  <2>4. EvalKey(b) = SymDiff(SymDiff(k, s), f)
    BY <2>1 DEF EvalKey
  <2>5. SymDiff(SymDiff(k, s), f) = SymDiff(SymDiff(SymDiff(k, f), e), SymDiff(s, e))
    BY DEF SymDiff
  <2> QED
    BY <2>1, <2>3, <2>4, <2>5
<1> QED
  BY <1>1, <1>4, <1>5, <1>6, <1>7, Zenon DEF BoardConsistent

-----------------------------------------------------------------------------
(* The game: every board since the first one, the current one the last. *)

\* The same board but for the mark of the root.
Alike(o, c) ==
  SameMen(o, c) /\ c.all = o.all /\ c.stm = o.stm /\ c.copy = o.copy /\ c.stack = o.stack

\* o is b after a legal move, or after a null move out of check.
MovesTo(b, o) ==
  \/ \E mv \in OkMoves(b) : IsLegal(Move(b, mv)) /\ o = Move(b, mv)
  \/ ~IsInCheck(b) /\ o = MoveNull(b)

StepOf(b, c) == \E o : MovesTo(b, o) /\ Alike(o, c)

Boards(h) ==
  /\ h \in [0..Len(bd.stack) -> BoardSet] /\ h[Len(bd.stack)] = bd
  /\ \A k \in 0..Len(bd.stack) : Good(h[k]) /\ h[k].stack = SubSeq(bd.stack, 1, k)
  /\ \A k \in 0..(Len(bd.stack) - 1) : StepOf(h[k], h[k + 1]) /\ past[k + 1] = Position(h[k])
  /\ \A k \in bd.rootIx..Len(bd.stack) : h[k].rootIx = bd.rootIx

GameInv ==
  /\ start \in Starts /\ rooted \in BOOLEAN
  /\ past \in Seq({Position(b) : b \in BoardSet}) /\ Len(past) = Len(bd.stack) /\ bd.rootIx <= Len(bd.stack)
  /\ \E h : Boards(h)

\* The board as Undo and UndoNull leave it.
Back(c) == IF LastUndo(c).move = NullMove THEN UndoNull(c) ELSE Undo(c)

LEMMA StepOn ==
  ASSUME NEW b, Good(b), NEW o, MovesTo(b, o)
  PROVE  /\ Good(o) /\ o.rootIx = b.rootIx /\ Back(o) = b
         /\ \E u \in UndoSet : o.stack = Append(b.stack, u)
<1>1. Sound(b) /\ HasKings(b) /\ AllIs(b)
  BY DEF Good
<1>2. CASE \E mv \in OkMoves(b) : IsLegal(Move(b, mv)) /\ o = Move(b, mv)
  <2>1. PICK mv \in OkMoves(b) : IsLegal(Move(b, mv)) /\ o = Move(b, mv)
    BY <1>2
  <2>2. Fits(b, mv)
    BY DEF OkMoves
  <2>3. o.rootIx = b.rootIx /\ o.stack = Append(b.stack, UndoOf(b, mv)) /\ UndoOf(b, mv) \in UndoSet
    BY <1>1, <2>1, <2>2, MoveSound, UndoOfType
  <2>4. LastUndo(o).move = mv
    <3>1. b.stack \in Seq(UndoSet)
      BY <1>1 DEF Sound, BoardSet
    <3>2. LastUndo(o) = UndoOf(b, mv)
      BY <2>3, <3>1, LastOf DEF LastUndo
    <3> QED
      BY <3>2 DEF UndoOf
  <2>5. mv # NullMove
    BY StringIs
  <2>6. Undo(o) = b
    BY <1>1, <2>1, <2>2, UndoMove
  <2> QED
    BY <2>1, <2>3, <2>4, <2>5, <2>6, MoveGood DEF Back
<1>3. CASE ~IsInCheck(b) /\ o = MoveNull(b)
  <2>1. o.rootIx = b.rootIx /\ o.stack = Append(b.stack, NullOf(b)) /\ NullOf(b) \in UndoSet
    BY <1>1, <1>3, NullSound
  <2>2. UndoNull(o) = b /\ LastUndo(o) = NullOf(b)
    BY <1>1, <1>3, UndoOfNull
  <2>3. LastUndo(o).move = NullMove
    BY <2>2 DEF NullOf
  <2> QED
    BY <1>3, <2>1, <2>2, <2>3, NullGood DEF Back
<1> QED
  BY <1>2, <1>3 DEF MovesTo

\* A legal move of the game is one that fits.
LEMMA TriedOk ==
  ASSUME Good(bd), NEW mv \in Tried
  PROVE  mv \in OkMoves(bd) /\ IsLegal(Move(bd, mv))
<1>1. mv \in Generated(bd) /\ IsLegalMv(bd, mv)
  BY DEF Tried, Playable, Generated
<1> QED
  BY <1>1, GeneratedOk DEF IsLegalMv

LEMMA AlikeSame ==
  ASSUME NEW b \in BoardSet, NEW c \in BoardSet, Alike(b, c), c.rootIx = b.rootIx
  PROVE  c = b
  BY FieldsDecide DEF Alike

LEMMA StacksGrow ==
  ASSUME NEW S, NEW s \in Seq(S), NEW e \in S, NEW t, t = Append(s, e)
  PROVE  /\ t \in Seq(S) /\ Len(t) = Len(s) + 1 /\ SubSeq(t, 1, Len(t)) = t /\ SubSeq(s, 1, Len(s)) = s
         /\ \A k \in 0..Len(s) : SubSeq(t, 1, k) = SubSeq(s, 1, k)
<1>1. t \in Seq(S) /\ Len(t) = Len(s) + 1 /\ \A i \in 1..Len(s) : t[i] = s[i]
  OBVIOUS
<1>2. SubSeq(t, 1, Len(t)) = t
  BY <1>1
<1>3. SubSeq(s, 1, Len(s)) = s
  OBVIOUS
<1>4. ASSUME NEW k \in 0..Len(s)
      PROVE  SubSeq(t, 1, k) = SubSeq(s, 1, k)
  BY <1>1
<1> QED
  BY <1>1, <1>2, <1>3, <1>4

\* A move more, with the past that Step leaves.
LEMMA GameGrows ==
  ASSUME GameInv, NEW o, MovesTo(bd, o), Step(o)
  PROVE  GameInv'
<1>1. PICK h : Boards(h)
  BY DEF GameInv
<1>2. PICK n, m : n = Len(bd.stack) /\ m = n + 1
  OBVIOUS
<1>3. /\ h \in [0..n -> BoardSet] /\ h[n] = bd
      /\ \A k \in 0..n : Good(h[k]) /\ h[k].stack = SubSeq(bd.stack, 1, k)
      /\ \A k \in 0..(n - 1) : StepOf(h[k], h[k + 1]) /\ past[k + 1] = Position(h[k])
      /\ \A k \in bd.rootIx..n : h[k].rootIx = bd.rootIx
  BY <1>1, <1>2 DEF Boards
<1>4. /\ n \in Nat /\ m \in Nat /\ bd \in BoardSet /\ bd.stack \in Seq(UndoSet) /\ Good(bd) /\ bd.rootIx \in Nat
      /\ bd.rootIx <= n
  <2>1. bd \in BoardSet /\ bd.stack \in Seq(UndoSet) /\ bd.rootIx \in Nat
    BY <1>1 DEF GameInv, Boards, BoardSet
  <2>2. n \in Nat
    BY <1>2, <2>1
  <2>3. Good(bd)
    BY <1>3, <2>2
  <2> QED
    BY <1>2, <2>1, <2>2, <2>3 DEF GameInv
<1>5. /\ Good(o) /\ o.rootIx = bd.rootIx /\ o \in BoardSet
  BY <1>4, StepOn DEF Good, Sound
<1>6. PICK u \in UndoSet : o.stack = Append(bd.stack, u)
  BY <1>4, StepOn
<1>7. /\ Len(o.stack) = m /\ SubSeq(o.stack, 1, m) = o.stack
      /\ \A k \in 0..n : SubSeq(o.stack, 1, k) = SubSeq(bd.stack, 1, k)
  BY <1>2, <1>4, <1>6, StacksGrow
<1>8. bd' = o /\ past' = Append(past, Position(bd)) /\ start' = start /\ rooted' = rooted
  BY DEF Step
<1>9. /\ past' \in Seq({Position(b) : b \in BoardSet}) /\ Len(past') = m /\ past'[m] = Position(bd)
      /\ \A k \in 1..n : past'[k] = past[k]
  <2>1. Position(bd) \in {Position(b) : b \in BoardSet}
    BY <1>4
  <2>2. PICK P, p : P = {Position(b) : b \in BoardSet} /\ p = Position(bd)
    OBVIOUS
  <2>3. past \in Seq(P) /\ Len(past) = n /\ p \in P
    BY <1>2, <2>1, <2>2 DEF GameInv
  <2>4. /\ past' \in Seq(P) /\ Len(past') = m /\ past'[m] = p
        /\ \A k \in 1..n : past'[k] = past[k]
    BY <1>2, <1>8, <2>2, <2>3
  <2> QED
    BY <2>2, <2>4
<1>10. PICK g : g = [k \in 0..m |-> IF k = m THEN o ELSE h[k]]
  OBVIOUS
<1>11. /\ g \in [0..m -> BoardSet] /\ g[m] = o /\ \A k \in 0..n : g[k] = h[k]
  BY <1>2, <1>3, <1>4, <1>5, <1>10
<1>12. \A k \in 0..m : k = m \/ k \in 0..n
  BY <1>2, <1>4
<1>13. \A k \in 0..m : Good(g[k]) /\ g[k].stack = SubSeq(o.stack, 1, k)
  <2> SUFFICES ASSUME NEW k \in 0..m
               PROVE  Good(g[k]) /\ g[k].stack = SubSeq(o.stack, 1, k)
    OBVIOUS
  <2>1. CASE k = m
    BY <1>5, <1>7, <1>11, <2>1
  <2>2. CASE k \in 0..n
    BY <1>3, <1>7, <1>11, <2>2
  <2> QED
    BY <1>12, <2>1, <2>2
<1>14. \A k \in 0..(m - 1) : StepOf(g[k], g[k + 1]) /\ past'[k + 1] = Position(g[k])
  <2> SUFFICES ASSUME NEW k \in 0..(m - 1)
               PROVE  StepOf(g[k], g[k + 1]) /\ past'[k + 1] = Position(g[k])
    OBVIOUS
  <2>1. CASE k = n
    <3>1. g[k] = bd /\ g[k + 1] = o
      BY <1>2, <1>3, <1>4, <1>11, <2>1
    <3>2. Alike(o, o)
      BY DEF Alike, SameMen
    <3>3. StepOf(bd, o)
      BY <3>2 DEF StepOf
    <3>4. past'[k + 1] = Position(bd)
      BY <1>2, <1>9, <2>1
    <3> QED
      BY <3>1, <3>3, <3>4
  <2>2. CASE k # n
    <3>1. k \in 0..(n - 1) /\ k \in 0..n /\ k + 1 \in 0..n /\ k + 1 \in 1..n
      BY <1>2, <1>4, <2>2
    <3> QED
      BY <1>3, <1>9, <1>11, <3>1
  <2> QED
    BY <2>1, <2>2
<1>15. \A k \in o.rootIx..m : g[k].rootIx = o.rootIx
  <2> SUFFICES ASSUME NEW k \in o.rootIx..m
               PROVE  g[k].rootIx = o.rootIx
    OBVIOUS
  <2>1. k = m \/ (k \in 0..n /\ k \in bd.rootIx..n)
    BY <1>2, <1>4, <1>5
  <2> QED
    BY <1>3, <1>5, <1>11, <2>1
<1>16. Boards(g)'
  <2>1. Len(o.stack) = m
    BY <1>7
  <2> QED
    BY <1>8, <1>9, <1>11, <1>13, <1>14, <1>15, <2>1 DEF Boards
<1>17. bd'.rootIx <= Len(bd'.stack)
  BY <1>2, <1>4, <1>5, <1>7, <1>8
<1> QED
  BY <1>7, <1>8, <1>9, <1>16, <1>17 DEF GameInv

LEMMA PositionAlike ==
  ASSUME NEW o, NEW c, Alike(o, c)
  PROVE  Position(c) = Position(o)
<1>1. \A sq : SquareSide(c, sq) = SquareSide(o, sq) /\ c.square[sq] = o.square[sq]
  BY DEF Alike, SameMen, SquareSide
<1>2. c.all = o.all /\ c.stm = o.stm /\ c.copy = o.copy
  BY DEF Alike
<1>3. [sq \in c.all |-> <<c.square[sq], SquareSide(c, sq)>>] = [sq \in o.all |-> <<o.square[sq], SquareSide(o, sq)>>]
  BY <1>1, <1>2
<1> QED
  BY <1>2, <1>3, Zenon DEF Position

\* What the moves of the game find.
LEMMA GameBoards ==
  ASSUME GameInv
  PROVE  /\ Good(bd) /\ bd \in BoardSet /\ bd.stack \in Seq(UndoSet) /\ bd.rootIx \in Nat
         /\ bd.rootIx <= Len(bd.stack)
<1>1. PICK h : Boards(h)
  BY DEF GameInv
<1>2. bd \in BoardSet
  <2>1. Len(bd.stack) \in 0..Len(bd.stack) \/ bd \in BoardSet
    <3>1. h \in [0..Len(bd.stack) -> BoardSet] /\ h[Len(bd.stack)] = bd /\ Len(bd.stack) \in Nat
      BY <1>1 DEF Boards, GameInv
    <3> QED
      BY <3>1
  <2> QED
    BY <1>1, <2>1 DEF Boards
<1>3. bd.stack \in Seq(UndoSet) /\ bd.rootIx \in Nat
  BY <1>2 DEF BoardSet
<1>4. Len(bd.stack) \in 0..Len(bd.stack)
  BY <1>3
<1> QED
  BY <1>1, <1>2, <1>3, <1>4 DEF Boards, GameInv

LEMMA GameStarts ==
  ASSUME ChessInit
  PROVE  GameInv
<1>1. FenOk(start.fen) /\ start \in Starts
  BY StartsAssumption DEF ChessInit
<1>2. Good(bd) /\ bd.stack = << >> /\ bd.rootIx = 0 /\ past = << >> /\ rooted = FALSE
  BY <1>1, FenGood DEF ChessInit
<1>3. bd \in BoardSet
  BY <1>2 DEF Good, Sound
<1>4. PICK h : h = [k \in 0..0 |-> bd]
  OBVIOUS
<1>5. h \in [0..0 -> BoardSet] /\ h[0] = bd /\ Len(bd.stack) = 0
  BY <1>2, <1>3, <1>4
<1>6. SubSeq(bd.stack, 1, 0) = << >>
  BY <1>2
<1>7. \A k \in 0..0 : k = 0
  OBVIOUS
<1>8. \A k \in 0..0 : Good(h[k]) /\ h[k].stack = SubSeq(bd.stack, 1, k) /\ h[k].rootIx = bd.rootIx
  BY <1>2, <1>5, <1>6, <1>7
<1>9. \A k \in 0..(0 - 1) : FALSE
  OBVIOUS
<1>10. Boards(h)
  BY <1>2, <1>5, <1>8, <1>9 DEF Boards
<1>11. past \in Seq({Position(b) : b \in BoardSet}) /\ Len(past) = Len(bd.stack)
  <2>1. PICK P : P = {Position(b) : b \in BoardSet}
    OBVIOUS
  <2>2. past \in Seq(P) /\ Len(past) = 0
    BY <1>2
  <2> QED
    BY <1>5, <2>1, <2>2, Zenon
<1>12. bd.rootIx <= Len(bd.stack) /\ rooted \in BOOLEAN
  BY <1>2, <1>5
<1> QED
  BY <1>1, <1>10, <1>11, <1>12, Zenon DEF GameInv

LEMMA GameRoots ==
  ASSUME GameInv, GoSearch
  PROVE  GameInv'
<1>1. PICK h : Boards(h)
  BY DEF GameInv
<1>2. PICK n, o : n = Len(bd.stack) /\ o = SetRoot(bd)
  OBVIOUS
<1>3. /\ Good(bd) /\ bd \in BoardSet /\ bd.stack \in Seq(UndoSet) /\ n \in Nat
  BY <1>2, GameBoards
<1>4. /\ Good(o) /\ o.stack = bd.stack /\ o.rootIx = n /\ Position(o) = Position(bd) /\ o \in BoardSet
  BY <1>2, <1>3, RootGood DEF Good, Sound
<1>5. Alike(bd, o)
  BY <1>2 DEF SetRoot, Alike, SameMen, BoardSet
<1>6. bd' = o /\ past' = past /\ start' = start /\ rooted' = TRUE
  BY <1>2 DEF GoSearch
<1>7. PICK g : g = [k \in 0..n |-> IF k = n THEN o ELSE h[k]]
  OBVIOUS
<1>8. /\ h \in [0..n -> BoardSet] /\ h[n] = bd
      /\ \A k \in 0..n : Good(h[k]) /\ h[k].stack = SubSeq(bd.stack, 1, k)
      /\ \A k \in 0..(n - 1) : StepOf(h[k], h[k + 1]) /\ past[k + 1] = Position(h[k])
  BY <1>1, <1>2 DEF Boards
<1>9. /\ g \in [0..n -> BoardSet] /\ g[n] = o /\ \A k \in 0..(n - 1) : g[k] = h[k]
  BY <1>3, <1>4, <1>7, <1>8
<1>10. \A k \in 0..n : k = n \/ k \in 0..(n - 1)
  BY <1>3
<1>11. \A k \in 0..n : Good(g[k]) /\ g[k].stack = SubSeq(o.stack, 1, k)
  <2>1. SubSeq(bd.stack, 1, n) = bd.stack
    BY <1>2, <1>3
  <2> QED
    BY <1>4, <1>8, <1>9, <1>10, <2>1
<1>12. \A k \in 0..(n - 1) : StepOf(g[k], g[k + 1]) /\ past[k + 1] = Position(g[k])
  <2> SUFFICES ASSUME NEW k \in 0..(n - 1)
               PROVE  StepOf(g[k], g[k + 1]) /\ past[k + 1] = Position(g[k])
    OBVIOUS
  <2>1. g[k] = h[k] /\ StepOf(h[k], h[k + 1]) /\ past[k + 1] = Position(h[k])
    BY <1>8, <1>9
  <2>2. CASE k + 1 = n
    <3>1. PICK x : MovesTo(h[k], x) /\ Alike(x, bd)
      BY <1>8, <2>1, <2>2 DEF StepOf
    <3>2. Alike(x, o)
      BY <1>5, <3>1 DEF Alike, SameMen
    <3>3. g[k + 1] = o
      BY <1>9, <2>2
    <3> QED
      BY <2>1, <3>1, <3>2, <3>3 DEF StepOf
  <2>3. CASE k + 1 # n
    <3>1. g[k + 1] = h[k + 1]
      BY <1>3, <1>9, <2>3
    <3> QED
      BY <2>1, <3>1
  <2> QED
    BY <2>2, <2>3
<1>13. \A k \in o.rootIx..n : g[k].rootIx = o.rootIx
  BY <1>3, <1>4, <1>9
<1>14. Boards(g)'
  <2>1. Len(o.stack) = n
    BY <1>2, <1>4
  <2> QED
    BY <1>6, <1>9, <1>11, <1>12, <1>13, <2>1 DEF Boards
<1> QED
  BY <1>2, <1>3, <1>4, <1>6, <1>14 DEF GameInv

\* The board after a move back is the one before the move, and it is in the past.
LEMMA GameShrinks ==
  ASSUME GameInv, SearchUndo
  PROVE  /\ GameInv' /\ Position(bd') = past[Len(past)]
<1>1. PICK h : Boards(h)
  BY DEF GameInv
<1>2. PICK n, m, o : n = Len(bd.stack) /\ m = n - 1 /\ o = h[m]
  OBVIOUS
<1>3. /\ h \in [0..n -> BoardSet] /\ h[n] = bd
      /\ \A k \in 0..n : Good(h[k]) /\ h[k].stack = SubSeq(bd.stack, 1, k)
      /\ \A k \in 0..(n - 1) : StepOf(h[k], h[k + 1]) /\ past[k + 1] = Position(h[k])
      /\ \A k \in bd.rootIx..n : h[k].rootIx = bd.rootIx
  BY <1>1, <1>2 DEF Boards
<1>4. /\ Good(bd) /\ bd \in BoardSet /\ bd.stack \in Seq(UndoSet) /\ n \in Nat /\ bd.rootIx \in Nat
  BY <1>2, GameBoards
<1>5. Ply(bd) = n - bd.rootIx /\ Ply(bd) > 0
  BY <1>2 DEF SearchUndo, Ply
<1>6. m \in Nat /\ n = m + 1 /\ bd.rootIx <= m
  BY <1>2, <1>4, <1>5
<1>7. m \in 0..n /\ m \in 0..(n - 1) /\ m \in bd.rootIx..n
  BY <1>4, <1>6
<1>8. Good(o) /\ o \in BoardSet /\ o.rootIx = bd.rootIx /\ o.stack = SubSeq(bd.stack, 1, m)
  BY <1>2, <1>3, <1>7
<1>9. PICK x : MovesTo(o, x) /\ Alike(x, bd)
  BY <1>2, <1>3, <1>6, <1>7 DEF StepOf
<1>10. Good(x) /\ x.rootIx = o.rootIx /\ Back(x) = o /\ x \in BoardSet
  BY <1>8, <1>9, StepOn DEF Good, Sound
<1>11. bd = x
  BY <1>4, <1>8, <1>9, <1>10, AlikeSame
<1>12. /\ bd' = o /\ past' = SubSeq(past, 1, Len(past) - 1) /\ start' = start /\ rooted' = rooted
  BY <1>10, <1>11 DEF SearchUndo, Back
<1>13. Len(past) = n /\ past[n] = Position(o)
  BY <1>2, <1>3, <1>6, <1>7 DEF GameInv
<1>14. /\ past' \in Seq({Position(b) : b \in BoardSet}) /\ Len(past') = m
       /\ \A k \in 1..m : past'[k] = past[k]
  <2>1. PICK P : P = {Position(b) : b \in BoardSet}
    OBVIOUS
  <2>2. past \in Seq(P)
    BY <2>1 DEF GameInv
  <2>3. past' = SubSeq(past, 1, m)
    BY <1>2, <1>12, <1>13
  <2>4. past' \in Seq(P) /\ Len(past') = m /\ \A k \in 1..m : past'[k] = past[k]
    BY <1>6, <1>13, <2>2, <2>3
  <2> QED
    BY <2>1, <2>4
<1>15. /\ Len(o.stack) = m /\ \A k \in 0..m : SubSeq(o.stack, 1, k) = SubSeq(bd.stack, 1, k)
  BY <1>2, <1>4, <1>6, <1>8
<1>16. PICK g : g = [k \in 0..m |-> h[k]]
  OBVIOUS
<1>17. g \in [0..m -> BoardSet] /\ g[m] = o /\ \A k \in 0..m : g[k] = h[k]
  BY <1>2, <1>3, <1>6, <1>16
<1>18. \A k \in 0..m : Good(g[k]) /\ g[k].stack = SubSeq(o.stack, 1, k)
  <2> SUFFICES ASSUME NEW k \in 0..m
               PROVE  Good(g[k]) /\ g[k].stack = SubSeq(o.stack, 1, k)
    OBVIOUS
  <2>1. k \in 0..n
    BY <1>6
  <2> QED
    BY <1>3, <1>15, <1>17, <2>1
<1>19. \A k \in 0..(m - 1) : StepOf(g[k], g[k + 1]) /\ past'[k + 1] = Position(g[k])
  <2> SUFFICES ASSUME NEW k \in 0..(m - 1)
               PROVE  StepOf(g[k], g[k + 1]) /\ past'[k + 1] = Position(g[k])
    OBVIOUS
  <2>1. k \in 0..(n - 1) /\ k \in 0..m /\ k + 1 \in 0..m /\ k + 1 \in 1..m
    BY <1>6
  <2> QED
    BY <1>3, <1>14, <1>17, <2>1
<1>20. \A k \in o.rootIx..m : g[k].rootIx = o.rootIx
  <2> SUFFICES ASSUME NEW k \in o.rootIx..m
               PROVE  g[k].rootIx = o.rootIx
    OBVIOUS
  <2>1. k \in 0..m /\ k \in bd.rootIx..n
    BY <1>4, <1>6, <1>8
  <2> QED
    BY <1>3, <1>8, <1>17, <2>1
<1>21. Boards(g)'
  BY <1>12, <1>15, <1>17, <1>18, <1>19, <1>20 DEF Boards
<1>22. GameInv'
  BY <1>6, <1>8, <1>12, <1>14, <1>15, <1>21 DEF GameInv
<1> QED
  BY <1>12, <1>13, <1>22

LEMMA GameSteps ==
  ASSUME GameInv, ChessNext
  PROVE  GameInv'
<1>1. Good(bd)
  BY GameBoards
<1>2. CASE FenMove
  <2>1. PICK mv \in Tried : Step(MakeFenMve(bd, FromString(bd, mv.fr, mv.to, mv.pp)))
    BY <1>2 DEF FenMove
  <2>2. mv \in OkMoves(bd) /\ IsLegal(Move(bd, mv))
    BY <1>1, TriedOk
  <2>3. Step(Move(bd, mv))
    BY <1>1, <2>1, <2>2, StringIs DEF MakeFenMve
  <2>4. MovesTo(bd, Move(bd, mv))
    BY <2>2 DEF MovesTo
  <2> QED
    BY <2>3, <2>4, GameGrows
<1>3. CASE SearchMove
  <2>1. PICK mv \in Tried : Step(Move(bd, mv))
    BY <1>3 DEF SearchMove
  <2>2. MovesTo(bd, Move(bd, mv))
    BY <1>1, TriedOk DEF MovesTo
  <2> QED
    BY <2>1, <2>2, GameGrows
<1>4. CASE SearchNull
  <2>1. MovesTo(bd, MoveNull(bd)) /\ Step(MoveNull(bd))
    BY <1>4 DEF SearchNull, MovesTo
  <2> QED
    BY <2>1, GameGrows
<1> QED
  BY <1>2, <1>3, <1>4, GameRoots, GameShrinks DEF ChessNext

LEMMA GameInvariant == ChessSpec => []GameInv
<1>1. ASSUME GameInv, UNCHANGED chessVars
      PROVE  GameInv'
  BY <1>1 DEF GameInv, chessVars, Boards
<1> QED
  BY <1>1, GameStarts, GameSteps, PTL DEF ChessSpec

-----------------------------------------------------------------------------
\* For every set of legal starting positions, and however many moves, null
\* moves and moves back have been played from them: the bitboards, the kings,
\* the counts, the phase and the incremental keys are those that SetFen builds
\* from the position's own FEN, each side has its king, no pawn stands on a last
\* rank, every castling right has its king and rook at home, and the en passant
\* square a pawn that may take on it.
THEOREM BoardStaysConsistent == ChessSpec => []BoardConsistent
<1>1. GameInv => BoardConsistent
  BY GameBoards, GoodIsConsistent
<1> QED
  BY <1>1, GameInvariant, PTL

\* Undo and UndoNull take back exactly the last move: the position that comes
\* back is the one that the move was made in, whatever has been made, captured,
\* castled and promoted in between.
THEOREM MovesAreTakenBack == ChessSpec => [][SearchUndo => Position(bd') = past[Len(past)]]_chessVars
<1>1. GameInv /\ [ChessNext]_chessVars => [SearchUndo => Position(bd') = past[Len(past)]]_chessVars
  BY GameShrinks
<1> QED
  BY <1>1, GameInvariant, PTL DEF ChessSpec

-----------------------------------------------------------------------------
(* The rules of chess: their steps are those of the tables. *)

Delta(d) == 16 * d[1] + d[2]
Units == (-1..1) \X (-1..1)

\* k steps are on the board where the 16 x 8 board says so.
LEMMA GoIs ==
  ASSUME NEW sq \in Squares, NEW d \in (-2..2) \X (-2..2), NEW k \in 1..7, d \in Units \/ k = 1
  PROVE  /\ Rules!Go(sq, d, k) \in Squares \cup {-1}
         /\ \A t \in Squares : Rules!Go(sq, d, k) = t <=> To88(t) = To88(sq) + k * Delta(d)
<1>1. PICK a \in -2..2, c \in -2..2 : a = d[1] /\ c = d[2]
  OBVIOUS
<1>2. PICK x \in Int, y \in Int : x = k * a /\ y = k * c
  OBVIOUS
<1>3. y \in -7..7
  <2>1. CASE k = 1
    BY <1>2, <2>1
  <2>2. CASE d \in Units
    <3>1. c = -1 \/ c = 0 \/ c = 1
      BY <1>1, <2>2 DEF Units
    <3> QED
      BY <1>2, <3>1
  <2> QED
    BY <2>1, <2>2
<1>4. PICK f \in 0..7, r \in 0..7 : f = sq \div 8 /\ r = sq % 8 /\ To88(sq) = 16 * f + r
  BY On88 DEF File, Rank
<1>5. Rules!Go(sq, d, k) = IF f + x \in 0..7 /\ r + y \in 0..7 THEN 8 * (f + x) + (r + y) ELSE -1
  BY <1>1, <1>2, <1>4 DEF Rules!Go
<1>6. k * Delta(d) = 16 * x + y
  <2>1. k * (16 * a + c) = 16 * (k * a) + k * c
    OBVIOUS
  <2> QED
    BY <1>1, <1>2, <2>1 DEF Delta
<1>7. Rules!Go(sq, d, k) \in Squares \cup {-1}
  BY <1>5, Numbers
<1>8. ASSUME NEW t \in Squares
      PROVE  Rules!Go(sq, d, k) = t <=> To88(t) = To88(sq) + k * Delta(d)
  <2>1. PICK g \in 0..7, q \in 0..7 : t = 8 * g + q /\ To88(t) = 16 * g + q
    BY <1>8, On88
  <2>2. To88(t) = To88(sq) + k * Delta(d) <=> 16 * g + q = 16 * (f + x) + (r + y)
    BY <1>4, <1>6, <2>1
  <2>3. r + y \in -7..14
    BY <1>3
  <2>4. 16 * g + q = 16 * (f + x) + (r + y) <=> g = f + x /\ q = r + y
    BY <2>3
  <2>5. t # -1 /\ t \in Int
    BY <2>1
  <2>6. CASE f + x \in 0..7 /\ r + y \in 0..7
    <3>1. Rules!Go(sq, d, k) = 8 * (f + x) + (r + y)
      BY <1>5, <2>6
    <3>2. 8 * (f + x) + (r + y) = 8 * g + q <=> g = f + x /\ q = r + y
      BY <2>6
    <3> QED
      BY <2>1, <2>2, <2>4, <3>1, <3>2
  <2>7. CASE ~(f + x \in 0..7 /\ r + y \in 0..7)
    <3>1. Rules!Go(sq, d, k) = -1
      BY <1>5, <2>7
    <3>2. ~(g = f + x /\ q = r + y)
      BY <2>7
    <3> QED
      BY <2>2, <2>4, <2>5, <3>1, <3>2
  <2> QED
    BY <2>6, <2>7
<1> QED
  BY <1>7, <1>8

LEMMA StridesAre ==
  /\ \A d \in Rules!Straight : d \in Units /\ Delta(d) \in RookInc
  /\ \A d \in Rules!Oblique : d \in Units /\ Delta(d) \in BishopInc
  /\ \A d \in Rules!Jumps : d \in (-2..2) \X (-2..2) /\ Delta(d) \in KnightInc
  /\ \A i \in RookInc : \E d \in Rules!Straight : Delta(d) = i
  /\ \A i \in BishopInc : \E d \in Rules!Oblique : Delta(d) = i
  /\ \A i \in KnightInc : \E d \in Rules!Jumps : Delta(d) = i
  /\ Units \subseteq (-2..2) \X (-2..2)
<1>1. \A d \in Rules!Straight : d \in Units /\ Delta(d) \in RookInc
  BY DEF Rules!Straight, Units, Delta, RookInc
<1>2. \A d \in Rules!Oblique : d \in Units /\ Delta(d) \in BishopInc
  BY DEF Rules!Oblique, Units, Delta, BishopInc
<1>3. ASSUME NEW d \in Rules!Jumps
      PROVE  d \in (-2..2) \X (-2..2) /\ Delta(d) \in KnightInc
  <2>1. PICK a \in {-2, -1, 1, 2}, c \in {-2, -1, 1, 2} : d = <<a, c>> /\ a * a + c * c = 5
    BY DEF Rules!Jumps
  <2>2. a \in -2..2 /\ c \in -2..2 /\ Delta(d) = 16 * a + c
    BY <2>1 DEF Delta
  <2>3. 16 * a + c \in {-33, -31, -18, -14, 14, 18, 31, 33}
    BY <2>1
  <2> QED
    BY <2>1, <2>2, <2>3 DEF KnightInc
<1>4. \A i \in RookInc : \E d \in Rules!Straight : Delta(d) = i
  <2>1. /\ <<1, 0>> \in Rules!Straight /\ <<-1, 0>> \in Rules!Straight
        /\ <<0, 1>> \in Rules!Straight /\ <<0, -1>> \in Rules!Straight
    BY DEF Rules!Straight
  <2>2. Delta(<<1, 0>>) = 16 /\ Delta(<<-1, 0>>) = -16 /\ Delta(<<0, 1>>) = 1 /\ Delta(<<0, -1>>) = -1
    BY DEF Delta
  <2> QED
    BY <2>1, <2>2 DEF RookInc
<1>5. \A i \in BishopInc : \E d \in Rules!Oblique : Delta(d) = i
  <2>1. /\ <<1, 1>> \in Rules!Oblique /\ <<-1, 1>> \in Rules!Oblique
        /\ <<1, -1>> \in Rules!Oblique /\ <<-1, -1>> \in Rules!Oblique
    BY DEF Rules!Oblique
  <2>2. Delta(<<1, 1>>) = 17 /\ Delta(<<-1, 1>>) = -15 /\ Delta(<<1, -1>>) = 15 /\ Delta(<<-1, -1>>) = -17
    BY DEF Delta
  <2> QED
    BY <2>1, <2>2 DEF BishopInc
<1>6. \A i \in KnightInc : \E d \in Rules!Jumps : Delta(d) = i
  <2>1. /\ <<1, 2>> \in Rules!Jumps /\ <<-1, 2>> \in Rules!Jumps /\ <<1, -2>> \in Rules!Jumps
        /\ <<-1, -2>> \in Rules!Jumps /\ <<2, 1>> \in Rules!Jumps /\ <<-2, 1>> \in Rules!Jumps
        /\ <<2, -1>> \in Rules!Jumps /\ <<-2, -1>> \in Rules!Jumps
    BY DEF Rules!Jumps
  <2>2. /\ Delta(<<1, 2>>) = 18 /\ Delta(<<-1, 2>>) = -14 /\ Delta(<<1, -2>>) = 14
        /\ Delta(<<-1, -2>>) = -18 /\ Delta(<<2, 1>>) = 33 /\ Delta(<<-2, 1>>) = -31
        /\ Delta(<<2, -1>>) = 31 /\ Delta(<<-2, -1>>) = -33
    BY DEF Delta
  <2> QED
    BY <2>1, <2>2 DEF KnightInc
<1>7. Units \subseteq (-2..2) \X (-2..2)
  BY DEF Units
<1> QED
  BY <1>1, <1>2, <1>3, <1>4, <1>5, <1>6, <1>7

\* to is k steps away, k at most n, with no man of all before it.
StepsTo(all, fr, d, to, n) ==
  \E k \in 1..n : to = Rules!Go(fr, d, k) /\ \A j \in 1..(k - 1) : Rules!Go(fr, d, j) \notin all

\* A slider hits what lies on a line with nothing between.
LEMMA LineHits ==
  ASSUME NEW all \in SUBSET Squares, NEW fr \in Squares, NEW to \in Squares, NEW d \in Units, Delta(d) \in QueenInc
  PROVE  StepsTo(all, fr, d, to, 7) <=> to \in Line(fr, Delta(d)) /\ all \cap Between[fr][to] = {}
<1>1. PICK i \in QueenInc : i = Delta(d)
  OBVIOUS
<1>2. i \in Int /\ i # 0 /\ d \in (-2..2) \X (-2..2)
  BY Incs, StridesAre
<1>3. \A k \in 1..7 : \A t \in Squares : Rules!Go(fr, d, k) = t <=> To88(t) = To88(fr) + k * i
  BY <1>1, <1>2, GoIs
<1>4. ASSUME NEW k \in 1..7, to = Rules!Go(fr, d, k), \A j \in 1..(k - 1) : Rules!Go(fr, d, j) \notin all
      PROVE  to \in Line(fr, i) /\ all \cap Between[fr][to] = {}
  <2>1. To88(to) = To88(fr) + k * i
    BY <1>3, <1>4
  <2>2. to \in Line(fr, i)
    BY <1>2, <2>1, LineIs
  <2>3. ASSUME NEW s \in all \cap Between[fr][to]
        PROVE  FALSE
    <3>1. s \in Line(fr, i) /\ to \in Line(s, i) /\ s \in Squares
      BY <2>2, <2>3, TableIs
    <3>2. PICK m \in 1..7 : To88(s) = To88(fr) + m * i
      BY <1>2, <3>1, LineIs
    <3>3. PICK n \in 1..7 : To88(to) = To88(s) + n * i
      BY <1>2, <3>1, LineIs
    <3>4. m + n = k
      <4>1. PICK x \in Int, y \in Int, z \in Int : x = k * i /\ y = m * i /\ z = n * i
        BY <1>2
      <4>2. x = y + z
        BY <2>1, <3>1, <3>2, <3>3, <4>1, On88
      <4>3. k * i = (m + n) * i
        BY <1>2, <4>1, <4>2
      <4> QED
        BY <1>2, <4>3
    <3>5. m \in 1..(k - 1)
      BY <3>4
    <3>6. Rules!Go(fr, d, m) = s
      BY <1>3, <3>1, <3>2
    <3> QED
      BY <1>4, <2>3, <3>5, <3>6
  <2> QED
    BY <2>2, <2>3
<1>5. ASSUME to \in Line(fr, i), all \cap Between[fr][to] = {}
      PROVE  \E k \in 1..7 : to = Rules!Go(fr, d, k) /\ \A j \in 1..(k - 1) : Rules!Go(fr, d, j) \notin all
  <2>1. PICK k \in 1..7 : To88(to) = To88(fr) + k * i
    BY <1>2, <1>5, LineIs
  <2>2. to = Rules!Go(fr, d, k)
    BY <1>3, <2>1
  <2>3. ASSUME NEW j \in 1..(k - 1), Rules!Go(fr, d, j) \in all
        PROVE  FALSE
    <3>1. PICK s \in all : s = Rules!Go(fr, d, j)
      BY <2>3
    <3>2. j \in 1..7 /\ k - j \in 1..7 /\ s \in Squares
      BY <3>1
    <3>3. To88(s) = To88(fr) + j * i
      BY <1>3, <3>1, <3>2
    <3>4. To88(to) = To88(s) + (k - j) * i
      <4>1. k * i = j * i + (k - j) * i
        BY <1>2
      <4>2. PICK x \in Int, y \in Int, z \in Int : x = k * i /\ y = j * i /\ z = (k - j) * i
        BY <1>2
      <4> QED
        BY <2>1, <3>2, <3>3, <4>1, <4>2, On88
    <3>5. s \in Line(fr, i) /\ to \in Line(s, i)
      BY <1>2, <3>2, <3>3, <3>4, LineIs
    <3>6. s \in Between[fr][to]
      BY <1>5, <3>2, <3>5, InBetween
    <3> QED
      BY <1>5, <3>1, <3>6
  <2> QED
    BY <2>2, <2>3
<1> QED
  BY <1>1, <1>4, <1>5 DEF StepsTo

LEMMA HitsIs ==
  ASSUME NEW at, NEW fr, NEW to
  PROVE  to \in Rules!Hits(at, fr) <=>
           /\ to # -1
           /\ \E d \in Rules!Stride(at[fr][1], at[fr][2]) :
                StepsTo(DOMAIN at, fr, d, to, IF at[fr][1] \in {2, 3, 4} THEN 7 ELSE 1)
<1> DEFINE S == Rules!Stride(at[fr][1], at[fr][2])
           n == IF at[fr][1] \in {2, 3, 4} THEN 7 ELSE 1
           K(d) == {k \in 1..n : \A j \in 1..(k - 1) : Rules!Go(fr, d, j) \notin DOMAIN at}
           G(d) == {Rules!Go(fr, d, k) : k \in K(d)}
<1>1. Rules!Hits(at, fr) = (UNION {G(d) : d \in S}) \ {-1}
  BY DEF Rules!Hits
<1>2. \A d : to \in G(d) <=> \E k \in K(d) : to = Rules!Go(fr, d, k)
  OBVIOUS
<1>3. \A d : (\E k \in K(d) : to = Rules!Go(fr, d, k)) <=> StepsTo(DOMAIN at, fr, d, to, n)
  BY DEF StepsTo
<1> HIDE DEF S, n, K, G
<1>4. to \in Rules!Hits(at, fr) <=> to # -1 /\ \E d \in S : StepsTo(DOMAIN at, fr, d, to, n)
  BY <1>1, <1>2, <1>3
<1> QED
  BY <1>4 DEF S, n

LEMMA LeapHits ==
  ASSUME NEW all, NEW S \in SUBSET ((-2..2) \X (-2..2)), NEW incs \in SUBSET Int, NEW fr \in Squares, NEW to,
         \A d \in S : Delta(d) \in incs, \A i \in incs : \E d \in S : Delta(d) = i
  PROVE  to # -1 /\ (\E d \in S : StepsTo(all, fr, d, to, 1)) <=> to \in Leaps(fr, incs)
<1>1. ASSUME NEW d \in S
      PROVE  /\ StepsTo(all, fr, d, to, 1) => to \in Squares \cup {-1}
             /\ to \in Squares => (StepsTo(all, fr, d, to, 1) <=> To88(to) = To88(fr) + Delta(d))
  <2>1. d \in (-2..2) \X (-2..2) /\ Delta(d) \in Int /\ 1 \in 1..7
    BY DEF Delta
  <2>2. 1 * Delta(d) = Delta(d)
    BY <2>1
  <2>3. /\ Rules!Go(fr, d, 1) \in Squares \cup {-1}
        /\ \A t \in Squares : Rules!Go(fr, d, 1) = t <=> To88(t) = To88(fr) + Delta(d)
    BY <2>1, <2>2, GoIs
  <2>4. StepsTo(all, fr, d, to, 1) <=> to = Rules!Go(fr, d, 1)
    BY DEF StepsTo
  <2> QED
    BY <2>3, <2>4
<1>2. to \in Leaps(fr, incs) <=> to \in Squares /\ \E i \in incs : To88(to) = To88(fr) + i
  BY LeapIs
<1>3. -1 \notin Squares
  BY Numbers
<1> QED
  BY <1>1, <1>2, <1>3

LEMMA SlideHits ==
  ASSUME NEW all \in SUBSET Squares, NEW S \in SUBSET Units, NEW incs \in SUBSET QueenInc,
         NEW fr \in Squares, NEW to,
         \A d \in S : Delta(d) \in incs, \A i \in incs : \E d \in S : Delta(d) = i
  PROVE  to # -1 /\ (\E d \in S : StepsTo(all, fr, d, to, 7))
         <=> to \in Lines(fr, incs) /\ all \cap Between[fr][to] = {}
<1>1. \A i \in incs : i \in QueenInc /\ i \in Int /\ LineTable[fr][i] = Line(fr, i)
  BY TableIs, Incs
<1>2. to \in Lines(fr, incs) <=> \E i \in incs : to \in Line(fr, i)
  BY <1>1 DEF Lines
<1>3. ASSUME to # -1, NEW d \in S, StepsTo(all, fr, d, to, 7)
      PROVE  to \in Squares
  <2>1. PICK k \in 1..7 : to = Rules!Go(fr, d, k)
    BY <1>3 DEF StepsTo
  <2>2. d \in (-2..2) \X (-2..2) /\ d \in Units
    BY StridesAre
  <2>3. Rules!Go(fr, d, k) \in Squares \cup {-1}
    BY <2>2, GoIs
  <2> QED
    BY <1>3, <2>1, <2>3
<1>4. to \in Lines(fr, incs) => to \in Squares
  BY <1>1, <1>2, LineIs
<1>5. ASSUME to \in Squares, NEW d \in S
      PROVE  StepsTo(all, fr, d, to, 7) <=> to \in Line(fr, Delta(d)) /\ all \cap Between[fr][to] = {}
  BY <1>5, LineHits
<1>6. CASE to \in Squares
  <2>1. (\E d \in S : to \in Line(fr, Delta(d))) <=> \E i \in incs : to \in Line(fr, i)
    OBVIOUS
  <2>2. to # -1
    BY <1>6, Numbers
  <2> QED
    BY <1>2, <1>5, <1>6, <2>1, <2>2
<1> QED
  BY <1>3, <1>4, <1>6

LEMMA StrideIs ==
  /\ \A sd : /\ Rules!Stride(Knight, sd) = Rules!Jumps /\ Rules!Stride(Bishop, sd) = Rules!Oblique
             /\ Rules!Stride(Rook, sd) = Rules!Straight
             /\ Rules!Stride(Queen, sd) = Rules!Straight \cup Rules!Oblique
             /\ Rules!Stride(King, sd) = Rules!Straight \cup Rules!Oblique
  /\ Rules!Stride(Pawn, White) = {<<1, 1>>, <<-1, 1>>} /\ Rules!Stride(Pawn, Black) = {<<1, -1>>, <<-1, -1>>}
<1>1. \A sd : /\ Rules!Stride(Knight, sd) = Rules!Jumps /\ Rules!Stride(Bishop, sd) = Rules!Oblique
              /\ Rules!Stride(Rook, sd) = Rules!Straight
              /\ Rules!Stride(Queen, sd) = Rules!Straight \cup Rules!Oblique
              /\ Rules!Stride(King, sd) = Rules!Straight \cup Rules!Oblique
  BY DEF Rules!Stride, Knight, Bishop, Rook, Queen, King
<1>2. Rules!Forward(White) = 1 /\ Rules!Forward(Black) = -1
  BY DEF Rules!Forward, White, Black
<1>3. \A sd : Rules!Stride(Pawn, sd) = {<<1, Rules!Forward(sd)>>, <<-1, Rules!Forward(sd)>>}
  BY DEF Rules!Stride, Pawn
<1> QED
  BY <1>1, <1>2, <1>3

\* What a piece hits, by the rules and by the tables.
LEMMA PieceHits ==
  ASSUME NEW at, DOMAIN at \in SUBSET Squares, NEW fr \in Squares, NEW pc \in Knight..King, NEW sd,
         at[fr] = <<pc, sd>>, NEW to
  PROVE  to \in Rules!Hits(at, fr) <=> to \in PieceAttacks[pc][fr] /\ DOMAIN at \cap Between[fr][to] = {}
<1>1. at[fr][1] = pc /\ at[fr][2] = sd
  OBVIOUS
<1>2. ASSUME NEW S \in SUBSET ((-2..2) \X (-2..2)), NEW incs, incs = KnightInc \/ incs = QueenInc,
             Rules!Stride(pc, sd) = S, pc \notin {2, 3, 4}, PieceAttacks[pc][fr] = Leaps(fr, incs),
             \A d \in S : Delta(d) \in incs, \A i \in incs : \E d \in S : Delta(d) = i
      PROVE  to \in Rules!Hits(at, fr) <=> to \in PieceAttacks[pc][fr] /\ DOMAIN at \cap Between[fr][to] = {}
  <2>1. to \in Rules!Hits(at, fr) <=>
          to # -1 /\ \E d \in S : StepsTo(DOMAIN at, fr, d, to, 1)
    BY <1>1, <1>2, HitsIs
  <2>3. incs \in SUBSET Int
    BY <1>2, Incs
  <2>4. to \in Rules!Hits(at, fr) <=> to \in Leaps(fr, incs)
    BY <1>2, <2>1, <2>3, LeapHits
  <2>5. ASSUME to \in Leaps(fr, incs)
        PROVE  Between[fr][to] = {}
    <3>1. PICK i \in incs : to \in Squares /\ To88(to) = To88(fr) + i
      BY <2>3, <2>5, LeapIs
    <3> QED
      BY <1>2, <2>3, <3>1, NoneBetween
  <2> QED
    BY <1>2, <2>4, <2>5
<1>3. ASSUME NEW S \in SUBSET Units, NEW incs \in SUBSET QueenInc,
             Rules!Stride(pc, sd) = S, pc \in {2, 3, 4}, PieceAttacks[pc][fr] = Lines(fr, incs),
             \A d \in S : Delta(d) \in incs, \A i \in incs : \E d \in S : Delta(d) = i
      PROVE  to \in Rules!Hits(at, fr) <=> to \in PieceAttacks[pc][fr] /\ DOMAIN at \cap Between[fr][to] = {}
  <2>1. to \in Rules!Hits(at, fr) <=>
          to # -1 /\ \E d \in S : StepsTo(DOMAIN at, fr, d, to, 7)
    BY <1>1, <1>3, HitsIs
  <2>2. PICK all \in SUBSET Squares : all = DOMAIN at
    OBVIOUS
  <2>3. to # -1 /\ (\E d \in S : StepsTo(all, fr, d, to, 7))
        <=> to \in Lines(fr, incs) /\ all \cap Between[fr][to] = {}
    <3>1. \A d \in S : Delta(d) \in incs
      BY <1>3
    <3>2. \A i \in incs : \E d \in S : Delta(d) = i
      BY <1>3
    <3> QED
      BY <3>1, <3>2, SlideHits, ZenonT(40)
  <2>4. to \in Rules!Hits(at, fr) <=> to \in Lines(fr, incs) /\ DOMAIN at \cap Between[fr][to] = {}
    BY <2>1, <2>2, <2>3
  <2> QED
    BY <1>3, <2>4
<1>4. PICK B, R, J : B = Rules!Oblique /\ R = Rules!Straight /\ J = Rules!Jumps
  OBVIOUS
<1>5. /\ B \subseteq Units /\ R \subseteq Units /\ J \subseteq (-2..2) \X (-2..2) /\ Units \subseteq (-2..2) \X (-2..2)
      /\ \A d \in B : Delta(d) \in BishopInc
      /\ \A d \in R : Delta(d) \in RookInc
      /\ \A d \in J : Delta(d) \in KnightInc
      /\ \A i \in BishopInc : \E d \in B : Delta(d) = i
      /\ \A i \in RookInc : \E d \in R : Delta(d) = i
      /\ \A i \in KnightInc : \E d \in J : Delta(d) = i
  BY <1>4, StridesAre
<1>6. /\ \A d \in R \cup B : Delta(d) \in QueenInc
      /\ \A i \in QueenInc : \E d \in R \cup B : Delta(d) = i
  BY <1>5 DEF QueenInc
<1>7. BishopInc \subseteq QueenInc /\ RookInc \subseteq QueenInc
  BY Incs
<1>8. Knight = 1 /\ Bishop = 2 /\ Rook = 3 /\ Queen = 4 /\ King = 5
  BY DEF Knight, Bishop, Rook, Queen, King
<1>9. CASE pc = Knight /\ PieceAttacks[pc][fr] = Leaps(fr, KnightInc)
  <2>1. Rules!Stride(pc, sd) = J /\ pc \notin {2, 3, 4}
    BY <1>4, <1>8, <1>9, StrideIs
  <2> QED
    BY <1>2, <1>5, <1>9, <2>1
<1>10. CASE pc = Bishop /\ PieceAttacks[pc][fr] = Lines(fr, BishopInc)
  <2>1. Rules!Stride(pc, sd) = B /\ pc \in {2, 3, 4}
    BY <1>4, <1>8, <1>10, StrideIs
  <2> QED
    BY <1>3, <1>5, <1>7, <1>10, <2>1
<1>11. CASE pc = Rook /\ PieceAttacks[pc][fr] = Lines(fr, RookInc)
  <2>1. Rules!Stride(pc, sd) = R /\ pc \in {2, 3, 4}
    BY <1>4, <1>8, <1>11, StrideIs
  <2> QED
    BY <1>3, <1>5, <1>7, <1>11, <2>1
<1>12. CASE pc = Queen /\ PieceAttacks[pc][fr] = Lines(fr, QueenInc)
  <2>1. Rules!Stride(pc, sd) = R \cup B /\ pc \in {2, 3, 4}
    BY <1>4, <1>8, <1>12, StrideIs
  <2>2. R \cup B \in SUBSET Units
    BY <1>5
  <2> QED
    BY <1>3, <1>6, <1>12, <2>1, <2>2
<1>13. CASE pc = King /\ PieceAttacks[pc][fr] = Leaps(fr, QueenInc)
  <2>1. Rules!Stride(pc, sd) = R \cup B /\ pc \notin {2, 3, 4}
    BY <1>4, <1>8, <1>13, StrideIs
  <2>2. R \cup B \in SUBSET ((-2..2) \X (-2..2))
    BY <1>5
  <2> QED
    BY <1>2, <1>6, <1>13, <2>1, <2>2
<1> QED
  BY <1>9, <1>10, <1>11, <1>12, <1>13, PieceTable

LEMMA PawnBack ==
  ASSUME NEW a \in Squares, NEW z \in Squares, NEW sd \in Sides
  PROVE  a \in PawnAttacks[Opposite(sd)][z] <=> z \in PawnAttacks[sd][a]
<1>1. To88(a) \in Int /\ To88(z) \in Int
  BY On88
<1>2. /\ z \in PawnAttacks[White][a] <=> To88(z) = To88(a) - 15 \/ To88(z) = To88(a) + 17
      /\ z \in PawnAttacks[Black][a] <=> To88(z) = To88(a) - 17 \/ To88(z) = To88(a) + 15
      /\ a \in PawnAttacks[White][z] <=> To88(a) = To88(z) - 15 \/ To88(a) = To88(z) + 17
      /\ a \in PawnAttacks[Black][z] <=> To88(a) = To88(z) - 17 \/ To88(a) = To88(z) + 15
  BY <1>1, PawnAttackIs
<1>3. /\ a \in PawnAttacks[Black][z] <=> z \in PawnAttacks[White][a]
      /\ a \in PawnAttacks[White][z] <=> z \in PawnAttacks[Black][a]
  BY <1>1, <1>2
<1>4. (sd = White /\ Opposite(sd) = Black) \/ (sd = Black /\ Opposite(sd) = White)
  BY Numbers DEF Opposite
<1> QED
  BY <1>3, <1>4, Zenon

LEMMA PawnHits ==
  ASSUME NEW at, NEW fr \in Squares, NEW sd \in Sides, at[fr] = <<Pawn, sd>>, NEW to
  PROVE  to \in Rules!Hits(at, fr) <=> to \in PawnAttacks[sd][fr]
<1>1. at[fr][1] = Pawn /\ at[fr][2] = sd /\ Pawn \notin {2, 3, 4}
  BY DEF Pawn
<1>2. to \in Rules!Hits(at, fr) <=> to # -1 /\ \E d \in Rules!Stride(Pawn, sd) : StepsTo(DOMAIN at, fr, d, to, 1)
  BY <1>1, HitsIs
<1>3. CASE sd = White
  <2>1. PICK S, incs : S = {<<1, 1>>, <<-1, 1>>} /\ incs = {-15, 17}
    OBVIOUS
  <2>2. Delta(<<1, 1>>) = 17 /\ Delta(<<-1, 1>>) = -15
    BY DEF Delta
  <2>3. S \in SUBSET ((-2..2) \X (-2..2)) /\ incs \in SUBSET Int
    BY <2>1
  <2>4. (\A d \in S : Delta(d) \in incs) /\ \A i \in incs : \E d \in S : Delta(d) = i
    BY <2>1, <2>2
  <2>5. to # -1 /\ (\E d \in S : StepsTo(DOMAIN at, fr, d, to, 1)) <=> to \in Leaps(fr, incs)
    BY <2>3, <2>4, LeapHits
  <2>6. Rules!Stride(Pawn, sd) = S
    BY <1>3, <2>1, StrideIs
  <2>7. to \in Leaps(fr, incs) <=> to \in PawnAttacks[White][fr]
    BY <2>1, <2>3, LeapIs, PawnAttackIs
  <2> QED
    BY <1>2, <1>3, <2>5, <2>6, <2>7
<1>4. CASE sd = Black
  <2>1. PICK S, incs : S = {<<1, -1>>, <<-1, -1>>} /\ incs = {-17, 15}
    OBVIOUS
  <2>2. Delta(<<1, -1>>) = 15 /\ Delta(<<-1, -1>>) = -17
    BY DEF Delta
  <2>3. S \in SUBSET ((-2..2) \X (-2..2)) /\ incs \in SUBSET Int
    BY <2>1
  <2>4. (\A d \in S : Delta(d) \in incs) /\ \A i \in incs : \E d \in S : Delta(d) = i
    BY <2>1, <2>2
  <2>5. to # -1 /\ (\E d \in S : StepsTo(DOMAIN at, fr, d, to, 1)) <=> to \in Leaps(fr, incs)
    BY <2>3, <2>4, LeapHits
  <2>6. Rules!Stride(Pawn, sd) = S
    BY <1>4, <2>1, StrideIs
  <2>7. to \in Leaps(fr, incs) <=> to \in PawnAttacks[Black][fr]
    BY <2>1, <2>3, LeapIs, PawnAttackIs
  <2> QED
    BY <1>2, <1>4, <2>5, <2>6, <2>7
<1> QED
  BY <1>3, <1>4 DEF Sides

\* The men of a board, as the rules see them.
Men(b) == [sq \in b.all |-> <<b.square[sq], SquareSide(b, sq)>>]

LEMMA PositionIs ==
  ASSUME NEW b
  PROVE  /\ Position(b).at = Men(b) /\ Position(b).stm = b.stm /\ Position(b).rights = b.copy.flags
         /\ Position(b).ep = b.copy.epSq /\ Position(b).clock = b.copy.moves
  BY DEF Position, Men

LEMMA MenAre ==
  ASSUME NEW b, Sound(b), AllIs(b)
  PROVE  /\ DOMAIN Men(b) = b.all /\ b.all \subseteq Squares
         /\ \A sq \in Squares : sq \in b.all <=> b.square[sq] # None
         /\ \A sq \in b.all : /\ Men(b)[sq] = <<b.square[sq], SquareSide(b, sq)>>
                              /\ b.square[sq] \in Pieces /\ SquareSide(b, sq) \in Sides
                              /\ sq \in PieceSd(b, b.square[sq], SquareSide(b, sq))
         /\ \A sd \in Sides : \A sq : sq \in b.side[sd] <=> sq \in b.all /\ SquareSide(b, sq) = sd
         /\ \A pc \in Pieces : \A sd \in Sides : \A sq :
              sq \in PieceSd(b, pc, sd) <=> sq \in b.all /\ Men(b)[sq] = <<pc, sd>>
<1>1. DOMAIN Men(b) = b.all /\ \A sq \in b.all : Men(b)[sq] = <<b.square[sq], SquareSide(b, sq)>>
  BY DEF Men
<1>2. b.all = b.side[White] \cup b.side[Black] /\ b.all \subseteq Squares
  BY DEF AllIs, Sound, BoardSet
<1>3. White \in Sides /\ Black \in Sides /\ White # Black /\ \A sd \in Sides : sd = White \/ sd = Black
  BY Numbers
<1>4. \A sq \in Squares : sq \in b.all <=> b.square[sq] # None
  <2> SUFFICES ASSUME NEW sq \in Squares
               PROVE  sq \in b.all <=> b.square[sq] # None
    OBVIOUS
  <2>1. b.square[sq] = None <=> \A s \in Sides : sq \notin b.side[s]
    BY EmptyOn
  <2> QED
    BY <1>2, <1>3, <2>1
<1>5. ASSUME NEW sd \in Sides, NEW sq
      PROVE  sq \in b.side[sd] <=> sq \in b.all /\ SquareSide(b, sq) = sd
  <2>1. ASSUME sq \in b.side[White], sq \in b.side[Black]
        PROVE  FALSE
    <3>1. sq \in Squares
      BY <1>2, <2>1
    <3> QED
      BY <1>3, <2>1, <3>1 DEF Sound, MenAgree, SidesAgree
  <2> QED
    BY <1>2, <1>3, <2>1 DEF SquareSide
<1>6. ASSUME NEW sq \in b.all
      PROVE  /\ b.square[sq] \in Pieces /\ SquareSide(b, sq) \in Sides
             /\ sq \in PieceSd(b, b.square[sq], SquareSide(b, sq))
  <2>1. sq \in Squares /\ b.square[sq] \in Pieces
    BY <1>2, <1>4, EmptyOn
  <2>2. SquareSide(b, sq) \in Sides
    BY <1>3 DEF SquareSide
  <2>3. sq \in b.side[SquareSide(b, sq)]
    BY <1>5, <2>2
  <2> QED
    BY <2>1, <2>2, <2>3, ManOn
<1>7. ASSUME NEW pc \in Pieces, NEW sd \in Sides, NEW sq
      PROVE  sq \in PieceSd(b, pc, sd) <=> sq \in b.all /\ Men(b)[sq] = <<pc, sd>>
  <2>1. sq \in PieceSd(b, pc, sd) <=> sq \in Squares /\ b.square[sq] = pc /\ sq \in b.side[sd]
    BY ManOn
  <2>2. sq \in b.all => (Men(b)[sq] = <<pc, sd>> <=> b.square[sq] = pc /\ SquareSide(b, sq) = sd)
    BY <1>1
  <2> QED
    BY <1>2, <1>5, <2>1, <2>2
<1> QED
  BY <1>1, <1>2, <1>4, <1>5, <1>6, <1>7

\* A square that a side attacks by the rules, it attacks by the bitboards.
LEMMA AttackedIs ==
  ASSUME NEW b, Sound(b), AllIs(b), NEW sd \in Sides, NEW to \in Squares
  PROVE  Rules!Attacked(Men(b), to, sd) => IsAttacked(b, to, sd)
<1> SUFFICES ASSUME NEW fr \in b.all, SquareSide(b, fr) = sd, to \in Rules!Hits(Men(b), fr)
             PROVE  IsAttacked(b, to, sd)
  <2>1. \A fr \in b.all : Men(b)[fr][2] = SquareSide(b, fr)
    BY MenAre
  <2> QED
    BY <2>1, MenAre DEF Rules!Attacked
<1>1. PICK pc \in Pieces : pc = b.square[fr] /\ fr \in Squares /\ fr \in PieceSd(b, pc, sd) /\ Men(b)[fr] = <<pc, sd>>
  BY MenAre
<1>2. DOMAIN Men(b) = b.all /\ b.all \in SUBSET Squares
  BY MenAre
<1>3. pc = Pawn \/ pc \in Knight..King
  BY Numbers
<1>4. CASE pc = Pawn
  <2>1. to \in PawnAttacks[sd][fr]
    BY <1>1, <1>4, PawnHits
  <2>2. fr \in PawnAttacks[Opposite(sd)][to]
    BY <1>1, <2>1, PawnBack
  <2> QED
    BY <1>1, <1>4, <2>2 DEF IsAttacked
<1>5. CASE pc \in Knight..King
  <2>1. to \in PieceAttacks[pc][fr] /\ b.all \cap Between[fr][to] = {}
    BY <1>1, <1>2, <1>5, PieceHits
  <2>2. fr \in PieceAttacks[pc][to]
    BY <1>1, <1>5, <2>1, AttackIs
  <2>3. CASE pc = Knight \/ pc = King
    BY <1>1, <2>2, <2>3 DEF IsAttacked
  <2>4. CASE pc \in Bishop..Queen
    <3>1. fr \in SliderPseudoAttacksTo(b, sd, to)
      BY <1>1, <2>2, <2>4 DEF SliderPseudoAttacksTo
    <3>2. LineIsEmpty(b, fr, to)
      BY <2>1 DEF LineIsEmpty
    <3> QED
      BY <3>1, <3>2 DEF IsAttacked
  <2>5. pc = Knight \/ pc = King \/ pc \in Bishop..Queen
    BY <1>5, Numbers
  <2> QED
    BY <2>3, <2>4, <2>5
<1> QED
  BY <1>3, <1>4, <1>5

\* A king by the rules is the one that the board has noted.
LEMMA CheckedIs ==
  ASSUME NEW b, Sound(b), AllIs(b), HasKings(b), NEW sd \in Sides, ~IsAttacked(b, b.king[sd], Opposite(sd))
  PROVE  ~Rules!Checked(Men(b), sd)
<1>1. PICK sq \in PieceSd(b, King, sd) : TRUE
  BY DEF HasKings
<1>2. King \in Pieces /\ King = 5
  BY Numbers DEF King
<1>3. \A s : s \in PieceSd(b, King, sd) <=> s \in DOMAIN Men(b) /\ Men(b)[s] = <<5, sd>>
  <2>1. \A s : s \in PieceSd(b, King, sd) <=> s \in b.all /\ Men(b)[s] = <<King, sd>>
    BY <1>2, MenAre
  <2> QED
    BY <1>2, <2>1, MenAre
<1>4. PICK k : k = Rules!KingOf(Men(b), sd)
  OBVIOUS
<1>5. k \in PieceSd(b, King, sd)
  <2>1. \E s \in DOMAIN Men(b) : Men(b)[s] = <<5, sd>>
    BY <1>1, <1>3
  <2>2. k \in DOMAIN Men(b) /\ Men(b)[k] = <<5, sd>>
    BY <1>4, <2>1, Zenon DEF Rules!KingOf
  <2> QED
    BY <1>3, <2>2
<1>6. b.king[sd] = k /\ k \in Squares
  BY <1>2, <1>5, ManOn DEF Sound, MenAgree, KingsAgree
<1>7. Opposite(sd) \in Sides /\ Opposite(sd) = 1 - sd
  BY Opposites DEF Opposite
<1>8. ~Rules!Attacked(Men(b), k, 1 - sd)
  BY <1>6, <1>7, AttackedIs
<1> QED
  BY <1>4, <1>8 DEF Rules!Checked

\* The homes of the castling rights, in the rules and in the tables.
LEMMA HomeIs ==
  ASSUME NEW i \in 0..3
  PROVE  /\ Rules!Home(i)[1] = Castle(i).KingFr /\ Rules!Home(i)[2] = Castle(i).RookFr
         /\ Rules!Home(i)[1] + 16 * Rules!Wing(i) = Castle(i).KingTo
         /\ Rules!Home(i)[1] + 8 * Rules!Wing(i) = Castle(i).RookTo
         /\ Rules!Inside(i) \subseteq Between[Castle(i).KingFr][Castle(i).RookFr]
<1>1. /\ Rules!Home(0) = <<32, 56>> /\ Rules!Home(1) = <<32, 0>>
      /\ Rules!Home(2) = <<39, 63>> /\ Rules!Home(3) = <<39, 7>>
  BY DEF Rules!Home
<1>2. Rules!Wing(0) = 1 /\ Rules!Wing(1) = -1 /\ Rules!Wing(2) = 1 /\ Rules!Wing(3) = -1
  BY DEF Rules!Wing
<1>3. /\ Rules!Inside(0) = {40, 48} /\ Rules!Inside(1) = {24, 16, 8}
      /\ Rules!Inside(2) = {47, 55} /\ Rules!Inside(3) = {31, 23, 15}
  BY <1>1 DEF Rules!Inside
<1>4. 8 \in Between[32][0] /\ 15 \in Between[39][7]
  <2>1. {32, 8, 0, 39, 15, 7} \subseteq Squares
    BY Numbers
  <2>2. To88(32) = 64 /\ To88(8) = 16 /\ To88(0) = 0 /\ To88(39) = 71 /\ To88(15) = 23 /\ To88(7) = 7
    BY DEF To88, File
  <2>3. 8 \in Between[32][0]
    <3>1. To88(8) = To88(32) + 3 * (-16) /\ To88(0) = To88(8) + 1 * (-16)
      BY <2>2
    <3> QED
      BY <2>1, <3>1, OnTheWay
  <2>4. 15 \in Between[39][7]
    <3>1. To88(15) = To88(39) + 3 * (-16) /\ To88(7) = To88(15) + 1 * (-16)
      BY <2>2
    <3> QED
      BY <2>1, <3>1, OnTheWay
  <2> QED
    BY <2>3, <2>4
<1>5. i = 0 \/ i = 1 \/ i = 2 \/ i = 3
  OBVIOUS
<1>6. CASE i = 0
  BY <1>1, <1>2, <1>3, <1>6, CastleNumbers, CastleWay
<1>7. CASE i = 1
  BY <1>1, <1>2, <1>3, <1>4, <1>7, CastleNumbers, CastleWay
<1>8. CASE i = 2
  BY <1>1, <1>2, <1>3, <1>8, CastleNumbers, CastleWay
<1>9. CASE i = 3
  BY <1>1, <1>2, <1>3, <1>4, <1>9, CastleNumbers, CastleWay
<1> QED
  BY <1>5, <1>6, <1>7, <1>8, <1>9

\* A move without its captured man, as the rules write it.
Told(mv) == <<mv.fr, mv.to, mv.pp>>

LEMMA ForwardIs ==
  ASSUME NEW sd \in Sides
  PROVE  Rules!Forward(sd) = PawnInc(sd) /\ Opposite(sd) = 1 - sd
  BY Numbers DEF Rules!Forward, PawnInc, Opposite

\* The man that moves, for the rules.
LEMMA MoverIs ==
  ASSUME NEW b, Good(b), NEW mv \in OkMoves(b)
  PROVE  /\ mv.fr \in b.all /\ mv.fr \in Squares /\ mv.to \in Squares /\ mv.pc \in Pieces /\ b.square[mv.fr] = mv.pc
         /\ Men(b)[mv.fr] = <<mv.pc, b.stm>> /\ b.stm \in Sides /\ mv.to \notin b.side[b.stm]
         /\ mv.fr \in PieceSd(b, mv.pc, b.stm)
         /\ Rules!Mine(Position(b), mv.fr) /\ ~Rules!Mine(Position(b), mv.to)
         /\ Rules!IsPawn(Position(b), Told(mv)) <=> mv.pc = Pawn
<1>1. Sound(b) /\ AllIs(b) /\ Fits(b, mv)
  BY DEF Good, OkMoves
<1>2. /\ mv.pc \in Pieces /\ mv.fr \in PieceSd(b, mv.pc, b.stm) /\ mv.to \in Squares /\ b.stm \in Sides
      /\ mv.to \notin b.side[b.stm]
  BY <1>1, StmOf DEF Fits, MoveSet
<1>3. mv.fr \in b.all /\ Men(b)[mv.fr] = <<mv.pc, b.stm>> /\ mv.fr \in Squares /\ b.square[mv.fr] = mv.pc
  BY <1>1, <1>2, MenAre, ManOn
<1>4. PICK p : p = Position(b)
  OBVIOUS
<1>5. p.at = Men(b) /\ p.stm = b.stm /\ DOMAIN Men(b) = b.all
  BY <1>1, <1>4, PositionIs, MenAre
<1>6. Rules!Mine(p, mv.fr)
  BY <1>3, <1>5 DEF Rules!Mine
<1>7. ~Rules!Mine(p, mv.to)
  <2>1. mv.to \in b.all => Men(b)[mv.to][2] = SquareSide(b, mv.to) /\ SquareSide(b, mv.to) # b.stm
    BY <1>1, <1>2, MenAre
  <2> QED
    BY <1>5, <2>1 DEF Rules!Mine
<1>8. Rules!IsPawn(p, Told(mv)) <=> mv.pc = Pawn
  <2>1. Told(mv)[1] = mv.fr /\ Men(b)[mv.fr][1] = mv.pc /\ Pawn = 0
    BY <1>3 DEF Told, Pawn
  <2> QED
    BY <1>5, <2>1 DEF Rules!IsPawn
<1> QED
  BY <1>2, <1>3, <1>4, <1>6, <1>7, <1>8

\* A pawn goes where the rules let it.
LEMMA PawnTargets ==
  ASSUME NEW b, Good(b), NEW mv \in OkMoves(b), mv.pc = Pawn
  PROVE  mv.to \in Rules!Targets(Position(b), mv.fr)
<1>1. Sound(b) /\ AllIs(b)
  BY DEF Good
<1> DEFINE p == Position(b)
<1>2. PICK fr \in Squares, to \in Squares, sd \in Sides : fr = mv.fr /\ to = mv.to /\ sd = b.stm
  BY MoverIs
<1>3. /\ Men(b)[fr] = <<Pawn, sd>> /\ p.at = Men(b) /\ p.stm = sd /\ p.ep = b.copy.epSq
      /\ DOMAIN p.at = b.all /\ b.all \subseteq Squares /\ ~Rules!Mine(p, to)
  BY <1>1, <1>2, MoverIs, PositionIs, MenAre
<1> HIDE DEF p
<1>4. Rules!Forward(sd) = PawnInc(sd)
  BY ForwardIs
<1>5. \A sq : b.square[sq] = None => Rules!Free(p, sq)
  <2>1. \A sq \in Squares : sq \in b.all <=> b.square[sq] # None
    BY <1>1, MenAre
  <2> QED
    BY <1>3, <2>1 DEF Rules!Free
<1>6. PawnReaches(b, fr, to)
  BY <1>2 DEF OkMoves, Reaches
<1>7. CASE fr \in PawnAttacks[Opposite(sd)][to] /\ (to = b.copy.epSq \/ b.square[to] # None)
  <2>1. to \in Rules!Hits(p.at, fr)
    BY <1>3, <1>7, PawnBack, PawnHits
  <2>2. b.square[to] # None => ~Rules!Free(p, to)
    BY <1>1, <1>3, MenAre DEF Rules!Free
  <2>3. to \in Rules!Takes(p, fr)
    BY <1>3, <1>7, <2>1, <2>2 DEF Rules!Takes
  <2> QED
    BY <1>2, <1>3, <2>3 DEF Rules!Targets, Pawn, p
<1>8. CASE to = fr + PawnInc(sd) /\ b.square[to] = None
  <2>1. to \in Rules!Pushes(p, fr)
    BY <1>3, <1>4, <1>5, <1>8 DEF Rules!Pushes
  <2> QED
    BY <1>2, <1>3, <2>1 DEF Rules!Targets, Pawn, p
<1>9. CASE /\ to = fr + 2 * PawnInc(sd) /\ RankSd(fr, sd) = 1
           /\ b.square[fr + PawnInc(sd)] = None /\ b.square[to] = None
  <2>1. fr % 8 = IF sd = 0 THEN 1 ELSE 6
    <3>1. fr % 8 \in 0..7 /\ Rank(fr) = fr % 8
      BY Numbers DEF Rank
    <3> QED
      BY <1>9, <3>1 DEF RankSd, White
  <2>2. to \in Rules!Pushes(p, fr)
    BY <1>3, <1>4, <1>5, <1>9, <2>1 DEF Rules!Pushes
  <2> QED
    BY <1>2, <1>3, <2>2 DEF Rules!Targets, Pawn, p
<1> QED
  BY <1>2, <1>6, <1>7, <1>8, <1>9 DEF PawnReaches, p

\* A piece too.
LEMMA PieceTargets ==
  ASSUME NEW b, Good(b), NEW mv \in OkMoves(b), mv.pc # Pawn, PieceAttack(b, mv.pc, mv.fr, mv.to)
  PROVE  mv.to \in Rules!Targets(Position(b), mv.fr)
<1>1. Sound(b) /\ AllIs(b)
  BY DEF Good
<1> DEFINE p == Position(b)
<1>2. PICK fr \in Squares, to \in Squares, sd \in Sides, pc \in Knight..King :
        fr = mv.fr /\ to = mv.to /\ sd = b.stm /\ pc = mv.pc
  <2>1. mv.pc \in Pieces
    BY MoverIs
  <2>2. \A x \in Pieces : x # Pawn => x \in Knight..King
    BY Numbers
  <2> QED
    BY <2>1, <2>2, MoverIs
<1>3. /\ Men(b)[fr] = <<pc, sd>> /\ p.at = Men(b) /\ DOMAIN p.at = b.all /\ b.all \in SUBSET Squares
      /\ ~Rules!Mine(p, to) /\ pc # 0
  BY <1>1, <1>2, MoverIs, PositionIs, MenAre, Numbers
<1> HIDE DEF p
<1>4. to \in PieceAttacks[pc][fr] /\ b.all \cap Between[fr][to] = {}
  BY <1>2 DEF PieceAttack, LineIsEmpty
<1>5. to \in Rules!Hits(p.at, fr)
  BY <1>3, <1>4, PieceHits
<1> QED
  BY <1>2, <1>3, <1>5 DEF Rules!Targets, p

LEMMA NotChecked ==
  ASSUME NEW b, Good(b), ~IsInCheck(b)
  PROVE  ~Rules!Checked(Men(b), b.stm)
<1>1. Sound(b) /\ AllIs(b) /\ HasKings(b) /\ b.stm \in Sides
  BY StmOf DEF Good
<1> QED
  BY <1>1, CheckedIs DEF IsInCheck

\* And a king castles.
LEMMA CastlingIn ==
  ASSUME NEW b, Good(b), NEW mv \in OkMoves(b), Castles(b, mv)
  PROVE  \E i \in Rules!Castlings(Position(b)) :
           Told(mv) = <<Rules!Home(i)[1], Rules!Home(i)[1] + 16 * Rules!Wing(i), 6>>
<1>1. Sound(b) /\ AllIs(b)
  BY DEF Good
<1> DEFINE p == Position(b)
<1>2. PICK sd \in Sides : sd = b.stm
  BY MoverIs
<1>3. /\ p.at = Men(b) /\ p.stm = sd /\ p.rights = b.copy.flags
      /\ DOMAIN p.at = b.all /\ b.all \subseteq Squares
  BY <1>1, <1>2, PositionIs, MenAre
<1> HIDE DEF p
<1>4. PICK wg \in {0, 1} :
        /\ CanCastle(b, sd, wg)
        /\ mv.fr = Castle(CastleIndex(sd, wg)).KingFr /\ mv.to = Castle(CastleIndex(sd, wg)).KingTo
  BY <1>2 DEF Castles
<1>5. PICK i \in 0..3, rt \in Squares : i = CastleIndex(sd, wg) /\ i \div 2 = sd /\ rt = Castle(i).RookTo
  BY CastleIs
<1>6. i \in b.copy.flags /\ LineIsEmpty(b, Castle(i).KingFr, Castle(i).RookFr) /\ ~IsAttacked(b, rt, Opposite(sd))
  BY <1>4, <1>5, Zenon DEF CanCastle
<1>7. \A sq \in Rules!Inside(i) : Rules!Free(p, sq)
  BY <1>3, <1>6, HomeIs DEF LineIsEmpty, Rules!Free
<1>8. ~Rules!Checked(p.at, p.stm)
  BY <1>2, <1>3, NotChecked DEF Castles
<1>9. ~Rules!Attacked(p.at, Rules!Home(i)[1] + 8 * Rules!Wing(i), 1 - p.stm)
  <2>1. Rules!Home(i)[1] + 8 * Rules!Wing(i) = rt
    BY <1>5, HomeIs
  <2>2. Opposite(sd) \in Sides /\ Opposite(sd) = 1 - sd
    BY Opposites, ForwardIs
  <2>3. ~Rules!Attacked(Men(b), rt, Opposite(sd))
    BY <1>1, <1>6, <2>2, AttackedIs
  <2> QED
    BY <1>3, <2>1, <2>2, <2>3
<1>10. i \in Rules!Castlings(p)
  BY <1>3, <1>5, <1>6, <1>7, <1>8, <1>9 DEF Rules!Castlings
<1>11. Told(mv) = <<Rules!Home(i)[1], Rules!Home(i)[1] + 16 * Rules!Wing(i), 6>>
  <2>1. mv.fr = Rules!Home(i)[1] /\ mv.to = Rules!Home(i)[1] + 16 * Rules!Wing(i)
    BY <1>4, <1>5, HomeIs
  <2>2. mv.pp = 6
    BY DEF Castles, None
  <2> QED
    BY <2>1, <2>2 DEF Told
<1> QED
  BY <1>2, <1>10, <1>11 DEF p

\* What the generator brings, the rules let a side do.
LEMMA MoveIn ==
  ASSUME NEW b, Good(b), NEW mv \in OkMoves(b)
  PROVE  Told(mv) \in Rules!Moves(Position(b))
<1>1. PICK p : p = Position(b)
  OBVIOUS
<1>2. Reaches(b, mv) /\ PawnShape(b, mv) /\ Fits(b, mv)
  BY DEF OkMoves
<1>3. ASSUME mv.to \in Rules!Targets(p, mv.fr)
      PROVE  Told(mv) \in Rules!Moves(p)
  <2>1. Sound(b) /\ AllIs(b)
    BY DEF Good
  <2>2. mv.fr \in DOMAIN p.at /\ Rules!Mine(p, mv.fr) /\ p.at[mv.fr][1] = mv.pc /\ mv.to \in Squares
    BY <1>1, <2>1, MoverIs, PositionIs, MenAre
  <2>3. mv.pp \in Rules!Promoted(p, mv.fr, mv.to)
    <3>1. mv.to % 8 \in {0, 7} <=> IsPromotion(mv.to)
      BY DEF IsPromotion, Rank
    <3>2. mv.pp = None \/ (mv.pc = Pawn /\ mv.pp \in Knight..Queen)
      BY <1>2 DEF Fits
    <3>3. mv.pc = Pawn => (IsPromotion(mv.to) <=> mv.pp # None)
      BY <1>2 DEF PawnShape
    <3>4. mv.pp = None \/ mv.pp \in 1..4
      BY <3>2, Numbers
    <3>5. Pawn = 0 /\ None = 6
      BY Numbers
    <3> QED
      BY <2>2, <3>1, <3>2, <3>3, <3>4, <3>5 DEF Rules!Promoted
  <2>4. PICK fr \in {s \in DOMAIN p.at : Rules!Mine(p, s)} : fr = mv.fr
    BY <2>2
  <2>5. Told(mv) \in {<<fr, mv.to, pp>> : pp \in Rules!Promoted(p, fr, mv.to)}
    BY <2>3, <2>4 DEF Told
  <2> DEFINE G(s) == UNION {{<<s, t, pp>> : pp \in Rules!Promoted(p, s, t)} : t \in Rules!Targets(p, s)}
             U == UNION {G(s) : s \in {q \in DOMAIN p.at : Rules!Mine(p, q)}}
  <2>6. Told(mv) \in G(fr)
    BY <1>3, <2>4, <2>5
  <2>7. \A m \in U : m \in Rules!Moves(p)
    BY DEF Rules!Moves
  <2> HIDE DEF G
  <2>8. Told(mv) \in U
    BY <2>4, <2>6
  <2> QED
    BY <2>7, <2>8
<1>4. CASE mv.pc = Pawn
  BY <1>1, <1>3, <1>4, PawnTargets
<1>5. CASE mv.pc # Pawn /\ PieceAttack(b, mv.pc, mv.fr, mv.to)
  BY <1>1, <1>3, <1>5, PieceTargets
<1>6. CASE Castles(b, mv)
  <2>1. PICK i \in Rules!Castlings(p) : Told(mv) = <<Rules!Home(i)[1], Rules!Home(i)[1] + 16 * Rules!Wing(i), 6>>
    BY <1>1, <1>6, CastlingIn
  <2> QED
    BY <1>1, <2>1, Zenon DEF Rules!Moves
<1> QED
  BY <1>1, <1>2, <1>4, <1>5, <1>6 DEF Reaches

\* A castling, and the rook that it brings.
LEMMA CastlesIs ==
  ASSUME NEW b, Good(b), NEW mv \in OkMoves(b)
  PROVE  /\ Rules!Castles(Position(b), Told(mv)) <=> IsCastling(mv)
         /\ IsCastling(mv) => /\ Castles(b, mv) /\ Rules!Middle(Told(mv)) = Tower(mv, b.stm).RookTo
                              /\ Rules!Corner(Position(b), Told(mv)) = Tower(mv, b.stm).RookFr
<1> DEFINE p == Position(b)
<1>1. PICK fr \in Squares, to \in Squares, sd \in Sides : fr = mv.fr /\ to = mv.to /\ sd = b.stm
  BY MoverIs
<1>2. p.at = Men(b) /\ p.stm = sd /\ Men(b)[fr] = <<mv.pc, sd>>
  BY <1>1, PositionIs, MoverIs
<1>3. Told(mv)[1] = fr /\ Told(mv)[2] = to
  BY <1>1 DEF Told
<1> HIDE DEF p
<1>4. fr \in Int /\ to \in Int
  BY Numbers
<1>5. Distance(to, fr) = 16 <=> to - fr \in {16, -16}
  BY <1>4 DEF Distance
<1>6. Rules!Castles(p, Told(mv)) <=> IsCastling(mv)
  <2>1. p.at[fr][1] = mv.pc
    BY <1>2
  <2> QED
    BY <1>1, <1>3, <1>5, <2>1 DEF Rules!Castles, IsCastling, King
<1>7. ASSUME IsCastling(mv)
      PROVE  /\ Castles(b, mv) /\ Rules!Middle(Told(mv)) = Tower(mv, sd).RookTo
             /\ Rules!Corner(p, Told(mv)) = Tower(mv, sd).RookFr
  <2>1. Castles(b, mv)
    <3>1. mv.pc = King /\ mv.pc # Pawn /\ King \in Knight..King /\ Distance(to, fr) = 16
      BY <1>1, <1>7, Numbers DEF IsCastling
    <3>2. ~PieceAttack(b, mv.pc, fr, to)
      BY <3>1, AttackIs DEF PieceAttack
    <3> QED
      BY <1>1, <3>1, <3>2 DEF OkMoves, Reaches
  <2>2. PICK wg \in {0, 1} :
          fr = Castle(CastleIndex(sd, wg)).KingFr /\ to = Castle(CastleIndex(sd, wg)).KingTo
    BY <1>1, <2>1 DEF Castles
  <2>3. PICK i \in 0..3 : /\ i = CastleIndex(sd, wg) /\ fr = Castle(i).KingFr /\ to = Castle(i).KingTo
                          /\ (IF to < fr THEN 1 ELSE 0) = wg
    BY <2>2, CastleIs
  <2>4. Tower(mv, sd) = Castle(i)
    BY <1>1, <2>3 DEF Tower
  <2>5. Castle(i).RookTo = (fr + to) \div 2
    <3>1. /\ 40 = (32 + 48) \div 2 /\ 24 = (32 + 16) \div 2 /\ 47 = (39 + 55) \div 2 /\ 31 = (39 + 23) \div 2
      OBVIOUS
    <3>2. i = 0 \/ i = 1 \/ i = 2 \/ i = 3
      OBVIOUS
    <3> QED
      BY <2>3, <3>1, <3>2, CastleNumbers
  <2>6. Rules!Middle(Told(mv)) = (fr + to) \div 2
    BY <1>3 DEF Rules!Middle
  <2>7. Rules!Corner(p, Told(mv)) = Castle(i).RookFr
    <3>1. to # fr
      BY <1>4, <1>5, <1>7, <1>1 DEF IsCastling
    <3>2. (IF to > fr THEN 0 ELSE 1) = wg
      BY <1>4, <2>3, <3>1
    <3>3. Rules!Corner(p, Told(mv)) = Rules!Home(2 * sd + wg)[2]
      BY <1>2, <1>3, <3>2 DEF Rules!Corner
    <3>4. 2 * sd + wg = i
      BY <2>3 DEF CastleIndex
    <3> QED
      BY <3>3, <3>4, HomeIs
  <2> QED
    BY <2>1, <2>4, <2>5, <2>6, <2>7
<1> QED
  BY <1>1, <1>6, <1>7 DEF p

\* What is taken, on the squares.
LEMMA TakenIs ==
  ASSUME NEW b, Good(b), NEW mv \in OkMoves(b)
  PROVE  /\ \A q \in Squares \ {mv.to} : q = Rules!Taken(Position(b), Told(mv)) <=> q = CapSq(b, mv)
         /\ mv.pc # Pawn => Rules!Taken(Position(b), Told(mv)) = mv.to
<1> DEFINE p == Position(b)
<1>1. PICK to \in Squares, sd \in Sides : to = mv.to /\ sd = b.stm
  BY MoverIs
<1>2. /\ p.stm = sd /\ p.ep = b.copy.epSq /\ Told(mv)[2] = to /\ Rules!Forward(sd) = PawnInc(sd)
      /\ Rules!IsPawn(p, Told(mv)) <=> mv.pc = Pawn
  BY <1>1, PositionIs, MoverIs, ForwardIs DEF Told
<1> HIDE DEF p
<1>3. Rules!Taken(p, Told(mv)) = IF mv.pc = Pawn /\ to = b.copy.epSq THEN to - PawnInc(sd) ELSE to
  BY <1>2 DEF Rules!Taken
<1>4. CapSq(b, mv) = IF mv.pc = Pawn /\ to = b.copy.epSq THEN to - PawnInc(sd)
                     ELSE IF mv.cp # None THEN to ELSE NoSquare
  BY <1>1 DEF CapSq
<1> QED
  BY <1>1, <1>3, <1>4, Numbers DEF p

\* The men after a move.
LEMMA MenAfterIs ==
  ASSUME NEW b, Good(b), NEW mv \in OkMoves(b), NEW o, Sound(o), AllIs(o), Moved(b, mv, o)
  PROVE  Men(o) = Rules!MenAfter(Position(b), Told(mv))
<1> DEFINE p == Position(b)
           m == Told(mv)
           T == Rules!Taken(p, m)
<1>1. PICK fr \in Squares, to \in Squares, sd \in Sides : fr = mv.fr /\ to = mv.to /\ sd = b.stm
  BY MoverIs
<1>2. Sound(b) /\ AllIs(b) /\ Fits(b, mv)
  BY DEF Good, OkMoves
<1>3. /\ p.at = Men(b) /\ p.stm = sd /\ DOMAIN p.at = b.all /\ Men(b)[fr] = <<mv.pc, sd>>
      /\ m[1] = fr /\ m[2] = to /\ m[3] = mv.pp
  BY <1>1, <1>2, PositionIs, MenAre, MoverIs DEF Told
<1>4. (IF Rules!Castles(p, m) THEN {Rules!Corner(p, m)} ELSE {}) = Goes(mv, sd)
  BY <1>1, CastlesIs DEF Goes
<1>5. (IF Rules!Castles(p, m) THEN {Rules!Middle(m)} ELSE {}) = Comes(mv, sd)
  BY <1>1, CastlesIs DEF Comes
<1> HIDE DEF p, m, T
<1>6. PICK G, C : G = Goes(mv, sd) /\ C = Comes(mv, sd)
  OBVIOUS
<1>7. C \subseteq Squares
  BY <1>1, <1>2, <1>6 DEF Comes, Fits, TowerFits
<1>8. Rules!MenAfter(p, m) =
        [sq \in (b.all \ ({fr, T} \cup G)) \cup {to} \cup C |->
           IF sq = to THEN IF mv.pp = 6 THEN <<mv.pc, sd>> ELSE <<mv.pp, sd>>
           ELSE IF sq \in C THEN <<3, sd>> ELSE Men(b)[sq]]
  BY <1>3, <1>4, <1>5, <1>6 DEF Rules!MenAfter, T
<1>9. ASSUME NEW q \in Squares
      PROVE  /\ q \in o.all <=> q \in (b.all \ ({fr, T} \cup G)) \cup {to} \cup C
             /\ q \in o.all => Men(o)[q] = IF q = to THEN IF mv.pp = 6 THEN <<mv.pc, sd>> ELSE <<mv.pp, sd>>
                                           ELSE IF q \in C THEN <<3, sd>> ELSE Men(b)[q]
  <2>1. /\ o.square[q] = IF q = to THEN Arrived(mv)
                         ELSE IF q \in C THEN Rook
                         ELSE IF q \in {fr, CapSq(b, mv)} \cup G THEN None
                         ELSE b.square[q]
        /\ \A s \in Sides :
             q \in o.side[s] <=> \/ q \in {to} \cup C /\ s = sd
                                 \/ q \in b.side[s] /\ q \notin {fr, CapSq(b, mv)} \cup G
    BY <1>1, <1>6 DEF Moved
  <2>2. /\ q \in o.all <=> o.square[q] # None
        /\ q \in b.all <=> b.square[q] # None
        /\ q \in o.all => Men(o)[q] = <<o.square[q], SquareSide(o, q)>>
        /\ q \in b.all => Men(b)[q] = <<b.square[q], SquareSide(b, q)>> /\ SquareSide(b, q) \in Sides
        /\ \A s \in Sides : q \in o.side[s] => SquareSide(o, q) = s
        /\ \A s \in Sides : q \in b.all /\ SquareSide(b, q) = s => q \in b.side[s]
    BY <1>2, MenAre
  <2>3. q # to => (q = T <=> q = CapSq(b, mv))
    BY <1>1, TakenIs DEF T, p, m
  <2>4. Rook # None /\ Rook = 3 /\ None = 6 /\ Arrived(mv) # None
    BY <1>2, Numbers DEF Arrived, Fits
  <2>5. CASE q = to
    <3>1. o.square[q] = Arrived(mv) /\ q \in o.side[sd] /\ q \in o.all
      BY <2>1, <2>2, <2>4, <2>5
    <3>2. Men(o)[q] = <<Arrived(mv), sd>>
      BY <2>2, <3>1
    <3> QED
      BY <2>4, <2>5, <3>1, <3>2 DEF Arrived
  <2>6. CASE q # to /\ q \in C
    <3>1. o.square[q] = Rook /\ q \in o.side[sd] /\ q \in o.all
      BY <2>1, <2>2, <2>4, <2>6
    <3>2. Men(o)[q] = <<Rook, sd>>
      BY <2>2, <3>1
    <3> QED
      BY <2>4, <2>6, <3>1, <3>2
  <2>7. CASE q # to /\ q \notin C /\ q \in {fr, CapSq(b, mv)} \cup G
    <3>1. q \notin o.all
      BY <2>1, <2>2, <2>7
    <3> QED
      BY <2>3, <2>7, <3>1
  <2>8. CASE q # to /\ q \notin C /\ q \notin {fr, CapSq(b, mv)} \cup G
    <3>1. o.square[q] = b.square[q] /\ (q \in o.all <=> q \in b.all)
      BY <2>1, <2>2, <2>8
    <3>2. ASSUME q \in b.all
          PROVE  Men(o)[q] = Men(b)[q]
      <4>1. PICK s \in Sides : s = SquareSide(b, q)
        BY <2>2, <3>2
      <4>2. q \in o.side[s]
        BY <2>1, <2>2, <2>8, <3>2, <4>1
      <4>3. SquareSide(o, q) = s
        BY <2>2, <4>2
      <4> QED
        BY <2>2, <3>1, <3>2, <4>1, <4>3
    <3> QED
      BY <2>3, <2>8, <3>1, <3>2
  <2> QED
    BY <2>5, <2>6, <2>7, <2>8
<1>10. b.all \subseteq Squares /\ o.all \subseteq Squares
  BY <1>2, MenAre
<1>11. o.all = (b.all \ ({fr, T} \cup G)) \cup {to} \cup C
  <2>1. \A q : q \in o.all <=> q \in (b.all \ ({fr, T} \cup G)) \cup {to} \cup C
    BY <1>7, <1>9, <1>10
  <2> QED
    BY <2>1, Zenon
<1>12. \A q \in o.all : Men(o)[q] = Rules!MenAfter(p, m)[q]
  BY <1>8, <1>9, <1>10, <1>11
<1>13. Men(o) = [q \in o.all |-> Men(o)[q]]
  BY DEF Men
<1>14. Rules!MenAfter(p, m) = [q \in o.all |-> Rules!MenAfter(p, m)[q]]
  BY <1>8, <1>11
<1>15. Men(o) = Rules!MenAfter(p, m)
  BY <1>12, <1>13, <1>14
<1> QED
  BY <1>15 DEF p, m

\* A pawn may take on a square of its sixth rank, by the squares and by the rules.
LEMMA MayTake ==
  ASSUME NEW b, Sound(b), AllIs(b), NEW sd \in Sides, NEW sq \in Squares, RankSd(sq, sd) = 5
  PROVE  PawnIsAttacked(b, sq, sd)
         <=> \E t \in DOMAIN Men(b) : Men(b)[t] = <<0, sd>> /\ sq \in Rules!Hits(Men(b), t)
<1>1. PICK f \in 0..7, r \in 0..7 : f = File(sq) /\ r = Rank(sq) /\ sq = 8 * f + r /\ To88(sq) = 16 * f + r
  BY On88
<1>2. PICK fwd \in {-1, 1} : /\ fwd = PawnInc(sd)
                             /\ \/ sd = White /\ fwd = 1 /\ r = 5
                                \/ sd = Black /\ fwd = -1 /\ r = 2
  <2>1. sd = White \/ sd = Black
    BY Numbers
  <2>2. CASE sd = White
    <3>1. PawnInc(sd) = 1 /\ r = 5
      BY <1>1, <2>2, Numbers DEF PawnInc, RankSd
    <3> QED
      BY <2>2, <3>1
  <2>3. CASE sd = Black
    <3>1. PawnInc(sd) = -1 /\ r = 2
      BY <1>1, <2>3, Numbers DEF PawnInc, RankSd
    <3> QED
      BY <2>3, <3>1
  <2> QED
    BY <2>1, <2>2, <2>3
<1>3. Pawn \in Pieces /\ Pawn = 0
  BY Numbers
<1>4. \A t \in Squares : sq \in PawnAttacks[sd][t] <=> (f # 0 /\ t = sq - fwd - 8) \/ (f # 7 /\ t = sq - fwd + 8)
  <2> SUFFICES ASSUME NEW t \in Squares
               PROVE  sq \in PawnAttacks[sd][t] <=> (f # 0 /\ t = sq - fwd - 8) \/ (f # 7 /\ t = sq - fwd + 8)
    OBVIOUS
  <2>1. PICK g \in 0..7, q \in 0..7 : t = 8 * g + q /\ To88(t) = 16 * g + q
    BY On88
  <2>2. CASE sd = White /\ fwd = 1 /\ r = 5
    <3>1. sq \in PawnAttacks[sd][t] <=> To88(sq) = To88(t) - 15 \/ To88(sq) = To88(t) + 17
      BY <1>1, <2>1, <2>2, PawnAttackIs
    <3>2. 16 * f + 5 = 16 * g + q - 15 <=> f = g - 1 /\ q = 4
      OBVIOUS
    <3>3. 16 * f + 5 = 16 * g + q + 17 <=> f = g + 1 /\ q = 4
      OBVIOUS
    <3>4. 8 * g + q = 8 * f + 5 - 1 - 8 <=> f = g + 1 /\ q = 4
      OBVIOUS
    <3>5. 8 * g + q = 8 * f + 5 - 1 + 8 <=> f = g - 1 /\ q = 4
      OBVIOUS
    <3> QED
      BY <1>1, <2>1, <2>2, <3>1, <3>2, <3>3, <3>4, <3>5
  <2>3. CASE sd = Black /\ fwd = -1 /\ r = 2
    <3>1. sq \in PawnAttacks[sd][t] <=> To88(sq) = To88(t) - 17 \/ To88(sq) = To88(t) + 15
      BY <1>1, <2>1, <2>3, PawnAttackIs
    <3>2. 16 * f + 2 = 16 * g + q - 17 <=> f = g - 1 /\ q = 3
      OBVIOUS
    <3>3. 16 * f + 2 = 16 * g + q + 15 <=> f = g + 1 /\ q = 3
      OBVIOUS
    <3>4. 8 * g + q = 8 * f + 2 + 1 - 8 <=> f = g + 1 /\ q = 3
      OBVIOUS
    <3>5. 8 * g + q = 8 * f + 2 + 1 + 8 <=> f = g - 1 /\ q = 3
      OBVIOUS
    <3>6. sq = 8 * f + 2 /\ To88(sq) = 16 * f + 2
      BY <1>1, <2>3
    <3>7. sq - fwd - 8 = 8 * f + 2 + 1 - 8 /\ sq - fwd + 8 = 8 * f + 2 + 1 + 8
      BY <2>3, <3>6
    <3>8. /\ t = sq - fwd - 8 <=> f = g + 1 /\ q = 3
          /\ t = sq - fwd + 8 <=> f = g - 1 /\ q = 3
      BY <2>1, <3>4, <3>5, <3>7
    <3>9. To88(sq) = To88(t) - 17 \/ To88(sq) = To88(t) + 15 <=> q = 3 /\ (f = g - 1 \/ f = g + 1)
      BY <2>1, <3>2, <3>3, <3>6
    <3>10. (f = g + 1 => f # 0) /\ (f = g - 1 => f # 7)
      OBVIOUS
    <3> QED
      BY <3>1, <3>8, <3>9, <3>10
  <2> QED
    BY <1>2, <2>2, <2>3
<1>5. (f # 0 => sq - fwd - 8 \in Squares) /\ (f # 7 => sq - fwd + 8 \in Squares)
  <2>1. CASE fwd = 1 /\ r = 5
    BY <1>1, <2>1, Numbers
  <2>2. CASE fwd = -1 /\ r = 2
    <3>1. sq = 8 * f + 2
      BY <1>1, <2>2
    <3>2. sq - fwd - 8 = 8 * f + 3 - 8 /\ sq - fwd + 8 = 8 * f + 3 + 8
      BY <2>2, <3>1
    <3>3. (f # 0 => 8 * f + 3 - 8 \in 0..63) /\ (f # 7 => 8 * f + 3 + 8 \in 0..63)
      OBVIOUS
    <3> QED
      BY <3>2, <3>3, Numbers
  <2> QED
    BY <1>2, <2>1, <2>2
<1>6. \A t \in Squares : SquareIs(b, t, Pawn, sd) <=> t \in PieceSd(b, Pawn, sd)
  BY <1>3, RightIs, SquareIsBack
<1>7. PawnIsAttacked(b, sq, sd) <=> \/ f # 0 /\ sq - fwd - 8 \in PieceSd(b, Pawn, sd)
                                    \/ f # 7 /\ sq - fwd + 8 \in PieceSd(b, Pawn, sd)
  BY <1>1, <1>2, <1>5, <1>6 DEF PawnIsAttacked
<1>8. \A t : t \in PieceSd(b, Pawn, sd) <=> t \in DOMAIN Men(b) /\ Men(b)[t] = <<Pawn, sd>>
  BY <1>3, MenAre
<1>9. \A t \in DOMAIN Men(b) : Men(b)[t] = <<Pawn, sd>> => (sq \in Rules!Hits(Men(b), t) <=> sq \in PawnAttacks[sd][t])
  BY PawnHits, MenAre
<1>10. DOMAIN Men(b) \subseteq Squares
  BY MenAre
<1>11. (\E t \in DOMAIN Men(b) : Men(b)[t] = <<Pawn, sd>> /\ sq \in Rules!Hits(Men(b), t))
       <=> \E t \in PieceSd(b, Pawn, sd) : t \in Squares /\ sq \in PawnAttacks[sd][t]
  BY <1>8, <1>9, <1>10
<1> QED
  BY <1>3, <1>4, <1>5, <1>7, <1>11

\* The position after a move is what the rules make of the one before.
LEMMA AfterIs ==
  ASSUME NEW b, Good(b), NEW mv \in OkMoves(b)
  PROVE  Position(Move(b, mv)) = Rules!After(Position(b), Told(mv))
<1> DEFINE p == Position(b)
           m == Told(mv)
<1>1. PICK fr \in Squares, to \in Squares, sd \in Sides : fr = mv.fr /\ to = mv.to /\ sd = b.stm
  BY MoverIs
<1>2. PICK o : o = Move(b, mv)
  OBVIOUS
<1>3. Sound(b) /\ AllIs(b) /\ Fits(b, mv) /\ PawnShape(b, mv)
  BY DEF Good, OkMoves
<1>4. /\ Sound(o) /\ Moved(b, mv, o) /\ Recorded(b, mv, o) /\ o.stm = Opposite(sd) /\ AllIs(o)
  BY <1>1, <1>2, <1>3, MoveSound DEF AllIs
<1>5. /\ p.at = Men(b) /\ p.stm = sd /\ p.rights = b.copy.flags /\ p.ep = b.copy.epSq /\ p.clock = b.copy.moves
      /\ DOMAIN p.at = b.all /\ m[1] = fr /\ m[2] = to /\ m[3] = mv.pp
      /\ Opposite(sd) = 1 - sd /\ Opposite(sd) \in Sides
      /\ Rules!IsPawn(p, m) <=> mv.pc = Pawn
  BY <1>1, <1>3, PositionIs, MenAre, MoverIs, ForwardIs, Opposites DEF Told
<1>6. Men(o) = Rules!MenAfter(p, m)
  BY <1>3, <1>4, MenAfterIs
<1> HIDE DEF p, m
<1>7. o.copy.flags = {i \in p.rights : {m[1], m[2]} \cap {Rules!Home(i)[1], Rules!Home(i)[2]} = {}}
  <2>1. b.copy.flags \subseteq 0..3
    BY <1>3 DEF Sound, BoardSet, CopySet
  <2>2. \A i \in b.copy.flags : Rules!Home(i)[1] = Castle(i).KingFr /\ Rules!Home(i)[2] = Castle(i).RookFr
    BY <2>1, HomeIs
  <2>3. \A i : i \in o.copy.flags <=> i \in b.copy.flags /\ i \notin CastleMask(fr) /\ i \notin CastleMask(to)
    BY <1>1, <1>4 DEF Recorded
  <2>4. \A i \in b.copy.flags : i \notin CastleMask(fr) /\ i \notin CastleMask(to)
                                <=> {fr, to} \cap {Castle(i).KingFr, Castle(i).RookFr} = {}
    BY <2>1 DEF CastleMask
  <2>5. \A i : i \in o.copy.flags
               <=> i \in {j \in p.rights : {m[1], m[2]} \cap {Rules!Home(j)[1], Rules!Home(j)[2]} = {}}
    BY <1>5, <2>2, <2>3, <2>4
  <2> QED
    BY <2>5, Zenon
<1>8. o.copy.epSq = Rules!Passed(Men(o), p, m)
  <2>1. Rules!Middle(m) = Middle(mv) /\ Middle(mv) = (fr + to) \div 2
    BY <1>1, <1>5 DEF Rules!Middle, Middle
  <2>2. Distance(to, fr) = 2 <=> to - fr \in {2, -2}
    <3>1. fr \in Int /\ to \in Int
      BY Numbers
    <3> QED
      BY <3>1 DEF Distance
  <2>3. ASSUME mv.pc = Pawn, Distance(to, fr) = 2
        PROVE  Middle(mv) \in Squares /\ RankSd(Middle(mv), Opposite(sd)) = 5
    <3>1. RankSd(fr, sd) = 1 /\ to = fr + 2 * PawnInc(sd)
      BY <1>1, <1>3, <2>3 DEF PawnShape
    <3> QED
      BY <2>1, <3>1, TwoSteps
  <2>4. ASSUME mv.pc = Pawn, Distance(to, fr) = 2
        PROVE  PawnIsAttacked(o, Middle(mv), Opposite(sd)) <=>
                 \E t \in DOMAIN Men(o) : Men(o)[t] = <<0, Opposite(sd)>> /\ Middle(mv) \in Rules!Hits(Men(o), t)
    BY <1>4, <1>5, <2>3, <2>4, MayTake
  <2>5. o.copy.epSq = IF /\ mv.pc = Pawn /\ Distance(to, fr) = 2 /\ PawnIsAttacked(o, Middle(mv), Opposite(sd))
                      THEN Middle(mv) ELSE -1
    BY <1>1, <1>4 DEF Recorded, Steps2, NoSquare
  <2>6. Rules!Passed(Men(o), p, m) =
          IF /\ mv.pc = Pawn /\ to - fr \in {2, -2}
             /\ \E t \in DOMAIN Men(o) : Men(o)[t] = <<0, Opposite(sd)>> /\ Middle(mv) \in Rules!Hits(Men(o), t)
          THEN Middle(mv) ELSE -1
    BY <1>5, <2>1 DEF Rules!Passed
  <2> QED
    BY <2>2, <2>4, <2>5, <2>6
<1>9. o.copy.moves = IF Rules!IsPawn(p, m) \/ Rules!Taken(p, m) \in DOMAIN p.at THEN 0 ELSE p.clock + 1
  <2>1. o.copy.moves = IF mv.cp # None \/ mv.pc = Pawn THEN 0 ELSE b.copy.moves + 1
    BY <1>4 DEF Recorded
  <2>2. ASSUME mv.pc # Pawn
        PROVE  Rules!Taken(p, m) \in DOMAIN p.at <=> mv.cp # None
    <3>1. Rules!Taken(p, m) = to
      BY <1>1, <2>2, TakenIs DEF p, m
    <3>2. to \in b.all <=> b.square[to] # None
      BY <1>3, MenAre
    <3>3. mv.cp = b.square[to]
      BY <1>1, <1>3, <2>2 DEF Fits, IsEnPassant
    <3> QED
      BY <1>5, <3>1, <3>2, <3>3
  <2> QED
    BY <1>5, <2>1, <2>2
<1>10. Position(o) = Rules!After(p, m)
  BY <1>4, <1>5, <1>6, <1>7, <1>8, <1>9 DEF Rules!After, Position, Men
<1> QED
  BY <1>2, <1>10 DEF p, m

\* A move that the generator brings and the board finds legal is a legal move of chess.
LEMMA PlayIs ==
  ASSUME NEW b, Good(b), NEW mv \in OkMoves(b), IsLegal(Move(b, mv))
  PROVE  /\ Told(mv) \in Rules!Legal(Position(b))
         /\ Position(Move(b, mv)) = Rules!After(Position(b), Told(mv))
<1>1. PICK o, p, m, q : o = Move(b, mv) /\ p = Position(b) /\ m = Told(mv) /\ q = Rules!After(p, m)
  OBVIOUS
<1>2. m \in Rules!Moves(p) /\ Position(o) = q
  BY <1>1, MoveIn, AfterIs
<1>3. Good(o)
  BY <1>1, MoveGood
<1>4. Sound(o) /\ AllIs(o) /\ HasKings(o) /\ o.stm = Opposite(b.stm) /\ b.stm \in Sides /\ Opposite(o.stm) = b.stm
  <2>1. Sound(b) /\ Fits(b, mv) /\ b.stm \in Sides
    BY MoverIs DEF Good, OkMoves
  <2>2. o.stm = Opposite(b.stm)
    BY <1>1, <2>1, MoveSound
  <2> QED
    BY <1>3, <2>1, <2>2, Opposites DEF Good
<1>5. ~Rules!Checked(Men(o), b.stm)
  <2>1. ~IsAttacked(o, o.king[b.stm], Opposite(b.stm))
    BY <1>3, <1>4 DEF Good, IsLegal
  <2> QED
    BY <1>4, <2>1, CheckedIs
<1>6. q.at = Men(o) /\ p.stm = b.stm
  BY <1>1, <1>2, PositionIs
<1>7. m \in Rules!Legal(p)
  BY <1>1, <1>2, <1>5, <1>6, Zenon DEF Rules!Legal
<1> QED
  BY <1>1, <1>2, <1>7

\* The null move is a pass.
LEMMA PassIs ==
  ASSUME NEW b, Good(b), ~IsInCheck(b)
  PROVE  /\ ~Rules!Checked(Position(b).at, Position(b).stm)
         /\ Position(MoveNull(b)) = [Position(b) EXCEPT !.stm = 1 - @, !.ep = -1, !.clock = 0]
<1>1. PICK o, p, q : o = MoveNull(b) /\ p = Position(b) /\ q = Position(o)
  OBVIOUS
<1>2. Sound(b) /\ KeysAgree(b)
  BY DEF Good
<1>3. /\ Sound(o) /\ SameMen(b, o) /\ o.stm = Opposite(b.stm) /\ AllIs(o)
      /\ o.copy.flags = b.copy.flags /\ o.copy.epSq = NoSquare /\ o.copy.moves = 0
  BY <1>1, <1>2, NullSound
<1>4. o.all = b.all
  BY <1>3, SameMenGood
<1>5. Men(o) = Men(b)
  <2>1. \A sq : o.square[sq] = b.square[sq] /\ SquareSide(o, sq) = SquareSide(b, sq)
    BY <1>3 DEF SameMen, SquareSide
  <2> QED
    BY <1>4, <2>1 DEF Men
<1>6. /\ p.at = Men(b) /\ p.stm = b.stm /\ p.rights = b.copy.flags
      /\ p = [at |-> p.at, stm |-> p.stm, rights |-> p.rights, ep |-> p.ep, clock |-> p.clock]
  BY <1>1, PositionIs DEF Position
<1>7. q = [at |-> Men(b), stm |-> Opposite(b.stm), rights |-> b.copy.flags, ep |-> -1, clock |-> 0]
  BY <1>1, <1>3, <1>5 DEF Position, Men, NoSquare
<1>8. Opposite(b.stm) = 1 - b.stm
  BY <1>2, StmOf, ForwardIs
<1>9. q = [p EXCEPT !.stm = 1 - @, !.ep = -1, !.clock = 0]
  <2>1. PICK a, r, e, k, w, v : /\ a = Men(b) /\ r = b.copy.flags /\ e = p.ep /\ k = p.clock /\ w = b.stm
                                /\ v = Opposite(b.stm)
    OBVIOUS
  <2>2. p = [at |-> a, stm |-> w, rights |-> r, ep |-> e, clock |-> k]
    BY <1>6, <2>1
  <2>3. q = [at |-> a, stm |-> v, rights |-> r, ep |-> -1, clock |-> 0] /\ v = 1 - w
    BY <1>7, <1>8, <2>1
  <2>4. PICK x : x = [p EXCEPT !.stm = 1 - w]
    OBVIOUS
  <2>5. PICK y : y = [x EXCEPT !.ep = -1]
    OBVIOUS
  <2>6. x = [at |-> a, stm |-> v, rights |-> r, ep |-> e, clock |-> k]
    BY <2>2, <2>3, <2>4
  <2>7. y = [at |-> a, stm |-> v, rights |-> r, ep |-> -1, clock |-> k]
    BY <2>5, <2>6
  <2>8. [y EXCEPT !.clock = 0] = q
    BY <2>3, <2>7
  <2>9. p.stm = w
    BY <2>2
  <2> QED
    BY <2>4, <2>5, <2>8, <2>9
<1> QED
  BY <1>1, <1>6, <1>9, NotChecked

\* The last position of the game is that of the board.
LEMMA CurrentIs ==
  ASSUME GameInv
  PROVE  /\ Rules!Current = Position(bd)
         /\ Len(Append(past, Position(bd))) = Len(past) + 1
         /\ SubSeq(Append(past, Position(bd)), 1, Len(past)) = past
         /\ Len(past) \in Nat
<1>1. PICK P, p, s : P = {Position(b) : b \in BoardSet} /\ p = Position(bd) /\ s = Append(past, p)
  OBVIOUS
<1>2. past \in Seq(P) /\ p \in P
  BY <1>1, GameBoards DEF GameInv
<1>3. Len(s) = Len(past) + 1 /\ s[Len(s)] = p /\ Len(past) \in Nat
  BY <1>1, <1>2
<1>4. SubSeq(s, 1, Len(past)) = past
  <2>1. s = Append(past, p)
    BY <1>1
  <2>2. SubSeq(s, 1, Len(past)) = SubSeq(past, 1, Len(past)) /\ SubSeq(past, 1, Len(past)) = past
    BY <1>2, <1>3, <2>1, StacksGrow
  <2> QED
    BY <2>2
<1> QED
  BY <1>1, <1>3, <1>4 DEF Rules!Current

\* A move of the game is played by the rules.
LEMMA GamePlays ==
  ASSUME GameInv, NEW mv \in Tried, Step(Move(bd, mv))
  PROVE  Rules!Play
<1>1. PICK p, m : p = Position(bd) /\ m = Told(mv)
  OBVIOUS
<1>2. Good(bd)
  BY GameBoards
<1>3. m \in Rules!Legal(p) /\ Position(Move(bd, mv)) = Rules!After(p, m)
  BY <1>1, <1>2, TriedOk, PlayIs
<1>4. bd' = Move(bd, mv) /\ past' = Append(past, p)
  BY <1>1 DEF Step
<1>5. Append(past', Position(bd')) = Append(Append(past, Position(bd)), Rules!After(p, m))
  BY <1>1, <1>3, <1>4
<1>6. Rules!Current = p
  BY <1>1, CurrentIs
<1> QED
  BY <1>3, <1>5, <1>6 DEF Rules!Play

\* Each step of the game is one of the rules, or none.
LEMMA GameIsChess ==
  ASSUME GameInv, [ChessNext]_chessVars
  PROVE  [Rules!Next]_(Append(past, Position(bd)))
<1>1. Good(bd)
  BY GameBoards
<1>2. CASE FenMove
  <2>1. PICK mv \in Tried : Step(MakeFenMve(bd, FromString(bd, mv.fr, mv.to, mv.pp)))
    BY <1>2 DEF FenMove
  <2>2. Step(Move(bd, mv))
    BY <1>1, <2>1, TriedOk, StringIs DEF MakeFenMve
  <2> QED
    BY <2>2, GamePlays DEF Rules!Next
<1>3. CASE SearchMove
  BY <1>3, GamePlays DEF SearchMove, Rules!Next
<1>4. CASE SearchNull
  <2>1. ~IsInCheck(bd) /\ bd' = MoveNull(bd) /\ past' = Append(past, Position(bd))
    BY <1>4 DEF SearchNull, Step
  <2>2. PICK p : p = Position(bd)
    OBVIOUS
  <2>3. ~Rules!Checked(p.at, p.stm) /\ Position(bd') = [p EXCEPT !.stm = 1 - @, !.ep = -1, !.clock = 0]
    BY <1>1, <2>1, <2>2, PassIs
  <2>4. Rules!Current = p
    BY <2>2, CurrentIs
  <2>5. Append(past', Position(bd'))
          = Append(Append(past, Position(bd)), [Rules!Current EXCEPT !.stm = 1 - @, !.ep = -1, !.clock = 0])
    BY <2>1, <2>3, <2>4
  <2>6. Rules!Pass
    BY <2>3, <2>4, <2>5 DEF Rules!Pass
  <2> QED
    BY <2>6 DEF Rules!Next
<1>5. CASE GoSearch
  <2>1. Position(bd') = Position(bd) /\ past' = past
    BY <1>1, <1>5, RootGood DEF GoSearch
  <2> QED
    BY <2>1
<1>6. CASE SearchUndo
  <2>1. Position(bd') = past[Len(past)] /\ past' = SubSeq(past, 1, Len(past) - 1)
    BY <1>6, GameShrinks DEF SearchUndo
  <2>2. Len(past) > 0
    <3>1. Len(past) = Len(bd.stack) /\ bd.rootIx \in Nat /\ Len(past) \in Nat
      BY GameBoards, CurrentIs DEF GameInv
    <3>2. Len(bd.stack) - bd.rootIx > 0
      BY <1>6 DEF SearchUndo, Ply
    <3> QED
      BY <3>1, <3>2
  <2>3. PICK P : P = {Position(b) : b \in BoardSet}
    OBVIOUS
  <2>4. past \in Seq(P) /\ Len(past) \in Nat
    BY <2>3, CurrentIs DEF GameInv
  <2>5. Append(SubSeq(past, 1, Len(past) - 1), past[Len(past)]) = past
    BY <2>2, <2>4
  <2>6. PICK s : s = Append(past, Position(bd))
    OBVIOUS
  <2>7. Len(s) = Len(past) + 1 /\ SubSeq(s, 1, Len(past)) = past
    BY <2>6, CurrentIs
  <2>8. Append(past', Position(bd')) = past
    BY <2>1, <2>5
  <2>9. Len(s) > 1 /\ Len(s) - 1 = Len(past)
    BY <2>2, <2>4, <2>7
  <2>10. Append(past', Position(bd')) = SubSeq(s, 1, Len(s) - 1)
    BY <2>7, <2>8, <2>9
  <2> QED
    BY <2>6, <2>9, <2>10 DEF Rules!Next, Rules!TakeBack
<1>7. CASE UNCHANGED chessVars
  BY <1>7 DEF chessVars
<1> QED
  BY <1>2, <1>3, <1>4, <1>5, <1>6, <1>7 DEF ChessNext

\* Whatever the board makes and takes back from legal positions is a game of
\* chess by the rules: a move that GenPseudos brings and IsLegal accepts is a
\* legal move, its men, castling rights, en passant square and half-move clock
\* after it are what the rules make of them, a null move is a pass out of
\* check, and Undo takes back the last of these and nothing more.
THEOREM TheGameIsChess == ChessSpec => IsChess
<1>1. ChessInit => Rules!Init
  <2> SUFFICES ASSUME ChessInit
               PROVE  Rules!Init
    OBVIOUS
  <2>1. start \in Starts /\ bd = SetFen(start.fen) /\ past = << >>
    BY DEF ChessInit
  <2>2. Position(bd) \in {Position(SetFen(s.fen)) : s \in Starts}
    BY <2>1
  <2>3. Append(past, Position(bd)) = <<Position(bd)>>
    BY <2>1
  <2> QED
    BY <2>2, <2>3 DEF Rules!Init
<1>2. GameInv /\ [ChessNext]_chessVars => [Rules!Next]_(Append(past, Position(bd)))
  BY GameIsChess
<1> QED
  BY <1>1, <1>2, GameInvariant, PTL DEF ChessSpec, IsChess, Rules!Spec

-----------------------------------------------------------------------------
(* The time of a move.                                                     *)

LimitType ==
  [hard : BOOLEAN, timeIsLimited : BOOLEAN, time : Nat, step1 : Nat, stepB : Nat,
   stepC : Nat, ponder : BOOLEAN, flag : BOOLEAN, drop : BOOLEAN]

CurrentType ==
  [depth : Nat, pos : Nat, size : Nat, failHigh : BOOLEAN, scored : BOOLEAN]

Types ==
  /\ clock \in Int /\ inc \in Nat /\ played \in Nat /\ played <= MovesOfGame
  /\ searching \in BOOLEAN /\ bStop \in BOOLEAN
  /\ limit \in LimitType /\ current \in CurrentType
  /\ elapsed \in Nat /\ lastPoll \in Nat

\* The engine's own clock runs.
OnClock == searching /\ limit.hard /\ ~limit.ponder

\* The three limits leave 60 ms of the clock, or are all zero.
StepsInOrder ==
  OnClock => /\ limit.step1 <= limit.stepC /\ limit.stepB <= limit.stepC
             /\ limit.stepC <= Largest(clock - 60, 0)
             /\ played < MovesOfGame

\* The clock is looked at in time, and in the first iteration once is enough.
Looks ==
  /\ lastPoll <= elapsed /\ elapsed <= lastPoll + PollInterval
  /\ current.depth <= 1 => elapsed <= PollInterval

\* In the first iteration nothing has dropped, so that its end is a look, too.
NothingDropped ==
  current.scored => current.depth > 0 /\ (current.depth = 1 => ~limit.drop)

\* A search that goes on had not reached a limit when it last looked.
SeenInTime ==
  /\ OnClock /\ ~bStop /\ current.depth > 1 =>
       /\ lastPoll < limit.stepC
       /\ current.size = 1 => lastPoll < Largest(limit.step1 \div 8, 1)
  /\ limit.timeIsLimited /\ ~bStop => lastPoll <= Largest(limit.time - 3, 0)

\* And whatever it does, it is an interval late at most.
InTime ==
  /\ OnClock => elapsed <= limit.stepC + PollInterval
  /\ NeverFlags /\ ForcedMoveIsQuick /\ MovetimeKept

IInv ==
  /\ Types /\ StepsInOrder /\ Looks /\ NothingDropped /\ SeenInTime /\ InTime

-----------------------------------------------------------------------------
(* SetHard.                                                                *)

LEMMA StepsBelow ==
  ASSUME NEW alloc \in Nat, NEW max \in Nat
  PROVE  /\ Steps(alloc, max) \in [step1 : Nat, stepB : Nat, stepC : Nat]
         /\ Steps(alloc, max).step1 <= max /\ Steps(alloc, max).stepB <= max
         /\ Steps(alloc, max).stepC = max
BY DEF Steps, Least

LEMMA MovesAheadPositive ==
  ASSUME NEW mtg \in Nat, NEW stage \in Stages
  PROVE  MovesAhead(mtg, stage) \in Nat \ {0}
BY TimeAssumption DEF MovesAhead, Least

\* Three limits in order, 60 ms below the clock or zero.
LEMMA BudgetBelow ==
  ASSUME NEW time \in Int, NEW increment \in Nat, NEW mtg \in Nat, NEW stage \in Stages,
         NEW b, b = Budget(time, increment, mtg, stage)
  PROVE  /\ b \in [step1 : Nat, stepB : Nat, stepC : Nat]
         /\ b.step1 <= b.stepC /\ b.stepB <= b.stepC
         /\ b.stepC <= Largest(time - 60, 0)
<1> DEFINE moves   == MovesAhead(mtg, stage)
           total   == time + increment * (moves - 1)
           alloc   == ((total \div moves) * Factor) \div 100
           reserve == (total * (moves - 1)) \div 50
           most    == Least(time, total - reserve)
           max     == Least(most - 60, (most * 95) \div 100)
<1>1. moves \in Nat \ {0}
  BY MovesAheadPositive
<1>2. total \in Int
  BY <1>1
<1>3. alloc \in Int
  <2> HIDE DEF moves, total
  <2>1. total \div moves \in Int
    BY <1>1, <1>2
  <2>2. (total \div moves) * Factor \in Int
    <3> HIDE DEF alloc
    <3> QED
      BY <2>1 DEF Factor
  <2> QED
    BY <2>2
<1>4. reserve \in Int
  <2> HIDE DEF moves, total
  <2> QED
    BY <1>1, <1>2
<1>5. most \in Int /\ most <= time
  <2> HIDE DEF total, reserve
  <2> QED
    BY <1>2, <1>4 DEF Least
<1>6. max \in Int /\ max <= time - 60
  <2> HIDE DEF most
  <2> QED
    BY <1>5 DEF Least
<1>7. b = Steps(Largest(alloc, 0), Largest(max, 0))
  BY DEF Budget
<1>8. Largest(alloc, 0) \in Nat /\ Largest(max, 0) \in Nat /\ Largest(max, 0) <= Largest(time - 60, 0)
  <2> HIDE DEF alloc, max
  <2> QED
    BY <1>3, <1>6 DEF Largest
<1> DEFINE a == Largest(alloc, 0)
           m == Largest(max, 0)
<1>9. /\ Steps(a, m) \in [step1 : Nat, stepB : Nat, stepC : Nat]
      /\ Steps(a, m).step1 <= m /\ Steps(a, m).stepB <= m /\ Steps(a, m).stepC = m
  <2> HIDE DEF a, m
  <2> QED
    BY <1>8, StepsBelow, ZenonT(40) DEF a, m
<1> HIDE DEF a, m
<1> QED
  BY <1>7, <1>8, <1>9 DEF a, m

-----------------------------------------------------------------------------
(* The search: time stands still, and the limits stay what they are.       *)

SameTimes ==
  /\ UNCHANGED <<searching, clock, inc, played, elapsed>>
  /\ limit'.hard = limit.hard /\ limit'.ponder = limit.ponder
  /\ limit'.timeIsLimited = limit.timeIsLimited /\ limit'.time = limit.time
  /\ limit'.step1 = limit.step1 /\ limit'.stepB = limit.stepB /\ limit'.stepC = limit.stepC
  /\ current'.size = current.size

LEMMA StillInTime ==
  ASSUME StepsInOrder, InTime, SameTimes
  PROVE  StepsInOrder' /\ InTime' /\ (OnClock' <=> OnClock)
BY DEF StepsInOrder, InTime, SameTimes, OnClock, NeverFlags, ForcedMoveIsQuick, MovetimeKept

\* A step within an iteration: the depth and the looks at the clock stay.
LEMMA WithinIteration ==
  ASSUME IInv, FirstIteration \/ NextRootMove \/ SearchAgain \/ FailHigh
               \/ \E drop, otherMove \in BOOLEAN : NewBest(drop, otherMove)
  PROVE  IInv'
<1> DEFINE Effect ==
      /\ UNCHANGED <<gameVars, searching, elapsed, lastPoll, bStop>>
      /\ limit' \in LimitType /\ limit' = [limit EXCEPT !.drop = limit'.drop, !.flag = limit'.flag]
      /\ current' \in CurrentType /\ current'.size = current.size
      /\ current'.depth = current.depth \/ (current.depth = 0 /\ current'.depth = 1)
      /\ current'.scored =>
           current'.depth > 0 /\ (current'.depth = 1 => ~limit'.drop)
<1> USE DEF IInv, Types, LimitType, CurrentType, NothingDropped
<1>1. ASSUME FirstIteration PROVE Effect
  BY <1>1 DEF FirstIteration, StartRoot
<1>2. ASSUME NextRootMove PROVE Effect
  <2>1. current'.depth = current.depth /\ current'.size = current.size
        /\ current'.scored = current.scored
    BY <1>2 DEF NextRootMove
  <2> DEFINE next == current.pos + 1
  <2>2. current' \in CurrentType
    <3>1. next \in Nat
      OBVIOUS
    <3>2. current' = [current EXCEPT !.pos = next, !.failHigh = FALSE]
      BY <1>2 DEF NextRootMove
    <3> HIDE DEF next
    <3> QED
      BY <3>1, <3>2
  <2>3. UNCHANGED <<gameVars, searching, limit, elapsed, lastPoll, bStop>>
    BY <1>2 DEF NextRootMove
  <2> QED
    BY <2>1, <2>2, <2>3
<1>3. ASSUME SearchAgain PROVE Effect
  BY <1>3 DEF SearchAgain, StartRoot
<1>4. ASSUME FailHigh PROVE Effect
  BY <1>4 DEF FailHigh
<1>5. ASSUME NEW drop \in BOOLEAN, NEW otherMove \in BOOLEAN, NewBest(drop, otherMove)
      PROVE  Effect
  <2>1. current' \in CurrentType /\ current'.size = current.size
        /\ current'.depth = current.depth /\ current.depth > 0
    BY <1>5 DEF NewBest
  <2>2. limit' = [limit EXCEPT !.drop = drop, !.flag = limit'.flag]
    BY <1>5 DEF NewBest
  <2>3. (limit.flag /\ ~otherMove /\ ~drop) \in BOOLEAN
    OBVIOUS
  <2>4. limit' \in LimitType
    BY <1>5, <2>3 DEF NewBest
  <2>5. limit'.drop = drop /\ (drop => current.depth > 1)
    BY <1>5, <2>2 DEF NewBest
  <2>6. UNCHANGED <<gameVars, searching, elapsed, lastPoll, bStop>>
    BY <1>5 DEF NewBest
  <2> QED
    BY <2>1, <2>2, <2>4, <2>5, <2>6
<1>6. Effect
  BY <1>1, <1>2, <1>3, <1>4, <1>5
<1>7. SameTimes
  BY <1>6 DEF SameTimes, gameVars
<1>8. Types' /\ NothingDropped'
  BY <1>6 DEF gameVars
<1>9. Looks'
  BY <1>6 DEF Looks
<1>10. SeenInTime'
  <2>1. OnClock' <=> OnClock
    BY <1>7, StillInTime
  <2>2. /\ limit'.stepC = limit.stepC /\ limit'.step1 = limit.step1
        /\ limit'.time = limit.time /\ limit'.timeIsLimited = limit.timeIsLimited
    BY <1>7 DEF SameTimes
  <2>3. /\ bStop' = bStop /\ lastPoll' = lastPoll /\ current'.size = current.size
        /\ current'.depth > 1 => current.depth > 1
    BY <1>6
  <2> QED
    BY <2>1, <2>2, <2>3 DEF SeenInTime
<1> QED
  BY <1>7, <1>8, <1>9, <1>10, StillInTime

\* A look finds a limit reached, or the search goes on with time left.
LEMMA PollInTime ==
  ASSUME IInv, Poll
  PROVE  IInv'
<1>1. SameTimes /\ UNCHANGED current /\ lastPoll' = elapsed
  BY DEF Poll, SameTimes, gameVars, IInv, Types, LimitType
<1>2. limit' \in LimitType /\ limit'.drop = limit.drop /\ bStop' \in BOOLEAN
  BY DEF Poll, IInv, Types, LimitType, AskedToStop, MovetimeOver, PastTheSteps, OnlyMove
<1>3. Types'
  BY <1>1, <1>2 DEF IInv, Types, SameTimes
<1>4. Looks'
  BY <1>1, TimeAssumption DEF IInv, Types, Looks, SameTimes
<1>5. NothingDropped'
  BY <1>1, <1>2 DEF IInv, NothingDropped
<1>6. OnClock /\ current.depth > 1 /\ ~bStop' => ~PastTheSteps /\ ~OnlyMove
  BY DEF Poll, OnClock, AskedToStop
<1>7. OnClock /\ ~PastTheSteps => elapsed < limit.stepC
  BY DEF IInv, Types, LimitType, CurrentType, StepsInOrder, PastTheSteps
<1>8. ~OnlyMove /\ current.size = 1 => elapsed < Largest(limit.step1 \div 8, 1)
  BY DEF IInv, Types, LimitType, OnlyMove, Largest
<1>9. limit.timeIsLimited /\ ~bStop' => elapsed <= Largest(limit.time - 3, 0)
  BY DEF Poll, MovetimeOver, IInv, Types, LimitType, Largest
<1>10. SeenInTime'
  BY <1>1, <1>6, <1>7, <1>8, <1>9, StillInTime DEF IInv, SeenInTime, SameTimes
<1> QED
  BY <1>1, <1>3, <1>4, <1>5, <1>10, StillInTime DEF IInv

\* The end of the first iteration is a look as well; later ones may be none.
LEMMA IterationEndsInTime ==
  ASSUME IInv, NEW sameMove \in BOOLEAN, IterationEnds(sameMove)
  PROVE  IInv'
<1>1. SameTimes /\ UNCHANGED lastPoll
  <2>1. UNCHANGED <<gameVars, searching, elapsed, lastPoll>>
    BY DEF IterationEnds
  <2>2. limit' = [limit EXCEPT !.flag = limit'.flag]
    BY DEF IterationEnds, IInv, Types, LimitType
  <2>3. current'.size = current.size
    BY DEF IterationEnds, IInv, Types, CurrentType, StartRoot
  <2> QED
    BY <2>1, <2>2, <2>3 DEF SameTimes, gameVars, IInv, Types, LimitType
<1>2. limit' \in LimitType /\ limit'.drop = limit.drop /\ bStop' \in BOOLEAN
  BY DEF IterationEnds, IInv, Types, LimitType, EnoughForMove
<1>3. /\ current' \in CurrentType
      /\ bStop' => current' = current
      /\ ~bStop' => current'.depth = current.depth + 1 /\ current'.scored = FALSE
  <2>1. current \in CurrentType
    BY DEF IInv, Types
  <2>2. CASE bStop'
    BY <2>1, <2>2 DEF IterationEnds
  <2>3. CASE ~bStop'
    <3>1. StartRoot(current.depth + 1)
      BY <2>3 DEF IterationEnds
    <3> DEFINE next == current.depth + 1
    <3>2. next \in Nat
      BY <2>1 DEF CurrentType
    <3>3. current' = [current EXCEPT !.depth = next, !.pos = 0, !.failHigh = FALSE, !.scored = FALSE]
      BY <3>1 DEF StartRoot
    <3>4. current' \in CurrentType /\ current'.depth = next /\ current'.scored = FALSE
      <4> HIDE DEF next
      <4> QED
        BY <2>1, <3>2, <3>3 DEF CurrentType
    <3> QED
      BY <2>3, <3>4
  <2> QED
    BY <2>2, <2>3
<1>4. Types'
  BY <1>1, <1>2, <1>3 DEF IInv, Types, SameTimes
<1>5. Looks'
  BY <1>1, <1>2, <1>3 DEF IInv, Types, CurrentType, Looks, SameTimes
<1>6. NothingDropped'
  BY <1>2, <1>3 DEF IInv, NothingDropped
<1>7. OnClock /\ ~bStop' /\ ~(limit.drop) => elapsed < limit.step1 \div 2
                /\ (current.size = 1 => elapsed < limit.step1 \div 16)
  BY DEF IterationEnds, EnoughForMove, OnClock, IInv, Types, LimitType
<1>8. ASSUME OnClock, ~bStop'
      PROVE  lastPoll < limit.stepC /\ (current.size = 1 => lastPoll < Largest(limit.step1 \div 8, 1))
  <2>1. CASE current.depth > 1
    BY <1>8, <2>1 DEF IInv, SeenInTime, IterationEnds, Running
  <2>2. CASE current.depth <= 1
    <3>1. current.depth = 1 /\ current.scored
      BY <1>8, <2>2 DEF IterationEnds, IInv, Types, CurrentType, NothingDropped
    <3>2. ~limit.drop
      BY <3>1 DEF IInv, NothingDropped
    <3>3. lastPoll <= elapsed /\ limit.step1 <= limit.stepC
      BY <1>8 DEF IInv, Looks, StepsInOrder
    <3>4. limit.step1 \in Nat /\ limit.stepC \in Nat /\ elapsed \in Nat /\ lastPoll \in Nat
      BY DEF IInv, Types, LimitType
    <3> QED
      BY <1>7, <1>8, <3>2, <3>3, <3>4 DEF Largest
  <2> QED
    BY <2>1, <2>2 DEF IInv, Types, CurrentType
<1>9. SeenInTime'
  BY <1>1, <1>8, StillInTime DEF IInv, SeenInTime, SameTimes, IterationEnds, Running
<1> QED
  BY <1>1, <1>4, <1>5, <1>6, <1>9, StillInTime DEF IInv

-----------------------------------------------------------------------------
(* Time, the GUI, and the two ends of a search.                            *)

\* Time passes only up to an interval after a look that found time left.
LEMMA TimePassesInTime ==
  ASSUME IInv, TimePasses
  PROVE  IInv'
<1> USE DEF IInv, Types, LimitType, CurrentType
<1>1. UNCHANGED <<gameVars, searching, limit, current, lastPoll, bStop>>
  BY DEF TimePasses
<1>2. /\ ~bStop /\ elapsed' = elapsed + Tick /\ elapsed' <= lastPoll + PollInterval
      /\ current.depth <= 1 => elapsed' <= PollInterval
  BY DEF TimePasses, Running
<1>3. elapsed' \in Nat /\ PollInterval \in Nat /\ lastPoll <= elapsed'
  BY <1>2, TimeAssumption DEF Looks
<1>4. Types' /\ StepsInOrder' /\ NothingDropped' /\ SeenInTime'
  BY <1>1, <1>3 DEF gameVars, StepsInOrder, NothingDropped, SeenInTime, OnClock
<1>5. Looks'
  BY <1>1, <1>2, <1>3 DEF Looks
<1>6. OnClock => elapsed' <= limit.stepC + PollInterval
  BY <1>2, <1>3 DEF SeenInTime
<1>7. OnClock /\ current.size = 1
        => elapsed' < Largest(limit.step1 \div 8, 1) + PollInterval
  BY <1>2, <1>3 DEF SeenInTime, Largest
<1>8. limit.timeIsLimited => elapsed' <= Largest(limit.time - 3, 0) + PollInterval
  BY <1>2, <1>3 DEF SeenInTime, Largest
<1>9. InTime'
  BY <1>1, <1>6, <1>7, <1>8 DEF InTime, NeverFlags, ForcedMoveIsQuick, MovetimeKept, OnClock, gameVars
<1> QED
  BY <1>4, <1>5, <1>9

LEMMA InterruptsInTime ==
  ASSUME IInv, Stop \/ PonderHit
  PROVE  IInv'
<1>1. /\ UNCHANGED <<gameVars, searching, limit, current, elapsed, lastPoll>>
      /\ bStop' = bStop \/ bStop' = TRUE
  BY DEF Stop, PonderHit
<1> QED
  BY <1>1, ZenonT(40) DEF gameVars, IInv, Types, StepsInOrder, Looks, NothingDropped, SeenInTime, InTime,
              OnClock, NeverFlags, ForcedMoveIsQuick, MovetimeKept

\* A search begins with its limits below the clock.
LEMMA BeginInTime ==
  ASSUME IInv, NEW hard \in BOOLEAN, NEW movetime \in Nat, NEW steps, NEW ponder \in BOOLEAN,
         NEW size \in Nat, Begin(hard, movetime, steps, ponder, size), inc' \in Nat,
         steps \in [step1 : Nat, stepB : Nat, stepC : Nat],
         hard => /\ steps.step1 <= steps.stepC /\ steps.stepB <= steps.stepC
                 /\ steps.stepC <= Largest(clock - 60, 0) /\ played < MovesOfGame
  PROVE  IInv'
<1> USE DEF IInv, Types, LimitType, CurrentType
<1>1. UNCHANGED <<clock, played>> /\ elapsed' = 0 /\ lastPoll' = 0 /\ bStop' = FALSE
      /\ searching' = TRUE
  BY DEF Begin
<1>2. /\ limit' = [hard |-> hard, timeIsLimited |-> movetime > 0, time |-> movetime,
                   step1 |-> steps.step1, stepB |-> steps.stepB, stepC |-> steps.stepC,
                   ponder |-> ponder, flag |-> FALSE, drop |-> limit.drop]
      /\ current' = [depth |-> 0, pos |-> 0, size |-> size, failHigh |-> FALSE, scored |-> FALSE]
  BY DEF Begin, Cleared
<1>3. Types'
  <2>1. (movetime > 0) \in BOOLEAN
    OBVIOUS
  <2> HIDE DEF IInv
  <2>2. limit.drop \in BOOLEAN
    BY DEF IInv
  <2>3. limit' \in LimitType
    BY <1>2, <2>1, <2>2
  <2>4. current' \in CurrentType
    BY <1>2
  <2> HIDE DEF LimitType, CurrentType
  <2> QED
    BY <1>1, <2>3, <2>4 DEF IInv
<1>4. StepsInOrder'
  BY <1>1, <1>2 DEF StepsInOrder, OnClock
<1>5. Looks' /\ NothingDropped'
  BY <1>1, <1>2, TimeAssumption DEF Looks, NothingDropped
<1>6. SeenInTime'
  BY <1>1, <1>2 DEF SeenInTime, Largest
<1>7. InTime'
  BY <1>1, <1>2, <1>3, TimeAssumption
     DEF InTime, OnClock, NeverFlags, ForcedMoveIsQuick, MovetimeKept, Largest
<1> QED
  BY <1>3, <1>4, <1>5, <1>6, <1>7

\* Either side's limits are made of the engine's own clock.
LEMMA GoInTime ==
  ASSUME IInv, Go
  PROVE  IInv'
<1>1. ASSUME NEW size \in {1, 2}, NEW stm \in {"white", "black"}, NEW other \in OtherClocks,
             NEW increment \in Increments, NEW mtg \in MovesToGo, NEW stage \in Stages,
             NEW ponder \in BOOLEAN, GoOnClock(stm, other, increment, mtg, stage, ponder, size)
      PROVE  IInv'
  <2> PICK steps : steps = Budget(clock, increment, mtg, stage)
    OBVIOUS
  <2>1. increment \in Nat /\ mtg \in Nat /\ clock \in Int
    BY TimeAssumption DEF IInv, Types
  <2>2. /\ steps \in [step1 : Nat, stepB : Nat, stepC : Nat]
        /\ steps.step1 <= steps.stepC /\ steps.stepB <= steps.stepC
        /\ steps.stepC <= Largest(clock - 60, 0)
    BY <2>1, BudgetBelow
  <2>3. Begin(TRUE, 0, steps, ponder, size) /\ inc' = increment /\ played < MovesOfGame
    <3>1. CASE stm = "white"
      BY <1>1, <3>1 DEF GoOnClock, SetHard
    <3>2. CASE stm = "black"
      BY <1>1, <3>2 DEF GoOnClock, SetHard
    <3> QED
      BY <3>1, <3>2
  <2>4. size \in Nat /\ inc' \in Nat
    BY <2>1, <2>3
  <2> QED
    BY <2>2, <2>3, <2>4, BeginInTime
<1>2. ASSUME NEW size \in {1, 2}, NEW movetime \in Movetimes, GoMovetime(movetime, size)
      PROVE  IInv'
  <2>1. movetime \in Nat /\ NoSteps \in [step1 : Nat, stepB : Nat, stepC : Nat]
    BY TimeAssumption DEF NoSteps
  <2>2. Begin(FALSE, movetime, NoSteps, FALSE, size) /\ inc' = 0
    BY <1>2 DEF GoMovetime
  <2> QED
    BY <2>1, <2>2, BeginInTime
<1> QED
  BY <1>1, <1>2 DEF Go

\* What the move took is at most what was above the reserve, and an interval.
LEMMA AnswerInTime ==
  ASSUME IInv, Answer
  PROVE  IInv'
<1> USE DEF IInv, Types, LimitType, CurrentType
<1>1. /\ searching' = FALSE /\ elapsed' = 0 /\ lastPoll' = 0 /\ inc' = 0 /\ bStop' = bStop
      /\ current' = Cleared /\ limit' = [NoLimit EXCEPT !.drop = limit.drop]
  BY DEF Answer
<1>2. limit' \in LimitType /\ ~limit'.timeIsLimited /\ limit'.time = 0 /\ current' \in CurrentType
      /\ current'.depth = 0 /\ ~current'.scored
  BY <1>1 DEF Cleared, NoLimit
<1>3. PollInterval \in Nat /\ MovesOfGame \in Nat
  BY TimeAssumption
<1>4. clock' \in Int /\ played' \in Nat /\ played' <= MovesOfGame /\ NeverFlags'
  <2>1. CASE limit.hard /\ ~limit.ponder
    <3>1. OnClock /\ clock' = clock - elapsed + inc /\ played' = played + 1
      BY <2>1 DEF Answer, OnClock
    <3>2. elapsed <= Largest(clock - 60, 0) + PollInterval /\ played < MovesOfGame
      BY <3>1, <1>3 DEF StepsInOrder, InTime, Largest
    <3>3. clock >= 60 - played * PollInterval
      BY DEF InTime, NeverFlags
    <3> DEFINE lost == played * PollInterval
    <3>4. lost \in Nat /\ (played + 1) * PollInterval = lost + PollInterval
      BY <1>3
    <3>5. clock' >= 60 - (lost + PollInterval)
      <4>1. clock >= 60 - lost
        BY <3>3
      <4> HIDE DEF lost
      <4> QED
        BY <4>1, <1>3, <3>1, <3>2, <3>4 DEF Largest
    <3>6. NeverFlags'
      BY <3>1, <3>4, <3>5 DEF NeverFlags
    <3> QED
      BY <3>1, <3>2, <3>6, <1>3
  <2>2. CASE ~(limit.hard /\ ~limit.ponder)
    <3>1. clock' = clock /\ played' \in {played, MovesOfGame}
      BY <2>2 DEF Answer
    <3>2. played * PollInterval \in Nat /\ MovesOfGame * PollInterval \in Nat
      BY <1>3
    <3>3. played * PollInterval <= MovesOfGame * PollInterval
      BY <1>3
    <3>4. played' * PollInterval >= played * PollInterval
      BY <3>1, <3>2, <3>3
    <3>5. played' * PollInterval \in Nat
      BY <3>1, <3>2
    <3>6. clock >= 60 - played * PollInterval
      BY DEF InTime, NeverFlags
    <3>7. NeverFlags'
      BY <3>1, <3>2, <3>4, <3>5, <3>6 DEF NeverFlags
    <3> QED
      BY <3>1, <3>7, <1>3
  <2> QED
    BY <2>1, <2>2
<1>5. Types' /\ StepsInOrder'
  BY <1>1, <1>2, <1>4 DEF StepsInOrder, OnClock
<1>6. Looks' /\ NothingDropped'
  BY <1>1, <1>2, <1>3 DEF Looks, NothingDropped
<1>7. SeenInTime' /\ InTime'
  BY <1>1, <1>2, <1>3, <1>4
     DEF SeenInTime, InTime, OnClock, ForcedMoveIsQuick, MovetimeKept, Largest
<1> QED
  BY <1>5, <1>6, <1>7

-----------------------------------------------------------------------------
(* The specification.                                                      *)

\* A game begins with the reserve on the clock.
StartsAboveReserve == \A time \in Clocks : time >= 60

LEMMA InitInTime == StartsAboveReserve /\ Init => IInv
<1> SUFFICES ASSUME StartsAboveReserve, Init PROVE IInv
  OBVIOUS
<1>1. clock \in Nat /\ clock >= 60 /\ PollInterval \in Nat /\ MovesOfGame \in Nat
  BY TimeAssumption DEF Init, StartsAboveReserve
<1>2. limit \in LimitType /\ current \in CurrentType /\ current.depth = 0 /\ ~current.scored
      /\ limit.time = 0 /\ ~limit.timeIsLimited
  BY DEF Init, NoLimit, Cleared, LimitType, CurrentType
<1>3. inc = 0 /\ played = 0 /\ searching = FALSE /\ bStop = FALSE /\ elapsed = 0 /\ lastPoll = 0
  BY DEF Init
<1>4. Types
  <2>1. searching \in BOOLEAN /\ bStop \in BOOLEAN
    BY <1>3
  <2>2. clock \in Int /\ inc \in Nat /\ played \in Nat /\ played <= MovesOfGame
        /\ elapsed \in Nat /\ lastPoll \in Nat
    BY <1>1, <1>3
  <2> QED
    BY <1>2, <2>1, <2>2 DEF Types
<1>5. StepsInOrder /\ Looks /\ NothingDropped
  BY <1>1, <1>2, <1>3 DEF StepsInOrder, Looks, NothingDropped, OnClock
<1>6. SeenInTime
  BY <1>2, <1>3 DEF SeenInTime, OnClock, Largest
<1>7. NeverFlags
  BY <1>1, <1>3 DEF NeverFlags
<1>8. InTime
  BY <1>1, <1>2, <1>3, <1>7 DEF InTime, OnClock, ForcedMoveIsQuick, MovetimeKept, Largest
<1> QED
  BY <1>4, <1>5, <1>6, <1>8 DEF IInv

LEMMA StepInTime == IInv /\ [Next]_vars => IInv'
<1> SUFFICES ASSUME IInv, [Next]_vars PROVE IInv'
  OBVIOUS
<1>1. CASE Searches
  BY <1>1, WithinIteration, IterationEndsInTime, PollInTime, AnswerInTime DEF Searches
<1>2. CASE Go \/ TimePasses \/ Stop \/ PonderHit
  BY <1>2, GoInTime, TimePassesInTime, InterruptsInTime
<1>3. CASE UNCHANGED vars
  BY <1>3 DEF vars, gameVars, IInv, Types, StepsInOrder, Looks, NothingDropped, SeenInTime, InTime,
     OnClock, NeverFlags, ForcedMoveIsQuick, MovetimeKept
<1> QED
  BY <1>1, <1>2, <1>3 DEF Next

\* The invariant that the next rests on.
THEOREM Inductive == StartsAboveReserve => (Spec => []IInv)
<1>1. StartsAboveReserve => (Init => IInv)
  BY InitInTime
<1> QED
  BY <1>1, StepInTime, PTL DEF Spec

\* From any clock with the reserve on it, no game is lost on time but by the
\* intervals between two looks at the clock; a forced move is made in an eighth
\* of its time or in the first iteration; go movetime is kept.
THEOREM KeepsTime == StartsAboveReserve => (Spec => []TimeKept)
<1>1. IInv => TimeKept
  BY DEF IInv, InTime, TimeKept
<1> QED
  BY <1>1, Inductive, PTL
=============================================================================
