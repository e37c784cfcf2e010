--------------------------- MODULE OpeningBlocks ---------------------------
(***************************************************************************)
(* The block of openings that one match of the test monitor plays          *)
(* (cmd/testmonitor/opening_blocks.go) and the audit of the games that     *)
(* came out of it (main.go).  An opening is a key; the hash that orders    *)
(* the book for a seed is any ranking without ties.                        *)
(***************************************************************************)
EXTENDS Integers, Sequences, FiniteSets, FiniteSetsExt, SequencesExt

CONSTANTS
  Book,         \* the entries of the book, in their order, with repetitions
  Seeds,
  Rank,         \* for each seed, the place of each opening in the order of hashes
  BlockIndex,
  BlockSize     \* openings of a block: half the games of the match

Colours  == {"white", "black"}
Openings == ToSet(Book)

ASSUME BlockAssumption ==
  /\ Book \in Seq(Openings) /\ BlockIndex \in Nat /\ BlockSize \in Nat \ {0}
  /\ \A s \in Seeds : Rank[s] \in Bijection(Openings, 1..Cardinality(Openings))
  /\ Cardinality(Openings) >= (BlockIndex + 1) * BlockSize

InPlace(seed, n) == CHOOSE o \in Openings : Rank[seed][o] = n

\* parseOpeningEntries keeps the first entry of each key; selectOpeningBlock
\* orders them by their hashes and takes one stretch.
SelectBlock(seed) ==
  [i \in 1..BlockSize |-> InPlace(seed, BlockIndex * BlockSize + i)]

\* The games of a match: every opening with either colour.
Games(b)    == ToSet(b) \X Colours
TargetGames == 2 * BlockSize

\* A PGN file counts each game it holds; a game identity leaves the colours out.
EmptyPGN == [g \in Openings \X Colours |-> 0]

\* auditPGN
Audit(p) ==
  LET played(o) == p[<<o, "white">>] + p[<<o, "black">>]
  IN [games     |-> MapThenSumSet(played, Openings),
      unique    |-> Cardinality({o \in Openings : played(o) > 0}),
      wrongSize |-> Cardinality({o \in Openings : played(o) \notin {0, 2}})]
=============================================================================
