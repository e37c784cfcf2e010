----------------------------- MODULE TransTable -----------------------------
(***************************************************************************)
(* The transposition table of search/trans.go: an array of entries, a key  *)
(* looks at Window consecutive slots from its index on, and a generation   *)
(* that each search steps.  One goroutine uses it at a time (the rule that *)
(* UciSession examines), so every method is one action.                    *)
(*                                                                         *)
(* An entry keeps the code's fields; depth is an int8.  No method looks at *)
(* the bits of a key beyond its index and its lock.                        *)
(***************************************************************************)
EXTENDS MateScore, FiniteSets

CONSTANTS
  Keys,        \* [index, lock]: the positions that are looked up
  Sizes,       \* numbers of entries SetSize can choose, powers of two
  Window,      \* slots a key looks at: 4
  MaxGen,      \* the largest generation: 65535
  Moves,       \* moves, None among them
  Depths,      \* depths the search stores and asks for
  Plies,       \* distances from the root
  Scores       \* scores the search stores

None  == 0
Lower == 1     \* scoreTypeLower, a bit
Upper == 2     \* scoreTypeUpper, a bit
Types == {Lower, Upper, Lower + Upper}

ASSUME TableAssumption ==
  /\ \A k \in Keys : k.index \in Nat /\ k.lock \in Nat
  /\ Sizes \subseteq Nat \ {0}
  /\ Window \in Nat \ {0} /\ MaxGen \in Nat \ {0}
  /\ Moves \subseteq Nat /\ None \in Moves
  /\ Depths \subseteq Int /\ Plies \subseteq Nat /\ Scores \subseteq Int

VARIABLES entries, size, generation, cntUsed
vars == <<entries, size, generation, cntUsed>>

Entry == [lock : Nat, move : Moves, score : Int, date : Nat, depth : -128..127,
          scoreType : {0} \cup Types]

Empty == [lock |-> 0, move |-> None, score |-> 0, date |-> 0, depth |-> 0,
          scoreType |-> 0]

Blank(n) == [s \in 0..(n - 1) |-> Empty]

Int8(d) == ((d + 128) % 256) - 128

\* InitTable, SetSize and Alloc in search's init.
Init ==
  /\ size \in Sizes
  /\ entries = Blank(size)
  /\ generation = 1
  /\ cntUsed = 0

-----------------------------------------------------------------------------
Tries == 0..(Window - 1)

\* The slot of try i; the code masks, size is a power of two.
Slot(k, i) == (k.index + i) % size

At(k, i) == entries[Slot(k, i)]

\* Store and Retrieve stop at the first slot that holds the lock.
Matches(k, i) ==
  /\ At(k, i).lock = k.lock
  /\ \A j \in Tries : j < i => At(k, j).lock # k.lock

\* Mutant: depth 99 leaves nothing above bs.
GiveUpFrom98(e) == 98 - e.depth + (IF e.date # generation THEN 101 ELSE 0)

\* Mutant: age does not matter.
GiveUpByDepth(e) == 99 - e.depth

\* sc2: how willingly an entry is given up.  A slot is a candidate when this is
\* more than bs, which begins at -1.
GiveUp(e) == 99 - e.depth + (IF e.date # generation THEN 101 ELSE 0)

\* Mutant: an old slot is taken before the rest of the window has been seen.
VictimEarly(k, i) ==
  /\ At(k, i).date # generation
  /\ \A j \in Tries : j <= i => At(k, j).lock # k.lock
  /\ \A j \in Tries : j < i => At(k, j).date = generation

\* The slot to give up: the first of the most willing, when none holds the lock.
Victim(k, i) ==
  /\ GiveUp(At(k, i)) > -1
  /\ \A j \in Tries : /\ At(k, j).lock # k.lock
                      /\ GiveUp(At(k, j)) <= GiveUp(At(k, i))
                      /\ j < i => GiveUp(At(k, j)) < GiveUp(At(k, i))

\* Mutant: a refreshed entry is not counted.
WriteUncounted(s, e) ==
  /\ entries' = [entries EXCEPT ![s] = e]
  /\ cntUsed' = cntUsed + (IF entries[s].date = 0 THEN 1 ELSE 0)
  /\ UNCHANGED <<size, generation>>

\* Every write leaves the slot in the present generation, and counts it if it
\* was not.
Write(s, e) ==
  /\ entries' = [entries EXCEPT ![s] = e]
  /\ cntUsed' = cntUsed + (IF entries[s].date # generation THEN 1 ELSE 0)
  /\ UNCHANGED <<size, generation>>

Stored(k, depth, ply, mv, sc, t) ==
  [lock |-> k.lock, move |-> mv, score |-> RemMatePly(sc, ply),
   date |-> generation, depth |-> Int8(depth), scoreType |-> t]

\* Mutant: the shallower result is written under the old depth.
MergeScore(old, new, depth) ==
  IF old.date # generation \/ depth >= old.depth THEN new
  ELSE [new EXCEPT !.depth = old.depth]

\* What becomes of an entry that holds the lock: one of an older search is
\* replaced whatever its depth, one of this search by a result as deep, which
\* inherits its move if it has none; a shallower one only brings a move.
Merge(old, new, depth) ==
  IF old.date # generation THEN new
  ELSE IF depth >= old.depth
       THEN [new EXCEPT !.move = IF @ = None THEN old.move ELSE @]
       ELSE [old EXCEPT !.move = IF @ = None THEN new.move ELSE @]

StoreMatch(k, depth, new) ==
  \E i \in Tries : Matches(k, i) /\ Write(Slot(k, i), Merge(At(k, i), new, depth))

StoreEvict(k, new) ==
  \E i \in Tries : Victim(k, i) /\ Write(Slot(k, i), new)

StoreOf(k, depth, new) == StoreMatch(k, depth, new) \/ StoreEvict(k, new)

Store ==
  \E k \in Keys, depth \in Depths, ply \in Plies, mv \in Moves, sc \in Scores,
     t \in Types : StoreOf(k, depth, Stored(k, depth, ply, mv, sc, t))

\* Retrieve comes upon slot i: an entry with the lock that is no empty slot.
Finds(k, i) ==
  /\ At(k, i).lock = k.lock /\ At(k, i).date # 0
  /\ \A j \in Tries : j < i => At(k, j).lock # k.lock \/ At(k, j).date = 0

\* Retrieve's effect: the entry belongs to the present search from now on.
Retrieve ==
  \E k \in Keys, i \in Tries :
    Finds(k, i) /\ Write(Slot(k, i), [At(k, i) EXCEPT !.date = generation])

HasLower(t) == t \in {Lower, Lower + Upper}
HasUpper(t) == t \in {Upper, Lower + Upper}

\* Mutant: a shallow entry keeps its flags.
FlagsKept(e, depth, sc) == e.scoreType

\* Retrieve's out parameter flags for a shallow entry: scoreTypeUpper is cleared,
\* and scoreTypeLower too when one is being mated.
Flags(e, depth, sc) ==
  IF e.depth >= depth THEN e.scoreType
  ELSE IF HasLower(e.scoreType) /\ sc >= 0 THEN Lower ELSE 0

\* Retrieve's answer from entry e: may the score be used, which and how.
Answer(e, depth, ply) ==
  LET sc == AddMatePly(e.score, ply)
  IN  [ok |-> e.depth >= depth \/ IsMateScore(sc), move |-> e.move, score |-> sc,
       flags |-> Flags(e, depth, sc)]

-----------------------------------------------------------------------------
\* IncDate, at the start of each search.
IncDate ==
  /\ generation' = IF generation = MaxGen THEN 1 ELSE generation + 1
  /\ entries' = IF generation = MaxGen THEN Blank(size) ELSE entries
  /\ cntUsed' = 0
  /\ UNCHANGED size

Clear ==
  /\ entries' = Blank(size)
  /\ generation' = 1
  /\ cntUsed' = 0
  /\ UNCHANGED size

\* Resize: a new array and the next generation, or Clear if the size stays.
Resize ==
  \E n \in Sizes :
    /\ size' = n
    /\ entries' = Blank(n)
    /\ generation' = IF n = size \/ generation = MaxGen THEN 1 ELSE generation + 1
    /\ cntUsed' = 0

Next == Store \/ Retrieve \/ IncDate \/ Clear \/ Resize

Spec == Init /\ [][Next]_vars

-----------------------------------------------------------------------------
(* Properties.                                                             *)

Slots == 0..(size - 1)
Current == {s \in Slots : entries[s].date = generation}

TypeOK ==
  /\ size \in Sizes
  /\ entries \in [Slots -> Entry]
  /\ generation \in 1..MaxGen
  /\ cntUsed \in Nat

\* cntUsed, which Used reports as hashfull, is the number of entries written or
\* read in the present search, whichever of the ways a slot can become current.
UsedCountsCurrent == cntUsed = Cardinality(Current)

\* No entry is of a later generation, not even when the counter has started over:
\* an entry of 65535 searches ago is never taken for a current one.
NoFutureDate == \A s \in Slots : entries[s].date <= generation

\* What the generations are for: hashfull is true, and "current" means this search.
GenerationsRight == UsedCountsCurrent /\ NoFutureDate

\* A position has one entry: a key whose lock no key of another index shares is
\* never stored beside an entry of its own that it did not see.
NoDuplicate ==
  \A s, t \in Slots :
    /\ s # t /\ entries[s].date # 0 /\ entries[t].date # 0
    /\ entries[s].lock = entries[t].lock
    => \E k, l \in Keys : /\ k.lock = entries[s].lock /\ l.lock = k.lock
                          /\ k.index # l.index

\* One entry for each position, and those of the present search are told from the
\* others: a lookup is never answered by an entry that a newer one has replaced.
EntriesRight == GenerationsRight /\ NoDuplicate

\* trans.go: "be != nil".  When no slot holds the lock there is one to give up.
CandidateExists ==
  \A k \in Keys : (\A i \in Tries : At(k, i).lock # k.lock)
                    => \E i \in Tries : GiveUp(At(k, i)) > -1

\* Slot s goes from one position of the present search to another.
Displaced(s) == /\ entries[s].date = generation /\ entries'[s].date = generation
                /\ entries'[s].lock # entries[s].lock

\* The new occupant's window was all current, and nothing in it shallower.
NowhereElse(s) ==
  \E k \in Keys : /\ k.lock = entries'[s].lock
                  /\ \A i \in Tries : /\ At(k, i).date = generation
                                      /\ At(k, i).depth >= entries[s].depth

DisplacesLast ==
  generation' = generation /\ size' = size => \A s \in Slots : Displaced(s) => NowhereElse(s)

\* trans.go: an entry of an older generation is replaced first, then a shallower
\* one.  A current entry makes way for another position only when the whole window
\* is current and no entry in it shallower.
EvictsOldThenShallow == [][DisplacesLast]_vars

\* A full window always has an entry to give up, and gives up the right one.
EvictionRight == []CandidateExists /\ EvictsOldThenShallow
=============================================================================

