---------------------------- MODULE CacheProofs ----------------------------
(***************************************************************************)
(* Proofs about what outlives a search: the transposition table, for any   *)
(* number of keys, any table sizes, any window and any largest generation; *)
(* and the configuration its entries are of, for any registries, files,    *)
(* contempt values and table sets.                                         *)
(***************************************************************************)
EXTENDS TransLog, ParameterRegistry, FiniteSetTheorems, TLAPS

-----------------------------------------------------------------------------
(* TransTable: what a slot holds, and what a probe of it says.             *)


\* A key's tries are slots of the table.
LEMMA SlotInTable ==
  ASSUME TypeOK, NEW k \in Keys, NEW i \in Tries
  PROVE  Slot(k, i) \in Slots
<1>1. k.index + i \in Nat /\ size \in Nat \ {0}
  BY TableAssumption DEF TypeOK, Tries, TableAssumption
<1>2. \A a \in Nat, n \in Nat \ {0} : a % n \in 0..(n - 1)
  OBVIOUS
<1> QED
  BY <1>1, <1>2 DEF Slot, Slots

\* What a table read with an int8 depth holds.
LEMMA StoredType ==
  ASSUME TypeOK, NEW k \in Keys, NEW d \in Depths, NEW p \in Plies, NEW mv \in Moves,
         NEW sc \in Scores, NEW t \in Types
  PROVE  Stored(k, d, p, mv, sc, t) \in Entry
<1>1. Int8(d) \in -128..127
  BY TableAssumption DEF Int8, TableAssumption
<1>2. RemMatePly(sc, p) \in Int
  BY TableAssumption, EvalMaxAssumption DEF RemMatePly, TableAssumption, EvalMaxAssumption
<1>3. k.lock \in Nat /\ generation \in Nat
  BY TableAssumption DEF TableAssumption, TypeOK
<1> QED
  BY <1>1, <1>2, <1>3 DEF Stored, Entry

\* A merged entry is one of the two or has the fields of both; it is as current as
\* the new one and has the lock they share.
LEMMA MergeType ==
  ASSUME NEW old \in Entry, NEW new \in Entry, NEW d
  PROVE  /\ Merge(old, new, d) \in Entry
         /\ new.date = generation => Merge(old, new, d).date = generation
         /\ old.lock = new.lock => Merge(old, new, d).lock = new.lock
         /\ \/ Merge(old, new, d).move = new.move
            \/ Merge(old, new, d).move = old.move
         /\ \/ /\ Merge(old, new, d).depth = new.depth
               /\ Merge(old, new, d).score = new.score
               /\ Merge(old, new, d).scoreType = new.scoreType
            \/ /\ Merge(old, new, d).depth = old.depth
               /\ Merge(old, new, d).score = old.score
               /\ Merge(old, new, d).scoreType = old.scoreType
         /\ Merge(old, new, d) # new => old.date = generation
  BY DEF Merge, Entry

\* A blank table is a table.
LEMMA BlankType ==
  ASSUME NEW n \in Sizes
  PROVE  /\ Blank(n) \in [0..(n - 1) -> Entry]
         /\ \A s \in 0..(n - 1) : Blank(n)[s] = Empty
<1>1. Empty \in Entry
  BY TableAssumption DEF Empty, Entry, TableAssumption
<1> QED
  BY <1>1 DEF Blank

\* The three ways the code writes an entry, seen as one: it becomes current.
LEMMA WriteCases ==
  ASSUME TypeOK, Store \/ Retrieve
  PROVE  \E s \in Slots, e \in Entry : Write(s, e) /\ e.date = generation
<1>1. CASE Store
  <2>1. PICK k \in Keys, d \in Depths, p \in Plies, mv \in Moves, sc \in Scores, t \in Types :
          \/ StoreMatch(k, d, Stored(k, d, p, mv, sc, t))
          \/ StoreEvict(k, Stored(k, d, p, mv, sc, t))
    BY <1>1 DEF Store, StoreOf
  <2> DEFINE new == Stored(k, d, p, mv, sc, t)
  <2>2. new \in Entry /\ new.date = generation
    BY StoredType DEF Stored
  <2> HIDE DEF new
  <2>3. CASE StoreMatch(k, d, new)
    <3>1. PICK i \in Tries : Write(Slot(k, i), Merge(At(k, i), new, d))
      BY <2>3 DEF StoreMatch
    <3>2. Slot(k, i) \in Slots /\ At(k, i) \in Entry
      BY SlotInTable DEF At, TypeOK
    <3> QED
      BY <2>2, <3>1, <3>2, MergeType
  <2>4. CASE StoreEvict(k, new)
    <3>1. PICK i \in Tries : Write(Slot(k, i), new)
      BY <2>4 DEF StoreEvict
    <3> QED
      BY <2>2, <3>1, SlotInTable
  <2> QED
    BY <2>1, <2>3, <2>4 DEF new
<1>2. CASE Retrieve
  <2>1. PICK k \in Keys, i \in Tries : Write(Slot(k, i), [At(k, i) EXCEPT !.date = generation])
    BY <1>2 DEF Retrieve
  <2>2. Slot(k, i) \in Slots /\ At(k, i) \in Entry
    BY SlotInTable DEF At, TypeOK
  <2>3. /\ [At(k, i) EXCEPT !.date = generation] \in Entry
        /\ [At(k, i) EXCEPT !.date = generation].date = generation
    BY <2>2 DEF Entry, TypeOK
  <2> QED
    BY <2>1, <2>2, <2>3
<1> QED
  BY <1>1, <1>2

-----------------------------------------------------------------------------
(* Types, generations and the count, together.                             *)

TableInv == TypeOK /\ NoFutureDate /\ UsedCountsCurrent

\* The current slots of a table are finitely many.
LEMMA CurrentFinite ==
  ASSUME TypeOK
  PROVE  IsFiniteSet(Current)
<1>1. size - 1 \in Int
  BY TableAssumption DEF TypeOK, TableAssumption
<1>2. IsFiniteSet(Slots)
  BY <1>1, FS_Interval DEF Slots
<1>3. Current \in SUBSET Slots
  BY DEF Current
<1> QED
  BY <1>2, <1>3, FS_Subset

LEMMA TableInit == Init => TableInv
<1> SUFFICES ASSUME Init PROVE TableInv
  OBVIOUS
<1>1. TypeOK
  BY BlankType, TableAssumption DEF Init, TypeOK, Slots, TableAssumption
<1>2. \A s \in Slots : entries[s].date = 0
  BY BlankType DEF Init, Slots, Empty
<1>3. NoFutureDate
  BY <1>2 DEF Init, NoFutureDate
<1>4. Current = {}
  BY <1>2 DEF Init, Current
<1>5. UsedCountsCurrent
  BY <1>4, FS_EmptySet DEF Init, UsedCountsCurrent
<1> QED
  BY <1>1, <1>3, <1>5 DEF TableInv

\* A table that has been blanked, whatever its new size and generation.
LEMMA TableBlanked ==
  ASSUME NEW n \in Sizes, size' = n, entries' = Blank(n), generation' \in 1..MaxGen, cntUsed' = 0
  PROVE  TableInv'
<1>1. TypeOK'
  BY BlankType DEF TypeOK, Slots
<1>2. \A s \in Slots' : entries'[s].date = 0
  BY BlankType DEF Slots, Empty
<1>3. NoFutureDate'
  BY <1>2 DEF NoFutureDate
<1>4. Current' = {}
  BY <1>2 DEF Current
<1>5. UsedCountsCurrent'
  BY <1>4, FS_EmptySet DEF UsedCountsCurrent
<1> QED
  BY <1>1, <1>3, <1>5 DEF TableInv

LEMMA TableStep == TableInv /\ [Next]_vars => TableInv'
<1> SUFFICES ASSUME TableInv, [Next]_vars PROVE TableInv'
  OBVIOUS
<1> USE DEF TableInv
<1>0. MaxGen \in Nat \ {0} /\ generation \in 1..MaxGen /\ size \in Sizes /\ cntUsed \in Nat
  BY TableAssumption DEF TableAssumption, TypeOK
<1>1. CASE UNCHANGED vars
  BY <1>1 DEF vars, TypeOK, NoFutureDate, UsedCountsCurrent, Slots, Current
<1>2. CASE Store \/ Retrieve
  <2>1. PICK s \in Slots, e \in Entry : Write(s, e) /\ e.date = generation
    BY <1>2, WriteCases
  <2>2. /\ entries' = [entries EXCEPT ![s] = e]
        /\ cntUsed' = cntUsed + (IF entries[s].date # generation THEN 1 ELSE 0)
        /\ size' = size /\ generation' = generation /\ Slots' = Slots
    BY <2>1 DEF Write, Slots
  <2>3. TypeOK'
    <3>1. entries' \in [Slots -> Entry]
      BY <2>1, <2>2 DEF TypeOK
    <3>2. cntUsed' \in Nat
      BY <1>0, <2>2
    <3> QED
      BY <1>0, <2>2, <3>1, <3>2 DEF TypeOK
  <2>4. entries'[s] = e /\ \A x \in Slots : x # s => entries'[x] = entries[x]
    BY <2>2 DEF TypeOK
  <2>5. NoFutureDate'
    BY <1>0, <2>1, <2>2, <2>4 DEF NoFutureDate
  <2>6. Current' = Current \cup {s}
    BY <2>1, <2>2, <2>4 DEF Current
  <2>7. /\ Cardinality(Current') = IF s \in Current THEN Cardinality(Current)
                                   ELSE Cardinality(Current) + 1
        /\ s \in Current <=> entries[s].date = generation
    BY <2>6, CurrentFinite, FS_AddElement DEF Current
  <2>8. UsedCountsCurrent'
    <3>1. cntUsed = Cardinality(Current)
      BY DEF UsedCountsCurrent
    <3>2. CASE s \in Current
      BY <1>0, <2>2, <2>7, <3>1, <3>2 DEF UsedCountsCurrent
    <3>3. CASE s \notin Current
      BY <1>0, <2>2, <2>7, <3>1, <3>3 DEF UsedCountsCurrent
    <3> QED
      BY <3>2, <3>3
  <2> QED
    BY <2>3, <2>5, <2>8
<1>3. CASE IncDate
  <2>1. CASE generation = MaxGen
    BY <1>0, <1>3, <2>1, TableBlanked DEF IncDate
  <2>2. CASE generation # MaxGen
    <3>1. /\ generation' = generation + 1 /\ entries' = entries /\ size' = size /\ cntUsed' = 0
          /\ Slots' = Slots
      BY <1>3, <2>2 DEF IncDate, Slots
    <3>2. TypeOK'
      BY <1>0, <2>2, <3>1 DEF TypeOK
    <3>3. \A s \in Slots : entries[s].date \in Nat /\ entries[s].date < generation + 1
      BY <1>0 DEF NoFutureDate, TypeOK, Entry
    <3>4. NoFutureDate'
      BY <1>0, <3>1, <3>3 DEF NoFutureDate
    <3>5. Current' = {}
      BY <1>0, <3>1, <3>3 DEF Current
    <3>6. UsedCountsCurrent'
      BY <3>1, <3>5, FS_EmptySet DEF UsedCountsCurrent
    <3> QED
      BY <3>2, <3>4, <3>6
  <2> QED
    BY <2>1, <2>2
<1>4. CASE Clear
  BY <1>0, <1>4, TableBlanked DEF Clear
<1>5. CASE Resize
  <2>1. PICK n \in Sizes : /\ size' = n /\ entries' = Blank(n) /\ cntUsed' = 0
                           /\ generation' = IF n = size \/ generation = MaxGen THEN 1
                                            ELSE generation + 1
    BY <1>5 DEF Resize
  <2>2. generation' \in 1..MaxGen
    BY <1>0, <2>1
  <2> QED
    BY <2>1, <2>2, TableBlanked
<1> QED
  BY <1>1, <1>2, <1>3, <1>4, <1>5 DEF Next

\* The table keeps its types, cntUsed is the number of current entries however they
\* became so, and no entry is of a later generation, across any number of searches.
THEOREM TableCorrect == Spec => [](TypeOK /\ GenerationsRight)
<1>1. Init => TableInv
  BY TableInit
<1>2. TableInv /\ [Next]_vars => TableInv'
  BY TableStep
<1>3. TableInv => TypeOK /\ GenerationsRight
  BY DEF TableInv, GenerationsRight
<1> QED
  BY <1>1, <1>2, <1>3, PTL DEF Spec
-----------------------------------------------------------------------------
(* Replacement, when the search asks for depths of at most 99.             *)

\* Depths as the comment in Store wants them, and -1 with them.
DepthsFit == Depths \subseteq -1..99

DepthInv == TypeOK /\ \A s \in Slots : entries[s].depth \in -1..99

LEMMA DepthStep ==
  ASSUME DepthsFit, TableInv, DepthInv, [Next]_vars
  PROVE  DepthInv'
<1>1. TypeOK'
  BY TableStep DEF TableInv
<1>2. CASE UNCHANGED vars
  BY <1>1, <1>2 DEF vars, DepthInv, Slots
<1>3. CASE Store \/ Retrieve
  <2>1. PICK s \in Slots, e \in Entry : Write(s, e) /\ e.depth \in -1..99
    <3>1. CASE Store
      <4>1. PICK k \in Keys, d \in Depths, p \in Plies, mv \in Moves, sc \in Scores, t \in Types :
              \/ StoreMatch(k, d, Stored(k, d, p, mv, sc, t))
              \/ StoreEvict(k, Stored(k, d, p, mv, sc, t))
        BY <3>1 DEF Store, StoreOf
      <4> DEFINE new == Stored(k, d, p, mv, sc, t)
      <4>2. d \in -1..99
        BY DEF DepthsFit
      <4>3. Int8(d) = d
        BY <4>2 DEF Int8
      <4>4. new \in Entry /\ new.depth \in -1..99
        BY <4>2, <4>3, StoredType DEF Stored, DepthInv
      <4> HIDE DEF new
      <4>5. CASE StoreMatch(k, d, new)
        <5>1. PICK i \in Tries : Write(Slot(k, i), Merge(At(k, i), new, d))
          BY <4>5 DEF StoreMatch
        <5>2. /\ Slot(k, i) \in Slots /\ At(k, i) \in Entry
              /\ At(k, i).depth \in -1..99
          BY SlotInTable DEF At, TypeOK, DepthInv
        <5>3. Merge(At(k, i), new, d) \in Entry /\ Merge(At(k, i), new, d).depth \in -1..99
          BY <4>4, <5>2, MergeType
        <5> QED
          BY <5>1, <5>2, <5>3
      <4>6. CASE StoreEvict(k, new)
        BY <4>4, <4>6, SlotInTable DEF StoreEvict, DepthInv
      <4> QED
        BY <4>1, <4>5, <4>6 DEF new
    <3>2. CASE Retrieve
      <4>1. PICK k \in Keys, i \in Tries : Write(Slot(k, i), [At(k, i) EXCEPT !.date = generation])
        BY <3>2 DEF Retrieve
      <4>2. Slot(k, i) \in Slots /\ At(k, i) \in Entry /\ At(k, i).depth \in -1..99
        BY SlotInTable DEF At, TypeOK, DepthInv
      <4>3. /\ [At(k, i) EXCEPT !.date = generation] \in Entry
            /\ [At(k, i) EXCEPT !.date = generation].depth = At(k, i).depth
        BY <4>2 DEF Entry, TypeOK, DepthInv
      <4> QED
        BY <4>1, <4>2, <4>3
    <3> QED
      BY <1>3, <3>1, <3>2
  <2>2. /\ entries' = [entries EXCEPT ![s] = e] /\ Slots' = Slots
    BY <2>1 DEF Write, Slots
  <2>3. \A x \in Slots : entries'[x] = IF x = s THEN e ELSE entries[x]
    BY <2>2 DEF DepthInv, TypeOK
  <2> QED
    BY <1>1, <2>1, <2>2, <2>3 DEF DepthInv
<1>4. CASE entries' = entries /\ size' = size
  BY <1>1, <1>4 DEF DepthInv, Slots
<1>5. CASE \E n \in Sizes : size' = n /\ entries' = Blank(n)
  <2>1. \A s \in Slots' : entries'[s] = Empty
    BY <1>5, BlankType DEF Slots
  <2> QED
    BY <1>1, <2>1 DEF DepthInv, Empty
<1>6. size \in Sizes
  BY DEF DepthInv, TypeOK
<1> QED
  BY <1>2, <1>3, <1>4, <1>5, <1>6 DEF Next, IncDate, Clear, Resize

\* A slot outside the search's generation is worth more than any slot inside it.
LEMMA GiveUpOrder ==
  ASSUME DepthInv, NEW a \in Slots, NEW b \in Slots
  PROVE  /\ GiveUp(entries[a]) > -1
         /\ (entries[a].date = generation /\ GiveUp(entries[b]) <= GiveUp(entries[a]))
              => entries[b].date = generation /\ entries[b].depth >= entries[a].depth
<1> DEFINE da == entries[a].depth
           db == entries[b].depth
<1>1. da \in -1..99 /\ db \in -1..99
  BY DEF DepthInv
<1>2. /\ GiveUp(entries[a]) = IF entries[a].date # generation THEN 200 - da ELSE 99 - da
      /\ GiveUp(entries[b]) = IF entries[b].date # generation THEN 200 - db ELSE 99 - db
  <2>1. \A d \in Int : 99 - d + 101 = 200 - d /\ 99 - d + 0 = 99 - d
    OBVIOUS
  <2>2. CASE entries[a].date # generation /\ entries[b].date # generation
    BY <1>1, <2>1, <2>2 DEF GiveUp
  <2>3. CASE entries[a].date # generation /\ entries[b].date = generation
    BY <1>1, <2>1, <2>3 DEF GiveUp
  <2>4. CASE entries[a].date = generation /\ entries[b].date # generation
    BY <1>1, <2>1, <2>4 DEF GiveUp
  <2>5. CASE entries[a].date = generation /\ entries[b].date = generation
    BY <1>1, <2>1, <2>5 DEF GiveUp
  <2> QED
    BY <2>2, <2>3, <2>4, <2>5
<1> HIDE DEF da, db
<1>3. GiveUp(entries[a]) > -1
  BY <1>1, <1>2
<1>4. ASSUME entries[a].date = generation, GiveUp(entries[b]) <= GiveUp(entries[a])
      PROVE  entries[b].date = generation /\ db >= da
  <2>1. GiveUp(entries[a]) = 99 - da
    BY <1>2, <1>4
  <2>2. CASE entries[b].date # generation
    <3>1. 200 - db <= 99 - da
      BY <1>2, <1>4, <2>1, <2>2
    <3> QED
      BY <1>1, <3>1
  <2>3. CASE entries[b].date = generation
    <3>1. 99 - db <= 99 - da
      BY <1>2, <1>4, <2>1, <2>3
    <3> QED
      BY <1>1, <2>3, <3>1
  <2> QED
    BY <2>2, <2>3
<1> QED
  BY <1>3, <1>4 DEF da, db

LEMMA DepthInit == Init => DepthInv
<1> SUFFICES ASSUME Init PROVE DepthInv
  OBVIOUS
<1>1. TypeOK
  BY TableInit DEF TableInv
<1>2. \A s \in Slots : entries[s] = Empty
  BY BlankType DEF Init, Slots
<1> QED
  BY <1>1, <1>2 DEF DepthInv, Empty

\* With depths of at most 99 Store always finds a slot to give up.
THEOREM VictimExists == ASSUME DepthsFit PROVE Spec => []CandidateExists
<1>1. Init => TableInv /\ DepthInv
  BY TableInit, DepthInit
<1>2. TableInv /\ DepthInv /\ [Next]_vars => TableInv' /\ DepthInv'
  BY TableStep, DepthStep
<1>3. DepthInv => CandidateExists
  <2> SUFFICES ASSUME DepthInv, NEW k \in Keys PROVE \E i \in Tries : GiveUp(At(k, i)) > -1
    BY DEF CandidateExists
  <2>1. 0 \in Tries
    BY TableAssumption DEF Tries, TableAssumption
  <2>2. Slot(k, 0) \in Slots
    BY <2>1, SlotInTable DEF DepthInv
  <2> QED
    BY <2>1, <2>2, GiveUpOrder DEF At
<1> QED
  BY <1>1, <1>2, <1>3, PTL DEF Spec

\* What a store does to the table: it rewrites one slot of the key's window, one that
\* held the lock already or the victim, with an entry of the key.
LEMMA StoreCases ==
  ASSUME TypeOK, Store
  PROVE  \E k \in Keys, i \in Tries, e \in Entry :
           /\ Slot(k, i) \in Slots /\ Slots' = Slots /\ generation' = generation
           /\ entries' = [entries EXCEPT ![Slot(k, i)] = e]
           /\ e.lock = k.lock /\ e.date = generation
           /\ Matches(k, i) \/ Victim(k, i)
<1>1. PICK k \in Keys, d \in Depths, p \in Plies, mv \in Moves, sc \in Scores, t \in Types :
        \/ StoreMatch(k, d, Stored(k, d, p, mv, sc, t))
        \/ StoreEvict(k, Stored(k, d, p, mv, sc, t))
  BY DEF Store, StoreOf
<1> DEFINE new == Stored(k, d, p, mv, sc, t)
<1>2. new \in Entry /\ new.date = generation /\ new.lock = k.lock
  BY StoredType DEF Stored
<1> HIDE DEF new
<1>3. CASE StoreMatch(k, d, new)
  <2>1. PICK i \in Tries : Matches(k, i) /\ Write(Slot(k, i), Merge(At(k, i), new, d))
    BY <1>3 DEF StoreMatch
  <2>2. Slot(k, i) \in Slots /\ At(k, i) \in Entry /\ At(k, i).lock = k.lock
    BY <2>1, SlotInTable DEF At, TypeOK, Matches
  <2> DEFINE e == Merge(At(k, i), new, d)
  <2>3. e \in Entry /\ e.lock = k.lock /\ e.date = generation
    BY <1>2, <2>2, MergeType
  <2>4. /\ entries' = [entries EXCEPT ![Slot(k, i)] = e]
        /\ Slots' = Slots /\ generation' = generation
    BY <2>1 DEF Write, Slots
  <2> HIDE DEF e
  <2> QED
    BY <2>1, <2>2, <2>3, <2>4
<1>4. CASE StoreEvict(k, new)
  <2>1. PICK i \in Tries : Victim(k, i) /\ Write(Slot(k, i), new)
    BY <1>4 DEF StoreEvict
  <2>2. Slot(k, i) \in Slots
    BY SlotInTable
  <2>3. /\ entries' = [entries EXCEPT ![Slot(k, i)] = new]
        /\ Slots' = Slots /\ generation' = generation
    BY <2>1 DEF Write, Slots
  <2> QED
    BY <1>2, <2>1, <2>2, <2>3
<1> QED
  BY <1>1, <1>3, <1>4 DEF new

\* What a lookup does: the entry it came upon is made current.
LEMMA RetrieveCases ==
  ASSUME TypeOK, Retrieve
  PROVE  \E s \in Slots :
           /\ entries' = [entries EXCEPT ![s] = [entries[s] EXCEPT !.date = generation]]
           /\ entries[s].date # 0
           /\ Slots' = Slots /\ generation' = generation
<1>1. PICK k \in Keys, i \in Tries :
        Finds(k, i) /\ Write(Slot(k, i), [At(k, i) EXCEPT !.date = generation])
  BY DEF Retrieve
<1>2. Slot(k, i) \in Slots
  BY SlotInTable
<1> QED
  BY <1>1, <1>2 DEF Finds, Write, At, Slots

\* The other steps leave the entries alone or blank them all.
LEMMA OtherCases ==
  ASSUME TypeOK, [Next]_vars, ~Store, ~Retrieve
  PROVE  \/ entries' = entries /\ size' = size /\ Slots' = Slots
         \/ \A s \in Slots' : entries'[s] = Empty
<1>1. size \in Sizes
  BY DEF TypeOK
<1>2. CASE UNCHANGED vars
  BY <1>2 DEF vars, Slots
<1>3. CASE IncDate
  BY <1>1, <1>3, BlankType DEF IncDate, Slots
<1>4. CASE Clear
  BY <1>1, <1>4, BlankType DEF Clear, Slots
<1>5. CASE Resize
  BY <1>5, BlankType DEF Resize, Slots
<1> QED
  BY <1>2, <1>3, <1>4, <1>5 DEF Next

\* A position is displaced from the present search only by one that has nowhere else
\* to go: the window is all current, and nothing in it is shallower.
THEOREM EvictionOrder == ASSUME DepthsFit PROVE Spec => EvictsOldThenShallow
<1>1. Init => TableInv /\ DepthInv
  BY TableInit, DepthInit
<1>2. TableInv /\ DepthInv /\ [Next]_vars => TableInv' /\ DepthInv'
  BY TableStep, DepthStep
<1>3. ASSUME TableInv, DepthInv, [Next]_vars, generation' = generation, size' = size,
             NEW s \in Slots, Displaced(s)
      PROVE  NowhereElse(s)
  <2>1. TypeOK /\ generation # 0
    BY <1>3, TableAssumption DEF TableInv, TypeOK, TableAssumption
  <2> USE DEF Displaced, NowhereElse
  <2>2. CASE Store
    <3>1. PICK k \in Keys, i \in Tries, e \in Entry :
            /\ Slot(k, i) \in Slots /\ entries' = [entries EXCEPT ![Slot(k, i)] = e]
            /\ e.lock = k.lock
            /\ Matches(k, i) \/ Victim(k, i)
      BY <2>1, <2>2, StoreCases
    <3>2. s = Slot(k, i) /\ entries'[s] = e
      BY <1>3, <2>1, <3>1 DEF TypeOK
    <3>3. Victim(k, i)
      BY <1>3, <3>1, <3>2 DEF Matches, At
    <3>4. ASSUME NEW j \in Tries
          PROVE  At(k, j).date = generation /\ At(k, j).depth >= entries[s].depth
      <4>1. Slot(k, j) \in Slots
        BY <2>1, SlotInTable
      <4>2. GiveUp(entries[Slot(k, j)]) <= GiveUp(entries[s])
        BY <3>2, <3>3 DEF Victim, At
      <4> QED
        BY <1>3, <4>1, <4>2, GiveUpOrder DEF At
    <3> QED
      BY <3>1, <3>2, <3>4
  <2>3. CASE Retrieve
    <3>1. PICK x \in Slots :
            entries' = [entries EXCEPT ![x] = [entries[x] EXCEPT !.date = generation]]
      BY <2>1, <2>3, RetrieveCases
    <3>2. entries'[s].lock = entries[s].lock
      BY <2>1, <3>1 DEF TypeOK, Entry
    <3> QED
      BY <1>3, <3>2
  <2>4. CASE ~Store /\ ~Retrieve
    <3>1. entries' = entries \/ \A x \in Slots' : entries'[x] = Empty
      BY <1>3, <2>1, <2>4, OtherCases
    <3>2. Slots' = Slots
      BY <1>3 DEF Slots
    <3> QED
      BY <1>3, <2>1, <3>1, <3>2 DEF Empty
  <2> QED
    BY <2>2, <2>3, <2>4
<1>4. TableInv /\ DepthInv /\ [Next]_vars => [DisplacesLast]_vars
  BY <1>3 DEF DisplacesLast
<1> QED
  BY <1>1, <1>2, <1>4, PTL DEF Spec, EvictsOldThenShallow

\* With depths of at most 99 a full window has an entry to give up, and it is the one
\* that the comments of trans.go want to go first.
THEOREM EvictionIsRight == ASSUME DepthsFit PROVE Spec => EvictionRight
  BY VictimExists, EvictionOrder DEF EvictionRight

-----------------------------------------------------------------------------
(* One entry per position.                                                 *)

\* An entry is in the window of a key that has its lock; and since lock 0 stops at an
\* empty slot, the slots before an entry of lock 0 are in use.
Placed ==
  \A s \in Slots : entries[s].date # 0 =>
    \E k \in Keys, i \in Tries :
      /\ s = Slot(k, i) /\ k.lock = entries[s].lock
      /\ k.lock = 0 => \A j \in Tries : j < i => At(k, j).date # 0

\* An empty slot has lock 0.
EmptyUnlocked == \A s \in Slots : entries[s].date = 0 => entries[s].lock = 0

\* A lock that stands for one index.
OwnLock(x) == \A k, l \in Keys : k.lock = x /\ l.lock = x => k.index = l.index

\* NoDuplicate, put with OwnLock.
OneEach ==
  \A s, t \in Slots :
    entries[s].date # 0 /\ entries[t].date # 0 /\ entries[s].lock = entries[t].lock
      /\ OwnLock(entries[s].lock) => s = t

PlaceInv == Placed /\ EmptyUnlocked /\ OneEach

\* Keys of one index look at the same slots.
LEMMA SameWindow ==
  ASSUME NEW k \in Keys, NEW l \in Keys, k.index = l.index, NEW i
  PROVE  Slot(k, i) = Slot(l, i) /\ At(k, i) = At(l, i)
BY DEF Slot, At

\* Storing leaves no entry of the key's lock anywhere but in the slot written.
LEMMA StoreFinds ==
  ASSUME TypeOK, PlaceInv, NEW k \in Keys, NEW i \in Tries, Matches(k, i) \/ Victim(k, i),
         OwnLock(k.lock), NEW t \in Slots, entries[t].date # 0, entries[t].lock = k.lock
  PROVE  t = Slot(k, i)
<1>1. PICK l \in Keys, j \in Tries :
        /\ t = Slot(l, j) /\ l.lock = entries[t].lock
        /\ l.lock = 0 => \A h \in Tries : h < j => At(l, h).date # 0
  BY DEF PlaceInv, Placed
<1>2. k.index = l.index
  BY <1>1 DEF OwnLock
<1>3. t = Slot(k, j) /\ At(k, j) = entries[t] /\ At(k, j).lock = k.lock
  BY <1>1, <1>2, SameWindow DEF At
<1>4. ~Victim(k, i)
  BY <1>3 DEF Victim
<1>5. Matches(k, i) /\ ~(j < i) /\ i \in Int /\ j \in Int
  BY <1>3, <1>4, TableAssumption DEF Matches, Tries, TableAssumption
<1>6. CASE i = j
  BY <1>3, <1>6
<1>7. CASE i < j
  <2>1. Slot(k, i) \in Slots /\ At(k, i) = entries[Slot(k, i)] /\ At(k, i).lock = k.lock
    BY <1>5, SlotInTable DEF At, Matches
  <2>2. At(k, i).date # 0
    <3>1. CASE k.lock = 0
      BY <1>1, <1>2, <1>7, <3>1, SameWindow
    <3>2. CASE k.lock # 0
      BY <2>1, <3>2 DEF PlaceInv, EmptyUnlocked
    <3> QED
      BY <3>1, <3>2
  <2> QED
    BY <2>1, <2>2 DEF PlaceInv, OneEach
<1> QED
  BY <1>5, <1>6, <1>7

LEMMA PlaceStore ==
  ASSUME TypeOK, PlaceInv, Store
  PROVE  PlaceInv'
<1>1. PICK k \in Keys, i \in Tries, e \in Entry :
        /\ Slot(k, i) \in Slots /\ Slots' = Slots /\ generation' = generation
        /\ entries' = [entries EXCEPT ![Slot(k, i)] = e]
        /\ e.lock = k.lock /\ e.date = generation
        /\ Matches(k, i) \/ Victim(k, i)
  BY StoreCases
<1> DEFINE s == Slot(k, i)
<1>2. s \in Slots /\ e.date # 0
  BY <1>1, TableAssumption DEF TypeOK, TableAssumption
<1>3. \A x \in Slots : entries'[x] = IF x = s THEN e ELSE entries[x]
  BY <1>1 DEF TypeOK
<1>4. \A l \in Keys, j \in Tries :
        /\ Slot(l, j)' = Slot(l, j)
        /\ Slot(l, j) \in Slots
        /\ At(l, j)' = entries'[Slot(l, j)]
  <2>1. size' = size
    BY DEF Store, StoreOf, StoreMatch, StoreEvict, Write
  <2> QED
    BY <2>1, SlotInTable DEF Slot, At
<1>5. \A l \in Keys, j \in Tries : At(l, j).date # 0 => At(l, j)'.date # 0
  BY <1>2, <1>3, <1>4 DEF At
<1> HIDE DEF s
<1>6. EmptyUnlocked'
  BY <1>1, <1>2, <1>3 DEF PlaceInv, EmptyUnlocked
<1>7. Placed'
  <2> SUFFICES ASSUME NEW x \in Slots, entries'[x].date # 0
               PROVE  \E l \in Keys, j \in Tries :
                        /\ x = Slot(l, j) /\ l.lock = entries'[x].lock
                        /\ l.lock = 0 => \A h \in Tries : h < j => At(l, h)'.date # 0
    BY <1>1, <1>4 DEF Placed
  <2>1. CASE x = s
    <3>1. ASSUME k.lock = 0, NEW h \in Tries, h < i PROVE At(k, h).date # 0
      <4>1. At(k, h).lock # 0
        BY <1>1, <3>1 DEF Matches, Victim
      <4> QED
        BY <1>4, <4>1 DEF PlaceInv, EmptyUnlocked, At
    <3> QED
      BY <1>1, <1>3, <1>5, <2>1, <3>1 DEF s
  <2>2. CASE x # s
    <3>1. PICK l \in Keys, j \in Tries :
            /\ x = Slot(l, j) /\ l.lock = entries[x].lock
            /\ l.lock = 0 => \A h \in Tries : h < j => At(l, h).date # 0
      BY <1>3, <2>2 DEF PlaceInv, Placed
    <3> QED
      BY <1>3, <1>5, <2>2, <3>1
  <2> QED
    BY <2>1, <2>2
<1>8. OneEach'
  <2> SUFFICES ASSUME NEW x \in Slots, NEW y \in Slots,
                      entries'[x].date # 0, entries'[y].date # 0,
                      entries'[x].lock = entries'[y].lock, OwnLock(entries'[x].lock)
               PROVE  x = y
    BY <1>1 DEF OneEach, OwnLock
  <2>1. ASSUME NEW z \in Slots, z # s, entries'[z].date # 0, entries'[z].lock = k.lock,
               OwnLock(k.lock)
        PROVE  FALSE
    BY <1>1, <1>3, <2>1, StoreFinds DEF s
  <2>2. CASE x = s /\ y # s
    BY <1>1, <1>3, <2>1, <2>2
  <2>3. CASE x # s /\ y = s
    BY <1>1, <1>3, <2>1, <2>3
  <2>4. CASE x # s /\ y # s
    BY <1>3, <2>4 DEF PlaceInv, OneEach
  <2> QED
    BY <2>2, <2>3, <2>4
<1> QED
  BY <1>6, <1>7, <1>8 DEF PlaceInv

\* Entries that keep their locks, and their being in use, keep their places.
LEMMA PlaceKept ==
  ASSUME TypeOK, PlaceInv, Slots' = Slots, size' = size,
         \A s \in Slots : /\ entries'[s].lock = entries[s].lock
                          /\ entries'[s].date = 0 <=> entries[s].date = 0
  PROVE  PlaceInv'
<1>1. \A l \in Keys, j \in Tries :
        /\ Slot(l, j)' = Slot(l, j)
        /\ At(l, j)'.date = 0 <=> At(l, j).date = 0
  BY SlotInTable DEF Slot, At
<1>2. EmptyUnlocked'
  BY DEF PlaceInv, EmptyUnlocked
<1>3. Placed'
  BY <1>1 DEF PlaceInv, Placed
<1>4. OneEach'
  BY DEF PlaceInv, OneEach, OwnLock
<1> QED
  BY <1>2, <1>3, <1>4 DEF PlaceInv

LEMMA PlaceStep == TableInv /\ PlaceInv /\ [Next]_vars => PlaceInv'
<1> SUFFICES ASSUME TableInv, PlaceInv, [Next]_vars PROVE PlaceInv'
  OBVIOUS
<1>1. TypeOK /\ generation # 0
  BY TableAssumption DEF TableInv, TypeOK, TableAssumption
<1>2. CASE Store
  BY <1>1, <1>2, PlaceStore
<1>3. CASE Retrieve
  <2>1. PICK s \in Slots :
          /\ entries' = [entries EXCEPT ![s] = [entries[s] EXCEPT !.date = generation]]
          /\ entries[s].date # 0
          /\ Slots' = Slots /\ generation' = generation
    BY <1>1, <1>3, RetrieveCases
  <2>2. \A x \in Slots : /\ entries'[x].lock = entries[x].lock
                         /\ entries'[x].date = 0 <=> entries[x].date = 0
    BY <1>1, <2>1 DEF TypeOK, Entry
  <2>3. size' = size
    BY <1>3 DEF Retrieve, Write
  <2> QED
    BY <1>1, <2>1, <2>2, <2>3, PlaceKept
<1>4. CASE ~Store /\ ~Retrieve
  <2>1. CASE \A s \in Slots' : entries'[s] = Empty
    BY <2>1 DEF PlaceInv, Placed, EmptyUnlocked, OneEach, Empty
  <2>2. CASE entries' = entries /\ Slots' = Slots /\ size' = size
    BY <1>1, <2>2, PlaceKept
  <2> QED
    BY <1>1, <1>4, <2>1, <2>2, OtherCases
<1> QED
  BY <1>2, <1>3, <1>4

\* A position is never in the table twice, unless another position has its lock: a
\* lookup then sees the newest result there is.
THEOREM OneEntryEach == Spec => []NoDuplicate
<1>1. Init => TableInv /\ PlaceInv
  <2> SUFFICES ASSUME Init PROVE PlaceInv
    BY TableInit
  <2>1. \A s \in Slots : entries[s] = Empty
    BY BlankType DEF Init, Slots
  <2> QED
    BY <2>1 DEF PlaceInv, Placed, EmptyUnlocked, OneEach, Empty
<1>2. TableInv /\ PlaceInv /\ [Next]_vars => TableInv' /\ PlaceInv'
  BY TableStep, PlaceStep
<1>3. PlaceInv => NoDuplicate
  BY DEF PlaceInv, OneEach, OwnLock, NoDuplicate
<1> QED
  BY <1>1, <1>2, <1>3, PTL DEF Spec

\* The entries of the present search are counted and told from the older ones, and a
\* position has one entry, whatever is stored, looked up, cleared or resized.
THEOREM EntriesAreRight == Spec => []EntriesRight
<1>1. TypeOK /\ GenerationsRight /\ NoDuplicate => EntriesRight
  BY DEF EntriesRight
<1> QED
  BY <1>1, TableCorrect, OneEntryEach, PTL

-----------------------------------------------------------------------------
(* The table implements LossyCache.                                        *)

\* A store remembers its own result and its own move, or forgets.
LEMMA StoreRemembers ==
  ASSUME TypeOK, LoggedStore
  PROVE  Cache!Remember
<1>1. PICK k \in Keys, d \in Depths, p \in Plies, mv \in Moves, sc \in Scores, t \in Types :
        /\ \/ StoreMatch(k, d, Stored(k, d, p, mv, sc, t))
           \/ StoreEvict(k, Stored(k, d, p, mv, sc, t))
        /\ last' = <<ResultOf(Stored(k, d, p, mv, sc, t)), HintOf(Stored(k, d, p, mv, sc, t))>>
  BY DEF LoggedStore, StoreOf
<1> DEFINE new == Stored(k, d, p, mv, sc, t)
           r   == ResultOf(new)
           h   == HintOf(new)
<1>2. last' = <<r, h>>
  BY <1>1
<1>3. new \in Entry /\ new.lock = k.lock
  BY StoredType DEF Stored
<1>4. PICK s \in Slots, e \in Entry :
        /\ entries' = [entries EXCEPT ![s] = e] /\ Slots' = Slots
        /\ ResultOf(e) = r \/ (s \in InUse /\ ResultOf(e) = ResultOf(entries[s]))
        /\ HintOf(e) = h \/ (s \in InUse /\ HintOf(e) = HintOf(entries[s]))
  <2> HIDE DEF new
  <2>1. CASE StoreMatch(k, d, new)
    <3>1. PICK i \in Tries : Matches(k, i) /\ Write(Slot(k, i), Merge(At(k, i), new, d))
      BY <2>1 DEF StoreMatch
    <3> DEFINE s == Slot(k, i)
               old == At(k, i)
               e == Merge(old, new, d)
    <3>2. s \in Slots /\ old \in Entry /\ old.lock = new.lock /\ old = entries[s]
      BY <1>3, <3>1, SlotInTable DEF At, TypeOK, Matches
    <3>3. entries' = [entries EXCEPT ![s] = e] /\ Slots' = Slots
      BY <3>1 DEF Write, Slots
    <3> HIDE DEF s, old
    <3>4. CASE e = new
      BY <1>3, <3>2, <3>3, <3>4 DEF r, h
    <3>5. CASE e # new
      <4>1. old.date = generation
        BY <1>3, <3>2, <3>5, MergeType
      <4>2. s \in InUse
        BY <3>2, <4>1, TableAssumption DEF InUse, TypeOK, TableAssumption
      <4>3. /\ e \in Entry /\ e.lock = new.lock
            /\ e.move = new.move \/ e.move = old.move
            /\ \/ e.depth = new.depth /\ e.score = new.score /\ e.scoreType = new.scoreType
               \/ e.depth = old.depth /\ e.score = old.score /\ e.scoreType = old.scoreType
        BY <1>3, <3>2, MergeType
      <4> HIDE DEF e
      <4> QED
        BY <3>2, <3>3, <4>2, <4>3 DEF ResultOf, HintOf, r, h
    <3> QED
      BY <3>4, <3>5
  <2>2. CASE StoreEvict(k, new)
    <3>1. PICK i \in Tries : Write(Slot(k, i), new)
      BY <2>2 DEF StoreEvict
    <3> QED
      BY <1>3, <3>1, SlotInTable DEF Write, Slots, r, h
  <2> QED
    BY <1>1, <2>1, <2>2 DEF new
<1> HIDE DEF new, r, h
<1>5. \A x \in Slots : entries'[x] = IF x = s THEN e ELSE entries[x]
  BY <1>4 DEF TypeOK
<1>6. \A x \in InUse' : x \in InUse \/ x = s
  BY <1>4, <1>5 DEF InUse
<1>7. Results' \subseteq Results \cup {r}
  <2> SUFFICES ASSUME NEW x \in InUse' PROVE ResultOf(entries'[x]) \in Results \cup {r}
    BY DEF Results, ResultOf
  <2>1. x \in Slots
    BY <1>4 DEF InUse
  <2> QED
    BY <1>4, <1>5, <1>6, <2>1 DEF Results
<1>8. Hints' \subseteq Hints \cup {h}
  <2> SUFFICES ASSUME NEW x \in InUse' PROVE HintOf(entries'[x]) \in Hints \cup {h}
    BY DEF Hints, HintOf
  <2>1. x \in Slots
    BY <1>4 DEF InUse
  <2> QED
    BY <1>4, <1>5, <1>6, <2>1 DEF Hints
<1> QED
  BY <1>2, <1>7, <1>8 DEF Cache!Remember

\* The other steps forget.
LEMMA OthersForget ==
  ASSUME TypeOK, Retrieve \/ IncDate \/ Clear \/ Resize
  PROVE  Results' \subseteq Results /\ Hints' \subseteq Hints
<1>1. CASE Retrieve
  <2>1. PICK s \in Slots :
          /\ entries' = [entries EXCEPT ![s] = [entries[s] EXCEPT !.date = generation]]
          /\ entries[s].date # 0
          /\ Slots' = Slots /\ generation' = generation
    BY <1>1, RetrieveCases
  <2>2. \A x \in Slots : /\ x \in InUse' => x \in InUse
                         /\ ResultOf(entries'[x]) = ResultOf(entries[x])
                         /\ HintOf(entries'[x]) = HintOf(entries[x])
    BY <2>1 DEF TypeOK, Entry, ResultOf, HintOf, InUse
  <2>3. InUse' \subseteq Slots
    BY <2>1 DEF InUse
  <2>4. Results' \subseteq Results
    <3> SUFFICES ASSUME NEW x \in InUse' PROVE ResultOf(entries'[x]) \in Results
      BY DEF Results, ResultOf
    <3> QED
      BY <2>2, <2>3 DEF Results
  <2>5. Hints' \subseteq Hints
    <3> SUFFICES ASSUME NEW x \in InUse' PROVE HintOf(entries'[x]) \in Hints
      BY DEF Hints, HintOf
    <3> QED
      BY <2>2, <2>3 DEF Hints
  <2> QED
    BY <2>4, <2>5
<1>2. CASE entries' = entries /\ Slots' = Slots
  BY <1>2 DEF Results, Hints, ResultOf, HintOf, InUse
<1>3. CASE \A s \in Slots' : entries'[s] = Empty
  <2>1. InUse' = {}
    BY <1>3 DEF InUse, Empty
  <2> QED
    BY <2>1 DEF Results, Hints
<1>4. CASE ~Retrieve
  <2>1. size \in Sizes
    BY DEF TypeOK
  <2>2. CASE IncDate
    BY <1>2, <1>3, <2>1, <2>2, BlankType DEF IncDate, Slots
  <2>3. CASE Clear
    BY <1>3, <2>1, <2>3, BlankType DEF Clear, Slots
  <2>4. CASE Resize
    BY <1>3, <2>4, BlankType DEF Resize, Slots
  <2> QED
    BY <1>4, <2>2, <2>3, <2>4
<1> QED
  BY <1>1, <1>4

\* The transposition table implements a lossy cache, for any keys, sizes and window.
THEOREM Refinement == LogSpec => IsLossyCache
<1>1. LogInit => TableInv /\ Cache!Init
  <2> SUFFICES ASSUME LogInit PROVE Cache!Init
    BY TableInit DEF LogInit
  <2>1. Init /\ last = <<>>
    BY DEF LogInit, Nothing
  <2>2. \A s \in Slots : entries[s] = Empty
    BY <2>1, BlankType DEF Init, Slots
  <2>3. InUse = {}
    BY <2>2 DEF InUse, Empty
  <2> QED
    BY <2>1, <2>3 DEF Cache!Init, Results, Hints
<1>2. TableInv /\ [LogNext]_logVars => TableInv'
  <2>1. [LogNext]_logVars => [Next]_vars
    BY DEF LogNext, LoggedStore, LoggedOther, Next, Store, logVars, vars
  <2> QED
    BY <2>1, TableStep
<1>3. TableInv /\ [LogNext]_logVars => [Cache!Next]_(Cache!cacheVars)
  <2> SUFFICES ASSUME TableInv, [LogNext]_logVars PROVE [Cache!Next]_(Cache!cacheVars)
    OBVIOUS
  <2>1. TypeOK
    BY DEF TableInv
  <2>2. CASE LoggedStore
    BY <2>1, <2>2, StoreRemembers DEF Cache!Next
  <2>3. CASE LoggedOther
    BY <2>1, <2>3, OthersForget DEF LoggedOther, Nothing, Cache!Next, Cache!Forget
  <2>4. CASE UNCHANGED logVars
    BY <2>4 DEF logVars, Cache!cacheVars, Results, Hints, InUse, Slots, ResultOf, HintOf
  <2> QED
    BY <2>2, <2>3, <2>4 DEF LogNext
<1> QED
  BY <1>1, <1>2, <1>3, PTL DEF LogSpec, IsLossyCache, Cache!Spec

-----------------------------------------------------------------------------
(* ParameterRegistry: what a search reads and stores is of one             *)
(* configuration, the one in force; and each registry has the values of    *)
(* one whole file, under the digest of that file.                          *)


\* Between searches no node is open; with the two invariants it is inductive.
IInv ==
  /\ DerivedInForce
  /\ EntriesInForce
  /\ ~searching => node = {}

LEMMA InitIInv == RegistryInit => IInv
BY RegistryAssumption DEF RegistryInit, IInv, DerivedInForce, EntriesInForce

\* setParameterFile, with a file and without, starts over: derived tables are
\* rebuilt and every cache is emptied.
LEMMA FilesKeepIInv ==
  ASSUME IInv, (\E file \in Files : LoadParameterFile(file)) \/ ResetParameterFile
  PROVE  IInv'
<1>1. ~searching /\ searching' = searching /\ node' = node
  BY DEF LoadParameterFile, ResetParameterFile
<1>2. attackWeight' = parms'[EvalRegistry] /\ lmrReductions' = parms'[LmrRegistry]
  BY DEF LoadParameterFile, ResetParameterFile, Update, RefreshRuntimeParameters
<1>3. trans' = {} /\ evalHash' = {}
  BY DEF LoadParameterFile, ResetParameterFile, ClearSearchCaches
<1>4. DerivedInForce'
  BY <1>2 DEF DerivedInForce
<1>5. EntriesInForce'
  BY <1>1, <1>3 DEF IInv, EntriesInForce
<1> QED
  BY <1>1, <1>4, <1>5 DEF IInv

\* Contempt, tablebases and the size of the table leave the parameters alone and
\* empty the table; only the last may come while a node is open.
LEMMA OptionsKeepIInv ==
  ASSUME IInv,
         \/ \E value \in Contempts : SetContempt(value) \/ SetSearchRepetitionContempt(value)
         \/ \E found \in TableSets \cup {NoTables} : SetSyzygyPath(found)
         \/ ClearTable
  PROVE  IInv'
<1>1. trans' = {} /\ evalHash' = evalHash /\ searching' = searching /\ node' = node
  BY DEF SetContempt, SetSearchRepetitionContempt, SetSyzygyPath, ClearTable
<1>2. parms' = parms /\ attackWeight' = attackWeight /\ lmrReductions' = lmrReductions
  BY DEF SetContempt, SetSearchRepetitionContempt, SetSyzygyPath, ClearTable, registryVars
<1>3. ~searching \/ Configuration' = Configuration
  BY <1>2 DEF SetContempt, SetSearchRepetitionContempt, SetSyzygyPath, ClearTable,
              engineVars, Configuration, RepetitionContempt, Evaluation
<1>4. DerivedInForce'
  BY <1>2 DEF IInv, DerivedInForce
<1>5. EntriesInForce'
  BY <1>1, <1>2, <1>3 DEF IInv, EntriesInForce, Evaluation
<1> QED
  BY <1>1, <1>4, <1>5 DEF IInv

\* A search changes nothing that it reads, and stores what it computed under it.
LEMMA SearchKeepsIInv ==
  ASSUME IInv, StartSearch \/ EnterNode \/ LeaveNode \/ FinishSearch
  PROVE  IInv'
<1>1. UNCHANGED <<registryVars, engineVars>>
  BY DEF StartSearch, EnterNode, LeaveNode, FinishSearch
<1>2. Configuration' = Configuration /\ Evaluation' = Evaluation
  BY <1>1 DEF Configuration, Evaluation, RepetitionContempt, registryVars, engineVars
<1>3. DerivedInForce'
  BY <1>1 DEF IInv, DerivedInForce, registryVars
<1>4. EntriesInForce'
  BY <1>2 DEF IInv, EntriesInForce, StartSearch, EnterNode, LeaveNode, FinishSearch, caches
<1>5. ~searching' => node' = {}
  BY DEF IInv, StartSearch, EnterNode, LeaveNode, FinishSearch
<1> QED
  BY <1>3, <1>4, <1>5 DEF IInv

LEMMA StepKeepsIInv == IInv /\ [RegistryNext]_configurationVars => IInv'
<1> SUFFICES ASSUME IInv, [RegistryNext]_configurationVars PROVE IInv'
  OBVIOUS
<1>1. CASE SetOption
  BY <1>1, FilesKeepIInv, OptionsKeepIInv DEF SetOption
<1>2. CASE StartSearch \/ EnterNode \/ LeaveNode \/ FinishSearch
  BY <1>2, SearchKeepsIInv
<1>3. CASE UNCHANGED configurationVars
  <2>1. UNCHANGED <<registryVars, engineVars, searching, node, caches>>
    BY <1>3 DEF configurationVars
  <2>2. Configuration' = Configuration /\ Evaluation' = Evaluation
    BY <2>1 DEF Configuration, Evaluation, RepetitionContempt, registryVars, engineVars
  <2>3. DerivedInForce'
    BY <2>1 DEF IInv, DerivedInForce, registryVars
  <2>4. EntriesInForce'
    BY <2>1, <2>2 DEF IInv, EntriesInForce, caches
  <2> QED BY <2>1, <2>3, <2>4 DEF IInv
<1> QED
  BY <1>1, <1>2, <1>3 DEF RegistryNext

\* The invariant that the next rests on.
THEOREM Inductive == RegistrySpec => []IInv
BY InitIInv, StepKeepsIInv, PTL DEF RegistrySpec

\* No search ever believes a result of other parameters, another contempt or
\* other tablebases than those in force, and the evaluator's weights and the
\* reduction table follow their registries.
THEOREM OneConfiguration == RegistrySpec => []ResultsInForce
<1>1. IInv => ResultsInForce
  BY DEF IInv, ResultsInForce
<1> QED
  BY <1>1, Inductive, PTL
-----------------------------------------------------------------------------
(* Files: what is in force, and by which name.                             *)

\* With FilesInForce inductive: there is a value list for each registry.
FilesInv == parms = [r \in Registries |-> parms[r]] /\ FilesInForce

\* A file in which the registry's parameters stand in its order.
InOrder(file) ==
  /\ DOMAIN file.parameters = DOMAIN Descriptors[file.registry]
  /\ \A i \in DOMAIN file.parameters :
       file.parameters[i].name = Descriptors[file.registry][i].name

\* The records of a registry, one field at a time.
LEMMA DescriptorsAre ==
  ASSUME NEW r \in Registries
  PROVE  /\ Len(Descriptors[r]) \in Nat
         /\ DOMAIN Descriptors[r] = 1..Len(Descriptors[r])
         /\ \A i \in DOMAIN Descriptors[r] :
              /\ Descriptors[r][i].min \in Int /\ Descriptors[r][i].max \in Int
              /\ Descriptors[r][i].step \in Int
         /\ \A i, j \in DOMAIN Descriptors[r] :
              Descriptors[r][i].name = Descriptors[r][j].name => i = j
<1>1. Descriptors[r] \in Seq(Descriptor)
  BY DescriptorAssumption
<1>2. \A i \in DOMAIN Descriptors[r] : Descriptors[r][i] \in Descriptor
  BY <1>1
<1>3. \A i \in DOMAIN Descriptors[r] :
        /\ Descriptors[r][i].min \in Int /\ Descriptors[r][i].max \in Int
        /\ Descriptors[r][i].step \in Int
  BY <1>2 DEF Descriptor
<1>4. Len(Descriptors[r]) \in Nat /\ DOMAIN Descriptors[r] = 1..Len(Descriptors[r])
  BY <1>1
<1> QED BY <1>3, <1>4, DescriptorAssumption

LEMMA FileIs ==
  ASSUME NEW file \in Files
  PROVE  /\ file = [schema |-> file.schema, registry |-> file.registry,
                    parameters |-> file.parameters]
         /\ Len(file.parameters) \in Nat
         /\ DOMAIN file.parameters = 1..Len(file.parameters)
         /\ \A j \in DOMAIN file.parameters :
              /\ file.parameters[j] = [name |-> file.parameters[j].name,
                                       value |-> file.parameters[j].value]
              /\ file.parameters[j].value \in Int
<1>1. file \in ParameterFile
  BY FileAssumption
<1>2. file.parameters \in Seq(ParameterValue)
  BY <1>1 DEF ParameterFile
<1>3. \A j \in DOMAIN file.parameters : file.parameters[j] \in ParameterValue
  BY <1>2
<1> QED BY <1>1, <1>2, <1>3 DEF ParameterFile, ParameterValue

\* normalize counts and looks for duplicates and unknown names; that nothing is
\* missing follows: as many different names as the registry has are all of them.
LEMMA EveryNameGiven ==
  ASSUME NEW file \in Files, Normalizes(file),
         NEW i \in DOMAIN Descriptors[file.registry]
  PROVE  \E j \in DOMAIN file.parameters :
           file.parameters[j].name = Descriptors[file.registry][i].name
<1> DEFINE d == Descriptors[file.registry]
           n == Len(d)
           p == file.parameters
           f == [j \in 1..n |-> CHOOSE k \in 1..n : d[k].name = p[j].name]
<1>1. n \in Nat /\ DOMAIN d = 1..n /\ DOMAIN p = 1..n
  BY DescriptorsAre, FileIs DEF Normalizes
<1>2. \A j \in 1..n : f[j] \in 1..n /\ d[f[j]].name = p[j].name
  <2> TAKE j \in 1..n
  <2>1. \E k \in 1..n : d[k].name = p[j].name
    BY <1>1 DEF Normalizes, PairFits
  <2> QED BY <2>1
<1>3. f \in [1..n -> 1..n]
  BY <1>2
<1> HIDE DEF f
<1>4. \A a, b \in 1..n : f[a] = f[b] => a = b
  <2>1. \A a, b \in 1..n : p[a].name = p[b].name => a = b
    BY <1>1 DEF Normalizes, Unseen
  <2> QED BY <1>2, <2>1, Zenon
<1>5. f \in Injection(1..n, 1..n)
  BY <1>3, <1>4 DEF Injection, IsInjective
<1>6. IsFiniteSet(1..n)
  BY <1>1, FS_Interval
<1>7. f \in Surjection(1..n, 1..n)
  BY <1>5, <1>6, FS_Injection
<1>8. \E j \in 1..n : f[j] = i
  BY <1>1, <1>7 DEF Surjection
<1> QED BY <1>1, <1>2, <1>8

\* normalize keeps schema and registry and brings the pairs in order.
LEMMA NormalIs ==
  ASSUME NEW file \in Files, Normalizes(file)
  PROVE  /\ Normal(file) = [schema |-> Schema, registry |-> file.registry,
                            parameters |-> Normal(file).parameters]
         /\ InOrder(Normal(file))
         /\ \A i \in DOMAIN Descriptors[file.registry] :
              \E j \in DOMAIN file.parameters :
                 /\ Normal(file).parameters[i] = file.parameters[j]
                 /\ file.parameters[j].name = Descriptors[file.registry][i].name
<1> DEFINE d == Descriptors[file.registry]
           q == [i \in DOMAIN d |-> file.parameters[PlaceOf(file, i)]]
<1>1. Normal(file) = [schema |-> Schema, registry |-> file.registry, parameters |-> q]
  BY FileIs DEF Normal, Normalizes
<1>2. \A i \in DOMAIN d : /\ PlaceOf(file, i) \in DOMAIN file.parameters
                          /\ file.parameters[PlaceOf(file, i)].name = d[i].name
  BY EveryNameGiven DEF PlaceOf
<1>3. DOMAIN q = DOMAIN d /\ \A i \in DOMAIN d : q[i] = file.parameters[PlaceOf(file, i)]
  OBVIOUS
<1> HIDE DEF q
<1>4. Normal(file).registry = file.registry /\ Normal(file).parameters = q
  BY <1>1
<1> QED BY <1>1, <1>2, <1>3, <1>4 DEF InOrder

\* What is in order is not moved: to normalize once more, as ApplyParameterFile
\* does, changes nothing.
LEMMA OrderStays ==
  ASSUME NEW file, file.registry \in Registries, InOrder(file),
         NEW s, NEW p, file = [schema |-> s, registry |-> file.registry, parameters |-> p]
  PROVE  /\ Normal(file).registry = file.registry
         /\ DOMAIN Normal(file).parameters = DOMAIN Descriptors[file.registry]
         /\ \A i \in DOMAIN Descriptors[file.registry] :
              Normal(file).parameters[i] = file.parameters[i]
<1> DEFINE d == Descriptors[file.registry]
           q == [i \in DOMAIN d |-> file.parameters[PlaceOf(file, i)]]
<1>1. \A i \in DOMAIN d : PlaceOf(file, i) = i
  BY DescriptorsAre DEF InOrder, PlaceOf
<1>2. \A i \in DOMAIN d : q[i] = file.parameters[i]
  BY <1>1
<1>3. DOMAIN q = DOMAIN d
  OBVIOUS
<1>4. Normal(file) = [file EXCEPT !.parameters = q]
  BY DEF Normal
<1> HIDE DEF q
<1>5. Normal(file).registry = file.registry /\ Normal(file).parameters = q
  BY <1>4
<1> QED BY <1>2, <1>3, <1>5

\* What normalizes gives every parameter of its registry a value on its grid.
LEMMA NormalizesIsComplete ==
  ASSUME NEW file \in Files, Normalizes(file)
  PROVE  Complete(file)
<1>1. ASSUME NEW i \in DOMAIN Descriptors[file.registry]
      PROVE  \E j \in DOMAIN file.parameters :
               /\ file.parameters[j].name = Descriptors[file.registry][i].name
               /\ \E k \in 0..(Descriptors[file.registry][i].max - Descriptors[file.registry][i].min) :
                    file.parameters[j].value
                      = Descriptors[file.registry][i].min + k * Descriptors[file.registry][i].step
               /\ file.parameters[j].value <= Descriptors[file.registry][i].max
  <2> DEFINE d == Descriptors[file.registry][i]
  <2>1. PICK j \in DOMAIN file.parameters : file.parameters[j].name = d.name
    BY EveryNameGiven
  <2> DEFINE v == file.parameters[j].value
  <2>2. file.registry \in Registries /\ PairFits(file, file.parameters[j])
    BY DEF Normalizes
  <2>3. v >= d.min /\ v <= d.max /\ d.step > 0 /\ (v - d.min) % d.step = 0
    BY <2>1, <2>2, DescriptorsAre DEF PairFits
  <2>4. v \in Int /\ d.min \in Int /\ d.max \in Int /\ d.step \in Int
    BY <2>2, FileIs, DescriptorsAre
  <2> HIDE DEF d, v
  <2>5. \E k \in 0..(d.max - d.min) : v = d.min + k * d.step
    <3>1. PICK min \in Int, max \in Int, step \in Int, value \in Int :
            min = d.min /\ max = d.max /\ step = d.step /\ value = v
      BY <2>4
    <3>2. value >= min /\ value <= max /\ step > 0 /\ (value - min) % step = 0
      BY <2>3, <3>1
    <3> DEFINE k == (value - min) \div step
    <3>3. k \in Int /\ value - min = k * step
      BY <3>2
    <3> HIDE DEF k
    <3>4. k >= 0 /\ k <= value - min
      <4>1. k >= 0
        BY <3>2, <3>3
      <4> QED BY <3>2, <3>3, <4>1
    <3>5. k \in 0..(max - min) /\ value = min + k * step
      BY <3>2, <3>3, <3>4
    <3> QED BY <3>1, <3>5
  <2> USE DEF d, v
  <2> QED BY <2>1, <2>3, <2>5
<1> QED BY <1>1 DEF Complete, Normalizes

LEMMA InitFiles == RegistryInit => FilesInv
BY DEF RegistryInit, FilesInv, FilesInForce, WholeFiles, LoadedIdentity

\* A file is taken whole, each value under its name, and the digest is of them.
LEMMA LoadKeepsFiles ==
  ASSUME FilesInv, NEW file \in Files, LoadParameterFile(file)
  PROVE  FilesInv'
<1> DEFINE r == file.registry
           norm == Normal(file)
           values == Values(Normal(norm).parameters)
<1>1. Normalizes(file) /\ r \in Registries
  BY DEF LoadParameterFile, Normalizes
<1>2. /\ norm = [schema |-> Schema, registry |-> r, parameters |-> norm.parameters]
      /\ InOrder(norm)
      /\ \A i \in DOMAIN Descriptors[r] : \E j \in DOMAIN file.parameters :
           /\ norm.parameters[i] = file.parameters[j]
           /\ file.parameters[j].name = Descriptors[r][i].name
  BY <1>1, NormalIs
<1>3. /\ DOMAIN Normal(norm).parameters = DOMAIN Descriptors[r]
      /\ \A i \in DOMAIN Descriptors[r] : Normal(norm).parameters[i] = norm.parameters[i]
  <2>1. norm.registry = r
    BY <1>2
  <2> HIDE DEF norm
  <2> QED BY <1>1, <1>2, <2>1, OrderStays
<1>4. /\ DOMAIN values = DOMAIN Descriptors[r]
      /\ \A i \in DOMAIN Descriptors[r] : values[i] = norm.parameters[i].value
  BY <1>3 DEF Values
<1>5. parms' = [parms EXCEPT ![r] = values]
  <2>1. Normal(file).registry = r
    BY <1>2
  <2>2. parms' = [parms EXCEPT ![Normal(file).registry] = values]
    BY DEF LoadParameterFile, ApplyParameterFile
  <2> QED BY <2>1, <2>2, Zenon
<1>6. parameterFileSHA' = norm
  BY DEF LoadParameterFile, ParameterFileSHA256
<1> HIDE DEF values
<1>7. /\ parms' = [x \in Registries |-> parms'[x]]
      /\ parms'[r] = values
      /\ \A x \in Registries \ {r} : parms'[x] = parms[x]
  BY <1>1, <1>5 DEF FilesInv
<1>8. \A i \in DOMAIN Descriptors[r] : \E j \in DOMAIN file.parameters :
        file.parameters[j] = [name |-> Descriptors[r][i].name, value |-> values[i]]
  BY <1>2, <1>4, FileIs
<1>9. WholeFiles'
  <2> SUFFICES ASSUME NEW x \in Registries
               PROVE  \/ parms'[x] = Default(x)
                      \/ \E f \in Files :
                           /\ Complete(f) /\ f.registry = x
                           /\ \A i \in DOMAIN Descriptors[x] : \E j \in DOMAIN f.parameters :
                                f.parameters[j] = [name |-> Descriptors[x][i].name,
                                                   value |-> parms'[x][i]]
    BY DEF WholeFiles
  <2>1. CASE x = r
    BY <1>1, <1>7, <1>8, <2>1, NormalizesIsComplete
  <2>2. CASE x # r
    BY <1>7, <2>2 DEF FilesInv, FilesInForce, WholeFiles
  <2> QED BY <2>1, <2>2
<1>10. LoadedIdentity'
  <2>1. \A i \in DOMAIN Descriptors[r] :
          norm.parameters[i] = [name |-> Descriptors[r][i].name, value |-> values[i]]
    BY <1>2, <1>4, FileIs
  <2>2. norm.registry = r /\ norm.schema = Schema
    BY <1>2
  <2>3. norm.parameters = [i \in DOMAIN Descriptors[r] |->
                             [name |-> Descriptors[r][i].name, value |-> values[i]]]
    <3>1. DOMAIN norm.parameters = DOMAIN Descriptors[r]
      BY <1>2, <2>2 DEF InOrder
    <3>2. norm.parameters = [i \in DOMAIN norm.parameters |-> norm.parameters[i]]
      BY DEF Normal
    <3> QED BY <2>1, <3>1, <3>2
  <2> HIDE DEF norm
  <2>4. norm = [schema |-> Schema, registry |-> r,
                parameters |-> [i \in DOMAIN Descriptors[r] |->
                                 [name |-> Descriptors[r][i].name, value |-> parms'[r][i]]]]
    BY <1>2, <1>7, <2>3
  <2> QED BY <1>6, <2>2, <2>4 DEF LoadedIdentity, InForce
<1> QED BY <1>7, <1>9, <1>10 DEF FilesInv, FilesInForce

\* The default file is in order, and its values are the defaults.
LEMMA ResetKeepsFiles ==
  ASSUME FilesInv, ResetParameterFile
  PROVE  FilesInv'
<1> DEFINE values == Values(Normal(DefaultParameterFile).parameters)
<1>1. DefaultParameterFile.registry = EvalRegistry /\ InOrder(DefaultParameterFile)
  BY DEF DefaultParameterFile, InOrder
<1>2. values = Default(EvalRegistry)
  <2>1. \E s, p : DefaultParameterFile
                    = [schema |-> s, registry |-> EvalRegistry, parameters |-> p]
    BY DEF DefaultParameterFile
  <2>2. /\ DOMAIN Normal(DefaultParameterFile).parameters = DOMAIN Descriptors[EvalRegistry]
        /\ \A i \in DOMAIN Descriptors[EvalRegistry] :
             Normal(DefaultParameterFile).parameters[i] = DefaultParameterFile.parameters[i]
    BY <1>1, <2>1, OrderStays, RegistryAssumption
  <2>3. \A i \in DOMAIN Descriptors[EvalRegistry] :
          DefaultParameterFile.parameters[i].value = Descriptors[EvalRegistry][i].default
    BY DEF DefaultParameterFile
  <2> QED BY <2>2, <2>3 DEF Values, Default
<1>3. parms' = [parms EXCEPT ![EvalRegistry] = values]
  BY <1>1 DEF ResetParameterFile, ApplyParameterFile
<1> HIDE DEF values
<1>4. /\ parms' = [x \in Registries |-> parms'[x]]
      /\ parms'[EvalRegistry] = values
      /\ \A x \in Registries \ {EvalRegistry} : parms'[x] = parms[x]
  BY <1>3, RegistryAssumption DEF FilesInv
<1>5. WholeFiles'
  BY <1>2, <1>4 DEF FilesInv, FilesInForce, WholeFiles
<1>6. LoadedIdentity'
  BY DEF ResetParameterFile, LoadedIdentity
<1> QED BY <1>4, <1>5, <1>6 DEF FilesInv, FilesInForce

LEMMA StepKeepsFiles == FilesInv /\ [RegistryNext]_configurationVars => FilesInv'
<1> SUFFICES ASSUME FilesInv, [RegistryNext]_configurationVars PROVE FilesInv'
  OBVIOUS
<1>1. CASE \E file \in Files : LoadParameterFile(file)
  BY <1>1, LoadKeepsFiles
<1>2. CASE ResetParameterFile
  BY <1>2, ResetKeepsFiles
<1>3. CASE UNCHANGED registryVars
  <2>1. /\ parms' = parms /\ parameterFilePath' = parameterFilePath
        /\ parameterFileSHA' = parameterFileSHA
    BY <1>3 DEF registryVars
  <2>2. WholeFiles' <=> WholeFiles
    BY <2>1 DEF WholeFiles
  <2>3. LoadedIdentity' <=> LoadedIdentity
    BY <2>1, Zenon DEF LoadedIdentity, InForce
  <2> QED BY <2>1, <2>2, <2>3 DEF FilesInv, FilesInForce
<1>4. ASSUME RegistryNext PROVE \/ \E file \in Files : LoadParameterFile(file)
                        \/ ResetParameterFile
                        \/ UNCHANGED registryVars
  BY <1>4 DEF RegistryNext, SetOption, SetContempt, SetSearchRepetitionContempt, SetSyzygyPath, ClearTable,
              StartSearch, EnterNode, LeaveNode, FinishSearch
<1> QED BY <1>1, <1>2, <1>3, <1>4 DEF configurationVars

\* Whatever parameter files come, good or bad, in whatever order: each registry has
\* its defaults or the values of one complete file, and while a file is loaded the
\* digest told is that of the values in force.
THEOREM FilesAreRight == RegistrySpec => []FilesInForce
<1>1. FilesInv => FilesInForce
  BY DEF FilesInv
<1> QED
  BY <1>1, InitFiles, StepKeepsFiles, PTL DEF RegistrySpec

=============================================================================
