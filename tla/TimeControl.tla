---------------------------- MODULE TimeControl ----------------------------
(***************************************************************************)
(* The time of a move: SetHard makes three limits of the clocks, incNode    *)
(* compares them with the time that has passed once per nodeInterval, and   *)
(* searchID once per iteration.  What the search finds (a score that drops, *)
(* a scout that fails high, another best move) arrives in any order.        *)
(*                                                                          *)
(* Time is in milliseconds and advances by Tick, at most PollInterval       *)
(* between two looks at it.  The GUI plays a game on the clock; the time    *)
(* that a move took is taken off, and its increment added.                  *)
(***************************************************************************)
EXTENDS Integers

CONSTANTS
  Clocks,        \* what the engine's clock may show at the start of a game
  OtherClocks,   \* and the opponent's, at any time
  Increments,
  MovesToGo,     \* movestogo as the GUI sends it, 0 when it does not
  Stages,        \* Interpolation(35, 15, bd): 15 to 35
  Movetimes,     \* go movetime
  MovesOfGame,   \* bound: moves of the game
  PonderOption,  \* Engine.Ponder: the GUI may send go ponder
  MaxDepth,      \* limit.depth, 99 without go depth
  Tick, PollInterval,
  LongestMove    \* bound: time stops here

ASSUME TimeAssumption ==
  /\ Clocks \subseteq Nat /\ OtherClocks \subseteq Nat /\ Increments \subseteq Nat
  /\ MovesToGo \subseteq Nat /\ Stages \subseteq 15..35 /\ Movetimes \subseteq Nat \ {0}
  /\ MovesOfGame \in Nat /\ PonderOption \in BOOLEAN /\ MaxDepth \in Nat \ {0}
  /\ Tick \in Nat \ {0} /\ PollInterval \in Nat /\ Tick <= PollInterval
  /\ LongestMove \in Nat

VARIABLES
  clock,      \* the engine's clock when it was last the opponent's turn
  inc,        \* the increment of the search that is on
  played,     \* moves made on the clock
  searching,
  limit,      \* limitStr: hard, timeIsLimited, time, the steps, ponder, flag, drop
  current,    \* currStruct: depth, pos, size, failHigh; and scored, whether
              \* searchRoot has a score (bs # noScore)
  easy,       \* searchID's local
  elapsed,    \* the timer
  lastPoll,   \* when it was last read
  bStop,
  hit         \* when the GUI said ponderhit, -1 before
gameVars == <<clock, inc, played>>
vars == <<gameVars, searching, limit, current, easy, elapsed, lastPoll, bStop, hit>>

Least(a, b)   == IF a < b THEN a ELSE b
Largest(a, b) == IF a > b THEN a ELSE b

-----------------------------------------------------------------------------
(* SetHard.                                                                *)

MovesAhead(mtg, stage) == Least(IF mtg <= 0 THEN 50 ELSE mtg, stage)
Factor == IF PonderOption THEN 140 ELSE 120

Steps(alloc, max) == [step1 |-> Least(alloc, max), stepB |-> Least(alloc * 4, max), stepC |-> max]

\* The conversions to float64 and back cut off what is below a millisecond.
Budget(time, increment, mtg, stage) ==
  LET moves   == MovesAhead(mtg, stage)
      total   == time + increment * (moves - 1)
      alloc   == ((total \div moves) * Factor) \div 100
      reserve == (total * (moves - 1)) \div 50
      most    == Least(time, total - reserve)
      max     == Least(most - 60, (most * 95) \div 100)
  IN Steps(Largest(alloc, 0), Largest(max, 0))

\* A bug: the side to move is taken for the one that has moved.
SetHardOther(stm, wtime, btime, winc, binc, mtg, stage) ==
  IF stm = "black" THEN Budget(wtime, winc, mtg, stage) ELSE Budget(btime, binc, mtg, stage)

SetHard(stm, wtime, btime, winc, binc, mtg, stage) ==
  IF stm = "white" THEN Budget(wtime, winc, mtg, stage) ELSE Budget(btime, binc, mtg, stage)

-----------------------------------------------------------------------------
(* HandleGo, and the start of a search (NewSearch, clear, searchID).       *)

NoSteps == [step1 |-> 0, stepB |-> 0, stepC |-> 0]
NoLimit == [hard |-> FALSE, timeIsLimited |-> FALSE, time |-> 0, step1 |-> 0, stepB |-> 0,
            stepC |-> 0, ponder |-> FALSE, flag |-> FALSE, drop |-> FALSE]
Cleared == [depth |-> 0, pos |-> 0, size |-> 0, failHigh |-> FALSE, scored |-> FALSE]

Begin(hard, movetime, steps, ponder, size) ==
  /\ ~searching /\ searching' = TRUE
  /\ limit' = [hard |-> hard, timeIsLimited |-> movetime > 0, time |-> movetime,
               step1 |-> steps.step1, stepB |-> steps.stepB, stepC |-> steps.stepC,
               ponder |-> ponder, flag |-> FALSE, drop |-> limit.drop]
  /\ current' = [Cleared EXCEPT !.size = size]
  /\ easy' \in (IF size = 1 THEN {TRUE} ELSE BOOLEAN)
  /\ elapsed' = 0 /\ lastPoll' = 0
  /\ bStop' = FALSE /\ hit' = -1
  /\ UNCHANGED <<clock, played>>

\* go wtime btime winc binc [movestogo] [ponder].
GoOnClock(stm, other, increment, mtg, stage, ponder, size) ==
  LET steps == IF stm = "white" THEN SetHard(stm, clock, other, increment, 0, mtg, stage)
                                ELSE SetHard(stm, other, clock, 0, increment, mtg, stage)
  IN /\ played < MovesOfGame /\ clock > 0
     /\ ponder => PonderOption
     /\ inc' = increment
     /\ Begin(TRUE, 0, steps, ponder, size)

GoMovetime(movetime, size) ==
  /\ inc' = 0
  /\ Begin(FALSE, movetime, NoSteps, FALSE, size)

-----------------------------------------------------------------------------
(* The search, as far as the limits look at it.                            *)

Running == searching /\ ~bStop

\* depthStart and the first root move; later ones come by initMvSearch.
StartRoot(depth) ==
  current' = [current EXCEPT !.depth = depth, !.pos = 0, !.failHigh = FALSE, !.scored = FALSE]

FirstIteration ==
  /\ Running /\ current.depth = 0
  /\ StartRoot(1)
  /\ UNCHANGED <<gameVars, searching, limit, easy, elapsed, lastPoll, bStop, hit>>

NextRootMove ==
  /\ Running /\ current.scored /\ current.pos + 1 < current.size
  /\ current' = [current EXCEPT !.pos = @ + 1, !.failHigh = FALSE]
  /\ UNCHANGED <<gameVars, searching, limit, easy, elapsed, lastPoll, bStop, hit>>

\* searchAsp widens its window: the moves are searched once more.
SearchAgain ==
  /\ Running /\ current.depth > 1 /\ current.scored
  /\ StartRoot(current.depth)
  /\ UNCHANGED <<gameVars, searching, limit, easy, elapsed, lastPoll, bStop, hit>>

\* A scout search of a later move fails high (failHighTrue).
FailHigh ==
  /\ Running /\ current.depth > 0 /\ current.pos > 0
  /\ current' = [current EXCEPT !.failHigh = TRUE]
  /\ limit' = [limit EXCEPT !.flag = FALSE]
  /\ UNCHANGED <<gameVars, searching, easy, elapsed, lastPoll, bStop, hit>>

\* updateBest, always for the first move.  searchID has left no score to drop
\* from, and depth 1 is searched with the full window.
NewBest(drop, otherMove) ==
  /\ Running /\ current.depth > 0
  /\ drop => current.depth > 1
  /\ current' = [current EXCEPT !.failHigh = FALSE, !.scored = TRUE]
  /\ limit' = [limit EXCEPT !.drop = drop, !.flag = @ /\ ~otherMove /\ ~drop]
  /\ UNCHANGED <<gameVars, searching, easy, elapsed, lastPoll, bStop, hit>>

\* A bug: once a score has dropped the search takes what it needs.
PastTheStepsPatient ==
  /\ elapsed >= limit.step1
  /\ current.pos = 0 \/ elapsed >= limit.stepB
  /\ ~(limit.drop \/ current.failHigh)

PastTheSteps ==
  /\ elapsed >= limit.step1
  /\ current.pos = 0 \/ elapsed >= limit.stepB
  /\ ~(limit.drop \/ current.failHigh) \/ elapsed >= limit.stepC

OnlyMove == current.size = 1 /\ elapsed >= limit.step1 \div 8

\* incNode's limits on the clock.
AskedToStop == limit.hard /\ current.depth > 1 /\ (PastTheSteps \/ OnlyMove)

MovetimeOver == limit.timeIsLimited /\ elapsed + 3 >= limit.time

\* incNode with poll; bPonderHit, which poll would look at, is never set.
Poll ==
  /\ Running /\ lastPoll # elapsed
  /\ lastPoll' = elapsed
  /\ limit' = [limit EXCEPT !.flag = @ \/ (AskedToStop /\ limit.ponder)]
  /\ bStop' = ((AskedToStop /\ ~limit.ponder) \/ MovetimeOver)
  /\ UNCHANGED <<gameVars, searching, current, easy, elapsed, hit>>

EnoughForMove(stillEasy) ==
  \/ current.size = 1 /\ elapsed >= limit.step1 \div 16
  \/ stillEasy /\ elapsed >= limit.step1 \div 4
  \/ elapsed >= limit.step1 \div 2

\* The end of an iteration in searchID.
IterationEnds(sameMove) ==
  LET stillEasy == easy /\ sameMove /\ ~limit.drop
      abort     == limit.hard /\ ~limit.drop /\ EnoughForMove(stillEasy)
      last      == current.depth = MaxDepth
  IN /\ Running /\ current.scored /\ current.pos + 1 = current.size
     /\ easy' = stillEasy
     /\ limit' = [limit EXCEPT !.flag = @ \/ (abort /\ limit.ponder)]
     /\ bStop' = ((abort /\ ~limit.ponder) \/ last)
     /\ IF bStop' THEN UNCHANGED current ELSE StartRoot(current.depth + 1)
     /\ UNCHANGED <<gameVars, searching, elapsed, lastPoll, hit>>

\* bestmove.  A move on the clock is charged; a pondered one was on the
\* opponent's time, and a game with a ponderhit is not followed further.  What
\* NewSearch and clear would reset (all but drop) is reset here.
Answer ==
  /\ searching /\ bStop
  /\ searching' = FALSE
  /\ IF limit.hard /\ ~limit.ponder
     THEN clock' = clock - elapsed + inc /\ played' = played + 1
     ELSE clock' = clock /\ played' = IF hit >= 0 THEN MovesOfGame ELSE played
  /\ limit' = [NoLimit EXCEPT !.drop = limit.drop]
  /\ current' = Cleared /\ easy' = FALSE /\ inc' = 0
  /\ elapsed' = 0 /\ lastPoll' = 0 /\ hit' = -1
  /\ UNCHANGED bStop

-----------------------------------------------------------------------------
(* The environment.                                                        *)

\* Iteration 1 takes no longer than an interval.
TimePasses ==
  /\ Running
  /\ elapsed + Tick <= lastPoll + PollInterval
  /\ current.depth <= 1 => elapsed + Tick <= PollInterval
  /\ elapsed + Tick <= LongestMove
  /\ elapsed' = elapsed + Tick
  /\ UNCHANGED <<gameVars, searching, limit, current, easy, lastPoll, bStop, hit>>

\* The GUI gives the pondered move up.
Stop ==
  /\ Running /\ limit.ponder
  /\ bStop' = TRUE
  /\ UNCHANGED <<gameVars, searching, limit, current, easy, elapsed, lastPoll, hit>>

\* The pondered move was played: the engine's clock runs.  The case of
\* HandleInput is empty.
PonderHit ==
  /\ Running /\ limit.ponder /\ hit = -1
  /\ hit' = elapsed
  /\ UNCHANGED <<gameVars, searching, limit, current, easy, elapsed, lastPoll, bStop>>

Init ==
  /\ clock \in Clocks /\ inc = 0 /\ played = 0
  /\ searching = FALSE
  /\ limit = NoLimit /\ current = Cleared
  /\ easy = FALSE /\ elapsed = 0 /\ lastPoll = 0 /\ bStop = FALSE /\ hit = -1

Go ==
  \E size \in {1, 2} :
    \/ \E stm \in {"white", "black"}, other \in OtherClocks, increment \in Increments,
          mtg \in MovesToGo, stage \in Stages, ponder \in BOOLEAN :
         GoOnClock(stm, other, increment, mtg, stage, ponder, size)
    \/ \E movetime \in Movetimes : GoMovetime(movetime, size)

Searches ==
  \/ FirstIteration \/ NextRootMove \/ SearchAgain \/ FailHigh
  \/ \E drop, otherMove \in BOOLEAN : NewBest(drop, otherMove)
  \/ \E sameMove \in BOOLEAN : IterationEnds(sameMove)
  \/ Poll \/ Answer

Next == Go \/ Searches \/ TimePasses \/ Stop \/ PonderHit

FirstIterationGoesOn ==
  \/ ~current.scored /\ NewBest(FALSE, TRUE)
  \/ NextRootMove
  \/ \E sameMove \in BOOLEAN : IterationEnds(sameMove)

\* The goroutine runs on and time passes; iterations above the first need not end.
Fairness ==
  /\ WF_vars(FirstIteration) /\ WF_vars(Poll) /\ WF_vars(Answer) /\ WF_vars(TimePasses)
  /\ WF_vars(current.depth = 1 /\ FirstIterationGoesOn)

Spec == Init /\ [][Next]_vars
FairSpec == Spec /\ Fairness

-----------------------------------------------------------------------------
(* Properties.                                                             *)

\* Over a game, whatever the increments, moves to go and troubles of the search:
\* the 60 ms that SetHard keeps back are used up by nothing but what passes
\* between two looks at the clock.
NeverFlags == clock >= 60 - played * PollInterval

\* A forced move takes an eighth of its time at most, unless it is decided in
\* the first iteration.
ForcedMoveIsQuick ==
  searching /\ limit.hard /\ ~limit.ponder /\ current.size = 1
    => elapsed < Largest(limit.step1 \div 8, 1) + PollInterval

\* go movetime is kept.
MovetimeKept ==
  limit.timeIsLimited => elapsed <= Largest(limit.time - 3, 0) + PollInterval

\* Whatever limits a search has, none is passed by more than an interval, though
\* which of them holds changes with what it finds.
TimeKept == NeverFlags /\ ForcedMoveIsQuick /\ MovetimeKept

\* A go on the clock is answered even if no iteration after the first ends.
MovesAreMade ==
  searching /\ (limit.timeIsLimited \/ (limit.hard /\ ~limit.ponder)) ~> ~searching

\* After ponderhit the search is bound by its limits like any other
\* (search/search.go:569: ponderhit is passed on to bPonderHit).
HitIsHeard == hit >= 0 => elapsed - hit <= limit.stepC + PollInterval
=============================================================================
