----------------------------- MODULE UciSession -----------------------------
(***************************************************************************)
(* The engine session: what the three goroutines of GoAlaric.go do with    *)
(* one another and with the GUI.                                           *)
(*                                                                         *)
(*   reader  getInput passes the lines of stdin on, in order: inp is the   *)
(*           pipe from the GUI to the main loop, the reader's line in hand *)
(*           included;                                                     *)
(*   main    the select loop of main() with uci.HandleInput, one action    *)
(*           per command; HandleGo blocks on the unbuffered chSearch;      *)
(*   worker  search.StartSearch, one action between two accesses to state  *)
(*           it shares with main (Engine status, bStop, uci.Bd, channels). *)
(*                                                                         *)
(* A go command carries the number the GUI gave it, a bestmove the number  *)
(* of the go whose search computed it: 0 is the empty line that savedBm    *)
(* holds at start.  What the GUI does is environment: see GuiSend.         *)
(***************************************************************************)
EXTENDS Naturals, Sequences

CONSTANTS
  GoKinds,      \* kinds of go the GUI uses, a subset of Kinds
  Exhaustible,  \* kinds whose search may run out of depth, or meet a root
                \* tablebase position, before anything else ends it
  Pipelined,    \* TRUE: the GUI writes commands without awaiting bestmove
  Positions,    \* positions a position command can set up
  StartPos,     \* the position of board.StartFen
  MaxGo,        \* bound: go commands per session
  MaxGame,      \* bound: ucinewgame commands the GUI writes
  MaxPipe       \* bound: lines written and not yet handled

Kinds == {"timed", "infinite", "ponder"}

ASSUME ConstantsAssumption ==
  /\ GoKinds \subseteq Kinds
  /\ Exhaustible \subseteq Kinds
  /\ Pipelined \in BOOLEAN
  /\ StartPos \in Positions
  /\ MaxGo \in Nat /\ MaxGame \in Nat /\ MaxPipe \in Nat

VARIABLES
  inp,        \* lines on their way from the GUI to main
  sent,       \* number of go commands the GUI has written
  pending,    \* the go the GUI awaits a bestmove for, 0 if none
  mpc,        \* main: "select", "offer" (blocked sending on chSearch), "exited"
  infinite,   \* search.infinite
  savedBm,    \* main's savedBm
  limit,      \* what HandleGo left in search.limit: the kind of search
  bd,         \* uci.Bd
  engine,     \* search.Engine.Contempt, and a mark that changes each time main
              \* clears or resizes the transposition table
  status,     \* search.status: "idle" or "running"
  bStop,      \* search.bStop
  bPonderHit, \* search.bPonderHit
  wpc,        \* worker: where in StartSearch it is
  cur,        \* the go whose search the worker runs or ran last
  root,       \* the position the worker copied into its own board
  started,    \* uci.tablebaseStatsGameStarted
  gameHits,   \* searches whose probes search.tablebaseGameHits holds
  \* history variables
  accepted,   \* the last go HandleGo let through
  goBd,       \* uci.Bd when it did
  stopFor,    \* accepted when main last handled stop, 0 if never
  misled,     \* a stop has released a bestmove that an earlier search left saved
  told,       \* told[g]: bestmoves of g's search written to the GUI
  game,       \* ucinewgame commands handled
  playedIn,   \* playedIn[g]: the value of game when g was accepted
  booked      \* booked[g]: games whose statistics line counts g's probes

guiVars   == <<inp, sent, pending>>
mainVars  == <<mpc, infinite, savedBm, limit, bd, engine>>
flagVars  == <<status, bStop, bPonderHit>>
workVars  == <<wpc, cur, root>>
statVars  == <<started, gameHits, game, playedIn, booked>>
histVars  == <<accepted, goBd, stopFor, misled>>
vars == <<inp, sent, pending, mpc, infinite, savedBm, limit, bd, engine,
          status, bStop, bPonderHit, wpc, cur, root, started, gameHits,
          accepted, goBd, stopFor, misled, told, game, playedIn, booked>>

Gos == 1..MaxGo

\* The lines the model distinguishes.  "contempt" stands for the options whose
\* setter refuses to run during a search (Contempt, SearchRepetitionContempt,
\* SyzygyPath, ParameterFile), "hash" for those that reset the table unasked
\* (Hash, SyzygyProbeDepth, the console's pq).  A go is "timed" when a clock,
\* movetime, a depth or a node count ends it, "ponder" when it is a ponder search
\* on a clock.
Commands ==
       [cmd : {"go"}, id : Gos, kind : GoKinds]
  \cup [cmd : {"position"}, pos : Positions]
  \cup [cmd : {"stop", "ponderhit", "ucinewgame", "contempt", "hash", "quit"}]

\* The worker's program counter.  "recv": waiting on searchType.  "begun": has a
\* search type, status not yet set.  "rooting": status set, root not yet copied.
\* "searching": in searchGo.  "finished": searchGo returned.  "sending": bStop
\* cleared, blocked on bestmove.  "idling": bestmove taken, status not yet reset.
WorkerPCs == {"recv", "begun", "rooting", "searching", "finished", "sending", "idling"}

\* Where the worker reads the board, the options and the tables.
Searching == {"begun", "rooting", "searching"}

Init ==
  /\ inp = <<>> /\ sent = 0 /\ pending = 0
  /\ mpc = "select" /\ infinite = FALSE /\ savedBm = 0
  /\ limit = "timed" /\ bd = StartPos
  /\ engine = [contempt |-> 0, table |-> 0]
  /\ status = "idle" /\ bStop = FALSE /\ bPonderHit = FALSE
  /\ wpc = "recv" /\ cur = 0 /\ root = StartPos
  /\ started = FALSE /\ gameHits = {}
  /\ accepted = 0 /\ goBd = StartPos /\ stopFor = 0 /\ misled = FALSE
  /\ told = [g \in Gos |-> 0]
  /\ game = 0 /\ playedIn = [g \in Gos |-> 0] /\ booked = [g \in Gos |-> {}]

-----------------------------------------------------------------------------
(* The GUI.  A GUI that follows the protocol writes go, position,          *)
(* ucinewgame and setoption only when it awaits no bestmove, and stop and  *)
(* ponderhit only when it does; a pipelined one writes anything any time.  *)
(* quit may come at any time.  A bestmove reaches the GUI when it is       *)
(* written: a stop that crosses it is a stop still in inp.                 *)

Write(c) == inp' = Append(inp, c)

Idle == Pipelined \/ pending = 0
Busy == Pipelined \/ pending # 0

GuiGo ==
  /\ Idle /\ sent < MaxGo
  /\ \E k \in GoKinds : Write([cmd |-> "go", id |-> sent + 1, kind |-> k])
  /\ sent' = sent + 1
  /\ pending' = sent + 1

\* ucinewgame commands written so far.
NewGames == game + Len(SelectSeq(inp, LAMBDA c : c.cmd = "ucinewgame"))

GuiSet ==
  /\ Idle
  /\ \/ \E p \in Positions : Write([cmd |-> "position", pos |-> p])
     \/ \E c \in {"contempt", "hash"} : Write([cmd |-> c])
     \/ NewGames < MaxGame /\ Write([cmd |-> "ucinewgame"])
  /\ UNCHANGED <<sent, pending>>

GuiInterrupt ==
  /\ \/ Busy /\ \E c \in {"stop", "ponderhit"} : Write([cmd |-> c])
     \/ Write([cmd |-> "quit"])
  /\ UNCHANGED <<sent, pending>>

GuiSend ==
  /\ mpc # "exited" /\ Len(inp) < MaxPipe
  /\ GuiGo \/ GuiSet \/ GuiInterrupt
  /\ UNCHANGED <<mainVars, flagVars, workVars, statVars, histVars, told>>

-----------------------------------------------------------------------------
(* The main loop.                                                          *)

\* main takes the next line c out of chInput.
Line(c) ==
  /\ mpc = "select" /\ inp # <<>>
  /\ Head(inp) = c
  /\ inp' = Tail(inp)
  /\ UNCHANGED sent

\* tellGUI(bm): the GUI takes any bestmove for the answer to its last go.
Tell(bm) ==
  IF bm = 0 THEN UNCHANGED <<told, pending>>
  ELSE told' = [told EXCEPT ![bm] = @ + 1] /\ pending' = 0

\* Mutant: a variant that does not reset the counters.
FlushKeepsCounters ==
  IF started
  THEN /\ started' = FALSE /\ UNCHANGED gameHits
       /\ booked' = [g \in Gos |-> IF g \in gameHits THEN booked[g] \cup {game}
                                   ELSE booked[g]]
  ELSE UNCHANGED <<started, gameHits, booked>>

\* flushTablebaseGameStats: one line per game that had a go, with the counters
\* taken and reset.
FlushStats ==
  IF started
  THEN /\ started' = FALSE
       /\ gameHits' = {}
       /\ booked' = [g \in Gos |-> IF g \in gameHits THEN booked[g] \cup {game}
                                   ELSE booked[g]]
  ELSE UNCHANGED <<started, gameHits, booked>>

\* HandleGo while status is Running: the command is dropped with an info line.
HandleGoRefused ==
  /\ \E g \in Gos, k \in GoKinds : Line([cmd |-> "go", id |-> g, kind |-> k])
  /\ status = "running"
  /\ UNCHANGED <<pending, mainVars, flagVars, workVars, statVars, histVars, told>>

\* HandleGo past its first test, up to the send on chSearch.
AcceptGo ==
  /\ \E g \in Gos, k \in GoKinds :
       /\ Line([cmd |-> "go", id |-> g, kind |-> k])
       /\ limit' = k
       /\ infinite' = (infinite \/ k = "infinite")
       /\ accepted' = g
       /\ playedIn' = [playedIn EXCEPT ![g] = game]
  /\ goBd' = bd
  /\ started' = TRUE
  /\ mpc' = "offer"
  /\ UNCHANGED <<pending, savedBm, bd, engine, flagVars, workVars, gameHits,
                 game, booked, stopFor, misled, told>>

HandleGo == status = "idle" /\ AcceptGo

\* The rendezvous on chSearch.
Handoff ==
  /\ mpc = "offer" /\ wpc = "recv"
  /\ mpc' = "select"
  /\ wpc' = "begun" /\ cur' = accepted
  /\ UNCHANGED <<guiVars, infinite, savedBm, limit, bd, engine, flagVars, root,
                 statVars, histVars, told>>

\* Mutant: a variant of Deliver that forgets infinite mode.
DeliverAtOnce ==
  /\ mpc = "select" /\ wpc = "sending"
  /\ wpc' = "idling"
  /\ Tell(cur)
  /\ UNCHANGED <<inp, sent, mpc, infinite, savedBm, limit, bd, engine, flagVars,
                 cur, root, statVars, histVars>>

\* The rendezvous on chBestmove and main's case for it.
Deliver ==
  /\ mpc = "select" /\ wpc = "sending"
  /\ wpc' = "idling"
  /\ IF infinite THEN savedBm' = cur /\ UNCHANGED <<told, pending>>
     ELSE Tell(cur) /\ UNCHANGED savedBm
  /\ UNCHANGED <<inp, sent, mpc, infinite, limit, bd, engine, flagVars, cur,
                 root, statVars, histVars>>

\* Mutant: a variant of HandleStop that answers for the search it interrupts.
StopAnswersAtOnce ==
  /\ Line([cmd |-> "stop"])
  /\ bStop' = TRUE
  /\ stopFor' = accepted
  /\ IF wpc \in Searching THEN Tell(cur) ELSE UNCHANGED <<told, pending>>
  /\ infinite' = FALSE
  /\ UNCHANGED <<mpc, savedBm, limit, bd, engine, status, bPonderHit, workVars,
                 statVars, accepted, goBd, misled>>

\* Mutant: a variant of HandleStop that stays in infinite mode.
StopStaysInfinite ==
  /\ Line([cmd |-> "stop"])
  /\ bStop' = TRUE
  /\ stopFor' = accepted
  /\ IF infinite THEN Tell(savedBm) ELSE UNCHANGED <<told, pending>>
  /\ misled' = (misled \/ (infinite /\ savedBm \notin {0, accepted}))
  /\ UNCHANGED <<mpc, infinite, savedBm, limit, bd, engine, status, bPonderHit,
                 workVars, statVars, accepted, goBd>>

\* stop: raise the flag and, in infinite mode, release the saved bestmove, which
\* nothing has cleared since the search it was saved of.
HandleStop ==
  /\ Line([cmd |-> "stop"])
  /\ bStop' = TRUE
  /\ stopFor' = accepted
  /\ IF infinite THEN Tell(savedBm) ELSE UNCHANGED <<told, pending>>
  /\ misled' = (misled \/ (infinite /\ savedBm \notin {0, accepted}))
  /\ infinite' = FALSE
  /\ UNCHANGED <<mpc, savedBm, limit, bd, engine, status, bPonderHit, workVars,
                 statVars, accepted, goBd>>

\* ponderhit: the case of HandleInput is empty.
HandlePonderhit ==
  /\ Line([cmd |-> "ponderhit"])
  /\ UNCHANGED <<pending, mainVars, flagVars, workVars, statVars, histVars, told>>

HandlePosition ==
  /\ \E p \in Positions : Line([cmd |-> "position", pos |-> p]) /\ bd' = p
  /\ UNCHANGED <<pending, mpc, infinite, savedBm, limit, engine, flagVars,
                 workVars, statVars, histVars, told>>

ResetTable(e) == [e EXCEPT !.table = 1 - @]

\* ucinewgame: initGame.
HandleNewGame ==
  /\ Line([cmd |-> "ucinewgame"])
  /\ FlushStats
  /\ bd' = StartPos
  /\ engine' = ResetTable(engine)
  /\ game' = game + 1
  /\ UNCHANGED <<pending, mpc, infinite, savedBm, limit, flagVars,
                 workVars, playedIn, histVars, told>>

\* SetContempt and its kind: refused while Running, nothing to do when the value
\* is the present one, else the option changes and the table is cleared.
HandleGuardedOption ==
  /\ Line([cmd |-> "contempt"])
  /\ engine' \in IF status = "running" THEN {engine}
                ELSE {engine, ResetTable([engine EXCEPT !.contempt = 1 - @])}
  /\ UNCHANGED <<pending, mpc, infinite, savedBm, limit, bd, flagVars, workVars,
                 statVars, histVars, told>>

\* setoption Hash clears or resizes the table whatever the worker does, and so
\* does pq (uci.go:112-124), which then evaluates uci.Bd.
HandleHash ==
  /\ Line([cmd |-> "hash"])
  /\ engine' = ResetTable(engine)
  /\ UNCHANGED <<pending, mpc, infinite, savedBm, limit, bd, flagVars, workVars,
                 statVars, histVars, told>>

HandleQuit ==
  /\ Line([cmd |-> "quit"])
  /\ FlushStats
  /\ bStop' = TRUE
  /\ mpc' = "exited"
  /\ UNCHANGED <<pending, infinite, savedBm, limit, bd, engine, status,
                 bPonderHit, workVars, game, playedIn, histVars, told>>

Main ==
  \/ HandleGoRefused \/ HandleGo \/ Handoff \/ Deliver \/ HandleStop
  \/ HandlePonderhit \/ HandlePosition \/ HandleNewGame
  \/ HandleGuardedOption \/ HandleHash \/ HandleQuit

-----------------------------------------------------------------------------
(* The worker.  It dies with the process when main exits.                  *)

Step(from, to) == mpc # "exited" /\ wpc = from /\ wpc' = to

\* setSearchStatus(Running) after the receive from searchType.
Begin ==
  /\ Step("begun", "rooting")
  /\ status' = "running"
  /\ UNCHANGED <<guiVars, mainVars, bStop, bPonderHit, cur, root, statVars,
                 histVars, told>>

\* Mutant: a variant of CopyRoot that keeps the last root.
CopyNothing ==
  /\ Step("rooting", "searching")
  /\ UNCHANGED <<guiVars, mainVars, flagVars, cur, root, statVars, histVars, told>>

\* searchGo up to slSetRoot in searchID: clear() resets the timer and Best but
\* not bStop, then uci.Bd is copied.
CopyRoot ==
  /\ Step("rooting", "searching")
  /\ root' = bd
  /\ UNCHANGED <<guiVars, mainVars, flagVars, cur, statVars, histVars, told>>

\* searchGo ends; its last statement adds the probes to the game's.
SearchOver ==
  /\ Step("searching", "finished")
  /\ gameHits' = gameHits \cup {cur}
  /\ UNCHANGED <<guiVars, mainVars, flagVars, cur, root, started, game,
                 playedIn, booked, histVars, told>>

\* The clock or another limit ends it: incNode and searchID do not abort while
\* limit.ponder, which poll clears when it sees bPonderHit.  The bStop they
\* raise on the way is cleared by ClearStop.
LimitReached == limit = "timed" \/ (limit = "ponder" /\ bPonderHit)

FinishByLimit   == LimitReached /\ SearchOver
FinishByStop    == bStop /\ SearchOver
FinishExhausted == limit \in Exhaustible /\ SearchOver

\* Mutant: a variant of ClearStop that sends no bestmove for a stopped search.
StoppedSearchIsSilent ==
  /\ Step("finished", IF bStop THEN "idling" ELSE "sending")
  /\ bStop' = FALSE
  /\ UNCHANGED <<guiVars, mainVars, status, bPonderHit, cur, root, statVars,
                 histVars, told>>

\* SetStop(false) before the bestmove is sent.
ClearStop ==
  /\ Step("finished", "sending")
  /\ bStop' = FALSE
  /\ UNCHANGED <<guiVars, mainVars, status, bPonderHit, cur, root, statVars,
                 histVars, told>>

\* setSearchStatus(idle), back to the receive.
GoIdle ==
  /\ Step("idling", "recv")
  /\ status' = "idle"
  /\ UNCHANGED <<guiVars, mainVars, bStop, bPonderHit, cur, root, statVars,
                 histVars, told>>

Worker ==
  \/ Begin \/ CopyRoot \/ FinishByLimit \/ FinishByStop \/ FinishExhausted
  \/ ClearStop \/ GoIdle

Exited == mpc = "exited" /\ UNCHANGED vars

Next == GuiSend \/ Main \/ Worker \/ Exited

\* The Go scheduler runs every runnable goroutine, select picks among ready
\* cases at random, a running search polls bStop and the clock every
\* nodeInterval nodes.  The GUI owes nothing, and a search nothing limits may
\* go on for ever: FinishExhausted is not fair.
Fairness ==
  /\ WF_vars(Handoff) /\ WF_vars(Deliver) /\ WF_vars(Main)
  /\ WF_vars(Begin) /\ WF_vars(CopyRoot) /\ WF_vars(ClearStop) /\ WF_vars(GoIdle)
  /\ WF_vars(FinishByLimit) /\ WF_vars(FinishByStop)

Spec == Init /\ [][Next]_vars /\ Fairness

-----------------------------------------------------------------------------
(* Properties.                                                             *)

TypeOK ==
  /\ inp \in Seq(Commands) /\ sent \in 0..MaxGo /\ pending \in 0..MaxGo
  /\ mpc \in {"select", "offer", "exited"}
  /\ infinite \in BOOLEAN /\ savedBm \in 0..MaxGo
  /\ limit \in Kinds /\ bd \in Positions
  /\ engine \in [contempt : {0, 1}, table : {0, 1}]
  /\ status \in {"idle", "running"} /\ bStop \in BOOLEAN /\ bPonderHit \in BOOLEAN
  /\ wpc \in WorkerPCs /\ cur \in 0..MaxGo /\ root \in Positions
  /\ started \in BOOLEAN /\ gameHits \subseteq 0..MaxGo
  /\ accepted \in 0..MaxGo /\ goBd \in Positions
  /\ stopFor \in 0..MaxGo /\ misled \in BOOLEAN
  /\ told \in [Gos -> Nat] /\ game \in Nat /\ playedIn \in [Gos -> Nat]
  /\ booked \in [Gos -> SUBSET Nat]

(* The one way in which a GUI that follows the protocol is told a bestmove *)
(* of another search is a stop that main handles after it has accepted an  *)
(* infinite go and before the worker has delivered for it, when an earlier *)
(* infinite search that ended by itself has left its bestmove in savedBm.  *)
(* The GUI then takes its go for answered while the search goes on.  From  *)
(* that stop on (misled) nothing is promised; the properties are about     *)
(* every session, with go infinite in it, up to there.                     *)

\* A bestmove the GUI receives was computed for the go it is waiting on, and is the
\* first it receives for it: told at the end of the search, or saved up by main
\* until the stop of an infinite one, also when that stop crosses the bestmove,
\* comes twice or comes before the search has begun.
ToldInTime == \A g \in Gos : told'[g] # told[g] => told'[g] = 1 /\ pending = g

AnswersTheRightGo == [][~misled' => ToldInTime]_vars

\* The worker searches the position the GUI had set up when it wrote go, although
\* it copies uci.Bd in another goroutine, after main has gone back to its input.
RootIsGoPosition ==
  wpc \in {"searching", "finished", "sending"} => cur = accepted /\ root = goBd

\* Main changes neither uci.Bd nor an option nor the tables while the worker
\* reads them, in particular in the window in which the worker has its search
\* type and SearchStatus still says idle.
NoReconfiguration ==
  [][~misled /\ wpc \in Searching => UNCHANGED <<bd, engine>>]_vars

\* Main blocks on chSearch only while the worker waits on it, so it is always
\* there for the next stop.
MainNeverWaits == mpc = "offer" => wpc = "recv"

\* A go that HandleGo accepts reaches a worker that waits for it, and is the go, on
\* the position, that this worker searches.
GoHandedOver == ~misled => MainNeverWaits /\ RootIsGoPosition

\* The statistics line of a game counts no other game's probes...
BookedInItsGame == \A g \in Gos : booked[g] \subseteq {playedIn[g]}

\* ... and misses those of no search whose bestmove the GUI has seen.
StatsComplete ==
  \A g \in Gos : told[g] > 0 /\ (playedIn[g] < game \/ mpc = "exited")
                => booked[g] = {playedIn[g]}

\* Every search is booked in the game it was played in, once and in no other,
\* although the worker adds its probes while main may flush them.
StatsRight == ~misled => BookedInItsGame /\ StatsComplete

\* A go that HandleGo lets through is answered when its search ends by itself...
TimedGoIsAnswered ==
  \A g \in Gos : (accepted = g /\ limit = "timed")
                    ~> (told[g] > 0 \/ mpc = "exited" \/ misled)

\* ... and a stop brings out the bestmove of whatever search it finds, also one
\* that is about to begin, about to end or over with its bestmove saved.
StopIsAnswered ==
  \A g \in Gos : (accepted = g /\ stopFor = g)
                    ~> (told[g] > 0 \/ mpc = "exited" \/ misled)

\* No accepted go is left without its bestmove, whichever way its search ends and
\* whatever was searched before it, as long as no stop has released the bestmove
\* of an earlier search: a GUI misled by one writes a go that the worker, whose
\* bestmove main does not take, never receives.
GoesAreAnswered == TimedGoIsAnswered /\ StopIsAnswered

\* The bestmove of an infinite search is held back until a stop, even when the
\* search ends by itself or a stop meant for the one before ends it.
InfiniteWaitsForStop ==
  [][\A g \in Gos : told'[g] # told[g] /\ g = cur /\ limit = "infinite"
                      => stopFor' = g]_vars

-----------------------------------------------------------------------------
(* Why the safety properties hold when the GUI follows the protocol: the   *)
(* inductive invariant.                                                    *)

Interrupts == {"stop", "ponderhit", "quit"}
OnlyInterrupts(s) == \A i \in DOMAIN s : s[i].cmd \in Interrupts

InSearch == wpc \in {"begun", "rooting", "searching", "finished", "sending"}

\* From the acceptance of a go to its bestmove, ...
Computing == mpc = "offer" \/ InSearch

\* ... or, in infinite mode, to the stop that releases it.
Engaged == Computing \/ infinite

\* A go on its way is the one the GUI waits for; behind it come interrupts only.
GoOnItsWay ==
  \A i \in DOMAIN inp : inp[i].cmd = "go" =>
     /\ inp[i].id = pending /\ accepted < pending
     /\ \A j \in DOMAIN inp : i < j => inp[j].cmd \in Interrupts

\* While a go is being answered the GUI waits for it, so that nothing but
\* interrupts reach main and the position stays.
EngagedForPending ==
  Engaged => /\ accepted # 0 /\ pending = accepted /\ told[accepted] = 0
             /\ bd = goBd
             /\ OnlyInterrupts(inp)

\* What is saved is of an earlier search until the present one has delivered, and
\* then, in infinite mode, of the present one.
SavedInItsTurn ==
  /\ savedBm <= accepted
  /\ Computing => savedBm < accepted
  /\ infinite /\ ~Computing => savedBm = accepted

\* Goes are numbered in the order they are written, accepted and told.
Numbering ==
  /\ pending # 0 => pending = sent
  /\ accepted <= sent
  /\ \A g \in Gos : g > accepted => told[g] = 0 /\ booked[g] = {}
  /\ \A g \in gameHits : g \in Gos /\ g <= accepted

StatusMeans == status = "running" <=> wpc \notin {"recv", "begun"}

\* The hits of the game being played are of its searches, and a game with a
\* search in it will have a statistics line.
StatsKept ==
  /\ BookedInItsGame
  /\ \A g \in Gos : told[g] > 0 => g \in gameHits \/ booked[g] = {playedIn[g]}
  /\ \A g \in gameHits : playedIn[g] = game /\ started
  /\ Engaged /\ mpc # "exited" =>
       /\ started /\ playedIn[accepted] = game
       /\ wpc \in {"finished", "sending"} \/ ~Computing => accepted \in gameHits
  /\ mpc = "exited" => gameHits = {}

SessionInv ==
  /\ StatusMeans /\ MainNeverWaits
  /\ EngagedForPending /\ GoOnItsWay /\ SavedInItsTurn /\ Numbering
  /\ InSearch => cur = accepted
  /\ RootIsGoPosition

IInv == TypeOK /\ (~misled => SessionInv /\ StatsKept)

-----------------------------------------------------------------------------
(* What the source says of the session and the session does not do.        *)

\* uci.go: HandleGo turns a go away for as long as a search goes on ("Inte en go
\* till innan search klar"), so only then.
RefusedOnlyWhileSearching ==
  [][HandleGoRefused => wpc \notin {"recv", "idling"}]_vars

\* uci.go: stop stops the program's search, the one that runs when it is handled.
\* A search nothing else can end goes on until a stop of its own.
StopIsForThisSearch ==
  [][SearchOver /\ limit = "ponder" /\ ~bPonderHit /\ limit \notin Exhaustible
       => stopFor = cur]_vars

\* GoAlaric.go: the bestmove of an infinite search is saved until the GUI sends stop,
\* so a stop sends that of the search it stops and not an earlier one's again.
StopSendsItsOwn == [][ToldInTime]_vars

\* uci.go: no second go until the search is done, so main does not offer one to a
\* worker that has a bestmove to hand over first.
NoSecondGo == ~(mpc = "offer" /\ wpc = "sending")
=============================================================================
