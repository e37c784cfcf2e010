# GoAlaric: a TLA+ verification project

GoAlaric is a chess engine in Go that speaks UCI, with two programs around it: a
test monitor that judges changes of the engine by matches (`cmd/testmonitor`, Go)
and an optimizer
that tunes its parameters by playing blocks of games (`optimizer/`, Python, on
SQLite). This directory holds TLA+ models of the parts whose
correctness is a matter of order, of state that outlives a step, or of an
algorithm whose result cannot be read off its code; the TLC runs that check
them; and TLAPS proofs of the results that should hold for every size.

`PROJECT.json` lists, for machines, what this file explains: components, runs,
hazards, theorems, and for every definition the source lines it stands for.

## 1. The system

### 1.1 The engine

| Component | State | Operations | Talks to |
|---|---|---|---|
| Session: `GoAlaric.go`, `uci/uci.go`, `StartSearch` in `search/search.go` | `infinite`, `savedBm`, `uci.Bd`, `search.limit`, the atomic `bStop`, `bPonderHit` and status, the game's tablebase counters; the channels of the reader, of `go` and of `bestmove` | one case of `HandleInput` per UCI command; the worker's receive, search, hand-over | the GUI by lines; main and worker by two unbuffered channels, three flags and plain shared variables |
| Iterative deepening, root and tree search: `search/search.go` | `Best`, `completed`, `limit.lastScore`, the root list, one frame per call of `search` | `searchID`, `searchAsp`, `searchRoot`, `search`, `Qs` and the pruning rules | the table at every node, `bStop` at every node, board, generator and evaluation as functions |
| Transposition table: `search/trans.go` | the entries, their generation, `cntUsed` | `Store`, `Retrieve`, `IncDate`, `Clear`, `Resize` | the search; the session clears, resizes and steps it |
| Time management: `SetHard`, `incNode`, `searchID` | `limit.*` | a budget from the clock, the test every 1024 nodes | raises `bStop` |
| Move generation and ordering: `gen/*.go` | a staged list per ply, killers, history | `Init`, `Next`, `See`, `Add` | the search, the table's move |
| Board: `board/*.go`, `hash/hash.go`, `move/move.go` | pieces, keys, a stack of undo records, a stack of keys | `Move`, `Undo`, `MoveNull`, `DrawState` | everything |
| Evaluation: `eval/*.go`, `material/*.go`, `bit/bit.go`, `square/square.go` | two direct-mapped caches keyed by the whole key | a function of the position | the search |
| Tablebases: `syzygy/*` over vendored C | handles, counters | `ProbeWDL`, `ProbeRoot` | the search, the session's statistics |
| Parameters: `parms/*.go`, `setOption` | registries, a digest | set one, load a file, reset | search and evaluation |
| Offline tuning: `tune*.go`, `cmd/materialdrawtest` | none shared | batch programs | none |

What makes it hard: three goroutines share state that only a convention
protects; a stop may fall between any two steps of main, of the worker or of the
search; the table is written under one window, depth and ply and read under
another, generations later; a search's score is a bound whose meaning depends on
where it came from.

What makes it correct: a `bestmove` answers the `go` it was computed for, once;
every `go` that can end is answered and every stop brings an answer; nothing the
worker reads changes while it reads it; statistics are booked in their game. The
table never invents a result, keeps one entry per position, evicts what is worth
least and always finds a slot. A move made and taken back leaves every
representation of the position as it was; the lists bring every legal move, once,
in the order their programs promise. What the search returns, stores and announces is
what minimax says, whatever the windows, and an aborted depth leaves no trace in
the answer.

### 1.2 The test monitor

A command-line tool whose commands meet in files. `start` prepares a run
directory and leaves a *monitor* behind, a process of its own session that plays
one Fastchess match, reads its output and at the end audits the PGN; `stop` and
`status` are other processes. They share `status.json`, `block-report.json`, the
opening file, `games.pgn` and a process number, and no lock. `opening_blocks.go`
chooses which openings a match plays.

`campaign-run` is a service that systemd starts again when it fails: it builds a
candidate, runs the pipeline of tests (`experiment.go`), looks for a time control
at which the engine searches deep enough (`prescan.go`), starts a screening match
and polls it. `automation.go` runs in the *monitor* of a match that is over: it
asks a model once whether an SPRT is worth playing, and starts it; the command
`retry-evaluation` runs the same code again. Service, monitors and retries share
`active-campaign.json`, `experiment.json`, the automation records and the run
directories.

Hard: every read-change-write of a shared file may straddle another process's; a
stop meets a match that is ending by itself; any process can be killed between
starting another and writing down that it did. Correct: a block of openings is
counted only if it was played whole; one monitor plays in a directory (unless starts
overlap or a stop's mark hits the wrong match: nothing keeps those out), and the
directory can be used again whatever died; an SPRT is played only for a candidate
that passed all that comes before; the model is not asked twice for one answer;
the screening is played at the first time control that is deep enough; a campaign
ends, and not before its matches.

### 1.3 The optimizer

Everything meets in the SQLite store of `database.py`: campaigns, trials, blocks,
games and a checkpoint, with transition tables for the statuses; each method is
one transaction. A *scheduler* (`scheduler.py`; one at a time, by a file lock)
owns the campaign, claims a block, starts its match as a child process in a
session of its own, records the process group, waits, and commits the block with
its games and the checkpoint, or gives it back. The *commands* of another terminal
(`service.py`; one at a time, by a second lock) pause, stop and resume: each is a
row of transactions, with a signal to the recorded groups in the middle.
`optimization.py` is the *optimizer*: `coordinate.py` searches for better parameters
with ever smaller steps, `adaptive.py` plays the blocks of one candidate against the
present anchor until it can decide, `confirmation.py` plays the last anchor against the
baseline. It runs under the commands' lock from one result, or one budget, to the
next, and keeps everything in the store. `cli.py` and `dashboard.py` are entry points
and views.

Hard: scheduler and command share no lock, so that any transaction of one may fall
between two of the other; a process dies between two transactions; a match goes on
when its scheduler is killed; statuses in several tables must change together.
Correct: every block is completed once and its games counted once; no match is
left behind; a pause or stop that is over stays over; a campaign is owned by
somebody who lives; recovery loses and duplicates nothing. The anchor moves only to a
candidate that has beaten it, whatever results of other anchors lie in the store; what
is recommended is the last anchor, and is confirmed by all the games planned; a
campaign that is invoked again and again comes to its conclusion.

## 2. Plan

In order of importance to the program. Built:

1. `UciSession`: the session, with its GUI as environment.
2. `TransTable` on `MateScore`, with the abstract specification `LossyCache`,
   which it implements (`TransLog`).
3. `TreeSearch`: the search, composed with `TransTable` by `INSTANCE`.
4. `CampaignStore` and, over it, `CampaignScheduler`: a campaign with one trial,
   its scheduler, its matches, the control commands, crash and recovery. Abstract
   specification: `BlockQueue`.
5. Proofs of 1, 2 and 4.
6. The chess core: `Attacks`, `Board` and `MoveGen`, composed in `ChessGame` and
   held against `ChessRules`, the rules of chess (the abstract specification that
   `ChessGame` implements); `MoveList`, the staged lists in a search.
7. `OpeningBlocks` and `MatchMonitor`: one run directory, its commands, monitors
   and Fastchess, with kills. `CandidateCampaign`: the service and the evaluations
   over the matches, with kills and retries.
8. Proofs of the safety properties of `CandidateCampaign`.
9. `ParameterRegistry`: parameter files, options and the caches they make stale;
   `TimeControl`: the time of a move, over a game. Proofs of both.

10. `OptimizerSearch`: the optimizer over several trials, from its first invocation
    to the recommendation, with kills. Proof of its confirmation.
    Proofs of `MatchMonitor`, with the attempts of a campaign (`CampaignProofs`), and of
    the search: the value of a node, windows and moves, what is announced, and the bounds.

Left, in this order:

11. A second search in `TreeSearch`, over the table that a stopped one has left.
12. Proofs for the undo stack of `Board`.

## 3. Modules and their correspondence to the code

### UciSession (`GoAlaric.go`, `uci/uci.go`, `search/search.go:567-672`)

Three processes. The *reader* is the pipe `inp`: lines in order, one in hand.
*Main* has one action per command: `HandleGo` (and `HandleGoRefused`) with the
blocking send split off as `Handoff`, `HandleStop`, `HandlePonderhit`,
`HandlePosition`, `HandleNewGame`, `HandleGuardedOption` (options whose setter
refuses during a search), `HandleHash` (those that do not), `HandleQuit`; and
`Deliver`, its case for `chBestmove`. The *worker* has one action between two
accesses to shared state: `Begin` (status), `CopyRoot` (the board), one of
`FinishByLimit`, `FinishByStop`, `FinishExhausted` (how the search ends; its last
statement books the probes), `ClearStop`, and `GoIdle` (status back), with
`Handoff` and `Deliver` as the rendezvous at both ends.

The *GUI* is the environment. With `Pipelined = FALSE` it keeps to the protocol:
go, position, ucinewgame and setoption only when it waits for no bestmove. A go
carries the number the GUI gave it; a bestmove carries the number of the go whose
search computed it. `told`, `accepted`, `goBd`, `stopFor`, `misled`, `playedIn`
and `booked` are history.

`savedBm` is never cleared (`GoAlaric.go:42-57`): an infinite search that ends by itself
leaves its bestmove there after the stop that releases it. A stop that main handles after
the next infinite go and before that go's bestmove releases it again, for the wrong go, and
the GUI believes itself answered while the search goes on. That stop sets `misled`. From
there on main and worker can wait on each other for ever and nothing is promised; up to
there the properties are about every session of such a GUI, infinite searches included,
whose bestmoves go through `savedBm`.

`engine` is a contempt value and a mark that flips whenever the table is cleared
or resized: the question is only whether it changes. `pq`, a command of the console that
clears the table and then evaluates `uci.Bd`, is to it what `Hash` is, and is that action;
that it empties the history too is left out with the history. Not modelled: printing
commands, perft, `go` with the suffix test, the end of input, the parsing of a
line.

### MateScore, TransTable, LossyCache, TransLog (`search/trans.go`)

Every method of the table is one action: `Store` (the walk over the window is
`Matches`, `GiveUp`, `Victim`; the write is `Merge`), `Retrieve` (which writes
too: it refreshes the date), `IncDate`, `Clear`, `Resize`. A key is an index and
a lock, all the code looks at; lock 0 is the lock of an empty slot, as in the
code. `depth` is an int8, `generation` steps to `MaxGen` (65535) and starts over.
`Answer` is what `Retrieve` returns, with the mate scores converted by
`AddMatePly`. The mask of the code is `%`, the size being a power of two.

`LossyCache` is what a search may rely on: a cache that forgets at will, and
whose results and move hints were each stored, whole, for that lock. `TransLog`
adds a history variable for what was last stored, and maps `results` and `hints`
to what lies in the slots in use.

### TreeSearch (`search/search.go:655-1353`)

The search as a machine whose state is the stack of calls. A frame holds the
parameters and locals of one `search` call and where it stands (`at`): entry,
before the moves, the null move, internal deepening, the loop, a scout search, a
full one. Each action is the code between two calls or between two tests of
`bStop`, with its stores in the table. `root` is the frame of `searchAsp` and
`searchRoot` together, `best` and `completed` those of `searchID`. The table is a
full `TransTable` (`TT == INSTANCE TransTable`), with a window of two and so few
entries that positions evict one another.

The game is a finite graph of positions, a constant. A record says what the code
computes about a position without searching: its legal moves in the generator's
order, which are captures, checks, recaptures and so on, whether it is drawn,
its null-move successor. `ev` gives it an evaluation, `Root` and the order of the
root moves are any. Abstracted: killers and history (they exempt a quiet move
from reduction or order it: a reduction is chosen from all they allow); the node
counter and the clock (`Stop` may come at any moment); a principal variation
beyond its first move. Left out: tablebase probes, and repetitions, which make
a position's value depend on the way to it. The graph is layered: a position
has one distance from the root, as it has in a game without repetition.

The staged list is the set of the moves it will still give out (`todo`) with
`Upcoming`, the one it gives out next: the table's move, then the generator's order;
`MoveList` models the stages.

The reference is `Value`, a recursive function: minimax at a depth (`Minimax`), with the
search's extensions and its horizon, without a window, a table, a reduction
or any pruning. Pruning is deliberately unsound in chess, so no equality can
hold for all of it: the history variable `plain` says that so far nothing was
pruned away, no reduced search went unrefuted, no answer came from a deeper
entry, no extension was made for the principal variation only, and no node in check
below the horizon was entered: such a node uses the table as one of depth 0
(`search.go:938-942`), and so finds and leaves scores there that are not of that depth
(`Mislabelled`). While `plain`
holds the search owes the minimax value; everything else (windows, termination,
the list, types) is checked and proved without it.

What the search takes for granted is in two assumptions. `EvalsAssumption`: no
evaluation, with the exchange and the margin that quiescence adds (`Qs`), reaches the scores of mates.
`LimitsAssumption`: the ranges of the code's limits, and that a reduction is at most
`depth - 2`, as `initLMRReductions` makes it. `PositionAssumption` has the root not drawn,
since `searchRoot` does not ask.

### Attacks, Board, MoveGen, ChessRules, ChessGame (`eval/attacks.go`, `board/`, `gen/`)

`Attacks` has the tables that the engine computes at its start (attacks of each
piece from each square, the squares between and behind two) and the questions
asked of them: who attacks a square, who gives check, which men are pinned, which
would discover a check. Squares are numbered as in the code, file by file; a
bitboard is the set of its squares.

`Board` is the board as the program keeps it: `square`, the sets by piece and by
side, counts, king squares, keys, flags, en passant, clock, the stack of undo
records and that of keys. `SetSquare`, `ClearSquare` and `MoveSquare` are the
incremental updates, `Move` and `MakeFenMve` the two entries that make a move (for
the search and for a `position` command), `Undo`, `MoveNull` and `UndoNull` the
others; `Repeats`, `IsDeadMaterial` and `DrawState` the draws. A hash key is the set of its
terms, combined by symmetric difference as the code combines by xor: two keys are
equal exactly when the positions are.

`MoveGen` has the generators (captures, promotions, quiet moves, castlings, checks,
evasions), the test of legality by pins and checkers, and the exchange evaluation
`See`. `ChessRules` is written from the rules: a position is a set of men, a move
is legal if it leaves the king unattacked; it knows no bitboards, increments or
stages. `ChessGame` plays moves and null moves, as a game (by the routine of
`position`) and as a search line (that of the search) with undos, from the
positions of `MCChessGame`, on the squares of a `lane`, which keeps the number of
games small; its abstract specification is `ChessRules`, by mapping the board to
its men. Which positions a game may start from is said by `StartsAssumption`: one man per
square, a king a side, pawns off the outer rows, behind an en passant square the pawn that
has passed it, and the side not to move not in check (`FenOk`), as `SetFen` takes for
granted; castling rights that are not true `SetFen` drops itself.

### MoveList (`gen/fastgen.go`, `gen/killer.go`, `gen/history.go`)

The list as the code has it: the program of the list (main, quiescence with checks,
evasions), one stage generated when it is reached (`NextStage`), and of each move the
test that its stage applies (`NextMove`, `Posted`: legality, the exchange, whether the
table's move or a killer has given it already), with losing moves put aside for the
last stage. A search of two plies calls the real lists: `Descend` and `DescendNull`
make the move and open a list below, `Return` takes it back, `Cutoff` ends a list
early and adds killers and history, as the search's cutoffs do, and so leaves them for
the lists after it. A score orders moves; its packing into the word of a list is
left out.

### TimeControl (`search/search.go:429-522`, `685-731`, `1401-1472`, `uci/uci.go:287-363`)

`SetHard` makes the three limits (`Budget`, by `MovesAhead`, `Factor`, `Steps`);
`Go` is `HandleGo` with `NewSearch`, `clear` and the head of `searchID` (`Begin`).
`Poll` is `incNode` with `poll` at one of its looks at the clock, `IterationEnds` the
look in `searchID`, `Answer` the hand-over of bestmove, after which the engine's clock
is charged. What a search does to the limits is an action each, in any order that the
code can bring about: the root's moves one by one (`NextRootMove`), a scout that fails
high, a new best move with or without a drop (`NewBest`), a wider window
(`SearchAgain`). `limit.drop` outlives a search, as in the code; all else is made
anew. Conversions to `float64` and back are divisions that cut off. Left out: limits
on nodes, the score margin that makes a move easy (`easy` starts either way), a root
move from the tablebases.

### ParameterRegistry (`parms/`, `uci/uci.go:399-519`, `search/contempt.go`, `tablebase_config.go`)

`LoadParameterFile` and `ResetParameterFile` are `setParameterFile` with a path and
without; a rejected file changes nothing and so is no step. `Normalizes` and `Normal`
are `normalize`; a SHA-256 is the canonical file. `SetContempt`,
`SetSearchRepetitionContempt`, `SetSyzygyPath` look at the status; `ClearTable` is
`Hash` and `SyzygyProbeDepth`, which do not, and may come while a node is searched. A
search reads its configuration when it enters a node and stores what it made of it
when it leaves (`EnterNode`, `LeaveNode`); a cache holds the configurations its entries
were computed under. A status that a go has taken and the worker not yet written is
`UciSession`'s (`NoReconfiguration`). Left out: the depth from which tablebases are
probed, which changes how a value is found and which may be set during a search;
exporting files; parameters set one by one.

### OpeningBlocks, MatchMonitor (`cmd/testmonitor/main.go`, `opening_blocks.go`)

`SelectBlock` is the deterministic block: the book without repetitions, ordered by
the seed's hash (any ranking), one stretch of it: at each place the opening that has as
many before it as the block skips (`InPlace`). `Audit` is the audit of the PGN.
`MatchMonitor` has three kinds of process. The *start commands*, which may overlap as they
like, since nothing is locked between their test and their save: refusals, a look at the
block's file (`PrepareBlock`) and, if it is not there, its writing (`WriteBlock`), status,
report, spawn, and the status read again and written with the process number. The
*monitor*: boot, the first save, Fastchess, one save per line of its output, the signal and the ten seconds of grace, the final status, the report. The
*stop command*: read, request, signal, wait, mark. Each read and each write of a file
is a step of its own. Fastchess is a process group that plays the block as it read it at
its launch (`book`), may fail, may ignore
SIGTERM, and outlives a monitor that is killed, and may then write one more game.
A block has one opening in the run: the games of an opening are the two that can
be half played.

Two histories say what has gone past the tests that keep matches apart: `overlapped`, a
start was let in while another start was at work or its monitor had not yet said that it
runs (`Beside`); `overruled`, a stop has marked as stopped a match that was
being started again, or whose monitor was alive. `Apart` is neither. That one
monitor plays and that a counted block is whole hold `Apart` and fail otherwise (section 4);
that the directory is never stuck, and that a monitor ends, hold always.

### CandidateCampaign (`campaign.go`, `automation.go`, `experiment.go`, `prescan.go`)

The *service* is `advanceCampaign` between one save and the next, with its copy of
the campaign in `svc.mem`: `BeginBuild`, `Build`, `Pipeline` (whose report is taken
for the result if there is one), `Stage`, `Judge`, the loop of the depth gate
(`LookUp`, `Decide`, `Exhausted`), `Launch` of a match and, as a step of its own,
`SaveLaunch`; and the polls. `Crash` kills it anywhere; the next one has the files.
An *evaluation* is `processMatchCompletion`, by the monitor of the screening or the
SPRT or by a retry, with its copies of report and record: `Load`, `Validate`, `Ask`,
`Note`, `Approve`, `StartSprt`, `SpawnSprt`, `WriteExperiment`, `Close`, and the ways
each of them fails. A match is started in one step and ends somehow: `MatchMonitor`
is about the rest. `asked` and `measured` are history.

Two assumptions about the outside are guards: an evaluation is tried again when the one
before it has ended or died and the service has the screening's launch behind it
(`RetryGiven`); and a monitor whose match failed is gone before a restarted service launches
the match again, which systemd does after 30 seconds (`Settled`).

### CampaignStore, CampaignScheduler, BlockQueue (`optimizer/`)

`CampaignStore` is `database.py`: a transaction is an operator that says what
every variable of the store becomes. `ClaimBlock` takes the lowest runnable block
of a running campaign, `SetProcess` records its group, `CompleteBlock` stores the
games and the result and moves the checkpoint, `InterruptBlock` gives the block
back, `RecoverJobs` gives back all that run; `ClaimCampaign` and `ReleaseCampaign`
are the owner's, `TransitionCampaign` and `FinishWork` move the statuses.

`CampaignScheduler` says who calls them when. A scheduler's `pc` is the point
between two of its transactions, signals or process calls; its actions follow
`Scheduler.run` and `_run_block`, every error path with them. A match is
`<<block, attempt>>` while its process group lives; it ends by itself
(`MatchEnds`), well or not, or by `Terminate`. A command carries the rest of its
`Program`. `Crash` and `CommandCrash` are kills: locks go, rows and matches stay.
`Interrupt` is Ctrl-C, which runs the `finally` clauses. `orphans`, `killed` and
`quiet` are history.

`BlockQueue` is the promise: blocks in order, one taken at a time, put back or
done, done once. Left out: the events table, the progress counts, the limit on
blocks per call, and what `OptimizerSearch` is about: more than one trial and the
scheduler embedded in an optimization.

### OptimizerSearch (`optimization.py`, `coordinate.py`, `adaptive.py`, `confirmation.py`)

One action per transaction of the optimizer, whose `pc` is the point between two of
them; between two any of them can be killed (`Kill`), and the next invocation
(`Start`) begins with `Recover`, `CloseTerminal` and the reconciliation of the
checkpoint. `search` is that checkpoint, `trials` the trial of each parameter set with
the statuses of its blocks, `confirm` the confirmation with its own.

The *search* steps (`SkipCandidate`, `ReuseResult`, `SelectCoordinate`, `FinishPass`)
are `_step` without an evaluation; what they are done for is `proc.doing`:
reconciliation, the way to a new result, the settling after one (which goes on to the
choice of a direction and the end of a pass, no further), and the stop on a budget
(`StopSearch`, which keeps a direction that has won alone: `Partial`). The *evaluation*
is `AdaptiveCampaign.run` with its block runner: `CreateTrial`, `CreateBlock`,
`Resume`, and for each block `ClaimBlock`, `EnsureTrial`, `BlockCompletes` or
`MatchFails`; then `Continue`, or `CloseBudget`, `StoreEvidence` and `RecordResult`,
which commits the trial and the checkpoint together. The *confirmation* is
`_run_confirmation` with `ConfirmationCampaign.run`, to `Finalize` and
`WriteRecommendation`. `Control` is pause, stop and resume, which get the lock
only between two invocations.

Abstracted: the statistics of a trial are a *level*, which says where its score and
interval lie among the thresholds of the policy; each block puts it anywhere. Levels
do not order two scores, so that of two accepted directions either may be the better
(`Selected`). A pair of openings is one game. `against` is history: the anchors that
a trial's blocks were played against. Left out: fake evaluators, the older
`CoordinateSearch`, profiles, the files of parameters and openings and the checks on them,
a failed `run_optimization` before the lock.

### Proof modules

`UciSessionProofs` extends `UciSession`; `CacheProofs`, on what outlives a search, extends
`TransLog`, and so has the table and its log, and `ParameterRegistry` (whose
specification is `RegistrySpec`: the two share no name); `GameProofs`, on the board and
the clock, extends `ChessGame` (`ChessSpec`) and `TimeControl`; `CampaignProofs` extends
`CampaignScheduler`, `CandidateCampaignProofs` extends `CandidateCampaign`, and so do
`TreeSearchProofs`, `OptimizerSearchProofs` and `MatchMonitorProofs` with the modules of
their names. The other modules have no proofs: section 6.

## 4. Runs

| Run | Instance | Shows |
|---|---|---|
| `UciSafety` | protocol-abiding GUI, all kinds of go, infinite and ponder searches that may run out, 3 goes, 1 new game, 2 lines in the pipe, 2 positions | until a stop has released a bestmove of an earlier search (`misled`): every bestmove answers its go, told at once or saved until the stop (`AnswersTheRightGo`); the root is the go's position and main never blocks on a busy worker (`GoHandedOver`); nothing changes under the worker; statistics are of their game and complete (`StatsRight`) |
| `UciLive` | the same GUI, 4 goes, one position | a timed go is answered and a stop brings an answer whatever it finds, or the session has been `misled` (`GoesAreAnswered`); an infinite search keeps its bestmove until a stop of its own |
| `TransCache` | one window of 2 entries, generations to 2, three keys in it, one of lock 0, depths 0 and 99, a quiet score and a mate | counting and generations, and single entries (`EntriesRight`); a slot always found, and the order of eviction (`EvictionRight`); the table implements `LossyCache` |
| `TreeSearch` | four games of 35 positions together (they share some; the third has a mate in one, the fourth a mate that forcing lines see before a nearer one), depth 5, five evaluations, window 2 of 4 entries, aspiration from depth 2 with margin 4 | each return bounds the value, each store too (`ScoresAreBounds`); what is announced is the last completed depth's; windows are never empty and root moves are searched once each (`FramesFit`); a mate of either side that an entry too shallow answers with bounds the deeper search too (`ShallowMatesStand`); every search ends |
| `ChessGame` | seven positions: castlings lost and kept, en passant on an open rank, promotions among pins, batteries, two shuffles far from and near the end of the clock | the board's representations agree with one another (`BoardConsistent`); game and search lines, made and taken back, are chess (`IsChess`, refinement of `ChessRules`); the generators bring exactly the legal moves, name the checks, and the exchange evaluation agrees with playing it out (`GeneratorIsRight`); a draw is declared exactly for a repetition, the clock or dead material |
| `MoveList` | three positions (castling and captures, a check, promotion with en passant and a pin), two plies, one cutoff, killers, history and the table's move left by it | each list brings its legal moves once and leaves none out that it owes (`ListIsComplete`); losing moves come last (together `StagedListIsRight`); the board is restored and history stays in its range (`SearchLeavesUsable`) |
| `ParameterRegistry` | 3 registries, 11 files (4 good, one of them out of order; 7 bad in each way `normalize` knows), 4 values of contempt, tables or none | what a search takes from its caches is of the configuration in force (`EntriesInForce`); derived tables follow (`DerivedInForce`; together `ResultsInForce`); a file counts whole or not at all (`WholeFiles`); while a file is loaded its digest is that of the values (`LoadedIdentity`; together `FilesInForce`) |
| `TimeControl` | a game of 2 moves from 60 or 100 ms, increments 0 and 20, 0 or 2 moves to go, both stages, looks at most 20 ms apart, movetimes 2 and 40, pondering | the reserve of 60 ms loses at most an interval per move (`NeverFlags`); a forced move is quick; movetime is kept (together `TimeKept`); a go on the clock is answered though no iteration after the first need end (`MovesAreMade`) |
| `MatchMonitor` | 2 starts that may overlap, 1 stop, 1 kill of any process or crash of Fastchess, a book of 4 entries in two orders, an SPRT that is accepted | only a whole block is counted; one monitor plays (`OneMonitor`), both as long as no start was let in beside another and no stop has marked a match in progress as stopped (`Apart`); always, the directory is never stuck (`StatusUsable`; together `DirectoryUsable`); a monitor ends |
| `CandidateCampaign` | two time controls, three pre-scan modes, 2 deaths of the service, 1 of a monitor or evaluation, 1 retry | the SPRT is earned; the screening's time control is the first deep enough; the model is asked once for its answer; the campaign ends, and calls for a decision when screening and SPRT are over |
| `Campaign` | 2 blocks, 2 schedulers one after the other, 2 commands of four kinds, each of them killed anywhere | blocks are counted once, in order, by their last attempt (and so implement `BlockQueue`); after a pause or a stop every match ends, and no scheduler hangs (`NobodyWaitsInVain`); no block runs after it, and no error path leaves a match behind or a campaign owned by nobody (`NothingLeftBehind`); a dead monitor is not tried again without somebody asking |
| `OptimizerSearch` | 2 parameters of 3 and 2 values, steps 2 and 1 to 1 and 1, 4 passes, 5 evaluations, a match budget of 7 blocks, 1 or 2 blocks per candidate, levels that reject, are open and accept, exploratory, a confirmation of 2 blocks, invocations without a quota or of one result, 2 kills or failed matches, pauses and stops without limit | the store is one account: each result is decided on all the games of its trial, against one anchor, with no block left, in both budgets (`BooksRight`); the anchor moves only on games against it, and the search ends where no step leads further (`Descends`); what is confirmed and written is the last anchor, by all its games (`ConfirmsTheAnchor`); the campaign comes to its conclusion (`Concludes`) |

### Departures shown on demand

These are counterexamples TLC finds when a run's cfg is changed as the second
column says and checks the one property; they are not kept as runs.

| Property | Change | What happens, and what is written |
|---|---|---|
| `StopSendsItsOwn` (UciSession) | `UciSafety` as it is | `GoAlaric.go:56` saves the bestmove of an infinite search until the GUI sends stop, and nothing clears it then (`GoAlaric.go:42-57`): a stop that comes before the next infinite search has delivered releases the bestmove of the *earlier* one (`misled`) |
| `NoSecondGo` (UciSession) | `UciSafety` as it is; also with `Pipelined = TRUE` | `uci/uci.go:288-289` lets no second go in until the search is done. A GUI misled by such a stop writes a go that passes the test before the worker has set its status; main then waits for the worker on `chSearch` and the worker for main on `chBestmove`, for ever. With `Pipelined = TRUE` two goes in a row do the same |
| `StopIsForThisSearch` | `UciLive` with `GoKinds <- Ponder`, `Exhaustible <- None` | a stop that crosses a bestmove ends the next search instead (`search/search.go:607`) |
| `RefusedOnlyWhileSearching` (UciSession) | `UciSafety` with `GoKinds <- Timed`, `Exhaustible <- None`, `MaxGame = 0` | the worker resets its status only after it has handed bestmove over (`search/search.go:609`): a go written as soon as bestmove is read can find the status `Running`, is answered "Inte en go till innan search klar" (`uci/uci.go:289`: no other go until the search is done) and dropped for good, though the search is done |
| `NeverStuck` (OptimizerSearch) | as it is | `optimizer/README.md:445-446` says that an interruption between blocks resumes the same candidate and its next block. An optimizer killed between a candidate's last block and its evidence finds neither a next block nor a decision when it is invoked again: `adaptive.py:283` ends it with an error, this time and every time |
| `CandidateExists` (TransTable) | `TransCache` with `Depths <- Hundred` | with `go depth 100` a full window can offer no slot; the code would then use a nil pointer (`search/trans.go:158`) |
| `HitIsHeard` (TimeControl) | as it is | `search/search.go:569-570` says that ponderhit is passed on to `bPonderHit`. Its case in `HandleInput` is empty (`uci/uci.go:66`): a search begun with `go ponder` and a clock goes on pondering, past every limit it was given, until stop or its last depth |
| `ActiveIdentity` (ParameterRegistry) | as it is | `optimizer/IMPLEMENTATION-PLAN.md:252` asks for the active registry version and SHA to be kept. An empty `ParameterFile` puts the evaluation back to its defaults and keeps, and tells, the digest of the file before (`uci/uci.go:497`) |
| `OneMonitor` (MatchMonitor) | as it is | `cmd/testmonitor/main.go:435` refuses a start because the "opening block is already active". Two start commands that both read the status before either saves it (`main.go:430-438`, `508`) both pass, and both launch a monitor |
| `OneMatchAtATime` (CampaignScheduler) | `Campaign` with `MaxCommands = 0` | `optimizer/README.md:395` and `IMPLEMENTATION-PLAN.md:395` say that the scheduler runs one block at a time. One that starts after another was killed gives the running block back without ending its match (`scheduler.py:99`; only the commands end it, as does `optimization.py:706-708`) and plays it again beside the one that was left |
| `CountedIsNotReplayed` (MatchMonitor) | as it is | `optimeringar/testmonitor.md:105` says that a counted block is not started again. Of two starts that overlap, the match of one is counted while the other's monitor, which has made its own test (`main.go:563-566`), is on its way to Fastchess, and is played again |
| `DirectoryUsable` (MatchMonitor) | `MatchMonitor` with `MaxStarts = 3` (and a third set in `SeedsOf`), and the conjunct `~ overruled` of `Apart` dropped | `cmd/testmonitor/main.go:435` refuses a start because the "opening block is already active". A stop that has signalled a monitor saves the status it reads when that monitor is gone (`main.go:868-886`): meanwhile another start may have begun the next match, which is then marked stopped while it plays, and a third start is let in beside it |
| `SprtVerdictStands` (MatchMonitor) | as it is | `optimeringar/testmonitor.md:82-85` says that incomplete pairs do not fail Fastchess's SPRT decision. `main.go:1332` fails the match, as a block that is not complete |
| `TestsFailedMeansFailed` (CandidateCampaign) | as it is | `optimeringar/experiment-loop.md:107-109` says `tests_failed` of a hard test failure. A service killed in the pipeline leaves a report with some stages; `experiment.go:434-436` takes it for the result, and the campaign ends with `tests_failed` though nothing failed |

### Met while reading

In the engine: `search/contempt.go:19-24` tests the status
and then changes options, and a go may have been taken in between (excluded by a
GUI that waits for bestmove: `NoReconfiguration`); `search()` stores a score above
alpha, and a null move's, before it looks at `bStop`, while `searchRoot` looks
first, so that meaningless bounds of an aborted search stay in the table
(`TableSound` speaks of the time before the stop); `searchRoot` starts the second
search of a scout without looking at `bStop` (harmless: it returns at once, as
`AnnouncedIsTrue` shows); an empty `ParameterFile` leaves the registries of the search as
a file has set them (`DefaultParameterFile` is the evaluation's), and `SyzygyProbeDepth`
is the one option that changes what a search computes without looking at the status;
`Engine.SyzygyPath` is written and never read; a draw by the clock is declared before a
mate given by the hundredth reversible ply is looked for, which the code's comment
acknowledges; the quick scores of the root moves (`search/search.go:1505`) can exceed
the bits they are packed into when one is a mate.

In the test monitor:

* All writers of `status.json` use one temporary name (`writeJSON`), and start's second
  save and stop's request write what they read before: a status that a monitor
  has written in between is lost (`StatusUsable` says what is still true).
* Two starts that overlap and find no opening file both write one, each its own seed's
  (`writeStableFile` looks and then writes); the monitor of the loser finds a file that is
  not its block and ends without a word.
* A monitor killed between its final status and its report leaves a block that is
  complete and never counted: a start then refuses it as completed.
* A failed pre-scan leaves its profile in the cache (`main.go:696-706` keeps it before
  the match is judged). With two deaths of the service, each between starting the
  pre-scan and saving, the pre-scan is started again while the campaign goes on from
  the cached profile: it can still play when the campaign calls for a decision. So
  `DecidesWhenQuiet` speaks of the screening and the SPRT.
* A service killed between starting the screening and saving it finds the screening
  running when it comes back, fails, and the match plays on.
* Two `retry-evaluation` commands at once can both ask the model and both start the
  SPRT; nothing locks the record (`RetryGiven` keeps them apart).
* An evaluation that dies between `starting` and the SPRT's process leaves that status
  for ever (`CampaignEnds` excepts it).
* An evaluation writes the report as it read it at its start over what others have
  written since, a decision by the user included.
* The SPRT is played with `defaultSPRTTC` (`campaign.go:485`), not with the time control
  of the screening, as `optimeringar/experiment-loop.md:100-101` and
  `optimeringar/testmonitor.md:167-168` say.
* The count of attempts at the model is lost when an evaluation dies while it waits.

In the optimizer: `terminate_active_blocks` says it stops the groups "before
control status is changed" (`scheduler.py:346`), while its callers rightly move the
status first (with the other order `QuietMeansNoBlock` fails: it is a mutant of
`NothingLeftBehind`, which contains it); a pause between the loop's reading of the status and the claim
ends `run` with an error instead of a wait (`scheduler.py:116-123`; `ClaimNothing`
then `WrapUp`), and a resume after it leaves a running campaign without a
scheduler; `finish_completed_work` completes a trial from any status, past
`TRIAL_TRANSITIONS`; `run_optimization` holds the campaign lock throughout
(`optimization.py:698-775`), so that the pause and stop which
`optimizer/docs/user-guide-v1.2.1.md:714-716` tells users to give are refused as busy
(the guard `At("off")` of `Control` in `OptimizerSearch`); a match that fails in an
optimization leaves the evidence `interrupted`, on which `_normalize_terminal_result` raises,
so that every such failure ends the invocation.

### Bounds, and why they are enough

Two goes are needed for a bestmove, a stop or a board of one search to reach
another, and three for the session's longest chain: the first leaves its bestmove saved,
the second is released by a stop with it, and the third meets the worker that has not
handed the second's over. Safety is checked with three, and liveness with four, so that
another go follows the chain and one can precede it; liveness has one position and
no new game, which no one waits for. One new game separates two games. Two
lines in the pipe let a stop or a quit overtake the worker at every point; a
third line waits behind them. 1,522,264 and 208,240 states. The safety theorems hold
without these bounds; liveness is for these.

Two slots per window have a first and a second; the four of the code differ in
nothing but number, and the theorems are for any. Depths 0 and 99 are the ends of
what a search asks for. Two generations give a present, a past and a start over; three
keys on two slots make one of them go.

Depth 5 is where every rule of the search applies at least once: the null move's
reduced search needs 4, internal deepening 3, reductions depth 3 and three moves
searched before, aspiration the second depth. `AspirationDepth` (6), the margin
(15) and `LMPMoves` are parameters of the code and small here so that their
rules meet the small scores. The margins of pruning (40, 50, 100 per ply) are the
code's; the *near* evaluations (to 9 points) stay inside them, so that a search
to depth 5 completes with `plain` and its score is compared; the *far* ones
(to 135) set off beta pruning, futility, delta pruning and failing aspiration
windows. The third root has a mate with
the first move, the one score that is announced as a lower bound; in the fourth the mate
that the horizon's forcing lines find is not the nearest, so that the entries of both sides
answer a deeper search with a bound and not with its value. 42,264 states; every action fires.

Two blocks are a first, and a next that must not be taken before it. Two schedulers
are one that is interrupted or killed anywhere and one that recovers. Two commands
are a pause or stop with a resume or run after it, or the same twice; with the
crash of either, every transaction of a command falls between every two of a
scheduler. 164,748 states. The safety theorems hold without these bounds.

Two parameters are one and the next. Three values with a step of 2 halved to 1 and the
baseline in the middle give a candidate outside its range, a halving, and two
directions that can both be accepted; two values give a parameter whose other direction
leads back, to results of earlier anchors. Four passes leave room for an improvement, a
halving and a last pass that brings nothing; five evaluations or seven blocks end the
search before, at any of its points. Two blocks are an early decision, a late one, and a
block left to reject. Two faults kill an invocation and the one that recovers from it.
1,496,830 states. The theorems hold without these bounds.

The chess runs have no bound but the positions and the number of plies. A rule of
make and undo is local to one move, so a position in which it applies, two plies
(the move, an answer, both taken back in every order, and a null move at either)
and the men the rule can touch are enough; the shuffles run to 8 plies, since a
repetition is counted from the fourth position back and asks for a second return,
and start with the clock at 0 and at 96. 6,999 states, in each of which every legal
move of the position is compared. `MoveList` has two plies for a killer or a history
score to reach a list from another one, and one cutoff to leave them: 52,043 states.

Two starts and a stop are every pair of commands on one directory; what a third start
adds, a stop that marks the match after the one it meant, is the history `overruled`, and
any number of starts is the theorems'. One kill shows each process dying at each of its
steps. To keep the space small an overlap takes up the stop and the kill, and the crash of a
Fastchess that plays takes up the kill (one that cannot be started does not); the theorems
are for any number of each together. A block of one opening has its two games, and a PGN
that two attempts wrote. 1,164,046 states. For a candidate, two time controls are a first
that fails and a next; two
deaths of the service at any step let a step be half done twice; one loss and one
retry let an evaluation be taken up again at each of its steps. 821,338 states.

Five registries differ only in their number of parameters and in whether a table is
derived: the three kept are one of each kind. 5,040 states, all there are.

The clocks are at the reserve and a little above, where limits become zero and the
parts of one limit fall between two looks; at a longer clock every limit scales. Two
moves carry an increment and a used-up reserve into the next. An interval of two ticks
lets a limit be reached just after a look. Depth 2 is the first that is on the clock;
one move at the root or two tell a forced move and a later one apart. That the first
iteration takes no longer than an interval (`TimePasses`) is the one assumption about
speed: the code does not stop it before. 656,916 states. The theorems hold for all of
these.

### Fairness

`UciLive` gives weak fairness to each step of main and of the worker: the Go
scheduler runs every runnable goroutine, a search polls its flags and the clock
every 1024 nodes, and `select` takes ready cases at random, so that a ready
`Deliver` is not passed over for ever. There is none for the GUI, nor for
`FinishExhausted`: nothing promises that an unlimited search runs out.
`TreeSearch` gives it to `Step`: the search goroutine runs on; `Stop` may never
come. `Campaign` gives it to the steps of whichever scheduler runs (there is one, by the
lock) and to those of the command in progress: both are sequential programs. A
match need never end, no user need give a command, and nothing need be killed.
`MatchMonitor` gives it to each match in progress (`MatchStep`): its monitor, and its
Fastchess as long as it plays;
a Fastchess that was told to end owes nothing, nor do the commands. `CandidateCampaign`
gives it to the service (systemd starts it again), to each evaluation (a model that
does not answer is given up after a time) and to the end of a match, which
`MonitorEnds` is about.
`OptimizerSearch` gives it to the optimizer, a sequential program whose matches end (a
monitor has its own end: `MonitorEnds`), and to `Invoke`: `Concludes` speaks of a
campaign that its user invokes again after each end, as quotas and failed matches
require; kills and failures are two, commands come as they like.
`TimeControl` gives it to the looks at the clock, to time itself, to the answer and to the
steps of the first iteration; no later iteration need end, nor need any move be searched.
`CHECK_DEADLOCK FALSE` stands in `UciSafety.cfg` and `UciLive.cfg`, where main and worker
can wait on each other once a stop has misled the GUI, and until then do not
(`GoHandedOver`, `GoesAreAnswered`); in `TimeControl.cfg`, whose time and moves run out, in
`TreeSearch.cfg` and `MoveList.cfg`, whose searches
end, in `ChessGame.cfg`, whose plies run out, and in `MatchMonitor.cfg`,
`CandidateCampaign.cfg`, `Campaign.cfg` and `OptimizerSearch.cfg`, where commands,
starts and work run out. The parameters and the table never stop.

## 5. Proofs

All with TLAPS, for every value of the constants within the named assumptions.

**Session.** `TypeCorrect` assumes nothing of the GUI. The others assume
`FollowsProtocol`, that the GUI waits for its bestmove, and nothing about the kinds of its
goes; they speak of the time before a stop has released an earlier search's bestmove
(`misled`). Without either condition the runs above find counterexamples.
None of the properties is inductive by itself: that the root is the go's
position depends on what is in the pipe, and that a stop releases the right bestmove on
when it was saved. `IInv` therefore says that
from a go's acceptance to its bestmove (`Computing`), or in infinite mode to the stop that
releases it (`Engaged`), only interrupts are on
their way and the GUI waits for that very go (`EngagedForPending`); that what is saved is of
an earlier search until the present one has delivered, and then of the present one
(`SavedInItsTurn`); that a go
on its way has only interrupts behind it (`GoOnItsWay`); that goes are accepted
and told in the order of their numbers (`Numbering`); that the status says
where the worker is (`StatusMeans`); and that the hits held are of the present
game and will have their line (`StatsKept`). `Inductive` proves it, one step per
action, in two halves (session, statistics); `Safety` (`GoHandedOver`), `StatsAreRight`
(`StatsRight`), `RightAnswers` and `Undisturbed` follow from it.

**Table.** `TableCorrect`: `TypeOK` and `GenerationsRight` (`NoFutureDate` and
`UsedCountsCurrent`) together are inductive (`TableInv`), the count by cases on whether a write makes
a slot current. `OneEntryEach` needs to know where an entry may lie: in a slot that some
key of its lock tries (`Placed`), with no empty slot in use (`EmptyUnlocked`); the two
are `EntriesAreRight`. `VictimExists` and `EvictionOrder`, together `EvictionIsRight`, add
that depths stay in -1..99 (`DepthsFit`, `DepthInv`), an assumption without which
`CandidateExists` fails (section 4).
`Refinement` maps each step of `TransLog` to one of `LossyCache`, with the
merge as the hard case: the merged entry's depth, score and bound are of one
store, only its move may be of the other.

**Search.** For any game (`PositionAssumption`), evaluations (`EvalsAssumption`), depths,
margins and reductions (`LimitsAssumption`) and any table, with a stop at any step; the
window of two slots is the model's. The proof is in two parts.

The first is about `Value` alone. It is a recursive function over a graph that is layered
by plies and ends at `MaxPly`, so facts about it are by induction on the plies that are
left, written out as a least counterexample (`FirstIn`). `ValueEquation`: the
function exists and is its own minimax. `ValueRight`: each value lies between the mates
possible at its ply (`Reach`) and is the best of its options or one of the ends.
`MatesAreKept`: what is a mate at a depth is at least as near a mate at every greater one,
for the horizon's quiescence too; this is what makes a `Retrieve` sound that answers with a mate from a
shallower entry.

The second is about the machine. That a return bounds its node's value is not inductive:
it depends on every frame below and on the table. `IInv` says three things. Each
frame (`FrameOK`) has its types, ranges and an open window (`Shape`); as long as no stop
has come its best score is one its node can have (`Possible`: after a stop a null move's
score, or that of a broken child, is taken as it is); and as long as nothing has departed
from minimax (`Faithful`), its best score is reached by the node and every move is still to
come, under way, or no better. Each frame serves the call that the frame below waits for
(`Serves`), the lowest one the root's, with only beta lowered to the nearest mate; and a
score on its way (`AnswerOK`) bounds the value of the call it answers. Each slot in use
(`EntryOK`) is of a node, with a move of it and a score that bounds its value at its depth,
once it is turned back into mates from the root; and the root (`RootOK`) has the same of its
pass, and of the last completed depth (`CompletedOK`). What `Retrieve` answers from a
shallower entry is sound for the deeper question by `EntryOK` and `MatesAreKept` together
(`ShallowAnswer`), so that `ShallowMatesHold` (`ShallowMatesStand`) follows.
`Invariance` proves it, one lemma per action over three
lemmas for the ways to leave a frame (`GotoKeeps`, `CallKeeps`, `ReturnKeeps`) and one for
a store. `FramesAlwaysFit` (`FramesFit`: types, open windows, each root move once) and
`AnnouncementIsTrue` (`AnnouncedIsTrue`) follow, and `ScoresBound` (`ScoresAreBounds`) from the
invariant on both sides of a step.

**Campaign.** For any number of blocks, schedulers and commands, crashes included.
The properties of the rows do not preserve themselves: that a commit is of the
last attempt needs that the committing scheduler still holds that attempt
(`HoldsAttempt`), which needs that there is one scheduler (`OneScheduler`, by the
lock), since two would claim in turn; that the rows stay in order needs that only
the block at the checkpoint can be running (`InOrder`); that no match is left
needs that a scheduler which goes on without a signal knows its match to have
ended (`MatchInv`); and what a pause or a stop leaves behind needs what remains of
the command's program (`CommandOK`: a move follows the reading of the status, and
pause and stop end with the recovery). `IInv` is the conjunction; `Inductive`
proves it, one lemma per part and one step per action. `TypeCorrect`,
`CountedOnce` and `LeavesNothing` follow from it, and `Refinement` maps each
step to one of `BlockQueue` or a stutter. `AttemptsArePaidFor` (`AttemptsAccounted`) is a
balance of claims: the attempts made, those that may still come without another start or
command (`Spare`: a scheduler that may claim, blocks not yet tried, a pause that has yet to
give its block back) and no more are what starts and commands have paid for
(`Budget`); each step must show that what it makes possible it has paid for, and a pause
is counted before it reads the status, since the claim it provokes comes after
(`PauseFirst`).

**Match.** For any book, seeds, results and number of starts, stops and kills. Three
processes without a lock leave nothing that is invariant by itself, so `IInv` is in two
layers. `StarterInv`, `PidInv` and `MonitorInv` hold always: a monitor's number is given
once, a status that says running or stopping has a process number, and what a monitor
knows fits where it is. That only one monitor plays (`AloneInv`), that the games it has
seen are in the PGN (`PlayedInv`) and that a whole block stays whole once a monitor has
called it complete (`CompleteInv`) hold as long as no start was let in beside another and
no stop has marked a match in progress
(`Apart`): `CompleteInv` needs that a start which has passed its test is
seen by nobody as complete, `AloneInv` that it is the only one at work and that the status of
the occupying monitor stays active, which only that mark undoes. The first layer holds
whatever overlaps, and with it `StatusUsable`. `Invariance` proves it, one lemma per action;
`CountedBlocksAreWhole` (`CountedIsWhole`) and `DirectoryIsUsable` (`DirectoryUsable`) follow.

**Candidate.** For any ladder of time controls, any number of deaths, losses and
retries. Four parts of `IInv` carry the order of things. `TestedInv`: once the gate is
reached, or a match or evaluation exists, the report is one of passed stages, and so is
every copy of it that an evaluation will write back. `LateInv`: a campaign whose
screening has been launched *and saved* is only polled, so that the screening is not
started again. `EvalInv` needs that: an evaluation at work finds the screening as it was, and
no second one is at work beside it. Then `RecordInv` can say that what an evaluation
knows of the model's answer is what the record says, except between the answer and its
saving. `Earned` and `AskedOnce` follow. `GateInv` is about the ladder: every copy of the
campaign (the file's, the service's) knows only depths that were measured at its own
place, and one too shallow at each place before; a death takes the service back to an
older copy, of which the same is true. `FirstDeepTimeControl` follows, and
`DecidesQuietly` from `LateInv`.

**Parameters.** For any registries, files and options. `DerivedInForce`, `EntriesInForce`
and that no node is open between searches are inductive together (`IInv`): a command
that changes what is read finds no node open and empties what was stored, and the
commands that may come during a search only empty. `OneConfiguration`
follows.

`FilesInForce` is inductive with the domain of `parms` (`FilesInv`); its proof is about
`normalize`. The code counts the pairs and refuses duplicates and unknown names, and its
last loop, over missing names, can then find nothing: `EveryNameGiven` shows that as many
different names as the registry has are all of its names, an injection of a finite set
into itself. So the normal file has each value under its name, in order (`NormalIs`), to
normalize it again, as `ApplyParameterFile` does, moves nothing (`OrderStays`), and its values
are on their grids (`NormalizesIsComplete`). Assumed are that a registry names each
parameter once (`DescriptorAssumption`; the arrays are literals) and that a file has the
fields and types of its JSON structures (`FileAssumption`; the decoder refuses any
other); the registries, the number of pairs and their order and values are arbitrary.
`FilesAreRight` follows.

**Board.** For any set of legal starting positions (`StartsAssumption`), any lanes, any
number of plies: 64 squares, their tables and every line of moves and null moves. That the
representations agree (`BoardConsistent`) is not inductive: it stays so only if each
generated move has its man and its capture on the board, does not take a king, and
keeps the flags true. The invariant of a board, `Good`, therefore says that the
sets, the squares, the counts and the king squares say the same (`Sound`), the keys are of
this position, castling rights have their king and rook at home, the en passant square is
of a pawn that has just passed, pawns are off the outer rows, and the side that
has moved is not in check. `GeneratedOk` shows for each generator (pawns, pieces,
castlings, evasions, checks) that what it brings fits such a board (`Fits`), `MoveGood`
and `NullGood` that a fitting legal move, or a null move out of check, gives such a board
again, `FenGood` the same of `SetFen`, by induction over the squares it has set.

Taking back is not about one board: the records of `stack` are used long after they were
written. `GameInv` says of each board of the line that it is good, that each follows from
the one before by a move or a null move, and that the records that `Undo` will use are those that this step wrote; so `UndoMove` and `UndoOfNull` give back
exactly the board that was left. `BoardStaysConsistent` (`BoardConsistent`) and
`MovesAreTakenBack` follow.

That the game is chess (`TheGameIsChess`, `IsChess`) is the refinement of `ChessRules`, step
by step, for any set of legal starting positions. The rules go by files and
ranks, the code by a 16 x 8 board, tables of lines and sets of squares in
between; `GoIs` and `StridesAre` put the two side by side for one step, `LineHits` for k
steps along a free line, and `PieceHits` and `PawnHits` conclude that a man hits the same squares
by both, so that `AttackedIs` and `CheckedIs` hold of every good board. `MoveIn` shows that
whatever a generator brings is a move of the rules (`PawnTargets`, `PieceTargets`,
`CastlingIn`: the way free, the king neither in check nor through it), and `AfterIs` that
the board after it is the rules' position after it: the men (`MenAfterIs`, with the rook of a
castling and the pawn taken in passing), the castling rights, the clock, and the en passant
square, which is set only when a pawn may take there (`MayTake`). `PlayIs` adds legality; a
null move is a pass (`PassIs`); marking the root changes nothing that the rules see; and a move
back is the one that the past of `GameInv` records. The other direction, that no legal move is
missed, is `GeneratorIsRight`.

**Time.** For any clocks of at least 60 ms at the start (`StartsAboveReserve`), increments,
moves to go, interval and number of moves. `BudgetBelow` is the arithmetic: the three limits are in
order and end 60 ms below the clock, or are zero. That no limit is passed by more than
an interval is not inductive: `SeenInTime` says that a search which goes on had time
left when it last looked, and for that to hold from the second iteration on
`NothingDropped` is needed: the end of the first iteration is a look of its own, which
a drop would have switched off. `KeepsTime` follows.

**Optimizer.** For any parameters, steps, budgets, levels, quotas and number of faults.
That the confirmation is of the last anchor is not inductive: a search step could
move the anchor after it was created. `IInv` therefore says that where the process is and
the phase of the search agree (`Phases`: candidates are evaluated before the search is
completed and confirmed after); that a confirmation, once there, is of the anchor of a
completed search (`OfTheAnchor`); that an invocation which is stopping the search, which
may overwrite one that settling has just completed, has no confirmation yet (`Stopping`);
which blocks are there when one is claimed (`BlocksFit`); and what a completed confirmation
and a written file imply (`Completed`, `FileFits`). `SearchInvariant` proves it,
`SearchAtRest` that no step changes the search once there is a confirmation, and
`ConfirmationIsRight` follows.

The store's account has an invariant of its own, `BookInv`. `BooksRight` says what the rows
of completed trials look like; that it stays so depends on where the process may be
killed between two transactions. `RowsFit` is about one row: blocks are played in order,
a decision is on all of them, at the level reached and against one parameter set.
`OneOpen`: only the trial the search is at can be open, and its games so far are against
the present anchor, which therefore cannot move under them. `Places` says at each place of
the evaluation what is known of that trial (at `"judge"`, that no block is running; at
`"store"`, that the games suffice for a decision; at `"record"`, that the decision is in the
store), and `RunningInv` where a block marked running can be found. `Booked` equates the
counter with the completed trials; `BudgetInv` makes the budget of blocks inductive: a
candidate is begun only when the worst it can cost is left, and what it has played
is part of that worst case. `BooksAreRight` follows.

`Descends` needs two facts about a pass. `WinsInv`: a stored win is one of a neighbour that
beats the present anchor, not an earlier one, since every move clears both results.
`AskedInv`: as long as a pass has brought nothing, each neighbour behind it was asked and
has not beaten the anchor, so that when such a pass ends with all steps at their least
the anchor is a local optimum. That a step taken only moves to such a win (`Climbs`) is
proved along with them, and `SearchDescends` follows.

## 6. What is only model-checked

Liveness (`UciLive`, `Termination`, `NobodyWaitsInVain`, `MonitorEnds`,
`CampaignEnds`, `MovesAreMade`, `Concludes`). Of the chess modules: that a
generator misses no legal move and names the checks, and the exchange evaluation
(`GeneratorIsRight`), both about every ray and pin of 64 squares, where enumeration says
more than a prover; `DrawsAreTrue`; and the staged lists (`StagedListIsRight`,
`SearchLeavesUsable`), which rest on the former.
Of `EndsWhenQuiet` the half that is a safety property, `DecidesWhenQuiet`, is proved.

## 7. What is not modelled

The evaluation is data: a pure function whose arithmetic a model would only repeat,
with nothing to compare it to. Tablebases are calls into vendored C. Offline tuning
runs alone. The entry points and views (`cli.py`, `dashboard.py`, the printing and
following commands of the monitor) keep no state.

Of modelled components: the undo stack's limit of 1024, two positions with one hash
key, and two keys with one lock and index are outside the models; what a stage of
the pipeline runs, the identities of binaries, the change policy and the statistics
of tablebases are not part of `CandidateCampaign` and `MatchMonitor`.
