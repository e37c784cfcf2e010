---------------------------- MODULE MatchMonitor ----------------------------
(***************************************************************************)
(* One run directory of the test monitor (cmd/testmonitor/main.go): the    *)
(* start command prepares it and launches a monitor, a process of its own  *)
(* that plays a Fastchess match; the stop command ends it from another     *)
(* terminal.  Start commands may overlap.  Nobody holds a lock: they all   *)
(* meet in the files of the directory and in the monitors' process         *)
(* numbers.  Any of them can be killed between two of its steps;           *)
(* Fastchess is a process group of its own and outlives its monitor.       *)
(***************************************************************************)
EXTENDS OpeningBlocks

CONSTANTS
  Results,     \* how matches come out
  SeedsOf,     \* the seeds that each start command may be given
  MaxStarts,   \* start commands ever given
  MaxStops,    \* stop commands ever given
  MaxKills     \* processes ever killed and Fastchesses that crash; a start that is
               \* let in beside another counts as a stop and a kill

\* An SPRT comes out by its bounds, if they are reached before the last game,
\* another match by a score of 47 percent.
SprtResults  == {"accepted_h1", "rejected_h0", "inconclusive_at_game_limit"}
ScoreResults == {"passed_screening", "rejected_below_47_percent"}

ASSUME ResultsAssumption == Results \subseteq SprtResults \cup ScoreResults
\* The monitor that the start command number m launches has process number m.
Starts   == 1..MaxStarts
Monitors == Starts
NoPid    == 0

ASSUME BoundsAssumption ==
  /\ SeedsOf \in [Starts -> SUBSET Seeds]
  /\ MaxStarts \in Nat /\ MaxStops \in Nat /\ MaxKills \in Nat

VARIABLES
  status, report,   \* status.json and block-report.json
  block, pgn,       \* the opening file and games.pgn
  mon,              \* the monitors
  starter, stopper, \* the start commands, by number, and the stop command
  starts, stops, kills,
  counted,          \* history: the report has called the block counted
  overruled,        \* history: a match in progress has been marked stopped
  overlapped        \* history: a start was let in beside another one

files  == <<status, report, block, pgn>>
bounds == <<starts, stops, kills>>
ghosts == <<counted, overruled, overlapped>>
vars   == <<files, mon, starter, stopper, bounds, ghosts>>

\* audited: the audit that the status carries found every opening with both colours.
NoFile   == [state |-> "none", pid |-> NoPid, games |-> 0, decision |-> "none",
             audited |-> FALSE]
NoReport == [state |-> "none", counted |-> FALSE]
NoBlock  == <<>>

Terminal == {"completed", "failed", "stopped"}   \* terminalMatchState

Unborn == [pc |-> "none", seed |-> 0, st |-> NoFile, sig |-> FALSE, stopped |-> FALSE,
           fc |-> "none", book |-> NoBlock, played |-> {}, seen |-> 0, result |-> "none"]

NoStart == [pc |-> "idle", st |-> NoFile]
NoStop  == [pc |-> "idle", st |-> NoFile]

\* processExists
Alive(pid) == pid \in Monitors /\ mon[pid].pc \notin {"none", "gone"}

\* initialStatus
InitialStatus == [NoFile EXCEPT !.state = "starting"]

Init ==
  /\ status = NoFile /\ report = NoReport /\ block = NoBlock /\ pgn = EmptyPGN
  /\ mon = [m \in Monitors |-> Unborn]
  /\ starter = [s \in Starts |-> NoStart] /\ stopper = NoStop
  /\ starts = 0 /\ stops = 0 /\ kills = 0
  /\ counted = FALSE /\ overruled = FALSE /\ overlapped = FALSE

-----------------------------------------------------------------------------
(* What is written.                                                        *)

\* Mutant: the status alone decides.
BlockCompleteByStatus(st) == st.state = "completed"

\* openingBlockComplete asks the audit that was made when Fastchess was gone.
BlockComplete(st) ==
  st.state = "completed" /\ st.games = TargetGames /\ st.audited

AuditsWhole(p) ==
  LET a == Audit(p)
  IN a.games = TargetGames /\ a.unique = BlockSize /\ a.wrongSize = 0

\* openingBlockReportFor
ReportFor(st) ==
  CASE st.state = "completed" ->
         IF BlockComplete(st) THEN [state |-> "completed", counted |-> TRUE]
         ELSE [state |-> "invalid", counted |-> FALSE]
    [] st.state = "stopped" -> [state |-> "interrupted", counted |-> FALSE]
    [] st.state = "failed"  -> [state |-> "invalid", counted |-> FALSE]
    [] OTHER                -> [state |-> "running", counted |-> FALSE]

WriteReport(st) ==
  /\ report' = ReportFor(st)
  /\ counted' = (counted \/ report'.counted)

\* matchDecision
MatchDecision(m) ==
  LET a == Audit(pgn)
  IN CASE a.unique < BlockSize -> "invalid_insufficient_openings"
       [] mon[m].result \in ScoreResults /\ a.unique >= BlockSize /\ a.wrongSize # 0
               -> "invalid_unpaired_openings"
       [] OTHER -> mon[m].result

\* The end of runMatchCommand, after Fastchess is gone.
FinalStatus(m) ==
  LET st == [mon[m].st EXCEPT !.audited = AuditsWhole(pgn)]
      done == [st EXCEPT !.state = "completed", !.decision = MatchDecision(m)]
  IN IF mon[m].stopped
     THEN [st EXCEPT !.state = "stopped", !.decision = "stopped_by_user"]
     ELSE IF mon[m].fc # "over" \/ Audit(pgn).games = 0
     THEN [st EXCEPT !.state = "failed"]
     ELSE IF BlockComplete(done) THEN done
     ELSE [done EXCEPT !.state = "failed", !.decision = "invalid_incomplete_block"]

-----------------------------------------------------------------------------
(* The start command.                                                      *)

StartAt(s, pc) == starter[s].pc = pc

Starting(s) == ~ StartAt(s, "idle")

\* Start command s has gone on to st.
StarterTo(s, st) == starter' = [starter EXCEPT ![s] = st]

\* Mutant: nothing is asked of an earlier start.
RefusesNothing == FALSE

Refuses == status.state \in {"running", "stopping"}

LetIn == ~ report.counted /\ status.state # "completed" /\ ~ Refuses

\* Another start command is at work, or its monitor has not yet said that it runs.
Beside ==
  \/ \E s \in Starts : Starting(s)
  \/ status.state = "starting" /\ \E m \in Monitors : Alive(m)

\* Between this test and the first save nothing is locked.
StartGiven ==
  /\ starts < MaxStarts
  /\ starts' = starts + 1
  /\ IF LetIn THEN StarterTo(starts', [pc |-> "block", st |-> InitialStatus])
               ELSE UNCHANGED starter
  /\ IF LetIn /\ Beside
     THEN /\ stops < MaxStops /\ stops' = stops + 1
          /\ kills < MaxKills /\ kills' = kills + 1
          /\ overlapped' = TRUE
     ELSE UNCHANGED <<stops, kills, overlapped>>
  /\ UNCHANGED <<files, mon, stopper, counted, overruled>>

\* prepareOpeningBlock: a file that is there already has to be the same,
PrepareBlock(s) ==
  /\ StartAt(s, "block")
  /\ \E seed \in SeedsOf[s] :
       IF block \in {NoBlock, SelectBlock(seed)}
       THEN /\ StarterTo(s, [starter[s] EXCEPT
                               !.pc = IF block = NoBlock THEN "write" ELSE "save"])
            /\ mon' = [mon EXCEPT ![s].seed = seed]
       ELSE StarterTo(s, NoStart) /\ UNCHANGED mon
  /\ UNCHANGED <<files, stopper, bounds, ghosts>>

\* and one that was not there is written, whatever another start has written meanwhile.
WriteBlock(s) ==
  /\ StartAt(s, "write")
  /\ block' = SelectBlock(mon[s].seed)
  /\ StarterTo(s, [starter[s] EXCEPT !.pc = "save"])
  /\ UNCHANGED <<status, report, pgn, mon, stopper, bounds, ghosts>>

SaveStarting(s) ==
  /\ StartAt(s, "save")
  /\ status' = starter[s].st
  /\ StarterTo(s, [starter[s] EXCEPT !.pc = "report"])
  /\ UNCHANGED <<report, block, pgn, mon, stopper, bounds, ghosts>>

ReportStarting(s) ==
  /\ StartAt(s, "report")
  /\ WriteReport(starter[s].st)
  /\ StarterTo(s, [starter[s] EXCEPT !.pc = "spawn"])
  /\ UNCHANGED <<status, block, pgn, mon, stopper, bounds, overruled, overlapped>>

Spawn(s) ==
  /\ StartAt(s, "spawn")
  /\ mon' = [mon EXCEPT ![s].pc = "boot"]
  /\ StarterTo(s, [starter[s] EXCEPT !.pc = "load"])
  /\ UNCHANGED <<files, stopper, bounds, ghosts>>

SpawnFails(s) ==
  /\ StartAt(s, "spawn")
  /\ status' = [starter[s].st EXCEPT !.state = "failed"]
  /\ WriteReport(status')
  /\ StarterTo(s, NoStart)
  /\ UNCHANGED <<block, pgn, mon, stopper, bounds, overruled, overlapped>>

\* The status is read again,
LoadLatest(s) ==
  /\ StartAt(s, "load")
  /\ StarterTo(s, IF status.state \in Terminal THEN NoStart
                  ELSE [pc |-> "pid", st |-> [status EXCEPT !.pid = s]])
  /\ UNCHANGED <<files, mon, stopper, bounds, ghosts>>

\* and written with the monitor's number, whatever was written in between.
SavePid(s) ==
  /\ StartAt(s, "pid")
  /\ status' = starter[s].st
  /\ StarterTo(s, NoStart)
  /\ UNCHANGED <<report, block, pgn, mon, stopper, bounds, ghosts>>

StartStep(s) == \/ PrepareBlock(s) \/ WriteBlock(s) \/ SaveStarting(s) \/ ReportStarting(s)
                \/ Spawn(s) \/ SpawnFails(s) \/ LoadLatest(s) \/ SavePid(s)

-----------------------------------------------------------------------------
(* The monitor.                                                            *)

At(m, pc) == mon[m].pc = pc

Goto(m, pc) == mon' = [mon EXCEPT ![m].pc = pc]

\* Of a monitor that is gone its Fastchess may be left.
Dead(r) == IF r.fc \in {"playing", "told"}
           THEN [Unborn EXCEPT !.pc = "gone", !.fc = r.fc, !.book = r.book,
                               !.played = r.played]
           ELSE [Unborn EXCEPT !.pc = "gone"]
Goes(m) == mon' = [mon EXCEPT ![m] = Dead(@)]

RunningStatus(m) == [InitialStatus EXCEPT !.state = "running", !.pid = m]

\* runMatchCommand up to the first save; a block that is counted, a file that
\* is not the seed's block and a binary that cannot be read end it silently.
Boot(m) ==
  /\ At(m, "boot")
  /\ ~ report.counted /\ block = SelectBlock(mon[m].seed)
  /\ mon' = [mon EXCEPT ![m].pc = "report",
                        ![m].st = RunningStatus(m)]
  /\ status' = mon'[m].st
  /\ UNCHANGED <<report, block, pgn, starter, stopper, bounds, ghosts>>

BootFails(m) ==
  /\ At(m, "boot") /\ Goes(m)
  /\ UNCHANGED <<files, starter, stopper, bounds, ghosts>>

ReportRunning(m) ==
  /\ At(m, "report")
  /\ WriteReport(mon[m].st)
  /\ Goto(m, "launch")
  /\ UNCHANGED <<status, block, pgn, starter, stopper, bounds, overruled, overlapped>>

\* Fastchess empties games.pgn and reads the block; one that cannot be started has failed.
Launch(m) ==
  /\ At(m, "launch")
  /\ \/ /\ mon' = [mon EXCEPT ![m].pc = "playing", ![m].fc = "playing", ![m].book = block]
        /\ pgn' = EmptyPGN
     \/ mon' = [mon EXCEPT ![m].pc = "finish", ![m].fc = "failed"] /\ UNCHANGED pgn
  /\ UNCHANGED <<status, report, block, starter, stopper, bounds, ghosts>>

NewLine(m) == mon[m].seen < Cardinality(mon[m].played)

\* Its output comes through a pipe; every line with a score is saved.
ParseLine(m) ==
  /\ Alive(m) /\ mon[m].fc # "none" /\ NewLine(m)
  /\ mon' = [mon EXCEPT ![m].seen = @ + 1, ![m].st.games = mon[m].seen + 1]
  /\ status' = mon'[m].st
  /\ UNCHANGED <<report, block, pgn, starter, stopper, bounds, ghosts>>

\* cmd.Wait returns when Fastchess is gone and its output read.
Exited(m) ==
  /\ mon[m].pc \in {"playing", "dying"}
  /\ mon[m].fc \in {"over", "failed"} /\ mon[m].seen = Cardinality(mon[m].played)
  /\ mon' = [mon EXCEPT ![m].pc = "finish", ![m].book = NoBlock, ![m].played = {}, ![m].seen = 0]
  /\ UNCHANGED <<files, starter, stopper, bounds, ghosts>>

Signalled(m) ==
  /\ At(m, "playing") /\ mon[m].sig
  /\ mon' = [mon EXCEPT ![m].pc = "dying", ![m].stopped = TRUE, ![m].st.state = "stopping",
                        ![m].fc = IF @ = "playing" THEN "told" ELSE @]
  /\ status' = mon'[m].st
  /\ UNCHANGED <<report, block, pgn, starter, stopper, bounds, ghosts>>

\* Mutant: Fastchess is only asked to end.
NeverHard(m) == FALSE

\* Ten seconds later; a Fastchess that was told to end may not have.
GraceOver(m) == At(m, "dying") /\ mon[m].fc = "told"

HardKill(m) ==
  /\ GraceOver(m)
  /\ mon' = [mon EXCEPT ![m].fc = "failed"]
  /\ UNCHANGED <<files, starter, stopper, bounds, ghosts>>

Finish(m) ==
  /\ At(m, "finish")
  /\ mon' = [mon EXCEPT ![m].pc = "file", ![m].st = FinalStatus(m)]
  /\ status' = mon'[m].st
  /\ UNCHANGED <<report, block, pgn, starter, stopper, bounds, ghosts>>

File(m) ==
  /\ At(m, "file")
  /\ WriteReport(mon[m].st)
  /\ Goes(m)
  /\ UNCHANGED <<status, block, pgn, starter, stopper, bounds, overruled, overlapped>>

MonitorStep(m) ==
  \/ Boot(m) \/ BootFails(m) \/ ReportRunning(m) \/ Launch(m) \/ ParseLine(m)
  \/ Exited(m) \/ Signalled(m) \/ HardKill(m) \/ Finish(m) \/ File(m)

-----------------------------------------------------------------------------
(* Fastchess.                                                              *)

\* The games of the block end in any order.
GameEnds(m) ==
  \E g \in Games(mon[m].book) \ mon[m].played :
    /\ Alive(m) /\ mon[m].fc = "playing"
    /\ pgn' = [pgn EXCEPT ![g] = @ + 1]
    /\ mon' = [mon EXCEPT ![m].played = @ \cup {g}]
    /\ UNCHANGED <<status, report, block, starter, stopper, bounds, ghosts>>

\* An SPRT may be decided before its last game.
MatchOver(m) ==
  \E r \in Results :
    /\ Alive(m) /\ mon[m].fc = "playing" /\ mon[m].played # {}
    /\ mon[m].played = Games(mon[m].book) \/ r \in {"accepted_h1", "rejected_h0"}
    /\ mon' = [mon EXCEPT ![m].fc = "over", ![m].result = r]
    /\ UNCHANGED <<files, starter, stopper, bounds, ghosts>>

\* It ends when it is told to, or crashes.
FastchessFails(m) ==
  /\ Alive(m)
  /\ \/ mon[m].fc = "told" /\ UNCHANGED kills
     \/ mon[m].fc = "playing" /\ kills < MaxKills /\ kills' = kills + 1
  /\ mon' = [mon EXCEPT ![m].fc = "failed"]
  /\ UNCHANGED <<files, starter, stopper, starts, stops, ghosts>>

\* Without its monitor it may still finish a game, and ends when it prints.
OrphanEnds(m) ==
  /\ At(m, "gone") /\ mon[m].fc \in {"playing", "told"}
  /\ mon' = [mon EXCEPT ![m].fc = "none", ![m].book = NoBlock, ![m].played = {}]
  /\ \/ UNCHANGED pgn
     \/ \E g \in Games(mon[m].book) \ mon[m].played : pgn' = [pgn EXCEPT ![g] = @ + 1]
  /\ UNCHANGED <<status, report, block, starter, stopper, bounds, ghosts>>

-----------------------------------------------------------------------------
(* The stop command.                                                       *)

StopAt(pc) == stopper.pc = pc

StoppedCopy(st) == [st EXCEPT !.state = "stopped", !.decision = "stopped_by_user"]

\* It reads the status and looks for the process.
StopGiven ==
  /\ StopAt("idle") /\ stops < MaxStops /\ status # NoFile
  /\ stops' = stops + 1
  /\ stopper' =
       IF status.state \in Terminal \/ status.pid = NoPid THEN NoStop
       ELSE [pc |-> IF Alive(status.pid) THEN "request" ELSE "mark", st |-> status]
  /\ UNCHANGED <<files, mon, starter, starts, kills, ghosts>>

\* What it writes is what it has read, with another state.
Request ==
  /\ StopAt("request")
  /\ status' = [stopper.st EXCEPT !.state = "stopping"]
  /\ stopper' = [stopper EXCEPT !.pc = "signal"]
  /\ UNCHANGED <<report, block, pgn, mon, starter, bounds, ghosts>>

\* SIGTERM: deadly until runMatchCommand asks for signals, noted after that.
Signal ==
  /\ StopAt("signal")
  /\ LET pid == stopper.st.pid
     IN mon' = IF ~ Alive(pid) THEN mon
               ELSE IF mon[pid].pc \in {"boot", "report"}
               THEN [mon EXCEPT ![pid] = Dead(@)]
               ELSE [mon EXCEPT ![pid].sig = TRUE]
  /\ stopper' = [pc |-> "await", st |-> [NoFile EXCEPT !.pid = stopper.st.pid]]
  /\ UNCHANGED <<files, starter, bounds, ghosts>>

\* Every 200 ms the status is read and the process looked for.
Await ==
  /\ StopAt("await")
  /\ \/ status.state \in Terminal /\ stopper' = NoStop
     \/ /\ status.state \notin Terminal /\ ~ Alive(stopper.st.pid)
        /\ stopper' = [pc |-> "mark", st |-> status]
  /\ UNCHANGED <<files, mon, starter, bounds, ghosts>>

Deadline ==
  /\ StopAt("await") /\ stopper' = NoStop
  /\ UNCHANGED <<files, mon, starter, bounds, ghosts>>

\* The monitor is gone and has not written its end.
MarkStopped ==
  /\ StopAt("mark")
  /\ status' = StoppedCopy(stopper.st)
  /\ stopper' = [pc |-> "report", st |-> status']
  /\ overruled' = (overruled \/ \E m \in Monitors : Starting(m) \/ Alive(m))
  /\ UNCHANGED <<report, block, pgn, mon, starter, bounds, counted, overlapped>>

ReportStopped ==
  /\ StopAt("report")
  /\ WriteReport(stopper.st)
  /\ stopper' = NoStop
  /\ UNCHANGED <<status, block, pgn, mon, starter, bounds, overruled, overlapped>>

StopStep == \/ Request \/ Signal \/ Await \/ Deadline \/ MarkStopped \/ ReportStopped

-----------------------------------------------------------------------------
Kill ==
  /\ kills < MaxKills /\ kills' = kills + 1
  /\ \/ /\ \E m \in Monitors : Alive(m) /\ Goes(m)
        /\ UNCHANGED <<starter, stopper>>
     \/ /\ \E s \in Starts : Starting(s) /\ StarterTo(s, NoStart)
        /\ UNCHANGED <<mon, stopper>>
     \/ ~ StopAt("idle") /\ stopper' = NoStop /\ UNCHANGED <<mon, starter>>
  /\ UNCHANGED <<files, starts, stops, ghosts>>

Next ==
  \/ StartGiven \/ StopGiven \/ StopStep \/ Kill
  \/ \E s \in Starts : StartStep(s)
  \/ \E m \in Monitors :
       MonitorStep(m) \/ GameEnds(m) \/ MatchOver(m) \/ FastchessFails(m) \/ OrphanEnds(m)

Spec == Init /\ [][Next]_vars

MatchStep(m) == \/ GameEnds(m) \/ MatchOver(m) \/ ParseLine(m) \/ Exited(m)
                \/ Signalled(m) \/ HardKill(m)

\* A match in progress goes on: its monitor or its Fastchess.  Fastchess need not heed
\* SIGTERM, and nothing is asked of the commands.
Fairness == \A m \in Monitors : WF_vars(MatchStep(m))

FairSpec == Spec /\ Fairness

-----------------------------------------------------------------------------
(* Properties.                                                             *)

\* The processes and the files are what they can be.
TypeOK ==
  /\ status.state \in Terminal \cup {"none", "starting", "running", "stopping"}
  /\ status.pid \in Monitors \cup {NoPid} /\ status.games \in 0..TargetGames
  /\ report.state \in {"none", "running", "completed", "invalid", "interrupted"}
  /\ block \in {NoBlock} \cup {SelectBlock(s) : s \in Seeds}
  /\ \A m \in Monitors :
       /\ mon[m].pc \in {"none", "boot", "report", "launch", "playing", "dying",
                         "finish", "file", "gone"}
       /\ mon[m].fc \in {"none", "playing", "told", "over", "failed"}
       /\ mon[m].seen <= Cardinality(mon[m].played)

\* No start was let in beside another, and no stop has marked a match in progress as
\* stopped, over the status it began with (main.go:808).
Apart == ~ overruled /\ ~ overlapped

\* A block is counted only when its file of games holds every opening with both
\* colours, whatever was killed, stopped and started again, and although a
\* Fastchess that lost its monitor can still write to that file.  Starts that
\* overlap, and those that a stop's mark lets in, play into one file and empty it
\* for each other: of them nothing is said.
CountedIsWhole ==
  report.counted /\ Apart => block # NoBlock /\ \A g \in Games(block) : pgn[g] > 0

\* One monitor at most plays in the directory, or is about to.
OneMonitor ==
  \A m, n \in Monitors :
    {mon[m].pc, mon[n].pc} \subseteq {"report", "launch", "playing", "dying", "finish"}
      => m = n

Quiet == StopAt("idle") /\ \A m \in Monitors : ~ Starting(m) /\ ~ Alive(m)

\* When every process is dead, whichever step it died at, the directory is not
\* stuck: either a start is let through, or the match is completed, or a stop
\* finds the number of a dead process and marks the match stopped.
Recoverable ==
  Quiet /\ status.state \in {"running", "stopping"} => status.pid \in Monitors

\* Whoever writes the status last, it is one that every command can act on.
StatusUsable == TypeOK /\ Recoverable

\* Starts, a stop and the monitors write one status.  Whatever they write over each
\* other, and although starts overlap, it is never such that nobody can play again.
\* It is also never such that two monitors play, from the first save of one on,
\* with two exceptions that the code has, since nothing is locked: starts that
\* overlap both pass the test (main.go:430-438), and a stop's mark over the status of
\* a match in progress lets another start in.
DirectoryUsable == (Apart => OneMonitor) /\ StatusUsable

\* Again and again no monitor is in a match: none waits for a Fastchess that ignores
\* its signal, nor for output that nobody reads.
MonitorEnds == []<>(\A m \in Monitors : mon[m].pc \notin {"playing", "dying"})

\* testmonitor.md says that a counted block is not started again.
CountedIsNotReplayed ==
  [][\A m \in Monitors : mon[m].fc = "none" /\ mon'[m].fc = "playing" => ~ counted]_vars

\* testmonitor.md says that incomplete pairs do not fail an SPRT decision of
\* Fastchess.
SprtVerdictStands ==
  \A m \in Monitors :
    /\ mon[m].pc = "file" /\ ~ mon[m].stopped
    /\ mon[m].fc = "over" /\ mon[m].result = "accepted_h1"
    => mon[m].st.decision = "accepted_h1"
=============================================================================
