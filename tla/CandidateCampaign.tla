------------------------- MODULE CandidateCampaign -------------------------
(***************************************************************************)
(* The life of one candidate in the test monitor: the campaign service     *)
(* (cmd/testmonitor/campaign.go) builds it, runs the pipeline of tests     *)
(* (experiment.go), looks for a time control deep enough (prescan.go) and  *)
(* starts a screening; the screening's monitor evaluates it and may start  *)
(* an SPRT (automation.go), which the service then follows.                *)
(*                                                                         *)
(* Service, monitors and the retry command share only files.  systemd      *)
(* starts the service again when it dies.  How a match begins and ends is  *)
(* the matter of MatchMonitor; here starting one is a single step.         *)
(***************************************************************************)
EXTENDS Integers, Sequences, FiniteSets

CONSTANTS
  TimeControls,   \* the ladder of the pre-scan
  Modes,          \* the pre-scan modes that are given
  MaxCrashes,     \* times the service dies
  MaxLosses,      \* times a monitor or an evaluation dies
  MaxRetries      \* retry-evaluation commands

ASSUME CampaignAssumption ==
  /\ TimeControls \in Seq(STRING) /\ TimeControls # <<>>
  /\ Modes \subseteq {"full", "baseline", "skip"}
  /\ MaxCrashes \in Nat /\ MaxLosses \in Nat /\ MaxRetries \in Nat

Stages   == <<"go_test", "perft", "uci", "benchmark", "movetime">>
Roles    == {"baseline", "candidate"}
Ladder   == DOMAIN TimeControls
PreScans == Roles \X Ladder
Matches  == PreScans \cup {<<"screening", 0>>, <<"sprt", 0>>}

Screening == <<"screening", 0>>
Sprt      == <<"sprt", 0>>

Retries     == 1..MaxRetries
Evaluations == {Screening, Sprt} \cup {<<"retry", n>> : n \in Retries}

VARIABLES
  camp,            \* active-campaign.json
  svc,             \* the service: where it is and its copy of the campaign
  exp,             \* experiment.json
  run,             \* the match of each run directory, and whether its monitor lives
  cache,           \* depth profiles
  measured,        \* history: the depths that pre-scans have found
  record, ev,      \* the automation record of the screening; the evaluations
  asked,           \* history: calls of the model
  crashes, losses

svcVars == <<camp, svc>>
evVars  == <<record, ev, asked>>
bounds  == <<crashes, losses>>
depths  == <<cache, measured>>
vars    == <<camp, svc, exp, run, cache, measured, record, ev, asked, crashes, losses>>

TerminalStatus ==
  {"awaiting_decision", "tests_failed", "failed", "depth_insufficient", "depth_measurement_invalid"}
TerminalMatch == {"completed", "failed", "stopped"}

NoExperiment == [status |-> "none", passed |-> 0, failed |-> FALSE, decision |-> "none"]
NoMatch      == [state |-> "none", alive |-> FALSE, result |-> "none", tc |-> 0]
NoRecord     == [status |-> "none", decision |-> "none", sprt |-> FALSE]
NoEvaluation == [pc |-> "none", rep |-> NoExperiment, rec |-> NoRecord]

\* campaignInitCommand
Init ==
  /\ \E mode \in Modes :
       camp = [status |-> "queued", mode |-> mode, index |-> 1, selected |-> 0,
               baseline |-> "none", candidate |-> "none", role |-> "none"]
  /\ svc = [pc |-> "read", mem |-> camp]
  /\ exp = NoExperiment
  /\ run = [m \in Matches |-> NoMatch]
  /\ cache = [p \in PreScans |-> "none"] /\ measured = {}
  /\ record = NoRecord /\ ev = [e \in Evaluations |-> NoEvaluation] /\ asked = 0
  /\ crashes = 0 /\ losses = 0

-----------------------------------------------------------------------------
(* Matches.                                                                *)

\* startCommand: a match that is completed is not played again, one that runs is
\* an error, every other one is played.
Startable(m)  == run[m].state \notin {"running", "completed"}
MatchRuns(tc) == [state |-> "running", alive |-> TRUE, result |-> "none", tc |-> tc]

\* A monitor's process ends with its match, unless an evaluation follows.
MatchEnds(m, state, result) ==
  /\ run[m].state = "running" /\ run[m].alive
  /\ run' = [run EXCEPT ![m] = [@ EXCEPT !.state = state, !.result = result,
                                         !.alive = m \in {Screening, Sprt}]]
  /\ ev' = IF m \in {Screening, Sprt} THEN [ev EXCEPT ![m].pc = "load"] ELSE ev
  /\ UNCHANGED <<svcVars, exp, record, asked, bounds>>

\* runMatchCommand keeps the profile before it knows whether the match counts.
PreScanEnds ==
  \E p \in PreScans, depth \in {"adequate", "shallow"}, state \in TerminalMatch :
    /\ MatchEnds(p, state, depth)
    /\ \/ /\ state # "stopped"
          /\ cache' = [cache EXCEPT ![p] = depth]
          /\ measured' = measured \cup {<<p, depth>>}
       \/ state # "completed" /\ UNCHANGED depths

ScreeningEnds ==
  /\ UNCHANGED depths
  /\ \/ \E r \in {"passed_screening", "rejected_below_47_percent"} :
          MatchEnds(Screening, "completed", r)
     \/ \E s \in {"failed", "stopped"} : MatchEnds(Screening, s, "none")

SprtEnds == \E s \in TerminalMatch : MatchEnds(Sprt, s, "none") /\ UNCHANGED depths

\* A monitor is killed, and its match marked by the stop command.
MonitorLost ==
  /\ losses < MaxLosses /\ losses' = losses + 1
  /\ \E m \in Matches :
       /\ run[m].state = "running" /\ run[m].alive
       /\ run' = [run EXCEPT ![m].state = "stopped", ![m].alive = FALSE]
  /\ UNCHANGED <<svcVars, exp, depths, evVars, crashes>>

-----------------------------------------------------------------------------
(* The service: advanceCampaign, from one save to the next.                *)

SvcAt(pc) == svc.pc = pc

Think(pc, mem) == svc' = [pc |-> pc, mem |-> mem]

\* saveCampaignState
Save(c) == camp' = c

Ends(status) ==
  /\ Save([svc.mem EXCEPT !.status = status])
  /\ Think("done", camp')

\* An error ends the process; systemd starts it again, and it finds "failed".
Fails == Ends("failed")

Reads(statuses) == SvcAt("read") /\ camp.status \in statuses

BeginBuild ==
  /\ Reads({"queued", "building", "testing"})
  /\ Save([camp EXCEPT !.status = "building"])
  /\ Think("build", camp')
  /\ UNCHANGED <<exp, run, depths, evVars, bounds>>

\* buildCampaignCandidate
Build ==
  /\ SvcAt("build")
  /\ \/ Fails
     \/ Save([svc.mem EXCEPT !.status = "testing"]) /\ Think("pipeline", camp')
  /\ UNCHANGED <<exp, run, depths, evVars, bounds>>

\* runExperiment takes a report that is there already for the result.
Pipeline ==
  /\ SvcAt("pipeline")
  /\ Think(IF exp = NoExperiment THEN "stages" ELSE "judge", svc.mem)
  /\ UNCHANGED <<camp, exp, run, depths, evVars, bounds>>

\* addStage: the report is saved after each stage.
Stage ==
  /\ SvcAt("stages") /\ ~ exp.failed /\ exp.passed < Len(Stages)
  /\ \/ exp' = [exp EXCEPT !.status = "running", !.passed = @ + 1]
     \/ exp' = [exp EXCEPT !.status = "running", !.failed = TRUE]
  /\ UNCHANGED <<svcVars, run, depths, evVars, bounds>>

Conclude ==
  /\ SvcAt("stages") /\ (exp.failed \/ exp.passed = Len(Stages))
  /\ exp' = [exp EXCEPT !.status = IF exp.failed THEN "rejected" ELSE "awaiting_decision"]
  /\ Think("judge", svc.mem)
  /\ UNCHANGED <<camp, run, depths, evVars, bounds>>

\* campaignStagesPassed, and no hard failure.
Tested(e) == ~ e.failed /\ e.passed = Len(Stages)

Judge ==
  /\ SvcAt("judge")
  /\ IF Tested(exp) THEN Think("gate", svc.mem) /\ UNCHANGED camp
     ELSE Ends("tests_failed")
  /\ UNCHANGED <<exp, run, depths, evVars, bounds>>

-----------------------------------------------------------------------------
(* advanceDepthGate, one turn of its loop at a time.                       *)

GateAt == SvcAt("gate") /\ svc.mem.mode # "skip" /\ svc.mem.index \in Ladder

\* Mutant: the baseline's depth is kept for the next time control.
NextTimeControlKeeps(c) == [c EXCEPT !.index = @ + 1, !.candidate = "none"]

\* advanceDepthTimeControl
NextTimeControl(c) ==
  [c EXCEPT !.index = @ + 1, !.role = "none", !.baseline = "none", !.candidate = "none"]

SkipGate ==
  /\ SvcAt("gate") /\ svc.mem.mode = "skip"
  /\ Think("screen", [svc.mem EXCEPT !.selected = 1])
  /\ UNCHANGED <<camp, exp, run, depths, evVars, bounds>>

\* The role whose depth is looked up next: the candidate's only when the
\* baseline is deep enough and the mode asks for it.
Wanted ==
  CASE svc.mem.baseline = "none" -> "baseline"
    [] svc.mem.baseline = "adequate" /\ svc.mem.mode = "full" /\ svc.mem.candidate = "none"
         -> "candidate"
    [] OTHER -> "none"

\* loadCachedDepthProfile; without a profile the pre-scan is played.
LookUp ==
  /\ GateAt /\ Wanted # "none"
  /\ LET depth == cache[<<Wanted, svc.mem.index>>]
     IN IF depth = "none" THEN Think("prescan", [svc.mem EXCEPT !.role = Wanted])
        ELSE Think("gate", [svc.mem EXCEPT ![Wanted] = depth])
  /\ UNCHANGED <<camp, exp, run, depths, evVars, bounds>>

Decide ==
  /\ GateAt /\ Wanted = "none"
  /\ IF "shallow" \in {svc.mem.baseline, svc.mem.candidate}
     THEN Think("gate", NextTimeControl(svc.mem))
     ELSE Think("screen", [svc.mem EXCEPT !.selected = svc.mem.index])
  /\ UNCHANGED <<camp, exp, run, depths, evVars, bounds>>

Exhausted ==
  /\ SvcAt("gate") /\ svc.mem.mode # "skip" /\ svc.mem.index \notin Ladder
  /\ Ends("depth_insufficient")
  /\ UNCHANGED <<exp, run, depths, evVars, bounds>>

\* A match that did not complete is evaluated without the model, in less time than
\* systemd waits before it starts a service again.
Settled(m) == run[m].state = "completed" \/ ~ run[m].alive

\* launchCampaignPreScan and launchCampaignScreening: the match is started,
Launch(m, tc) ==
  /\ \/ Fails /\ UNCHANGED run
     \/ /\ run[m].state # "running" /\ Settled(m)
        /\ run' = IF Startable(m) THEN [run EXCEPT ![m] = MatchRuns(tc)] ELSE run
        /\ Think("launched", [svc.mem EXCEPT !.status =
                   IF m = Screening THEN "screening_running" ELSE "prescan_running"])
        /\ UNCHANGED camp
  /\ UNCHANGED <<exp, depths, evVars, bounds>>

LaunchPreScan   == SvcAt("prescan") /\ Launch(<<svc.mem.role, svc.mem.index>>, svc.mem.index)
LaunchScreening == SvcAt("screen") /\ Launch(Screening, svc.mem.selected)

\* and then the campaign is saved.
SaveLaunch ==
  /\ SvcAt("launched")
  /\ Save(svc.mem) /\ Think("read", svc.mem)
  /\ UNCHANGED <<exp, run, depths, evVars, bounds>>

-----------------------------------------------------------------------------
(* What a poll finds; a match that goes on changes nothing.                *)

\* Mutant: the status alone tells that a match is over.
OverByStatus(m) == run[m].state \in TerminalMatch

\* processExists: the monitor may still be evaluating.
Over(m) == run[m].state \in TerminalMatch /\ ~ run[m].alive

PollPreScan ==
  LET m == <<camp.role, camp.index>>
  IN /\ Reads({"prescan_running"}) /\ Over(m)
     /\ IF run[m].state = "completed"
        THEN /\ Think("gate", [camp EXCEPT ![camp.role] = run[m].result, !.role = "none"])
             /\ UNCHANGED camp
        ELSE Save([camp EXCEPT !.status = "depth_measurement_invalid"]) /\ Think("done", camp')
     /\ UNCHANGED <<exp, run, depths, evVars, bounds>>

PollScreening ==
  /\ Reads({"screening_running"}) /\ Over(Screening)
  /\ Save([camp EXCEPT !.status = IF run[Sprt] = NoMatch THEN "awaiting_decision"
                                  ELSE "sprt_running"])
  /\ Think(IF camp'.status \in TerminalStatus THEN "done" ELSE "read", camp')
  /\ UNCHANGED <<exp, run, depths, evVars, bounds>>

PollSprt ==
  /\ Reads({"sprt_running"}) /\ Over(Sprt)
  /\ Save([camp EXCEPT !.status = "awaiting_decision"]) /\ Think("done", camp')
  /\ UNCHANGED <<exp, run, depths, evVars, bounds>>

\* The service is killed; the next one knows the files only.
Crash ==
  /\ crashes < MaxCrashes /\ crashes' = crashes + 1
  /\ svc.pc \notin {"read", "done"}
  /\ Think("read", camp)
  /\ UNCHANGED <<camp, exp, run, depths, evVars, losses>>

SvcStep ==
  \/ BeginBuild \/ Build \/ Pipeline \/ Stage \/ Conclude \/ Judge
  \/ SkipGate \/ LookUp \/ Decide \/ Exhausted
  \/ LaunchPreScan \/ LaunchScreening \/ SaveLaunch
  \/ PollPreScan \/ PollScreening \/ PollSprt

-----------------------------------------------------------------------------
(* processMatchCompletion, by the monitor of a match or the retry command. *)

EvAt(e, pc) == ev[e].pc = pc

EvGoes(e, pc) == ev' = [ev EXCEPT ![e].pc = pc]

\* What the report will say is settled.
Writes(e, status, decision) ==
  ev' = [ev EXCEPT ![e].pc = "write", ![e].rep.status = status, ![e].rep.decision = decision]

\* The process ends, and with it the monitor it belongs to.
Leaves(e) ==
  /\ ev' = [ev EXCEPT ![e] = [NoEvaluation EXCEPT !.pc = "gone"]]
  /\ run' = IF e \in Matches THEN [run EXCEPT ![e].alive = FALSE] ELSE run

IsRetry(e) == e \notin Matches

\* An evaluation is tried again when the one before it has ended or died, and the
\* service has the launch of the screening behind it.
RetryGiven ==
  \E e \in Evaluations :
    /\ IsRetry(e) /\ EvAt(e, "none") /\ run[Screening].state \in TerminalMatch
    /\ \A f \in Evaluations \ {Sprt} : ev[f].pc \in {"none", "gone"}
    /\ camp.status \in TerminalStatus \cup {"screening_running", "sprt_running"}
    /\ EvGoes(e, "load")
    /\ UNCHANGED <<svcVars, exp, run, depths, record, asked, bounds>>

\* An event whose record is there already is left alone, but for a retry of one
\* that is not completed.
Load(e) ==
  /\ EvAt(e, "load") /\ e # Sprt
  /\ IF record.status = "completed" \/ (record.status # "none" /\ ~ IsRetry(e))
     THEN Leaves(e) /\ UNCHANGED record
     ELSE /\ record' = [record EXCEPT !.status = "running"]
          /\ ev' = [ev EXCEPT ![e] = [pc |-> "validate", rep |-> exp, rec |-> record']]
          /\ UNCHANGED run
  /\ UNCHANGED <<svcVars, exp, depths, asked, bounds>>

\* The event of the SPRT has a record of its own, and needs no model.
LoadSprt ==
  /\ EvAt(Sprt, "load")
  /\ ev' = [ev EXCEPT ![Sprt] = [pc |-> "write", rec |-> NoRecord,
                 rep |-> [exp EXCEPT !.status = "awaiting_decision", !.decision = "none"]]]
  /\ UNCHANGED <<svcVars, exp, run, depths, record, asked, bounds>>

\* Mutant: what the match was is not asked.
QualifiesAny(rep) == Tested(rep)

\* validateAutomaticSPRT, but for the identities of the binaries.
Qualifies(rep) ==
  /\ run[Screening].state = "completed" /\ run[Screening].result = "passed_screening"
  /\ Tested(rep)

\* Mutant: the decision of an earlier attempt is not looked for.
HasDecisionNever(rec) == FALSE

\* validSavedDecision
HasDecision(rec) == rec.decision # "none"

Validate(e) ==
  /\ EvAt(e, "validate")
  /\ \E same \in BOOLEAN :
       IF same /\ Qualifies(ev[e].rep)
       THEN EvGoes(e, IF HasDecision(ev[e].rec) THEN "approve" ELSE "ask")
       ELSE Writes(e, "awaiting_decision", "none")
  /\ UNCHANGED <<svcVars, exp, run, depths, record, asked, bounds>>

\* failAutomation
EvFails(e) == record' = [ev[e].rec EXCEPT !.status = "failed"] /\ Leaves(e)

\* invokeCodex: an answer, or an error, a timeout or an invalid answer.
Ask(e) ==
  /\ EvAt(e, "ask") /\ asked' = asked + 1
  /\ \/ EvFails(e)
     \/ \E d \in {"sprt", "no_sprt"} :
          /\ ev' = [ev EXCEPT ![e].pc = "note", ![e].rec.decision = d]
          /\ UNCHANGED <<record, run>>
  /\ UNCHANGED <<svcVars, exp, depths, bounds>>

Note(e) ==
  /\ EvAt(e, "note")
  /\ record' = ev[e].rec
  /\ EvGoes(e, "approve")
  /\ UNCHANGED <<svcVars, exp, run, depths, asked, bounds>>

Approve(e) ==
  /\ EvAt(e, "approve")
  /\ \/ /\ ev[e].rec.decision = "no_sprt"
        /\ Writes(e, "awaiting_decision", "no_sprt")
        /\ UNCHANGED <<record, run>>
     \/ ev[e].rec.decision = "sprt" /\ EvFails(e)      \* the binaries have changed
     \/ /\ ev[e].rec.decision = "sprt"
        /\ record' = [ev[e].rec EXCEPT !.sprt = TRUE]
        /\ ev' = [ev EXCEPT ![e].pc = "start", ![e].rec = record']
        /\ UNCHANGED run
  /\ UNCHANGED <<svcVars, exp, depths, asked, bounds>>

\* startAutomaticSPRT, unless its directory has a status.
StartSprt(e) ==
  /\ EvAt(e, "start")
  /\ \/ run[Sprt] = NoMatch /\ EvFails(e)
     \/ /\ run[Sprt] = NoMatch
        /\ run' = [run EXCEPT ![Sprt].state = "starting"]
        /\ EvGoes(e, "spawn") /\ UNCHANGED record
     \/ /\ run[Sprt] # NoMatch
        /\ Writes(e, "sprt_running", "sprt")
        /\ UNCHANGED <<run, record>>
  /\ UNCHANGED <<svcVars, exp, depths, asked, bounds>>

SpawnSprt(e) ==
  /\ EvAt(e, "spawn")
  /\ \/ /\ run' = [run EXCEPT ![Sprt] = MatchRuns(0)]
        /\ Writes(e, "sprt_running", "sprt")
        /\ UNCHANGED record
     \/ /\ run' = [run EXCEPT ![Sprt].state = "failed"]
        /\ EvGoes(e, "fail") /\ UNCHANGED record
  /\ UNCHANGED <<svcVars, exp, depths, asked, bounds>>

SpawnFailed(e) ==
  /\ EvAt(e, "fail") /\ EvFails(e)
  /\ UNCHANGED <<svcVars, exp, depths, asked, bounds>>

\* What is written is the report as it was read, with the outcome.
WriteExperiment(e) ==
  /\ EvAt(e, "write")
  /\ exp' = ev[e].rep
  /\ EvGoes(e, "close")
  /\ UNCHANGED <<svcVars, run, depths, record, asked, bounds>>

Close(e) ==
  /\ EvAt(e, "close")
  /\ record' = IF e = Sprt THEN record ELSE [ev[e].rec EXCEPT !.status = "completed"]
  /\ Leaves(e)
  /\ UNCHANGED <<svcVars, exp, depths, asked, bounds>>

EvStep(e) ==
  \/ Load(e) \/ (e = Sprt /\ LoadSprt) \/ Validate(e) \/ Ask(e) \/ Note(e) \/ Approve(e)
  \/ StartSprt(e) \/ SpawnSprt(e) \/ SpawnFailed(e) \/ WriteExperiment(e) \/ Close(e)

EvaluationLost ==
  /\ losses < MaxLosses /\ losses' = losses + 1
  /\ \E e \in Evaluations : ev[e].pc \notin {"none", "gone"} /\ Leaves(e)
  /\ UNCHANGED <<svcVars, exp, depths, record, asked, crashes>>

\* recordDecisionCommand, given by the user when the campaign is over.
RecordDecision ==
  /\ camp.status = "awaiting_decision" /\ exp.decision # "user"
  /\ exp' \in {[exp EXCEPT !.decision = "user", !.status = s] :
                 s \in {"rejected", "awaiting_approval", "awaiting_decision"}}
  /\ UNCHANGED <<svcVars, run, depths, evVars, bounds>>

-----------------------------------------------------------------------------
Next ==
  \/ SvcStep \/ Crash
  \/ PreScanEnds \/ ScreeningEnds \/ SprtEnds \/ MonitorLost
  \/ RetryGiven \/ EvaluationLost \/ RecordDecision
  \/ \E e \in Evaluations : EvStep(e)

Spec == Init /\ [][Next]_vars

\* The service and the evaluations go on while they live (a model that does not
\* answer is given up after five minutes), and a match comes to an end; commands
\* and deaths are owed by nobody.
Fairness ==
  /\ WF_vars(SvcStep)
  /\ WF_vars(PreScanEnds) /\ WF_vars(ScreeningEnds) /\ WF_vars(SprtEnds)
  /\ \A e \in Evaluations : WF_vars(EvStep(e))

FairSpec == Spec /\ Fairness

-----------------------------------------------------------------------------
(* Properties.                                                             *)

\* An SPRT is played only for a candidate that passed every stage and its
\* screening, after the model's answer was saved; and the report says sprt_running
\* only of one that has been started, whichever of service and evaluations died.
SprtIsEarned ==
  /\ run[Sprt] # NoMatch => /\ Tested(exp) /\ run[Screening].result = "passed_screening"
                            /\ record.decision = "sprt"
  /\ exp.status = "sprt_running" => run[Sprt] # NoMatch

\* A model that has answered is not asked again about the event.
NotAskedAgain == [][asked' # asked => record.decision = "none"]_vars

Required == IF camp.mode = "full" THEN Roles ELSE {"baseline"}

\* A screening is played with the first time control of the ladder at which every
\* role that the mode asks for was found to search deep enough: the campaign has
\* measured each of them there, and one too shallow at each time control before,
\* however often the service died and measured again.
FirstDeepEnough ==
  run[Screening] # NoMatch =>
    \/ camp.mode = "skip" /\ run[Screening].tc = 1
    \/ /\ camp.mode # "skip"
       /\ \A r \in Required : <<<<r, run[Screening].tc>>, "adequate">> \in measured
       /\ \A i \in 1..(run[Screening].tc - 1) :
            \E r \in Required : <<<<r, i>>, "shallow">> \in measured

\* The service calls for a decision only when neither the screening nor the SPRT
\* is played or evaluated by its monitor any more.
DecidesWhenQuiet ==
  [][camp.status # "awaiting_decision" /\ camp'.status = "awaiting_decision"
       => ~ run[Screening].alive /\ ~ run[Sprt].alive]_vars

\* Every campaign comes to an end, whatever fails or dies on the way, but for an
\* evaluation that dies while it starts the SPRT: its status stays "starting".
CampaignEnds == <>(camp.status \in TerminalStatus \/ run[Sprt].state = "starting")

\* It comes to a decision or a failure, and to the decision not before its matches
\* are over.
EndsWhenQuiet == DecidesWhenQuiet /\ CampaignEnds

\* experiment-loop.md: the service says tests_failed of a hard test failure.
TestsFailedMeansFailed == camp.status = "tests_failed" => exp.failed
=============================================================================
