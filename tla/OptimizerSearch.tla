-------------------------- MODULE OptimizerSearch --------------------------
(***************************************************************************)
(* An optimization campaign (optimization.py): a coordinate descent with   *)
(* ever smaller steps (coordinate.py) asks for the result of one candidate *)
(* after the other, blocks of games against the anchor give it             *)
(* (adaptive.py), and the last anchor is confirmed in a fixed number of    *)
(* games against the baseline (confirmation.py).  One optimizer runs at a  *)
(* time, under campaign.lock; everything it knows is in the store          *)
(* (database.py), it changes it one transaction after the other, and it    *)
(* can be killed between any two of them.                                  *)
(*                                                                         *)
(* The statistics of blocks are abstracted to a level: where the score     *)
(* and its interval lie, each block putting the level of its trial         *)
(* anywhere.  A pair of openings is one game here.                         *)
(***************************************************************************)
EXTENDS Integers, Sequences, FiniteSets

CONSTANTS
  Lowest, Highest,     \* the range of each parameter, in registry order
  FirstStep, MinStep,  \* its step at first and at last
  Baseline,            \* the parameter set the campaign starts from
  MaxPasses, MaxEvaluations,
  MaxGames,            \* the match budget, in blocks
  MinBlocks, MaxBlocks,
  Levels,              \* the levels that blocks bring
  Exploratory,         \* whether an unresolved candidate is decided by its score
  ConfirmBlocks,
  Limits,              \* the --max-results of the invocations, 0 for none
  MaxFaults            \* kills and failed matches

Params == DOMAIN Baseline

ASSUME SearchAssumption ==
  /\ Baseline \in Seq(Int)
  /\ \A f \in {Lowest, Highest} : f \in [Params -> Int]
  /\ \A f \in {FirstStep, MinStep} : f \in [Params -> Nat \ {0}]
  /\ \A k \in Params : /\ MinStep[k] <= FirstStep[k]
                       /\ Lowest[k] <= Baseline[k] /\ Baseline[k] <= Highest[k]
  /\ {MaxPasses, MaxEvaluations, MinBlocks, ConfirmBlocks} \subseteq Nat \ {0}
  /\ MaxBlocks \in Nat /\ MinBlocks <= MaxBlocks
  /\ MaxGames \in Nat /\ MaxFaults \in Nat /\ Limits \subseteq Nat
  /\ Levels \subseteq 0..4 /\ Exploratory \in BOOLEAN

VARIABLES
  campaign,   \* status of the campaign
  trials,     \* the trial of each parameter set, with its match blocks
  search,     \* optimizer_state: the checkpoint of the search
  confirm,    \* the confirmation and its blocks
  file,       \* recommended-parameters.json: the sets written to it
  proc,       \* the optimizer process
  faults

vars == <<campaign, trials, search, confirm, file, proc, faults>>

InRange(x) == \A k \in Params : x[k] \in Lowest[k]..Highest[k]

Points == {x \in [Params -> UNION {Lowest[k]..Highest[k] : k \in Params}] : InRange(x)}

NoEvidence == [decision |-> "none", level |-> 0, reference |-> Baseline]

\* A row of trials.  blocks are the statuses of its match_blocks by index, level
\* that of the completed ones, evidence its result_json; against is a history:
\* the parameter sets its completed blocks were played against.
NoTrial == [status |-> "none", blocks |-> <<>>, level |-> 0,
            evidence |-> NoEvidence, against |-> {}]

NoResults == [d \in {1, -1} |-> "none"]

NoSearch == [phase |-> "none", pass |-> 0, param |-> 1, direction |-> 1,
             step |-> FirstStep, anchor |-> Baseline, results |-> NoResults,
             improved |-> FALSE, count |-> 0, stopped |-> FALSE]

NoConfirmation == [status |-> "none", candidate |-> Baseline, blocks |-> <<>>,
                   level |-> 0, outcome |-> "none"]

Off == [pc |-> "off", doing |-> "none", limit |-> 0, done |-> 0]

Init ==
  /\ campaign = "pending"
  /\ trials = [x \in Points |-> NoTrial]
  /\ search = NoSearch
  /\ confirm = NoConfirmation
  /\ file = {}
  /\ proc = Off
  /\ faults = 0

-----------------------------------------------------------------------------
At(pc) == proc.pc = pc

Goto(pc) == proc' = [proc EXCEPT !.pc = pc]

Replace(statuses, old, new) ==
  [i \in DOMAIN statuses |-> IF statuses[i] \in old THEN new ELSE statuses[i]]

Indices(statuses, wanted) == {i \in DOMAIN statuses : statuses[i] \in wanted}

Runnable(statuses) == Indices(statuses, {"pending", "interrupted"})

First(set) == CHOOSE i \in set : \A j \in set : i <= j

\* The parameter set that the search is at: _candidate_at_step.
Moved(x, k, by) == [x EXCEPT ![k] = @ + by]

Candidate == Moved(search.anchor, search.param, search.direction * search.step[search.param])

Point == IF search.phase = "baseline" THEN Baseline ELSE Candidate

PassOver     == search.param > Len(Baseline)
BothDirections == search.direction = 0

\* _next_step_produces_evaluation
NeedsEvaluation ==
  \/ search.phase = "baseline"
  \/ /\ search.phase = "coordinate" /\ ~PassOver /\ ~BothDirections
     /\ InRange(Candidate) /\ trials[Candidate].status # "completed"

-----------------------------------------------------------------------------
(* Start of an invocation: run_optimization.                               *)

\* campaign_lock and claim_campaign
Start(limit) ==
  /\ At("off")
  /\ proc' = [pc |-> "recover", doing |-> "reconcile", limit |-> limit, done |-> 0]
  /\ UNCHANGED <<campaign, trials, search, confirm, file, faults>>

\* recover_abandoned_jobs
Recovered ==
  [x \in Points |->
     [trials[x] EXCEPT !.blocks = Replace(@, {"running"}, "interrupted"),
                       !.status = IF @ = "running" THEN "interrupted" ELSE @]]

\* terminate_active_blocks: the matches of a killed optimizer end with it.
Recover ==
  /\ At("recover")
  /\ trials' = Recovered
  /\ Goto("close")
  /\ UNCHANGED <<campaign, search, confirm, file, faults>>

\* reconcile_terminal_trial_blocks
CloseTerminal ==
  /\ At("close")
  /\ trials' = [x \in Points |->
       IF trials[x].status = "completed"
         THEN [trials[x] EXCEPT !.blocks = Replace(@, {"pending", "interrupted"}, "rejected")]
         ELSE trials[x]]
  /\ Goto("enter")
  /\ UNCHANGED <<campaign, search, confirm, file, faults>>

\* _enter_running_state; the status stays until the search is completed.
Enter ==
  /\ At("enter")
  /\ campaign' = IF campaign = "completed" THEN campaign ELSE "running"
  /\ Goto("load")
  /\ UNCHANGED <<trials, search, confirm, file, faults>>

\* _load_or_initialize_state
Load ==
  /\ At("load")
  /\ search' = IF search.phase = "none" THEN [NoSearch EXCEPT !.phase = "baseline"] ELSE search
  /\ Goto("step")
  /\ UNCHANGED <<campaign, trials, confirm, file, faults>>

\* The head of AutonomousOptimizer.run's loop: nothing left to do, no budget left
\* for the worst a candidate can cost, or one more result.
Played ==
  Cardinality({b \in Points \X (1..MaxBlocks) :
                 b[2] \in Indices(trials[b[1]].blocks, {"completed"})})

OutOfBudget ==
  \/ search.count >= MaxEvaluations
  \/ Played + MaxBlocks > MaxGames

LoopHead ==
  /\ At("head")
  /\ \/ /\ search.phase = "completed"
        /\ Goto("report")
     \/ /\ search.phase # "completed" /\ OutOfBudget
        /\ proc' = [proc EXCEPT !.pc = "step", !.doing = "stop"]
     \/ /\ search.phase # "completed" /\ ~OutOfBudget
        /\ proc' = [proc EXCEPT !.pc = "step", !.doing = "search"]
  /\ UNCHANGED <<campaign, trials, search, confirm, file, faults>>

\* Results of this invocation; without a limit nobody asks for them.
Counted == IF proc.limit > 0 THEN proc.done + 1 ELSE 0

QuotaUsed == proc.limit > 0 /\ proc.done >= proc.limit

\* The end of reconcile_checkpoint, of run and of stop: _complete_campaign_if_finished.
Finish ==
  /\ At("finish")
  /\ campaign' = IF search.phase = "completed" /\ campaign = "running"
                   THEN "completed" ELSE campaign
  /\ Goto(IF proc.doing = "stop" \/ (proc.doing # "reconcile" /\ QuotaUsed)
            THEN "report" ELSE "head")
  /\ UNCHANGED <<trials, search, confirm, file, faults>>

-----------------------------------------------------------------------------
(* The steps of the search that need no evaluation: _step.  A search makes *)
(* them on its way to the next result; reconciliation and stop as long as  *)
(* there are any; after a result they go on to the choice of a direction   *)
(* and the end of a pass that it may bring (_settle_after_result).         *)

Settled ==
  \/ search.phase = "completed"
  \/ NeedsEvaluation
  \/ proc.doing = "pass" /\ ~PassOver

Stepping == At("step") /\ ~Settled

NextDirection == IF search.direction = 1 THEN -1 ELSE 0

\* A candidate outside the range of its parameter has no result.
SkipCandidate ==
  /\ Stepping /\ ~PassOver /\ ~BothDirections /\ ~InRange(Candidate)
  /\ search' = [search EXCEPT !.direction = NextDirection]
  /\ UNCHANGED <<campaign, trials, confirm, file, proc, faults>>

\* Mutant: a result counts whatever it was played against.
ClassifyAnyReference(evidence) ==
  IF evidence.decision \in {"accept", "accept_exploratory"} THEN "win"
  ELSE IF evidence.decision \in {"reject", "reject_early", "reject_exploratory"} THEN "loss"
  ELSE "uncertain"

\* _classify of a decided result, after Explored: a result from another anchor
\* says nothing about this one.
Classify(evidence) ==
  IF evidence.reference # search.anchor THEN "uncertain"
  ELSE IF evidence.decision \in {"accept", "accept_exploratory"} THEN "win"
  ELSE IF evidence.decision \in {"reject", "reject_early", "reject_exploratory"} THEN "loss"
  ELSE "uncertain"

\* The exploratory mode of _classify: score above exploratory_min_score or not.
Explored(evidence) ==
  IF Exploratory /\ evidence.decision = "uncertain"
    THEN [evidence EXCEPT !.decision = IF evidence.level >= 3 THEN "accept_exploratory"
                                                             ELSE "reject_exploratory"]
    ELSE evidence

\* _apply_coordinate_result
WithResult(evidence) ==
  [search EXCEPT !.results = [@ EXCEPT ![search.direction] = Classify(evidence)],
                 !.direction = NextDirection]

\* _evaluate_candidate of a parameter set that has been evaluated already.
ReuseResult ==
  /\ Stepping /\ ~PassOver /\ ~BothDirections /\ InRange(Candidate)
  /\ search' = WithResult(trials[Candidate].evidence)
  /\ UNCHANGED <<campaign, trials, confirm, file, proc, faults>>

Neighbour(d) == Moved(search.anchor, search.param, d * search.step[search.param])

Wins == {d \in {1, -1} : search.results[d] = "win"}

MovedTo(x) == [search EXCEPT !.anchor = x, !.improved = TRUE]

\* What the directions have brought: of two accepted ones the better score is taken,
\* which their levels do not tell.
Selected == IF Wins = {} THEN {search} ELSE {MovedTo(Neighbour(d)) : d \in Wins}

\* _select_coordinate
SelectCoordinate ==
  /\ Stepping /\ ~PassOver /\ BothDirections
  /\ \E selected \in Selected :
       search' = [selected EXCEPT !.param = @ + 1, !.direction = 1, !.results = NoResults]
  /\ proc' = [proc EXCEPT !.doing = IF @ = "settle" THEN "pass" ELSE @]
  /\ UNCHANGED <<campaign, trials, confirm, file, faults>>

Larger(a, b) == IF a > b THEN a ELSE b

Halved == [k \in Params |-> Larger(MinStep[k], search.step[k] \div 2)]

\* The search ends with a pass that brought nothing at the smallest steps.
Ends == search.pass + 1 >= MaxPasses \/ (~search.improved /\ Halved = search.step)

\* _finish_pass: the end, the same steps again after an improvement, or smaller ones.
FinishPass ==
  /\ Stepping /\ PassOver
  /\ search' =
       IF Ends
         THEN [search EXCEPT !.pass = @ + 1, !.phase = "completed"]
         ELSE [search EXCEPT !.pass = @ + 1, !.param = 1, !.direction = 1, !.improved = FALSE,
                             !.step = IF search.improved THEN @ ELSE Halved]
  /\ UNCHANGED <<campaign, trials, confirm, file, proc, faults>>

\* _settle_partial_coordinate_at_stop: the one direction that has a result.
Partial ==
  IF search.phase = "coordinate" /\ ~PassOver /\ search.direction = -1 /\ search.results[1] = "win"
    THEN MovedTo(Neighbour(1)) ELSE search

\* stop, once nothing more can be done without an evaluation.
StopSearch ==
  /\ At("step") /\ Settled /\ proc.doing = "stop"
  /\ search' = [Partial EXCEPT !.phase = "completed", !.stopped = TRUE, !.direction = 1,
                               !.param = Len(Baseline) + 1, !.results = NoResults]
  /\ Goto("finish")
  /\ UNCHANGED <<campaign, trials, confirm, file, faults>>

\* Without a result to come, this part of the work is done.
StepsDone ==
  /\ At("step") /\ Settled
  /\ \/ proc.doing = "search" /\ search.phase = "completed"
     \/ proc.doing \in {"reconcile", "settle", "pass"}
  /\ Goto("finish")
  /\ UNCHANGED <<campaign, trials, search, confirm, file, faults>>

Evaluate ==
  /\ At("step") /\ Settled /\ proc.doing = "search" /\ search.phase # "completed"
  /\ Goto("create")
  /\ UNCHANGED <<campaign, trials, search, confirm, file, faults>>

-----------------------------------------------------------------------------
(* The evaluation of a candidate: AdaptiveCampaign over its blocks.        *)

Trial == trials[Point]

SetTrial(t) == trials' = [trials EXCEPT ![Point] = t]

OnlyTrial == UNCHANGED <<campaign, search, confirm, file, faults>>

\* create_trial gives the trial that is there, if there is one.  The baseline is
\* the reference and plays no games: its result is there at once.
CreateTrial ==
  /\ At("create")
  /\ SetTrial(IF Trial.status # "none" THEN Trial
              ELSE [NoTrial EXCEPT !.status = "pending"])
  /\ Goto(IF search.phase = "baseline" THEN "record" ELSE "blocks")
  /\ OnlyTrial

\* create_match_block, once for each block of the budget.
CreateBlock ==
  /\ At("blocks") /\ Len(Trial.blocks) < MaxBlocks
  /\ SetTrial([Trial EXCEPT !.blocks = Append(@, "pending")])
  /\ UNCHANGED proc /\ OnlyTrial

TerminalDecisions ==
  {"accept", "reject", "reject_early", "uncertain", "accept_exploratory", "reject_exploratory"}

\* Mutant: evidence that was stored before a crash is not looked for.
ResumeBlind ==
  /\ At("blocks") /\ Len(Trial.blocks) = MaxBlocks
  /\ SetTrial(IF Trial.status = "pending" THEN [Trial EXCEPT !.status = "running"] ELSE Trial)
  /\ Goto("next")
  /\ OnlyTrial

\* The beginning of run: terminal evidence that was stored before a crash is the
\* result.
Resume ==
  /\ At("blocks") /\ Len(Trial.blocks) = MaxBlocks
  /\ \/ /\ Trial.evidence.decision \in TerminalDecisions
        /\ UNCHANGED trials
        /\ Goto("record")
     \/ /\ Trial.evidence.decision \notin TerminalDecisions
        /\ SetTrial(IF Trial.status = "pending" THEN [Trial EXCEPT !.status = "running"] ELSE Trial)
        /\ Goto("next")
  /\ OnlyTrial

\* claim_next_block, of the block that _next_block has found.
ClaimBlock ==
  /\ At("next") /\ Runnable(Trial.blocks) # {}
  /\ SetTrial([Trial EXCEPT !.blocks[First(Runnable(Trial.blocks))] = "running"])
  /\ Goto("trial")
  /\ OnlyTrial

\* run raises an error when there is no next block.
NoNextBlock ==
  /\ At("next") /\ Runnable(Trial.blocks) = {}
  /\ proc' = Off
  /\ UNCHANGED trials /\ OnlyTrial

\* _ensure_trial_running
EnsureTrial ==
  /\ At("trial")
  /\ SetTrial(IF Trial.status = "running" THEN Trial
              ELSE [Trial EXCEPT !.status = "running", !.evidence = NoEvidence])
  /\ Goto("play")
  /\ OnlyTrial

\* complete_block_atomically: the match is over and its result in the store.
BlockCompletes ==
  /\ At("play")
  /\ \E l \in Levels :
       SetTrial([Trial EXCEPT !.blocks = Replace(@, {"running"}, "completed"),
                              !.level = l, !.against = @ \cup {search.anchor}])
  /\ Goto("judge")
  /\ OnlyTrial

\* The match fails, interrupt_block: the block will be played again.
MatchFails ==
  /\ At("play") /\ faults < MaxFaults
  /\ faults' = faults + 1
  /\ SetTrial([Trial EXCEPT !.blocks = Replace(@, {"running"}, "interrupted")])
  /\ Goto("lost")
  /\ UNCHANGED <<campaign, search, confirm, file>>

Evidence(decision) ==
  [decision |-> decision, level |-> Trial.level, reference |-> search.anchor]

\* Evidence of the interruption, on which _normalize_terminal_result fails.
Lost ==
  /\ At("lost")
  /\ SetTrial([Trial EXCEPT !.evidence = [NoEvidence EXCEPT !.decision = "interrupted"]])
  /\ proc' = Off
  /\ OnlyTrial

\* The decision of run on the aggregate of the completed blocks.  Level 0 has its
\* interval below weak_upper_score, 1 below target_score, 4 above it; 3 is
\* open with a score above exploratory_min_score, 2 with one that is not.
Decision ==
  LET played == Cardinality(Indices(Trial.blocks, {"completed"}))
  IN CASE played < MinBlocks -> "continue"
       [] played >= MinBlocks /\ Trial.level = 0 -> "reject_early"
       [] played >= MinBlocks /\ Trial.level > 0 /\ played < MaxBlocks -> "continue"
       [] OTHER -> CASE Trial.level = 4 -> "accept"
                     [] Trial.level = 1 -> "reject"
                     [] OTHER -> "uncertain"

Continue ==
  /\ At("judge") /\ Decision = "continue"
  /\ SetTrial([Trial EXCEPT !.evidence = Evidence("continue")])
  /\ Goto("next")
  /\ OnlyTrial

\* Mutant: the budget that is not used stays open.
LeavePending(blocks) == blocks

\* reject_pending_blocks
ClosePending(blocks) == Replace(blocks, {"pending"}, "rejected")

CloseBudget ==
  /\ At("judge") /\ Decision # "continue"
  /\ SetTrial([Trial EXCEPT !.blocks = ClosePending(@)])
  /\ Goto("store")
  /\ OnlyTrial

\* checkpoint_trial_result
StoreEvidence ==
  /\ At("store")
  /\ SetTrial([Trial EXCEPT !.evidence = Evidence(Decision)])
  /\ Goto("record")
  /\ OnlyTrial

\* record_coordinate_result_atomically: the trial, its result and the state of the
\* search that follows from it.
RecordResult ==
  /\ At("record")
  /\ LET evidence == IF search.phase = "baseline" THEN Evidence("baseline")
                                                  ELSE Explored(Trial.evidence)
     IN /\ SetTrial([Trial EXCEPT !.status = "completed", !.evidence = evidence])
        /\ search' = [(IF search.phase = "baseline" THEN [search EXCEPT !.phase = "coordinate"]
                                                    ELSE WithResult(evidence)) EXCEPT
                        !.count = @ + 1]
  /\ proc' = [proc EXCEPT !.pc = "step", !.doing = "settle", !.done = Counted]
  /\ UNCHANGED <<campaign, confirm, file, faults>>

-----------------------------------------------------------------------------
(* The end of an invocation, and the confirmation: _run_confirmation.      *)

Release ==
  /\ At("report") /\ (search.phase # "completed" \/ QuotaUsed)
  /\ proc' = Off
  /\ UNCHANGED <<campaign, trials, search, confirm, file, faults>>

\* begin_confirmation
BeginConfirmation ==
  /\ At("report") /\ search.phase = "completed" /\ ~QuotaUsed
  /\ campaign' = IF confirm.status # "completed" THEN "running" ELSE campaign
  /\ Goto("confirm")
  /\ UNCHANGED <<trials, search, confirm, file, faults>>

OnlyConfirm == UNCHANGED <<campaign, trials, search, file, faults>>

\* create_confirmation, with _final_search_candidate; the one that exists stays.
CreateConfirmation ==
  /\ At("confirm")
  /\ confirm' = IF confirm.status = "none"
                  THEN [confirm EXCEPT !.status = "pending", !.candidate = search.anchor]
                  ELSE confirm
  /\ Goto("schedule")
  /\ OnlyConfirm

\* finalize_confirmation: the confirmation and the campaign are completed together.
Finalize(outcome) ==
  /\ confirm' = [confirm EXCEPT !.status = "completed", !.outcome = outcome]
  /\ campaign' = "completed"
  /\ Goto("file")
  /\ UNCHANGED <<trials, search, file, faults>>

Unchanged == confirm.candidate = Baseline

\* The baseline is not played against itself.
NothingToConfirm ==
  /\ At("schedule") /\ Unchanged
  /\ Finalize("inconclusive")

\* create_confirmation_block, in _ensure_schedule.
ScheduleBlock ==
  /\ At("schedule") /\ ~Unchanged /\ Len(confirm.blocks) < ConfirmBlocks
  /\ confirm' = [confirm EXCEPT !.blocks = Append(@, "pending")]
  /\ UNCHANGED proc /\ OnlyConfirm

\* terminate_active_confirmation_blocks, recover_abandoned_confirmation_jobs
RecoverConfirmation ==
  /\ At("schedule") /\ ~Unchanged /\ Len(confirm.blocks) = ConfirmBlocks
  /\ confirm' = IF "running" \in {confirm.blocks[i] : i \in DOMAIN confirm.blocks}
                  THEN [confirm EXCEPT !.status = "interrupted",
                                       !.blocks = Replace(@, {"running"}, "interrupted")]
                  ELSE confirm
  /\ Goto("next block")
  /\ OnlyConfirm

ConfirmedAlready ==
  /\ At("next block") /\ confirm.status = "completed"
  /\ Goto("file")
  /\ UNCHANGED confirm /\ OnlyConfirm

\* claim_next_confirmation_block
ClaimConfirmationBlock ==
  /\ At("next block") /\ confirm.status # "completed"
  /\ Indices(confirm.blocks, {"running"}) = {}
  /\ Runnable(confirm.blocks) # {}
  /\ confirm' = [confirm EXCEPT !.status = "running",
                                !.blocks[First(Runnable(confirm.blocks))] = "running"]
  /\ Goto("confirming")
  /\ OnlyConfirm

\* complete_confirmation_block_atomically
ConfirmationCompletes ==
  /\ At("confirming")
  /\ \E l \in Levels :
       confirm' = [confirm EXCEPT !.blocks = Replace(@, {"running"}, "completed"), !.level = l]
  /\ proc' = [proc EXCEPT !.done = Counted,
                          !.pc = IF proc.limit > 0 /\ Counted >= proc.limit
                                   THEN "file" ELSE "next block"]
  /\ OnlyConfirm

\* interrupt_confirmation_block, and the error that ends the invocation.
ConfirmationFails ==
  /\ At("confirming") /\ faults < MaxFaults
  /\ faults' = faults + 1
  /\ confirm' = [confirm EXCEPT !.status = "interrupted",
                                !.blocks = Replace(@, {"running"}, "interrupted")]
  /\ proc' = Off
  /\ UNCHANGED <<campaign, trials, search, file>>

\* _summary: no decision before the last block, and the interval against 50 per cent.
Outcome == CASE confirm.level = 4 -> "confirmed"
             [] confirm.level <= 1 -> "rejected"
             [] OTHER -> "inconclusive"

Conclude ==
  /\ At("next block") /\ confirm.status # "completed"
  /\ \A i \in DOMAIN confirm.blocks : confirm.blocks[i] = "completed"
  /\ Finalize(Outcome)

\* Mutant: the candidate is written whatever the games have said.
RecommendsAlways == confirm.status = "completed"

Recommends == confirm.status = "completed" /\ confirm.outcome = "confirmed"

\* _materialize_recommendation, then the release of the campaign.
WriteRecommendation ==
  /\ At("file")
  /\ file' = IF Recommends THEN file \cup {confirm.candidate} ELSE file
  /\ proc' = Off
  /\ UNCHANGED <<campaign, trials, search, confirm, faults>>

-----------------------------------------------------------------------------
\* The optimizer is killed; its lock goes with it.
Kill ==
  /\ ~At("off") /\ faults < MaxFaults
  /\ faults' = faults + 1
  /\ proc' = Off
  /\ UNCHANGED <<campaign, trials, search, confirm, file>>

\* pause_campaign, stop_campaign and resume_campaign get campaign.lock only between
\* invocations.
Control ==
  /\ At("off")
  /\ \/ campaign \in {"pending", "running"} /\ campaign' = "paused"
     \/ campaign \in {"pending", "running", "paused"} /\ campaign' = "interrupted"
     \/ campaign \in {"pending", "paused", "interrupted"} /\ campaign' = "running"
  /\ trials' = Recovered
  /\ UNCHANGED <<search, confirm, file, proc, faults>>

SearchStep ==
  \/ SkipCandidate \/ ReuseResult \/ SelectCoordinate \/ FinishPass
  \/ StopSearch \/ StepsDone \/ Evaluate

Evaluation ==
  \/ CreateTrial \/ CreateBlock \/ Resume \/ ClaimBlock \/ NoNextBlock \/ EnsureTrial
  \/ BlockCompletes \/ Lost \/ Continue \/ CloseBudget \/ StoreEvidence \/ RecordResult

Confirmation ==
  \/ BeginConfirmation \/ CreateConfirmation \/ NothingToConfirm \/ ScheduleBlock
  \/ RecoverConfirmation \/ ConfirmedAlready \/ ClaimConfirmationBlock
  \/ ConfirmationCompletes \/ Conclude \/ WriteRecommendation

Optimizer ==
  \/ Recover \/ CloseTerminal \/ Enter \/ Load \/ LoopHead \/ Finish \/ Release
  \/ SearchStep \/ Evaluation \/ Confirmation

Invoke == \E limit \in Limits : Start(limit)

Next == Invoke \/ Optimizer \/ MatchFails \/ ConfirmationFails \/ Kill \/ Control

Spec == Init /\ [][Next]_vars

\* The optimizer is scheduled, its matches end, and it is invoked again.
FairSpec == Spec /\ WF_vars(Optimizer) /\ WF_vars(Invoke)

-----------------------------------------------------------------------------
(* Properties.                                                             *)

Evaluated == {x \in Points : trials[x].status = "completed"}

Accepted(x) == trials[x].evidence.decision \in {"accept", "accept_exploratory"}

\* The store is one account of the campaign: as many results as completed trials,
\* each decided on all the games of its trial, against one parameter set and with
\* no block left that could be played, and neither of the budgets is exceeded,
\* whatever was killed between two transactions (record_coordinate_result_atomically,
\* reject_pending_blocks, recover_abandoned_jobs).
BooksRight ==
  /\ search.count = Cardinality(Evaluated) /\ search.count <= MaxEvaluations
  /\ Played <= MaxGames
  /\ \A x \in Points : Cardinality(trials[x].against) <= 1
  /\ \A x \in Evaluated \ {Baseline} :
       /\ trials[x].evidence.decision \in TerminalDecisions
       /\ trials[x].evidence.level = trials[x].level
       /\ trials[x].against = {trials[x].evidence.reference}
       /\ Indices(trials[x].blocks, {"pending", "interrupted", "running"}) = {}
  /\ Cardinality({b \in Points \X (1..MaxBlocks) :
                    b[2] \in Indices(trials[b[1]].blocks, {"running"})}) <= 1

\* A search that ended by itself is at a point that none of its neighbours at the
\* smallest steps has beaten, and has asked each of them (_finish_pass).
LocalOptimum ==
  search.phase = "completed" /\ ~search.stopped /\ search.pass < MaxPasses =>
    \A k \in Params, d \in {1, -1} :
      LET x == Moved(search.anchor, k, d * MinStep[k])
      IN InRange(x) => /\ x \in Evaluated
                       /\ ~(Accepted(x) /\ trials[x].against = {search.anchor})

\* The anchor moves only to a set that was accepted in games against the anchor of
\* that moment, results of earlier anchors being looked up in the store, and the
\* search ends where no step leads further (_classify, _select_coordinate).
Descends ==
  /\ []LocalOptimum
  /\ [][search'.anchor # search.anchor =>
          /\ search'.anchor \in Evaluated /\ Accepted(search'.anchor)
          /\ trials[search'.anchor].against = {search.anchor}]_vars

\* The confirmation is of the last anchor, after the search and without an effect
\* on it; it is concluded by the whole number of games, and the file holds that
\* candidate only and only when they have confirmed it (finalize_confirmation,
\* _materialize_recommendation).
ConfirmsTheAnchor ==
  /\ [](confirm.status # "none" =>
          search.phase = "completed" /\ confirm.candidate = search.anchor)
  /\ [](confirm.status = "completed" =>
          /\ campaign = "completed"
          /\ IF search.anchor = Baseline THEN confirm.blocks = <<>>
             ELSE confirm.blocks = [i \in 1..ConfirmBlocks |-> "completed"])
  /\ [](file \subseteq {confirm.candidate} /\ (file # {} => confirm.outcome = "confirmed"))
  /\ [][confirm.status # "none" => UNCHANGED search]_vars

\* The candidate that is to be evaluated has neither a block left nor a decision:
\* the optimizer was killed after the last block and before its evidence was in
\* the store.
Stuck ==
  /\ search.phase = "coordinate" /\ NeedsEvaluation
  /\ Len(Trial.blocks) = MaxBlocks
  /\ Indices(Trial.blocks, {"completed", "rejected"}) = 1..MaxBlocks
  /\ Trial.evidence.decision \notin TerminalDecisions

Concluded ==
  /\ search.phase = "completed" /\ confirm.status = "completed"
  /\ confirm.outcome = "confirmed" => file = {confirm.candidate}

\* A campaign that is invoked again after each end comes to its conclusion, but for
\* the one that is stuck: NoNextBlock then ends every invocation.
Concludes == <>[](Concluded \/ Stuck)

\* An interruption between blocks resumes the same candidate and its next block: it
\* does not when a kill comes between the last block and the evidence.
NeverStuck == ~[]<>(At("off") /\ Stuck)
=============================================================================
