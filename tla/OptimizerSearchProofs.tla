----------------------- MODULE OptimizerSearchProofs -----------------------
(***************************************************************************)
(* Proofs about OptimizerSearch, for any registry, budget and policy and   *)
(* any number of kills: what is confirmed is the anchor the search has     *)
(* ended with, on all the games, and nothing else is recommended; the      *)
(* store is one account of the campaign; the search only ever moves to a   *)
(* set that has beaten its anchor and stops where none does.               *)
(***************************************************************************)
EXTENDS OptimizerSearch, FiniteSetTheorems, WellFoundedInduction, TLAPS

\* Where the process is while a candidate is evaluated, and while one is confirmed.
Evaluating == {"create", "blocks", "next", "trial", "play", "lost", "judge", "store", "record"}

Confirming == {"confirm", "schedule", "next block", "confirming", "file"}

\* The shape of the records; a candidate can be any parameter set.
Stages ==
  {"off", "recover", "close", "enter", "load", "step", "head", "finish", "report"}
    \cup Evaluating \cup Confirming

Works == {"none", "reconcile", "search", "settle", "pass", "stop"}

Processes == [pc : Stages, doing : Works, limit : Nat, done : Nat]

Statuses == {"none", "pending", "running", "interrupted", "completed", "rejected"}

Outcomes == {"none", "confirmed", "rejected", "inconclusive"}

Confirmations(candidates) ==
  [status : Statuses, candidate : candidates, blocks : Seq(Statuses), level : Int,
   outcome : Outcomes]

Shapes == proc \in Processes /\ confirm \in Confirmations({confirm.candidate})

\* A candidate is evaluated before the search is completed, and confirmed after.
Phases ==
  /\ proc.pc \in Evaluating => search.phase # "completed"
  /\ proc.pc \in Confirming => search.phase = "completed"

\* The confirmation is of the anchor, and is there once its blocks are asked for.
OfTheAnchor ==
  /\ confirm.status # "none" => search.phase = "completed" /\ confirm.candidate = search.anchor
  /\ proc.pc \in Confirming \ {"confirm"} => confirm.status # "none"

\* Where what an invocation is doing may still say that it stops the search, and a
\* search that is being stopped, though settling may have completed it.
Early == {"recover", "close", "enter", "load", "step"}

Stopping == proc.doing = "stop" /\ proc.pc \in Early => confirm.status = "none"

AllPlayed == confirm.blocks = [i \in 1..ConfirmBlocks |-> "completed"]

\* The blocks: none for the baseline; all are there before one is played.
BlocksFit ==
  /\ confirm.status = "none" \/ Unchanged => confirm.blocks = <<>>
  /\ proc.pc \in {"next block", "confirming"} => ~Unchanged /\ Len(confirm.blocks) = ConfirmBlocks
  /\ proc.pc = "confirming" => confirm.status # "completed"

\* A completed confirmation is a completed campaign and has all its games.
Completed ==
  confirm.status = "completed" =>
    /\ campaign = "completed"
    /\ IF Unchanged THEN confirm.outcome = "inconclusive" ELSE AllPlayed

FileFits ==
  /\ file \subseteq {confirm.candidate}
  /\ file # {} => confirm.status = "completed" /\ confirm.outcome = "confirmed"

IInv == Shapes /\ Phases /\ OfTheAnchor /\ Stopping /\ BlocksFit /\ Completed /\ FileFits

-----------------------------------------------------------------------------
\* Replacing a status by another leaves as many blocks, and those alone that
\* have another status.
LEMMA ReplaceKeeps ==
  ASSUME NEW s \in Seq(Statuses), NEW old, NEW new \in Statuses
  PROVE  /\ Replace(s, old, new) \in Seq(Statuses)
         /\ Len(Replace(s, old, new)) = Len(s)
<1> DEFINE r == Replace(s, old, new)
<1>1. DOMAIN s = 1..Len(s) /\ Len(s) \in Nat /\ \A i \in 1..Len(s) : s[i] \in Statuses
  OBVIOUS
<1>2. r \in [1..Len(s) -> Statuses]
  BY <1>1 DEF Replace
<1> HIDE DEF r
<1>3. r \in Seq(Statuses)
  BY <1>1, <1>2, SMT
<1>4. Len(r) = Len(s)
  BY <1>1, <1>2, <1>3, SMT
<1> QED BY <1>3, <1>4 DEF r

-----------------------------------------------------------------------------
LEMMA InitIInv == Init => IInv
<1> SUFFICES ASSUME Init PROVE IInv
  OBVIOUS
<1>0. /\ proc = Off /\ confirm = NoConfirmation /\ file = {}
      /\ search.phase # "completed"
  BY DEF Init, NoSearch
<1>1. Shapes
  <2>1. proc \in Processes
    BY <1>0 DEF Off, Processes, Stages, Works
  <2>2. <<>> \in Seq(Statuses)
    OBVIOUS
  <2>3. confirm \in Confirmations({Baseline}) /\ confirm.candidate = Baseline
    BY <1>0, <2>2 DEF NoConfirmation, Confirmations, Statuses, Outcomes
  <2> QED BY <2>1, <2>3 DEF Shapes
<1>2. Phases /\ OfTheAnchor /\ Stopping
  BY <1>0 DEF Off, NoConfirmation, Phases, OfTheAnchor, Stopping, Evaluating, Confirming
<1>3. BlocksFit /\ Completed /\ FileFits
  BY <1>0 DEF Off, NoConfirmation, BlocksFit, Completed, FileFits
<1> QED BY <1>1, <1>2, <1>3 DEF IInv

-----------------------------------------------------------------------------
\* Steps that leave the confirmation, its file, the search and the status of the
\* campaign alone keep the invariant if the process stays in its phase.
LEMMA Elsewhere ==
  ASSUME IInv, UNCHANGED <<campaign, search, confirm, file>>,
         proc' \in Processes,
         proc'.pc \in Evaluating => search.phase # "completed",
         proc'.pc \notin Confirming,
         proc'.doing = "stop" /\ proc'.pc \in Early => confirm.status = "none"
  PROVE  IInv'
<1> USE DEF IInv
<1>1. Shapes'
  BY DEF Shapes
<1>2. Phases' /\ OfTheAnchor' /\ Stopping'
  BY DEF Phases, OfTheAnchor, Stopping
<1>3. BlocksFit'
  BY DEF BlocksFit, Confirming, Unchanged
<1>4. Completed' /\ FileFits'
  BY DEF Completed, FileFits, AllPlayed, Unchanged
<1> QED BY <1>1, <1>2, <1>3, <1>4

\* A step of the search or of its results before there is a confirmation.
LEMMA BeforeConfirmation ==
  ASSUME IInv, UNCHANGED <<confirm, file>>, confirm.status = "none",
         proc' \in Processes,
         proc'.pc \notin Evaluating \cup Confirming
  PROVE  IInv'
<1> USE DEF IInv
<1>2. Shapes'
  BY DEF Shapes
<1>3. Phases' /\ OfTheAnchor' /\ Stopping'
  BY DEF Phases, OfTheAnchor, Stopping
<1>4. BlocksFit'
  BY DEF BlocksFit, Confirming, Unchanged
<1>5. Completed' /\ FileFits'
  BY DEF Completed, FileFits
<1> QED BY <1>2, <1>3, <1>4, <1>5

\* A step that changes the status of the campaign at most, and not of one that a
\* confirmation has completed.
LEMMA StatusOnly ==
  ASSUME IInv, UNCHANGED <<search, confirm, file>>,
         confirm.status = "completed" => campaign' = campaign,
         proc' \in Processes,
         proc'.pc \notin Evaluating,
         proc'.pc \in Confirming => search.phase = "completed" /\ proc'.pc = "confirm",
         proc'.doing = "stop" /\ proc'.pc \in Early => confirm.status = "none"
  PROVE  IInv'
<1> USE DEF IInv
<1>1. Shapes'
  BY DEF Shapes
<1>2. Phases' /\ OfTheAnchor' /\ Stopping'
  BY DEF Phases, OfTheAnchor, Stopping, Confirming
<1>3. BlocksFit'
  BY DEF BlocksFit, Confirming, Unchanged
<1>4. Completed' /\ FileFits'
  BY DEF Completed, FileFits, AllPlayed, Unchanged
<1> QED BY <1>1, <1>2, <1>3, <1>4

-----------------------------------------------------------------------------
\* Where the process is after a step.
LEMMA GoesTo ==
  ASSUME proc \in Processes, NEW pc \in Stages, Goto(pc)
  PROVE  proc' \in Processes /\ proc'.pc = pc /\ proc'.doing = proc.doing
  BY DEF Processes, Goto

LEMMA OffIs == Off \in Processes /\ Off.pc = "off" /\ Off.doing = "none"
  BY DEF Off, Processes, Stages, Works

LEMMA CountedIsNat == proc \in Processes => Counted \in Nat
  BY DEF Processes, Counted

\* What an invocation does around the search leaves search and confirmation alone.
LEMMA StepInInvocation ==
  ASSUME IInv,
         \/ Invoke \/ Recover \/ CloseTerminal \/ LoopHead \/ StepsDone \/ Evaluate
         \/ Release \/ Kill
  PROVE  IInv'
<1> USE DEF At
<1>0. /\ proc \in Processes
      /\ proc.doing = "stop" /\ proc.pc \in Early => confirm.status = "none"
      /\ search.phase # "completed" => confirm.status = "none"
  BY DEF IInv, Shapes, Stopping, OfTheAnchor
<1>1. CASE Invoke
  <2> PICK limit \in Limits : Start(limit)
    BY <1>1 DEF Invoke
  <2>1. limit \in Nat
    BY SearchAssumption
  <2>2. proc' \in Processes /\ proc'.pc = "recover" /\ proc'.doing = "reconcile"
    BY <2>1 DEF Start, Processes, Stages, Works
  <2> QED BY <2>2, Elsewhere DEF Start, Evaluating, Confirming
<1>2. CASE Recover
  <2>1. proc' \in Processes /\ proc'.pc = "close" /\ proc'.doing = proc.doing
    BY <1>0, <1>2, GoesTo DEF Recover, Stages, Evaluating, Confirming
  <2> QED BY <1>0, <1>2, <2>1, Elsewhere DEF Recover, Evaluating, Confirming, Early
<1>3. CASE CloseTerminal
  <2>1. proc' \in Processes /\ proc'.pc = "enter" /\ proc'.doing = proc.doing
    BY <1>0, <1>3, GoesTo DEF CloseTerminal, Stages, Evaluating, Confirming
  <2> QED BY <1>0, <1>3, <2>1, Elsewhere DEF CloseTerminal, Evaluating, Confirming, Early
<1>4. CASE LoopHead
  <2>1. proc' \in Processes /\ proc'.pc \in {"report", "step"}
    BY <1>0, <1>4 DEF LoopHead, Goto, Processes, Stages, Works
  <2>2. proc'.doing = "stop" /\ proc'.pc \in Early => confirm.status = "none"
    BY <1>0, <1>4, <2>1 DEF LoopHead, Goto, Processes, Early
  <2> QED BY <1>4, <2>1, <2>2, Elsewhere DEF LoopHead, Evaluating, Confirming
<1>5. CASE StepsDone
  <2>1. proc' \in Processes /\ proc'.pc = "finish"
    BY <1>0, <1>5, GoesTo DEF StepsDone, Stages, Evaluating, Confirming
  <2> QED BY <1>5, <2>1, Elsewhere DEF StepsDone, Evaluating, Confirming, Early
<1>6. CASE Evaluate
  <2>1. proc' \in Processes /\ proc'.pc = "create"
    BY <1>0, <1>6, GoesTo DEF Evaluate, Stages, Evaluating, Confirming
  <2> QED BY <1>6, <2>1, Elsewhere DEF Evaluate, Evaluating, Confirming, Early
<1>7. CASE Release
  BY <1>0, <1>7, OffIs, Elsewhere DEF Release, Evaluating, Confirming, Early
<1>8. CASE Kill
  BY <1>0, <1>8, OffIs, Elsewhere DEF Kill, Evaluating, Confirming, Early
<1> QED BY <1>1, <1>2, <1>3, <1>4, <1>5, <1>6, <1>7, <1>8

\* The blocks of a candidate change its trial alone.
LEMMA StepInEvaluation ==
  ASSUME IInv,
         \/ CreateTrial \/ CreateBlock \/ Resume \/ ClaimBlock \/ NoNextBlock \/ EnsureTrial
         \/ BlockCompletes \/ MatchFails \/ Lost \/ Continue \/ CloseBudget \/ StoreEvidence
  PROVE  IInv'
<1>1. proc \in Processes /\ (proc.pc \in Evaluating => search.phase # "completed")
  BY DEF IInv, Shapes, Phases
<1>2. proc.pc \in Evaluating
  BY DEF At, CreateTrial, CreateBlock, Resume, ClaimBlock, NoNextBlock, EnsureTrial,
         BlockCompletes, MatchFails, Lost, Continue, CloseBudget, StoreEvidence, Evaluating
<1>3. UNCHANGED <<campaign, search, confirm, file>>
  BY DEF CreateTrial, CreateBlock, Resume, ClaimBlock, NoNextBlock, EnsureTrial, OnlyTrial,
         BlockCompletes, MatchFails, Lost, Continue, CloseBudget, StoreEvidence
<1>4. \/ proc' = Off \/ proc' = proc
      \/ \E pc \in Evaluating : Goto(pc)
  BY DEF CreateTrial, CreateBlock, Resume, ClaimBlock, NoNextBlock, EnsureTrial, Evaluating,
         BlockCompletes, MatchFails, Lost, Continue, CloseBudget, StoreEvidence
<1>5. proc' \in Processes /\ proc'.pc \in Evaluating \cup {"off"}
  BY <1>1, <1>2, <1>4, GoesTo, OffIs DEF Stages
<1> QED BY <1>1, <1>2, <1>3, <1>5, Elsewhere DEF Evaluating, Confirming, Early

\* The steps of the search, and the result that brings it further.
LEMMA StepOfSearch ==
  ASSUME IInv,
         \/ SkipCandidate \/ ReuseResult \/ SelectCoordinate \/ FinishPass
         \/ StopSearch \/ RecordResult
  PROVE  IInv'
<1>0. /\ proc \in Processes
      /\ proc.doing = "stop" /\ proc.pc \in Early => confirm.status = "none"
      /\ search.phase # "completed" => confirm.status = "none"
  BY DEF IInv, Shapes, Stopping, OfTheAnchor
<1>1. CASE SkipCandidate \/ ReuseResult \/ SelectCoordinate \/ FinishPass
  <2>1. search.phase # "completed" /\ proc.pc = "step" /\ UNCHANGED <<confirm, file>>
    BY <1>1 DEF SkipCandidate, ReuseResult, SelectCoordinate, FinishPass, Stepping, Settled, At
  <2>2. proc' \in Processes /\ proc'.pc = "step"
    BY <1>0, <1>1, <2>1 DEF SkipCandidate, ReuseResult, SelectCoordinate, FinishPass,
                            Processes, Works
  <2> QED BY <1>0, <2>1, <2>2, BeforeConfirmation DEF Evaluating, Confirming
<1>2. CASE StopSearch
  <2>1. proc' \in Processes /\ proc'.pc = "finish"
    BY <1>0, <1>2, GoesTo DEF StopSearch, Stages, Evaluating, Confirming
  <2>2. confirm.status = "none"
    BY <1>0, <1>2 DEF StopSearch, At, Early
  <2> QED BY <1>2, <2>1, <2>2, BeforeConfirmation DEF StopSearch, Evaluating, Confirming
<1>3. CASE RecordResult
  <2>1. search.phase # "completed"
    BY <1>3 DEF RecordResult, At, IInv, Phases, Evaluating
  <2>2. proc' \in Processes /\ proc'.pc = "step"
    BY <1>0, <1>3, CountedIsNat DEF RecordResult, Processes, Stages, Works
  <2> QED BY <1>0, <1>3, <2>1, <2>2, BeforeConfirmation DEF RecordResult, Evaluating, Confirming
<1> QED BY <1>1, <1>2, <1>3

\* What sets the status of the campaign leaves that of a concluded one.
LEMMA StepOfStatus ==
  ASSUME IInv, Enter \/ Load \/ Finish \/ BeginConfirmation \/ Control
  PROVE  IInv'
<1>0. /\ proc \in Processes
      /\ confirm.status = "completed" => campaign = "completed"
      /\ proc.doing = "stop" /\ proc.pc \in Early => confirm.status = "none"
      /\ search.phase # "completed" => confirm.status = "none"
  BY DEF IInv, Shapes, Completed, Stopping, OfTheAnchor
<1>1. CASE Enter
  <2>1. proc' \in Processes /\ proc'.pc = "load" /\ proc'.doing = proc.doing
    BY <1>0, <1>1, GoesTo DEF Enter, Stages, Evaluating, Confirming
  <2> QED BY <1>0, <1>1, <2>1, StatusOnly DEF Enter, At, Evaluating, Confirming, Early
<1>2. CASE Load
  <2>1. /\ proc' \in Processes /\ proc'.pc = "step" /\ proc'.doing = proc.doing
        /\ UNCHANGED <<campaign, confirm, file>>
    BY <1>0, <1>2, GoesTo DEF Load, Stages
  <2>2. CASE search.phase = "none"
    BY <1>0, <2>1, <2>2, BeforeConfirmation DEF Evaluating, Confirming
  <2>3. CASE search.phase # "none"
    BY <1>0, <1>2, <2>1, <2>3, StatusOnly DEF Load, At, Evaluating, Confirming, Early
  <2> QED BY <2>2, <2>3
<1>3. CASE Finish
  <2>1. proc' \in Processes /\ proc'.pc \in {"report", "head"}
    BY <1>0, <1>3, GoesTo DEF Finish, Stages
  <2>2. confirm.status = "completed" => campaign' = campaign
    BY <1>0, <1>3 DEF Finish
  <2> QED BY <1>3, <2>1, <2>2, StatusOnly DEF Finish, Evaluating, Confirming, Early
<1>4. CASE BeginConfirmation
  <2>1. proc' \in Processes /\ proc'.pc = "confirm"
    BY <1>0, <1>4, GoesTo DEF BeginConfirmation, Stages, Evaluating, Confirming
  <2> QED BY <1>0, <1>4, <2>1, StatusOnly DEF BeginConfirmation, Evaluating, Confirming, Early
<1>5. CASE Control
  BY <1>0, <1>5, StatusOnly DEF Control, At, Evaluating, Confirming, Early
<1> QED BY <1>1, <1>2, <1>3, <1>4, <1>5

-----------------------------------------------------------------------------
\* A confirmation that is not concluded: what a step that changes its status and
\* its blocks must leave as it is.
LEMMA OpenConfirmation ==
  ASSUME IInv, UNCHANGED <<campaign, search, file>>,
         search.phase = "completed", confirm.status # "completed",
         confirm'.status \notin {"none", "completed"},
         confirm'.candidate = search.anchor,
         confirm' \in Confirmations({confirm'.candidate}),
         confirm'.candidate = Baseline => confirm'.blocks = <<>>,
         proc' \in Processes,
         proc'.pc \notin Evaluating \cup Early,
         proc'.pc \in {"next block", "confirming"} =>
           confirm'.candidate # Baseline /\ Len(confirm'.blocks) = ConfirmBlocks
  PROVE  IInv'
<1> USE DEF IInv
<1>1. file = {}
  BY DEF FileFits
<1>2. Shapes' /\ Phases'
  BY DEF Shapes, Phases
<1>3. OfTheAnchor' /\ Stopping' /\ BlocksFit'
  BY DEF OfTheAnchor, Stopping, BlocksFit, Unchanged
<1>4. Completed' /\ FileFits'
  BY <1>1 DEF Completed, FileFits
<1> QED BY <1>2, <1>3, <1>4

\* The end of the confirmation.
LEMMA Concluding ==
  ASSUME IInv, NEW outcome \in Outcomes, Finalize(outcome),
         search.phase = "completed", confirm.status # "none",
         IF Unchanged THEN outcome = "inconclusive"
                      ELSE confirm.status # "completed" /\ AllPlayed
  PROVE  IInv'
<1> USE DEF IInv
<1>1. /\ confirm'.status = "completed" /\ confirm'.outcome = outcome
      /\ confirm'.candidate = confirm.candidate /\ confirm'.blocks = confirm.blocks
      /\ confirm' \in Confirmations({confirm'.candidate})
  BY DEF Shapes, Finalize, Confirmations, Statuses
<1>2. campaign' = "completed" /\ UNCHANGED <<search, file>>
  BY DEF Finalize
<1>3. proc' \in Processes /\ proc'.pc = "file"
  BY GoesTo DEF Finalize, Shapes, Stages, Confirming
<1>4. file = {}
  BY DEF FileFits, Completed
<1>5. Shapes' /\ Phases' /\ OfTheAnchor' /\ Stopping'
  BY <1>1, <1>2, <1>3 DEF Shapes, Phases, OfTheAnchor, Stopping, Evaluating, Early
<1>6. BlocksFit'
  BY <1>1, <1>3 DEF BlocksFit, Unchanged
<1>7. Completed' /\ FileFits'
  BY <1>1, <1>2, <1>4 DEF Completed, FileFits, AllPlayed, Unchanged
<1> QED BY <1>5, <1>6, <1>7

\* The confirmation is created, its blocks are, and those that were running when an
\* optimizer was killed are given back.
LEMMA StepToSchedule ==
  ASSUME IInv,
         CreateConfirmation \/ NothingToConfirm \/ ScheduleBlock \/ RecoverConfirmation
  PROVE  IInv'
<1> USE DEF IInv
<1>0. /\ proc \in Processes /\ proc.pc \in Confirming /\ search.phase = "completed"
      /\ confirm \in Confirmations({confirm.candidate})
  BY DEF Shapes, Phases, At, Confirming, CreateConfirmation, NothingToConfirm, ScheduleBlock,
         RecoverConfirmation
<1>1. CASE CreateConfirmation
  <2>1. proc' \in Processes /\ proc'.pc = "schedule"
    BY <1>0, <1>1, GoesTo DEF CreateConfirmation, Stages, Confirming
  <2>2. UNCHANGED <<campaign, search, file>>
    BY <1>1 DEF CreateConfirmation, OnlyConfirm
  <2>3. CASE confirm.status = "none"
    <3>1. /\ confirm' = [confirm EXCEPT !.status = "pending", !.candidate = search.anchor]
          /\ confirm.blocks = <<>>
      BY <1>1, <2>3 DEF CreateConfirmation, BlocksFit
    <3>2. /\ confirm'.status = "pending" /\ confirm'.candidate = search.anchor
          /\ confirm'.blocks = <<>> /\ confirm' \in Confirmations({confirm'.candidate})
      BY <1>0, <3>1 DEF Confirmations, Statuses
    <3> QED BY <1>0, <2>1, <2>2, <2>3, <3>2, OpenConfirmation DEF Evaluating, Early
  <2>4. CASE confirm.status # "none"
    <3>1. confirm' = confirm
      BY <1>1, <2>4 DEF CreateConfirmation
    <3>2. Shapes' /\ Phases' /\ OfTheAnchor' /\ Stopping'
      BY <1>0, <2>1, <2>2, <2>4, <3>1 DEF Shapes, Phases, OfTheAnchor, Stopping, Evaluating, Early
    <3>3. BlocksFit' /\ Completed' /\ FileFits'
      BY <2>1, <2>2, <3>1 DEF BlocksFit, Completed, FileFits, Unchanged, AllPlayed
    <3> QED BY <3>2, <3>3
  <2> QED BY <2>3, <2>4
<1>2. CASE NothingToConfirm
  <2>1. confirm.status # "none"
    BY <1>2 DEF NothingToConfirm, At, OfTheAnchor, Confirming
  <2> QED BY <1>0, <1>2, <2>1, Concluding DEF NothingToConfirm, Outcomes
<1>3. CASE ScheduleBlock
  <2>1. confirm' = [confirm EXCEPT !.blocks = Append(confirm.blocks, "pending")]
    BY <1>3 DEF ScheduleBlock
  <2>2. confirm.blocks \in Seq(Statuses) /\ ConfirmBlocks \in Nat \ {0}
    BY <1>0, SearchAssumption DEF Confirmations
  <2>3. confirm.status # "none" /\ ~Unchanged /\ Len(confirm.blocks) < ConfirmBlocks
    BY <1>3 DEF ScheduleBlock, At, OfTheAnchor, Confirming
  <2>4. confirm.status # "completed"
    BY <2>2, <2>3 DEF Completed, AllPlayed
  <2>5. Append(confirm.blocks, "pending") \in Seq(Statuses)
    BY <2>2 DEF Statuses
  <2>6. /\ confirm'.status = confirm.status /\ confirm'.candidate = confirm.candidate
        /\ confirm' \in Confirmations({confirm'.candidate})
    BY <1>0, <2>1, <2>5 DEF Confirmations
  <2>7. proc' = proc /\ proc.pc = "schedule" /\ UNCHANGED <<campaign, search, file>>
    BY <1>3 DEF ScheduleBlock, At, OnlyConfirm
  <2> QED BY <1>0, <2>3, <2>4, <2>6, <2>7, OpenConfirmation
          DEF OfTheAnchor, Unchanged, Evaluating, Early
<1>4. CASE RecoverConfirmation
  <2>0. /\ confirm.status # "none" /\ ~Unchanged /\ Len(confirm.blocks) = ConfirmBlocks
        /\ confirm.candidate = search.anchor
    BY <1>4 DEF RecoverConfirmation, At, OfTheAnchor, Confirming
  <2>1. proc' \in Processes /\ proc'.pc = "next block"
    BY <1>0, <1>4, GoesTo DEF RecoverConfirmation, Stages, Confirming
  <2>2. UNCHANGED <<campaign, search, file>>
    BY <1>4 DEF RecoverConfirmation, OnlyConfirm
  <2>3. CASE "running" \in {confirm.blocks[i] : i \in DOMAIN confirm.blocks}
    <3> DEFINE given == Replace(confirm.blocks, {"running"}, "interrupted")
    <3>1. given \in Seq(Statuses) /\ Len(given) = Len(confirm.blocks)
      <4>1. confirm.blocks \in Seq(Statuses) /\ "interrupted" \in Statuses
        BY <1>0 DEF Confirmations, Statuses
      <4> QED BY <4>1, ReplaceKeeps
    <3>2. confirm' = [confirm EXCEPT !.status = "interrupted", !.blocks = given]
      BY <1>4, <2>3 DEF RecoverConfirmation
    <3>3. confirm.status # "completed"
      BY <2>0, <2>3 DEF Completed, AllPlayed
    <3> HIDE DEF given
    <3>4. /\ confirm'.status = "interrupted" /\ confirm'.candidate = confirm.candidate
          /\ confirm'.blocks = given /\ confirm' \in Confirmations({confirm'.candidate})
      BY <1>0, <3>1, <3>2 DEF Confirmations, Statuses
    <3> QED BY <1>0, <2>0, <2>1, <2>2, <3>1, <3>3, <3>4, OpenConfirmation
            DEF Unchanged, Evaluating, Early
  <2>4. CASE "running" \notin {confirm.blocks[i] : i \in DOMAIN confirm.blocks}
    <3>1. confirm' = confirm
      BY <1>4, <2>4 DEF RecoverConfirmation
    <3>2. Shapes' /\ Phases' /\ OfTheAnchor' /\ Stopping'
      BY <1>0, <2>0, <2>1, <2>2, <3>1 DEF Shapes, Phases, OfTheAnchor, Stopping, Evaluating, Early
    <3>3. BlocksFit' /\ Completed' /\ FileFits'
      BY <2>0, <2>1, <2>2, <3>1 DEF BlocksFit, Completed, FileFits, Unchanged, AllPlayed
    <3> QED BY <3>2, <3>3
  <2> QED BY <2>3, <2>4
<1> QED BY <1>1, <1>2, <1>3, <1>4

\* The blocks are played, and the outcome is written.
LEMMA StepOfConfirmation ==
  ASSUME IInv,
         \/ ConfirmedAlready \/ ClaimConfirmationBlock \/ ConfirmationCompletes
         \/ ConfirmationFails \/ Conclude \/ WriteRecommendation
  PROVE  IInv'
<1> USE DEF IInv
<1>0. /\ proc \in Processes /\ proc.pc \in Confirming \ {"confirm", "schedule"}
      /\ search.phase = "completed" /\ confirm.status # "none"
      /\ confirm.candidate = search.anchor
      /\ confirm \in Confirmations({confirm.candidate})
  BY DEF Shapes, Phases, OfTheAnchor, At, Confirming, ConfirmedAlready,
         ClaimConfirmationBlock, ConfirmationCompletes, ConfirmationFails, Conclude,
         WriteRecommendation
<1>1. confirm.blocks \in Seq(Statuses) /\ ConfirmBlocks \in Nat \ {0}
  BY <1>0, SearchAssumption DEF Confirmations
<1>2. CASE ConfirmedAlready
  <2>1. proc' \in Processes /\ proc'.pc = "file"
    BY <1>0, <1>2, GoesTo DEF ConfirmedAlready, Stages, Confirming
  <2>2. UNCHANGED <<campaign, search, confirm, file>>
    BY <1>2 DEF ConfirmedAlready, OnlyConfirm
  <2>3. Shapes' /\ Phases' /\ OfTheAnchor' /\ Stopping'
    BY <1>0, <2>1, <2>2 DEF Shapes, Phases, OfTheAnchor, Stopping, Evaluating, Early
  <2>4. BlocksFit' /\ Completed' /\ FileFits'
    BY <2>1, <2>2 DEF BlocksFit, Completed, FileFits, Unchanged, AllPlayed
  <2> QED BY <2>3, <2>4
<1>3. CASE ClaimConfirmationBlock
  <2> DEFINE i == First(Runnable(confirm.blocks))
             claimed == [confirm.blocks EXCEPT ![i] = "running"]
  <2>0. ~Unchanged /\ Len(confirm.blocks) = ConfirmBlocks /\ confirm.status # "completed"
    BY <1>3 DEF ClaimConfirmationBlock, At, BlocksFit
  <2>1. confirm' = [confirm EXCEPT !.status = "running", !.blocks = claimed]
    BY <1>3 DEF ClaimConfirmationBlock
  <2> HIDE DEF i
  <2>2. claimed \in Seq(Statuses) /\ Len(claimed) = Len(confirm.blocks)
    <3>1. confirm.blocks \in [1..Len(confirm.blocks) -> Statuses] /\ Len(confirm.blocks) \in Nat
      BY <1>1
    <3>2. claimed \in [1..Len(confirm.blocks) -> Statuses]
      BY <3>1 DEF Statuses
    <3> HIDE DEF claimed
    <3>3. claimed \in Seq(Statuses)
      BY <3>1, <3>2
    <3> QED BY <3>1, <3>2, <3>3
  <2> HIDE DEF claimed
  <2>3. /\ confirm'.status = "running" /\ confirm'.candidate = confirm.candidate
        /\ confirm'.blocks = claimed /\ confirm' \in Confirmations({confirm'.candidate})
    BY <1>0, <2>1, <2>2 DEF Confirmations, Statuses
  <2>4. proc' \in Processes /\ proc'.pc = "confirming"
    BY <1>0, <1>3, GoesTo DEF ClaimConfirmationBlock, Stages, Confirming
  <2>5. UNCHANGED <<campaign, search, file>>
    BY <1>3 DEF ClaimConfirmationBlock, OnlyConfirm
  <2> QED BY <1>0, <2>0, <2>2, <2>3, <2>4, <2>5, OpenConfirmation DEF Unchanged, Evaluating, Early
<1>4. CASE ConfirmationCompletes
  <2> DEFINE done == Replace(confirm.blocks, {"running"}, "completed")
  <2>0. ~Unchanged /\ Len(confirm.blocks) = ConfirmBlocks /\ confirm.status # "completed"
    BY <1>4 DEF ConfirmationCompletes, At, BlocksFit
  <2>1. PICK l \in Levels : confirm' = [confirm EXCEPT !.blocks = done, !.level = l]
    BY <1>4 DEF ConfirmationCompletes
  <2>2. done \in Seq(Statuses) /\ Len(done) = Len(confirm.blocks) /\ l \in Int
    <3>1. "completed" \in Statuses
      BY DEF Statuses
    <3>2. Levels \subseteq 0..5
      BY SearchAssumption
    <3>3. l \in Int
      BY <3>2
    <3> QED BY <1>1, <3>1, <3>3, ReplaceKeeps
  <2> HIDE DEF done
  <2>3. /\ confirm'.status = confirm.status /\ confirm'.candidate = confirm.candidate
        /\ confirm'.blocks = done /\ confirm' \in Confirmations({confirm'.candidate})
    BY <1>0, <2>1, <2>2 DEF Confirmations
  <2>4. proc' \in Processes /\ proc'.pc \in {"file", "next block"}
    BY <1>0, <1>4, CountedIsNat DEF ConfirmationCompletes, Processes, Stages, Confirming
  <2>5. UNCHANGED <<campaign, search, file>>
    BY <1>4 DEF ConfirmationCompletes, OnlyConfirm
  <2> QED BY <1>0, <2>0, <2>2, <2>3, <2>4, <2>5, OpenConfirmation DEF Unchanged, Evaluating, Early
<1>5. CASE ConfirmationFails
  <2> DEFINE given == Replace(confirm.blocks, {"running"}, "interrupted")
  <2>0. ~Unchanged /\ Len(confirm.blocks) = ConfirmBlocks /\ confirm.status # "completed"
    BY <1>5 DEF ConfirmationFails, At, BlocksFit
  <2>1. confirm' = [confirm EXCEPT !.status = "interrupted", !.blocks = given]
    BY <1>5 DEF ConfirmationFails
  <2>2. given \in Seq(Statuses) /\ Len(given) = Len(confirm.blocks)
    <3>1. "interrupted" \in Statuses
      BY DEF Statuses
    <3> QED BY <1>1, <3>1, ReplaceKeeps
  <2> HIDE DEF given
  <2>3. /\ confirm'.status = "interrupted" /\ confirm'.candidate = confirm.candidate
        /\ confirm' \in Confirmations({confirm'.candidate})
    BY <1>0, <2>1, <2>2 DEF Confirmations, Statuses
  <2>4. proc' \in Processes /\ proc'.pc = "off" /\ UNCHANGED <<campaign, search, file>>
    BY <1>5, OffIs DEF ConfirmationFails
  <2> QED BY <1>0, <2>0, <2>3, <2>4, OpenConfirmation DEF Unchanged, Evaluating, Early
<1>6. CASE Conclude
  <2>1. ~Unchanged /\ Len(confirm.blocks) = ConfirmBlocks /\ confirm.status # "completed"
    BY <1>6 DEF Conclude, At, BlocksFit
  <2>2. AllPlayed
    <3>1. DOMAIN confirm.blocks = 1..ConfirmBlocks
      BY <1>1, <2>1
    <3>2. \A i \in DOMAIN confirm.blocks : confirm.blocks[i] = "completed"
      BY <1>6 DEF Conclude
    <3>3. confirm.blocks = [i \in DOMAIN confirm.blocks |-> confirm.blocks[i]]
      BY <1>1
    <3> QED BY <3>1, <3>2, <3>3 DEF AllPlayed
  <2>3. Outcome \in Outcomes /\ Finalize(Outcome)
    BY <1>6 DEF Conclude, Outcome, Outcomes
  <2> QED BY <1>0, <2>1, <2>2, <2>3, Concluding
<1>7. CASE WriteRecommendation
  <2>1. proc' \in Processes /\ proc'.pc = "off" /\ UNCHANGED <<campaign, search, confirm>>
    BY <1>7, OffIs DEF WriteRecommendation
  <2>2. Shapes' /\ Phases' /\ OfTheAnchor' /\ Stopping'
    BY <2>1 DEF Shapes, Phases, OfTheAnchor, Stopping, Evaluating, Early, Confirming
  <2>3. BlocksFit' /\ Completed'
    BY <2>1 DEF BlocksFit, Completed, Unchanged, AllPlayed
  <2>4. FileFits'
    BY <1>7, <2>1 DEF WriteRecommendation, Recommends, FileFits
  <2> QED BY <2>2, <2>3, <2>4
<1> QED BY <1>2, <1>3, <1>4, <1>5, <1>6, <1>7

-----------------------------------------------------------------------------
LEMMA Inductive == IInv /\ [Next]_vars => IInv'
<1> SUFFICES ASSUME IInv, [Next]_vars PROVE IInv'
  OBVIOUS
<1>1. CASE UNCHANGED vars
  BY <1>1 DEF vars, IInv, Shapes, Phases, OfTheAnchor, Stopping, BlocksFit,
              Completed, FileFits, Unchanged, AllPlayed
<1>2. CASE Next
  BY <1>2, StepInInvocation, StepInEvaluation, StepOfSearch, StepOfStatus, StepToSchedule,
     StepOfConfirmation DEF Next, Optimizer, SearchStep, Evaluation, Confirmation
<1> QED BY <1>1, <1>2

\* The search is done once there is a confirmation: its steps are those of a search
\* that is not completed.
LEMMA SearchAtRest ==
  ASSUME IInv, [Next]_vars, confirm.status # "none"
  PROVE  UNCHANGED search
<1>1. search.phase = "completed"
  BY DEF IInv, OfTheAnchor
<1>2. ~(proc.pc \in Evaluating)
  BY <1>1 DEF IInv, Phases
<1>3. CASE UNCHANGED vars
  BY <1>3 DEF vars
<1>4. CASE Load
  BY <1>1, <1>4 DEF Load
<1>5. CASE SkipCandidate \/ ReuseResult \/ SelectCoordinate \/ FinishPass
  BY <1>1, <1>5 DEF SkipCandidate, ReuseResult, SelectCoordinate, FinishPass, Stepping, Settled
<1>6. CASE StopSearch
  BY <1>6 DEF StopSearch, At, IInv, Stopping, Early
<1>7. CASE RecordResult
  BY <1>2, <1>7 DEF RecordResult, At, Evaluating
<1>8. CASE Invoke \/ Recover \/ CloseTerminal \/ Enter \/ LoopHead \/ Finish \/ Release
           \/ StepsDone \/ Evaluate \/ Kill \/ Control
  BY <1>8 DEF Invoke, Start, Recover, CloseTerminal, Enter, LoopHead, Finish, Release,
              StepsDone, Evaluate, Kill, Control
<1>9. CASE CreateTrial \/ CreateBlock \/ Resume \/ ClaimBlock \/ NoNextBlock \/ EnsureTrial
           \/ BlockCompletes \/ MatchFails \/ Lost \/ Continue \/ CloseBudget \/ StoreEvidence
  BY <1>9 DEF CreateTrial, CreateBlock, Resume, ClaimBlock, NoNextBlock, EnsureTrial,
              BlockCompletes, MatchFails, Lost, Continue, CloseBudget, StoreEvidence, OnlyTrial
<1>10. CASE Confirmation \/ ConfirmationFails
  BY <1>10 DEF Confirmation, BeginConfirmation, CreateConfirmation, NothingToConfirm,
               ScheduleBlock, RecoverConfirmation, ConfirmedAlready, ClaimConfirmationBlock,
               ConfirmationCompletes, ConfirmationFails, Conclude, WriteRecommendation,
               Finalize, OnlyConfirm
<1> QED BY <1>3, <1>4, <1>5, <1>6, <1>7, <1>8, <1>9, <1>10
        DEF Next, Optimizer, SearchStep, Evaluation

-----------------------------------------------------------------------------
\* The invariant holds in every state of every campaign.
THEOREM SearchInvariant == Spec => []IInv
<1>1. Init => IInv
  BY InitIInv
<1>2. IInv /\ [Next]_vars => IInv'
  BY Inductive
<1> QED BY <1>1, <1>2, PTL DEF Spec

\* The confirmation is of the last anchor, leaves the search as it is and is concluded
\* by all its games, and the file holds that candidate only and only when they have
\* confirmed it (confirmation.py), after any number of kills and failed matches.
THEOREM ConfirmationIsRight == Spec => ConfirmsTheAnchor
<1> DEFINE Anchored == confirm.status # "none" =>
                         search.phase = "completed" /\ confirm.candidate = search.anchor
           Whole == confirm.status = "completed" =>
                      /\ campaign = "completed"
                      /\ IF search.anchor = Baseline THEN confirm.blocks = <<>>
                         ELSE confirm.blocks = [i \in 1..ConfirmBlocks |-> "completed"]
           Filed == file \subseteq {confirm.candidate} /\ (file # {} => confirm.outcome = "confirmed")
           Rests == confirm.status # "none" => UNCHANGED search
<1>1. IInv => Anchored /\ Whole /\ Filed
  BY DEF IInv, OfTheAnchor, BlocksFit, Completed, FileFits, Unchanged, AllPlayed
<1>2. IInv /\ [Next]_vars => [Rests]_vars
  BY SearchAtRest
<1> HIDE DEF Anchored, Whole, Filed, Rests
<1>3. Spec => []Anchored /\ []Whole /\ []Filed
  BY <1>1, SearchInvariant, PTL
<1>4. Spec => [][Rests]_vars
  BY <1>2, SearchInvariant, PTL DEF Spec
<1> QED BY <1>3, <1>4 DEF ConfirmsTheAnchor, Anchored, Whole, Filed, Rests

-----------------------------------------------------------------------------
(* The books: trials, their blocks, and what the search knows of them.     *)

Vectors == [Params -> Int]

BlockStatuses == Statuses \ {"none"}

Decisions == TerminalDecisions \cup {"none", "continue", "interrupted", "baseline"}

Evidences == [decision : Decisions, level : Int, reference : Vectors]

Rows ==
  [status : Statuses, blocks : Seq(BlockStatuses), level : Int, evidence : Evidences,
   against : SUBSET Vectors]

Verdicts == {"none", "win", "loss", "uncertain"}

Searches ==
  [phase : {"none", "baseline", "coordinate", "completed"}, pass : Nat, param : Nat \ {0},
   direction : {1, -1, 0}, step : [Params -> Nat \ {0}], anchor : Vectors,
   results : [{1, -1} -> Verdicts], improved : BOOLEAN, count : Nat, stopped : BOOLEAN]

BookTypes ==
  /\ trials \in [Points -> Rows]
  /\ search \in Searches
  /\ \A k \in Params : MinStep[k] <= search.step[k]

Has(t, statuses) == \E i \in DOMAIN t.blocks : t.blocks[i] \in statuses

Done(t) == \A i \in DOMAIN t.blocks : t.blocks[i] \in {"completed", "rejected"}

Decided(t) == t.evidence.decision \in TerminalDecisions

Open(t) == t.status \notin {"none", "completed"}

\* Blocks are played in order, and rejected all together.
Ordered(t) ==
  /\ \A i, j \in DOMAIN t.blocks :
       i < j /\ t.blocks[j] \in {"completed", "interrupted", "running"} => t.blocks[i] = "completed"
  /\ Has(t, {"rejected"}) => Len(t.blocks) = MaxBlocks /\ Done(t)

\* A row by itself: a decision is on all its blocks, all against one parameter set.
RowFits(t) ==
  /\ Len(t.blocks) <= MaxBlocks /\ Ordered(t)
  /\ \A a, b \in t.against : a = b
  /\ t.status = "none" => t.blocks = <<>> /\ t.against = {} /\ ~Decided(t)
  /\ t.status = "completed" => Done(t)
  /\ Decided(t) => /\ Len(t.blocks) = MaxBlocks /\ Done(t)
                   /\ t.evidence.level = t.level /\ t.against = {t.evidence.reference}

RowsFit ==
  \A x \in Points :
    /\ RowFits(trials[x])
    /\ trials[x].status = "completed" /\ x # Baseline => Decided(trials[x])

\* The trial that is open is the one that the search is at, played against its anchor.
OneOpen ==
  search.phase # "completed" =>
    \A x \in Points : Open(trials[x]) =>
      NeedsEvaluation /\ x = Point /\ trials[x].against \subseteq {search.anchor}

\* Before the baseline is recorded nothing has been played.
Fresh ==
  search.phase \in {"none", "baseline"} =>
    /\ \A x \in Points :
         /\ trials[x].status \in {"none", "pending"} /\ trials[x].blocks = <<>>
         /\ trials[x].against = {} /\ ~Decided(trials[x])
    /\ search.anchor = Baseline /\ search.param = 1 /\ search.direction = 1
    /\ search.results = NoResults

\* A block that is running is being played, or its optimizer was killed.
RunningInv ==
  \A x \in Points : Has(trials[x], {"running"}) =>
    search.phase # "completed" /\ proc.pc \in {"trial", "play", "off", "recover"}

\* The trial has enough games for a decision.
MayDecide(t) ==
  LET played == Cardinality(Indices(t.blocks, {"completed"}))
  IN played >= MinBlocks /\ ~(t.level > 0 /\ played < MaxBlocks)

\* Where an invocation is before its first step of the search.
Opening == {"recover", "close", "enter", "load"}

\* What is known of the open trial at each place of its evaluation.
PlaceFits(pc, t) ==
  /\ t.status # "none"
  /\ pc # "record" => search.phase = "coordinate"
  /\ pc \notin {"record", "blocks"} => Len(t.blocks) = MaxBlocks
  /\ pc \in {"trial", "play"} => Has(t, {"running"})
  /\ pc = "judge" => /\ \A i \in DOMAIN t.blocks : t.blocks[i] \in {"completed", "pending"}
                     /\ t.against = {search.anchor}
  /\ pc = "store" => Done(t) /\ t.against = {search.anchor} /\ MayDecide(t)
  /\ pc = "record" => search.phase = "baseline" \/ Decided(t)

Places ==
  /\ proc.pc \in Evaluating =>
       NeedsEvaluation /\ (proc.pc # "create" => PlaceFits(proc.pc, Trial))
  /\ proc.pc \in {"step", "head", "finish"} \cup Evaluating => search.phase # "none"
  /\ proc.pc \in Opening => proc.doing = "reconcile"

Booked ==
  IsFiniteSet(Evaluated) /\ search.count = Cardinality(Evaluated) /\ search.count <= MaxEvaluations

\* The blocks that have been played, and those of one trial.
PlayedBlocks ==
  {b \in Points \X (1..MaxBlocks) : b[2] \in Indices(trials[b[1]].blocks, {"completed"})}

PlayedOf(t) == Cardinality(Indices(t.blocks, {"completed"}))

\* A candidate is begun only when the worst it can cost is left.
BudgetInv ==
  /\ IsFiniteSet(PlayedBlocks) /\ Played <= MaxGames
  /\ proc.pc = "step" /\ proc.doing = "search" =>
       search.count < MaxEvaluations /\ Played + MaxBlocks <= MaxGames
  /\ proc.pc \in Evaluating =>
       search.count < MaxEvaluations /\ Played + MaxBlocks <= MaxGames + PlayedOf(Trial)

BookInv ==
  BookTypes /\ RowsFit /\ OneOpen /\ Fresh /\ RunningInv /\ Places /\ Booked /\ BudgetInv

-----------------------------------------------------------------------------
(* The descent.                                                            *)

Beside(k, d) == Moved(search.anchor, k, d * search.step[k])

Beats(x) == x \in Evaluated /\ Accepted(x) /\ trials[x].against = {search.anchor}

\* The directions that this pass has been through.
Behind(k, d) ==
  \/ k < search.param
  \/ k = search.param /\ (d = 1 => search.direction # 1) /\ (d = -1 => search.direction = 0)

WinsInv == \A d \in {1, -1} : search.results[d] = "win" => ~PassOver /\ Beats(Neighbour(d))

\* As long as a pass has brought nothing, each neighbour behind it has been asked,
\* and has not beaten the anchor but for the one that is about to be taken.
AskedInv ==
  search.phase = "coordinate" /\ ~search.improved =>
    \A k \in Params, d \in {1, -1} : Behind(k, d) =>
      /\ InRange(Beside(k, d)) => Beside(k, d) \in Evaluated
      /\ Beats(Beside(k, d)) => k = search.param /\ search.results[d] = "win"

DescentInv == WinsInv /\ AskedInv /\ LocalOptimum

-----------------------------------------------------------------------------
(* Points, rows and statuses.                                              *)

LEMMA Constants ==
  /\ Params = 1..Len(Baseline) /\ Len(Baseline) \in Nat /\ Baseline \in Vectors
  /\ Lowest \in Vectors /\ Highest \in Vectors
  /\ MinStep \in [Params -> Nat \ {0}] /\ FirstStep \in [Params -> Nat \ {0}]
  /\ \A k \in Params : MinStep[k] <= FirstStep[k]
  /\ MaxPasses \in Nat /\ MaxEvaluations \in Nat /\ MaxBlocks \in Nat \ {0}
  /\ MinBlocks \in Nat \ {0} /\ MaxGames \in Nat /\ MinBlocks <= MaxBlocks
  /\ \A l \in Levels : l \in Int
<1>1. \A l \in Levels : l \in 0..4
  BY SearchAssumption
<1>2. MaxBlocks \in Nat \ {0}
  BY SearchAssumption
<1>3. Params = 1..Len(Baseline) /\ Len(Baseline) \in Nat /\ Baseline \in Vectors
  BY SearchAssumption DEF Params, Vectors
<1> QED BY <1>1, <1>2, <1>3, SearchAssumption DEF Vectors

LEMMA PointIs ==
  /\ \A x \in Points : x \in Vectors /\ InRange(x)
  /\ \A x \in Vectors : InRange(x) => x \in Points
  /\ Baseline \in Points
<1>1. \A x \in Points : x \in Vectors /\ InRange(x)
  BY Constants DEF Points, Vectors, InRange
<1>2. ASSUME NEW x \in Vectors, InRange(x) PROVE x \in Points
  <2>1. \A k \in Params : x[k] \in UNION {Lowest[j]..Highest[j] : j \in Params}
    BY <1>2 DEF InRange
  <2> QED BY <1>2, <2>1 DEF Points, Vectors
<1>3. InRange(Baseline)
  BY SearchAssumption, Constants DEF InRange, Vectors
<1> QED BY <1>1, <1>2, <1>3, Constants

LEMMA MovedIs ==
  ASSUME NEW x \in Vectors, NEW k \in Params, NEW by \in Int
  PROVE  Moved(x, k, by) \in Vectors
  BY DEF Moved, Vectors

\* The sets that the search can be at are vectors.
LEMMA BesideIs ==
  ASSUME BookTypes, NEW k \in Params, NEW d \in {1, -1}
  PROVE  Beside(k, d) \in Vectors
<1>1. search.anchor \in Vectors /\ search.step \in [Params -> Nat \ {0}]
  BY DEF BookTypes, Searches
<1>2. d * search.step[k] \in Int
  BY <1>1
<1> QED BY <1>1, <1>2, MovedIs DEF Beside

\* Where a candidate needs an evaluation, it is a point that is not completed.
LEMMA PointNeeds ==
  ASSUME BookTypes, Fresh, NeedsEvaluation
  PROVE  /\ Point \in Points /\ Trial \in Rows /\ Trial.status # "completed"
         /\ search.phase \in {"baseline", "coordinate"}
         /\ search.phase = "coordinate" =>
              /\ Point = Candidate /\ search.param \in Params /\ search.direction \in {1, -1}
              /\ Candidate = Beside(search.param, search.direction)
<1>1. CASE search.phase = "baseline"
  <2>1. Point = Baseline
    BY <1>1 DEF Point
  <2>2. trials[Baseline].status \in {"none", "pending"}
    BY <1>1, PointIs DEF Fresh
  <2> QED BY <1>1, <2>1, <2>2, PointIs DEF BookTypes, Trial
<1>2. CASE search.phase # "baseline"
  <2>1. /\ search.phase = "coordinate" /\ ~PassOver /\ ~BothDirections
        /\ InRange(Candidate) /\ trials[Candidate].status # "completed"
    BY <1>2 DEF NeedsEvaluation
  <2>2. search.param \in Nat \ {0} /\ search.direction \in {1, -1, 0}
    BY DEF BookTypes, Searches
  <2>3. search.param \in Params /\ search.direction \in {1, -1}
    BY <2>1, <2>2, Constants DEF PassOver, BothDirections
  <2>4. Candidate = Beside(search.param, search.direction)
    BY DEF Candidate, Beside
  <2>5. Candidate \in Points
    BY <2>1, <2>3, <2>4, BesideIs, PointIs
  <2> QED BY <2>1, <2>3, <2>4, <2>5 DEF Point, Trial, BookTypes
<1> QED BY <1>1, <1>2

\* What a replaced status becomes, one by one.
LEMMA Replaced ==
  ASSUME NEW s \in Seq(BlockStatuses), NEW old, NEW new \in BlockStatuses
  PROVE  /\ Replace(s, old, new) \in Seq(BlockStatuses)
         /\ Len(Replace(s, old, new)) = Len(s)
         /\ DOMAIN Replace(s, old, new) = DOMAIN s
         /\ \A i \in DOMAIN s :
              /\ s[i] \in old => Replace(s, old, new)[i] = new
              /\ s[i] \notin old => Replace(s, old, new)[i] = s[i]
<1> DEFINE r == Replace(s, old, new)
<1>1. DOMAIN s = 1..Len(s) /\ Len(s) \in Nat /\ \A i \in 1..Len(s) : s[i] \in BlockStatuses
  OBVIOUS
<1>2. r \in [1..Len(s) -> BlockStatuses]
  BY <1>1 DEF Replace
<1>3. \A i \in DOMAIN s : (s[i] \in old => r[i] = new) /\ (s[i] \notin old => r[i] = s[i])
  BY <1>1 DEF Replace
<1> HIDE DEF r
<1>4. r \in Seq(BlockStatuses)
  BY <1>1, <1>2, SMT
<1>5. Len(r) = Len(s)
  BY <1>1, <1>2, <1>4, SMT
<1> QED BY <1>1, <1>2, <1>3, <1>4, <1>5 DEF r

\* The blocks of one row, counted.
LEMMA PlayedIs ==
  ASSUME NEW t \in Rows
  PROVE  /\ DOMAIN t.blocks = 1..Len(t.blocks) /\ Len(t.blocks) \in Nat
         /\ \A i \in DOMAIN t.blocks : t.blocks[i] \in BlockStatuses
         /\ IsFiniteSet(Indices(t.blocks, {"completed"}))
         /\ PlayedOf(t) \in Nat /\ PlayedOf(t) <= Len(t.blocks)
<1>1. t.blocks \in Seq(BlockStatuses)
  BY DEF Rows
<1>2. /\ DOMAIN t.blocks = 1..Len(t.blocks) /\ Len(t.blocks) \in Nat
      /\ \A i \in DOMAIN t.blocks : t.blocks[i] \in BlockStatuses
  BY <1>1
<1>3. IsFiniteSet(1..Len(t.blocks)) /\ Cardinality(1..Len(t.blocks)) = Len(t.blocks)
  BY <1>2, FS_Interval
<1>4. Indices(t.blocks, {"completed"}) \subseteq 1..Len(t.blocks)
  BY <1>2 DEF Indices
<1> QED BY <1>2, <1>3, <1>4, FS_Subset, FS_CardinalityType DEF PlayedOf

-----------------------------------------------------------------------------
(* Steps that leave the books alone.                                       *)

LEMMA SameReading ==
  ASSUME UNCHANGED <<trials, search>>
  PROVE  /\ BookTypes' <=> BookTypes
         /\ RowsFit' <=> RowsFit
         /\ NeedsEvaluation' <=> NeedsEvaluation
         /\ Point' = Point /\ Trial' = Trial
         /\ OneOpen' <=> OneOpen
         /\ Fresh' <=> Fresh
         /\ Booked' <=> Booked
         /\ Evaluated' = Evaluated
         /\ PlayedBlocks' = PlayedBlocks /\ Played' = Played
         /\ DescentInv' <=> DescentInv
<1>1. trials' = trials /\ search' = search
  OBVIOUS
<1>2. BookTypes' <=> BookTypes
  BY <1>1 DEF BookTypes
<1>3. RowsFit' <=> RowsFit
  BY <1>1 DEF RowsFit
<1>4. Point' = Point /\ Trial' = Trial /\ (NeedsEvaluation' <=> NeedsEvaluation)
  BY <1>1 DEF Point, Trial, NeedsEvaluation, PassOver, BothDirections, Candidate
<1>5. OneOpen' <=> OneOpen
  BY <1>1, <1>4 DEF OneOpen
<1>6. Fresh' <=> Fresh
  BY <1>1 DEF Fresh
<1>7. Evaluated' = Evaluated
  BY <1>1 DEF Evaluated
<1>8. Booked' <=> Booked
  BY <1>1, <1>7, Zenon DEF Booked
<1>9. PlayedBlocks' = PlayedBlocks /\ Played' = Played
  BY <1>1 DEF PlayedBlocks, Played
<1>10. DescentInv' <=> DescentInv
  <2>1. WinsInv' <=> WinsInv
    BY <1>1, <1>7 DEF WinsInv, PassOver, Beats, Neighbour, Accepted
  <2>2. AskedInv' <=> AskedInv
    BY <1>1, <1>7 DEF AskedInv, Beats, Beside, Accepted, Behind
  <2>3. LocalOptimum' <=> LocalOptimum
    BY <1>1, <1>7, Zenon DEF LocalOptimum, Accepted
  <2> QED BY <2>1, <2>2, <2>3 DEF DescentInv
<1> QED BY <1>2, <1>3, <1>4, <1>5, <1>6, <1>7, <1>8, <1>9, <1>10

LEMMA SameBooks ==
  ASSUME BookInv, UNCHANGED <<trials, search>>,
         proc'.pc \notin Evaluating,
         \/ proc'.pc \in {"off", "recover"}
         \/ proc.pc \notin {"trial", "play", "off", "recover"},
         proc'.pc = "step" /\ proc'.doing = "search" =>
           search.count < MaxEvaluations /\ Played + MaxBlocks <= MaxGames,
         proc'.pc \in {"step", "head", "finish"} => search.phase # "none",
         proc'.pc \in Opening => proc'.doing = "reconcile"
  PROVE  BookInv'
<1>1. BookTypes' /\ RowsFit' /\ OneOpen' /\ Fresh' /\ Booked'
  BY SameReading DEF BookInv
<1>2. RunningInv'
  BY DEF BookInv, RunningInv
<1>3. Places'
  BY DEF Places
<1>4. BudgetInv'
  <2>1. Played' = Played /\ PlayedBlocks' = PlayedBlocks /\ search' = search
    BY SameReading
  <2>2. IsFiniteSet(PlayedBlocks) /\ Played <= MaxGames
    BY DEF BookInv, BudgetInv
  <2> QED BY <2>1, <2>2, Zenon DEF BudgetInv
<1> QED BY <1>1, <1>2, <1>3, <1>4 DEF BookInv

-----------------------------------------------------------------------------
LEMMA PlayedIsNat ==
  ASSUME BookInv
  PROVE  /\ Played \in Nat /\ Played = Cardinality(PlayedBlocks) /\ IsFiniteSet(PlayedBlocks)
         /\ search.count \in Nat
<1>1. Played = Cardinality(PlayedBlocks)
  BY DEF Played, PlayedBlocks
<1>2. IsFiniteSet(PlayedBlocks)
  BY DEF BookInv, BudgetInv
<1>3. search.count \in Nat
  BY DEF BookInv, BookTypes, Searches
<1> QED BY <1>1, <1>2, <1>3, FS_CardinalityType

\* What an invocation and its confirmation do around the search.
LEMMA AroundTheSearch ==
  ASSUME IInv, BookInv,
         \/ Invoke \/ Enter \/ LoopHead \/ Finish \/ StepsDone \/ Release \/ Kill
         \/ NoNextBlock \/ Confirmation \/ ConfirmationFails
  PROVE  BookInv' /\ UNCHANGED <<trials, search>>
<1> USE DEF At
<1>0. proc \in Processes /\ Places
  BY DEF IInv, Shapes, BookInv
<1>1. CASE Invoke
  <2>1. PICK limit \in Limits : Start(limit)
    BY <1>1 DEF Invoke
  <2>2. proc'.pc = "recover" /\ proc'.doing = "reconcile" /\ UNCHANGED <<trials, search>>
    BY <2>1 DEF Start
  <2> QED BY <2>2, SameBooks DEF Evaluating
<1>2. CASE Enter
  <2>1. /\ proc.pc = "enter" /\ proc'.pc = "load" /\ proc'.doing = proc.doing
        /\ UNCHANGED <<trials, search>>
    BY <1>0, <1>2, GoesTo DEF Enter, Stages
  <2> QED BY <1>0, <2>1, SameBooks DEF Evaluating, Places, Opening
<1>3. CASE LoopHead
  <2>1. proc.pc = "head" /\ UNCHANGED <<trials, search>> /\ search.phase # "none"
    BY <1>0, <1>3 DEF LoopHead, Places
  <2>2. proc'.pc \in {"report", "step"}
    BY <1>0, <1>3, GoesTo DEF LoopHead, Stages, Processes
  <2>3. proc'.pc = "step" /\ proc'.doing = "search" => ~OutOfBudget
    BY <1>0, <1>3 DEF LoopHead, Goto, Processes
  <2>4. ~OutOfBudget => search.count < MaxEvaluations /\ Played + MaxBlocks <= MaxGames
    <3>1. \A c, m, p, b, g \in Nat :
            ~(c >= m \/ p + b > g) => c < m /\ p + b <= g
      OBVIOUS
    <3> QED BY <3>1, PlayedIsNat, Constants DEF OutOfBudget
  <2> QED BY <2>1, <2>2, <2>3, <2>4, SameBooks DEF Evaluating, Opening
<1>4. CASE Finish
  <2>1. proc.pc = "finish" /\ UNCHANGED <<trials, search>> /\ search.phase # "none"
    BY <1>0, <1>4 DEF Finish, Places
  <2>2. proc'.pc \in {"report", "head"}
    BY <1>0, <1>4, GoesTo DEF Finish, Stages
  <2> QED BY <2>1, <2>2, SameBooks DEF Evaluating, Opening
<1>5. CASE StepsDone
  <2>1. proc.pc = "step" /\ UNCHANGED <<trials, search>> /\ search.phase # "none"
    BY <1>0, <1>5 DEF StepsDone, Places
  <2>2. proc'.pc = "finish"
    BY <1>0, <1>5, GoesTo DEF StepsDone, Stages
  <2> QED BY <2>1, <2>2, SameBooks DEF Evaluating, Opening
<1>6. CASE Release \/ Kill \/ NoNextBlock \/ ConfirmationFails
  <2>1. UNCHANGED <<trials, search>> /\ proc'.pc = "off"
    BY <1>6, OffIs DEF Release, Kill, NoNextBlock, ConfirmationFails, OnlyTrial
  <2> QED BY <2>1, SameBooks DEF Evaluating, Opening
<1>7. CASE Confirmation
  <2>1. UNCHANGED <<trials, search>>
    BY <1>7 DEF Confirmation, BeginConfirmation, CreateConfirmation, NothingToConfirm,
               ScheduleBlock, RecoverConfirmation, ConfirmedAlready, ClaimConfirmationBlock,
               ConfirmationCompletes, Conclude, WriteRecommendation, Finalize, OnlyConfirm
  <2>2. proc.pc \in Confirming \cup {"report"}
    BY <1>7 DEF Confirmation, BeginConfirmation, CreateConfirmation, NothingToConfirm,
               ScheduleBlock, RecoverConfirmation, ConfirmedAlready, ClaimConfirmationBlock,
               ConfirmationCompletes, Conclude, WriteRecommendation, Confirming
  <2>3. proc'.pc \in Confirming \cup {"off"}
    <3>1. CASE BeginConfirmation \/ CreateConfirmation \/ NothingToConfirm
               \/ RecoverConfirmation \/ ConfirmedAlready \/ ClaimConfirmationBlock \/ Conclude
      <4>1. \E pc \in Confirming : Goto(pc)
        BY <3>1 DEF BeginConfirmation, CreateConfirmation, NothingToConfirm,
               RecoverConfirmation, ConfirmedAlready, ClaimConfirmationBlock, Conclude,
               Finalize, Confirming
      <4> QED BY <1>0, <4>1, GoesTo DEF Stages
    <3>2. CASE ScheduleBlock
      BY <3>2, <2>2 DEF ScheduleBlock, Confirming
    <3>3. CASE ConfirmationCompletes
      BY <1>0, <3>3 DEF ConfirmationCompletes, Processes, Confirming
    <3>4. CASE WriteRecommendation
      BY <3>4, OffIs DEF WriteRecommendation
    <3> QED BY <1>7, <3>1, <3>2, <3>3, <3>4 DEF Confirmation
  <2> QED BY <2>1, <2>2, <2>3, SameBooks DEF Evaluating, Confirming, Opening
<1> QED BY <1>1, <1>2, <1>3, <1>4, <1>5, <1>6, <1>7

\* The reconciliation finds no block to reject: a trial that is completed is done.
LEMMA NothingToReconcile ==
  ASSUME IInv, BookInv, CloseTerminal
  PROVE  BookInv' /\ UNCHANGED <<trials, search>>
<1>1. ASSUME NEW x \in Points, trials[x].status = "completed"
      PROVE  [trials[x] EXCEPT !.blocks = Replace(@, {"pending", "interrupted"}, "rejected")]
               = trials[x]
  <2> DEFINE t == trials[x]
             b == t.blocks
             r == Replace(b, {"pending", "interrupted"}, "rejected")
  <2>1. t \in Rows /\ b \in Seq(BlockStatuses)
    BY DEF BookInv, BookTypes, Rows
  <2>2. Done(t)
    BY <1>1 DEF BookInv, RowsFit, RowFits
  <2>3. r = b
    <3>1. \A i \in DOMAIN b : b[i] \notin {"pending", "interrupted"}
      BY <2>2 DEF Done
    <3>2. r = [i \in DOMAIN b |-> b[i]]
      BY <3>1 DEF Replace
    <3> QED BY <2>1, <3>2
  <2> HIDE DEF r, b
  <2>4. [t EXCEPT !.blocks = r] = t
    BY <2>1, <2>3 DEF b, Rows
  <2> QED BY <2>4 DEF t, r, b
<1>2. trials' = trials
  <2>1. trials \in [Points -> Rows]
    BY DEF BookInv, BookTypes
  <2>2. trials' = [x \in Points |-> trials[x]]
    BY <1>1 DEF CloseTerminal
  <2> QED BY <2>1, <2>2
<1>3. proc.pc = "close" /\ proc'.pc = "enter" /\ proc'.doing = "reconcile" /\ search' = search
  <2>1. proc \in Processes
    BY DEF IInv, Shapes
  <2> QED BY <2>1, GoesTo DEF CloseTerminal, At, Stages, BookInv, Places, Opening
<1> QED BY <1>2, <1>3, SameBooks DEF Evaluating, Opening

-----------------------------------------------------------------------------
(* Steps that leave the results alone.                                     *)

\* What the descent reads: the trials that are completed.
LEMMA SameResults ==
  ASSUME BookTypes, UNCHANGED search,
         \A x \in Points :
           /\ trials'[x].status = "completed" <=> trials[x].status = "completed"
           /\ trials[x].status = "completed" =>
                trials'[x].evidence = trials[x].evidence /\ trials'[x].against = trials[x].against
  PROVE  /\ Evaluated' = Evaluated /\ Point' = Point
         /\ NeedsEvaluation' <=> NeedsEvaluation
         /\ Booked => Booked'
         /\ DescentInv => DescentInv'
<1>1. Evaluated' = Evaluated
  BY DEF Evaluated
<1>2. Point' = Point
  BY DEF Point, Candidate
<1>3. NeedsEvaluation' <=> NeedsEvaluation
  <2>1. CASE search.phase = "coordinate" /\ ~PassOver /\ ~BothDirections /\ InRange(Candidate)
    <3>1. search.param \in Params /\ search.direction \in {1, -1}
      BY <2>1, Constants DEF PassOver, BothDirections, BookTypes, Searches
    <3>2. Candidate = Beside(search.param, search.direction)
      BY DEF Candidate, Beside
    <3>3. Candidate \in Points
      BY <2>1, <3>1, <3>2, BesideIs, PointIs
    <3>4. Candidate' = Candidate
      BY DEF Candidate
    <3> QED BY <2>1, <3>3, <3>4 DEF NeedsEvaluation, PassOver, BothDirections
  <2>2. CASE ~(search.phase = "coordinate" /\ ~PassOver /\ ~BothDirections /\ InRange(Candidate))
    BY <2>2 DEF NeedsEvaluation, PassOver, BothDirections, Candidate
  <2> QED BY <2>1, <2>2
<1>4. Booked => Booked'
  <2>1. search' = search
    OBVIOUS
  <2> QED BY <1>1, <2>1, Zenon DEF Booked
<1>5. ASSUME DescentInv PROVE DescentInv'
  <2>0. \A x \in Evaluated : trials'[x].evidence = trials[x].evidence
                             /\ trials'[x].against = trials[x].against
    BY DEF Evaluated
  <2>1. \A x : Beats(x)' <=> Beats(x)
    BY <1>1, <2>0 DEF Beats, Accepted
  <2>2. WinsInv'
    BY <1>5, <2>1 DEF DescentInv, WinsInv, PassOver, Neighbour
  <2>3. AskedInv'
    BY <1>1, <1>5, <2>1 DEF DescentInv, AskedInv, Beside, Behind
  <2>4. LocalOptimum'
    BY <1>1, <1>5, <2>0 DEF DescentInv, LocalOptimum, Accepted
  <2> QED BY <2>2, <2>3, <2>4 DEF DescentInv
<1> QED BY <1>1, <1>2, <1>3, <1>4, <1>5

\* A row whose running block is given back.
LEMMA RowGivenBack ==
  ASSUME NEW t \in Rows, NEW u \in Rows, RowFits(t),
         u.blocks = Replace(t.blocks, {"running"}, "interrupted"),
         u.status = "none" <=> t.status = "none",
         u.status = "completed" <=> t.status = "completed",
         u.level = t.level, u.evidence = t.evidence, u.against = t.against
  PROVE  /\ RowFits(u) /\ ~Has(u, {"running"})
         /\ Indices(u.blocks, {"completed"}) = Indices(t.blocks, {"completed"})
         /\ t.blocks = <<>> => u.blocks = <<>>
<1> DEFINE b == t.blocks
           c == u.blocks
<1>1. b \in Seq(BlockStatuses) /\ c \in Seq(BlockStatuses)
  BY DEF Rows
<1>2. /\ Len(c) = Len(b) /\ DOMAIN c = DOMAIN b
      /\ \A i \in DOMAIN b : /\ b[i] = "running" => c[i] = "interrupted"
                             /\ b[i] # "running" => c[i] = b[i]
  <2>1. "interrupted" \in BlockStatuses
    BY DEF BlockStatuses, Statuses
  <2> QED BY <1>1, <2>1, Replaced
<1>3. DOMAIN b = 1..Len(b) /\ Len(b) \in Nat
  BY <1>1
<1>4. Len(b) <= MaxBlocks /\ Ordered(t)
  BY DEF RowFits
<1>5. Done(t) => Done(u)
  BY <1>2 DEF Done
<1>6. Ordered(u)
  <2>1. \A i, j \in DOMAIN c :
          i < j /\ c[j] \in {"completed", "interrupted", "running"} => c[i] = "completed"
    BY <1>2, <1>3, <1>4 DEF Ordered
  <2>2. Has(u, {"rejected"}) => Has(t, {"rejected"})
    BY <1>2 DEF Has
  <2> QED BY <1>2, <1>4, <1>5, <2>1, <2>2 DEF Ordered
<1>7. ~Has(u, {"running"}) /\ Indices(c, {"completed"}) = Indices(b, {"completed"})
  BY <1>2 DEF Has, Indices
<1>8. b = <<>> => c = <<>>
  BY <1>1, <1>2
<1>9. RowFits(u)
  <2>1. Len(c) <= MaxBlocks
    BY <1>2, <1>3, <1>4
  <2>2. Decided(u) <=> Decided(t)
    BY DEF Decided
  <2> QED BY <1>2, <1>5, <1>6, <1>8, <2>1, <2>2 DEF RowFits
<1> QED BY <1>7, <1>8, <1>9

\* Recovery, by an invocation or a command.
LEMMA Recovering ==
  ASSUME BookInv, trials' = Recovered, UNCHANGED search,
         proc'.pc \in {"close", "off"}, proc'.pc = "close" => proc'.doing = "reconcile"
  PROVE  BookInv' /\ (DescentInv => DescentInv')
<1>0. BookTypes /\ RowsFit
  BY DEF BookInv
<1>1. ASSUME NEW x \in Points
      PROVE  /\ trials'[x] \in Rows /\ RowFits(trials'[x])
             /\ trials'[x].status = "completed" <=> trials[x].status = "completed"
             /\ trials'[x].status = "none" <=> trials[x].status = "none"
             /\ trials[x].status = "pending" => trials'[x].status = "pending"
             /\ trials'[x].evidence = trials[x].evidence
             /\ trials'[x].against = trials[x].against
             /\ ~Has(trials'[x], {"running"})
             /\ Indices(trials'[x].blocks, {"completed"}) = Indices(trials[x].blocks, {"completed"})
             /\ trials[x].blocks = <<>> => trials'[x].blocks = <<>>
  <2> DEFINE t == trials[x]
             r == Replace(t.blocks, {"running"}, "interrupted")
             s == IF t.status = "running" THEN "interrupted" ELSE t.status
             u == [t EXCEPT !.blocks = r, !.status = s]
  <2>1. trials'[x] = u
    BY DEF Recovered
  <2>2. t \in Rows /\ RowFits(t)
    BY <1>0 DEF BookTypes, RowsFit
  <2>3. r \in Seq(BlockStatuses) /\ s \in Statuses
    BY <2>2, Replaced DEF Rows, BlockStatuses, Statuses
  <2>4. /\ s = "completed" <=> t.status = "completed"
        /\ s = "none" <=> t.status = "none"
        /\ t.status = "pending" => s = "pending"
    OBVIOUS
  <2> HIDE DEF r, s, t
  <2>5. /\ u \in Rows /\ u.blocks = r /\ u.status = s /\ u.level = t.level
        /\ u.evidence = t.evidence /\ u.against = t.against
    BY <2>2, <2>3 DEF Rows
  <2> HIDE DEF u
  <2>6. /\ RowFits(u) /\ ~Has(u, {"running"})
        /\ Indices(u.blocks, {"completed"}) = Indices(t.blocks, {"completed"})
        /\ t.blocks = <<>> => u.blocks = <<>>
    BY <2>2, <2>4, <2>5, RowGivenBack DEF r
  <2> QED BY <2>1, <2>4, <2>5, <2>6 DEF t
<1>2. BookTypes'
  <2>1. trials' \in [Points -> Rows]
    BY <1>1 DEF Recovered
  <2> QED BY <1>0, <2>1 DEF BookTypes
<1>3. /\ Evaluated' = Evaluated /\ Point' = Point /\ (NeedsEvaluation' <=> NeedsEvaluation)
      /\ Booked' /\ (DescentInv => DescentInv')
  BY <1>0, <1>1, SameResults DEF BookInv
<1>4. RowsFit'
  <2>1. \A x \in Points : Decided(trials'[x]) <=> Decided(trials[x])
    BY <1>1 DEF Decided
  <2> QED BY <1>0, <1>1, <2>1 DEF RowsFit
<1>5. OneOpen'
  <2>1. \A x \in Points : Open(trials'[x]) => Open(trials[x])
    BY <1>1 DEF Open
  <2> QED BY <1>1, <1>3, <2>1 DEF BookInv, OneOpen
<1>6. Fresh'
  <2>1. \A x \in Points : Decided(trials'[x]) <=> Decided(trials[x])
    BY <1>1 DEF Decided
  <2>2. ASSUME search.phase \in {"none", "baseline"}, NEW x \in Points
        PROVE  /\ trials'[x].status \in {"none", "pending"} /\ trials'[x].blocks = <<>>
               /\ trials'[x].against = {} /\ ~Decided(trials'[x])
    BY <1>1, <2>1, <2>2 DEF BookInv, Fresh
  <2> QED BY <2>2 DEF BookInv, Fresh
<1>7. RunningInv' /\ Places'
  BY <1>1 DEF RunningInv, Places, Evaluating, Opening
<1>8. BudgetInv'
  <2>1. PlayedBlocks' = PlayedBlocks
    BY <1>1 DEF PlayedBlocks
  <2>2. Played' = Played
    BY <2>1 DEF Played, PlayedBlocks
  <2>3. IsFiniteSet(PlayedBlocks) /\ Played <= MaxGames
    BY DEF BookInv, BudgetInv
  <2>4. proc'.pc # "step" /\ proc'.pc \notin Evaluating
    BY DEF Evaluating
  <2> QED BY <2>1, <2>2, <2>3, <2>4, Zenon DEF BudgetInv
<1> QED BY <1>2, <1>3, <1>4, <1>5, <1>6, <1>7, <1>8 DEF BookInv

-----------------------------------------------------------------------------
(* Steps of the evaluation: they change the open trial.                    *)

\* A block runs in the trial that is open.
LEMMA RunningIsOpen ==
  ASSUME BookInv, NEW x \in Points, Has(trials[x], {"running"})
  PROVE  x = Point /\ search.phase # "completed"
<1>1. RowFits(trials[x]) /\ search.phase # "completed"
  BY DEF BookInv, RowsFit, RunningInv
<1>2. trials[x].status # "completed"
  BY <1>1 DEF RowFits, Done, Has
<1>3. trials[x].status # "none"
  BY <1>1 DEF RowFits, Has
<1> QED BY <1>1, <1>2, <1>3 DEF BookInv, OneOpen, Open

\* The open trial at any place of its evaluation.
LEMMA TheTrial ==
  ASSUME BookInv, proc.pc \in Evaluating
  PROVE  /\ NeedsEvaluation /\ Point \in Points /\ Trial \in Rows /\ RowFits(Trial)
         /\ Trial.status # "completed" /\ search.phase \in {"baseline", "coordinate"}
         /\ Trial.status # "none" => Open(Trial) /\ Trial.against \subseteq {search.anchor}
         /\ Has(Trial, {"running"}) => proc.pc \in {"trial", "play"}
         /\ search.phase = "baseline" =>
              /\ Trial.status \in {"none", "pending"} /\ Trial.blocks = <<>>
              /\ Trial.against = {} /\ ~Decided(Trial)
         /\ proc.pc # "create" => PlaceFits(proc.pc, Trial) /\ Trial.status # "none"
<1>1. NeedsEvaluation /\ (proc.pc # "create" => PlaceFits(proc.pc, Trial))
  BY DEF BookInv, Places
<1>2. /\ Point \in Points /\ Trial \in Rows /\ Trial.status # "completed"
      /\ search.phase \in {"baseline", "coordinate"}
  BY <1>1, PointNeeds DEF BookInv
<1>3. RowFits(Trial)
  BY <1>2 DEF BookInv, RowsFit, Trial
<1>4. Trial.status # "none" => Open(Trial) /\ Trial.against \subseteq {search.anchor}
  BY <1>2 DEF BookInv, OneOpen, Open, Trial
<1>5. Has(Trial, {"running"}) => proc.pc \in {"trial", "play"}
  BY <1>2 DEF BookInv, RunningInv, Trial, Evaluating
<1>6. search.phase = "baseline" =>
        /\ Trial.status \in {"none", "pending"} /\ Trial.blocks = <<>>
        /\ Trial.against = {} /\ ~Decided(Trial)
  BY <1>2 DEF BookInv, Fresh, Trial
<1>7. proc.pc # "create" => Trial.status # "none"
  BY <1>1 DEF PlaceFits
<1> QED BY <1>1, <1>2, <1>3, <1>4, <1>5, <1>6, <1>7

LEMMA TrialSet ==
  ASSUME BookInv, proc.pc \in Evaluating, NEW t \in Rows, SetTrial(t)
  PROVE  /\ trials' \in [Points -> Rows] /\ trials'[Point] = t
         /\ \A x \in Points : x # Point => trials'[x] = trials[x]
<1>1. trials \in [Points -> Rows] /\ Point \in Points
  BY TheTrial DEF BookInv, BookTypes
<1> HIDE DEF Point
<1> QED BY <1>1 DEF SetTrial

\* What has been played, by a step that plays nothing and by one that plays a block.
LEMMA PlayedKept ==
  ASSUME BookInv, proc.pc \in Evaluating, NEW t \in Rows, SetTrial(t),
         Indices(t.blocks, {"completed"}) = Indices(Trial.blocks, {"completed"})
  PROVE  /\ IsFiniteSet(PlayedBlocks') /\ Played' = Played + 0
         /\ PlayedOf(t) = PlayedOf(Trial) + 0
<1>1. \A x \in Points :
        Indices(trials'[x].blocks, {"completed"}) = Indices(trials[x].blocks, {"completed"})
  BY TrialSet DEF Trial
<1>2. PlayedBlocks' = PlayedBlocks
  BY <1>1 DEF PlayedBlocks
<1>3. Played' = Played
  BY <1>2 DEF Played, PlayedBlocks
<1>4. Played \in Nat /\ IsFiniteSet(PlayedBlocks)
  BY PlayedIsNat
<1>5. Played' = Played + 0
  <2>1. PICK p \in Nat : p = Played
    BY <1>4
  <2>2. p = p + 0
    OBVIOUS
  <2> QED BY <1>3, <2>1, <2>2, Zenon
<1>6. PlayedOf(t) = PlayedOf(Trial) + 0
  <2>1. PlayedOf(t) = PlayedOf(Trial) /\ PlayedOf(Trial) \in Nat
    BY TheTrial, PlayedIs DEF PlayedOf
  <2> QED BY <2>1
<1> QED BY <1>2, <1>4, <1>5, <1>6

LEMMA PlayedOnce ==
  ASSUME BookInv, proc.pc \in Evaluating, NEW t \in Rows, SetTrial(t),
         NEW i \in 1..MaxBlocks, i \notin Indices(Trial.blocks, {"completed"}),
         Indices(t.blocks, {"completed"}) = Indices(Trial.blocks, {"completed"}) \cup {i}
  PROVE  /\ IsFiniteSet(PlayedBlocks') /\ Played' = Played + 1
         /\ PlayedOf(t) = PlayedOf(Trial) + 1
<1>1. /\ Point \in Points /\ trials'[Point] = t
      /\ \A x \in Points : x # Point => trials'[x] = trials[x]
  BY TheTrial, TrialSet
<1>2. PlayedBlocks' = PlayedBlocks \cup {<<Point, i>>}
  <2>1. \A x \in Points, j \in 1..MaxBlocks :
          j \in Indices(trials'[x].blocks, {"completed"})
            <=> j \in Indices(trials[x].blocks, {"completed"}) \/ (x = Point /\ j = i)
    BY <1>1 DEF Trial
  <2> QED BY <1>1, <2>1 DEF PlayedBlocks
<1>3. <<Point, i>> \notin PlayedBlocks
  BY DEF PlayedBlocks, Trial
<1>4. /\ IsFiniteSet(PlayedBlocks \cup {<<Point, i>>})
      /\ Cardinality(PlayedBlocks \cup {<<Point, i>>}) = Cardinality(PlayedBlocks) + 1
  BY <1>3, PlayedIsNat, FS_AddElement
<1>5. Played' = Cardinality(PlayedBlocks')
  BY DEF Played, PlayedBlocks
<1>6. PlayedOf(t) = PlayedOf(Trial) + 1
  <2>1. IsFiniteSet(Indices(Trial.blocks, {"completed"}))
    BY TheTrial, PlayedIs
  <2> QED BY <2>1, FS_AddElement DEF PlayedOf
<1>7. Played = Cardinality(PlayedBlocks)
  BY PlayedIsNat
<1>8. Played' = Played + 1
  BY <1>2, <1>4, <1>5, <1>7, Zenon
<1> QED BY <1>2, <1>4, <1>6, <1>8

\* A step that changes the open trial and leaves it open.
LEMMA TrialChanges ==
  ASSUME BookInv, proc.pc \in Evaluating, NEW t \in Rows, SetTrial(t), UNCHANGED search,
         RowFits(t), Open(t), t.against \subseteq {search.anchor},
         search.phase = "baseline" =>
           t.status = "pending" /\ t.blocks = <<>> /\ t.against = {} /\ ~Decided(t),
         Has(t, {"running"}) => proc'.pc \in {"trial", "play"},
         NEW n \in {0, 1}, IsFiniteSet(PlayedBlocks'), Played' = Played + n,
         PlayedOf(t) = PlayedOf(Trial) + n,
         proc'.pc = "off" \/ (proc'.pc \in Evaluating \ {"create"} /\ PlaceFits(proc'.pc, t))
  PROVE  BookInv' /\ (DescentInv => DescentInv')
<1>1. /\ NeedsEvaluation /\ Point \in Points /\ Trial \in Rows /\ Trial.status # "completed"
      /\ search.phase \in {"baseline", "coordinate"}
  BY TheTrial
<1>2. /\ trials' \in [Points -> Rows] /\ trials'[Point] = t
      /\ \A x \in Points : x # Point => trials'[x] = trials[x]
  BY TrialSet
<1>3. t.status # "completed" /\ t.status # "none"
  BY DEF Open
<1>4. BookTypes /\ RowsFit /\ OneOpen /\ Fresh /\ Booked /\ Places /\ BudgetInv /\ search' = search
  BY DEF BookInv
<1>5. /\ Point' = Point /\ (NeedsEvaluation' <=> NeedsEvaluation)
      /\ Booked' /\ (DescentInv => DescentInv')
  <2>1. \A x \in Points :
          /\ trials'[x].status = "completed" <=> trials[x].status = "completed"
          /\ trials[x].status = "completed" => trials'[x] = trials[x]
    BY <1>1, <1>2, <1>3 DEF Trial
  <2> QED BY <1>4, <2>1, SameResults
<1>6. Trial' = t
  BY <1>2, <1>5 DEF Trial
<1>7. BookTypes'
  BY <1>2, <1>4 DEF BookTypes
<1>8. RowsFit'
  BY <1>2, <1>3, <1>4 DEF RowsFit
<1>9. OneOpen'
  <2>1. ASSUME NEW x \in Points, Open(trials'[x])
        PROVE  x = Point /\ trials'[x].against \subseteq {search.anchor}
    BY <1>1, <1>2, <1>4, <2>1 DEF OneOpen
  <2> QED BY <1>1, <1>4, <1>5, <2>1 DEF OneOpen
<1>10. Fresh'
  <2>1. ASSUME search.phase = "baseline", NEW x \in Points
        PROVE  /\ trials'[x].status \in {"none", "pending"} /\ trials'[x].blocks = <<>>
               /\ trials'[x].against = {} /\ ~Decided(trials'[x])
    BY <1>2, <1>4, <2>1 DEF Fresh
  <2> QED BY <1>1, <1>4, <2>1 DEF Fresh
<1>11. RunningInv'
  <2>1. \A x \in Points : Has(trials'[x], {"running"}) => x = Point
    BY <1>2, RunningIsOpen
  <2> QED BY <1>1, <1>2, <1>4, <2>1 DEF RunningInv
<1>12. Places'
  <2>1. PlaceFits(proc'.pc, t) => PlaceFits(proc.pc, Trial)'
    BY <1>4, <1>6 DEF PlaceFits
  <2> QED BY <1>1, <1>4, <1>5, <2>1 DEF Places, Opening, Evaluating
<1>13. BudgetInv'
  <2>1. PICK p \in Nat, q \in Nat, r \in Nat, s \in Nat :
          p = Played /\ q = PlayedOf(Trial) /\ r = Played' /\ s = PlayedOf(t)
    <3>1. Played \in Nat /\ PlayedOf(Trial) \in Nat /\ PlayedOf(t) \in Nat
      BY <1>1, PlayedIsNat, PlayedIs
    <3>2. PICK p \in Nat : p = Played
      BY <3>1
    <3>3. p + n \in Nat
      OBVIOUS
    <3>4. Played' \in Nat
      BY <3>2, <3>3, Zenon
    <3> QED BY <3>1, <3>4
  <2>2. r = p + n /\ s = q + n
    BY <2>1, Zenon
  <2>3. s <= MaxBlocks
    <3>1. s <= Len(t.blocks) /\ Len(t.blocks) \in Nat /\ Len(t.blocks) <= MaxBlocks
      BY <2>1, PlayedIs DEF RowFits
    <3> QED BY <3>1, Constants
  <2>4. p + MaxBlocks <= MaxGames + q /\ search.count < MaxEvaluations
    BY <1>4, <2>1 DEF BudgetInv
  <2>5. r <= MaxGames /\ r + MaxBlocks <= MaxGames + s
    BY <2>2, <2>3, <2>4, Constants
  <2>6. Played' <= MaxGames /\ Played' + MaxBlocks <= MaxGames + PlayedOf(t)
    BY <2>1, <2>5, Zenon
  <2>7. proc'.pc # "step"
    BY DEF Evaluating
  <2>8. PlayedOf(Trial)' = PlayedOf(t)
    BY <1>6 DEF PlayedOf
  <2> QED BY <1>4, <2>4, <2>6, <2>7, <2>8, Zenon DEF BudgetInv
<1> QED BY <1>5, <1>7, <1>8, <1>9, <1>10, <1>11, <1>12, <1>13 DEF BookInv

-----------------------------------------------------------------------------
(* The evaluation, step by step.                                           *)

LEMMA EmptyRows ==
  /\ NoEvidence \in Evidences /\ NoEvidence.decision = "none"
  /\ NoTrial \in Rows /\ NoTrial.status = "none" /\ NoTrial.blocks = <<>>
  /\ NoTrial.evidence = NoEvidence /\ NoTrial.against = {}
<1>1. NoEvidence \in Evidences /\ NoEvidence.decision = "none"
  BY Constants DEF NoEvidence, Evidences, Decisions
<1>2. <<>> \in Seq(BlockStatuses)
  OBVIOUS
<1>3. /\ NoTrial.status = "none" /\ NoTrial.blocks = <<>>
      /\ NoTrial.evidence = NoEvidence /\ NoTrial.against = {}
  BY DEF NoTrial
<1>4. NoTrial \in Rows
  BY <1>1, <1>2 DEF NoTrial, Rows, Statuses
<1> QED BY <1>1, <1>3, <1>4

\* create_trial and create_match_block: nothing has been played yet.
LEMMA CreateTrialStep ==
  ASSUME IInv, BookInv, CreateTrial
  PROVE  BookInv' /\ (DescentInv => DescentInv')
<1>0. proc.pc = "create" /\ proc.pc \in Evaluating /\ UNCHANGED search
  BY DEF CreateTrial, At, Evaluating, OnlyTrial
<1>1. PICK pc \in {"record", "blocks"} :
        /\ proc'.pc = pc
        /\ pc = "record" => search.phase = "baseline"
        /\ pc = "blocks" => search.phase # "baseline"
  <2>1. proc \in Processes
    BY DEF IInv, Shapes
  <2> QED BY <2>1, GoesTo DEF CreateTrial, Stages, Evaluating
<1>2. /\ Trial \in Rows /\ RowFits(Trial) /\ search.phase \in {"baseline", "coordinate"}
      /\ ~Has(Trial, {"running"})
      /\ Trial.status # "none" => Open(Trial) /\ Trial.against \subseteq {search.anchor}
      /\ search.phase = "baseline" =>
           /\ Trial.status \in {"none", "pending"} /\ Trial.blocks = <<>>
           /\ Trial.against = {} /\ ~Decided(Trial)
  BY <1>0, TheTrial
<1>3. PICK t \in Rows :
        /\ SetTrial(t) /\ RowFits(t) /\ Open(t) /\ t.against \subseteq {search.anchor}
        /\ t.blocks = Trial.blocks
        /\ search.phase = "baseline" =>
             t.status = "pending" /\ t.blocks = <<>> /\ t.against = {} /\ ~Decided(t)
  <2>1. CASE Trial.status # "none"
    <3>1. SetTrial(Trial)
      BY <2>1 DEF CreateTrial
    <3> QED BY <1>2, <2>1, <3>1
  <2>2. CASE Trial.status = "none"
    <3> DEFINE t == [NoTrial EXCEPT !.status = "pending"]
    <3>1. NoTrial \in Rows /\ NoTrial.blocks = <<>> /\ NoTrial.evidence = NoEvidence
          /\ NoTrial.against = {}
      BY EmptyRows
    <3>2. /\ t \in Rows /\ t.status = "pending" /\ t.blocks = <<>> /\ t.against = {}
          /\ t.evidence = NoEvidence
      BY <3>1 DEF Rows, Statuses
    <3>3. SetTrial(t)
      BY <2>2 DEF CreateTrial
    <3> HIDE DEF t
    <3>5. ~Decided(t) /\ Open(t)
      BY <3>2, EmptyRows DEF Decided, TerminalDecisions, Open
    <3>6. RowFits(t)
      <4>1. DOMAIN t.blocks = {} /\ Len(t.blocks) = 0
        BY <3>2
      <4> QED BY <3>2, <3>5, <4>1, Constants DEF RowFits, Ordered, Has
    <3>7. Trial.blocks = <<>>
      BY <1>2, <2>2 DEF RowFits
    <3> QED BY <3>2, <3>3, <3>5, <3>6, <3>7
  <2> QED BY <2>1, <2>2
<1>4. PlaceFits(pc, t)
  BY <1>1, <1>2, <1>3 DEF PlaceFits, Open
<1>5. ~Has(t, {"running"})
  BY <1>2, <1>3 DEF Has
<1>6. /\ IsFiniteSet(PlayedBlocks') /\ Played' = Played + 0 /\ PlayedOf(t) = PlayedOf(Trial) + 0
  BY <1>0, <1>3, PlayedKept
<1>7. pc \in Evaluating \ {"create"}
  BY DEF Evaluating
<1> QED BY <1>0, <1>1, <1>3, <1>4, <1>5, <1>6, <1>7, TrialChanges

\* Where the process stands once there is a trial: a candidate against the anchor.
LEMMA TheCandidate ==
  ASSUME IInv, BookInv, proc.pc \in Evaluating \ {"create", "record"}
  PROVE  /\ proc \in Processes /\ search.phase = "coordinate" /\ proc.pc \in Evaluating
         /\ Trial \in Rows /\ RowFits(Trial) /\ Open(Trial)
         /\ Trial.against \subseteq {search.anchor}
         /\ PlaceFits(proc.pc, Trial)
         /\ Has(Trial, {"running"}) => proc.pc \in {"trial", "play"}
         /\ Trial.blocks \in Seq(BlockStatuses)
         /\ DOMAIN Trial.blocks = 1..Len(Trial.blocks) /\ Len(Trial.blocks) \in Nat
         /\ \A i \in DOMAIN Trial.blocks : Trial.blocks[i] \in BlockStatuses
<1>1. proc \in Processes
  BY DEF IInv, Shapes
<1>2. /\ Trial \in Rows /\ RowFits(Trial) /\ PlaceFits(proc.pc, Trial) /\ Open(Trial)
      /\ Trial.against \subseteq {search.anchor}
      /\ Has(Trial, {"running"}) => proc.pc \in {"trial", "play"}
  BY TheTrial DEF Evaluating
<1>3. Trial.blocks \in Seq(BlockStatuses)
  BY <1>2 DEF Rows
<1>4. search.phase = "coordinate"
  BY <1>2 DEF PlaceFits
<1> QED BY <1>1, <1>2, <1>3, <1>4

\* A step that plays nothing, from one place of a candidate to another or to the end.
LEMMA CandidateChanges ==
  ASSUME IInv, BookInv, proc.pc \in Evaluating \ {"create", "record"},
         NEW t \in Rows, SetTrial(t), UNCHANGED search,
         RowFits(t), Open(t), t.against = Trial.against,
         Has(t, {"running"}) => proc'.pc \in {"trial", "play"},
         Indices(t.blocks, {"completed"}) = Indices(Trial.blocks, {"completed"}),
         proc'.pc = "off" \/ (proc'.pc \in Evaluating \ {"create"} /\ PlaceFits(proc'.pc, t))
  PROVE  BookInv' /\ (DescentInv => DescentInv')
<1>1. search.phase = "coordinate" /\ proc.pc \in Evaluating /\ t.against \subseteq {search.anchor}
  BY TheCandidate
<1>2. IsFiniteSet(PlayedBlocks') /\ Played' = Played + 0 /\ PlayedOf(t) = PlayedOf(Trial) + 0
  BY <1>1, PlayedKept
<1> QED BY <1>1, <1>2, TrialChanges

LEMMA CreateBlockStep ==
  ASSUME IInv, BookInv, CreateBlock
  PROVE  BookInv' /\ (DescentInv => DescentInv')
<1> DEFINE b == Trial.blocks
           c == Append(b, "pending")
           t == [Trial EXCEPT !.blocks = c]
<1>0. /\ proc.pc = "blocks" /\ proc' = proc /\ UNCHANGED search /\ SetTrial(t)
      /\ Len(b) < MaxBlocks
  BY DEF CreateBlock, At, OnlyTrial
<1>1. /\ Trial \in Rows /\ RowFits(Trial) /\ Open(Trial) /\ PlaceFits("blocks", Trial)
      /\ ~Has(Trial, {"running"}) /\ search.phase = "coordinate"
      /\ b \in Seq(BlockStatuses) /\ DOMAIN b = 1..Len(b) /\ Len(b) \in Nat
  BY <1>0, TheCandidate DEF Evaluating
<1>2. /\ c \in Seq(BlockStatuses) /\ Len(c) = Len(b) + 1 /\ DOMAIN c = 1..(Len(b) + 1)
      /\ \A i \in DOMAIN b : c[i] = b[i]
      /\ c[Len(b) + 1] = "pending"
  <2>1. "pending" \in BlockStatuses
    BY DEF BlockStatuses, Statuses
  <2> QED BY <1>1, <2>1
<1> HIDE DEF c, b
<1>3. /\ t \in Rows /\ t.blocks = c /\ t.status = Trial.status /\ t.against = Trial.against
      /\ t.evidence = Trial.evidence /\ t.level = Trial.level
  BY <1>1, <1>2 DEF Rows
<1> HIDE DEF t
<1>4. ~Has(Trial, {"rejected"}) /\ ~Decided(Trial)
  BY <1>0, <1>1, Constants DEF RowFits, Ordered, b
<1>5. \A i \in DOMAIN c : (i \in DOMAIN b /\ c[i] = b[i]) \/ c[i] = "pending"
  BY <1>1, <1>2
<1>6. ~Has(t, {"rejected"}) /\ ~Has(t, {"running"})
  BY <1>1, <1>3, <1>4, <1>5 DEF Has, b
<1>7. Ordered(t)
  <2>1. ASSUME NEW i \in DOMAIN c, NEW j \in DOMAIN c, i < j,
               c[j] \in {"completed", "interrupted", "running"}
        PROVE  c[i] = "completed"
    <3>1. j \in DOMAIN b /\ c[j] = b[j]
      BY <1>5, <2>1
    <3>2. i \in DOMAIN b /\ c[i] = b[i]
      BY <1>1, <1>2, <2>1, <3>1
    <3> QED BY <1>1, <2>1, <3>1, <3>2 DEF RowFits, Ordered, b
  <2> QED BY <1>3, <1>6, <2>1 DEF Ordered
<1>8. RowFits(t) /\ Open(t)
  <2>1. ~Decided(t)
    BY <1>3, <1>4 DEF Decided
  <2>2. Len(c) <= MaxBlocks
    BY <1>0, <1>1, <1>2, Constants
  <2> QED BY <1>1, <1>3, <1>7, <2>1, <2>2 DEF RowFits, Open
<1>9. Indices(t.blocks, {"completed"}) = Indices(Trial.blocks, {"completed"})
  BY <1>1, <1>2, <1>3, <1>5 DEF Indices, b
<1>10. PlaceFits("blocks", t)
  BY <1>1, <1>8 DEF PlaceFits, Open
<1> QED BY <1>0, <1>3, <1>6, <1>8, <1>9, <1>10, CandidateChanges DEF Evaluating

LEMMA ResumeStep ==
  ASSUME IInv, BookInv, Resume
  PROVE  BookInv' /\ (DescentInv => DescentInv')
<1>0. proc.pc = "blocks" /\ UNCHANGED search /\ Len(Trial.blocks) = MaxBlocks
  BY DEF Resume, At, OnlyTrial
<1>1. /\ proc \in Processes /\ Trial \in Rows /\ RowFits(Trial) /\ Open(Trial)
      /\ PlaceFits("blocks", Trial) /\ ~Has(Trial, {"running"}) /\ search.phase = "coordinate"
  BY <1>0, TheCandidate DEF Evaluating
<1>2. CASE Decided(Trial)
  <2>1. trials' = trials /\ proc'.pc = "record"
    BY <1>1, <1>2, GoesTo DEF Resume, Decided, Stages, Evaluating
  <2>2. SetTrial(Trial)
    <3>1. trials \in [Points -> Rows]
      BY DEF BookInv, BookTypes
    <3> QED BY <2>1, <3>1 DEF SetTrial, Trial
  <2>3. PlaceFits("record", Trial)
    BY <1>1, <1>2 DEF PlaceFits
  <2> QED BY <1>0, <1>1, <2>1, <2>2, <2>3, CandidateChanges DEF Evaluating
<1>3. CASE ~Decided(Trial)
  <2>1. PICK t \in Rows :
          /\ SetTrial(t) /\ t.blocks = Trial.blocks /\ t.against = Trial.against
          /\ RowFits(t) /\ Open(t)
    <3> DEFINE u == [Trial EXCEPT !.status = "running"]
    <3>1. SetTrial(IF Trial.status = "pending" THEN u ELSE Trial)
      BY <1>3 DEF Resume, Decided
    <3>2. /\ u \in Rows /\ u.blocks = Trial.blocks /\ u.against = Trial.against
          /\ u.evidence = Trial.evidence /\ u.status = "running"
      BY <1>1 DEF Rows, Statuses
    <3> HIDE DEF u
    <3>3. RowFits(u) /\ Open(u)
      <4>1. ~Decided(u)
        BY <1>3, <3>2 DEF Decided
      <4>2. Ordered(u)
        BY <1>1, <3>2 DEF RowFits, Ordered, Has, Done
      <4> QED BY <1>1, <3>2, <4>1, <4>2 DEF RowFits, Open
    <3> QED BY <1>1, <3>1, <3>2, <3>3
  <2>2. proc'.pc = "next"
    BY <1>1, <1>3, GoesTo DEF Resume, Decided, Stages, Evaluating
  <2>3. PlaceFits("next", t) /\ ~Has(t, {"running"})
    BY <1>0, <1>1, <2>1 DEF PlaceFits, Open, Has
  <2> QED BY <1>0, <2>1, <2>2, <2>3, CandidateChanges DEF Evaluating
<1> QED BY <1>2, <1>3

-----------------------------------------------------------------------------
\* Every set of indices has a first one.
LEMMA LeastOf ==
  ASSUME NEW S, S \subseteq Nat, S # {}
  PROVE  \E i \in S : \A j \in S : i <= j
<1>1. PICK i \in S : \A j \in S : ~(<<j, i>> \in OpToRel(<, Nat))
  BY NatLessThanWellFounded, WFMin, Zenon
<1>2. \A j \in S : ~(j < i)
  BY <1>1 DEF OpToRel
<1> QED BY <1>2

\* The next block is the first that is not completed: none before it is running or
\* rejected.
LEMMA ClaimBlockStep ==
  ASSUME IInv, BookInv, ClaimBlock
  PROVE  BookInv' /\ (DescentInv => DescentInv')
<1> DEFINE b == Trial.blocks
           k == First(Runnable(b))
           c == [b EXCEPT ![k] = "running"]
           t == [Trial EXCEPT !.blocks = c]
<1>0. proc.pc = "next" /\ UNCHANGED search /\ Runnable(b) # {} /\ SetTrial(t)
  BY DEF ClaimBlock, At, OnlyTrial
<1>1. /\ proc \in Processes /\ Trial \in Rows /\ RowFits(Trial) /\ Open(Trial)
      /\ PlaceFits("next", Trial) /\ ~Has(Trial, {"running"}) /\ search.phase = "coordinate"
      /\ b \in Seq(BlockStatuses) /\ DOMAIN b = 1..Len(b) /\ Len(b) \in Nat
      /\ \A i \in DOMAIN b : b[i] \in BlockStatuses
  BY <1>0, TheCandidate DEF Evaluating
<1>2. proc'.pc = "trial"
  BY <1>1, GoesTo DEF ClaimBlock, Stages, Evaluating
<1>3. k \in Runnable(b) /\ \A i \in Runnable(b) : k <= i
  <2>1. Runnable(b) \subseteq Nat
    BY <1>1 DEF Runnable, Indices
  <2>2. \E i \in Runnable(b) : \A j \in Runnable(b) : i <= j
    BY <1>0, <2>1, LeastOf
  <2> QED BY <2>2 DEF First
<1> HIDE DEF k
<1>4. k \in DOMAIN b /\ b[k] \in {"pending", "interrupted"}
  BY <1>3 DEF Runnable, Indices
<1>5. /\ c \in Seq(BlockStatuses) /\ Len(c) = Len(b) /\ DOMAIN c = DOMAIN b
      /\ c[k] = "running" /\ \A i \in DOMAIN b : i # k => c[i] = b[i]
  <2>1. b \in [1..Len(b) -> BlockStatuses]
    BY <1>1
  <2>2. c \in [1..Len(b) -> BlockStatuses]
    BY <2>1 DEF BlockStatuses, Statuses
  <2>3. c[k] = "running" /\ \A i \in DOMAIN b : i # k => c[i] = b[i]
    BY <1>4, <2>1
  <2> HIDE DEF c, b
  <2> QED BY <1>1, <2>2, <2>3
<1> HIDE DEF c, b
<1>6. /\ t \in Rows /\ t.blocks = c /\ t.status = Trial.status /\ t.against = Trial.against
      /\ t.evidence = Trial.evidence /\ t.level = Trial.level
  BY <1>1, <1>5 DEF Rows
<1> HIDE DEF t
<1>7. ~Done(Trial)
  BY <1>4 DEF Done, b
<1>8. \A i \in DOMAIN b : b[i] # "rejected" /\ b[i] # "running"
  BY <1>1, <1>7 DEF RowFits, Ordered, Has, b
<1>9. \A i \in DOMAIN b : i < k => b[i] = "completed"
  <2> SUFFICES ASSUME NEW i \in DOMAIN b, i < k PROVE b[i] = "completed"
    OBVIOUS
  <2>1. b[i] \notin {"pending", "interrupted"}
    BY <1>1, <1>3, <1>4 DEF Runnable, Indices
  <2> QED BY <1>1, <1>8, <2>1 DEF BlockStatuses, Statuses
<1>10. \A i \in DOMAIN b : k < i => b[i] \notin {"completed", "interrupted"}
  BY <1>1, <1>4 DEF RowFits, Ordered, b
<1>11. Ordered(t)
  <2>1. ASSUME NEW i \in DOMAIN c, NEW j \in DOMAIN c, i < j,
               c[j] \in {"completed", "interrupted", "running"}
        PROVE  c[i] = "completed"
    <3>1. j <= k
      BY <1>1, <1>4, <1>5, <1>8, <1>10, <2>1
    <3>2. i < k /\ i # k
      BY <1>1, <1>4, <1>5, <2>1, <3>1
    <3> QED BY <1>5, <1>9, <2>1, <3>2
  <2>2. ~Has(t, {"rejected"})
    BY <1>5, <1>6, <1>8 DEF Has
  <2> QED BY <1>6, <2>1, <2>2 DEF Ordered
<1>12. RowFits(t) /\ Open(t)
  <2>1. ~Decided(t)
    BY <1>1, <1>6, <1>7 DEF RowFits, Decided
  <2> QED BY <1>1, <1>5, <1>6, <1>11, <2>1 DEF RowFits, Open, b
<1>13. Indices(t.blocks, {"completed"}) = Indices(Trial.blocks, {"completed"})
  BY <1>4, <1>5, <1>6 DEF Indices, b
<1>14. PlaceFits("trial", t)
  <2>1. Has(t, {"running"})
    BY <1>4, <1>5, <1>6 DEF Has
  <2> QED BY <1>1, <1>5, <1>6, <1>12, <2>1 DEF PlaceFits, Open, b
<1> QED BY <1>0, <1>2, <1>6, <1>12, <1>13, <1>14, CandidateChanges DEF Evaluating

\* _ensure_trial_running and the transactions that set the evidence alone: a trial that
\* has a block to play, or whose decision is that of its games.
LEMMA EvidenceChanges ==
  ASSUME IInv, BookInv, proc.pc \in Evaluating \ {"create", "record"}, UNCHANGED search,
         NEW t \in Rows, SetTrial(t),
         t.blocks = Trial.blocks, t.against = Trial.against, t.level = Trial.level, Open(t),
         Decided(t) => /\ Len(t.blocks) = MaxBlocks /\ Done(t)
                       /\ t.evidence.level = t.level /\ t.against = {t.evidence.reference},
         Has(t, {"running"}) => proc'.pc \in {"trial", "play"},
         proc'.pc = "off" \/ (proc'.pc \in Evaluating \ {"create"} /\ PlaceFits(proc'.pc, t))
  PROVE  BookInv' /\ (DescentInv => DescentInv')
<1>1. RowFits(Trial)
  BY TheCandidate
<1>2. Ordered(t)
  BY <1>1 DEF RowFits, Ordered, Has, Done
<1>3. RowFits(t)
  BY <1>1, <1>2 DEF RowFits, Open
<1> QED BY <1>3, CandidateChanges

LEMMA EnsureTrialStep ==
  ASSUME IInv, BookInv, EnsureTrial
  PROVE  BookInv' /\ (DescentInv => DescentInv')
<1>0. proc.pc = "trial" /\ UNCHANGED search
  BY DEF EnsureTrial, At, OnlyTrial
<1>1. /\ proc \in Processes /\ Trial \in Rows /\ RowFits(Trial) /\ Open(Trial)
      /\ PlaceFits("trial", Trial)
  BY <1>0, TheCandidate DEF Evaluating
<1>2. proc'.pc = "play"
  BY <1>1, GoesTo DEF EnsureTrial, Stages, Evaluating
<1>3. PICK t \in Rows :
        /\ SetTrial(t) /\ t.blocks = Trial.blocks /\ t.against = Trial.against
        /\ t.level = Trial.level /\ Open(t)
        /\ Decided(t) => t.evidence = Trial.evidence
  <2> DEFINE u == [Trial EXCEPT !.status = "running", !.evidence = NoEvidence]
  <2>1. SetTrial(IF Trial.status = "running" THEN Trial ELSE u)
    BY DEF EnsureTrial
  <2>2. /\ u \in Rows /\ u.blocks = Trial.blocks /\ u.against = Trial.against
        /\ u.level = Trial.level /\ u.evidence = NoEvidence /\ u.status = "running"
    BY <1>1, EmptyRows DEF Rows, Statuses
  <2> HIDE DEF u
  <2>3. ~Decided(u) /\ Open(u)
    BY <2>2, EmptyRows DEF Decided, TerminalDecisions, Open
  <2> QED BY <1>1, <2>1, <2>2, <2>3
<1>4. ~Decided(t)
  <2>1. ~Done(Trial)
    BY <1>1 DEF PlaceFits, Has, Done
  <2> QED BY <1>1, <1>3, <2>1 DEF RowFits, Decided
<1>5. PlaceFits("play", t)
  BY <1>1, <1>3 DEF PlaceFits, Open, Has
<1> QED BY <1>0, <1>2, <1>3, <1>4, <1>5, EvidenceChanges DEF Evaluating

LEMMA LostStep ==
  ASSUME IInv, BookInv, Lost
  PROVE  BookInv' /\ (DescentInv => DescentInv')
<1> DEFINE e == [NoEvidence EXCEPT !.decision = "interrupted"]
           t == [Trial EXCEPT !.evidence = e]
<1>0. proc.pc = "lost" /\ UNCHANGED search /\ SetTrial(t) /\ proc'.pc = "off"
  BY OffIs DEF Lost, At, OnlyTrial
<1>1. Trial \in Rows /\ Open(Trial) /\ ~Has(Trial, {"running"})
  BY <1>0, TheCandidate DEF Evaluating
<1>2. e \in Evidences /\ e.decision = "interrupted"
  BY EmptyRows DEF Evidences, Decisions
<1> HIDE DEF e
<1>3. /\ t \in Rows /\ t.blocks = Trial.blocks /\ t.against = Trial.against
      /\ t.level = Trial.level /\ t.evidence = e /\ t.status = Trial.status
  BY <1>1, <1>2 DEF Rows
<1> HIDE DEF t
<1>4. ~Decided(t) /\ Open(t) /\ ~Has(t, {"running"})
  BY <1>1, <1>2, <1>3 DEF Decided, TerminalDecisions, Open, Has
<1> QED BY <1>0, <1>3, <1>4, EvidenceChanges DEF Evaluating

\* The evidence of a trial, as it is stored.
LEMMA EvidenceIs ==
  ASSUME BookInv, Trial \in Rows, NEW decision \in Decisions
  PROVE  /\ Evidence(decision) \in Evidences
         /\ Evidence(decision).decision = decision
         /\ Evidence(decision).level = Trial.level
         /\ Evidence(decision).reference = search.anchor
<1>1. Trial.level \in Int /\ search.anchor \in Vectors
  BY DEF BookInv, BookTypes, Searches, Rows
<1> QED BY <1>1 DEF Evidence, Evidences

LEMMA ContinueStep ==
  ASSUME IInv, BookInv, Continue
  PROVE  BookInv' /\ (DescentInv => DescentInv')
<1> DEFINE e == Evidence("continue")
           t == [Trial EXCEPT !.evidence = e]
<1>0. proc.pc = "judge" /\ UNCHANGED search /\ SetTrial(t)
  BY DEF Continue, At, OnlyTrial
<1>1. /\ proc \in Processes /\ Trial \in Rows /\ Open(Trial) /\ ~Has(Trial, {"running"})
      /\ PlaceFits("judge", Trial)
  BY <1>0, TheCandidate DEF Evaluating
<1>2. e \in Evidences /\ e.decision = "continue"
  BY <1>1, EvidenceIs DEF Decisions
<1> HIDE DEF e
<1>3. /\ t \in Rows /\ t.blocks = Trial.blocks /\ t.against = Trial.against
      /\ t.level = Trial.level /\ t.evidence = e /\ t.status = Trial.status
  BY <1>1, <1>2 DEF Rows
<1> HIDE DEF t
<1>4. ~Decided(t) /\ Open(t) /\ ~Has(t, {"running"})
  BY <1>1, <1>2, <1>3 DEF Decided, TerminalDecisions, Open, Has
<1>5. proc'.pc = "next"
  BY <1>1, GoesTo DEF Continue, Stages, Evaluating
<1>6. PlaceFits("next", t)
  BY <1>1, <1>3 DEF PlaceFits
<1> QED BY <1>0, <1>3, <1>4, <1>5, <1>6, EvidenceChanges DEF Evaluating

-----------------------------------------------------------------------------
\* The block that runs is the first that is not completed, and the only one.
LEMMA BlockCompletesStep ==
  ASSUME IInv, BookInv, BlockCompletes
  PROVE  BookInv' /\ (DescentInv => DescentInv')
<1> DEFINE b == Trial.blocks
           c == Replace(b, {"running"}, "completed")
           a == Trial.against \cup {search.anchor}
<1>0. proc.pc = "play" /\ UNCHANGED search
  BY DEF BlockCompletes, At, OnlyTrial
<1>1. /\ proc \in Processes /\ Trial \in Rows /\ RowFits(Trial) /\ Open(Trial)
      /\ Trial.against \subseteq {search.anchor}
      /\ PlaceFits("play", Trial) /\ search.phase = "coordinate"
      /\ b \in Seq(BlockStatuses) /\ DOMAIN b = 1..Len(b) /\ Len(b) \in Nat
      /\ \A i \in DOMAIN b : b[i] \in BlockStatuses
  BY <1>0, TheCandidate DEF Evaluating
<1>2. proc'.pc = "judge"
  BY <1>1, GoesTo DEF BlockCompletes, Stages, Evaluating
<1>3. /\ c \in Seq(BlockStatuses) /\ Len(c) = Len(b) /\ DOMAIN c = DOMAIN b
      /\ \A i \in DOMAIN b : /\ b[i] = "running" => c[i] = "completed"
                             /\ b[i] # "running" => c[i] = b[i]
  <2>1. "completed" \in BlockStatuses
    BY DEF BlockStatuses, Statuses
  <2> QED BY <1>1, <2>1, Replaced
<1>4. a = {search.anchor} /\ a \in SUBSET Vectors
  BY <1>1 DEF BookInv, BookTypes, Searches
<1> HIDE DEF c, a
<1>5. PICK l \in Levels : SetTrial([Trial EXCEPT !.blocks = c, !.level = l, !.against = a])
  BY DEF BlockCompletes, c, a
<1> DEFINE t == [Trial EXCEPT !.blocks = c, !.level = l, !.against = a]
<1>6. /\ t \in Rows /\ t.blocks = c /\ t.status = Trial.status /\ t.against = a
      /\ t.evidence = Trial.evidence /\ SetTrial(t)
  <2>1. l \in Int
    BY Constants
  <2> HIDE DEF b
  <2> QED BY <1>1, <1>3, <1>4, <1>5, <2>1 DEF Rows
<1> HIDE DEF t
<1>7. PICK k \in DOMAIN b : b[k] = "running"
  BY <1>1 DEF PlaceFits, Has
<1>8. /\ \A i \in DOMAIN b : i < k => b[i] = "completed"
      /\ \A i \in DOMAIN b : k < i => b[i] \notin {"completed", "interrupted", "running"}
      /\ \A i \in DOMAIN b : b[i] # "rejected"
      /\ ~Decided(Trial)
  BY <1>1, <1>7 DEF RowFits, Ordered, Has, Done
<1> HIDE DEF b
<1>9. ASSUME NEW i \in DOMAIN b, i # k
      PROVE  c[i] = b[i] /\ b[i] \in {"completed", "pending"} /\ (b[i] = "completed" <=> i < k)
  <2>1. i < k \/ k < i
    BY <1>1, <1>9
  <2> QED BY <1>1, <1>3, <1>8, <1>9, <2>1 DEF BlockStatuses, Statuses
<1>10. c[k] = "completed"
  BY <1>3, <1>7
<1>11. \A i \in DOMAIN c : c[i] \in {"completed", "pending"} /\ (c[i] = "completed" <=> i <= k)
  BY <1>1, <1>3, <1>7, <1>9, <1>10
<1>12. ~Has(t, {"running"}) /\ ~Has(t, {"rejected"})
  BY <1>6, <1>11 DEF Has
<1>13. Ordered(t)
  <2>1. ASSUME NEW i \in DOMAIN c, NEW j \in DOMAIN c, i < j,
               c[j] \in {"completed", "interrupted", "running"}
        PROVE  c[i] = "completed"
    <3>1. j <= k
      BY <1>11, <2>1
    <3> QED BY <1>1, <1>3, <1>7, <1>11, <2>1, <3>1
  <2> QED BY <1>6, <1>12, <2>1 DEF Ordered
<1>14. RowFits(t) /\ Open(t)
  <2>1. ~Decided(t)
    BY <1>6, <1>8 DEF Decided
  <2>2. \A x, y \in t.against : x = y
    BY <1>4, <1>6
  <2> QED BY <1>1, <1>3, <1>6, <1>13, <2>1, <2>2 DEF RowFits, Open, b
<1>15. PlaceFits("judge", t)
  BY <1>1, <1>3, <1>4, <1>6, <1>11, <1>14 DEF PlaceFits, Open, b
<1>16. /\ Indices(t.blocks, {"completed"}) = Indices(Trial.blocks, {"completed"}) \cup {k}
       /\ k \notin Indices(Trial.blocks, {"completed"}) /\ k \in 1..MaxBlocks
  <2>1. k \notin Indices(b, {"completed"})
    BY <1>7 DEF Indices
  <2>2. Indices(c, {"completed"}) = Indices(b, {"completed"}) \cup {k}
    BY <1>3, <1>7, <1>9, <1>10 DEF Indices
  <2>3. k \in 1..MaxBlocks
    BY <1>1, <1>7, Constants DEF RowFits, b
  <2> QED BY <1>6, <2>1, <2>2, <2>3 DEF b
<1>17. /\ IsFiniteSet(PlayedBlocks') /\ Played' = Played + 1 /\ PlayedOf(t) = PlayedOf(Trial) + 1
  BY <1>0, <1>6, <1>16, PlayedOnce DEF Evaluating
<1> QED BY <1>0, <1>1, <1>2, <1>4, <1>6, <1>12, <1>14, <1>15, <1>17, TrialChanges DEF Evaluating

LEMMA MatchFailsStep ==
  ASSUME IInv, BookInv, MatchFails
  PROVE  BookInv' /\ (DescentInv => DescentInv')
<1> DEFINE c == Replace(Trial.blocks, {"running"}, "interrupted")
           t == [Trial EXCEPT !.blocks = c]
<1>0. proc.pc = "play" /\ UNCHANGED search /\ SetTrial(t)
  BY DEF MatchFails, At
<1>1. /\ proc \in Processes /\ Trial \in Rows /\ RowFits(Trial) /\ Open(Trial)
      /\ PlaceFits("play", Trial) /\ Trial.blocks \in Seq(BlockStatuses)
  BY <1>0, TheCandidate DEF Evaluating
<1>2. proc'.pc = "lost"
  BY <1>1, GoesTo DEF MatchFails, Stages, Evaluating
<1>3. c \in Seq(BlockStatuses) /\ Len(c) = Len(Trial.blocks)
  BY <1>1, Replaced DEF BlockStatuses, Statuses
<1> HIDE DEF c
<1>4. /\ t \in Rows /\ t.blocks = c /\ t.status = Trial.status /\ t.against = Trial.against
      /\ t.evidence = Trial.evidence /\ t.level = Trial.level
  BY <1>1, <1>3 DEF Rows
<1> HIDE DEF t
<1>5. /\ RowFits(t) /\ ~Has(t, {"running"})
      /\ Indices(t.blocks, {"completed"}) = Indices(Trial.blocks, {"completed"})
  BY <1>1, <1>4, RowGivenBack DEF c
<1>6. Open(t) /\ PlaceFits("lost", t)
  BY <1>1, <1>3, <1>4 DEF PlaceFits, Open
<1> QED BY <1>0, <1>2, <1>4, <1>5, <1>6, CandidateChanges DEF Evaluating

\* What a decision takes: games enough, and the end of the budget unless it is early.
LEMMA DecisionIs ==
  ASSUME Trial \in Rows
  PROVE  /\ Decision \in TerminalDecisions \cup {"continue"}
         /\ Decision # "continue" => MayDecide(Trial)
<1> DEFINE played == Cardinality(Indices(Trial.blocks, {"completed"}))
<1>1. played \in Nat /\ Trial.level \in Int /\ MinBlocks \in Nat /\ MaxBlocks \in Nat
  BY PlayedIs, Constants DEF PlayedOf, Rows
<1> HIDE DEF played
<1>2. CASE played < MinBlocks
  BY <1>1, <1>2 DEF Decision, played
<1>3. CASE played >= MinBlocks /\ Trial.level = 0
  <2>1. Decision = "reject_early"
    BY <1>1, <1>3 DEF Decision, played
  <2> QED BY <1>1, <1>3, <2>1 DEF MayDecide, TerminalDecisions, played
<1>4. CASE played >= MinBlocks /\ Trial.level > 0 /\ played < MaxBlocks
  BY <1>1, <1>4 DEF Decision, played
<1>5. CASE played >= MinBlocks /\ Trial.level # 0 /\ ~(Trial.level > 0 /\ played < MaxBlocks)
  <2>1. Decision \in {"accept", "reject", "uncertain"}
    BY <1>1, <1>5 DEF Decision, played
  <2> QED BY <1>1, <1>5, <2>1 DEF MayDecide, TerminalDecisions, played
<1> QED BY <1>1, <1>2, <1>3, <1>4, <1>5

\* reject_pending_blocks: what is left of the budget is closed.
LEMMA CloseBudgetStep ==
  ASSUME IInv, BookInv, CloseBudget
  PROVE  BookInv' /\ (DescentInv => DescentInv')
<1> DEFINE b == Trial.blocks
           c == Replace(b, {"pending"}, "rejected")
           t == [Trial EXCEPT !.blocks = c]
<1>0. proc.pc = "judge" /\ UNCHANGED search /\ SetTrial(t) /\ Decision # "continue"
  BY DEF CloseBudget, At, OnlyTrial, ClosePending
<1>1. /\ proc \in Processes /\ Trial \in Rows /\ RowFits(Trial) /\ Open(Trial)
      /\ PlaceFits("judge", Trial) /\ b \in Seq(BlockStatuses)
      /\ DOMAIN b = 1..Len(b) /\ Len(b) \in Nat
  BY <1>0, TheCandidate DEF Evaluating
<1>2. proc'.pc = "store"
  BY <1>1, GoesTo DEF CloseBudget, Stages, Evaluating
<1>3. /\ c \in Seq(BlockStatuses) /\ Len(c) = Len(b) /\ DOMAIN c = DOMAIN b
      /\ \A i \in DOMAIN b : /\ b[i] = "pending" => c[i] = "rejected"
                             /\ b[i] # "pending" => c[i] = b[i]
  <2>1. "rejected" \in BlockStatuses
    BY DEF BlockStatuses, Statuses
  <2> QED BY <1>1, <2>1, Replaced
<1> HIDE DEF c
<1>4. /\ t \in Rows /\ t.blocks = c /\ t.status = Trial.status /\ t.against = Trial.against
      /\ t.evidence = Trial.evidence /\ t.level = Trial.level
  BY <1>1, <1>3 DEF Rows
<1> HIDE DEF t
<1>5. /\ \A i \in DOMAIN b : b[i] \in {"completed", "pending"}
      /\ Len(b) = MaxBlocks /\ Trial.against = {search.anchor}
  BY <1>1 DEF PlaceFits
<1>6. Done(t) /\ ~Has(t, {"running"})
  BY <1>3, <1>4, <1>5 DEF Done, Has
<1>7. Indices(t.blocks, {"completed"}) = Indices(Trial.blocks, {"completed"})
  BY <1>3, <1>4, <1>5 DEF Indices
<1>8. Ordered(t)
  <2>1. \A i, j \in DOMAIN c :
          i < j /\ c[j] \in {"completed", "interrupted", "running"} => c[i] = "completed"
    BY <1>1, <1>3, <1>5 DEF RowFits, Ordered
  <2> QED BY <1>3, <1>4, <1>5, <1>6, <2>1 DEF Ordered
<1>9. RowFits(t) /\ Open(t)
  <2>1. Decided(t) => t.evidence.level = t.level /\ t.against = {t.evidence.reference}
    BY <1>1, <1>4 DEF RowFits, Decided
  <2> QED BY <1>1, <1>3, <1>4, <1>5, <1>6, <1>8, <2>1 DEF RowFits, Open
<1>10. PlaceFits("store", t)
  <2>1. MayDecide(t)
    <3>1. MayDecide(Trial)
      BY <1>0, <1>1, DecisionIs
    <3> QED BY <1>4, <1>7, <3>1 DEF MayDecide
  <2> QED BY <1>1, <1>3, <1>4, <1>5, <1>6, <1>9, <2>1 DEF PlaceFits, Open
<1> QED BY <1>0, <1>2, <1>4, <1>6, <1>7, <1>9, <1>10, CandidateChanges DEF Evaluating

\* checkpoint_trial_result: by now the games allow a decision.
LEMMA StoreEvidenceStep ==
  ASSUME IInv, BookInv, StoreEvidence
  PROVE  BookInv' /\ (DescentInv => DescentInv')
<1> DEFINE e == Evidence(Decision)
           t == [Trial EXCEPT !.evidence = e]
<1>0. proc.pc = "store" /\ UNCHANGED search /\ SetTrial(t)
  BY DEF StoreEvidence, At, OnlyTrial
<1>1. /\ proc \in Processes /\ Trial \in Rows /\ Open(Trial) /\ ~Has(Trial, {"running"})
      /\ PlaceFits("store", Trial) /\ search.phase = "coordinate"
  BY <1>0, TheCandidate DEF Evaluating
<1>2. /\ Done(Trial) /\ Trial.against = {search.anchor} /\ Len(Trial.blocks) = MaxBlocks
      /\ MayDecide(Trial)
  BY <1>1 DEF PlaceFits
<1>3. Decision \in TerminalDecisions
  <2> DEFINE played == Cardinality(Indices(Trial.blocks, {"completed"}))
  <2>1. played \in Nat /\ Trial.level \in Int /\ MinBlocks \in Nat /\ MaxBlocks \in Nat
    BY <1>1, PlayedIs, Constants DEF PlayedOf, Rows
  <2>2. played >= MinBlocks /\ ~(Trial.level > 0 /\ played < MaxBlocks)
    BY <1>2 DEF MayDecide
  <2> HIDE DEF played
  <2>3. ~(played < MinBlocks)
    BY <2>1, <2>2
  <2>4. Decision \in {"reject_early", "accept", "reject", "uncertain"}
    BY <2>2, <2>3 DEF Decision, played
  <2> QED BY <2>4 DEF TerminalDecisions
<1>4. /\ e \in Evidences /\ e.decision = Decision /\ e.level = Trial.level
      /\ e.reference = search.anchor
  BY <1>1, <1>3, EvidenceIs DEF Decisions
<1> HIDE DEF e
<1>5. /\ t \in Rows /\ t.blocks = Trial.blocks /\ t.against = Trial.against
      /\ t.level = Trial.level /\ t.evidence = e /\ t.status = Trial.status
  BY <1>1, <1>4 DEF Rows
<1> HIDE DEF t
<1>6. Decided(t) /\ Open(t) /\ ~Has(t, {"running"}) /\ Done(t)
  BY <1>1, <1>2, <1>3, <1>4, <1>5 DEF Decided, Open, Has, Done
<1>7. proc'.pc = "record"
  BY <1>1, GoesTo DEF StoreEvidence, Stages, Evaluating
<1>8. PlaceFits("record", t)
  BY <1>1, <1>5, <1>6 DEF PlaceFits
<1> QED BY <1>0, <1>2, <1>4, <1>5, <1>6, <1>7, <1>8, EvidenceChanges DEF Evaluating

-----------------------------------------------------------------------------
\* An anchor is left for a set that has beaten it.
Climbs == search'.anchor # search.anchor => Beats(search'.anchor)

LEMMA EvaluateStep ==
  ASSUME IInv, BookInv, Evaluate
  PROVE  BookInv' /\ UNCHANGED <<trials, search>>
<1>1. /\ proc.pc = "step" /\ proc.doing = "search" /\ search.phase # "completed"
      /\ NeedsEvaluation /\ UNCHANGED <<trials, search>>
  BY DEF Evaluate, At, Settled
<1>2. proc'.pc = "create"
  BY <1>1, GoesTo DEF Evaluate, IInv, Shapes, Stages, Evaluating
<1>3. /\ BookTypes' /\ RowsFit' /\ OneOpen' /\ Fresh' /\ Booked' /\ NeedsEvaluation'
      /\ Played' = Played /\ PlayedBlocks' = PlayedBlocks /\ Trial' = Trial
  BY <1>1, SameReading DEF BookInv
<1>4. RunningInv' /\ Places'
  BY <1>1, <1>2, <1>3 DEF BookInv, RunningInv, Places, Opening
<1>5. BudgetInv'
  <2>1. /\ IsFiniteSet(PlayedBlocks) /\ Played <= MaxGames
        /\ search.count < MaxEvaluations /\ Played + MaxBlocks <= MaxGames
    BY <1>1 DEF BookInv, BudgetInv
  <2>2. PlayedOf(Trial) \in Nat
    BY <1>1, PointNeeds, PlayedIs DEF BookInv
  <2>3. PICK p \in Nat, q \in Nat : p = Played /\ q = PlayedOf(Trial)
    BY <2>2, PlayedIsNat
  <2>4. p + MaxBlocks <= MaxGames + q
    <3>1. p + MaxBlocks <= MaxGames
      BY <2>1, <2>3
    <3> QED BY <3>1, Constants
  <2>5. Played' + MaxBlocks <= MaxGames + PlayedOf(Trial)
    BY <1>3, <2>3, <2>4, Zenon
  <2>6. PlayedOf(Trial)' = PlayedOf(Trial)
    BY <1>3 DEF PlayedOf
  <2>7. proc'.pc # "step" /\ search' = search
    BY <1>1, <1>2
  <2> QED BY <1>3, <2>1, <2>5, <2>6, <2>7, Zenon DEF BudgetInv
<1> QED BY <1>1, <1>3, <1>4, <1>5 DEF BookInv

LEMMA NoSearchIs ==
  /\ NoSearch \in Searches /\ NoSearch.phase = "none" /\ NoSearch.step = FirstStep
  /\ NoSearch.anchor = Baseline /\ NoSearch.param = 1 /\ NoSearch.direction = 1
  /\ NoSearch.results = NoResults /\ NoSearch.count = 0
<1>1. NoResults \in [{1, -1} -> Verdicts]
  BY DEF NoResults, Verdicts
<1> QED BY <1>1, Constants DEF NoSearch, Searches

\* _load_or_initialize_state
LEMMA LoadStep ==
  ASSUME IInv, BookInv, DescentInv, Load
  PROVE  BookInv' /\ DescentInv' /\ Climbs
<1>1. /\ proc.pc = "load" /\ proc.doing = "reconcile" /\ trials' = trials
      /\ proc'.pc = "step" /\ proc'.doing = "reconcile"
  BY GoesTo DEF Load, At, IInv, Shapes, Stages, BookInv, Places, Opening
<1>2. CASE search.phase # "none"
  <2>1. UNCHANGED <<trials, search>>
    BY <1>1, <1>2 DEF Load
  <2> QED BY <1>1, <1>2, <2>1, SameBooks, SameReading DEF Evaluating, Opening, Climbs
<1>3. CASE search.phase = "none"
  <2> DEFINE s == [NoSearch EXCEPT !.phase = "baseline"]
  <2>1. search' = s
    BY <1>3 DEF Load
  <2>2. /\ s \in Searches /\ s.step = FirstStep /\ s.phase = "baseline" /\ s.anchor = Baseline
        /\ s.param = 1 /\ s.direction = 1 /\ s.results = NoResults /\ s.count = 0
    BY NoSearchIs DEF Searches
  <2> HIDE DEF s
  <2>3. /\ \A x \in Points :
             /\ trials[x].status \in {"none", "pending"} /\ trials[x].blocks = <<>>
             /\ trials[x].against = {} /\ ~Decided(trials[x])
        /\ search.anchor = Baseline
    BY <1>3 DEF BookInv, Fresh
  <2>4. \A x \in Points : ~Open(trials[x])
    BY <1>3 DEF BookInv, OneOpen, NeedsEvaluation
  <2>5. BookTypes' /\ RowsFit'
    BY <1>1, <2>1, <2>2, Constants DEF BookInv, BookTypes, RowsFit
  <2>6. OneOpen' /\ Fresh'
    BY <1>1, <2>1, <2>2, <2>3, <2>4 DEF OneOpen, Fresh
  <2>7. RunningInv' /\ Places'
    <3>1. \A x \in Points : ~Has(trials[x], {"running"})
      BY <2>3 DEF Has
    <3> QED BY <1>1, <2>1, <2>2, <3>1 DEF RunningInv, Places, Evaluating, Opening
  <2>8. Booked'
    <3>1. Evaluated' = {}
      BY <1>1, <2>3 DEF Evaluated
    <3>2. IsFiniteSet({}) /\ Cardinality({}) = 0
      BY FS_EmptySet
    <3>3. search'.count = 0 /\ 0 <= MaxEvaluations
      BY <2>1, <2>2, Constants
    <3> QED BY <3>1, <3>2, <3>3, Zenon DEF Booked
  <2>9. BudgetInv'
    <3>1. PlayedBlocks' = PlayedBlocks /\ Played' = Played
      BY <1>1 DEF PlayedBlocks, Played
    <3>2. IsFiniteSet(PlayedBlocks) /\ Played <= MaxGames
      BY DEF BookInv, BudgetInv
    <3>3. proc'.doing # "search" /\ proc'.pc \notin Evaluating
      BY <1>1 DEF Evaluating
    <3> QED BY <3>1, <3>2, <3>3, Zenon DEF BudgetInv
  <2>10. DescentInv' /\ Climbs
    BY <2>1, <2>2, <2>3 DEF DescentInv, WinsInv, AskedInv, LocalOptimum, NoResults, Climbs
  <2> QED BY <2>5, <2>6, <2>7, <2>8, <2>9, <2>10 DEF BookInv
<1> QED BY <1>2, <1>3

-----------------------------------------------------------------------------
(* The steps of the search.                                                *)

\* The books when the search moves on and no trial is open, or it ends.
LEMMA SearchMoves ==
  ASSUME BookInv, proc.pc = "step", UNCHANGED trials,
         search' \in Searches, \A k \in Params : MinStep[k] <= search'.step[k],
         search'.count = search.count, search'.phase \in {"coordinate", "completed"},
         search'.phase = "completed" \/ (search.phase # "completed" /\ ~NeedsEvaluation),
         proc'.pc \in {"step", "finish"}, proc'.doing = "search" => proc.doing = "search"
  PROVE  BookInv'
<1>1. BookTypes' /\ RowsFit' /\ OneOpen' /\ Fresh'
  BY DEF BookInv, BookTypes, RowsFit, OneOpen, Fresh
<1>2. RunningInv' /\ Places'
  BY DEF BookInv, RunningInv, Places, Evaluating, Opening
<1>3. Evaluated' = Evaluated /\ PlayedBlocks' = PlayedBlocks /\ Played' = Played
  BY DEF Evaluated, PlayedBlocks, Played
<1>4. Booked'
  BY <1>3, Zenon DEF BookInv, Booked
<1>5. BudgetInv'
  <2>1. proc'.pc \notin Evaluating
    BY DEF Evaluating
  <2> QED BY <1>3, <2>1, Zenon DEF BookInv, BudgetInv
<1> QED BY <1>1, <1>2, <1>4, <1>5 DEF BookInv

\* Where the search stands when it makes a step.
LEMMA AtAStep ==
  ASSUME BookInv, Stepping
  PROVE  /\ proc.pc = "step" /\ search.phase = "coordinate" /\ ~NeedsEvaluation
         /\ search \in Searches /\ \A k \in Params : MinStep[k] <= search.step[k]
         /\ ~PassOver => search.param \in Params
         /\ PassOver => \A k \in Params : k < search.param
<1>1. proc.pc = "step" /\ search.phase \notin {"completed", "none"} /\ ~NeedsEvaluation
  BY DEF Stepping, At, Settled, BookInv, Places
<1>2. search \in Searches /\ \A k \in Params : MinStep[k] <= search.step[k]
  BY DEF BookInv, BookTypes
<1>3. search.phase = "coordinate"
  BY <1>1, <1>2 DEF Searches, NeedsEvaluation
<1>4. search.param \in Nat \ {0}
  BY <1>2 DEF Searches
<1>5. /\ ~PassOver => search.param \in Params
      /\ PassOver => \A k \in Params : k < search.param
  BY <1>4, Constants DEF PassOver
<1> QED BY <1>1, <1>2, <1>3, <1>5

\* A direction is behind once the next one is taken.
LEMMA OneMoreBehind ==
  ASSUME BookTypes, search.direction \in {1, -1},
         search'.direction = NextDirection, search'.param = search.param,
         NEW k \in Params, NEW d \in {1, -1}, Behind(k, d)'
  PROVE  Behind(k, d) \/ (k = search.param /\ d = search.direction)
  BY DEF Behind, NextDirection

LEMMA SkipCandidateStep ==
  ASSUME IInv, BookInv, DescentInv, SkipCandidate
  PROVE  BookInv' /\ DescentInv' /\ Climbs
<1>1. /\ proc.pc = "step" /\ search.phase = "coordinate" /\ ~NeedsEvaluation
      /\ search \in Searches /\ \A k \in Params : MinStep[k] <= search.step[k]
      /\ search.param \in Params
  BY AtAStep DEF SkipCandidate
<1>2. /\ ~InRange(Candidate) /\ search.direction \in {1, -1} /\ trials' = trials /\ proc' = proc
      /\ search' = [search EXCEPT !.direction = NextDirection]
  BY <1>1 DEF SkipCandidate, BothDirections, Searches
<1>3. /\ search' \in Searches /\ search'.step = search.step /\ search'.count = search.count
      /\ search'.phase = "coordinate" /\ search'.anchor = search.anchor
      /\ search'.param = search.param /\ search'.results = search.results
      /\ search'.improved = search.improved /\ search'.direction = NextDirection
  BY <1>1, <1>2 DEF Searches, NextDirection
<1>4. BookInv'
  BY <1>1, <1>2, <1>3, SearchMoves
<1>5. Evaluated' = Evaluated /\ \A x : Beats(x)' <=> Beats(x)
  BY <1>2, <1>3 DEF Evaluated, Beats, Accepted
<1>6. WinsInv'
  BY <1>3, <1>5 DEF DescentInv, WinsInv, PassOver, Neighbour
<1>7. AskedInv'
  <2> SUFFICES ASSUME ~search.improved, NEW k \in Params, NEW d \in {1, -1}, Behind(k, d)'
               PROVE  /\ InRange(Beside(k, d)) => Beside(k, d) \in Evaluated
                      /\ Beats(Beside(k, d)) => k = search.param /\ search.results[d] = "win"
    BY <1>3, <1>5 DEF AskedInv, Beside
  <2>1. CASE Behind(k, d)
    BY <1>1, <2>1 DEF DescentInv, AskedInv
  <2>2. CASE k = search.param /\ d = search.direction
    <3>1. ~InRange(Beside(k, d))
      BY <1>2, <2>2 DEF Beside, Candidate
    <3>2. ~Beats(Beside(k, d))
      BY <3>1, PointIs DEF Beats, Evaluated
    <3> QED BY <3>1, <3>2
  <2> QED BY <1>2, <1>3, <2>1, <2>2, OneMoreBehind DEF BookInv
<1>8. LocalOptimum' /\ Climbs
  BY <1>3 DEF LocalOptimum, Climbs
<1> QED BY <1>4, <1>6, <1>7, <1>8 DEF DescentInv

-----------------------------------------------------------------------------
\* The result of the candidate, stored now or before: what is known of the others
\* stays, and a win is one against the anchor.
LEMMA ResultComes ==
  ASSUME BookTypes, DescentInv, search.phase = "coordinate",
         search.param \in Params, search.direction \in {1, -1},
         NEW v \in Verdicts, search' \in Searches,
         search'.results = [search.results EXCEPT ![search.direction] = v],
         search'.direction = NextDirection, search'.param = search.param,
         search'.anchor = search.anchor, search'.step = search.step,
         search'.phase = search.phase, search'.improved = search.improved,
         \A x \in Evaluated : x \in Evaluated' /\ trials'[x] = trials[x],
         NEW CONSTANT c, c = Candidate, c \in Evaluated',
         v = "win" <=> Beats(c)'
  PROVE  DescentInv' /\ Climbs
<1>1. /\ search'.results[search.direction] = v
      /\ \A d \in {1, -1} : d # search.direction => search'.results[d] = search.results[d]
  <2>1. search.results \in [{1, -1} -> Verdicts]
    BY DEF BookTypes, Searches
  <2> QED BY <2>1
<1>2. /\ \A d \in {1, -1} : Neighbour(d)' = Neighbour(d)
      /\ Neighbour(search.direction) = c
      /\ \A k \in Params, d \in {1, -1} : Beside(k, d)' = Beside(k, d)
      /\ Beside(search.param, search.direction) = c
      /\ \A x : InRange(x)' <=> InRange(x)
  BY DEF Neighbour, Beside, Candidate, InRange
<1>3. ~PassOver'
  BY Constants DEF PassOver
<1>4. WinsInv'
  <2> SUFFICES ASSUME NEW d \in {1, -1}, search'.results[d] = "win"
               PROVE  Beats(Neighbour(d))'
    BY <1>3 DEF WinsInv
  <2>1. CASE d = search.direction
    <3>1. Beats(c)' /\ Neighbour(d)' = c
      BY <1>1, <1>2, <2>1
    <3> QED BY <3>1 DEF Beats, Accepted
  <2>2. CASE d # search.direction
    <3>1. Beats(Neighbour(d))
      BY <1>1, <2>2 DEF DescentInv, WinsInv
    <3> QED BY <1>2, <3>1 DEF Beats, Accepted
  <2> QED BY <2>1, <2>2
<1>5. AskedInv'
  <2> SUFFICES ASSUME ~search.improved, NEW k \in Params, NEW d \in {1, -1}, Behind(k, d)'
               PROVE  /\ InRange(Beside(k, d)) => Beside(k, d) \in Evaluated'
                      /\ Beats(Beside(k, d))' =>
                           k = search.param /\ search'.results[d] = "win"
    BY <1>2 DEF AskedInv
  <2>1. CASE Behind(k, d)
    <3>1. /\ InRange(Beside(k, d)) => Beside(k, d) \in Evaluated
          /\ Beats(Beside(k, d)) => k = search.param /\ search.results[d] = "win"
      BY <2>1 DEF DescentInv, AskedInv
    <3>2. ASSUME Beats(Beside(k, d))' PROVE Beats(Beside(k, d))
      <4>1. Beside(k, d) \in Evaluated' /\ Beside(k, d)' = Beside(k, d)
        BY <1>2, <3>2 DEF Beats
      <4>2. Beside(k, d) \in Points
        BY <4>1 DEF Evaluated
      <4>3. Beside(k, d) \in Evaluated
        BY <3>1, <4>2, PointIs
      <4> QED BY <3>2, <4>1, <4>3 DEF Beats, Accepted
    <3>3. k = search.param => d # search.direction
      BY <2>1 DEF Behind, BookTypes, Searches
    <3> QED BY <1>1, <3>1, <3>2, <3>3
  <2>2. CASE k = search.param /\ d = search.direction
    <3>1. Beside(k, d) = c /\ Beside(k, d)' = c
      BY <1>2, <2>2
    <3>2. Beats(Beside(k, d))' <=> Beats(c)'
      BY <3>1 DEF Beats, Accepted
    <3> QED BY <1>1, <2>2, <3>1, <3>2
  <2> QED BY <2>1, <2>2, OneMoreBehind
<1>6. LocalOptimum' /\ Climbs
  BY DEF LocalOptimum, Climbs
<1> QED BY <1>4, <1>5, <1>6 DEF DescentInv

\* What a decided result says against the anchor.
LEMMA ClassifyIs ==
  ASSUME NEW e \in Evidences
  PROVE  /\ Classify(e) \in Verdicts
         /\ Classify(e) = "win" <=>
              e.decision \in {"accept", "accept_exploratory"} /\ e.reference = search.anchor
  BY DEF Classify, Verdicts

LEMMA WithResultIs ==
  ASSUME search \in Searches, search.direction \in {1, -1}, NEW e \in Evidences
  PROVE  /\ WithResult(e) \in Searches
         /\ WithResult(e).results = [search.results EXCEPT ![search.direction] = Classify(e)]
         /\ WithResult(e).direction = NextDirection /\ WithResult(e).param = search.param
         /\ WithResult(e).anchor = search.anchor /\ WithResult(e).step = search.step
         /\ WithResult(e).phase = search.phase /\ WithResult(e).improved = search.improved
         /\ WithResult(e).count = search.count
<1> DEFINE r == [search.results EXCEPT ![search.direction] = Classify(e)]
<1>1. r \in [{1, -1} -> Verdicts]
  <2>1. search.results \in [{1, -1} -> Verdicts]
    BY DEF Searches
  <2> QED BY <2>1, ClassifyIs
<1>2. WithResult(e) = [search EXCEPT !.results = r, !.direction = NextDirection]
  BY DEF WithResult
<1>3. NextDirection \in {1, -1, 0}
  BY DEF NextDirection
<1> HIDE DEF r
<1>4. /\ WithResult(e) \in Searches /\ WithResult(e).results = r
      /\ WithResult(e).direction = NextDirection /\ WithResult(e).param = search.param
      /\ WithResult(e).anchor = search.anchor /\ WithResult(e).step = search.step
      /\ WithResult(e).phase = search.phase /\ WithResult(e).improved = search.improved
      /\ WithResult(e).count = search.count
  BY <1>1, <1>2, <1>3 DEF Searches
<1> QED BY <1>4 DEF r

LEMMA ReuseResultStep ==
  ASSUME IInv, BookInv, DescentInv, ReuseResult
  PROVE  BookInv' /\ DescentInv' /\ Climbs
<1> DEFINE e == trials[Candidate].evidence
<1>1. /\ proc.pc = "step" /\ search.phase = "coordinate" /\ ~NeedsEvaluation
      /\ search \in Searches /\ \A k \in Params : MinStep[k] <= search.step[k]
      /\ search.param \in Params
  BY AtAStep DEF ReuseResult
<1>2. /\ InRange(Candidate) /\ ~PassOver /\ ~BothDirections
      /\ search.direction \in {1, -1} /\ trials' = trials
      /\ proc' = proc /\ search' = WithResult(e)
  BY <1>1 DEF ReuseResult, BothDirections, Searches
<1>3. Candidate \in Evaluated
  <2>1. Candidate = Beside(search.param, search.direction)
    BY DEF Candidate, Beside
  <2>2. Candidate \in Points
    BY <1>1, <1>2, <2>1, BesideIs, PointIs DEF BookInv
  <2> QED BY <1>1, <1>2, <2>2 DEF NeedsEvaluation, Evaluated
<1>4. trials[Candidate] \in Rows /\ RowFits(trials[Candidate]) /\ e \in Evidences
  BY <1>3 DEF BookInv, BookTypes, RowsFit, Evaluated, Rows
<1> HIDE DEF e
<1>5. /\ search' \in Searches
      /\ search'.results = [search.results EXCEPT ![search.direction] = Classify(e)]
      /\ search'.direction = NextDirection /\ search'.param = search.param
      /\ search'.anchor = search.anchor /\ search'.step = search.step
      /\ search'.phase = search.phase /\ search'.improved = search.improved
      /\ search'.count = search.count
  BY <1>1, <1>2, <1>4, WithResultIs
<1>6. BookInv'
  BY <1>1, <1>2, <1>5, SearchMoves
<1>7. Evaluated' = Evaluated
  BY <1>2 DEF Evaluated
<1>8. Classify(e) = "win" <=> Beats(Candidate)
  <2>1. e.decision \in {"accept", "accept_exploratory"} =>
          trials[Candidate].against = {e.reference}
    BY <1>4 DEF RowFits, Decided, TerminalDecisions, e
  <2> QED BY <1>3, <1>4, <2>1, ClassifyIs DEF Beats, Accepted, e
<1>9. \A x : Beats(x)' <=> Beats(x)
  BY <1>2, <1>5, <1>7 DEF Beats, Accepted
<1>10. PICK c : c = Candidate
  OBVIOUS
<1>11. c \in Evaluated' /\ (Classify(e) = "win" <=> Beats(c)') /\ Classify(e) \in Verdicts
  BY <1>3, <1>4, <1>7, <1>8, <1>9, <1>10, ClassifyIs
<1> QED BY <1>1, <1>2, <1>5, <1>6, <1>7, <1>10, <1>11, ResultComes DEF BookInv

-----------------------------------------------------------------------------
LEMMA MovedToIs ==
  ASSUME search \in Searches, NEW x \in Vectors
  PROVE  /\ MovedTo(x) \in Searches /\ MovedTo(x).anchor = x /\ MovedTo(x).improved
         /\ MovedTo(x).step = search.step /\ MovedTo(x).count = search.count
         /\ MovedTo(x).phase = search.phase /\ MovedTo(x).param = search.param
         /\ MovedTo(x).pass = search.pass
  BY DEF MovedTo, Searches

\* Where the directions lead: nowhere, or to a neighbour that beats the anchor.
LEMMA Leads ==
  ASSUME BookTypes, WinsInv, ~PassOver, search.param \in Params, NEW d \in Wins
  PROVE  Neighbour(d) \in Vectors /\ Beats(Neighbour(d))
<1>1. d \in {1, -1} /\ search.results[d] = "win"
  BY DEF Wins
<1>2. Neighbour(d) = Beside(search.param, d)
  BY DEF Neighbour, Beside
<1>3. Neighbour(d) \in Vectors
  BY <1>1, <1>2, BesideIs
<1> QED BY <1>1, <1>3 DEF WinsInv

LEMMA SelectedIs ==
  ASSUME BookTypes, WinsInv, ~PassOver, search.param \in Params, NEW s \in Selected
  PROVE  /\ s \in Searches /\ s.step = search.step /\ s.count = search.count
         /\ s.phase = search.phase /\ s.param = search.param /\ s.pass = search.pass
         /\ \/ Wins = {} /\ s.anchor = search.anchor /\ s.improved = search.improved
            \/ s.improved /\ Beats(s.anchor)
<1>1. search \in Searches
  BY DEF BookTypes
<1>2. CASE Wins = {}
  BY <1>1, <1>2 DEF Selected
<1>3. CASE Wins # {}
  <2>1. PICK d \in Wins : s = MovedTo(Neighbour(d))
    BY <1>3 DEF Selected
  <2>2. Neighbour(d) \in Vectors /\ Beats(Neighbour(d))
    BY Leads
  <2> QED BY <1>1, <2>1, <2>2, MovedToIs
<1> QED BY <1>2, <1>3

LEMMA SelectCoordinateStep ==
  ASSUME IInv, BookInv, DescentInv, SelectCoordinate
  PROVE  BookInv' /\ DescentInv' /\ Climbs
<1>1. /\ proc.pc = "step" /\ search.phase = "coordinate" /\ ~NeedsEvaluation
      /\ search \in Searches /\ \A k \in Params : MinStep[k] <= search.step[k]
      /\ search.param \in Params /\ ~PassOver /\ search.direction = 0
      /\ trials' = trials /\ BookTypes /\ WinsInv
  BY AtAStep DEF SelectCoordinate, BothDirections, BookInv, DescentInv
<1>2. proc'.pc = "step" /\ (proc'.doing = "search" => proc.doing = "search")
  <2>1. proc \in Processes
    BY DEF IInv, Shapes
  <2>2. proc' = [proc EXCEPT !.doing = IF @ = "settle" THEN "pass" ELSE @]
    BY DEF SelectCoordinate
  <2> QED BY <1>1, <2>1, <2>2 DEF Processes
<1>3. PICK s \in Selected :
        search' = [s EXCEPT !.param = @ + 1, !.direction = 1, !.results = NoResults]
  BY DEF SelectCoordinate
<1>4. /\ s \in Searches /\ s.step = search.step /\ s.count = search.count
      /\ s.phase = search.phase /\ s.param = search.param
      /\ \/ Wins = {} /\ s.anchor = search.anchor /\ s.improved = search.improved
         \/ s.improved /\ Beats(s.anchor)
  BY <1>1, SelectedIs
<1>5. NoResults \in [{1, -1} -> Verdicts] /\ \A d \in {1, -1} : NoResults[d] = "none"
  BY DEF NoResults, Verdicts
<1>6. /\ search' \in Searches /\ search'.step = search.step /\ search'.count = search.count
      /\ search'.phase = "coordinate" /\ search'.param = search.param + 1
      /\ search'.direction = 1 /\ search'.results = NoResults
      /\ search'.anchor = s.anchor /\ search'.improved = s.improved
  <2> DEFINE param == search.param + 1
  <2>1. param \in Nat \ {0}
    BY <1>1 DEF Searches
  <2>2. search' = [s EXCEPT !.param = param, !.direction = 1, !.results = NoResults]
    BY <1>3, <1>4
  <2> HIDE DEF NoResults, param
  <2>3. /\ search' \in Searches /\ search'.step = s.step /\ search'.count = s.count
        /\ search'.phase = s.phase /\ search'.param = param
        /\ search'.direction = 1 /\ search'.results = NoResults
        /\ search'.anchor = s.anchor /\ search'.improved = s.improved
    BY <1>4, <1>5, <2>1, <2>2 DEF Searches
  <2> QED BY <1>1, <1>4, <2>3 DEF param
<1>7. BookInv'
  BY <1>1, <1>2, <1>6, SearchMoves
<1>8. Climbs
  BY <1>4, <1>6 DEF Climbs
<1>9. WinsInv' /\ LocalOptimum'
  BY <1>5, <1>6 DEF WinsInv, LocalOptimum
<1>10. AskedInv'
  <2> SUFFICES ASSUME ~s.improved, NEW k \in Params, NEW d \in {1, -1}, Behind(k, d)'
               PROVE  /\ (InRange(Beside(k, d)) => Beside(k, d) \in Evaluated)'
                      /\ ~Beats(Beside(k, d))'
    BY <1>6 DEF AskedInv
  <2>1. Wins = {} /\ search'.anchor = search.anchor /\ ~search.improved
    BY <1>4, <1>6
  <2>2. Behind(k, d)
    BY <1>1, <1>6, Constants DEF Behind, Searches
  <2>3. /\ InRange(Beside(k, d)) => Beside(k, d) \in Evaluated
        /\ Beats(Beside(k, d)) => search.results[d] = "win"
    BY <1>1, <2>1, <2>2 DEF DescentInv, AskedInv
  <2>4. ~Beats(Beside(k, d))
    BY <2>1, <2>3 DEF Wins
  <2>5. /\ Beside(k, d)' = Beside(k, d) /\ Evaluated' = Evaluated
    BY <1>1, <1>6, <2>1 DEF Beside, Evaluated
  <2>6. (InRange(Beside(k, d)) => Beside(k, d) \in Evaluated)'
    BY <2>3, <2>5 DEF InRange
  <2>7. ~Beats(Beside(k, d))'
    BY <1>1, <2>1, <2>4, <2>5 DEF Beats, Accepted
  <2> QED BY <2>6, <2>7
<1> QED BY <1>7, <1>8, <1>9, <1>10 DEF DescentInv

\* Half the steps, or the smallest ones.
LEMMA HalvedIs ==
  ASSUME search \in Searches
  PROVE  /\ Halved \in [Params -> Nat \ {0}] /\ \A k \in Params : MinStep[k] <= Halved[k]
         /\ Halved = search.step => search.step = MinStep
<1>1. search.step \in [Params -> Nat \ {0}] /\ MinStep \in [Params -> Nat \ {0}]
  BY Constants DEF Searches
<1>2. \A a, b \in Nat \ {0} :
        /\ Larger(a, b \div 2) \in Nat \ {0} /\ a <= Larger(a, b \div 2)
        /\ Larger(a, b \div 2) = b => b = a
  BY DEF Larger
<1>3. \A k \in Params : Halved[k] = Larger(MinStep[k], search.step[k] \div 2)
  BY DEF Halved
<1>4. Halved \in [Params -> Nat \ {0}]
  BY <1>1, <1>2 DEF Halved
<1>5. Halved = search.step => search.step = MinStep
  <2> SUFFICES ASSUME Halved = search.step PROVE search.step = MinStep
    OBVIOUS
  <2>1. \A k \in Params : search.step[k] = MinStep[k]
    BY <1>1, <1>2, <1>3
  <2> QED BY <1>1, <2>1
<1> QED BY <1>1, <1>2, <1>3, <1>4, <1>5

LEMMA FinishPassStep ==
  ASSUME IInv, BookInv, DescentInv, FinishPass
  PROVE  BookInv' /\ DescentInv' /\ Climbs
<1>1. /\ proc.pc = "step" /\ search.phase = "coordinate" /\ ~NeedsEvaluation
      /\ search \in Searches /\ \A k \in Params : MinStep[k] <= search.step[k]
      /\ \A k \in Params : k < search.param
      /\ PassOver /\ trials' = trials /\ proc' = proc
  BY AtAStep DEF FinishPass
<1>2. /\ Halved \in [Params -> Nat \ {0}] /\ \A k \in Params : MinStep[k] <= Halved[k]
      /\ Halved = search.step => search.step = MinStep
  BY <1>1, HalvedIs
<1>3. \A d \in {1, -1} : search.results[d] # "win"
  BY <1>1 DEF DescentInv, WinsInv
<1>4. Evaluated' = Evaluated
  BY <1>1 DEF Evaluated
<1>5. CASE Ends
  <2> DEFINE pass == search.pass + 1
  <2>0. pass \in Nat
    BY <1>1 DEF Searches
  <2>1. search' = [search EXCEPT !.pass = pass, !.phase = "completed"]
    BY <1>5 DEF FinishPass
  <2> HIDE DEF pass
  <2>2. /\ search' \in Searches /\ search'.step = search.step /\ search'.count = search.count
        /\ search'.phase = "completed" /\ search'.anchor = search.anchor
        /\ search'.results = search.results /\ search'.pass = pass
        /\ search'.stopped = search.stopped
    BY <1>1, <2>0, <2>1 DEF Searches
  <2>3. BookInv'
    BY <1>1, <2>2, SearchMoves
  <2>4. WinsInv' /\ AskedInv' /\ Climbs
    BY <1>3, <2>2 DEF WinsInv, AskedInv, Climbs
  <2>5. LocalOptimum'
    <3> SUFFICES ASSUME search.pass + 1 < MaxPasses, NEW k \in Params, NEW d \in {1, -1},
                        InRange(Moved(search.anchor, k, d * MinStep[k]))
                 PROVE  LET x == Moved(search.anchor, k, d * MinStep[k])
                        IN  /\ x \in Evaluated
                            /\ ~(Accepted(x) /\ trials[x].against = {search.anchor})
      BY <1>1, <1>4, <2>2 DEF LocalOptimum, Accepted, InRange, pass
    <3>1. ~search.improved /\ search.step = MinStep
      <4>1. ~(search.pass + 1 >= MaxPasses)
        BY <1>1, Constants DEF Searches
      <4> QED BY <1>2, <1>5, <4>1 DEF Ends
    <3>2. Beside(k, d) = Moved(search.anchor, k, d * MinStep[k])
      BY <3>1 DEF Beside
    <3>3. Behind(k, d) /\ k # search.param
      BY <1>1, Constants DEF Behind, Searches
    <3>4. Beside(k, d) \in Evaluated /\ ~Beats(Beside(k, d))
      BY <1>1, <3>1, <3>2, <3>3 DEF DescentInv, AskedInv
    <3> QED BY <3>2, <3>4 DEF Beats
  <2> QED BY <2>3, <2>4, <2>5 DEF DescentInv
<1>6. CASE ~Ends
  <2> DEFINE step == IF search.improved THEN search.step ELSE Halved
             pass == search.pass + 1
  <2>0. pass \in Nat
    BY <1>1 DEF Searches
  <2>1. search' = [search EXCEPT !.pass = pass, !.param = 1, !.direction = 1,
                                 !.improved = FALSE, !.step = step]
    BY <1>6 DEF FinishPass
  <2>2. step \in [Params -> Nat \ {0}] /\ \A k \in Params : MinStep[k] <= step[k]
    BY <1>1, <1>2 DEF Searches
  <2> HIDE DEF step, pass
  <2>3. /\ search' \in Searches /\ search'.step = step /\ search'.count = search.count
        /\ search'.phase = "coordinate" /\ search'.anchor = search.anchor
        /\ search'.results = search.results /\ search'.param = 1 /\ search'.direction = 1
    <3> DEFINE first == 1
    <3>1. search \in Searches /\ search.phase = "coordinate" /\ first \in Nat \ {0}
      BY <1>1
    <3>2. search' = [search EXCEPT !.pass = pass, !.param = first, !.direction = 1,
                                   !.improved = FALSE, !.step = step]
      BY <2>1
    <3> HIDE DEF first
    <3>3. /\ search' \in Searches /\ search'.step = step /\ search'.count = search.count
          /\ search'.phase = "coordinate" /\ search'.anchor = search.anchor
          /\ search'.results = search.results /\ search'.param = first /\ search'.direction = 1
      BY <2>0, <2>2, <3>1, <3>2 DEF Searches
    <3> QED BY <3>3 DEF first
  <2>4. BookInv'
    BY <1>1, <2>2, <2>3, SearchMoves
  <2>5. WinsInv' /\ LocalOptimum' /\ Climbs
    BY <1>3, <2>3 DEF WinsInv, LocalOptimum, Climbs
  <2>6. AskedInv'
    <3>1. \A k \in Params, d \in {1, -1} : ~Behind(k, d)'
      BY <2>3, Constants DEF Behind
    <3> QED BY <3>1 DEF AskedInv
  <2> QED BY <2>4, <2>5, <2>6 DEF DescentInv
<1> QED BY <1>5, <1>6

\* stop takes the one direction that has a result, if it is a win.
LEMMA StopSearchStep ==
  ASSUME IInv, BookInv, DescentInv, StopSearch
  PROVE  BookInv' /\ DescentInv' /\ Climbs
<1>1. /\ proc.pc = "step" /\ proc.doing = "stop" /\ trials' = trials
      /\ search \in Searches /\ \A k \in Params : MinStep[k] <= search.step[k]
      /\ BookTypes /\ WinsInv
  BY DEF StopSearch, At, BookInv, BookTypes, DescentInv
<1>2. proc'.pc = "finish" /\ proc'.doing = "stop"
  BY <1>1, GoesTo DEF StopSearch, IInv, Shapes, Stages
<1>3. /\ Partial \in Searches /\ Partial.step = search.step /\ Partial.count = search.count
      /\ Partial.anchor = search.anchor \/ Beats(Partial.anchor)
  <2>1. CASE search.phase = "coordinate" /\ ~PassOver /\ search.direction = -1
               /\ search.results[1] = "win"
    <3>1. search.param \in Params /\ 1 \in Wins
      BY <1>1, <2>1, Constants DEF PassOver, Searches, Wins
    <3>2. Neighbour(1) \in Vectors /\ Beats(Neighbour(1))
      BY <1>1, <2>1, <3>1, Leads
    <3> QED BY <1>1, <2>1, <3>2, MovedToIs DEF Partial
  <2>2. CASE ~(search.phase = "coordinate" /\ ~PassOver /\ search.direction = -1
                 /\ search.results[1] = "win")
    BY <1>1, <2>2 DEF Partial
  <2> QED BY <2>1, <2>2
<1>4. search' = [Partial EXCEPT !.phase = "completed", !.stopped = TRUE, !.direction = 1,
                                !.param = Len(Baseline) + 1, !.results = NoResults]
  BY DEF StopSearch
<1>5. NoResults \in [{1, -1} -> Verdicts] /\ \A d \in {1, -1} : NoResults[d] = "none"
  BY DEF NoResults, Verdicts
<1>6. Len(Baseline) + 1 \in Nat \ {0}
  BY Constants
<1>7. /\ search' \in Searches /\ search'.step = search.step /\ search'.count = search.count
      /\ search'.phase = "completed" /\ search'.stopped /\ search'.results = NoResults
      /\ search'.anchor = Partial.anchor
  <2> HIDE DEF NoResults, Partial
  <2> QED BY <1>3, <1>4, <1>5, <1>6 DEF Searches
<1>8. BookInv'
  BY <1>1, <1>2, <1>7, SearchMoves
<1>9. DescentInv'
  BY <1>5, <1>7 DEF DescentInv, WinsInv, AskedInv, LocalOptimum
<1>10. Climbs
  BY <1>3, <1>7 DEF Climbs
<1> QED BY <1>8, <1>9, <1>10

-----------------------------------------------------------------------------
\* The result of a candidate and its trial come into the books together.
LEMMA ResultIsBooked ==
  ASSUME BookInv, proc.pc = "record", NEW t \in Rows, SetTrial(t),
         RowFits(t), t.status = "completed", t.blocks = Trial.blocks,
         Point # Baseline => Decided(t),
         search' \in Searches, search'.step = search.step, search'.phase = "coordinate",
         search'.count = search.count + 1, proc'.pc = "step", proc'.doing = "settle"
  PROVE  /\ BookInv' /\ Evaluated' = Evaluated \cup {Point} /\ trials'[Point] = t
         /\ \A x \in Evaluated : x # Point /\ trials'[x] = trials[x]
<1>1. proc.pc \in Evaluating
  BY DEF Evaluating
<1>2. /\ NeedsEvaluation /\ Point \in Points /\ Trial.status # "completed"
      /\ trials' \in [Points -> Rows] /\ trials'[Point] = t
      /\ \A x \in Points : x # Point => trials'[x] = trials[x]
  BY <1>1, TheTrial, TrialSet
<1>3. BookTypes /\ RowsFit /\ OneOpen /\ Booked
  BY DEF BookInv
<1>4. BookTypes' /\ RowsFit' /\ Fresh'
  BY <1>2, <1>3 DEF BookTypes, RowsFit, Fresh
<1>5. OneOpen'
  <2>1. search.phase # "completed"
    BY <1>1, TheTrial
  <2>2. \A x \in Points : ~Open(trials'[x])
    BY <1>2, <1>3, <2>1 DEF OneOpen, Open
  <2> QED BY <2>2 DEF OneOpen
<1>6. RunningInv'
  <2>1. ~Has(t, {"running"})
    BY DEF RowFits, Done, Has
  <2>2. \A x \in Points : x # Point => ~Has(trials'[x], {"running"})
    BY <1>2, RunningIsOpen
  <2> QED BY <1>2, <2>1, <2>2 DEF RunningInv
<1>7. Places'
  BY DEF Places, Evaluating, Opening
<1>8. Evaluated' = Evaluated \cup {Point} /\ Point \notin Evaluated
  BY <1>2 DEF Evaluated, Trial
<1>9. Booked'
  <2>1. IsFiniteSet(Evaluated) /\ search.count = Cardinality(Evaluated)
    BY <1>3 DEF Booked
  <2>2. /\ IsFiniteSet(Evaluated \cup {Point})
        /\ Cardinality(Evaluated \cup {Point}) = Cardinality(Evaluated) + 1
    BY <1>8, <2>1, FS_AddElement
  <2>3. search'.count = Cardinality(Evaluated')
    BY <1>8, <2>1, <2>2, Zenon
  <2>4. search.count < MaxEvaluations
    BY <1>1 DEF BookInv, BudgetInv
  <2>5. search'.count <= MaxEvaluations
    <3>1. search.count \in Nat
      BY <1>3 DEF BookTypes, Searches
    <3> QED BY <2>4, <3>1, Constants
  <2> QED BY <1>8, <2>2, <2>3, <2>5, Zenon DEF Booked
<1>10. BudgetInv'
  <2>1. IsFiniteSet(PlayedBlocks') /\ Played' = Played + 0
    BY <1>1, PlayedKept
  <2>2. PICK p \in Nat : p = Played
    BY PlayedIsNat
  <2>3. p + 0 = p
    OBVIOUS
  <2>4. Played' <= MaxGames
    <3>1. Played <= MaxGames
      BY DEF BookInv, BudgetInv
    <3> QED BY <2>1, <2>2, <2>3, <3>1, Zenon
  <2>5. proc'.doing # "search" /\ proc'.pc \notin Evaluating
    BY DEF Evaluating
  <2> QED BY <2>1, <2>4, <2>5, Zenon DEF BudgetInv
<1>11. \A x \in Evaluated : x # Point /\ trials'[x] = trials[x]
  BY <1>2, <1>8 DEF Evaluated
<1> QED BY <1>2, <1>4, <1>5, <1>6, <1>7, <1>8, <1>9, <1>10, <1>11 DEF BookInv

\* One more result of a search.
LEMMA CountedOn ==
  ASSUME NEW s \in Searches
  PROVE  LET n == [s EXCEPT !.count = @ + 1]
         IN  /\ n \in Searches /\ n.count = s.count + 1 /\ n.phase = s.phase
             /\ n.step = s.step /\ n.anchor = s.anchor /\ n.param = s.param
             /\ n.direction = s.direction /\ n.results = s.results /\ n.improved = s.improved
<1> DEFINE count == s.count + 1
           n == [s EXCEPT !.count = count]
<1>1. count \in Nat
  BY DEF Searches
<1> HIDE DEF count
<1>2. /\ n \in Searches /\ n.count = count /\ n.phase = s.phase
      /\ n.step = s.step /\ n.anchor = s.anchor /\ n.param = s.param
      /\ n.direction = s.direction /\ n.results = s.results /\ n.improved = s.improved
  BY <1>1 DEF Searches
<1> QED BY <1>2 DEF count

\* The row of a trial that is completed with its evidence.
LEMMA CompletedRow ==
  ASSUME Trial \in Rows, NEW e \in Evidences
  PROVE  LET t == [Trial EXCEPT !.status = "completed", !.evidence = e]
         IN  /\ t \in Rows /\ t.status = "completed" /\ t.evidence = e
             /\ t.blocks = Trial.blocks /\ t.against = Trial.against /\ t.level = Trial.level
  BY DEF Rows, Statuses

LEMMA ExploredIs ==
  ASSUME NEW e \in Evidences, e.decision \in TerminalDecisions
  PROVE  /\ Explored(e) \in Evidences /\ Explored(e).decision \in TerminalDecisions
         /\ Explored(e).level = e.level /\ Explored(e).reference = e.reference
<1>1. \A d \in TerminalDecisions :
        LET n == [e EXCEPT !.decision = d]
        IN  /\ n \in Evidences /\ n.decision = d /\ n.level = e.level /\ n.reference = e.reference
  BY DEF Evidences, Decisions
<1>2. {"accept_exploratory", "reject_exploratory"} \subseteq TerminalDecisions
  BY DEF TerminalDecisions
<1> QED BY <1>1, <1>2 DEF Explored

\* The baseline is recorded without a game.
LEMMA RecordBaselineStep ==
  ASSUME IInv, BookInv, DescentInv, RecordResult, search.phase = "baseline"
  PROVE  BookInv' /\ DescentInv' /\ Climbs
<1> DEFINE e == Evidence("baseline")
           s == [search EXCEPT !.phase = "coordinate"]
           t == [Trial EXCEPT !.status = "completed", !.evidence = e]
<1>1. /\ proc.pc = "record" /\ SetTrial(t) /\ search' = [s EXCEPT !.count = @ + 1]
      /\ proc'.pc = "step" /\ proc'.doing = "settle"
  BY DEF RecordResult, At, IInv, Shapes, Processes
<1>2. /\ Trial \in Rows /\ Trial.blocks = <<>> /\ Trial.against = {} /\ RowFits(Trial)
  BY <1>1, TheTrial DEF Evaluating
<1>3. e \in Evidences /\ e.decision = "baseline"
  BY <1>2, EvidenceIs DEF Decisions
<1> HIDE DEF e
<1>4. /\ t \in Rows /\ t.status = "completed" /\ t.evidence = e
      /\ t.blocks = Trial.blocks /\ t.against = Trial.against /\ t.level = Trial.level
  BY <1>2, <1>3, CompletedRow
<1> HIDE DEF t
<1>5. RowFits(t)
  <2>1. ~Decided(t)
    BY <1>3, <1>4 DEF Decided, TerminalDecisions
  <2>2. Done(t) /\ Ordered(t)
    BY <1>2, <1>4 DEF RowFits, Ordered, Has, Done
  <2> QED BY <1>2, <1>4, <2>1, <2>2 DEF RowFits
<1>6. /\ s \in Searches /\ s.phase = "coordinate" /\ s.step = search.step
      /\ s.count = search.count /\ s.anchor = search.anchor /\ s.param = search.param
      /\ s.direction = search.direction /\ s.results = search.results
  BY DEF BookInv, BookTypes, Searches
<1> HIDE DEF s
<1>7. /\ search' \in Searches /\ search'.phase = "coordinate" /\ search'.step = search.step
      /\ search'.count = search.count + 1 /\ search'.anchor = search.anchor
      /\ search'.param = search.param /\ search'.direction = search.direction
      /\ search'.results = search.results
  BY <1>1, <1>6, CountedOn
<1>8. Point = Baseline
  BY DEF Point
<1>9. BookInv'
  BY <1>1, <1>4, <1>5, <1>7, <1>8, ResultIsBooked
<1>10. /\ search.param = 1 /\ search.direction = 1 /\ search.results = NoResults
  BY DEF BookInv, Fresh
<1>11. WinsInv' /\ LocalOptimum' /\ Climbs
  BY <1>7, <1>10 DEF WinsInv, LocalOptimum, NoResults, Climbs
<1>12. AskedInv'
  <2>1. \A k \in Params, d \in {1, -1} : ~Behind(k, d)'
    BY <1>7, <1>10, Constants DEF Behind
  <2> QED BY <2>1 DEF AskedInv
<1> QED BY <1>9, <1>11, <1>12 DEF DescentInv

\* A candidate is recorded with the direction that it was in.
LEMMA RecordCandidateStep ==
  ASSUME IInv, BookInv, DescentInv, RecordResult, search.phase # "baseline"
  PROVE  BookInv' /\ DescentInv' /\ Climbs
<1> DEFINE e == Explored(Trial.evidence)
           s == WithResult(e)
           t == [Trial EXCEPT !.status = "completed", !.evidence = e]
<1>1. /\ proc.pc = "record" /\ SetTrial(t) /\ search' = [s EXCEPT !.count = @ + 1]
      /\ proc'.pc = "step" /\ proc'.doing = "settle"
  BY DEF RecordResult, At, IInv, Shapes, Processes
<1>2. /\ Trial \in Rows /\ RowFits(Trial) /\ NeedsEvaluation /\ Decided(Trial)
      /\ search.phase = "coordinate"
  BY <1>1, TheTrial DEF Evaluating, PlaceFits
<1>3. Trial.evidence \in Evidences
  BY <1>2 DEF Rows
<1>4. /\ e \in Evidences /\ e.decision \in TerminalDecisions
      /\ e.level = Trial.evidence.level /\ e.reference = Trial.evidence.reference
  BY <1>2, <1>3, ExploredIs DEF Decided
<1> HIDE DEF e
<1>5. /\ t \in Rows /\ t.status = "completed" /\ t.evidence = e
      /\ t.blocks = Trial.blocks /\ t.against = Trial.against /\ t.level = Trial.level
  BY <1>2, <1>4, CompletedRow
<1> HIDE DEF t
<1>6. RowFits(t) /\ Decided(t) /\ t.against = {e.reference}
  <2>1. Decided(t)
    BY <1>4, <1>5 DEF Decided
  <2>2. /\ Len(Trial.blocks) = MaxBlocks /\ Done(Trial)
        /\ Trial.evidence.level = Trial.level /\ Trial.against = {Trial.evidence.reference}
    BY <1>2 DEF RowFits
  <2>3. Done(t) /\ Ordered(t)
    BY <1>2, <1>5, <2>2 DEF RowFits, Ordered, Has, Done
  <2> QED BY <1>2, <1>4, <1>5, <2>1, <2>2, <2>3 DEF RowFits
<1>7. /\ Point = Candidate /\ search.param \in Params /\ search.direction \in {1, -1}
      /\ search \in Searches
  BY <1>2, PointNeeds DEF BookInv, BookTypes
<1>8. /\ s \in Searches
      /\ s.results = [search.results EXCEPT ![search.direction] = Classify(e)]
      /\ s.direction = NextDirection /\ s.param = search.param
      /\ s.anchor = search.anchor /\ s.step = search.step
      /\ s.phase = search.phase /\ s.improved = search.improved
      /\ s.count = search.count
  BY <1>4, <1>7, WithResultIs
<1> HIDE DEF s
<1>9. /\ search' \in Searches /\ search'.count = search.count + 1
      /\ search'.results = [search.results EXCEPT ![search.direction] = Classify(e)]
      /\ search'.direction = NextDirection /\ search'.param = search.param
      /\ search'.anchor = search.anchor /\ search'.step = search.step
      /\ search'.phase = search.phase /\ search'.improved = search.improved
  BY <1>1, <1>8, CountedOn
<1>10. PICK c : c = Candidate
  OBVIOUS
<1>11. /\ BookInv' /\ Evaluated' = Evaluated \cup {c} /\ trials'[c] = t
       /\ \A x \in Evaluated : trials'[x] = trials[x]
  BY <1>1, <1>2, <1>5, <1>6, <1>7, <1>9, <1>10, ResultIsBooked
<1>12. Classify(e) = "win" <=> Beats(c)'
  <2>1. Beats(c)' <=> /\ e.decision \in {"accept", "accept_exploratory"}
                      /\ t.against = {search.anchor}
    BY <1>5, <1>9, <1>11 DEF Beats, Accepted
  <2>2. t.against = {search.anchor} <=> e.reference = search.anchor
    BY <1>6
  <2> QED BY <1>4, <2>1, <2>2, ClassifyIs
<1>13. Classify(e) \in Verdicts
  BY <1>4, ClassifyIs
<1>14. c \in Evaluated' /\ \A x \in Evaluated : x \in Evaluated' /\ trials'[x] = trials[x]
  BY <1>11
<1>15. DescentInv' /\ Climbs
  BY <1>2, <1>7, <1>9, <1>10, <1>12, <1>13, <1>14, ResultComes DEF BookInv
<1> QED BY <1>11, <1>15

-----------------------------------------------------------------------------
LEMMA InitBooks == Init => BookInv /\ DescentInv
<1> SUFFICES ASSUME Init PROVE BookInv /\ DescentInv
  OBVIOUS
<1>1. search = NoSearch /\ proc.pc = "off" /\ \A x \in Points : trials[x] = NoTrial
  BY OffIs DEF Init
<1>2. /\ NoTrial \in Rows /\ NoTrial.status = "none" /\ NoTrial.blocks = <<>>
      /\ NoTrial.against = {} /\ ~Decided(NoTrial)
  BY EmptyRows DEF Decided, TerminalDecisions
<1>3. DOMAIN NoTrial.blocks = {} /\ Len(NoTrial.blocks) = 0
  BY <1>2
<1>4. BookTypes
  <2>1. trials \in [Points -> Rows]
    BY <1>2 DEF Init
  <2> QED BY <1>1, <2>1, NoSearchIs, Constants DEF BookTypes
<1>5. RowsFit /\ OneOpen
  <2>1. RowFits(NoTrial)
    BY <1>2, <1>3, Constants DEF RowFits, Ordered, Has
  <2> QED BY <1>1, <1>2, <2>1 DEF RowsFit, OneOpen, Open
<1>6. Fresh
  BY <1>1, <1>2, NoSearchIs DEF Fresh
<1>7. RunningInv /\ Places
  BY <1>1, <1>2, <1>3 DEF RunningInv, Places, Has, Evaluating, Opening
<1>8. Booked
  <2>1. Evaluated = {}
    BY <1>1, <1>2 DEF Evaluated
  <2>2. IsFiniteSet({}) /\ Cardinality({}) = 0
    BY FS_EmptySet
  <2>3. search.count = 0 /\ 0 <= MaxEvaluations
    BY <1>1, NoSearchIs, Constants
  <2> QED BY <2>1, <2>2, <2>3, Zenon DEF Booked
<1>9. BudgetInv
  <2>1. PlayedBlocks = {}
    BY <1>1, <1>2, <1>3 DEF PlayedBlocks, Indices
  <2>2. IsFiniteSet({}) /\ Cardinality({}) = 0
    BY FS_EmptySet
  <2>3. Played = Cardinality(PlayedBlocks)
    BY DEF Played, PlayedBlocks
  <2>4. 0 <= MaxGames
    BY Constants
  <2> QED BY <1>1, <2>1, <2>2, <2>3, <2>4, Zenon DEF BudgetInv, Evaluating
<1>10. DescentInv
  BY <1>1, NoSearchIs DEF DescentInv, WinsInv, AskedInv, LocalOptimum, NoResults
<1> QED BY <1>4, <1>5, <1>6, <1>7, <1>8, <1>9, <1>10 DEF BookInv

LEMMA NextBooks ==
  ASSUME IInv, BookInv, DescentInv, [Next]_vars
  PROVE  BookInv' /\ DescentInv' /\ (Climbs \/ UNCHANGED search)
<1>1. CASE UNCHANGED vars
  <2>1. UNCHANGED <<trials, search>> /\ proc' = proc
    BY <1>1 DEF vars
  <2>2. /\ BookTypes' /\ RowsFit' /\ OneOpen' /\ Fresh' /\ Booked' /\ DescentInv'
        /\ NeedsEvaluation' <=> NeedsEvaluation
        /\ Played' = Played /\ PlayedBlocks' = PlayedBlocks /\ Trial' = Trial
    BY <2>1, SameReading DEF BookInv
  <2>3. RunningInv' /\ Places'
    BY <2>1, <2>2 DEF BookInv, RunningInv, Places, PlaceFits
  <2>4. BudgetInv'
    <3>1. PlayedOf(Trial)' = PlayedOf(Trial)
      BY <2>2 DEF PlayedOf
    <3>2. search' = search
      BY <2>1
    <3> QED BY <2>1, <2>2, <3>1, <3>2, Zenon DEF BookInv, BudgetInv
  <2> QED BY <2>1, <2>2, <2>3, <2>4 DEF BookInv
<1>2. CASE \/ Invoke \/ Enter \/ LoopHead \/ Finish \/ StepsDone \/ Release \/ Kill
           \/ NoNextBlock \/ Confirmation \/ ConfirmationFails \/ CloseTerminal \/ Evaluate
  <2>1. BookInv' /\ UNCHANGED <<trials, search>>
    BY <1>2, AroundTheSearch, NothingToReconcile, EvaluateStep
  <2> QED BY <2>1, SameReading
<1>3. CASE Recover \/ Control
  <2>1. proc \in Processes
    BY DEF IInv, Shapes
  <2>2. /\ trials' = Recovered /\ UNCHANGED search /\ proc'.pc \in {"close", "off"}
        /\ proc'.pc = "close" => proc'.doing = "reconcile"
    BY <1>3, <2>1, GoesTo DEF Recover, Control, At, Stages, BookInv, Places, Opening
  <2> QED BY <2>2, Recovering
<1>4. CASE \/ CreateTrial \/ CreateBlock \/ Resume \/ ClaimBlock \/ EnsureTrial \/ BlockCompletes
           \/ MatchFails \/ Lost \/ Continue \/ CloseBudget \/ StoreEvidence
  <2>1. BookInv' /\ DescentInv'
    BY <1>4, CreateTrialStep, CreateBlockStep, ResumeStep, ClaimBlockStep, EnsureTrialStep,
       BlockCompletesStep, MatchFailsStep, LostStep, ContinueStep, CloseBudgetStep,
       StoreEvidenceStep
  <2>2. UNCHANGED search
    BY <1>4 DEF CreateTrial, CreateBlock, Resume, ClaimBlock, EnsureTrial, BlockCompletes,
                MatchFails, Lost, Continue, CloseBudget, StoreEvidence, OnlyTrial
  <2> QED BY <2>1, <2>2
<1>5. CASE Load \/ SkipCandidate \/ ReuseResult \/ SelectCoordinate \/ FinishPass \/ StopSearch
           \/ RecordResult
  BY <1>5, LoadStep, SkipCandidateStep, ReuseResultStep, SelectCoordinateStep, FinishPassStep,
     StopSearchStep, RecordBaselineStep, RecordCandidateStep
<1> QED BY <1>1, <1>2, <1>3, <1>4, <1>5 DEF Next, Optimizer, SearchStep, Evaluation

LEMMA AtMostOne ==
  ASSUME NEW S, \A a, b \in S : a = b
  PROVE  Cardinality(S) <= 1
<1>1. CASE S = {}
  <2>1. Cardinality({}) = 0
    BY FS_EmptySet
  <2> QED BY <1>1, <2>1
<1>2. CASE S # {}
  <2>1. PICK a \in S : S = {a}
    BY <1>2
  <2>2. Cardinality({a}) = 1
    BY FS_Singleton
  <2> QED BY <2>1, <2>2
<1> QED BY <1>1, <1>2

LEMMA BooksAreInOrder == BookInv => BooksRight
<1> SUFFICES ASSUME BookInv PROVE BooksRight
  OBVIOUS
<1>0. RowsFit
  BY DEF BookInv
<1>1. search.count = Cardinality(Evaluated) /\ search.count <= MaxEvaluations /\ Played <= MaxGames
  BY DEF BookInv, Booked, BudgetInv
<1>2. ASSUME NEW x \in Points PROVE Cardinality(trials[x].against) <= 1
  <2>1. \A a, b \in trials[x].against : a = b
    BY <1>0 DEF RowsFit, RowFits
  <2> QED BY <2>1, AtMostOne
<1>3. ASSUME NEW x \in Evaluated \ {Baseline}
      PROVE  /\ trials[x].evidence.decision \in TerminalDecisions
             /\ trials[x].evidence.level = trials[x].level
             /\ trials[x].against = {trials[x].evidence.reference}
             /\ Indices(trials[x].blocks, {"pending", "interrupted", "running"}) = {}
  <2>1. RowFits(trials[x]) /\ Decided(trials[x])
    BY <1>0 DEF RowsFit, Evaluated
  <2>2. Done(trials[x])
    BY <2>1 DEF RowFits
  <2>3. Indices(trials[x].blocks, {"pending", "interrupted", "running"}) = {}
    BY <2>2 DEF Done, Indices
  <2> QED BY <2>1, <2>3 DEF RowFits, Decided
<1>4. Cardinality({b \in Points \X (1..MaxBlocks) :
                     b[2] \in Indices(trials[b[1]].blocks, {"running"})}) <= 1
  <2> DEFINE running == {b \in Points \X (1..MaxBlocks) :
                           b[2] \in Indices(trials[b[1]].blocks, {"running"})}
  <2>1. ASSUME NEW a \in running, NEW b \in running PROVE a = b
    <3>1. /\ a[1] \in Points /\ a[2] \in 1..MaxBlocks /\ a = <<a[1], a[2]>>
          /\ b[1] \in Points /\ b[2] \in 1..MaxBlocks /\ b = <<b[1], b[2]>>
          /\ a[2] \in DOMAIN trials[a[1]].blocks /\ trials[a[1]].blocks[a[2]] = "running"
          /\ b[2] \in DOMAIN trials[b[1]].blocks /\ trials[b[1]].blocks[b[2]] = "running"
      BY DEF Indices
    <3>2. a[1] = Point /\ b[1] = Point
      BY <3>1, RunningIsOpen DEF Has
    <3>3. Ordered(trials[a[1]])
      BY <1>0, <3>1 DEF RowsFit, RowFits
    <3>4. ~(a[2] < b[2]) /\ ~(b[2] < a[2])
      BY <3>1, <3>2, <3>3 DEF Ordered
    <3>5. a[2] = b[2]
      BY <3>1, <3>4, Constants
    <3> QED BY <3>1, <3>2, <3>5
  <2> HIDE DEF running
  <2>2. Cardinality(running) <= 1
    BY <2>1, AtMostOne
  <2> QED BY <2>2 DEF running
<1> QED BY <1>1, <1>2, <1>3, <1>4 DEF BooksRight

-----------------------------------------------------------------------------
\* The store is one account of the campaign for any registry and any budgets, after any
\* number of kills between two transactions (database.py, optimization.py): one result
\* for each completed trial, decided on all its games against one parameter set, one
\* block at most that runs, and neither budget exceeded.
THEOREM BooksAreRight == Spec => []BooksRight
<1>1. Init => IInv /\ BookInv /\ DescentInv
  BY InitIInv, InitBooks
<1>2. IInv /\ BookInv /\ DescentInv /\ [Next]_vars => (IInv /\ BookInv /\ DescentInv)'
  BY Inductive, NextBooks
<1>3. BookInv => BooksRight
  BY BooksAreInOrder
<1> QED BY <1>1, <1>2, <1>3, PTL DEF Spec

\* The anchor moves only to a set that was accepted in games against it, and a search
\* that ends by itself has asked every neighbour at the smallest steps and none of them
\* has beaten the last anchor (coordinate.py).
THEOREM SearchDescends == Spec => Descends
<1> DEFINE Moves == search'.anchor # search.anchor =>
                      /\ search'.anchor \in Evaluated /\ Accepted(search'.anchor)
                      /\ trials[search'.anchor].against = {search.anchor}
           Inv == IInv /\ BookInv /\ DescentInv
<1>1. Init => Inv
  BY InitIInv, InitBooks
<1>2. Inv /\ [Next]_vars => Inv'
  BY Inductive, NextBooks
<1>3. Inv => LocalOptimum
  BY DEF DescentInv
<1>4. Inv /\ [Next]_vars => [Moves]_vars
  BY NextBooks DEF Climbs, Beats
<1> HIDE DEF Moves, Inv
<1>5. Spec => []LocalOptimum
  BY <1>1, <1>2, <1>3, PTL DEF Spec
<1>6. Spec => [][Moves]_vars
  BY <1>1, <1>2, <1>4, PTL DEF Spec
<1> QED BY <1>5, <1>6 DEF Descends, Moves
=============================================================================
