---------------------- MODULE CandidateCampaignProofs ----------------------
(***************************************************************************)
(* Proofs about CandidateCampaign, for any ladder of time controls and any *)
(* number of deaths and retries: that an SPRT is earned, that a model      *)
(* which has answered is not asked again, that the screening is played at  *)
(* the first time control that is deep enough, and that the campaign calls *)
(* for a decision only when screening and SPRT are over.                   *)
(***************************************************************************)
EXTENDS CandidateCampaign, TLAPS

-----------------------------------------------------------------------------
(* Types.                                                                  *)

Outcomes   == {"none", "adequate", "shallow", "passed_screening", "rejected_below_47_percent"}
Depths     == {"none", "adequate", "shallow"}
LateStatus == TerminalStatus \cup {"screening_running", "sprt_running"}
Statuses   == LateStatus \cup {"queued", "building", "testing", "prescan_running"}

Campaign == [status : Statuses, mode : Modes, index : Nat \ {0}, selected : Nat,
             baseline : Outcomes, candidate : Outcomes, role : Roles \cup {"none"}]

SvcPCs == {"read", "done", "build", "pipeline", "stages", "judge", "gate", "prescan",
           "screen", "launched"}

Experiment ==
  [status : {"none", "running", "rejected", "awaiting_decision", "awaiting_approval",
             "sprt_running"},
   passed : Nat, failed : BOOLEAN, decision : {"none", "sprt", "no_sprt", "user"}]

AMatch == [state : {"none", "starting", "running"} \cup TerminalMatch, alive : BOOLEAN,
           result : Outcomes, tc : Nat]

Record == [status : {"none", "running", "failed", "completed"},
           decision : {"none", "sprt", "no_sprt"}, sprt : BOOLEAN]

EvPCs == {"none", "gone", "load", "validate", "ask", "note", "approve", "start", "spawn",
          "fail", "write", "close"}

Evaluation == [pc : EvPCs, rep : Experiment, rec : Record]

\* What the service has in hand and where it is fit together: while a pre-scan is
\* looked after, its role and its place on the ladder are there.
PreScanNamed(c) == c.role \in Roles /\ c.index \in Ladder

SvcTypes ==
  /\ camp \in Campaign
  /\ svc \in [pc : SvcPCs, mem : Campaign]
  /\ camp.status = "prescan_running" => PreScanNamed(camp)
  /\ svc.pc = "prescan" => PreScanNamed(svc.mem)
  /\ svc.pc = "launched" =>
       /\ svc.mem.status \in {"prescan_running", "screening_running"}
       /\ svc.mem.status = "prescan_running" => PreScanNamed(svc.mem)

TypeOK ==
  /\ SvcTypes
  /\ exp \in Experiment
  /\ run \in [Matches -> AMatch]
  /\ cache \in [PreScans -> Depths]
  /\ record \in Record
  /\ ev \in [Evaluations -> Evaluation]

-----------------------------------------------------------------------------
(* The inductive invariant.                                                *)

Busy(e) == ev[e].pc \notin {"none", "gone"}

\* From the gate on, wherever it is noted that the candidate has come that far,
\* the report is one of a candidate that passed every stage; and so is the copy
\* that an evaluation will write back.
Gated ==
  \/ \E m \in Matches : run[m] # NoMatch
  \/ svc.pc \in {"gate", "prescan", "screen", "launched"}
  \/ camp.status \in {"prescan_running", "screening_running", "sprt_running", "awaiting_decision"}
  \/ \E e \in Evaluations : Busy(e)

TestedInv ==
  /\ Gated => Tested(exp)
  /\ \A e \in Evaluations : Busy(e) /\ ev[e].pc # "load" => Tested(ev[e].rep)

\* A match that is not there is not there in any respect, and one that was passed
\* is over for good.
MatchInv ==
  /\ \A m \in Matches : run[m].state = "none" => run[m] = NoMatch
  /\ run[Screening].result = "passed_screening" => run[Screening].state = "completed"

\* A late campaign is only polled, so that its screening is not started again.
LateInv ==
  /\ camp.status \in LateStatus => svc.pc \in {"read", "done"}
  /\ camp.status = "sprt_running" =>
       ~ run[Screening].alive /\ run[Screening].state \in TerminalMatch

\* At most one evaluation of the screening is at work, after the screening, and none
\* can be surprised by another screening.
EvalInv ==
  /\ \A e, f \in Evaluations \ {Sprt} : Busy(e) /\ Busy(f) => e = f
  /\ \A e \in Evaluations \ {Sprt} : Busy(e) => run[Screening].state \in TerminalMatch
  /\ Busy(Screening) => run[Screening].alive
  /\ \A e \in Evaluations \ Matches : Busy(e) => camp.status \in LateStatus
  /\ ev[Sprt].pc \in {"none", "load", "write", "close", "gone"}

\* What an evaluation knows is what the record says, but for an answer that it has
\* not saved; and it acts only for a screening that was passed.
RecordInv ==
  /\ \A e \in Evaluations \ {Sprt} :
       /\ Busy(e) /\ ev[e].pc \notin {"load", "note"} => ev[e].rec.decision = record.decision
       /\ ev[e].pc \in {"ask", "note"} => record.decision = "none"
       /\ ev[e].pc \in {"start", "spawn", "fail"} => ev[e].rec.decision = "sprt"
       /\ ev[e].pc \in {"ask", "note", "approve", "start", "spawn", "fail"}
            => run[Screening].result = "passed_screening"
  /\ run[Sprt] # NoMatch =>
       run[Screening].result = "passed_screening" /\ record.decision = "sprt"

\* sprt_running is not said before it is true.
SaidInv ==
  /\ exp.status = "sprt_running" => run[Sprt] # NoMatch
  /\ \A e \in Evaluations : ev[e].rep.status = "sprt_running" => run[Sprt] # NoMatch

\* What a copy of the campaign knows of the ladder has been measured: the depths at
\* its place, and one too shallow at each place before.
Measured(role, i, depth) == <<<<role, i>>, depth>> \in measured

TooShallow(i) == \E r \in Required : Measured(r, i, "shallow")

KnowsDepths(c) ==
  /\ c.mode = camp.mode
  /\ c.mode # "skip" =>
       /\ c.baseline # "none" =>
            c.baseline \in {"adequate", "shallow"} /\ Measured("baseline", c.index, c.baseline)
       /\ c.candidate # "none" =>
            c.candidate \in {"adequate", "shallow"} /\ Measured("candidate", c.index, c.candidate)
       /\ c.role = "candidate" \/ c.candidate # "none" => c.mode = "full"
       /\ \A i \in 1..(c.index - 1) : TooShallow(i)

FirstDeep(tc) ==
  \/ camp.mode = "skip" /\ tc = 1
  \/ /\ camp.mode # "skip"
     /\ \A r \in Required : Measured(r, tc, "adequate")
     /\ \A i \in 1..(tc - 1) : TooShallow(i)

GateInv ==
  /\ \A p \in PreScans : cache[p] # "none" => <<p, cache[p]>> \in measured
  /\ \A p \in PreScans : run[p].state = "completed" =>
       run[p].result \in {"adequate", "shallow"} /\ <<p, run[p].result>> \in measured
  /\ KnowsDepths(camp) /\ KnowsDepths(svc.mem)
  /\ svc.pc = "screen" => FirstDeep(svc.mem.selected)
  /\ run[Screening] # NoMatch => FirstDeep(run[Screening].tc)

IInv == /\ TypeOK /\ TestedInv /\ MatchInv /\ LateInv
        /\ EvalInv /\ RecordInv /\ SaidInv /\ GateInv

-----------------------------------------------------------------------------
(* Names.                                                                  *)

USE DEF svcVars, evVars, bounds, depths

\* The names of matches and evaluations are apart.
LEMMA Names ==
  /\ Screening \in Matches /\ Sprt \in Matches /\ Screening # Sprt
  /\ \A p \in PreScans : p \in Matches /\ p # Screening /\ p # Sprt
  /\ \A m \in Matches : m \in PreScans \/ m = Screening \/ m = Sprt
  /\ Screening \in Evaluations /\ Sprt \in Evaluations
  /\ \A e \in Evaluations : e \in Matches <=> e \in {Screening, Sprt}
<1>1. \A p \in PreScans : p[1] \in Roles
  BY DEF PreScans
<1>2. Screening[1] \notin Roles /\ Sprt[1] \notin Roles /\ Screening[1] # Sprt[1]
  BY DEF Screening, Sprt, Roles
<1>3. \A n \in Retries : <<"retry", n>>[1] \notin Roles \cup {Screening[1], Sprt[1]}
  BY DEF Screening, Sprt, Roles
<1>4. Matches = PreScans \cup {Screening, Sprt}
  BY DEF Matches, Screening, Sprt
<1> QED BY <1>1, <1>2, <1>3, <1>4 DEF Evaluations

-----------------------------------------------------------------------------
(* Types.                                                                  *)

\* The types hold at the beginning.
LEMMA InitType == Init => TypeOK
<1> SUFFICES ASSUME Init PROVE TypeOK
  OBVIOUS
<1>1. SvcTypes
  BY DEF Init, SvcTypes, Campaign, Statuses, LateStatus, SvcPCs, Outcomes
<1> QED BY <1>1 DEF Init, TypeOK, Experiment, NoExperiment, AMatch, NoMatch, Depths, Record,
                    NoRecord, Evaluation, NoEvaluation, EvPCs, Outcomes

\* What the steps do to a campaign, a report, a match and an evaluation.
LEMMA CampaignUpdates ==
  ASSUME NEW c \in Campaign
  PROVE  /\ \A s \in Statuses : [c EXCEPT !.status = s] \in Campaign
         /\ \A r \in Roles \cup {"none"} : [c EXCEPT !.role = r] \in Campaign
         /\ \A n \in Nat : [c EXCEPT !.selected = n] \in Campaign
         /\ \A r \in Roles, d \in Outcomes :
              [c EXCEPT ![r] = d] \in Campaign /\ [c EXCEPT ![r] = d, !.role = "none"] \in Campaign
         /\ NextTimeControl(c) \in Campaign
<1>1. \A d \in Outcomes : /\ [c EXCEPT !["baseline"] = d] \in Campaign
                          /\ [c EXCEPT !["baseline"] = d, !.role = "none"] \in Campaign
  BY DEF Campaign
<1>2. \A d \in Outcomes : /\ [c EXCEPT !["candidate"] = d] \in Campaign
                          /\ [c EXCEPT !["candidate"] = d, !.role = "none"] \in Campaign
  BY DEF Campaign
<1>3. \A r \in Roles, d \in Outcomes :
        [c EXCEPT ![r] = d] \in Campaign /\ [c EXCEPT ![r] = d, !.role = "none"] \in Campaign
  BY <1>1, <1>2 DEF Roles
<1>4. NextTimeControl(c) \in Campaign
  <2>1. c.index + 1 \in Nat \ {0} /\ "none" \in Outcomes /\ "none" \in Roles \cup {"none"}
    BY DEF Campaign, Outcomes
  <2> QED BY <2>1 DEF NextTimeControl, Campaign
<1> QED BY <1>3, <1>4 DEF Campaign

LEMMA ExperimentUpdates ==
  ASSUME NEW x \in Experiment
  PROVE  /\ [x EXCEPT !.status = "running", !.passed = @ + 1] \in Experiment
         /\ [x EXCEPT !.status = "running", !.failed = TRUE] \in Experiment
         /\ \A s \in {"rejected", "awaiting_decision", "awaiting_approval", "sprt_running"} :
              [x EXCEPT !.status = s] \in Experiment
         /\ \A s \in {"rejected", "awaiting_decision", "awaiting_approval", "sprt_running"},
               d \in {"none", "sprt", "no_sprt", "user"} :
              /\ [x EXCEPT !.status = s, !.decision = d] \in Experiment
              /\ [x EXCEPT !.decision = d, !.status = s] \in Experiment
<1>1. [x EXCEPT !.status = "running", !.passed = @ + 1] \in Experiment
  <2>1. x.passed + 1 \in Nat BY DEF Experiment
  <2> QED BY <2>1 DEF Experiment
<1>2. [x EXCEPT !.status = "running", !.failed = TRUE] \in Experiment
  BY DEF Experiment
<1>3. \A s \in {"rejected", "awaiting_decision", "awaiting_approval", "sprt_running"} :
        [x EXCEPT !.status = s] \in Experiment
  BY DEF Experiment
<1>4. ASSUME NEW s \in {"rejected", "awaiting_decision", "awaiting_approval", "sprt_running"},
             NEW d \in {"none", "sprt", "no_sprt", "user"}
      PROVE  /\ [x EXCEPT !.status = s, !.decision = d] \in Experiment
             /\ [x EXCEPT !.decision = d, !.status = s] \in Experiment
  BY DEF Experiment
<1> QED BY <1>1, <1>2, <1>3, <1>4

LEMMA MatchUpdates ==
  /\ \A tc \in Nat : MatchRuns(tc) \in AMatch
  /\ \A r \in AMatch :
       /\ \A b \in BOOLEAN : [r EXCEPT !.alive = b] \in AMatch
       /\ \A s \in {"starting", "running"} \cup TerminalMatch : [r EXCEPT !.state = s] \in AMatch
       /\ \A s \in TerminalMatch, b \in BOOLEAN :
            [r EXCEPT !.state = s, !.alive = b] \in AMatch
       /\ \A s \in TerminalMatch, o \in Outcomes, b \in BOOLEAN :
            [r EXCEPT !.state = s, !.result = o, !.alive = b] \in AMatch
BY DEF AMatch, MatchRuns, Outcomes

LEMMA EvaluationUpdates ==
  ASSUME ev \in [Evaluations -> Evaluation], NEW e \in Evaluations
  PROVE  /\ \A pc \in EvPCs : [ev EXCEPT ![e].pc = pc] \in [Evaluations -> Evaluation]
         /\ \A pc \in EvPCs, r \in Record :
              [ev EXCEPT ![e].pc = pc, ![e].rec = r] \in [Evaluations -> Evaluation]
         /\ \A d \in {"sprt", "no_sprt"} :
              [ev EXCEPT ![e].pc = "note", ![e].rec.decision = d] \in [Evaluations -> Evaluation]
         /\ \A s \in {"awaiting_decision", "sprt_running"}, d \in {"none", "sprt", "no_sprt"} :
              Writes(e, s, d) => ev' \in [Evaluations -> Evaluation]
<1>0. ev[e] \in Evaluation /\ ev[e].rep \in Experiment /\ ev[e].rec \in Record
  BY DEF Evaluation
<1>1. \A pc \in EvPCs : [ev EXCEPT ![e].pc = pc] \in [Evaluations -> Evaluation]
  BY DEF Evaluation
<1>2. \A pc \in EvPCs, r \in Record :
        [ev EXCEPT ![e].pc = pc, ![e].rec = r] \in [Evaluations -> Evaluation]
  BY DEF Evaluation
<1>3. ASSUME NEW d \in {"sprt", "no_sprt"}
      PROVE  [ev EXCEPT ![e].pc = "note", ![e].rec.decision = d] \in [Evaluations -> Evaluation]
  <2>1. [ev[e].rec EXCEPT !.decision = d] \in Record
    BY <1>0 DEF Record
  <2>2. [ev EXCEPT ![e].pc = "note", ![e].rec = [ev[e].rec EXCEPT !.decision = d]]
          \in [Evaluations -> Evaluation]
    BY <1>2, <2>1 DEF EvPCs
  <2>3. [ev EXCEPT ![e].pc = "note", ![e].rec.decision = d]
          = [ev EXCEPT ![e].pc = "note", ![e].rec = [ev[e].rec EXCEPT !.decision = d]]
    BY <1>0 DEF Evaluation, Record
  <2> QED BY <2>2, <2>3
<1>4. ASSUME NEW s \in {"awaiting_decision", "sprt_running"}, NEW d \in {"none", "sprt", "no_sprt"},
             Writes(e, s, d)
      PROVE  ev' \in [Evaluations -> Evaluation]
  <2> DEFINE rep == [ev[e].rep EXCEPT !.status = s, !.decision = d]
             new == [ev[e] EXCEPT !.pc = "write", !.rep = rep]
  <2>1. rep \in Experiment
    BY <1>0, ExperimentUpdates
  <2>2. new \in Evaluation
    BY <1>0, <2>1 DEF Evaluation, EvPCs
  <2>3. [ev[e] EXCEPT !.pc = "write", !.rep.status = s, !.rep.decision = d] = new
    BY <1>0 DEF Evaluation, Experiment
  <2>4. ev' = [ev EXCEPT ![e] = [ev[e] EXCEPT !.pc = "write", !.rep.status = s, !.rep.decision = d]]
    BY <1>4 DEF Writes, Evaluation, Experiment
  <2> QED BY <2>2, <2>3, <2>4
<1> QED BY <1>1, <1>2, <1>3, <1>4

\* The types, one action at a time.
LEMMA SvcTypeStep ==
  ASSUME TypeOK, SvcStep \/ Crash
  PROVE  TypeOK'
<1>0. /\ camp \in Campaign /\ svc.mem \in Campaign
      /\ svc \in [pc : SvcPCs, mem : Campaign]
  BY DEF TypeOK, SvcTypes
<1>s. TerminalStatus \cup {"building", "testing", "sprt_running", "screening_running", "prescan_running"}
        \subseteq Statuses
  BY DEF Statuses, LateStatus
\* The copy of the campaign keeps its names when only the status changes.
<1>c. ASSUME NEW c \in Campaign, NEW s \in Statuses
      PROVE  LET d == [c EXCEPT !.status = s]
             IN d \in Campaign /\ d.status = s /\ d.role = c.role /\ d.index = c.index
  BY <1>c DEF Campaign
<1>e. ASSUME NEW s \in TerminalStatus, Ends(s)
      PROVE  SvcTypes'
  <2> DEFINE d == [svc.mem EXCEPT !.status = s]
  <2>1. camp' = d /\ svc' = [pc |-> "done", mem |-> d]
    BY <1>e DEF Ends, Save, Think
  <2>2. d \in Campaign /\ d.status \in TerminalStatus
    BY <1>0, <1>s, <1>c
  <2> QED BY <2>1, <2>2 DEF SvcTypes, SvcPCs, TerminalStatus
<1>f. Fails => SvcTypes'
  BY <1>e DEF Fails, TerminalStatus
<1> USE DEF Think, Save
<1>1. CASE BeginBuild
  <2> DEFINE d == [camp EXCEPT !.status = "building"]
  <2>1. camp' = d /\ svc' = [pc |-> "build", mem |-> d] /\ d \in Campaign /\ d.status = "building"
    BY <1>0, <1>s, <1>c, <1>1 DEF BeginBuild
  <2> QED BY <1>1, <2>1 DEF BeginBuild, TypeOK, SvcTypes, SvcPCs
<1>2. CASE Build
  <2>1. CASE Fails BY <1>f, <1>2, <2>1 DEF Build, TypeOK
  <2>2. CASE ~ Fails
    <3> DEFINE d == [svc.mem EXCEPT !.status = "testing"]
    <3>1. camp' = d /\ svc' = [pc |-> "pipeline", mem |-> d] /\ d \in Campaign /\ d.status = "testing"
      BY <1>0, <1>s, <1>c, <1>2, <2>2 DEF Build
    <3> QED BY <1>2, <3>1 DEF Build, TypeOK, SvcTypes, SvcPCs
  <2> QED BY <2>1, <2>2
<1>3. CASE Pipeline BY <1>0, <1>3 DEF Pipeline, TypeOK, SvcTypes, SvcPCs
<1>4. CASE Stage
  <2>1. exp' \in Experiment
    BY <1>4, ExperimentUpdates DEF Stage, TypeOK
  <2> QED BY <1>4, <2>1 DEF Stage, TypeOK, SvcTypes
<1>5. CASE Conclude
  <2>1. exp' \in Experiment
    BY <1>5, ExperimentUpdates DEF Conclude, TypeOK
  <2> QED BY <1>0, <1>5, <2>1 DEF Conclude, TypeOK, SvcTypes, SvcPCs
<1>6. CASE Judge
  BY <1>0, <1>e, <1>6 DEF Judge, TypeOK, TerminalStatus, SvcTypes, SvcPCs
<1>7. CASE SkipGate
  BY <1>0, <1>7, CampaignUpdates DEF SkipGate, TypeOK, SvcTypes, SvcPCs
<1>8. CASE LookUp
  <2>1. Wanted \in Roles /\ svc.mem.index \in Ladder
    BY <1>8 DEF LookUp, GateAt, Wanted, Roles
  <2>2. cache[<<Wanted, svc.mem.index>>] \in Outcomes
    BY <2>1 DEF TypeOK, PreScans, Outcomes, Depths
  <2>3. CASE cache[<<Wanted, svc.mem.index>>] = "none"
    <3> DEFINE d == [svc.mem EXCEPT !.role = Wanted]
    <3>1. d \in Campaign /\ d.role = Wanted /\ d.index = svc.mem.index
      BY <1>0, <2>1, CampaignUpdates DEF Campaign
    <3>2. svc' = [pc |-> "prescan", mem |-> d]
      BY <1>8, <2>3 DEF LookUp
    <3> QED BY <1>8, <2>1, <3>1, <3>2 DEF LookUp, TypeOK, SvcTypes, SvcPCs, PreScanNamed
  <2>4. CASE cache[<<Wanted, svc.mem.index>>] # "none"
    <3> DEFINE d == [svc.mem EXCEPT ![Wanted] = cache[<<Wanted, svc.mem.index>>]]
    <3>1. d \in Campaign
      BY <1>0, <2>1, <2>2, CampaignUpdates
    <3>2. svc' = [pc |-> "gate", mem |-> d]
      BY <1>8, <2>4 DEF LookUp
    <3> QED BY <1>8, <3>1, <3>2 DEF LookUp, TypeOK, SvcTypes, SvcPCs
  <2> QED BY <2>3, <2>4
<1>9. CASE Decide
  <2>1. [svc.mem EXCEPT !.selected = svc.mem.index] \in Campaign /\ NextTimeControl(svc.mem) \in Campaign
    BY <1>0, CampaignUpdates DEF Campaign
  <2> QED BY <1>9, <2>1 DEF Decide, TypeOK, SvcTypes, SvcPCs
<1>10. CASE Exhausted BY <1>e, <1>10 DEF Exhausted, TypeOK, TerminalStatus
<1>11. ASSUME NEW m \in Matches, NEW tc \in Nat, Launch(m, tc), m = Screening \/ PreScanNamed(svc.mem)
       PROVE  TypeOK'
  <2>1. SvcTypes'
    <3>1. CASE Fails BY <1>f, <3>1
    <3>2. CASE ~ Fails
      <4> DEFINE s == IF m = Screening THEN "screening_running" ELSE "prescan_running"
                 d == [svc.mem EXCEPT !.status = s]
      <4>1. svc' = [pc |-> "launched", mem |-> d] /\ camp' = camp
        BY <1>11, <3>2 DEF Launch
      <4>2. d \in Campaign /\ d.status = s /\ d.role = svc.mem.role /\ d.index = svc.mem.index
        BY <1>0, <1>s, <1>c
      <4>3. s = "prescan_running" => PreScanNamed(d)
        BY <1>11, <4>2 DEF PreScanNamed
      <4> QED BY <4>1, <4>2, <4>3 DEF TypeOK, SvcTypes, SvcPCs, PreScanNamed
    <3> QED BY <3>1, <3>2
  <2>2. run' \in [Matches -> AMatch]
    BY <1>11, MatchUpdates DEF Launch, TypeOK
  <2> QED BY <1>11, <2>1, <2>2 DEF Launch, TypeOK
<1>12. CASE LaunchPreScan
  <2>1. PreScanNamed(svc.mem)
    BY <1>12 DEF LaunchPreScan, SvcAt, TypeOK, SvcTypes
  <2>2. <<svc.mem.role, svc.mem.index>> \in Matches /\ svc.mem.index \in Nat
    BY <1>0, <2>1, Names DEF PreScanNamed, PreScans, Campaign
  <2> QED BY <1>11, <1>12, <2>1, <2>2 DEF LaunchPreScan
<1>13. CASE LaunchScreening
  <2>1. svc.mem.selected \in Nat
    BY <1>0 DEF Campaign
  <2> QED BY <1>11, <1>13, <2>1, Names DEF LaunchScreening
<1>14. CASE SaveLaunch BY <1>0, <1>14 DEF SaveLaunch, TypeOK, SvcTypes, SvcPCs, SvcAt
<1>15. CASE PollPreScan
  <2>1. camp.role \in Roles /\ <<camp.role, camp.index>> \in Matches
    BY <1>15, Names DEF PollPreScan, Reads, TypeOK, SvcTypes, PreScanNamed, PreScans
  <2>2. run[<<camp.role, camp.index>>].result \in Outcomes
    BY <2>1 DEF TypeOK, AMatch
  <2>3. CASE run[<<camp.role, camp.index>>].state = "completed"
    <3> DEFINE d == [camp EXCEPT ![camp.role] = run[<<camp.role, camp.index>>].result, !.role = "none"]
    <3>1. svc' = [pc |-> "gate", mem |-> d] /\ camp' = camp
      BY <1>15, <2>3 DEF PollPreScan
    <3>2. d \in Campaign
      BY <1>0, <2>1, <2>2, CampaignUpdates
    <3> QED BY <1>15, <3>1, <3>2 DEF PollPreScan, TypeOK, SvcTypes, SvcPCs
  <2>4. CASE run[<<camp.role, camp.index>>].state # "completed"
    <3> DEFINE d == [camp EXCEPT !.status = "depth_measurement_invalid"]
    <3>1. svc' = [pc |-> "done", mem |-> d] /\ camp' = d
      BY <1>15, <2>4 DEF PollPreScan
    <3>2. d \in Campaign /\ d.status = "depth_measurement_invalid"
      BY <1>0, <1>s, <1>c DEF TerminalStatus
    <3> QED BY <1>15, <3>1, <3>2 DEF PollPreScan, TypeOK, SvcTypes, SvcPCs
  <2> QED BY <2>3, <2>4
<1>16. CASE PollScreening
  <2> DEFINE s == IF run[Sprt] = NoMatch THEN "awaiting_decision" ELSE "sprt_running"
             d == [camp EXCEPT !.status = s]
  <2>1. camp' = d /\ d \in Campaign /\ d.status = s
    BY <1>0, <1>s, <1>c, <1>16 DEF PollScreening, TerminalStatus
  <2>2. svc' \in {[pc |-> "done", mem |-> d], [pc |-> "read", mem |-> d]}
    BY <1>16, <2>1 DEF PollScreening
  <2> QED BY <1>16, <2>1, <2>2 DEF PollScreening, TypeOK, SvcTypes, SvcPCs
<1>17. CASE PollSprt
  <2> DEFINE d == [camp EXCEPT !.status = "awaiting_decision"]
  <2>1. camp' = d /\ svc' = [pc |-> "done", mem |-> d] /\ d \in Campaign /\ d.status = "awaiting_decision"
    BY <1>0, <1>s, <1>c, <1>17 DEF PollSprt, TerminalStatus
  <2> QED BY <1>17, <2>1 DEF PollSprt, TypeOK, SvcTypes, SvcPCs
<1>18. CASE Crash BY <1>0, <1>18 DEF Crash, TypeOK, SvcTypes, SvcPCs
<1> QED BY <1>1, <1>2, <1>3, <1>4, <1>5, <1>6, <1>7, <1>8, <1>9, <1>10, <1>12, <1>13,
           <1>14, <1>15, <1>16, <1>17, <1>18 DEF SvcStep

\* Nor does a match that ends, or a monitor that is lost, spoil a type,
LEMMA MatchTypeStep ==
  ASSUME TypeOK, PreScanEnds \/ ScreeningEnds \/ SprtEnds \/ MonitorLost
  PROVE  TypeOK'
<1> USE DEF TypeOK, SvcTypes
<1>1. ASSUME NEW m \in Matches, NEW s \in TerminalMatch, NEW r \in Outcomes, MatchEnds(m, s, r)
      PROVE  run' \in [Matches -> AMatch] /\ ev' \in [Evaluations -> Evaluation]
  <2>1. run' \in [Matches -> AMatch]
    <3>1. (m \in {Screening, Sprt}) \in BOOLEAN
      OBVIOUS
    <3> QED BY <1>1, <3>1, MatchUpdates DEF MatchEnds
  <2>2. ev' \in [Evaluations -> Evaluation]
    BY <1>1, Names, EvaluationUpdates DEF MatchEnds, EvPCs
  <2> QED BY <2>1, <2>2
<1>2. CASE PreScanEnds
  <2>1. PICK p \in PreScans, depth \in {"adequate", "shallow"}, state \in TerminalMatch :
          MatchEnds(p, state, depth) /\ cache' \in {cache, [cache EXCEPT ![p] = depth]}
    BY <1>2 DEF PreScanEnds
  <2>2. run' \in [Matches -> AMatch] /\ ev' \in [Evaluations -> Evaluation]
    BY <1>1, <2>1, Names DEF Outcomes
  <2>3. cache' \in [PreScans -> Depths]
    BY <2>1 DEF Depths
  <2> QED BY <2>1, <2>2, <2>3 DEF MatchEnds
<1>3. CASE ScreeningEnds
  BY <1>1, <1>3, Names DEF ScreeningEnds, MatchEnds, Outcomes, TerminalMatch
<1>4. CASE SprtEnds
  BY <1>1, <1>4, Names DEF SprtEnds, MatchEnds, Outcomes
<1>5. CASE MonitorLost
  <2>1. PICK m \in Matches : run' = [run EXCEPT ![m].state = "stopped", ![m].alive = FALSE]
    BY <1>5 DEF MonitorLost
  <2>2. run' = [run EXCEPT ![m] = [run[m] EXCEPT !.state = "stopped", !.alive = FALSE]]
    BY <2>1 DEF AMatch
  <2>3. [run[m] EXCEPT !.state = "stopped", !.alive = FALSE] \in AMatch
    BY MatchUpdates DEF TerminalMatch
  <2> QED BY <1>5, <2>2, <2>3 DEF MonitorLost
<1> QED BY <1>2, <1>3, <1>4, <1>5

\* nor the step of an evaluation, the retry command or the user.
LEMMA EvTypeStep ==
  ASSUME TypeOK, RetryGiven \/ EvaluationLost \/ RecordDecision \/ \E e \in Evaluations : EvStep(e)
  PROVE  TypeOK'
<1>0. /\ exp \in Experiment /\ record \in Record
      /\ run \in [Matches -> AMatch] /\ ev \in [Evaluations -> Evaluation]
  BY DEF TypeOK
\* The campaign and the depths are left alone, so that it is enough to look at these four.
<1> DEFINE Four == /\ exp' \in Experiment /\ record' \in Record
                   /\ run' \in [Matches -> AMatch] /\ ev' \in [Evaluations -> Evaluation]
<1>a. UNCHANGED <<camp, svc, cache>> /\ Four => TypeOK'
  BY DEF TypeOK, SvcTypes, PreScanNamed
<1>b. UNCHANGED <<camp, svc, cache>>
  BY DEF RetryGiven, EvaluationLost, RecordDecision, EvStep, Load, LoadSprt, Validate, Ask, Note,
         Approve, StartSprt, SpawnSprt, SpawnFailed, WriteExperiment, Close
<1>g. ASSUME NEW e \in Evaluations, NEW pc \in EvPCs, EvGoes(e, pc)
      PROVE  ev' \in [Evaluations -> Evaluation]
  <2>1. [ev EXCEPT ![e].pc = pc] \in [Evaluations -> Evaluation]
    BY <1>0, EvaluationUpdates
  <2> QED BY <1>g, <2>1 DEF EvGoes
<1>1. CASE RetryGiven
  BY <1>0, <1>a, <1>b, <1>g, <1>1 DEF RetryGiven, EvPCs
<1>2. ASSUME NEW e \in Evaluations, Leaves(e)
      PROVE  run' \in [Matches -> AMatch] /\ ev' \in [Evaluations -> Evaluation]
  <2>1. [NoEvaluation EXCEPT !.pc = "gone"] \in Evaluation
    BY DEF NoEvaluation, NoExperiment, NoRecord, Evaluation, Experiment, Record, EvPCs
  <2> QED BY <1>0, <1>2, <2>1, MatchUpdates DEF Leaves
<1>3. CASE EvaluationLost
  <2>1. PICK e \in Evaluations : Leaves(e)
    BY <1>3 DEF EvaluationLost
  <2> QED BY <1>0, <1>a, <1>b, <1>2, <1>3, <2>1 DEF EvaluationLost
<1>4. CASE RecordDecision
  <2>1. \A s \in {"rejected", "awaiting_approval", "awaiting_decision"} :
          [exp EXCEPT !.decision = "user", !.status = s] \in Experiment
    BY <1>0, ExperimentUpdates
  <2> QED BY <1>0, <1>a, <1>b, <1>4, <2>1 DEF RecordDecision
<1>5. ASSUME NEW e \in Evaluations, EvFails(e)
      PROVE  record' \in Record /\ run' \in [Matches -> AMatch] /\ ev' \in [Evaluations -> Evaluation]
  BY <1>0, <1>2, <1>5 DEF EvFails, Evaluation, Record
<1>6. ASSUME NEW e \in Evaluations, EvStep(e)
      PROVE  Four
  <2>0. ev[e] \in Evaluation /\ ev[e].rep \in Experiment /\ ev[e].rec \in Record
    BY <1>0 DEF Evaluation
  <2>g. \A pc \in EvPCs : EvGoes(e, pc) => ev' \in [Evaluations -> Evaluation]
    BY <1>g
  <2>p. EvPCs = {"none", "gone", "load", "validate", "ask", "note", "approve", "start", "spawn",
                 "fail", "write", "close"}
    BY DEF EvPCs
  <2>1. CASE Load(e)
    <3>1. [record EXCEPT !.status = "running"] \in Record
      BY <1>0 DEF Record
    <3>2. [pc |-> "validate", rep |-> exp, rec |-> [record EXCEPT !.status = "running"]] \in Evaluation
      BY <1>0, <3>1, <2>p DEF Evaluation
    <3> QED BY <1>0, <1>2, <2>1, <3>1, <3>2 DEF Load
  <2>2. CASE LoadSprt
    <3>1. [exp EXCEPT !.status = "awaiting_decision", !.decision = "none"] \in Experiment
      BY <1>0, ExperimentUpdates
    <3>2. [pc |-> "write", rec |-> NoRecord,
           rep |-> [exp EXCEPT !.status = "awaiting_decision", !.decision = "none"]] \in Evaluation
      BY <3>1, <2>p DEF Evaluation, NoRecord, Record
    <3> QED BY <1>0, <2>2, <3>2 DEF LoadSprt
  <2>3. CASE Validate(e) BY <1>0, <2>3, <2>g, <2>p, EvaluationUpdates DEF Validate
  <2>4. CASE Ask(e)
    <3>1. CASE EvFails(e) BY <1>0, <1>5, <2>4, <3>1 DEF Ask
    <3>2. CASE ~ EvFails(e)
      <4>1. PICK d \in {"sprt", "no_sprt"} :
              ev' = [ev EXCEPT ![e].pc = "note", ![e].rec.decision = d] /\ UNCHANGED <<record, run>>
        BY <2>4, <3>2 DEF Ask
      <4>2. [ev EXCEPT ![e].pc = "note", ![e].rec.decision = d] \in [Evaluations -> Evaluation]
        BY <1>0, EvaluationUpdates
      <4> QED BY <1>0, <2>4, <4>1, <4>2 DEF Ask
    <3> QED BY <3>1, <3>2
  <2>5. CASE Note(e) BY <1>0, <2>0, <2>5, <2>g, <2>p DEF Note
  <2>6. CASE Approve(e)
    <3>1. CASE EvFails(e) BY <1>0, <1>5, <2>6, <3>1 DEF Approve
    <3>2. CASE Writes(e, "awaiting_decision", "no_sprt") /\ UNCHANGED <<record, run>>
      BY <1>0, <2>6, <3>2, EvaluationUpdates DEF Approve
    <3>3. CASE /\ record' = [ev[e].rec EXCEPT !.sprt = TRUE]
               /\ ev' = [ev EXCEPT ![e].pc = "start", ![e].rec = record'] /\ UNCHANGED run
      <4>1. record' \in Record
        BY <2>0, <3>3 DEF Record
      <4> QED BY <1>0, <2>6, <2>p, <3>3, <4>1, EvaluationUpdates DEF Approve
    <3> QED BY <2>6, <3>1, <3>2, <3>3 DEF Approve
  <2>7. CASE StartSprt(e)
    <3>1. CASE EvFails(e) BY <1>0, <1>5, <2>7, <3>1 DEF StartSprt
    <3>2. CASE run' = [run EXCEPT ![Sprt].state = "starting"] /\ EvGoes(e, "spawn") /\ UNCHANGED record
      BY <1>0, <2>7, <2>g, <2>p, <3>2, Names, MatchUpdates DEF StartSprt
    <3>3. CASE Writes(e, "sprt_running", "sprt") /\ UNCHANGED <<run, record>>
      BY <1>0, <2>7, <3>3, EvaluationUpdates DEF StartSprt
    <3> QED BY <2>7, <3>1, <3>2, <3>3 DEF StartSprt
  <2>8. CASE SpawnSprt(e)
    <3>1. CASE run' = [run EXCEPT ![Sprt] = MatchRuns(0)] /\ Writes(e, "sprt_running", "sprt")
      BY <1>0, <2>8, <3>1, Names, MatchUpdates, EvaluationUpdates DEF SpawnSprt
    <3>2. CASE run' = [run EXCEPT ![Sprt].state = "failed"] /\ EvGoes(e, "fail")
      BY <1>0, <2>8, <2>g, <2>p, <3>2, Names, MatchUpdates DEF SpawnSprt, TerminalMatch
    <3> QED BY <2>8, <3>1, <3>2 DEF SpawnSprt
  <2>9. CASE SpawnFailed(e) BY <1>0, <1>5, <2>9 DEF SpawnFailed
  <2>10. CASE WriteExperiment(e) BY <1>0, <2>0, <2>g, <2>p, <2>10 DEF WriteExperiment
  <2>11. CASE Close(e)
    <3>1. record' \in Record
      BY <1>0, <2>0, <2>11 DEF Close, Record
    <3> QED BY <1>0, <1>2, <2>11, <3>1 DEF Close
  <2> QED BY <1>6, <2>1, <2>2, <2>3, <2>4, <2>5, <2>6, <2>7, <2>8, <2>9, <2>10, <2>11 DEF EvStep
<1> QED BY <1>a, <1>b, <1>1, <1>3, <1>4, <1>6

\* Every step keeps the types.
LEMMA TypeStep ==
  ASSUME TypeOK, [Next]_vars
  PROVE  TypeOK'
<1>1. CASE UNCHANGED vars BY <1>1 DEF vars, TypeOK, SvcTypes, PreScanNamed
<1> QED BY <1>1, SvcTypeStep, MatchTypeStep, EvTypeStep DEF Next

-----------------------------------------------------------------------------
(* What the steps do to matches and evaluations.                           *)

\* A match is started, for the first time or again.
Restarted(m) ==
  /\ Startable(m) /\ Settled(m) /\ m # Sprt /\ svc.pc \in {"prescan", "screen"}
  /\ m = Screening => svc.pc = "screen"
  /\ \E tc \in Nat : /\ run' = [run EXCEPT ![m] = MatchRuns(tc)]
                     /\ m = Screening => tc = svc.mem.selected

\* The service touches no record and no evaluation, and a match only to start it.
LEMMA SvcFrame ==
  ASSUME TypeOK, SvcStep \/ Crash
  PROVE  /\ UNCHANGED <<record, ev, asked, cache, measured>>
         /\ run' = run \/ \E m \in Matches : Restarted(m)
<1>1. UNCHANGED <<record, ev, asked, cache, measured>>
  BY DEF SvcStep, BeginBuild, Build, Pipeline, Stage, Conclude, Judge, SkipGate, LookUp, Decide,
         Exhausted, LaunchPreScan, LaunchScreening, Launch, SaveLaunch, PollPreScan, PollScreening,
         PollSprt, Crash
<1>2. ~ LaunchPreScan /\ ~ LaunchScreening => run' = run
  BY DEF SvcStep, BeginBuild, Build, Pipeline, Stage, Conclude, Judge, SkipGate, LookUp, Decide,
         Exhausted, SaveLaunch, PollPreScan, PollScreening, PollSprt, Crash
<1>3. CASE LaunchPreScan
  <2>1. /\ <<svc.mem.role, svc.mem.index>> \in PreScans /\ svc.mem.index \in Nat
    BY <1>3 DEF LaunchPreScan, SvcAt, TypeOK, SvcTypes, PreScanNamed, PreScans, Campaign
  <2> QED BY <1>3, <2>1, Names DEF LaunchPreScan, Launch, Restarted, SvcAt
<1>4. CASE LaunchScreening
  <2>1. svc.mem.selected \in Nat
    BY DEF TypeOK, SvcTypes, Campaign
  <2> QED BY <1>4, <2>1, Names DEF LaunchScreening, Launch, Restarted, SvcAt
<1> QED BY <1>1, <1>2, <1>3, <1>4

\* A match that is played comes to an end; its evaluation, if it has one, begins.
Ended(m) ==
  /\ run[m].state = "running" /\ run[m].alive
  /\ \E s \in TerminalMatch, r \in Outcomes, b \in BOOLEAN :
       /\ run' = [run EXCEPT ![m] = [@ EXCEPT !.state = s, !.result = r, !.alive = b]]
       /\ r = "passed_screening" => s = "completed"
       /\ m \in PreScans /\ s = "completed" =>
            r \in {"adequate", "shallow"} /\ <<m, r>> \in measured'
       /\ m \in {Screening, Sprt} => b /\ ev' = [ev EXCEPT ![m].pc = "load"]
       /\ m \in PreScans => UNCHANGED ev

Lost(m) ==
  /\ run[m].state = "running"
  /\ run' = [run EXCEPT ![m] = [@ EXCEPT !.state = "stopped", !.alive = FALSE]]
  /\ UNCHANGED ev

\* A match ends, or is lost, by itself; what it measured is added to what was known.
LEMMA MatchFrame ==
  ASSUME TypeOK, PreScanEnds \/ ScreeningEnds \/ SprtEnds \/ MonitorLost
  PROVE  /\ UNCHANGED <<camp, svc, exp, record, asked>>
         /\ \E m \in Matches : Ended(m) \/ Lost(m)
         /\ measured \subseteq measured'
         /\ \A p \in PreScans : cache'[p] = cache[p] \/ <<p, cache'[p]>> \in measured'
<1>0. /\ TerminalMatch = {"completed", "failed", "stopped"} /\ cache \in [PreScans -> Depths]
      /\ run \in [Matches -> AMatch]
  BY DEF TerminalMatch, TypeOK
<1>1. CASE PreScanEnds
  <2>1. PICK p \in PreScans, depth \in {"adequate", "shallow"}, state \in TerminalMatch :
          /\ MatchEnds(p, state, depth)
          /\ \/ /\ state # "stopped"
                /\ cache' = [cache EXCEPT ![p] = depth]
                /\ measured' = measured \cup {<<p, depth>>}
             \/ state # "completed" /\ UNCHANGED depths
    BY <1>1 DEF PreScanEnds
  <2>2. Ended(p)
    <3>1. p \notin {Screening, Sprt} /\ depth \in Outcomes
      BY Names DEF Outcomes
    <3>2. /\ run[p].state = "running" /\ run[p].alive /\ UNCHANGED ev
          /\ run' = [run EXCEPT ![p] = [@ EXCEPT !.state = state, !.result = depth,
                                                 !.alive = p \in {Screening, Sprt}]]
      BY <2>1, <3>1 DEF MatchEnds
    <3>3. state = "completed" => <<p, depth>> \in measured'
      BY <2>1
    <3>4. (p \in {Screening, Sprt}) \in BOOLEAN
      OBVIOUS
    <3> QED BY <3>1, <3>2, <3>3, <3>4 DEF Ended
  <2> QED BY <1>0, <2>1, <2>2, Names DEF MatchEnds
<1>2. CASE ScreeningEnds
  BY <1>0, <1>2, Names DEF ScreeningEnds, MatchEnds, Ended, Outcomes
<1>3. CASE SprtEnds
  BY <1>0, <1>3, Names DEF SprtEnds, MatchEnds, Ended, Outcomes
<1>4. CASE MonitorLost
  <2>1. PICK m \in Matches : /\ run[m].state = "running"
                             /\ run' = [run EXCEPT ![m].state = "stopped", ![m].alive = FALSE]
    BY <1>4 DEF MonitorLost
  <2>2. run' = [run EXCEPT ![m] = [run[m] EXCEPT !.state = "stopped", !.alive = FALSE]]
    BY <1>0, <2>1 DEF AMatch
  <2> QED BY <1>4, <2>1, <2>2 DEF MonitorLost, Lost
<1> QED BY <1>1, <1>2, <1>3, <1>4

\* A monitor that goes takes nothing of the match with it.
LEMMA LeavesFrame ==
  ASSUME TypeOK, NEW e \in Evaluations, Leaves(e)
  PROVE  /\ ev'[e].pc = "gone" /\ \A f \in Evaluations \ {e} : ev'[f] = ev[f]
         /\ \A m \in Matches :
              /\ run'[m].state = run[m].state /\ run'[m].result = run[m].result
              /\ run'[m].tc = run[m].tc
              /\ run'[m].alive = (run[m].alive /\ m # e)
<1>1. run \in [Matches -> AMatch] /\ ev \in [Evaluations -> Evaluation]
  BY DEF TypeOK
<1>2. [NoEvaluation EXCEPT !.pc = "gone"].pc = "gone"
  BY DEF NoEvaluation
<1>3. \A m \in Matches : run[m].alive \in BOOLEAN
  BY <1>1 DEF AMatch
<1>4. CASE e \in Matches
  BY <1>1, <1>2, <1>3, <1>4 DEF Leaves, AMatch
<1>5. CASE e \notin Matches
  BY <1>1, <1>2, <1>3, <1>5 DEF Leaves
<1> QED BY <1>4, <1>5

\* The SPRT begins in two steps, or fails at the second.
SprtBegins(e) ==
  \/ EvAt(e, "start") /\ run[Sprt] = NoMatch /\ run' = [run EXCEPT ![Sprt].state = "starting"]
  \/ EvAt(e, "spawn") /\ run' = [run EXCEPT ![Sprt] = MatchRuns(0)]
  \/ EvAt(e, "spawn") /\ run' = [run EXCEPT ![Sprt].state = "failed"]

\* An evaluation moves itself only, and of the matches ends its own or begins the SPRT.
LEMMA EvFrame ==
  ASSUME TypeOK, NEW e \in Evaluations, EvStep(e)
  PROVE  /\ UNCHANGED <<camp, svc, cache, measured>>
         /\ \A f \in Evaluations \ {e} : ev'[f] = ev[f]
         /\ run' = run \/ Leaves(e) \/ SprtBegins(e)
         /\ Busy(e)
<1>0. ev \in [Evaluations -> Evaluation] /\ ev[e] \in Evaluation
  BY DEF TypeOK
<1>l. Leaves(e) => \A f \in Evaluations \ {e} : ev'[f] = ev[f]
  BY LeavesFrame
<1>w. \A s, d : Writes(e, s, d) => \A f \in Evaluations \ {e} : ev'[f] = ev[f]
  BY <1>0 DEF Writes
<1>g. \A pc : EvGoes(e, pc) => \A f \in Evaluations \ {e} : ev'[f] = ev[f]
  BY <1>0 DEF EvGoes
<1>1. UNCHANGED <<camp, svc, cache, measured>>
  BY DEF EvStep, Load, LoadSprt, Validate, Ask, Note, Approve, StartSprt, SpawnSprt, SpawnFailed,
         WriteExperiment, Close
<1>2. Busy(e)
  BY DEF EvStep, Load, LoadSprt, Validate, Ask, Note, Approve, StartSprt, SpawnSprt, SpawnFailed,
         WriteExperiment, Close, EvAt, Busy
<1>3. run' = run \/ Leaves(e) \/ SprtBegins(e)
  BY DEF EvStep, Load, LoadSprt, Validate, Ask, Note, Approve, StartSprt, SpawnSprt, SpawnFailed,
         WriteExperiment, Close, EvFails, SprtBegins
<1>4. \A f \in Evaluations \ {e} : ev'[f] = ev[f]
  <2>1. CASE Leaves(e) BY <1>l, <2>1
  <2>2. CASE \E pc : EvGoes(e, pc) BY <1>g, <2>2
  <2>3. CASE \E s, d : Writes(e, s, d) BY <1>w, <2>3
  <2>4. CASE Load(e) /\ ~ Leaves(e) BY <1>0, <2>4 DEF Load
  <2>5. CASE e = Sprt /\ LoadSprt BY <1>0, <2>5 DEF LoadSprt
  <2>6. CASE Ask(e) /\ ~ Leaves(e) BY <1>0, <2>6 DEF Ask, EvFails
  <2>7. CASE Approve(e) /\ ~ Leaves(e) /\ ~ Writes(e, "awaiting_decision", "no_sprt")
    BY <1>0, <2>7 DEF Approve, EvFails
  <2> QED BY <2>1, <2>2, <2>3, <2>4, <2>5, <2>6, <2>7
       DEF EvStep, Validate, Note, StartSprt, SpawnSprt, SpawnFailed, EvFails, WriteExperiment, Close
<1> QED BY <1>1, <1>2, <1>3, <1>4

\* Every step of the system, by what it does to matches.
LEMMA RunSteps ==
  ASSUME TypeOK, [Next]_vars
  PROVE  \/ run' = run
         \/ \E m \in Matches : Restarted(m) /\ UNCHANGED <<ev, measured>>
         \/ \E m \in Matches : Ended(m) \/ Lost(m)
         \/ \E e \in Evaluations : Busy(e) /\ (Leaves(e) \/ SprtBegins(e)) /\ UNCHANGED <<svc, measured>>
<1>1. CASE SvcStep \/ Crash BY <1>1, SvcFrame
<1>2. CASE PreScanEnds \/ ScreeningEnds \/ SprtEnds \/ MonitorLost BY <1>2, MatchFrame
<1>3. CASE \E e \in Evaluations : EvStep(e) BY <1>3, EvFrame
<1>4. CASE EvaluationLost BY <1>4 DEF EvaluationLost, Busy
<1>5. CASE RetryGiven \/ RecordDecision \/ UNCHANGED vars BY <1>5 DEF RetryGiven, RecordDecision, vars
<1> QED BY <1>1, <1>2, <1>3, <1>4, <1>5 DEF Next

Passed == run[Screening].result = "passed_screening"

\* What a step may do to matches: none is forgotten, the screening that was passed stays
\* so, and a screening that is over is played again by the service alone.
LEMMA MatchStep ==
  ASSUME TypeOK, MatchInv, [Next]_vars
  PROVE  /\ MatchInv'
         /\ \A m \in Matches : run[m] # NoMatch => run'[m] # NoMatch
         /\ Passed => Passed'
         /\ run[Screening].state \in TerminalMatch /\ (svc.pc # "screen" \/ run[Screening].alive) =>
              /\ run'[Screening].state = run[Screening].state
              /\ run'[Screening].alive => run[Screening].alive
         /\ run[Screening] = NoMatch /\ run'[Screening] # NoMatch =>
              svc.pc = "screen" /\ run'[Screening].tc = svc.mem.selected
         /\ run[Screening] # NoMatch /\ run'[Screening].tc # run[Screening].tc =>
              svc.pc = "screen" /\ run'[Screening].tc = svc.mem.selected
         /\ \A p \in PreScans : run'[p].state = "completed" =>
              \/ run[p].state = "completed" /\ run'[p].result = run[p].result
              \/ run'[p].result \in {"adequate", "shallow"} /\ <<p, run'[p].result>> \in measured'
         /\ \A m \in Matches : run[m] = NoMatch /\ run'[m] # NoMatch =>
              \/ m # Sprt /\ svc.pc \in {"prescan", "screen"}
              \/ m = Sprt /\ \E e \in Evaluations : EvAt(e, "start") \/ EvAt(e, "spawn")
<1> USE Names
<1>0. run \in [Matches -> AMatch] /\ run' \in [Matches -> AMatch]
  BY TypeStep DEF TypeOK
<1>1. CASE run' = run
  BY <1>1 DEF MatchInv, Passed, NoMatch
<1>2. CASE \E m \in Matches : Restarted(m) /\ UNCHANGED <<ev, measured>>
  <2>1. PICK m \in Matches, tc \in Nat :
          /\ Startable(m) /\ Settled(m) /\ m # Sprt /\ svc.pc \in {"prescan", "screen"}
          /\ run' = [run EXCEPT ![m] = MatchRuns(tc)] /\ UNCHANGED measured
          /\ m = Screening => svc.pc = "screen" /\ tc = svc.mem.selected
    BY <1>2 DEF Restarted
  <2>2. /\ run'[m].state = "running" /\ run'[m].result = "none" /\ run'[m].tc = tc
        /\ run'[m] # NoMatch
        /\ \A n \in Matches \ {m} : run'[n] = run[n]
    BY <1>0, <2>1 DEF MatchRuns, NoMatch
  <2>3. run[m].state \notin {"running", "completed"} /\ ~ run[m].alive
    BY <2>1 DEF Startable, Settled
  <2>4. MatchInv'
    BY <2>2 DEF MatchInv
  <2>5. Passed => Passed'
    BY <2>2, <2>3 DEF Passed, MatchInv
  <2> QED BY <2>1, <2>2, <2>3, <2>4, <2>5
<1>3. CASE \E m \in Matches : Ended(m) \/ Lost(m)
  <2>1. PICK m \in Matches : Ended(m) \/ Lost(m)
    BY <1>3
  <2>2. /\ run[m].state = "running" /\ run'[m].state \in TerminalMatch /\ run'[m].tc = run[m].tc
        /\ \A n \in Matches \ {m} : run'[n] = run[n]
        /\ run'[m].result = "passed_screening" =>
             run'[m].state = "completed" \/ run[m].result = "passed_screening"
        /\ m \in PreScans /\ run'[m].state = "completed" =>
             run'[m].result \in {"adequate", "shallow"} /\ <<m, run'[m].result>> \in measured'
    <3>0. \A n \in Matches : run[n] \in AMatch
      BY <1>0
    <3>1. CASE Ended(m)
      <4>1. PICK s \in TerminalMatch, r \in Outcomes, b \in BOOLEAN :
              /\ run' = [run EXCEPT ![m] = [@ EXCEPT !.state = s, !.result = r, !.alive = b]]
              /\ r = "passed_screening" => s = "completed"
              /\ m \in PreScans /\ s = "completed" =>
                   r \in {"adequate", "shallow"} /\ <<m, r>> \in measured'
        BY <3>1 DEF Ended
      <4>2. run'[m] = [run[m] EXCEPT !.state = s, !.result = r, !.alive = b]
        BY <1>0, <4>1
      <4>3. run'[m].state = s /\ run'[m].result = r /\ run'[m].tc = run[m].tc
        BY <3>0, <4>2 DEF AMatch
      <4> QED BY <1>0, <3>1, <4>1, <4>3 DEF Ended
    <3>2. CASE Lost(m)
      <4>1. run'[m] = [run[m] EXCEPT !.state = "stopped", !.alive = FALSE]
        BY <1>0, <3>2 DEF Lost
      <4>2. run'[m].state = "stopped" /\ run'[m].result = run[m].result /\ run'[m].tc = run[m].tc
        BY <3>0, <4>1 DEF AMatch
      <4> QED BY <1>0, <3>2, <4>2 DEF Lost, TerminalMatch
    <3> QED BY <2>1, <3>1, <3>2
  <2>3. run[m] # NoMatch /\ run'[m] # NoMatch
    BY <2>2 DEF NoMatch, TerminalMatch
  <2>4. MatchInv' /\ (Passed => Passed')
    BY <2>2 DEF MatchInv, Passed, TerminalMatch
  <2>5. \A p \in PreScans : run'[p].state = "completed" =>
          \/ run[p].state = "completed" /\ run'[p].result = run[p].result
          \/ run'[p].result \in {"adequate", "shallow"} /\ <<p, run'[p].result>> \in measured'
    BY <2>2
  <2>6. run[Screening].state \in TerminalMatch => run'[Screening] = run[Screening]
    BY <2>2 DEF TerminalMatch
  <2> QED BY <2>2, <2>3, <2>4, <2>5, <2>6
<1>4. CASE \E e \in Evaluations : Busy(e) /\ (Leaves(e) \/ SprtBegins(e)) /\ UNCHANGED <<svc, measured>>
  BY <1>0, <1>4, LeavesFrame
     DEF MatchInv, Passed, NoMatch, SprtBegins, MatchRuns, TerminalMatch, AMatch
<1> QED BY <1>1, <1>2, <1>3, <1>4, RunSteps

-----------------------------------------------------------------------------
(* What the steps of the service do to the campaign.                       *)

Gate      == {"gate", "prescan", "screen", "launched"}
PastTests == {"prescan_running", "screening_running", "sprt_running", "awaiting_decision"}

\* A late campaign is only polled; the gate is reached by tests that were passed; and
\* a decision is called for when nothing is played.
SvcGoesOn ==
  /\ camp'.status \in LateStatus => svc'.pc \in {"read", "done"}
  /\ camp.status \in LateStatus => camp'.status \in LateStatus
  /\ camp'.status = "sprt_running" /\ camp.status # "sprt_running" =>
       Over(Screening) /\ run' = run
  /\ svc'.pc \in Gate \/ camp'.status \in PastTests =>
       svc.pc \in Gate \/ camp.status \in PastTests \/ Tested(exp)
  /\ camp'.status = "awaiting_decision" /\ camp.status # "awaiting_decision" =>
       \/ Over(Screening) /\ run[Sprt] = NoMatch
       \/ camp.status = "sprt_running" /\ Over(Sprt)
  /\ Tested(exp) => Tested(exp')
  /\ exp'.status = "sprt_running" => exp.status = "sprt_running"

\* The same, one action of the service at a time.
LEMMA SvcCampaign ==
  ASSUME TypeOK, LateInv, SvcStep \/ Crash
  PROVE  SvcGoesOn
<1>0. /\ camp \in Campaign /\ svc.mem \in Campaign /\ exp \in Experiment
      /\ svc.pc = "launched" => svc.mem.status \in {"prescan_running", "screening_running"}
  BY DEF TypeOK, SvcTypes
<1>n. \A c \in Campaign, s \in Statuses : [c EXCEPT !.status = s].status = s
  BY DEF Campaign
<1>s. /\ LateStatus = TerminalStatus \cup {"screening_running", "sprt_running"}
      /\ TerminalStatus = {"awaiting_decision", "tests_failed", "failed", "depth_insufficient",
                           "depth_measurement_invalid"}
      /\ LateStatus \subseteq Statuses /\ {"building", "testing"} \subseteq Statuses
  BY DEF LateStatus, TerminalStatus, Statuses
<1>e. ASSUME NEW s \in TerminalStatus \ {"awaiting_decision"}, Ends(s), UNCHANGED exp,
             svc.pc \notin {"read", "done"}
      PROVE  SvcGoesOn
  <2>1. camp'.status = s /\ svc'.pc = "done"
    BY <1>0, <1>n, <1>s, <1>e DEF Ends, Save, Think
  <2> QED BY <1>e, <1>s, <2>1 DEF SvcGoesOn, Gate, PastTests
<1>f. Fails /\ UNCHANGED exp /\ svc.pc \notin {"read", "done"} => SvcGoesOn
  BY <1>e, <1>s DEF Fails
<1>m. ASSUME UNCHANGED <<camp, exp>>, svc.pc \notin {"read", "done"},
             svc'.pc \in Gate => svc.pc \in Gate \/ Tested(exp)
      PROVE  SvcGoesOn
  BY <1>m, <1>s DEF SvcGoesOn, LateInv
<1> USE DEF Save, Think, SvcAt, Reads
<1>1. CASE BeginBuild
  <2>1. camp'.status = "building" /\ svc'.pc = "build" /\ UNCHANGED exp
    BY <1>0, <1>1, <1>n, <1>s DEF BeginBuild
  <2> QED BY <1>1, <1>s, <2>1 DEF BeginBuild, SvcGoesOn, Gate, PastTests
<1>2. CASE Build
  <2>1. CASE Fails BY <1>2, <1>f, <2>1 DEF Build
  <2>2. CASE Save([svc.mem EXCEPT !.status = "testing"]) /\ Think("pipeline", camp')
    <3>1. camp'.status = "testing" /\ svc'.pc = "pipeline"
      BY <1>0, <1>n, <1>s, <2>2
    <3> QED BY <1>2, <1>s, <3>1 DEF Build, SvcGoesOn, Gate, PastTests, LateInv
  <2> QED BY <1>2, <2>1, <2>2 DEF Build
<1>3. CASE Pipeline BY <1>3, <1>m DEF Pipeline, Gate
<1>4. CASE Stage
  <2>1. exp'.status = "running" /\ ~ Tested(exp) /\ UNCHANGED svcVars
    <3>1. Len(Stages) = 5 BY DEF Stages
    <3>2. UNCHANGED svcVars
      BY <1>4 DEF Stage
    <3>3. ~ Tested(exp)
      BY <1>0, <1>4, <3>1 DEF Stage, Experiment, Tested
    <3>4. exp'.status = "running"
      BY <1>0, <1>4 DEF Stage, Experiment
    <3> QED BY <3>2, <3>3, <3>4
  <2> QED BY <1>4, <1>s, <2>1 DEF Stage, SvcGoesOn, Gate, LateInv
<1>5. CASE Conclude
  <2>1. /\ exp'.status # "sprt_running" /\ exp'.passed = exp.passed /\ exp'.failed = exp.failed
        /\ UNCHANGED camp /\ svc'.pc = "judge"
    BY <1>0, <1>5 DEF Conclude, Experiment
  <2> QED BY <1>5, <1>s, <2>1 DEF Conclude, SvcGoesOn, Gate, LateInv, Tested
<1>6. CASE Judge
  <2>1. CASE Tested(exp) BY <1>6, <1>m, <2>1 DEF Judge
  <2>2. CASE ~ Tested(exp) BY <1>6, <1>e, <1>s, <2>2 DEF Judge
  <2> QED BY <2>1, <2>2
<1>7. CASE SkipGate BY <1>7, <1>m DEF SkipGate, Gate
<1>8. CASE LookUp BY <1>8, <1>m DEF LookUp, GateAt, Gate
<1>9. CASE Decide BY <1>9, <1>m DEF Decide, GateAt, Gate
<1>10. CASE Exhausted BY <1>10, <1>e, <1>s DEF Exhausted
<1>11. CASE LaunchPreScan BY <1>11, <1>f, <1>m DEF LaunchPreScan, Launch, Gate
<1>12. CASE LaunchScreening BY <1>12, <1>f, <1>m DEF LaunchScreening, Launch, Gate
<1>13. CASE SaveLaunch
  <2>1. /\ camp'.status \in {"prescan_running", "screening_running"} /\ svc'.pc = "read"
        /\ UNCHANGED exp
    BY <1>0, <1>13 DEF SaveLaunch
  <2> QED BY <1>13, <1>s, <2>1 DEF SaveLaunch, SvcGoesOn, Gate, PastTests, LateInv
<1>14. CASE PollPreScan
  <2>1. camp.status = "prescan_running" /\ UNCHANGED exp
    BY <1>14 DEF PollPreScan
  <2>2. \/ UNCHANGED camp
        \/ /\ camp' = [camp EXCEPT !.status = "depth_measurement_invalid"]
           /\ svc' = [pc |-> "done", mem |-> camp']
    BY <1>14 DEF PollPreScan
  <2>3. UNCHANGED camp \/ (camp'.status = "depth_measurement_invalid" /\ svc'.pc = "done")
    <3>1. [camp EXCEPT !.status = "depth_measurement_invalid"].status = "depth_measurement_invalid"
      BY <1>0 DEF Campaign
    <3>2. CASE /\ svc' = [pc |-> "done", mem |-> camp']
               /\ camp' = [camp EXCEPT !.status = "depth_measurement_invalid"]
      <4>1. svc'.pc = "done" BY <3>2
      <4>2. camp'.status = "depth_measurement_invalid" BY <3>1, <3>2
      <4> QED BY <4>1, <4>2
    <3> QED BY <2>2, <3>2
  <2> QED BY <1>s, <2>1, <2>3 DEF SvcGoesOn, Gate, PastTests, LateInv
<1>15. CASE PollScreening
  <2>1. /\ camp.status = "screening_running" /\ Over(Screening) /\ UNCHANGED <<exp, run>>
        /\ camp'.status = IF run[Sprt] = NoMatch THEN "awaiting_decision" ELSE "sprt_running"
        /\ svc'.pc \in {"read", "done"}
    BY <1>0, <1>15, <1>n, <1>s DEF PollScreening
  <2> QED BY <1>s, <2>1 DEF SvcGoesOn, Gate, PastTests
<1>16. CASE PollSprt
  <2>1. /\ camp.status = "sprt_running" /\ Over(Sprt) /\ UNCHANGED <<exp, run>>
        /\ camp'.status = "awaiting_decision" /\ svc'.pc \in {"read", "done"}
    BY <1>0, <1>16, <1>n, <1>s DEF PollSprt
  <2> QED BY <1>s, <2>1 DEF SvcGoesOn, Gate, PastTests
<1>17. CASE Crash BY <1>17, <1>s DEF Crash, SvcGoesOn, Gate
<1> QED BY <1>1, <1>2, <1>3, <1>4, <1>5, <1>6, <1>7, <1>8, <1>9, <1>10, <1>11, <1>12, <1>13, <1>14,
           <1>15, <1>16, <1>17 DEF SvcStep

\* The other steps leave service and campaign alone, and spoil no report.
LEMMA OthersFrame ==
  ASSUME TypeOK, TestedInv, [Next]_vars, ~ SvcStep, ~ Crash
  PROVE  UNCHANGED <<camp, svc>> /\ (Tested(exp) => Tested(exp'))
<1>0. exp \in Experiment
  BY DEF TypeOK
<1>1. CASE PreScanEnds \/ ScreeningEnds \/ SprtEnds \/ MonitorLost BY <1>1, MatchFrame
<1>2. CASE RetryGiven \/ EvaluationLost \/ UNCHANGED vars
  BY <1>2 DEF RetryGiven, EvaluationLost, vars
<1>3. CASE RecordDecision
  BY <1>0, <1>3 DEF RecordDecision, Experiment, Tested
<1>4. CASE \E e \in Evaluations : EvStep(e)
  <2>1. PICK e \in Evaluations : EvStep(e)
    BY <1>4
  <2>2. exp' = exp \/ (EvAt(e, "write") /\ exp' = ev[e].rep)
    <3>1. CASE WriteExperiment(e) BY <3>1 DEF WriteExperiment
    <3>2. Load(e) \/ LoadSprt \/ Validate(e) \/ Ask(e) \/ Note(e) => UNCHANGED exp
      BY DEF Load, LoadSprt, Validate, Ask, Note
    <3>3. Approve(e) \/ StartSprt(e) \/ SpawnSprt(e) \/ SpawnFailed(e) \/ Close(e) => UNCHANGED exp
      BY DEF Approve, StartSprt, SpawnSprt, SpawnFailed, Close
    <3> QED BY <2>1, <3>1, <3>2, <3>3 DEF EvStep
  <2>3. EvAt(e, "write") => Tested(ev[e].rep)
    BY DEF TestedInv, EvAt, Busy
  <2> QED BY <2>1, <2>2, <2>3, EvFrame DEF Tested
<1> QED BY <1>1, <1>2, <1>3, <1>4 DEF Next

\* Once the screening is launched and saved, the service does nothing but poll.
LEMMA LateStep ==
  ASSUME IInv, [Next]_vars
  PROVE  LateInv'
<1>0. TypeOK /\ TestedInv /\ MatchInv /\ LateInv
  BY DEF IInv
<1>1. /\ camp'.status \in LateStatus => svc'.pc \in {"read", "done"}
      /\ camp'.status = "sprt_running" /\ camp.status # "sprt_running" =>
           Over(Screening) /\ run' = run
  BY <1>0, SvcCampaign, OthersFrame DEF SvcGoesOn, LateInv
<1>2. camp.status = "sprt_running" =>
        ~ run[Screening].alive /\ run[Screening].state \in TerminalMatch /\ svc.pc # "screen"
  BY <1>0 DEF LateInv, LateStatus
<1>3. camp.status = "sprt_running" =>
        ~ run'[Screening].alive /\ run'[Screening].state \in TerminalMatch
  <2>1. run'[Screening].alive \in BOOLEAN /\ run[Screening].alive \in BOOLEAN
    BY <1>0, TypeStep, Names DEF TypeOK, AMatch
  <2> QED BY <1>0, <1>2, <2>1, MatchStep
<1> QED BY <1>1, <1>3 DEF LateInv, Over

-----------------------------------------------------------------------------
(* The order of evaluations.                                               *)

\* An evaluation of the screening that is at work finds the screening as it was.
LEMMA EvalStep ==
  ASSUME IInv, [Next]_vars
  PROVE  EvalInv'
<1> USE Names
<1>0. /\ TypeOK /\ TestedInv /\ MatchInv /\ LateInv /\ EvalInv
      /\ run \in [Matches -> AMatch] /\ ev \in [Evaluations -> Evaluation]
      /\ run' \in [Matches -> AMatch] /\ ev' \in [Evaluations -> Evaluation]
  BY TypeStep DEF IInv, TypeOK
<1>1. \A e \in Evaluations \ {Sprt} : Busy(e) =>
        /\ run[Screening].state \in TerminalMatch
        /\ svc.pc # "screen" \/ run[Screening].alive
        /\ e \notin Matches => camp.status \in LateStatus /\ camp'.status \in LateStatus
  <2> SUFFICES ASSUME NEW e \in Evaluations \ {Sprt}, Busy(e)
               PROVE  /\ run[Screening].state \in TerminalMatch
                      /\ svc.pc # "screen" \/ run[Screening].alive
                      /\ e \notin Matches => camp.status \in LateStatus /\ camp'.status \in LateStatus
    OBVIOUS
  <2>1. e = Screening \/ e \notin Matches
    OBVIOUS
  <2>2. e \notin Matches => camp.status \in LateStatus /\ camp'.status \in LateStatus
    BY <1>0, SvcCampaign, OthersFrame DEF EvalInv, SvcGoesOn
  <2> QED BY <1>0, <2>1, <2>2 DEF EvalInv, LateInv
<1>2. \A e \in Evaluations \ {Sprt} : Busy(e) => run'[Screening].state \in TerminalMatch
  BY <1>0, <1>1, MatchStep
\* It is enough that nobody begins to work, and that the monitor stays.
<1>s. ASSUME \A e \in Evaluations \ {Sprt} : Busy(e)' => Busy(e),
             Busy(Screening)' => run'[Screening].alive,
             ev'[Sprt].pc \in {"none", "load", "write", "close", "gone"}
      PROVE  EvalInv'
  BY <1>0, <1>1, <1>2, <1>s DEF EvalInv
<1>3. CASE SvcStep \/ Crash
  <2>1. UNCHANGED ev
    BY <1>0, <1>3, SvcFrame
  <2>2. Busy(Screening) => run'[Screening] = run[Screening]
    <3>1. CASE run' = run BY <3>1
    <3>2. CASE \E m \in Matches : Restarted(m)
      <4>1. PICK m \in Matches, tc \in Nat :
              Startable(m) /\ Settled(m) /\ run' = [run EXCEPT ![m] = MatchRuns(tc)]
        BY <3>2 DEF Restarted
      <4>2. Busy(Screening) => m # Screening
        BY <1>0, <4>1 DEF EvalInv, Startable, Settled
      <4> QED BY <1>0, <4>1, <4>2
    <3> QED BY <1>0, <1>3, <3>1, <3>2, SvcFrame
  <2>3. \A e \in Evaluations : Busy(e)' = Busy(e)
    BY <2>1 DEF Busy
  <2> QED BY <1>0, <1>s, <2>1, <2>2, <2>3 DEF EvalInv
<1>4. CASE PreScanEnds \/ ScreeningEnds \/ SprtEnds \/ MonitorLost
  <2>1. PICK m \in Matches : Ended(m) \/ Lost(m)
    BY <1>0, <1>4, MatchFrame
  <2>2. /\ run[m].state = "running"
        /\ \A n \in Matches \ {m} : run'[n] = run[n]
        /\ \A f \in Evaluations \ {m} : ev'[f] = ev[f]
    BY <1>0, <2>1 DEF Ended, Lost
  <2>3. CASE m # Screening
    <3>1. run'[Screening] = run[Screening] /\ \A f \in Evaluations \ {Sprt} : ev'[f] = ev[f]
      <4>1. m \in PreScans \/ m = Sprt
        BY <2>3
      <4>2. m \in PreScans => ev' = ev
        BY <2>1 DEF Ended, Lost
      <4> QED BY <2>2, <2>3, <4>1, <4>2
    <3>2. ev'[Sprt].pc \in {"none", "load", "write", "close", "gone"}
      <4>1. m \in PreScans => ev' = ev
        BY <2>1 DEF Ended, Lost
      <4>2. m = Sprt => \/ ev' = ev
                        \/ ev' = [ev EXCEPT ![Sprt].pc = "load"]
        BY <2>1 DEF Ended, Lost
      <4>3. ev'[Sprt].pc \in {ev[Sprt].pc, "load"}
        BY <1>0, <2>3, <4>1, <4>2 DEF Evaluation
      <4> QED BY <1>0, <4>3 DEF EvalInv
    <3>3. \A e \in Evaluations \ {Sprt} : Busy(e)' = Busy(e)
      BY <3>1 DEF Busy
    <3> QED BY <1>0, <1>s, <3>1, <3>2, <3>3 DEF EvalInv
  <2>4. CASE m = Screening
    <3>1. \A e \in Evaluations \ {Sprt} : ~ Busy(e)
      BY <1>1, <2>2, <2>4 DEF TerminalMatch
    <3>2. ev'[Sprt] = ev[Sprt] /\ \A e \in Evaluations \ {Sprt, Screening} : ~ Busy(e)'
      BY <2>2, <2>4, <3>1 DEF Busy
    <3>3. Busy(Screening)' => run'[Screening].state \in TerminalMatch /\ run'[Screening].alive
      <4>1. CASE Lost(m)
        BY <2>4, <3>1, <4>1 DEF Lost, Busy
      <4>2. CASE Ended(m)
        <5>1. PICK s \in TerminalMatch, r \in Outcomes, b \in BOOLEAN :
                b /\ run' = [run EXCEPT ![m] = [@ EXCEPT !.state = s, !.result = r, !.alive = b]]
          BY <2>4, <4>2 DEF Ended
        <5>2. run'[m] = [run[m] EXCEPT !.state = s, !.result = r, !.alive = b]
          BY <1>0, <5>1
        <5>3. run[m] \in AMatch
          BY <1>0
        <5>4. run'[m].state = s /\ run'[m].alive
          BY <5>1, <5>2, <5>3 DEF AMatch
        <5> QED BY <2>4, <5>1, <5>4
      <4> QED BY <2>1, <4>1, <4>2
    <3> QED BY <1>0, <3>1, <3>2, <3>3 DEF EvalInv
  <2> QED BY <2>3, <2>4
<1>5. CASE \E e \in Evaluations : EvStep(e) \/ (Busy(e) /\ Leaves(e))
  <2>1. PICK e \in Evaluations : EvStep(e) \/ (Busy(e) /\ Leaves(e))
    BY <1>5
  <2>2. /\ Busy(e) /\ \A f \in Evaluations \ {e} : ev'[f] = ev[f]
        /\ run' = run \/ Leaves(e) \/ SprtBegins(e)
    BY <1>0, <2>1, EvFrame, LeavesFrame
  <2>3. \A f \in Evaluations : Busy(f)' => Busy(f)
    BY <2>2 DEF Busy
  <2>4. Busy(Screening)' => run'[Screening].alive
    <3>0. Busy(Screening)' => run[Screening].alive
      BY <1>0, <2>3 DEF EvalInv
    <3>1. CASE run' = run BY <3>0, <3>1
    <3>2. CASE Leaves(e)
      BY <1>0, <3>0, <3>2, LeavesFrame DEF Busy, AMatch
    <3>3. CASE SprtBegins(e)
      BY <1>0, <3>0, <3>3 DEF SprtBegins
    <3> QED BY <2>2, <3>1, <3>2, <3>3
  <2>5. ev'[Sprt].pc \in {"none", "load", "write", "close", "gone"}
    <3>1. CASE e # Sprt BY <1>0, <2>2, <3>1 DEF EvalInv
    <3>2. CASE Leaves(e) /\ e = Sprt
      BY <1>0, <3>2, LeavesFrame
    <3>3. CASE e = Sprt /\ EvStep(e) /\ ~ Leaves(e)
      <4>1. ev[Sprt].pc \in {"load", "write", "close"}
        BY <1>0, <2>2, <3>3 DEF EvalInv, Busy
      <4>2. LoadSprt \/ WriteExperiment(Sprt)
        BY <3>3, <4>1 DEF EvStep, Load, Validate, Ask, Note, Approve, StartSprt, SpawnSprt,
                          SpawnFailed, Close, EvAt
      <4> QED BY <1>0, <4>2 DEF LoadSprt, WriteExperiment, EvGoes, Evaluation
    <3> QED BY <2>1, <3>1, <3>2, <3>3
  <2> QED BY <1>s, <2>3, <2>4, <2>5
<1>6. CASE RetryGiven
  <2>1. PICK e \in Evaluations :
          /\ IsRetry(e) /\ run[Screening].state \in TerminalMatch
          /\ \A f \in Evaluations \ {Sprt} : ev[f].pc \in {"none", "gone"}
          /\ camp.status \in TerminalStatus \cup {"screening_running", "sprt_running"}
          /\ EvGoes(e, "load") /\ UNCHANGED <<camp, run>>
    BY <1>6 DEF RetryGiven
  <2>2. /\ e \notin Matches /\ e # Sprt /\ camp'.status \in LateStatus
        /\ \A f \in Evaluations \ {e} : ev'[f] = ev[f]
    BY <1>0, <2>1 DEF IsRetry, EvGoes, LateStatus
  <2>3. \A f \in Evaluations \ {Sprt} : Busy(f)' => f = e
    BY <2>1, <2>2 DEF Busy
  <2> QED BY <1>0, <2>1, <2>2, <2>3 DEF EvalInv
<1>7. CASE RecordDecision \/ UNCHANGED vars
  <2>1. UNCHANGED <<ev, run, camp>>
    BY <1>7 DEF RecordDecision, vars
  <2>2. \A e \in Evaluations : Busy(e)' = Busy(e)
    BY <2>1 DEF Busy
  <2> QED BY <1>0, <1>s, <2>1, <2>2 DEF EvalInv
<1>8. CASE EvaluationLost
  BY <1>5, <1>8 DEF EvaluationLost, Busy
<1> QED BY <1>3, <1>4, <1>5, <1>6, <1>7, <1>8 DEF Next

-----------------------------------------------------------------------------
(* What an evaluation knows.                                               *)

Working == {"ask", "note", "approve", "start", "spawn", "fail"}

Local(e) ==
  /\ Busy(e) /\ ev[e].pc # "load" => Tested(ev[e].rep)
  /\ ev[e].rep.status = "sprt_running" => run[Sprt] # NoMatch
  /\ e # Sprt =>
       /\ Busy(e) /\ ev[e].pc \notin {"load", "note"} => ev[e].rec.decision = record.decision
       /\ ev[e].pc \in {"ask", "note"} => record.decision = "none"
       /\ ev[e].pc \in {"start", "spawn", "fail"} => ev[e].rec.decision = "sprt"
       /\ ev[e].pc \in Working => Passed

\* The invariants of report, record and evaluations, taken for one evaluation at a time.
LEMMA Locals ==
  (TestedInv /\ RecordInv /\ SaidInv) <=>
    /\ \A e \in Evaluations : Local(e)
    /\ Gated => Tested(exp)
    /\ run[Sprt] # NoMatch => Passed /\ record.decision = "sprt"
    /\ exp.status = "sprt_running" => run[Sprt] # NoMatch
BY DEF TestedInv, RecordInv, SaidInv, Local, Passed, Working

\* What a step of an evaluation does to the report, the record and the SPRT.
EvGoesOn(e) ==
  /\ Local(e)'
  /\ record'.decision # record.decision =>
       e # Sprt /\ ev[e].pc = "note" /\ record.decision = "none"
  /\ exp'.status = "sprt_running" => run[Sprt] # NoMatch
  /\ run[Sprt] = NoMatch /\ run'[Sprt] # NoMatch => Passed /\ record'.decision = "sprt"
  /\ asked' # asked => record.decision = "none"

\* The same, one action of an evaluation at a time.
LEMMA EvLocal ==
  ASSUME IInv, NEW e \in Evaluations, EvStep(e)
  PROVE  EvGoesOn(e)
<1> USE Names
<1>0. /\ TypeOK /\ MatchInv /\ EvalInv
      /\ exp \in Experiment /\ record \in Record
      /\ run \in [Matches -> AMatch] /\ ev \in [Evaluations -> Evaluation]
      /\ ev[e] \in Evaluation /\ ev[e].rep \in Experiment /\ ev[e].rec \in Record
  BY DEF IInv, TypeOK, Evaluation
<1>1. /\ Local(e) /\ Busy(e) /\ Tested(exp)
      /\ exp.status = "sprt_running" => run[Sprt] # NoMatch
      /\ run[Sprt] # NoMatch => Passed /\ record.decision = "sprt"
  <2>1. Busy(e)
    BY <1>0, EvFrame
  <2> QED BY <2>1, Locals DEF IInv, Gated
<1>2. /\ run[Sprt] # NoMatch => run'[Sprt] # NoMatch
      /\ Passed => Passed'
  <2>1. [Next]_vars
    BY DEF Next
  <2> QED BY <1>0, <2>1, MatchStep
<1>3. e = Sprt => ev[e].pc \in {"load", "write", "close"}
  BY <1>0, <1>1 DEF EvalInv, Busy
\* An evaluation that goes leaves nothing behind.
<1>l. Leaves(e) => Local(e)' /\ run'[Sprt].state = run[Sprt].state
  <2>1. SUFFICES ASSUME Leaves(e) PROVE Local(e)'
    BY <1>0, LeavesFrame
  <2>2. ev'[e] = [NoEvaluation EXCEPT !.pc = "gone"]
    BY <1>0, <2>1 DEF Leaves
  <2>3. ev'[e].pc = "gone" /\ ev'[e].rep.status = "none"
    BY <2>2 DEF NoEvaluation, NoExperiment
  <2> QED BY <2>3 DEF Local, Busy, Working
<1>n. \A r \in AMatch : r.state # "none" => r # NoMatch
  BY DEF NoMatch
<1>m. run'[Sprt].state = run[Sprt].state => (run[Sprt] = NoMatch /\ run'[Sprt] # NoMatch => FALSE)
  <2>1. MatchInv'
    <3>1. [Next]_vars
      BY DEF Next
    <3> QED BY <1>0, <3>1, MatchStep
  <2> QED BY <2>1 DEF MatchInv, NoMatch
<1>f. ASSUME EvFails(e), ev[e].pc \notin {"load", "note", "write", "close"}, UNCHANGED exp,
             asked' # asked => ev[e].pc = "ask"
      PROVE  EvGoesOn(e)
  <2>1. e # Sprt /\ record'.decision = ev[e].rec.decision
    BY <1>0, <1>3, <1>f DEF EvFails, Record, Busy
  <2>2. record'.decision = record.decision
    BY <1>1, <1>f, <2>1 DEF Local
  <2> QED BY <1>1, <1>f, <1>l, <1>m, <2>1, <2>2 DEF EvFails, EvGoesOn, Local
\* What stays when only the place changes.
<1>g. ASSUME NEW pc \in EvPCs, EvGoes(e, pc)
      PROVE  ev'[e].pc = pc /\ ev'[e].rep = ev[e].rep /\ ev'[e].rec = ev[e].rec
  BY <1>0, <1>g DEF EvGoes, Evaluation
<1>w. ASSUME NEW s \in {"awaiting_decision", "sprt_running"}, NEW d \in {"none", "sprt", "no_sprt"},
             Writes(e, s, d)
      PROVE  /\ ev'[e].pc = "write" /\ ev'[e].rec = ev[e].rec
             /\ ev'[e].rep.status = s
             /\ Tested(ev[e].rep) => Tested(ev'[e].rep)
  <2> DEFINE new == [ev[e] EXCEPT !.pc = "write", !.rep.status = s, !.rep.decision = d]
  <2>1. ev'[e] = new
    BY <1>0, <1>w DEF Writes, Evaluation, Experiment
  <2>2. /\ new.pc = "write" /\ new.rec = ev[e].rec
        /\ new.rep = [ev[e].rep EXCEPT !.status = s, !.decision = d]
    BY <1>0 DEF Evaluation, Experiment
  <2>3. LET rep == [ev[e].rep EXCEPT !.status = s, !.decision = d]
        IN rep.status = s /\ rep.passed = ev[e].rep.passed /\ rep.failed = ev[e].rep.failed
    BY <1>0 DEF Experiment
  <2> HIDE DEF new
  <2> QED BY <2>1, <2>2, <2>3 DEF Tested
\* An evaluation that goes on, with the report and the record as they were.
<1>o. ASSUME UNCHANGED <<exp, record>>, asked' # asked => FALSE,
             ev'[e].rep.status \in {ev[e].rep.status, "awaiting_decision"}
               \/ (ev'[e].rep.status = "sprt_running" /\ run'[Sprt] # NoMatch),
             Tested(ev'[e].rep), e # Sprt,
             ev'[e].rec.decision = record.decision,
             ev'[e].pc \in {"ask", "note"} => record.decision = "none",
             ev'[e].pc \in {"start", "spawn", "fail"} => record.decision = "sprt",
             ev'[e].pc \in Working => Passed,
             run'[Sprt] # NoMatch => \/ run[Sprt] # NoMatch
                                     \/ Passed /\ record.decision = "sprt"
      PROVE  EvGoesOn(e)
  BY <1>1, <1>2, <1>o DEF EvGoesOn, Local, Busy
<1>r. ev[e].pc # "load" => Tested(ev[e].rep)
  BY <1>1 DEF Local
<1>4. CASE Load(e)
  <2>0. e # Sprt /\ UNCHANGED <<exp, asked>>
    BY <1>4 DEF Load
  <2>1. CASE Leaves(e) /\ UNCHANGED record
    BY <1>1, <1>l, <1>m, <2>0, <2>1 DEF EvGoesOn
  <2>2. CASE /\ record' = [record EXCEPT !.status = "running"]
             /\ ev' = [ev EXCEPT ![e] = [pc |-> "validate", rep |-> exp, rec |-> record']]
             /\ UNCHANGED run
    <3>1. record'.decision = record.decision
      BY <1>0, <2>2 DEF Record
    <3>2. ev'[e].pc = "validate" /\ ev'[e].rep = exp /\ ev'[e].rec = record'
      BY <1>0, <2>2
    <3> QED BY <1>1, <2>0, <2>2, <3>1, <3>2 DEF EvGoesOn, Local, Working
  <2> QED BY <1>4, <2>1, <2>2 DEF Load
<1>5. CASE e = Sprt /\ LoadSprt
  <2> DEFINE rep == [exp EXCEPT !.status = "awaiting_decision", !.decision = "none"]
  <2>1. rep.status = "awaiting_decision" /\ rep.passed = exp.passed /\ rep.failed = exp.failed
    BY <1>0 DEF Experiment
  <2>2. ev'[e].pc = "write" /\ ev'[e].rep = rep /\ UNCHANGED <<exp, run, record, asked>>
    BY <1>0, <1>5 DEF LoadSprt
  <2> HIDE DEF rep
  <2>3. Tested(ev'[e].rep) /\ ev'[e].rep.status = "awaiting_decision"
    BY <1>1, <2>1, <2>2 DEF Tested
  <2> QED BY <1>1, <1>5, <2>2, <2>3 DEF EvGoesOn, Local
<1>6. CASE Validate(e)
  <2>0. ev[e].pc = "validate" /\ e # Sprt /\ UNCHANGED <<exp, run, record, asked>>
    BY <1>3, <1>6 DEF Validate, EvAt
  <2>1. ev[e].rec.decision = record.decision /\ Tested(ev[e].rep)
    BY <1>1, <1>r, <2>0 DEF Local
  <2>2. CASE Writes(e, "awaiting_decision", "none")
    BY <1>1, <1>o, <1>w, <2>0, <2>1, <2>2 DEF Working
  <2>3. CASE Qualifies(ev[e].rep) /\ EvGoes(e, IF HasDecision(ev[e].rec) THEN "approve" ELSE "ask")
    <3>1. Passed
      BY <2>3 DEF Qualifies, Passed
    <3>2. CASE HasDecision(ev[e].rec)
      BY <1>1, <1>g, <1>o, <2>0, <2>1, <2>3, <3>1, <3>2 DEF EvPCs
    <3>3. CASE ~ HasDecision(ev[e].rec)
      BY <1>1, <1>g, <1>o, <2>0, <2>1, <2>3, <3>1, <3>3 DEF EvPCs, HasDecision
    <3> QED BY <3>2, <3>3
  <2> QED BY <1>6, <2>2, <2>3 DEF Validate
<1>7. CASE Ask(e)
  <2>0. ev[e].pc = "ask" /\ e # Sprt /\ UNCHANGED exp
    BY <1>3, <1>7 DEF Ask, EvAt
  <2>1. CASE EvFails(e) BY <1>f, <2>0, <2>1
  <2>2. CASE ~ EvFails(e)
    <3>1. PICK d \in {"sprt", "no_sprt"} :
            /\ ev' = [ev EXCEPT ![e].pc = "note", ![e].rec.decision = d]
            /\ UNCHANGED <<record, run>>
      BY <1>7, <2>2 DEF Ask
    <3>2. ev'[e] = [ev[e] EXCEPT !.pc = "note", !.rec.decision = d]
      BY <1>0, <3>1 DEF Evaluation, Record
    <3>3. ev'[e].pc = "note" /\ ev'[e].rep = ev[e].rep
      BY <1>0, <3>2 DEF Evaluation
    <3> QED BY <1>1, <1>r, <2>0, <3>1, <3>3 DEF EvGoesOn, Local, Working, Passed
  <2> QED BY <2>1, <2>2
<1>8. CASE Note(e)
  <2>0. ev[e].pc = "note" /\ e # Sprt /\ record' = ev[e].rec /\ UNCHANGED <<exp, run, asked>>
    BY <1>3, <1>8 DEF Note, EvAt
  <2>1. ev'[e].pc = "approve" /\ ev'[e].rep = ev[e].rep /\ ev'[e].rec = ev[e].rec
    BY <1>8, <1>g DEF Note, EvPCs
  <2> QED BY <1>1, <1>2, <1>r, <2>0, <2>1 DEF EvGoesOn, Local, Working
<1>9. CASE Approve(e)
  <2>0. ev[e].pc = "approve" /\ e # Sprt /\ UNCHANGED <<exp, asked>>
    BY <1>3, <1>9 DEF Approve, EvAt
  <2>1. ev[e].rec.decision = record.decision /\ Tested(ev[e].rep) /\ Passed
    BY <1>1, <1>r, <2>0 DEF Local, Working
  <2>2. CASE EvFails(e) BY <1>f, <2>0, <2>2
  <2>3. CASE Writes(e, "awaiting_decision", "no_sprt") /\ UNCHANGED <<record, run>>
    BY <1>1, <1>o, <1>w, <2>0, <2>1, <2>3 DEF Working
  <2>4. CASE /\ ev[e].rec.decision = "sprt"
             /\ record' = [ev[e].rec EXCEPT !.sprt = TRUE]
             /\ ev' = [ev EXCEPT ![e].pc = "start", ![e].rec = record'] /\ UNCHANGED run
    <3>1. record'.decision = ev[e].rec.decision
      BY <1>0, <2>4 DEF Record
    <3>2. ev'[e] = [ev[e] EXCEPT !.pc = "start", !.rec = record']
      BY <1>0, <2>4
    <3>3. ev'[e].pc = "start" /\ ev'[e].rep = ev[e].rep /\ ev'[e].rec = record'
      BY <1>0, <3>2 DEF Evaluation
    <3> QED BY <1>1, <1>2, <2>0, <2>1, <2>4, <3>1, <3>3 DEF EvGoesOn, Local, Working
  <2> QED BY <1>9, <2>2, <2>3, <2>4 DEF Approve
<1>10. CASE StartSprt(e)
  <2>0. ev[e].pc = "start" /\ e # Sprt /\ UNCHANGED <<exp, asked>>
    BY <1>3, <1>10 DEF StartSprt, EvAt
  <2>1. /\ ev[e].rec.decision = record.decision /\ Tested(ev[e].rep) /\ Passed
        /\ record.decision = "sprt"
    BY <1>1, <1>r, <2>0 DEF Local, Working
  <2>2. CASE EvFails(e) BY <1>f, <2>0, <2>2
  <2>3. CASE EvGoes(e, "spawn") /\ UNCHANGED record
    BY <1>1, <1>g, <1>o, <2>0, <2>1, <2>3 DEF EvPCs
  <2>4. CASE run[Sprt] # NoMatch /\ Writes(e, "sprt_running", "sprt") /\ UNCHANGED <<run, record>>
    BY <1>1, <1>o, <1>w, <2>0, <2>1, <2>4 DEF Working
  <2> QED BY <1>10, <2>2, <2>3, <2>4 DEF StartSprt
<1>11. CASE SpawnSprt(e)
  <2>0. ev[e].pc = "spawn" /\ e # Sprt /\ UNCHANGED <<exp, record, asked>>
    BY <1>3, <1>11 DEF SpawnSprt, EvAt
  <2>1. /\ ev[e].rec.decision = record.decision /\ Tested(ev[e].rep) /\ Passed
        /\ record.decision = "sprt"
    BY <1>1, <1>r, <2>0 DEF Local, Working
  <2>2. CASE run' = [run EXCEPT ![Sprt] = MatchRuns(0)] /\ Writes(e, "sprt_running", "sprt")
    <3>1. run'[Sprt] # NoMatch
      BY <1>0, <2>2 DEF MatchRuns, NoMatch
    <3> QED BY <1>1, <1>o, <1>w, <2>0, <2>1, <2>2, <3>1 DEF Working
  <2>3. CASE EvGoes(e, "fail")
    BY <1>1, <1>g, <1>o, <2>0, <2>1, <2>3 DEF EvPCs
  <2> QED BY <1>11, <2>2, <2>3 DEF SpawnSprt
<1>12. CASE SpawnFailed(e)
  BY <1>12, <1>f DEF SpawnFailed, EvAt
<1>13. CASE WriteExperiment(e)
  <2>0. ev[e].pc = "write" /\ exp' = ev[e].rep /\ UNCHANGED <<run, record, asked>>
    BY <1>13 DEF WriteExperiment, EvAt
  <2>1. ev'[e].pc = "close" /\ ev'[e].rep = ev[e].rep /\ ev'[e].rec = ev[e].rec
    BY <1>13, <1>g DEF WriteExperiment, EvPCs
  <2> QED BY <1>1, <1>r, <2>0, <2>1 DEF EvGoesOn, Local, Working
<1>14. CASE Close(e)
  <2>0. ev[e].pc = "close" /\ Leaves(e) /\ UNCHANGED <<exp, asked>>
    BY <1>14 DEF Close, EvAt
  <2>1. record'.decision = record.decision
    <3>1. CASE e = Sprt BY <1>14, <3>1 DEF Close
    <3>2. CASE e # Sprt
      <4>1. record'.decision = ev[e].rec.decision
        BY <1>0, <1>14, <3>2 DEF Close, Record
      <4> QED BY <1>1, <2>0, <3>2, <4>1 DEF Local
    <3> QED BY <3>1, <3>2
  <2> QED BY <1>1, <1>l, <1>m, <2>0, <2>1 DEF EvGoesOn
<1> QED BY <1>4, <1>5, <1>6, <1>7, <1>8, <1>9, <1>10, <1>11, <1>12, <1>13, <1>14 DEF EvStep

\* Every step keeps what report, record and evaluations say of each other.
LEMMA EarnedStep ==
  ASSUME IInv, [Next]_vars
  PROVE  TestedInv' /\ RecordInv' /\ SaidInv'
<1> USE Names
<1>0. /\ TypeOK /\ TestedInv /\ MatchInv /\ LateInv /\ EvalInv
      /\ exp \in Experiment /\ ev \in [Evaluations -> Evaluation]
  BY DEF IInv, TypeOK
<1>1. /\ \A e \in Evaluations : Local(e)
      /\ Gated => Tested(exp)
      /\ run[Sprt] # NoMatch => Passed /\ record.decision = "sprt"
      /\ exp.status = "sprt_running" => run[Sprt] # NoMatch
  BY Locals DEF IInv
<1>2. /\ \A m \in Matches : run[m] # NoMatch => run'[m] # NoMatch
      /\ Passed => Passed'
      /\ \A m \in Matches : run[m] = NoMatch /\ run'[m] # NoMatch =>
           \/ m # Sprt /\ svc.pc \in {"prescan", "screen"}
           \/ m = Sprt /\ \E e \in Evaluations : EvAt(e, "start") \/ EvAt(e, "spawn")
  BY <1>0, MatchStep
\* The gate is passed once, and the report does not go back.
<1>3. /\ Tested(exp) => Tested(exp')
      /\ svc'.pc \in Gate \/ camp'.status \in PastTests => Gated \/ Tested(exp)
  BY <1>0, SvcCampaign, OthersFrame DEF SvcGoesOn, Gated, Gate, PastTests
<1>4. (\E m \in Matches : run'[m] # NoMatch) => Gated
  BY <1>2 DEF Gated, EvAt, Busy
<1>5. run[Sprt] = NoMatch /\ run'[Sprt] # NoMatch => Passed /\ record.decision = "sprt"
  <2> SUFFICES ASSUME run[Sprt] = NoMatch, run'[Sprt] # NoMatch
               PROVE  Passed /\ record.decision = "sprt"
    OBVIOUS
  <2>1. PICK e \in Evaluations : EvAt(e, "start") \/ EvAt(e, "spawn")
    BY <1>2
  <2>2. e # Sprt /\ Busy(e)
    BY <1>0, <2>1 DEF EvalInv, EvAt, Busy
  <2> QED BY <1>1, <2>1, <2>2 DEF Local, EvAt, Working
<1>6. run[Sprt] # NoMatch => run'[Sprt] # NoMatch
  BY <1>2
\* Evaluations that a step leaves alone, or sets to work.
<1>h. ASSUME NEW f \in Evaluations, ev'[f] = ev[f],
             record'.decision = record.decision \/ ~ Busy(f) \/ f = Sprt
      PROVE  Local(f)'
  BY <1>1, <1>2, <1>6, <1>h DEF Local, Busy, Working
<1>l. ASSUME NEW f \in Evaluations, ev' = [ev EXCEPT ![f].pc = "load"]
      PROVE  Local(f)'
  <2>1. ev'[f].pc = "load" /\ ev'[f].rep = ev[f].rep
    BY <1>0, <1>l DEF Evaluation
  <2> QED BY <1>1, <1>6, <2>1 DEF Local, Working
<1> DEFINE Rest == /\ record.decision = "sprt" => record'.decision = "sprt"
                   /\ exp'.status = "sprt_running" => run'[Sprt] # NoMatch
                   /\ \A f \in Evaluations : Local(f)'
                   /\ (\E f \in Evaluations : Busy(f)') => Gated
<1>7. ASSUME SvcStep \/ Crash PROVE Rest
  <2>1. UNCHANGED <<record, ev>> /\ (exp'.status = "sprt_running" => exp.status = "sprt_running")
    BY <1>0, <1>7, SvcFrame, SvcCampaign DEF SvcGoesOn
  <2>2. (\E f \in Evaluations : Busy(f)') => Gated
    BY <2>1 DEF Busy, Gated
  <2> QED BY <1>1, <1>6, <1>h, <2>1, <2>2
<1>8. ASSUME PreScanEnds \/ ScreeningEnds \/ SprtEnds \/ MonitorLost PROVE Rest
  <2>1. PICK m \in Matches : Ended(m) \/ Lost(m)
    BY <1>0, <1>8, MatchFrame
  <2>2. UNCHANGED <<exp, record>>
    BY <1>0, <1>8, MatchFrame
  <2>3. \/ UNCHANGED ev
        \/ m \in Evaluations /\ ev' = [ev EXCEPT ![m].pc = "load"]
    BY <2>1 DEF Ended, Lost
  <2>4. Gated
    <3>1. run[m].state = "running"
      BY <2>1 DEF Ended, Lost
    <3>2. run[m] # NoMatch
      BY <3>1 DEF NoMatch
    <3> QED BY <3>2 DEF Gated
  <2>5. \A f \in Evaluations : Local(f)'
    <3>1. CASE UNCHANGED ev BY <1>h, <2>2, <3>1
    <3>2. CASE m \in Evaluations /\ ev' = [ev EXCEPT ![m].pc = "load"]
      <4>1. \A f \in Evaluations \ {m} : ev'[f] = ev[f]
        BY <1>0, <3>2
      <4> QED BY <1>h, <1>l, <2>2, <3>2, <4>1
    <3> QED BY <2>3, <3>1, <3>2
  <2> QED BY <1>1, <1>6, <2>2, <2>4, <2>5
<1>9. ASSUME \E e \in Evaluations : EvStep(e) PROVE Rest
  <2>1. PICK e \in Evaluations : EvStep(e)
    BY <1>9
  <2>2. EvGoesOn(e) /\ Busy(e) /\ \A f \in Evaluations \ {e} : ev'[f] = ev[f]
    BY <1>0, <2>1, EvLocal, EvFrame
  <2>3. Gated
    BY <2>2 DEF Gated
  <2>4. ASSUME NEW f \in Evaluations PROVE Local(f)'
    <3>1. CASE f = e BY <2>2, <3>1 DEF EvGoesOn
    <3>2. CASE f # e
      <4>1. record'.decision = record.decision \/ ~ Busy(f) \/ f = Sprt
        BY <1>0, <2>2, <3>2 DEF EvGoesOn, EvalInv
      <4> QED BY <1>h, <2>2, <3>2, <4>1
    <3> QED BY <3>1, <3>2
  <2> QED BY <1>6, <2>2, <2>3, <2>4 DEF EvGoesOn
<1>10. ASSUME RetryGiven PROVE Rest
  <2>1. PICK e \in Evaluations : /\ run[Screening].state \in TerminalMatch
                                /\ EvGoes(e, "load") /\ UNCHANGED <<exp, record>>
    BY <1>10 DEF RetryGiven
  <2>2. Gated
    BY <2>1 DEF Gated, NoMatch, TerminalMatch
  <2>3. \A f \in Evaluations \ {e} : ev'[f] = ev[f]
    BY <1>0, <2>1 DEF EvGoes
  <2> QED BY <1>1, <1>6, <1>h, <1>l, <2>1, <2>2, <2>3 DEF EvGoes
<1>11. ASSUME EvaluationLost PROVE Rest
  <2>1. PICK e \in Evaluations : Busy(e) /\ Leaves(e)
    BY <1>11 DEF EvaluationLost, Busy
  <2>2. UNCHANGED <<exp, record>>
    BY <1>11 DEF EvaluationLost
  <2>3. Gated
    BY <2>1 DEF Gated
  <2>4. \A f \in Evaluations \ {e} : ev'[f] = ev[f]
    BY <1>0, <2>1, LeavesFrame
  <2>5. Local(e)'
    <3>1. ev'[e] = [NoEvaluation EXCEPT !.pc = "gone"]
      BY <1>0, <2>1 DEF Leaves
    <3>2. ev'[e].pc = "gone" /\ ev'[e].rep.status = "none"
      BY <3>1 DEF NoEvaluation, NoExperiment
    <3> QED BY <3>2 DEF Local, Busy, Working
  <2> QED BY <1>1, <1>6, <1>h, <2>2, <2>3, <2>4, <2>5
<1>12. ASSUME RecordDecision \/ UNCHANGED vars PROVE Rest
  <2>1. UNCHANGED <<ev, record>>
    BY <1>12 DEF RecordDecision, vars
  <2>2. exp'.status = "sprt_running" => exp.status = "sprt_running"
    <3>1. CASE UNCHANGED vars BY <3>1 DEF vars
    <3>2. CASE RecordDecision
      <4>1. PICK s \in {"rejected", "awaiting_approval", "awaiting_decision"} :
              exp' = [exp EXCEPT !.decision = "user", !.status = s]
        BY <3>2 DEF RecordDecision
      <4>2. exp'.status = s
        BY <1>0, <4>1 DEF Experiment
      <4> QED BY <4>2
    <3> QED BY <1>12, <3>1, <3>2
  <2>3. (\E f \in Evaluations : Busy(f)') => Gated
    BY <2>1 DEF Busy, Gated
  <2> QED BY <1>1, <1>6, <1>h, <2>1, <2>2, <2>3
<1>13. Rest
  <2> HIDE DEF Rest
  <2> QED
    BY <1>7, <1>8, <1>9, <1>10, <1>11, <1>12 DEF Next
<1>14. Gated' => Tested(exp')
  BY <1>1, <1>3, <1>4, <1>13 DEF Gated, Gate, PastTests
<1>15. run'[Sprt] # NoMatch => Passed' /\ record'.decision = "sprt"
  BY <1>1, <1>2, <1>5, <1>13
<1>16. (TestedInv /\ RecordInv /\ SaidInv)' <=>
        /\ \A e \in Evaluations : Local(e)'
        /\ Gated' => Tested(exp')
        /\ run'[Sprt] # NoMatch => Passed' /\ record'.decision = "sprt"
        /\ exp'.status = "sprt_running" => run'[Sprt] # NoMatch
  BY DEF TestedInv, RecordInv, SaidInv, Local, Passed, Working
<1> QED BY <1>13, <1>14, <1>15, <1>16

-----------------------------------------------------------------------------
(* What the service knows of the ladder.                                   *)

\* What a copy of the campaign knows does not depend on status and selection; a role
\* may be set, a depth noted, or the next time control turned to.
LEMMA KnowsUpdates ==
  ASSUME NEW c \in Campaign, KnowsDepths(c)
  PROVE  /\ \A s \in Statuses : KnowsDepths([c EXCEPT !.status = s])
         /\ \A n \in Nat : KnowsDepths([c EXCEPT !.selected = n])
         /\ \A r \in Roles \cup {"none"} :
              (r = "candidate" => c.mode = "full") => KnowsDepths([c EXCEPT !.role = r])
         /\ \A r \in Roles, d \in {"adequate", "shallow"} :
              (c.mode # "skip" => Measured(r, c.index, d) /\ (r = "candidate" => c.mode = "full"))
              => /\ KnowsDepths([c EXCEPT ![r] = d])
                 /\ KnowsDepths([c EXCEPT ![r] = d, !.role = "none"])
         /\ "shallow" \in {c.baseline, c.candidate} /\ c.mode # "skip" =>
              KnowsDepths(NextTimeControl(c))
<1>1. \A s \in Statuses : KnowsDepths([c EXCEPT !.status = s])
  <2> SUFFICES ASSUME NEW s \in Statuses PROVE KnowsDepths([c EXCEPT !.status = s])
    OBVIOUS
  <2> DEFINE d == [c EXCEPT !.status = s]
  <2>1. /\ d.mode = c.mode /\ d.index = c.index /\ d.baseline = c.baseline
        /\ d.candidate = c.candidate /\ d.role = c.role
    BY DEF Campaign
  <2> HIDE DEF d
  <2>2. KnowsDepths(d)
    BY <2>1 DEF KnowsDepths
  <2> QED BY <2>2 DEF d
<1>2. \A n \in Nat : KnowsDepths([c EXCEPT !.selected = n])
  <2> SUFFICES ASSUME NEW n \in Nat PROVE KnowsDepths([c EXCEPT !.selected = n])
    OBVIOUS
  <2> DEFINE d == [c EXCEPT !.selected = n]
  <2>1. /\ d.mode = c.mode /\ d.index = c.index /\ d.baseline = c.baseline
        /\ d.candidate = c.candidate /\ d.role = c.role
    BY DEF Campaign
  <2> HIDE DEF d
  <2>2. KnowsDepths(d)
    BY <2>1 DEF KnowsDepths
  <2> QED BY <2>2 DEF d
<1>3. ASSUME NEW r \in Roles \cup {"none"}, r = "candidate" => c.mode = "full"
      PROVE  KnowsDepths([c EXCEPT !.role = r])
  <2> DEFINE d == [c EXCEPT !.role = r]
  <2>1. /\ d.mode = c.mode /\ d.index = c.index /\ d.baseline = c.baseline
        /\ d.candidate = c.candidate /\ d.role = r
    BY DEF Campaign
  <2> HIDE DEF d
  <2>2. KnowsDepths(d)
    BY <1>3, <2>1 DEF KnowsDepths
  <2> QED BY <2>2 DEF d
\* A depth noted for one role.
<1>k. ASSUME NEW r \in Roles, NEW v \in {"adequate", "shallow"}, NEW d,
             c.mode # "skip" => Measured(r, c.index, v) /\ (r = "candidate" => c.mode = "full"),
             d.mode = c.mode, d.index = c.index, d.role \in {c.role, "none"},
             d.baseline = IF r = "baseline" THEN v ELSE c.baseline,
             d.candidate = IF r = "candidate" THEN v ELSE c.candidate
      PROVE  KnowsDepths(d)
  BY <1>k DEF KnowsDepths, Roles
<1>4. ASSUME NEW r \in Roles, NEW v \in {"adequate", "shallow"},
             c.mode # "skip" => Measured(r, c.index, v) /\ (r = "candidate" => c.mode = "full")
      PROVE  KnowsDepths([c EXCEPT ![r] = v]) /\ KnowsDepths([c EXCEPT ![r] = v, !.role = "none"])
  <2>1. CASE r = "baseline"
    <3> DEFINE d == [c EXCEPT !["baseline"] = v]
               e == [c EXCEPT !["baseline"] = v, !.role = "none"]
    <3>1. /\ d.mode = c.mode /\ d.index = c.index /\ d.role = c.role
          /\ d.baseline = v /\ d.candidate = c.candidate
      BY DEF Campaign
    <3>2. /\ e.mode = c.mode /\ e.index = c.index /\ e.role = "none"
          /\ e.baseline = v /\ e.candidate = c.candidate
      BY DEF Campaign
    <3> HIDE DEF d, e
    <3>3. KnowsDepths(d) /\ KnowsDepths(e)
      BY <1>4, <1>k, <2>1, <3>1, <3>2
    <3> QED BY <2>1, <3>3 DEF d, e
  <2>2. CASE r = "candidate"
    <3> DEFINE d == [c EXCEPT !["candidate"] = v]
               e == [c EXCEPT !["candidate"] = v, !.role = "none"]
    <3>1. /\ d.mode = c.mode /\ d.index = c.index /\ d.role = c.role
          /\ d.baseline = c.baseline /\ d.candidate = v
      BY DEF Campaign
    <3>2. /\ e.mode = c.mode /\ e.index = c.index /\ e.role = "none"
          /\ e.baseline = c.baseline /\ e.candidate = v
      BY DEF Campaign
    <3> HIDE DEF d, e
    <3>3. KnowsDepths(d) /\ KnowsDepths(e)
      BY <1>4, <1>k, <2>2, <3>1, <3>2
    <3> QED BY <2>2, <3>3 DEF d, e
  <2> QED BY <2>1, <2>2 DEF Roles
<1>5. ASSUME "shallow" \in {c.baseline, c.candidate}, c.mode # "skip"
      PROVE  KnowsDepths(NextTimeControl(c))
  <2> DEFINE d == NextTimeControl(c)
  <2>1. /\ d.mode = c.mode /\ d.index = c.index + 1 /\ d.role = "none"
        /\ d.baseline = "none" /\ d.candidate = "none" /\ c.index \in Nat \ {0}
    BY DEF NextTimeControl, Campaign
  <2> HIDE DEF d
  <2>2. TooShallow(c.index)
    BY <1>5 DEF KnowsDepths, TooShallow, Required, Roles
  <2>3. \A i \in 1..(d.index - 1) : TooShallow(i)
    <3>1. \A i \in 1..(c.index - 1) : TooShallow(i)
      BY <1>5 DEF KnowsDepths
    <3>2. \A i \in 1..(d.index - 1) : i = c.index \/ i \in 1..(c.index - 1)
      BY <2>1
    <3> QED BY <2>2, <3>1, <3>2
  <2>4. KnowsDepths(d)
    BY <2>1, <2>3 DEF KnowsDepths
  <2> QED BY <2>4 DEF d
<1> QED BY <1>1, <1>2, <1>3, <1>4, <1>5

\* The steps of the service: what it holds, and what it wrote, is known.
LEMMA SvcKnows ==
  ASSUME TypeOK, GateInv, SvcStep \/ Crash
  PROVE  /\ KnowsDepths(camp') /\ KnowsDepths(svc'.mem)
         /\ svc'.pc = "screen" => FirstDeep(svc'.mem.selected)
<1> DEFINE Goal == /\ KnowsDepths(camp') /\ KnowsDepths(svc'.mem)
                   /\ svc'.pc = "screen" => FirstDeep(svc'.mem.selected)
<1>0. /\ camp \in Campaign /\ svc.mem \in Campaign /\ run \in [Matches -> AMatch]
      /\ cache \in [PreScans -> Depths]
      /\ KnowsDepths(camp) /\ KnowsDepths(svc.mem)
  BY DEF TypeOK, SvcTypes, GateInv
<1>s. TerminalStatus \cup {"building", "testing", "sprt_running", "screening_running", "prescan_running"}
        \subseteq Statuses /\ "failed" \in TerminalStatus
  BY DEF Statuses, LateStatus, TerminalStatus
<1>e. ASSUME NEW s \in Statuses,
             camp' = [svc.mem EXCEPT !.status = s] \/ camp' = [camp EXCEPT !.status = s],
             svc'.mem = camp', svc'.pc # "screen"
      PROVE  Goal
  BY <1>0, <1>e, KnowsUpdates
<1>f. Fails => Goal
  <2> SUFFICES ASSUME Fails PROVE Goal
    OBVIOUS
  <2>1. camp' = [svc.mem EXCEPT !.status = "failed"] /\ svc'.mem = camp' /\ svc'.pc = "done"
    BY DEF Fails, Ends, Save, Think
  <2> QED BY <1>e, <1>s, <2>1
<1>k. ASSUME UNCHANGED camp, svc'.pc # "screen", KnowsDepths(svc'.mem)
      PROVE  Goal
  BY <1>0, <1>k
<1> HIDE DEF Goal
<1> SUFFICES Goal
  BY DEF Goal
<1> USE DEF Save, Think, SvcAt, Reads, Ends
<1>1. CASE BeginBuild
  <2>1. /\ camp' = [camp EXCEPT !.status = "building"] /\ svc'.mem = camp' /\ svc'.pc = "build"
    BY <1>1 DEF BeginBuild
  <2> QED BY <1>e, <1>s, <2>1
<1>2. CASE Build
  <2>1. CASE Fails BY <1>f, <2>1
  <2>2. CASE Save([svc.mem EXCEPT !.status = "testing"]) /\ Think("pipeline", camp')
    BY <1>e, <1>s, <2>2
  <2> QED BY <1>2, <2>1, <2>2 DEF Build
<1>3. CASE Pipeline \/ Conclude
  <2>1. UNCHANGED camp /\ svc'.mem = svc.mem /\ svc'.pc # "screen"
    BY <1>3 DEF Pipeline, Conclude
  <2> QED BY <1>0, <1>k, <2>1
<1>4. CASE Stage
  <2>1. UNCHANGED <<camp, svc>> /\ svc.pc = "stages"
    BY <1>4 DEF Stage
  <2> QED BY <1>0, <1>k, <2>1
<1>5. CASE Judge
  <2>1. CASE Tested(exp)
    <3>1. UNCHANGED camp /\ svc'.mem = svc.mem /\ svc'.pc # "screen"
      BY <1>5, <2>1 DEF Judge
    <3> QED BY <1>0, <1>k, <3>1
  <2>2. CASE ~ Tested(exp)
    <3>1. camp' = [svc.mem EXCEPT !.status = "tests_failed"] /\ svc'.mem = camp' /\ svc'.pc = "done"
      BY <1>5, <2>2 DEF Judge
    <3> QED BY <1>e, <1>s, <3>1 DEF TerminalStatus
  <2> QED BY <2>1, <2>2
<1>6. CASE SkipGate
  <2> DEFINE d == [svc.mem EXCEPT !.selected = 1]
  <2>1. UNCHANGED camp /\ svc'.mem = d /\ svc.mem.mode = "skip"
    BY <1>6 DEF SkipGate
  <2>2. d.selected = 1
    BY <1>0 DEF Campaign
  <2>3. KnowsDepths(d)
    BY <1>0, KnowsUpdates
  <2> HIDE DEF d
  <2>4. camp.mode = "skip"
    BY <1>0, <2>1 DEF KnowsDepths
  <2> QED BY <1>0, <2>1, <2>2, <2>3, <2>4 DEF Goal, FirstDeep
<1>7. CASE LookUp
  <2> DEFINE i == svc.mem.index
             depth == cache[<<Wanted, i>>]
  <2>1. UNCHANGED camp /\ svc.mem.mode # "skip" /\ i \in Ladder /\ Wanted # "none"
    BY <1>7 DEF LookUp, GateAt
  <2>2. Wanted \in Roles /\ (Wanted = "candidate" => svc.mem.mode = "full")
    BY <2>1 DEF Wanted, Roles
  <2>3. CASE depth = "none"
    <3>1. svc'.mem = [svc.mem EXCEPT !.role = Wanted] /\ svc'.pc = "prescan"
      BY <1>7, <2>3 DEF LookUp
    <3>2. KnowsDepths([svc.mem EXCEPT !.role = Wanted])
      BY <1>0, <2>2, KnowsUpdates
    <3> QED BY <1>k, <2>1, <3>1, <3>2
  <2>4. CASE depth # "none"
    <3>1. svc'.mem = [svc.mem EXCEPT ![Wanted] = depth] /\ svc'.pc = "gate"
      BY <1>7, <2>4 DEF LookUp
    <3>2. <<Wanted, i>> \in PreScans
      BY <2>1, <2>2 DEF PreScans
    <3>3. depth \in {"adequate", "shallow"} /\ Measured(Wanted, i, depth)
      BY <1>0, <2>4, <3>2 DEF Depths, GateInv, Measured
    <3> HIDE DEF depth
    <3>4. KnowsDepths([svc.mem EXCEPT ![Wanted] = depth])
      BY <1>0, <2>2, <3>3, KnowsUpdates
    <3> QED BY <1>k, <2>1, <3>1, <3>4
  <2> QED BY <2>3, <2>4
<1>8. CASE Decide
  <2>1. /\ UNCHANGED camp /\ svc.mem.mode # "skip" /\ Wanted = "none"
        /\ svc.mem.index \in Ladder
    BY <1>8 DEF Decide, GateAt
  <2>2. CASE "shallow" \in {svc.mem.baseline, svc.mem.candidate}
    <3>1. svc'.mem = NextTimeControl(svc.mem) /\ svc'.pc = "gate"
      BY <1>8, <2>2 DEF Decide
    <3> QED BY <1>0, <1>k, <2>1, <2>2, <3>1, KnowsUpdates
  <2>3. CASE "shallow" \notin {svc.mem.baseline, svc.mem.candidate}
    <3> DEFINE d == [svc.mem EXCEPT !.selected = svc.mem.index]
    <3>1. svc'.mem = d
      BY <1>8, <2>3 DEF Decide
    <3>2. d.selected = svc.mem.index /\ svc.mem.index \in Nat
      BY <1>0 DEF Campaign
    <3>3. KnowsDepths(d)
      BY <1>0, <3>2, KnowsUpdates
    <3> HIDE DEF d
    <3>4. svc.mem.baseline = "adequate"
      BY <1>0, <2>1, <2>3 DEF Wanted, KnowsDepths
    <3>5. svc.mem.mode = "full" => svc.mem.candidate = "adequate"
      BY <1>0, <2>1, <2>3, <3>4 DEF Wanted, KnowsDepths
    <3>6. FirstDeep(svc.mem.index)
      BY <1>0, <2>1, <3>4, <3>5 DEF KnowsDepths, FirstDeep, Required, Roles
    <3> QED BY <1>0, <2>1, <3>1, <3>2, <3>3, <3>6 DEF Goal
  <2> QED BY <2>2, <2>3
<1>9. CASE Exhausted
  <2>1. camp' = [svc.mem EXCEPT !.status = "depth_insufficient"] /\ svc'.mem = camp' /\ svc'.pc = "done"
    BY <1>9 DEF Exhausted
  <2> QED BY <1>e, <1>s, <2>1 DEF TerminalStatus
<1>10. CASE LaunchPreScan \/ LaunchScreening
  <2>1. CASE Fails BY <1>f, <2>1
  <2>2. CASE ~ Fails
    <3>1. PICK s \in {"screening_running", "prescan_running"} :
            svc' = [pc |-> "launched", mem |-> [svc.mem EXCEPT !.status = s]]
      BY <1>10, <2>2 DEF LaunchPreScan, LaunchScreening, Launch
    <3>2. UNCHANGED camp
      BY <1>10, <2>2 DEF LaunchPreScan, LaunchScreening, Launch
    <3> QED BY <1>0, <1>k, <1>s, <3>1, <3>2, KnowsUpdates
  <2> QED BY <2>1, <2>2
<1>11. CASE SaveLaunch
  <2>1. camp' = svc.mem /\ svc'.mem = svc.mem /\ svc'.pc = "read"
    BY <1>11 DEF SaveLaunch
  <2> QED BY <1>0, <2>1 DEF Goal
<1>12. CASE PollPreScan
  <2> DEFINE m == <<camp.role, camp.index>>
  <2>1. camp.status = "prescan_running" /\ camp.role \in Roles /\ m \in PreScans
    BY <1>12 DEF PollPreScan, TypeOK, SvcTypes, PreScanNamed, PreScans
  <2>2. CASE run[m].state = "completed"
    <3> DEFINE r == run[m].result
    <3>0. /\ svc' = [pc |-> "gate", mem |-> [camp EXCEPT ![camp.role] = r, !.role = "none"]]
          /\ UNCHANGED camp
      BY <1>12, <2>2, Zenon DEF PollPreScan
    <3>1. svc'.mem = [camp EXCEPT ![camp.role] = r, !.role = "none"] /\ svc'.pc = "gate"
      BY <3>0
    <3>2. r \in {"adequate", "shallow"} /\ Measured(camp.role, camp.index, r)
      BY <2>1, <2>2 DEF GateInv, Measured
    <3>3. camp.mode # "skip" /\ camp.role = "candidate" => camp.mode = "full"
      BY <1>0 DEF KnowsDepths
    <3> HIDE DEF r
    <3>4. KnowsDepths([camp EXCEPT ![camp.role] = r, !.role = "none"])
      BY <1>0, <2>1, <3>2, <3>3, KnowsUpdates
    <3> QED BY <1>k, <3>0, <3>1, <3>4
  <2>3. CASE run[m].state # "completed"
    <3>1. /\ camp' = [camp EXCEPT !.status = "depth_measurement_invalid"]
          /\ svc' = [pc |-> "done", mem |-> camp']
      BY <1>12, <2>3, Zenon DEF PollPreScan
    <3>2. svc'.mem = camp' /\ svc'.pc = "done"
      BY <3>1
    <3> QED BY <1>e, <1>s, <3>1, <3>2 DEF TerminalStatus
  <2> QED BY <2>2, <2>3
<1>13. CASE PollScreening \/ PollSprt
  <2>1. PICK s \in {"awaiting_decision", "sprt_running"} : camp' = [camp EXCEPT !.status = s]
    BY <1>13 DEF PollScreening, PollSprt
  <2>2. svc'.mem = camp' /\ svc'.pc # "screen"
    BY <1>13 DEF PollScreening, PollSprt
  <2> QED BY <1>e, <1>s, <2>1, <2>2 DEF TerminalStatus
<1>14. CASE Crash
  <2>1. UNCHANGED camp /\ svc'.mem = camp /\ svc'.pc = "read"
    BY <1>14 DEF Crash
  <2> QED BY <1>0, <1>k, <2>1
<1> QED BY <1>1, <1>2, <1>3, <1>4, <1>5, <1>6, <1>7, <1>8, <1>9, <1>10, <1>11, <1>12, <1>13, <1>14
     DEF SvcStep

\* No step forgets what was measured, and the screening is started by what it says.
LEMMA GateStep ==
  ASSUME IInv, [Next]_vars
  PROVE  GateInv'
<1> USE Names
<1>0. /\ TypeOK /\ TestedInv /\ MatchInv /\ LateInv /\ GateInv
      /\ cache \in [PreScans -> Depths]
  BY DEF IInv, TypeOK
\* What has been measured stays measured.
<1>1. /\ measured \subseteq measured'
      /\ \A p \in PreScans : cache'[p] = cache[p] \/ <<p, cache'[p]>> \in measured'
  <2>1. CASE SvcStep \/ Crash BY <1>0, <2>1, SvcFrame
  <2>2. CASE PreScanEnds \/ ScreeningEnds \/ SprtEnds \/ MonitorLost BY <1>0, <2>2, MatchFrame
  <2>3. CASE \E e \in Evaluations : EvStep(e) BY <1>0, <2>3, EvFrame
  <2>4. CASE RetryGiven \/ EvaluationLost \/ RecordDecision \/ UNCHANGED vars
    BY <2>4 DEF RetryGiven, EvaluationLost, RecordDecision, vars
  <2> QED BY <2>1, <2>2, <2>3, <2>4 DEF Next
<1>2. /\ KnowsDepths(camp') /\ KnowsDepths(svc'.mem)
      /\ svc'.pc = "screen" => FirstDeep(svc'.mem.selected)
  <2>1. CASE SvcStep \/ Crash BY <1>0, <2>1, SvcKnows
  <2>2. CASE ~ SvcStep /\ ~ Crash
    <3>1. camp' = camp /\ svc' = svc
      BY <1>0, <2>2, OthersFrame
    <3> QED BY <1>0, <3>1 DEF GateInv
  <2> QED BY <2>1, <2>2
<1>3. camp'.mode = camp.mode
  BY <1>2 DEF KnowsDepths
<1>4. \A i, r, d : Measured(r, i, d) => Measured(r, i, d)'
  BY <1>1 DEF Measured
<1>5. Required' = Required
  BY <1>3 DEF Required
<1>6. \A i : TooShallow(i) => TooShallow(i)'
  BY <1>4, <1>5 DEF TooShallow
<1>7. KnowsDepths(camp)' /\ KnowsDepths(svc.mem)'
  BY <1>2, <1>3, <1>4, <1>6 DEF KnowsDepths
<1>8. \A tc : FirstDeep(tc) => FirstDeep(tc)'
  BY <1>3, <1>4, <1>5, <1>6 DEF FirstDeep
<1>9. \A p \in PreScans : cache'[p] # "none" => <<p, cache'[p]>> \in measured'
  BY <1>0, <1>1 DEF GateInv
<1>10. \A p \in PreScans : run'[p].state = "completed" =>
         run'[p].result \in {"adequate", "shallow"} /\ <<p, run'[p].result>> \in measured'
  BY <1>0, <1>1, MatchStep DEF GateInv
<1>11. run'[Screening] # NoMatch => FirstDeep(run'[Screening].tc)
  <2>1. \/ run[Screening] # NoMatch /\ run'[Screening].tc = run[Screening].tc
        \/ run'[Screening] # NoMatch => svc.pc = "screen" /\ run'[Screening].tc = svc.mem.selected
    BY <1>0, MatchStep
  <2> QED BY <1>0, <2>1 DEF GateInv
<1>12. (svc.pc = "screen" => FirstDeep(svc.mem.selected))'
  BY <1>2, <1>8
<1>13. (run[Screening] # NoMatch => FirstDeep(run[Screening].tc))'
  BY <1>8, <1>11
<1> QED BY <1>7, <1>9, <1>10, <1>12, <1>13 DEF GateInv

-----------------------------------------------------------------------------
(* The theorems.                                                           *)

\* The invariant holds at the beginning,
LEMMA InitInv == Init => IInv
<1> SUFFICES ASSUME Init PROVE IInv
  OBVIOUS
<1> USE Names DEF Init, NoMatch, NoEvaluation, NoExperiment, NoRecord
<1>1. TypeOK
  BY InitType
<1>2. TestedInv /\ MatchInv /\ SaidInv /\ RecordInv
  BY DEF TestedInv, Gated, MatchInv, SaidInv, RecordInv, Busy, Passed
<1>3. LateInv /\ EvalInv
  BY DEF LateInv, EvalInv, LateStatus, TerminalStatus, Busy
<1>4. GateInv
  BY DEF GateInv, KnowsDepths
<1> QED BY <1>1, <1>2, <1>3, <1>4 DEF IInv

\* every step keeps it,
LEMMA Inductive == IInv /\ [Next]_vars => IInv'
<1> SUFFICES ASSUME IInv, [Next]_vars PROVE IInv'
  OBVIOUS
<1>1. TypeOK' /\ MatchInv'
  BY TypeStep, MatchStep DEF IInv
<1> QED BY <1>1, LateStep, EvalStep, EarnedStep, GateStep DEF IInv

\* and so it holds for good.
LEMMA Invariant == Spec => []IInv
  BY InitInv, Inductive, PTL DEF Spec

\* The state of service, files, matches and evaluations has its types whatever dies.
THEOREM Types == Spec => []TypeOK
<1>1. IInv => TypeOK
  BY DEF IInv
<1> QED BY <1>1, Invariant, PTL

\* No SPRT without passed stages, a passed screening and the model's saved answer, and
\* no report of a running one before it was started, whoever died in between.
THEOREM Earned == Spec => []SprtIsEarned
<1>1. IInv => SprtIsEarned
  BY Names DEF IInv, SprtIsEarned, TestedInv, Gated, RecordInv, SaidInv
<1> QED BY <1>1, Invariant, PTL

\* A model is asked only while no answer of it is saved, for any number of retries.
THEOREM AskedOnce == Spec => NotAskedAgain
<1>1. IInv /\ [Next]_vars => [asked' # asked => record.decision = "none"]_vars
  <2> SUFFICES ASSUME IInv, [Next]_vars, asked' # asked PROVE record.decision = "none"
    OBVIOUS
  <2>1. CASE \E e \in Evaluations : EvStep(e)
    BY <2>1, EvLocal DEF EvGoesOn
  <2>2. CASE ~ \E e \in Evaluations : EvStep(e)
    <3>1. SvcStep \/ Crash => UNCHANGED asked
      BY SvcFrame DEF IInv
    <3>2. PreScanEnds \/ ScreeningEnds \/ SprtEnds \/ MonitorLost => UNCHANGED asked
      BY MatchFrame DEF IInv
    <3>3. RetryGiven \/ EvaluationLost \/ RecordDecision \/ UNCHANGED vars => UNCHANGED asked
      BY DEF RetryGiven, EvaluationLost, RecordDecision, vars
    <3> QED BY <2>2, <3>1, <3>2, <3>3 DEF Next
  <2> QED BY <2>1, <2>2
<1> QED BY <1>1, Invariant, PTL DEF Spec, NotAskedAgain

\* The screening is played with the first time control of any ladder that is deep
\* enough, whatever was measured before a death of the service.
THEOREM FirstDeepTimeControl == Spec => []FirstDeepEnough
<1>1. IInv => FirstDeepEnough
  BY DEF IInv, GateInv, FirstDeepEnough, FirstDeep, Measured, TooShallow
<1> QED BY <1>1, Invariant, PTL

\* The campaign does not call for a decision while the monitor of its screening or of
\* its SPRT plays or evaluates.
THEOREM DecidesQuietly == Spec => DecidesWhenQuiet
<1>1. IInv /\ [Next]_vars =>
        [camp.status # "awaiting_decision" /\ camp'.status = "awaiting_decision"
           => ~ run[Screening].alive /\ ~ run[Sprt].alive]_vars
  <2> SUFFICES ASSUME IInv, [Next]_vars, camp.status # "awaiting_decision",
                      camp'.status = "awaiting_decision"
               PROVE  ~ run[Screening].alive /\ ~ run[Sprt].alive
    OBVIOUS
  <2>1. \/ Over(Screening) /\ run[Sprt] = NoMatch
        \/ camp.status = "sprt_running" /\ Over(Sprt)
    BY SvcCampaign, OthersFrame DEF IInv, SvcGoesOn
  <2> QED BY <2>1 DEF IInv, LateInv, Over, NoMatch
<1> QED BY <1>1, Invariant, PTL DEF Spec, DecidesWhenQuiet

=============================================================================
