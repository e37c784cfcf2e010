--------------------------- MODULE CampaignProofs ---------------------------
(***************************************************************************)
(* Proofs about CampaignScheduler, for any number of blocks, schedulers    *)
(* and commands: types, what the games table and the checkpoint say, the   *)
(* quiet after a pause, that no match is left behind and no campaign owned *)
(* by nobody, and that the rows are a queue.                               *)
(***************************************************************************)
EXTENDS CampaignScheduler, SequenceTheorems, TLAPS

(* What a command has still to do: it does not end with reading the status *)
(* or the rows or with the signals, a move follows the status, only a run  *)
(* owns the campaign; a pause and a stop end with the recovery, a run with *)
(* the release of the campaign.                                            *)
Rest(name, todo) ==
  /\ todo \in Seq(Steps) /\ todo # <<>>
  /\ \A i \in DOMAIN todo : todo[i] \in {"read", "list", "terminate"} => i < Len(todo)
  /\ \A i \in DOMAIN todo : todo[i] = "read" => todo[i + 1] = "move"
  /\ \A i \in DOMAIN todo : todo[i] = "own" => name = "run"
  /\ name \in {"pause", "stop"} => todo[Len(todo)] = "recover"
  /\ name = "run" => todo[Len(todo)] = "release"

Names == {"pause", "stop", "resume", "run"}

CommandOK ==
  \/ command = NoCommand
  \/ command \in [name : Names, todo : Seq(Steps), targets : SUBSET (Blocks \X Nat)]
     /\ Rest(command.name, command.todo)

LEMMA ProgramFacts ==
  /\ DOMAIN Program = Names
  /\ \A n \in Names : Rest(n, Program[n])
<1>1. DOMAIN Program = Names
  BY DEF Program, Names
<1>2. ASSUME NEW n \in Names
      PROVE  Rest(n, Program[n])
  <2>1. CASE n = "pause" BY <2>1 DEF Program, Steps, Rest
  <2>2. CASE n = "stop" BY <2>2 DEF Program, Steps, Rest
  <2>3. CASE n = "resume" BY <2>3 DEF Program, Steps, Rest
  <2>4. CASE n = "run" BY <2>4 DEF Program, Steps, Rest
  <2> QED BY <1>2, <2>1, <2>2, <2>3, <2>4 DEF Names
<1> QED BY <1>1, <1>2

\* One step less, or two if the status is read.
LEMMA LessToDo ==
  ASSUME NEW name, NEW todo, Rest(name, todo)
  PROVE  /\ Tail(todo) # <<>> => Rest(name, Tail(todo))
         /\ Head(todo) \in {"read", "list", "terminate"} => Tail(todo) # <<>>
         /\ Head(todo) \in Steps
         /\ Head(todo) = "own" => name = "run"
         /\ Head(todo) = "read" => Head(Tail(todo)) = "move"
         /\ Tail(todo) = <<>> =>
              /\ Head(todo) \notin {"read", "list", "terminate"}
              /\ name \in {"pause", "stop"} => Head(todo) = "recover"
              /\ name = "run" => Head(todo) = "release"
<1>1. /\ todo \in Seq(Steps) /\ todo # <<>> /\ Len(todo) \in Nat \ {0}
      /\ Tail(todo) \in Seq(Steps) /\ Len(Tail(todo)) = Len(todo) - 1
      /\ \A i \in DOMAIN Tail(todo) : i + 1 \in DOMAIN todo /\ Tail(todo)[i] = todo[i + 1]
      /\ Head(todo) = todo[1] /\ 1 \in DOMAIN todo /\ Head(todo) \in Steps
      /\ DOMAIN Tail(todo) = 1..Len(Tail(todo))
  BY DEF Rest
<1>2. ASSUME Tail(todo) # <<>>
      PROVE  Rest(name, Tail(todo))
  <2>1. Len(Tail(todo)) \in DOMAIN Tail(todo) /\ Len(Tail(todo)) + 1 = Len(todo)
    BY <1>1, <1>2
  <2>2. Tail(todo)[Len(Tail(todo))] = todo[Len(todo)]
    BY <1>1, <2>1
  <2>3. \A i \in DOMAIN Tail(todo) : Tail(todo)[i] \in {"read", "list", "terminate"} => i < Len(Tail(todo))
    BY <1>1 DEF Rest
  <2>4. \A i \in DOMAIN Tail(todo) : Tail(todo)[i] = "read" => Tail(todo)[i + 1] = "move"
    BY <1>1, <2>3 DEF Rest
  <2>5. \A i \in DOMAIN Tail(todo) : Tail(todo)[i] = "own" => name = "run"
    BY <1>1 DEF Rest
  <2> QED BY <1>1, <1>2, <2>2, <2>3, <2>4, <2>5 DEF Rest
<1>3. ASSUME Tail(todo) = <<>>
      PROVE  Len(todo) = 1
  <2>1. Len(Tail(todo)) = 0
    BY <1>1, <1>3, EmptySeq
  <2>2. Len(todo) \in Nat /\ Len(Tail(todo)) = Len(todo) - 1
    BY <1>1
  <2> QED BY <2>1, <2>2
<1>4. Head(todo) \in {"read", "list", "terminate"} => Tail(todo) # <<>>
  BY <1>1, <1>3 DEF Rest
<1>5. Tail(todo) = <<>> => todo[Len(todo)] = Head(todo)
  BY <1>1, <1>3
<1>6. /\ name \in {"pause", "stop"} => todo[Len(todo)] = "recover"
      /\ name = "run" => todo[Len(todo)] = "release"
  BY DEF Rest
<1>7. Head(todo) = "own" => name = "run"
  BY <1>1 DEF Rest
<1>8. Head(todo) = "read" => Head(Tail(todo)) = "move"
  <2>1. Head(todo) = "read" => 1 \in DOMAIN Tail(todo) /\ todo[2] = "move"
    BY <1>1 DEF Rest
  <2>2. 1 \in DOMAIN Tail(todo) => Head(Tail(todo)) = Tail(todo)[1] /\ Tail(todo)[1] = todo[2]
    BY <1>1
  <2> QED BY <2>1, <2>2
<1> QED BY <1>1, <1>2, <1>4, <1>5, <1>6, <1>7, <1>8

-----------------------------------------------------------------------------
(* Types.                                                                  *)

StoreType ==
  /\ campaign \in States /\ trial \in States
  /\ owner \in SUBSET (Schedulers \cup {Control})
  /\ rows \in [Blocks -> Row] /\ games \in [Blocks -> Nat]
  /\ checkpoint \in [next : Nat, attempt : Nat]

SchedType ==
  /\ sched \in [Schedulers -> [pc : PCs, block : Nat, attempt : Nat]]
  /\ \A s \in Schedulers : IF sched[s].pc \in WithBlock THEN sched[s].block \in Blocks
                           ELSE Match(s) = <<0, 0>>

MatchType ==
  /\ exit \in [Schedulers -> {"none", "ok", "failed"}]
  /\ playing \in SUBSET (Blocks \X Nat) /\ orphans \in SUBSET (Blocks \X Nat)

RestType ==
  /\ starts \in Nat /\ commands \in Nat
  /\ killed \in SUBSET (Schedulers \cup {Control}) /\ quiet \in BOOLEAN

TypeInv == StoreType /\ SchedType /\ MatchType /\ RestType /\ CommandOK

LEMMA TypeInvTypes == TypeInv => TypeOK
<1> SUFFICES ASSUME TypeInv PROVE TypeOK
  OBVIOUS
<1>1. command \in [name : DOMAIN Program \cup {"none"}, todo : Seq(Steps),
                   targets : SUBSET (Blocks \X Nat)]
  <2>1. CASE command = NoCommand
    BY <2>1, EmptySeq DEF NoCommand
  <2>2. CASE command # NoCommand
    BY <2>2, ProgramFacts DEF TypeInv, CommandOK
  <2> QED BY <2>1, <2>2
<1> QED BY <1>1 DEF TypeInv, StoreType, SchedType, MatchType, RestType, TypeOK

\* The transactions, whoever calls them.
StoreStep ==
  \/ \E status \in States : /\ TransitionCampaign(status)
                             /\ (CommandMove \/ \E s \in Schedulers : Begin(s))
  \/ \E o \in Schedulers \cup {Control} : ClaimCampaign(o) \/ ReleaseCampaign(o)
  \/ RunTrial
  \/ \E s \in Schedulers : Claim(s)
  \/ \E b \in Blocks : InterruptBlock(b)
  \/ \E b \in Blocks, n \in Nat : SetProcess(b, n)
  \/ \E s \in Schedulers : At(s, "commit") /\ CompleteBlock(sched[s].block, sched[s].attempt)
  \/ RecoverJobs
  \/ FinishWork
  \/ UNCHANGED store

LEMMA StoreSteps ==
  ASSUME SchedType, CommandOK, [Next]_vars
  PROVE  StoreStep
<1>1. \A name \in Names : Target[name] \in States
  BY DEF Names, Target, States
<1>2. ASSUME NEW s \in Schedulers, Work(s)
      PROVE  StoreStep
  <2>1. s \in Schedulers \cup {Control} /\ sched[s].attempt \in Nat /\ "running" \in States
    BY DEF SchedType, States
  <2>2. sched[s].pc \in WithBlock => sched[s].block \in Blocks
    BY DEF SchedType
  <2>3. CASE Recover(s) \/ Own(s) \/ Enter(s) \/ Loop(s)
    BY <2>1, <2>3 DEF Recover, Own, Enter, Loop, StoreStep
  <2>9. CASE Begin(s)
    <3>1. TransitionCampaign("running")
      BY <2>9 DEF Begin
    <3> QED BY <2>1, <2>9, <3>1 DEF StoreStep
  <2>4. CASE Claim(s) \/ ClaimNothing(s) \/ WrapUp(s) \/ EnsureTrial(s) \/ Spawn(s)
    BY <2>4 DEF ClaimNothing, WrapUp, EnsureTrial, Spawn, StoreStep
  <2>5. CASE Attach(s)
    BY <2>1, <2>2, <2>5 DEF Attach, StoreStep, At, WithBlock
  <2>6. CASE AttachRefused(s) \/ PollControl(s) \/ PollExit(s) \/ Kill(s) \/ Abort(s)
    BY <2>6 DEF AttachRefused, PollControl, PollExit, Kill, Abort, StoreStep
  <2>7. CASE Commit(s) \/ CommitRefused(s) \/ Finish(s) \/ Decide(s) \/ Release(s)
    BY <2>1, <2>7 DEF Commit, CommitRefused, Finish, Decide, Release, StoreStep
  <2>8. CASE Drop(s) \/ Dead(s)
    BY <2>1, <2>2, <2>8 DEF Drop, Dead, StoreStep, At, WithBlock
  <2> QED BY <1>2, <2>3, <2>4, <2>5, <2>6, <2>7, <2>8, <2>9 DEF Work
<1>3. ASSUME NEW s \in Schedulers, Start(s) \/ Interrupt(s) \/ Crash(s)
      PROVE  StoreStep
  BY <1>3 DEF Start, Interrupt, Crash, StoreStep
<1>4. CASE MatchEnds \/ CommandCrash \/ \E name \in DOMAIN Program : Give(name)
  BY <1>4 DEF MatchEnds, CommandCrash, Give, StoreStep
<1>5. CASE CommandRead \/ CommandRefused \/ CommandList \/ CommandTerminate
  BY <1>5 DEF CommandRead, CommandRefused, CommandList, CommandTerminate, StoreStep
<1>6. CASE CommandMove
  <2>1. TransitionCampaign(Target[command.name]) /\ command.name \in Names
    BY <1>6 DEF CommandMove, Doing, CommandOK, NoCommand
  <2> QED BY <1>1, <1>6, <2>1 DEF StoreStep
<1>7. CASE CommandRecover \/ CommandOwn \/ CommandRelease
  BY <1>7 DEF CommandRecover, CommandOwn, CommandRelease, StoreStep
<1>8. CASE UNCHANGED vars
  BY <1>8 DEF vars, StoreStep
<1> QED
  BY <1>2, <1>3, <1>4, <1>5, <1>6, <1>7, <1>8 DEF Next, CommandStep

LEMMA StoreTyped ==
  ASSUME StoreType, SchedType, StoreStep
  PROVE  StoreType'
<1> USE DEF StoreType
<1>1. CASE \E status \in States : TransitionCampaign(status)
  BY <1>1 DEF TransitionCampaign
<1>2. CASE \E o \in Schedulers \cup {Control} : ClaimCampaign(o) \/ ReleaseCampaign(o)
  BY <1>2 DEF ClaimCampaign, ReleaseCampaign
<1>3. CASE RunTrial
  BY <1>3 DEF RunTrial, States
<1>4. ASSUME NEW s \in Schedulers, Claim(s)
      PROVE  StoreType'
  <2> PICK b \in Blocks : ClaimBlock(b)
    BY <1>4 DEF Claim
  <2>1. rows[b] \in Row /\ rows[b].attempt + 1 \in Nat
    BY DEF Row
  <2>2. [status |-> "running", attempt |-> rows[b].attempt + 1, group |-> 0, result |-> 0] \in Row
    BY <2>1 DEF Row, States
  <2> QED BY <2>2 DEF ClaimBlock
<1>5. CASE \E b \in Blocks : InterruptBlock(b)
  BY <1>5 DEF InterruptBlock, Interrupted, Row, States
<1>6. ASSUME NEW b \in Blocks, NEW n \in Nat, SetProcess(b, n)
      PROVE  StoreType'
  <2>1. rows[b] \in Row
    OBVIOUS
  <2>2. [rows[b] EXCEPT !.group = n] \in Row
    BY <2>1 DEF Row
  <2> QED BY <1>6, <2>2 DEF SetProcess
<1>7. ASSUME NEW s \in Schedulers, At(s, "commit"), CompleteBlock(sched[s].block, sched[s].attempt)
      PROVE  StoreType'
  <2>1. sched[s].block \in Blocks /\ sched[s].attempt \in Nat
    BY <1>7 DEF SchedType, At, WithBlock
  <2>2. PICK b \in Blocks, n \in Nat : CompleteBlock(b, n)
    BY <1>7, <2>1
  <2>3. rows[b] \in Row /\ rows[b].attempt \in Nat /\ b + 1 \in Nat /\ games[b] + 1 \in Nat
    BY StoreAssumption DEF Row, Blocks
  <2>4. [status |-> "completed", attempt |-> rows[b].attempt, group |-> 0, result |-> n] \in Row
    BY <2>3 DEF Row, States
  <2>5. rows' \in [Blocks -> Row] /\ games' \in [Blocks -> Nat]
    BY <2>2, <2>3, <2>4 DEF CompleteBlock
  <2> QED BY <2>2, <2>3, <2>5 DEF CompleteBlock
<1>8. CASE RecoverJobs
  BY <1>8 DEF RecoverJobs, Interrupted, Row, States
<1>9. CASE FinishWork
  BY <1>9 DEF FinishWork, States
<1>10. CASE UNCHANGED store
  BY <1>10 DEF store
<1> QED
  BY <1>1, <1>2, <1>3, <1>4, <1>5, <1>6, <1>7, <1>8, <1>9, <1>10 DEF StoreStep
LEMMA GotoFacts ==
  ASSUME SchedType, NEW s \in Schedulers, NEW pc \in PCs, Goto(s, pc)
  PROVE  /\ sched' \in [Schedulers -> [pc : PCs, block : Nat, attempt : Nat]]
         /\ sched'[s].pc = pc /\ sched'[s].block = sched[s].block
         /\ sched'[s].attempt = sched[s].attempt
         /\ \A t \in Schedulers \ {s} : sched'[t] = sched[t]
BY DEF SchedType, Goto

LEMMA LeaveFacts ==
  ASSUME SchedType, NEW s \in Schedulers, NEW pc \in PCs, Leave(s, pc)
  PROVE  /\ sched' \in [Schedulers -> [pc : PCs, block : Nat, attempt : Nat]]
         /\ sched'[s].pc = pc /\ sched'[s].block = 0 /\ sched'[s].attempt = 0
         /\ \A t \in Schedulers \ {s} : sched'[t] = sched[t]
BY DEF SchedType, Leave, Idle

\* A scheduler goes on, with its block or without, or leaves it, or claims one.
Moves(s, pc) ==
  /\ Goto(s, pc)
  /\ ~At(s, "off") \/ Unlocked
  /\ pc \in WithBlock <=> sched[s].pc \in WithBlock

SchedStep ==
  \/ UNCHANGED sched
  \/ \E s \in Schedulers, pc \in PCs : Moves(s, pc)
  \/ \E s \in Schedulers, pc \in PCs \ WithBlock : ~At(s, "off") /\ Leave(s, pc)
  \/ \E s \in Schedulers : Claim(s)

LEMMA Places ==
  /\ WithBlock \subseteq PCs
  /\ "trial" \in WithBlock /\ "spawn" \in WithBlock /\ "attach" \in WithBlock /\ "poll" \in WithBlock
  /\ "kill" \in WithBlock /\ "drop" \in WithBlock /\ "abort" \in WithBlock /\ "commit" \in WithBlock
  /\ "finish" \in WithBlock /\ "dead" \in WithBlock
  /\ "off" \in PCs /\ "recover" \in PCs /\ "own" \in PCs /\ "enter" \in PCs
  /\ "begin" \in PCs /\ "loop" \in PCs /\ "claim" \in PCs /\ "wrap up" \in PCs
  /\ "decide" \in PCs /\ "release" \in PCs
  /\ "off" \notin WithBlock /\ "recover" \notin WithBlock /\ "own" \notin WithBlock /\ "enter" \notin WithBlock
  /\ "begin" \notin WithBlock /\ "loop" \notin WithBlock /\ "claim" \notin WithBlock /\ "wrap up" \notin WithBlock
  /\ "decide" \notin WithBlock /\ "release" \notin WithBlock
BY DEF PCs, WithBlock

LEMMA SchedSteps ==
  ASSUME [Next]_vars
  PROVE  SchedStep
<1> USE Places DEF SchedStep, Moves, At
<1>1. ASSUME NEW s \in Schedulers, Start(s)
      PROVE  SchedStep
  BY <1>1 DEF Start, Unlocked
<1>2. ASSUME NEW s \in Schedulers, Recover(s) \/ Own(s) \/ Begin(s) \/ WrapUp(s) \/ Release(s)
      PROVE  SchedStep
  BY <1>2 DEF Recover, Own, Begin, WrapUp, Release
<1>3. ASSUME NEW s \in Schedulers, Enter(s)
      PROVE  SchedStep
  BY <1>3 DEF Enter
<1>4. ASSUME NEW s \in Schedulers, Loop(s)
      PROVE  SchedStep
  BY <1>4 DEF Loop
<1>5. ASSUME NEW s \in Schedulers, ClaimNothing(s) \/ Decide(s)
      PROVE  SchedStep
  BY <1>5 DEF ClaimNothing, Decide
<1>6. ASSUME NEW s \in Schedulers, EnsureTrial(s) \/ Attach(s) \/ AttachRefused(s) \/ PollControl(s)
      PROVE  SchedStep
  BY <1>6 DEF EnsureTrial, Attach, AttachRefused, PollControl
<1>7. ASSUME NEW s \in Schedulers, Spawn(s)
      PROVE  SchedStep
  BY <1>7 DEF Spawn
<1>8. ASSUME NEW s \in Schedulers, PollExit(s)
      PROVE  SchedStep
  BY <1>8 DEF PollExit
<1>9. ASSUME NEW s \in Schedulers, Kill(s) \/ Abort(s) \/ Commit(s) \/ CommitRefused(s)
      PROVE  SchedStep
  BY <1>9 DEF Kill, Abort, Commit, CommitRefused
<1>10. ASSUME NEW s \in Schedulers,
              Finish(s) \/ Drop(s) \/ Dead(s) \/ Interrupt(s) \/ Crash(s)
       PROVE  SchedStep
  BY <1>10 DEF Finish, Drop, Dead, Interrupt, Crash
<1>11. CASE MatchEnds \/ CommandTerminate
  BY <1>11 DEF MatchEnds, CommandTerminate
<1>12. CASE CommandRead \/ CommandMove \/ CommandRefused \/ CommandList
  BY <1>12 DEF CommandRead, CommandMove, CommandRefused, CommandList, procs
<1>13. CASE \/ CommandRecover \/ CommandOwn \/ CommandRelease \/ CommandCrash
            \/ \E name \in DOMAIN Program : Give(name)
  BY <1>13 DEF CommandRecover, CommandOwn, CommandRelease, CommandCrash, Give, procs
<1>14. CASE UNCHANGED vars
  BY <1>14 DEF vars, procs
<1>15. ASSUME NEW s \in Schedulers, Claim(s)
       PROVE  SchedStep
  BY <1>15
<1> QED
  BY <1>1, <1>2, <1>3, <1>4, <1>5, <1>6, <1>7, <1>8, <1>9, <1>10, <1>11, <1>12, <1>13, <1>14,
     <1>15 DEF Next, Work, CommandStep

LEMMA SchedTyped ==
  ASSUME StoreType, SchedType, SchedStep
  PROVE  SchedType'
<1>1. CASE UNCHANGED sched
  BY <1>1 DEF SchedType, Match
<1>2. ASSUME NEW s \in Schedulers, NEW pc \in PCs, Moves(s, pc)
      PROVE  SchedType'
  BY <1>2, GotoFacts DEF SchedType, Moves, Match
<1>3. ASSUME NEW s \in Schedulers, NEW pc \in PCs \ WithBlock, Leave(s, pc)
      PROVE  SchedType'
  BY <1>3, LeaveFacts DEF SchedType, Match
<1>4. ASSUME NEW s \in Schedulers, Claim(s)
      PROVE  SchedType'
  <2>1. PICK b \in Blocks : sched' = [sched EXCEPT ![s] = [pc |-> "trial", block |-> b,
                                                          attempt |-> rows[b].attempt + 1]]
    BY <1>4 DEF Claim
  <2>2. b \in Nat /\ rows[b].attempt + 1 \in Nat /\ "trial" \in PCs /\ "trial" \in WithBlock
    BY StoreAssumption DEF StoreType, Row, Blocks, PCs, WithBlock
  <2> QED BY <2>1, <2>2 DEF SchedType, Match
<1> QED BY <1>1, <1>2, <1>3, <1>4 DEF SchedStep
LEMMA MatchTyped ==
  ASSUME StoreType, SchedType, MatchType, CommandOK, [Next]_vars
  PROVE  MatchType'
<1> USE DEF MatchType
<1>1. ASSUME NEW s \in Schedulers, Spawn(s)
      PROVE  MatchType'
  <2>1. Match(s) \in Blocks \X Nat
    BY <1>1, Places DEF Spawn, At, SchedType, Match
  <2> QED BY <1>1, <2>1 DEF Spawn, history
<1>2. ASSUME NEW matches, Terminate(matches), UNCHANGED orphans
      PROVE  MatchType'
  BY <1>2 DEF Terminate
<1>3. ASSUME NEW s \in Schedulers, Kill(s) \/ Abort(s)
      PROVE  MatchType'
  BY <1>2, <1>3 DEF Kill, Abort, AbortMatch, history
<1>4. ASSUME NEW s \in Schedulers, Finish(s) \/ Drop(s) \/ Dead(s)
      PROVE  MatchType'
  BY <1>4 DEF Finish, Drop, Dead, Leave, history
<1>5. ASSUME NEW s \in Schedulers, Interrupt(s) \/ Crash(s)
      PROVE  MatchType'
  BY <1>5 DEF Interrupt, Crash, Leave, history
<1>6. CASE MatchEnds
  BY <1>6 DEF MatchEnds, history
<1>7. CASE CommandTerminate
  BY <1>2, <1>7 DEF CommandTerminate, history
<1>8. ASSUME NEW s \in Schedulers,
             \/ Start(s) \/ Recover(s) \/ Own(s) \/ Enter(s) \/ Begin(s) \/ Loop(s) \/ Claim(s)
             \/ ClaimNothing(s) \/ WrapUp(s) \/ EnsureTrial(s) \/ Attach(s) \/ AttachRefused(s)
      PROVE  MatchType'
  BY <1>8 DEF Start, Recover, Own, Enter, Begin, Loop, Claim, ClaimNothing, WrapUp, EnsureTrial,
              Attach, AttachRefused, history
<1>9. ASSUME NEW s \in Schedulers,
             PollControl(s) \/ PollExit(s) \/ Commit(s) \/ CommitRefused(s) \/ Decide(s) \/ Release(s)
      PROVE  MatchType'
  BY <1>9 DEF PollControl, PollExit, Commit, CommitRefused, Decide, Release, history
<1>10. CASE CommandRead \/ CommandMove \/ CommandRefused \/ CommandList
  BY <1>10 DEF CommandRead, CommandMove, CommandRefused, CommandList, procs, history
<1>11. CASE \/ CommandRecover \/ CommandOwn \/ CommandRelease \/ CommandCrash
            \/ \E name \in DOMAIN Program : Give(name)
  BY <1>11 DEF CommandRecover, CommandOwn, CommandRelease, CommandCrash, Give, procs, history
<1>12. CASE UNCHANGED vars
  BY <1>12 DEF vars, procs, history
<1> QED
  BY <1>1, <1>3, <1>4, <1>5, <1>6, <1>7, <1>8, <1>9, <1>10, <1>11, <1>12 DEF Next, Work, CommandStep

LEMMA CommandTyped ==
  ASSUME StoreType, CommandOK, [Next]_vars
  PROVE  CommandOK'
<1> DEFINE Typed(c) == c \in [name : Names, todo : Seq(Steps), targets : SUBSET (Blocks \X Nat)]
<1>1. ASSUME command.todo # <<>>
      PROVE  /\ Typed(command) /\ Rest(command.name, command.todo)
             /\ Tail(command.todo) # <<>> => Rest(command.name, Tail(command.todo))
             /\ Head(command.todo) \in {"read", "list", "terminate"} => Tail(command.todo) # <<>>
  <2>1. command # NoCommand
    BY <1>1 DEF NoCommand
  <2>2. Typed(command) /\ Rest(command.name, command.todo)
    BY <2>1 DEF CommandOK
  <2> QED BY <2>2, LessToDo
<1>2. ASSUME NEW todo, Then(todo), command.todo # <<>>,
             todo # <<>> => Rest(command.name, todo)
      PROVE  CommandOK'
  <2>1. CASE todo = <<>>
    BY <1>2, <2>1 DEF Then, CommandOK
  <2>2. CASE todo # <<>>
    <3>1. command' = [command EXCEPT !.todo = todo] /\ todo \in Seq(Steps)
      BY <1>2, <2>2 DEF Then, Rest
    <3>2. Typed(command') /\ command'.name = command.name /\ command'.todo = todo
      BY <1>1, <1>2, <3>1
    <3> QED BY <1>2, <2>2, <3>2 DEF CommandOK
  <2> QED BY <2>1, <2>2
<1>3. ASSUME NEW name \in DOMAIN Program, Give(name)
      PROVE  CommandOK'
  <2>1. name \in Names /\ Rest(name, Program[name])
    BY ProgramFacts
  <2>2. command' = [name |-> name, todo |-> Program[name], targets |-> {}]
    BY <1>3 DEF Give
  <2>3. Program[name] \in Seq(Steps)
    BY <2>1 DEF Rest
  <2> QED BY <2>1, <2>2, <2>3 DEF CommandOK
<1>4. CASE CommandRead
  <2>1. command.todo # <<>> /\ Head(command.todo) = "read"
    BY <1>4 DEF CommandRead, Doing
  <2>2. Tail(command.todo) # <<>> /\ Rest(command.name, Tail(command.todo))
    BY <1>1, <2>1
  <2>3. Tail(Tail(command.todo)) # <<>> => Rest(command.name, Tail(Tail(command.todo)))
    BY <2>2, LessToDo
  <2> QED BY <1>2, <1>4, <2>1, <2>2, <2>3 DEF CommandRead
<1>5. CASE command.todo # <<>> /\ Done
  BY <1>1, <1>2, <1>5 DEF Done
<1>6. CASE CommandMove \/ CommandRecover \/ CommandOwn \/ CommandRelease
  BY <1>5, <1>6 DEF CommandMove, CommandRecover, CommandOwn, CommandRelease, Doing
<1>7. CASE CommandRefused
  BY <1>1, <1>2, <1>7 DEF CommandRefused, Doing
<1>8. CASE CommandCrash
  BY <1>2, <1>8 DEF CommandCrash
<1>9. ASSUME NEW targets \in SUBSET (Blocks \X Nat),
             command.todo # <<>>, Head(command.todo) \in {"list", "terminate"},
             command' = [name |-> command.name, todo |-> Tail(command.todo), targets |-> targets]
      PROVE  CommandOK'
  <2>1. Rest(command.name, Tail(command.todo)) /\ command.name \in Names
    BY <1>1, <1>9
  <2>2. Tail(command.todo) \in Seq(Steps)
    BY <2>1 DEF Rest
  <2> QED BY <1>9, <2>1, <2>2 DEF CommandOK
<1>10. CASE CommandList
  <2>1. {<<b, rows[b].group>> : b \in {c \in Running : rows[c].group # 0}} \in SUBSET (Blocks \X Nat)
    BY DEF StoreType, Row, Running
  <2> QED BY <1>9, <1>10, <2>1 DEF CommandList, Doing
<1>11. CASE CommandTerminate
  BY <1>9, <1>11 DEF CommandTerminate, Doing
<1>12. CASE command' = command
  BY <1>12 DEF CommandOK
<1>13. ASSUME NEW s \in Schedulers, Start(s) \/ Work(s) \/ Interrupt(s) \/ Crash(s)
       PROVE  command' = command
  BY <1>13 DEF Start, Work, Interrupt, Crash, Recover, Own, Enter, Begin, Loop, Claim, ClaimNothing,
               WrapUp, EnsureTrial, Spawn, Attach, AttachRefused, PollControl, PollExit, Kill,
               Abort, Commit, CommitRefused, Finish, Drop, Dead, Decide, Release
<1>14. CASE MatchEnds \/ UNCHANGED vars
  BY <1>12, <1>14 DEF MatchEnds, vars
<1> QED
  BY <1>3, <1>4, <1>6, <1>7, <1>8, <1>10, <1>11, <1>12, <1>13, <1>14 DEF Next, CommandStep

LEMMA RestTyped ==
  ASSUME StoreType, SchedType, CommandOK, RestType, [Next]_vars
  PROVE  RestType'
<1> USE DEF RestType, StoreType
<1>1. ASSUME NEW s \in Schedulers, Start(s)
      PROVE  RestType'
  BY <1>1, BoundsAssumption DEF Start, Schedulers, history
<1>2. ASSUME NEW s \in Schedulers, Crash(s) \/ Own(s) \/ Begin(s)
      PROVE  RestType'
  BY <1>2 DEF Crash, Own, Begin
<1>3. ASSUME NEW s \in Schedulers, Interrupt(s) \/ (Work(s) /\ ~Own(s) /\ ~Begin(s))
      PROVE  RestType'
  BY <1>3 DEF Interrupt, Work, Recover, Enter, Loop, Claim, ClaimNothing, history,
              WrapUp, EnsureTrial, Spawn, Attach, AttachRefused, PollControl, PollExit, Kill,
              Abort, Commit, CommitRefused, Finish, Drop, Dead, Decide, Release
<1>4. CASE CommandMove \/ CommandRecover
  BY <1>4 DEF CommandMove, CommandRecover, Settles
<1>5. CASE CommandOwn \/ CommandCrash
  BY <1>5 DEF CommandOwn, CommandCrash
<1>6. CASE CommandRead \/ CommandRefused \/ CommandList \/ CommandTerminate \/ CommandRelease
  BY <1>6 DEF CommandRead, CommandRefused, CommandList, CommandTerminate, CommandRelease, history
<1>7. CASE MatchEnds \/ UNCHANGED vars \/ \E name \in DOMAIN Program : Give(name)
  BY <1>7 DEF MatchEnds, Give, vars, history
<1> QED BY <1>1, <1>2, <1>3, <1>4, <1>5, <1>6, <1>7 DEF Next, CommandStep

-----------------------------------------------------------------------------
(* The queue of blocks.                                                    *)

OneScheduler == \A s, t \in Schedulers : ~At(s, "off") /\ ~At(t, "off") => s = t

\* A scheduler's attempt is the last one of its block.
HoldsAttempt ==
  \A s \in Schedulers : sched[s].pc \in WithBlock =>
                          sched[s].attempt = rows[sched[s].block].attempt

Statuses ==
  \A b \in Blocks : rows[b].status \in {"pending", "running", "interrupted", "completed"}

\* The block that is running is the one the checkpoint names.
InOrder == checkpoint.next > 0 /\ \A b \in Running : b = checkpoint.next

QueueInv == Statuses /\ ResultsCounted /\ InOrder

LEMMA SchedulersAlone ==
  ASSUME SchedType, OneScheduler, SchedStep
  PROVE  OneScheduler'
<1>1. CASE UNCHANGED sched
  BY <1>1 DEF OneScheduler, At
<1>2. ASSUME NEW s \in Schedulers, NEW pc \in PCs, Moves(s, pc)
      PROVE  OneScheduler'
  BY <1>2, GotoFacts DEF OneScheduler, Moves, At, Unlocked
<1>3. ASSUME NEW s \in Schedulers, NEW pc \in PCs \ WithBlock, ~At(s, "off"), Leave(s, pc)
      PROVE  OneScheduler'
  BY <1>3, LeaveFacts DEF OneScheduler, At
<1>4. ASSUME NEW s \in Schedulers, Claim(s)
      PROVE  OneScheduler'
  BY <1>4 DEF Claim, OneScheduler, At, SchedType
<1> QED BY <1>1, <1>2, <1>3, <1>4 DEF SchedStep

\* Nothing but a claim changes the attempt of a row.
LEMMA AttemptsKept ==
  ASSUME StoreType, SchedType, StoreStep, ~ \E s \in Schedulers : Claim(s)
  PROVE  \A b \in Blocks : rows'[b].attempt = rows[b].attempt
<1> USE DEF StoreType
<1>1. CASE UNCHANGED rows
  BY <1>1
<1>2. CASE RecoverJobs \/ \E b \in Blocks : InterruptBlock(b)
  BY <1>2 DEF RecoverJobs, InterruptBlock, Interrupted
<1>3. ASSUME NEW b \in Blocks, NEW n \in Nat, SetProcess(b, n)
      PROVE  \A c \in Blocks : rows'[c].attempt = rows[c].attempt
  BY <1>3 DEF SetProcess, Row
<1>4. ASSUME NEW s \in Schedulers, CompleteBlock(sched[s].block, sched[s].attempt)
      PROVE  \A c \in Blocks : rows'[c].attempt = rows[c].attempt
  BY <1>4 DEF CompleteBlock
<1>5. CASE \/ \E status \in States : TransitionCampaign(status)
           \/ \E o \in Schedulers \cup {Control} : ClaimCampaign(o) \/ ReleaseCampaign(o)
           \/ RunTrial \/ FinishWork \/ UNCHANGED store
  BY <1>1, <1>5 DEF TransitionCampaign, ClaimCampaign, ReleaseCampaign, RunTrial, FinishWork, store
<1> QED BY <1>2, <1>3, <1>4, <1>5 DEF StoreStep

LEMMA AttemptsHeld ==
  ASSUME StoreType, SchedType, OneScheduler, HoldsAttempt, StoreStep, SchedStep
  PROVE  HoldsAttempt'
<1>1. ASSUME NEW s \in Schedulers, Claim(s)
      PROVE  HoldsAttempt'
  <2> PICK b \in Blocks :
         /\ ClaimBlock(b)
         /\ sched' = [sched EXCEPT ![s] = [pc |-> "trial", block |-> b,
                                          attempt |-> rows[b].attempt + 1]]
    BY <1>1 DEF Claim
  <2>1. \A t \in Schedulers \ {s} : sched'[t] = sched[t] /\ sched[t].pc \notin WithBlock
    BY <1>1, Places DEF Claim, OneScheduler, At, SchedType
  <2>2. sched'[s].block = b /\ sched'[s].attempt = rows[b].attempt + 1
    BY DEF SchedType
  <2>3. rows'[b].attempt = rows[b].attempt + 1
    BY DEF ClaimBlock, StoreType
  <2> QED BY <2>1, <2>2, <2>3 DEF HoldsAttempt
<1>2. ASSUME ~ \E s \in Schedulers : Claim(s)
      PROVE  HoldsAttempt'
  <2>1. \A b \in Blocks : rows'[b].attempt = rows[b].attempt
    BY <1>2, AttemptsKept
  <2>2. \A s \in Schedulers : sched[s].pc \in WithBlock => sched[s].block \in Blocks
    BY DEF SchedType
  <2>3. CASE UNCHANGED sched
    BY <2>1, <2>2, <2>3 DEF HoldsAttempt
  <2>4. ASSUME NEW s \in Schedulers, NEW pc \in PCs, Moves(s, pc)
        PROVE  HoldsAttempt'
    BY <2>1, <2>2, <2>4, GotoFacts DEF HoldsAttempt, Moves
  <2>5. ASSUME NEW s \in Schedulers, NEW pc \in PCs \ WithBlock, Leave(s, pc)
        PROVE  HoldsAttempt'
    BY <2>1, <2>2, <2>5, LeaveFacts DEF HoldsAttempt
  <2> QED BY <1>2, <2>3, <2>4, <2>5 DEF SchedStep
<1> QED BY <1>1, <1>2

LEMMA ClaimIsNext ==
  ASSUME StoreType, QueueInv, NEW b \in Blocks, Claimable(b)
  PROVE  b = checkpoint.next
<1>1. b \in Nat /\ checkpoint.next \in Nat /\ b \in Runnable /\ Running = {}
  BY StoreAssumption DEF StoreType, Blocks, Claimable
<1>2. ~(b < checkpoint.next)
  BY <1>1 DEF QueueInv, ResultsCounted, Runnable
<1>3. CASE checkpoint.next < b
  <2>1. checkpoint.next \in Blocks
    BY <1>1, <1>3, StoreAssumption DEF Blocks, QueueInv, InOrder
  <2>2. rows[checkpoint.next].status # "completed"
    BY <1>1, <2>1 DEF QueueInv, ResultsCounted
  <2>3. checkpoint.next \in Runnable
    BY <1>1, <2>1, <2>2 DEF QueueInv, Statuses, Running, Runnable
  <2> QED BY <1>1, <1>3, <2>3 DEF Claimable
<1> QED BY <1>1, <1>2, <1>3

LEMMA QueueKept ==
  ASSUME StoreType, SchedType, HoldsAttempt, QueueInv, StoreStep
  PROVE  QueueInv'
<1> USE DEF StoreType, QueueInv, Statuses, ResultsCounted, InOrder, Running
<1>1. ASSUME NEW s \in Schedulers, Claim(s)
      PROVE  QueueInv'
  <2> PICK b \in Blocks : ClaimBlock(b)
    BY <1>1 DEF Claim
  <2>1. b = checkpoint.next /\ rows[b].status # "completed"
    BY ClaimIsNext DEF ClaimBlock, Claimable, Runnable
  <2> QED BY <2>1 DEF ClaimBlock, Claimable
<1>2. CASE RecoverJobs \/ \E b \in Blocks : InterruptBlock(b)
  BY <1>2 DEF RecoverJobs, InterruptBlock, Interrupted
<1>3. ASSUME NEW b \in Blocks, NEW n \in Nat, SetProcess(b, n)
      PROVE  QueueInv'
  BY <1>3 DEF SetProcess, Row
<1>4. ASSUME NEW s \in Schedulers, At(s, "commit"), CompleteBlock(sched[s].block, sched[s].attempt)
      PROVE  QueueInv'
  <2>1. PICK b \in Blocks : b = sched[s].block /\ rows[b].attempt = sched[s].attempt
    BY <1>4, Places DEF At, SchedType, HoldsAttempt
  <2>2. b = checkpoint.next /\ rows[b].status = "running" /\ b \in Nat
    BY <1>4, <2>1, StoreAssumption DEF CompleteBlock, MayComplete, Blocks
  <2>3. \A c \in Blocks : c \in Nat /\ (c < b + 1 <=> c = b \/ c < b)
    BY <2>2, StoreAssumption DEF Blocks
  <2>4. games[b] = 0
    BY <2>2
  <2> QED BY <1>4, <2>1, <2>2, <2>3, <2>4 DEF CompleteBlock
<1>5. CASE \/ \E status \in States : TransitionCampaign(status)
           \/ \E o \in Schedulers \cup {Control} : ClaimCampaign(o) \/ ReleaseCampaign(o)
           \/ RunTrial \/ FinishWork \/ UNCHANGED store
  BY <1>5 DEF TransitionCampaign, ClaimCampaign, ReleaseCampaign, RunTrial, FinishWork, store
<1> QED BY <1>1, <1>2, <1>3, <1>4, <1>5 DEF StoreStep
(* The rows are a queue of blocks played in order, one at a time.          *)
LEMMA QueueSteps ==
  ASSUME StoreType, SchedType, QueueInv, StoreStep
  PROVE  [Queue!Next]_QueueState
<1>1. /\ QueueState \in [Blocks -> {"open", "taken", "done"}]
      /\ \A b \in Blocks : /\ QueueState[b] = "taken" <=> rows[b].status = "running"
                           /\ QueueState[b] = "done" <=> rows[b].status = "completed"
  BY DEF QueueState
<1>2. /\ QueueState' \in [Blocks -> {"open", "taken", "done"}]
      /\ \A b \in Blocks : /\ QueueState'[b] = "taken" <=> rows'[b].status = "running"
                           /\ QueueState'[b] = "done" <=> rows'[b].status = "completed"
  BY DEF QueueState
<1>3. Queue!Blocks = Blocks
  BY DEF Queue!Blocks, Blocks
<1> USE DEF StoreType, Running
<1>4. ASSUME NEW s \in Schedulers, Claim(s)
      PROVE  [Queue!Next]_QueueState
  <2> PICK b \in Blocks : ClaimBlock(b)
    BY <1>4 DEF Claim
  <2>1. b = checkpoint.next /\ Running = {} /\ b \in Runnable
    BY ClaimIsNext DEF ClaimBlock, Claimable
  <2>2. QueueState[b] = "open" /\ \A c \in Blocks : QueueState[c] # "taken"
    BY <1>1, <2>1 DEF Runnable
  <2>3. \A c \in Blocks : c < b => QueueState[c] = "done"
    BY <1>1, <2>1 DEF QueueInv, ResultsCounted
  <2>4. \A c \in Blocks : rows'[c].status = IF c = b THEN "running" ELSE rows[c].status
    BY DEF ClaimBlock
  <2>5. \A c \in Blocks : QueueState'[c] = IF c = b THEN "taken" ELSE QueueState[c]
    BY <1>1, <1>2, <2>4
  <2>6. QueueState' = [QueueState EXCEPT ![b] = "taken"]
    BY <1>1, <1>2, <2>5
  <2> QED BY <1>3, <2>2, <2>3, <2>6 DEF Queue!Next, Queue!Take
<1>5. ASSUME NEW b \in Blocks, QueueState[b] = "taken",
             \A c \in Blocks : rows'[c].status = IF c = b THEN "interrupted" ELSE rows[c].status
      PROVE  [Queue!Next]_QueueState
  <2>1. \A c \in Blocks : QueueState'[c] = IF c = b THEN "open" ELSE QueueState[c]
    BY <1>1, <1>2, <1>5
  <2>2. QueueState' = [QueueState EXCEPT ![b] = "open"]
    BY <1>1, <1>2, <2>1
  <2> QED BY <1>3, <1>5, <2>2 DEF Queue!Next, Queue!GiveBack
<1>6. ASSUME \A c \in Blocks : rows'[c].status = rows[c].status
      PROVE  [Queue!Next]_QueueState
  <2>1. QueueState' = QueueState
    BY <1>1, <1>2, <1>6
  <2> QED BY <2>1
<1>7. ASSUME NEW b \in Blocks, InterruptBlock(b)
      PROVE  [Queue!Next]_QueueState
  BY <1>1, <1>5, <1>6, <1>7 DEF InterruptBlock, Interrupted
<1>8. CASE RecoverJobs
  <2>1. CASE Running = {}
    BY <1>6, <1>8, <2>1 DEF RecoverJobs
  <2>2. ASSUME NEW b \in Running
        PROVE  [Queue!Next]_QueueState
    <3>1. \A c \in Running : c = b
      BY <2>2 DEF QueueInv, InOrder
    <3>2. \A c \in Blocks : rows'[c].status = IF c = b THEN "interrupted" ELSE rows[c].status
      BY <1>8, <2>2, <3>1 DEF RecoverJobs, Interrupted
    <3> QED BY <1>1, <1>5, <2>2, <3>2
  <2> QED BY <2>1, <2>2
<1>9. ASSUME NEW b \in Blocks, NEW n \in Nat, SetProcess(b, n)
      PROVE  [Queue!Next]_QueueState
  BY <1>6, <1>9 DEF SetProcess, Row
<1>10. ASSUME NEW s \in Schedulers, At(s, "commit"), CompleteBlock(sched[s].block, sched[s].attempt)
       PROVE  [Queue!Next]_QueueState
  <2>1. PICK b \in Blocks : b = sched[s].block
    BY <1>10, Places DEF At, SchedType
  <2>2. QueueState[b] = "taken"
    BY <1>1, <1>10, <2>1 DEF CompleteBlock, MayComplete
  <2>3. \A c \in Blocks : QueueState'[c] = IF c = b THEN "done" ELSE QueueState[c]
    BY <1>1, <1>2, <1>10, <2>1 DEF CompleteBlock
  <2>4. QueueState' = [QueueState EXCEPT ![b] = "done"]
    BY <1>1, <1>2, <2>3
  <2> QED BY <1>3, <2>2, <2>4 DEF Queue!Next, Queue!Complete
<1>11. CASE \/ \E status \in States : TransitionCampaign(status)
            \/ \E o \in Schedulers \cup {Control} : ClaimCampaign(o) \/ ReleaseCampaign(o)
            \/ RunTrial \/ FinishWork \/ UNCHANGED store
  BY <1>6, <1>11 DEF TransitionCampaign, ClaimCampaign, ReleaseCampaign, RunTrial, FinishWork, store
<1> QED BY <1>4, <1>7, <1>8, <1>9, <1>10, <1>11 DEF StoreStep
-----------------------------------------------------------------------------
(* The matches.                                                            *)

\* The match of a scheduler has ended, as it knows or as it does not yet know.
Ended(s) == exit[s] # "none" \/ sched[s].pc \in {"drop", "commit", "finish", "dead"}

MatchInv ==
  /\ NoStrayMatch
  /\ \A s \in Schedulers : sched[s].pc \notin WithBlock => exit[s] = "none"
  /\ \A s \in Schedulers : Ended(s) => Match(s) \notin playing

LEMMA MatchesKept ==
  ASSUME SchedType, MatchType, OneScheduler, MatchInv, [Next]_vars
  PROVE  MatchInv'
<1> USE DEF MatchInv, NoStrayMatch, Ended
<1>1. \A s \in Schedulers : sched[s].pc \notin WithBlock => Match(s) \notin playing
  <2>1. 0 \notin Blocks
    BY DEF Blocks
  <2> QED BY <2>1 DEF SchedType, MatchType
\* A step of the scheduler that starts and ends no match.
<1>2. ASSUME NEW s \in Schedulers, NEW pc \in PCs, Goto(s, pc),
             pc \in WithBlock <=> sched[s].pc \in WithBlock, UNCHANGED <<exit, playing, orphans>>,
             pc \in {"drop", "commit", "finish", "dead"} => Ended(s)
      PROVE  MatchInv'
  <2>1. \A t \in Schedulers : Match(t)' = Match(t)
    BY <1>2, GotoFacts DEF Match
  <2>2. \A t \in Schedulers \ {s} : sched'[t] = sched[t]
    BY <1>2, GotoFacts
  <2>3. sched'[s].pc = pc
    BY <1>2, GotoFacts
  <2> QED BY <1>2, <2>1, <2>2, <2>3
<1>3. ASSUME NEW matches, Terminate(matches), UNCHANGED <<sched, orphans>>
      PROVE  MatchInv'
  BY <1>1, <1>3 DEF Terminate, Match, MatchType
<1>4. ASSUME NEW s \in Schedulers, NEW pc \in {"drop", "dead"}, sched[s].pc \in WithBlock,
             Terminate({Match(s)}), Goto(s, pc), UNCHANGED orphans
      PROVE  MatchInv'
  <2>1. pc \in PCs /\ pc \in WithBlock
    BY Places
  <2>2. \A t \in Schedulers : Match(t)' = Match(t)
    BY <1>4, <2>1, GotoFacts DEF Match
  <2>3. sched'[s].pc = pc /\ \A t \in Schedulers \ {s} : sched'[t] = sched[t]
    BY <1>4, <2>1, GotoFacts
  <2>4. playing' = playing \ {Match(s)}
    BY <1>4 DEF Terminate
  <2>5. \A t \in Schedulers : exit'[t] = IF Match(t) \in {Match(s)} \cap playing THEN "failed"
                                       ELSE exit[t]
    BY <1>4 DEF Terminate
  <2>6. \A t \in Schedulers \ {s} : sched[t].pc \notin WithBlock
    BY <1>4, Places DEF OneScheduler, At
  <2> QED BY <1>1, <1>4, <2>1, <2>2, <2>3, <2>4, <2>5, <2>6
\* A block is left whose match is not playing, or which is an orphan from now on.
<1>5. ASSUME NEW s \in Schedulers, NEW pc \in PCs \ WithBlock, Leave(s, pc),
             playing' \subseteq playing, playing' \subseteq orphans' \cup (playing \ {Match(s)}),
             orphans \subseteq orphans'
      PROVE  MatchInv'
  <2>1. \A t \in Schedulers \ {s} : sched'[t] = sched[t] /\ Match(t)' = Match(t)
    BY <1>5, LeaveFacts DEF Match
  <2>2. sched'[s].pc = pc
    BY <1>5, LeaveFacts
  <2>3. exit'[s] = "none" /\ \A t \in Schedulers \ {s} : exit'[t] = exit[t]
    BY <1>5 DEF Leave, MatchType
  <2>4. pc \notin {"drop", "commit", "finish", "dead"}
    BY <1>5, Places
  <2> QED BY <1>5, <2>1, <2>2, <2>3, <2>4
<1>6. ASSUME NEW s \in Schedulers, Finish(s) \/ Drop(s) \/ Dead(s)
      PROVE  MatchInv'
  BY <1>5, <1>6, Places DEF Finish, Drop, Dead, At, history
<1>7. ASSUME NEW s \in Schedulers, Interrupt(s) \/ Crash(s)
      PROVE  MatchInv'
  BY <1>5, <1>7, Places DEF Interrupt, Crash, history
<1>8. ASSUME NEW s \in Schedulers, Kill(s) \/ Abort(s)
      PROVE  MatchInv'
  BY <1>4, <1>8, Places DEF Kill, Abort, AbortMatch, At, history
<1>9. CASE CommandTerminate
  BY <1>3, <1>9 DEF CommandTerminate, history
<1>10. CASE MatchEnds
  BY <1>1, <1>10 DEF MatchEnds, Match, MatchType, history
<1>11. ASSUME NEW s \in Schedulers, Claim(s)
       PROVE  MatchInv'
  <2>1. PICK b \in Blocks : sched' = [sched EXCEPT ![s] = [pc |-> "trial", block |-> b,
                                                          attempt |-> rows[b].attempt + 1]]
    BY <1>11 DEF Claim
  <2>2. /\ sched'[s].pc = "trial" /\ exit'[s] = "none" /\ Match(s) \notin playing
        /\ UNCHANGED <<exit, playing, orphans>>
    BY <1>1, <1>11, <2>1, Places DEF Claim, At, SchedType, history
  <2>3. \A t \in Schedulers \ {s} : sched'[t] = sched[t] /\ Match(t)' = Match(t)
    BY <2>1 DEF SchedType, Match
  <2> QED BY <2>2, <2>3, Places
<1>12. ASSUME NEW s \in Schedulers, Spawn(s)
       PROVE  MatchInv'
  <2>1. \A t \in Schedulers \ {s} : sched[t].pc \notin WithBlock /\ Match(t) = <<0, 0>>
    BY <1>12, Places DEF Spawn, At, OneScheduler, SchedType
  <2>2. PICK pc \in {"attach", "abort"} : Goto(s, pc)
    BY <1>12 DEF Spawn
  <2>3. /\ \A t \in Schedulers : Match(t)' = Match(t)
        /\ sched'[s].pc = pc /\ \A t \in Schedulers \ {s} : sched'[t] = sched[t]
    BY <2>2, GotoFacts, Places DEF Match
  <2>4. exit'[s] = "none" /\ \A t \in Schedulers \ {s} : exit'[t] = exit[t]
    BY <1>12 DEF Spawn, MatchType
  <2>5. playing' \subseteq playing \cup {Match(s)} /\ orphans' = orphans
    BY <1>12 DEF Spawn, history
  <2>6. <<0, 0>> \notin playing /\ Match(s) # <<0, 0>>
    <3>1. 0 \notin Blocks
      BY DEF Blocks
    <3>2. sched[s].block \in Blocks
      BY <1>12, Places DEF Spawn, At, SchedType
    <3> QED BY <3>1, <3>2 DEF Match, MatchType
  <2>7. \A t \in Schedulers \ {s} : Match(t)' \notin playing'
    BY <2>1, <2>3, <2>5, <2>6
  <2>8. ~Ended(s)'
    BY <2>2, <2>3, <2>4
  <2>9. NoStrayMatch'
    BY <2>3, <2>5
  <2>10. \A t \in Schedulers : sched'[t].pc \notin WithBlock => exit'[t] = "none"
    BY <2>3, <2>4
  <2> QED BY <2>7, <2>8, <2>9, <2>10
<1>13. ASSUME NEW s \in Schedulers,
              Start(s) \/ Recover(s) \/ Own(s) \/ Begin(s) \/ WrapUp(s) \/ Release(s)
       PROVE  MatchInv'
  BY <1>2, <1>13, Places DEF Start, Unlocked, Recover, Own, Begin, WrapUp, Release, At, history
<1>14. ASSUME NEW s \in Schedulers, Enter(s) \/ Loop(s) \/ ClaimNothing(s) \/ Decide(s)
       PROVE  MatchInv'
  BY <1>2, <1>14, Places DEF Enter, Loop, ClaimNothing, Decide, At, history
<1>15. ASSUME NEW s \in Schedulers,
              EnsureTrial(s) \/ Attach(s) \/ AttachRefused(s) \/ PollControl(s)
       PROVE  MatchInv'
  BY <1>2, <1>15, Places DEF EnsureTrial, Attach, AttachRefused, PollControl, At, history
<1>16. ASSUME NEW s \in Schedulers, PollExit(s) \/ Commit(s) \/ CommitRefused(s)
       PROVE  MatchInv'
  BY <1>2, <1>16, Places DEF PollExit, Commit, CommitRefused, At, history
<1>17. CASE UNCHANGED <<procs, orphans>>
  BY <1>17 DEF procs, Match
<1>18. CASE CommandRead \/ CommandMove \/ CommandRefused \/ CommandList
  BY <1>17, <1>18 DEF CommandRead, CommandMove, CommandRefused, CommandList, history
<1>19. CASE \/ CommandRecover \/ CommandOwn \/ CommandRelease \/ CommandCrash
            \/ \E name \in DOMAIN Program : Give(name)
  BY <1>17, <1>19 DEF CommandRecover, CommandOwn, CommandRelease, CommandCrash, Give, history
<1>20. CASE UNCHANGED vars
  BY <1>17, <1>20 DEF vars, history
<1> QED
  BY <1>6, <1>7, <1>8, <1>9, <1>10, <1>11, <1>12, <1>13, <1>14, <1>15, <1>16, <1>18, <1>19, <1>20
     DEF Next, Work, CommandStep
-----------------------------------------------------------------------------
(* The quiet after a pause or a stop.                                      *)

\* A command that goes on, and one that is over.
LEMMA CommandFacts ==
  ASSUME CommandOK, command.todo # <<>>
  PROVE  /\ command.name \in Names /\ command.todo \in Seq(Steps)
         /\ Rest(command.name, command.todo)
         /\ \A todo : Then(todo) =>
              /\ todo = <<>> => command' = NoCommand
              /\ todo # <<>> /\ todo \in Seq(Steps) =>
                   command'.todo = todo /\ command'.name = command.name /\ command' # NoCommand
<1>1. /\ command \in [name : Names, todo : Seq(Steps), targets : SUBSET (Blocks \X Nat)]
      /\ Rest(command.name, command.todo)
  BY DEF CommandOK, NoCommand
<1>2. ASSUME NEW todo, Then(todo), todo # <<>>, todo \in Seq(Steps)
      PROVE  command'.todo = todo /\ command'.name = command.name
  BY <1>1, <1>2 DEF Then
<1> QED BY <1>1, <1>2 DEF Then, NoCommand

\* What a pause or stop does before its recovery does not end it.
LEMMA MoveIsNotLast ==
  ASSUME CommandOK, CommandMove, command.name \in {"pause", "stop"}
  PROVE  command' # NoCommand
<1>1. command.todo # <<>> /\ Head(command.todo) = "move" /\ Then(Tail(command.todo))
  BY DEF CommandMove, Doing, Done
<1>2. Rest(command.name, command.todo)
  BY <1>1, CommandFacts
<1>3. Tail(command.todo) # <<>>
  BY <1>1, <1>2, LessToDo
<1>4. Tail(command.todo) \in Seq(Steps)
  BY <1>2, <1>3, LessToDo DEF Rest
<1> QED BY <1>1, <1>3, <1>4, CommandFacts

LEMMA QuietKept ==
  ASSUME StoreType, SchedType, RestType, CommandOK, QuietMeansNoBlock, StoreStep, [Next]_vars
  PROVE  QuietMeansNoBlock'
<1> USE DEF QuietMeansNoBlock, StoreType, Running, RestType
<1>1. ASSUME NEW s \in Schedulers, Begin(s)
      PROVE  QuietMeansNoBlock'
  BY <1>1 DEF Begin
<1>2. CASE CommandMove
  <2>1. CASE campaign' = "running"
    BY <1>2, <2>1 DEF CommandMove, Settles
  <2>2. CASE campaign' # "running"
    <3>1. quiet' = quiet
      BY <1>2, <2>2, MoveIsNotLast DEF CommandMove, Settles
    <3>2. rows' = rows
      BY <1>2 DEF CommandMove, TransitionCampaign
    <3> QED BY <2>2, <3>1, <3>2
  <2> QED BY <2>1, <2>2
<1>3. CASE CommandRecover
  <2>1. Running' = {}
    BY <1>3 DEF CommandRecover, RecoverJobs, Interrupted
  <2>2. campaign' = "running" => quiet' = FALSE
    BY <1>3 DEF CommandRecover, Settles
  <2> QED BY <2>1, <2>2
<1>4. ASSUME quiet' = quiet \/ quiet' = FALSE, ~CommandMove, \A s \in Schedulers : ~Begin(s)
      PROVE  QuietMeansNoBlock'
  <2> SUFFICES ASSUME quiet, Running = {}, campaign # "running"
               PROVE  Running' = {} /\ campaign' # "running"
    BY <1>4
  <2>1. \A s \in Schedulers : ~Claim(s)
    BY DEF Claim, ClaimBlock, Claimable
  <2>2. CASE RecoverJobs \/ \E b \in Blocks : InterruptBlock(b)
    BY <2>2 DEF RecoverJobs, InterruptBlock, Interrupted
  <2>3. CASE \/ \E b \in Blocks, n \in Nat : SetProcess(b, n)
             \/ \E s \in Schedulers : CompleteBlock(sched[s].block, sched[s].attempt)
    BY <2>3 DEF SetProcess, CompleteBlock, MayComplete
  <2>4. CASE \/ \E o \in Schedulers \cup {Control} : ClaimCampaign(o) \/ ReleaseCampaign(o)
             \/ RunTrial \/ FinishWork \/ UNCHANGED store
    BY <2>4 DEF ClaimCampaign, ReleaseCampaign, RunTrial, FinishWork, store
  <2> QED BY <1>4, <2>1, <2>2, <2>3, <2>4 DEF StoreStep
<1>5. ASSUME NEW s \in Schedulers, Start(s) \/ (Work(s) /\ ~Begin(s)) \/ Interrupt(s) \/ Crash(s)
      PROVE  quiet' = quiet
  BY <1>5 DEF Start, Work, Interrupt, Crash, Recover, Own, Enter, Loop, Claim, ClaimNothing, WrapUp,
              EnsureTrial, Spawn, Attach, AttachRefused, PollControl, PollExit, Kill, Abort, Commit,
              CommitRefused, Finish, Drop, Dead, Decide, Release, history
<1>6. CASE \/ CommandRead \/ CommandRefused \/ CommandList \/ CommandTerminate \/ CommandOwn
           \/ CommandRelease \/ CommandCrash
  BY <1>6 DEF CommandRead, CommandRefused, CommandList, CommandTerminate, CommandOwn,
              CommandRelease, CommandCrash, ClaimCampaign, ReleaseCampaign, history, store
<1>7. CASE MatchEnds \/ UNCHANGED vars \/ \E name \in DOMAIN Program : Give(name)
  BY <1>7 DEF MatchEnds, Give, vars, history, store
<1> QED BY <1>1, <1>2, <1>3, <1>4, <1>5, <1>6, <1>7 DEF Next, CommandStep

-----------------------------------------------------------------------------
(* The owner of the campaign.                                              *)

LEMMA OwnersKept ==
  ASSUME StoreType, SchedType, RestType, CommandOK, OwnerIsActive, SchedStep, [Next]_vars
  PROVE  OwnerIsActive'
<1> DEFINE IsRun(c) == c.name = "run" /\ c.todo # <<>>
<1> USE DEF OwnerIsActive, At
<1>1. 0 \notin Schedulers /\ Control = 0
  BY DEF Schedulers, Control
\* A scheduler goes on, owning what it owned.
<1>2. ASSUME UNCHANGED <<owner, killed, command>>,
             \A s \in Schedulers : sched'[s].pc = "off" => sched[s].pc = "off"
      PROVE  OwnerIsActive'
  BY <1>2
<1>3. ASSUME NEW s \in Schedulers, NEW pc \in PCs \ {"off"}, Goto(s, pc)
      PROVE  \A t \in Schedulers : sched'[t].pc = "off" => sched[t].pc = "off"
  BY <1>3, GotoFacts
<1>4. ASSUME NEW s \in Schedulers, NEW pc \in PCs \ {"off"}, Leave(s, pc)
      PROVE  \A t \in Schedulers : sched'[t].pc = "off" => sched[t].pc = "off"
  BY <1>4, LeaveFacts
<1>5. ASSUME NEW s \in Schedulers, Start(s) \/ Recover(s) \/ Enter(s) \/ Begin(s) \/ Loop(s)
      PROVE  OwnerIsActive'
  BY <1>2, <1>3, <1>5, Places
     DEF Start, Recover, RecoverJobs, Enter, Begin, TransitionCampaign, Loop, store, history
<1>6. ASSUME NEW s \in Schedulers, ClaimNothing(s) \/ WrapUp(s) \/ EnsureTrial(s) \/ Spawn(s)
      PROVE  OwnerIsActive'
  BY <1>2, <1>3, <1>6, Places
     DEF ClaimNothing, WrapUp, FinishWork, EnsureTrial, RunTrial, Spawn, store, history
<1>7. ASSUME NEW s \in Schedulers,
             Attach(s) \/ AttachRefused(s) \/ PollControl(s) \/ PollExit(s) \/ Kill(s)
      PROVE  OwnerIsActive'
  BY <1>2, <1>3, <1>7, Places
     DEF Attach, SetProcess, AttachRefused, PollControl, PollExit, Kill, store, history
<1>8. ASSUME NEW s \in Schedulers, Abort(s) \/ Commit(s) \/ CommitRefused(s) \/ Decide(s)
      PROVE  OwnerIsActive'
  BY <1>2, <1>3, <1>8, Places
     DEF Abort, Commit, CompleteBlock, CommitRefused, Decide, store, history
<1>9. ASSUME NEW s \in Schedulers, Finish(s) \/ Drop(s) \/ Dead(s) \/ Interrupt(s)
      PROVE  OwnerIsActive'
  BY <1>2, <1>4, <1>9, Places
     DEF Finish, FinishWork, Drop, Dead, InterruptBlock, Interrupt, store, history
<1>10. ASSUME NEW s \in Schedulers, Claim(s)
       PROVE  OwnerIsActive'
  <2>1. \A t \in Schedulers : sched'[t].pc = "off" => sched[t].pc = "off"
    BY <1>10 DEF Claim, SchedType
  <2> QED BY <1>2, <1>10, <2>1 DEF Claim, ClaimBlock, history
<1>11. ASSUME NEW s \in Schedulers, Own(s)
       PROVE  OwnerIsActive'
  <2>1. owner' = {s} /\ sched'[s].pc = "enter"
    BY <1>11, GotoFacts, Places DEF Own, ClaimCampaign
  <2> QED BY <2>1
<1>12. ASSUME NEW s \in Schedulers, Release(s)
       PROVE  OwnerIsActive'
  <2>1. owner' = owner \ {s} /\ UNCHANGED <<killed, command>>
    BY <1>12 DEF Release, ReleaseCampaign, history
  <2>2. \A t \in Schedulers \ {s} : sched'[t] = sched[t]
    BY <1>12, GotoFacts, Places DEF Release
  <2> QED BY <2>1, <2>2
<1>13. ASSUME NEW s \in Schedulers, Crash(s)
       PROVE  OwnerIsActive'
  <2>1. owner' = owner /\ killed' = killed \cup (owner \cap {s}) /\ command' = command
    BY <1>13 DEF Crash, store
  <2>2. \A t \in Schedulers \ {s} : sched'[t] = sched[t]
    BY <1>13, LeaveFacts, Places DEF Crash
  <2> QED BY <2>1, <2>2
\* A command goes on, and if it is a run it is not over.
<1>14. ASSUME UNCHANGED <<owner, killed, sched>>, IsRun(command) => IsRun(command')
       PROVE  OwnerIsActive'
  BY <1>14
<1>15. ASSUME command.todo # <<>>, Done, Head(command.todo) # "release"
       PROVE  IsRun(command) => IsRun(command')
  <2>1. Rest(command.name, command.todo)
    BY <1>15, CommandFacts
  <2> SUFFICES ASSUME command.name = "run"
               PROVE  IsRun(command')
    OBVIOUS
  <2>2. Tail(command.todo) # <<>>
    BY <1>15, <2>1, LessToDo
  <2>3. Tail(command.todo) \in Seq(Steps)
    BY <2>1, <2>2, LessToDo DEF Rest
  <2> QED BY <1>15, <2>2, <2>3, CommandFacts DEF Done
<1>16. CASE CommandMove \/ CommandRecover
  BY <1>14, <1>15, <1>16
     DEF CommandMove, CommandRecover, TransitionCampaign, RecoverJobs, Doing, procs
<1>17. CASE CommandRefused
  <2>1. IsRun(command) => Done
    BY <1>17 DEF CommandRefused, Done
  <2> QED BY <1>14, <1>15, <1>17, <2>1 DEF CommandRefused, Doing, store, procs, history
<1>18. CASE CommandRead
  <2>1. /\ command.todo # <<>> /\ Head(command.todo) = "read" /\ UNCHANGED <<owner, killed, sched>>
        /\ Rest(command.name, command.todo)
    BY <1>18, CommandFacts DEF CommandRead, Doing, store, procs, history
  <2> SUFFICES ASSUME command.name = "run"
               PROVE  IsRun(command')
    BY <1>14, <2>1
  <2>2. /\ Tail(command.todo) # <<>> /\ Rest(command.name, Tail(command.todo))
        /\ Head(Tail(command.todo)) = "move"
    BY <2>1, LessToDo
  <2>3. Tail(Tail(command.todo)) # <<>> /\ Rest(command.name, Tail(Tail(command.todo)))
    BY <2>2, LessToDo
  <2>4. Tail(command.todo) \in Seq(Steps) /\ Tail(Tail(command.todo)) \in Seq(Steps)
    BY <2>2, <2>3 DEF Rest
  <2> QED BY <1>18, <2>1, <2>2, <2>3, <2>4, CommandFacts DEF CommandRead
<1>19. CASE CommandList \/ CommandTerminate
  <2>1. /\ command.todo # <<>> /\ UNCHANGED <<owner, killed, sched>>
        /\ Head(command.todo) \in {"list", "terminate"}
        /\ command'.name = command.name /\ command'.todo = Tail(command.todo)
    <3>1. CASE CommandList
      BY <3>1 DEF CommandList, Doing, store, procs, history
    <3>2. CASE CommandTerminate
      BY <3>2 DEF CommandTerminate, Doing, store, history
    <3> QED BY <1>19, <3>1, <3>2
  <2>2. Tail(command.todo) # <<>>
    BY <2>1, CommandFacts, LessToDo
  <2> QED BY <1>14, <2>1, <2>2
<1>20. CASE CommandOwn
  <2>1. command.todo # <<>> /\ Head(command.todo) = "own" /\ owner' = {Control} /\ Done
    BY <1>20 DEF CommandOwn, Doing, ClaimCampaign
  <2>2. command.name = "run"
    BY <2>1, CommandFacts, LessToDo
  <2> QED BY <1>15, <2>1, <2>2
<1>21. CASE CommandRelease
  <2>1. owner' = owner \ {Control} /\ UNCHANGED <<killed, sched>>
    BY <1>21 DEF CommandRelease, ReleaseCampaign, procs, history
  <2> QED BY <2>1
<1>22. CASE CommandCrash
  <2>1. owner' = owner /\ killed' = killed \cup (owner \cap {Control}) /\ UNCHANGED sched
    BY <1>22 DEF CommandCrash, store, procs
  <2> QED BY <2>1
<1>23. CASE \E name \in DOMAIN Program : Give(name)
  BY <1>14, <1>23 DEF Give, store, procs, history
<1>24. CASE MatchEnds \/ UNCHANGED vars
  BY <1>14, <1>24 DEF MatchEnds, vars, store, procs, history
<1> QED
  BY <1>5, <1>6, <1>7, <1>8, <1>9, <1>10, <1>11, <1>12, <1>13, <1>16, <1>17, <1>18, <1>19, <1>20,
     <1>21, <1>22, <1>23, <1>24 DEF Next, Work, CommandStep
-----------------------------------------------------------------------------
(* The attempts.                                                           *)

\* Where a scheduler, if the campaign has this status, may yet claim a block without
\* another command: it is on its way to one, or has left the status of the campaign
\* behind, or the status has left it behind.
Eager == {"recover", "own", "enter", "begin", "loop", "claim", "kill", "drop", "finish"}

MayClaim(pc, status) ==
  /\ status \notin Terminal
  /\ pc \in Eager \/ (pc \in WithBlock \cup {"decide"} /\ status # "running")

Claiming == \E s \in Schedulers : MayClaim(sched[s].pc, campaign)

\* A pause or a stop that has not moved the campaign yet: it may make a scheduler
\* that has a block, and would end with it, come back for another.
Stopping == command.name \in {"pause", "stop"}

Pausing == Stopping /\ command.todo # <<>> /\ Head(command.todo) \in {"read", "move"}

\* A pause and a stop move the campaign first.
PauseFirst ==
  Stopping => \A i \in DOMAIN command.todo :
                i > 1 /\ command.todo[i] \in {"read", "move"} => command.todo[i - 1] = "read"

\* Claims that may come without another start or command.
Count(p) == IF p THEN 1 ELSE 0
Spare    == Count(Claiming) + Count(Pausing)

Untried == \A b \in Blocks : b > checkpoint.next => rows[b].attempt = 0

AtWork ==
  /\ \A s \in Schedulers : ~At(s, "off") => starts > 0
  /\ command.todo # <<>> => commands > 0

\* Each of them is paid for by a start or a command that no attempt has used yet.
Budget ==
  \A b \in Blocks : /\ rows[b].attempt <= starts + commands
                    /\ rows[b].status # "completed" => rows[b].attempt + Spare <= starts + commands

AttemptInv == Untried /\ AtWork /\ PauseFirst /\ Budget

LEMMA SpareFacts ==
  /\ Spare \in 0..2
  /\ Claiming /\ Pausing => Spare = 2
  /\ Claiming /\ ~Pausing => Spare = 1
  /\ ~Claiming /\ Pausing => Spare = 1
  /\ ~Claiming /\ ~Pausing => Spare = 0
  /\ Spare' \in 0..2
  /\ Claiming' /\ Pausing' => Spare' = 2
  /\ Claiming' /\ ~Pausing' => Spare' = 1
  /\ ~Claiming' /\ Pausing' => Spare' = 1
  /\ ~Claiming' /\ ~Pausing' => Spare' = 0
BY DEF Spare, Count

LEMMA Sums ==
  /\ \A a, b \in Nat : a + b \in Nat
  /\ \A a, b, c, d \in Nat : a <= c /\ b <= d => a + b <= c + d
  /\ \A a, b, c \in Nat : a <= b /\ b <= c => a <= c
  /\ \A k, m, n, a, b \in Nat : k + n <= a /\ m + a <= n + b => k + m <= b
  /\ \A m, a, b \in Nat : m = 0 \/ (m = 1 /\ a > 0) \/ (m = 2 /\ a > 0 /\ b > 0) => m <= a + b
OBVIOUS

LEMMA UntriedKept ==
  ASSUME StoreType, SchedType, QueueInv, Untried, StoreStep
  PROVE  Untried'
<1> USE DEF StoreType, Untried
<1>0. checkpoint.next \in Nat /\ \A b \in Blocks : b \in Nat
  BY StoreAssumption DEF Blocks
<1>1. ASSUME NEW s \in Schedulers, Claim(s)
      PROVE  Untried'
  <2> PICK b \in Blocks : ClaimBlock(b)
    BY <1>1 DEF Claim
  <2>1. b = checkpoint.next
    BY ClaimIsNext DEF ClaimBlock
  <2> QED BY <1>0, <2>1 DEF ClaimBlock
<1>2. ASSUME ~ \E s \in Schedulers : Claim(s)
      PROVE  Untried'
  <2>1. \A b \in Blocks : rows'[b].attempt = rows[b].attempt
    BY <1>2, AttemptsKept
  <2>2. ASSUME NEW s \in Schedulers, At(s, "commit"), CompleteBlock(sched[s].block, sched[s].attempt)
        PROVE  Untried'
    <3>1. sched[s].block \in Running /\ checkpoint'.next = sched[s].block + 1
      BY <2>2 DEF CompleteBlock, MayComplete
    <3>2. sched[s].block = checkpoint.next
      BY <3>1 DEF QueueInv, InOrder
    <3> QED BY <1>0, <2>1, <3>1, <3>2
  <2>3. CASE checkpoint' = checkpoint
    BY <2>1, <2>3
  <2>4. ASSUME ~ \E s \in Schedulers : At(s, "commit") /\ CompleteBlock(sched[s].block, sched[s].attempt)
        PROVE  checkpoint' = checkpoint
    BY <1>2, <2>4 DEF StoreStep, TransitionCampaign, ClaimCampaign, ReleaseCampaign, RunTrial,
       InterruptBlock, SetProcess, RecoverJobs, FinishWork, store
  <2> QED BY <2>2, <2>3, <2>4
<1> QED BY <1>1, <1>2

\* A row is completed by a commit only.
LEMMA CompletedKept ==
  ASSUME StoreType, SchedType, StoreStep, ~ \E s \in Schedulers : Claim(s),
         ~ \E s \in Schedulers : At(s, "commit") /\ CompleteBlock(sched[s].block, sched[s].attempt)
  PROVE  \A b \in Blocks : rows'[b].status = "completed" <=> rows[b].status = "completed"
<1> USE DEF StoreType
<1>1. CASE RecoverJobs \/ \E b \in Blocks : InterruptBlock(b)
  BY <1>1 DEF RecoverJobs, InterruptBlock, Interrupted, Running
<1>2. ASSUME NEW b \in Blocks, NEW n \in Nat, SetProcess(b, n)
      PROVE  \A c \in Blocks : rows'[c].status = "completed" <=> rows[c].status = "completed"
  BY <1>2 DEF SetProcess, Row
<1>3. CASE \/ \E status \in States : TransitionCampaign(status)
           \/ \E o \in Schedulers \cup {Control} : ClaimCampaign(o) \/ ReleaseCampaign(o)
           \/ RunTrial \/ FinishWork \/ UNCHANGED store
  BY <1>3 DEF TransitionCampaign, ClaimCampaign, ReleaseCampaign, RunTrial, FinishWork, store
<1> QED BY <1>1, <1>2, <1>3 DEF StoreStep

LEMMA AtWorkKept ==
  ASSUME SchedType, RestType, CommandOK, AtWork, [Next]_vars
  PROVE  AtWork' /\ starts <= starts' /\ commands <= commands'
<1> USE DEF RestType, AtWork
<1>1. ASSUME NEW s \in Schedulers, Start(s)
      PROVE  AtWork' /\ starts' = starts + 1 /\ commands' = commands
  BY <1>1 DEF Start
<1>2. ASSUME NEW name \in DOMAIN Program, Give(name)
      PROVE  AtWork' /\ starts' = starts /\ commands' = commands + 1
  BY <1>2 DEF Give, procs, At
<1>3. ASSUME UNCHANGED <<starts, commands>>,
             \E s \in Schedulers : ~At(s, "off") /\ command' = command
      PROVE  AtWork'
  BY <1>3
<1>4. ASSUME NEW s \in Schedulers, Work(s) \/ Interrupt(s) \/ Crash(s)
      PROVE  UNCHANGED <<starts, commands, command>> /\ ~At(s, "off")
  <2>1. UNCHANGED <<starts, commands, command>>
    BY <1>4 DEF Work, Interrupt, Crash, Recover, Own, Enter, Begin, Loop, Claim, ClaimNothing,
       WrapUp, EnsureTrial, Spawn, Attach, AttachRefused, PollControl, PollExit, Kill, Abort,
       Commit, CommitRefused, Finish, Drop, Dead, Decide, Release
  <2>2. ~At(s, "off")
    BY <1>4 DEF Work, Interrupt, Crash, Recover, Own, Enter, Begin, Loop, Claim, ClaimNothing,
       WrapUp, EnsureTrial, Spawn, Attach, AttachRefused, PollControl, PollExit, Kill, Abort,
       Commit, CommitRefused, Finish, Drop, Dead, Decide, Release, At
  <2> QED BY <2>1, <2>2
<1>5. ASSUME CommandStep \/ CommandCrash
      PROVE  UNCHANGED <<starts, commands, sched>> /\ command.todo # <<>>
  <2>1. UNCHANGED <<starts, commands, sched>>
    BY <1>5 DEF CommandStep, CommandCrash, CommandRead, CommandMove, CommandRefused, CommandList,
       CommandTerminate, CommandRecover, CommandOwn, CommandRelease, procs
  <2>2. command.todo # <<>>
    BY <1>5 DEF CommandStep, CommandCrash, CommandRead, CommandMove, CommandRefused, CommandList,
       CommandTerminate, CommandRecover, CommandOwn, CommandRelease, Doing
  <2> QED BY <2>1, <2>2
<1>6. CASE CommandStep \/ CommandCrash
  BY <1>5, <1>6 DEF At
<1>7. CASE MatchEnds \/ UNCHANGED vars
  BY <1>7 DEF MatchEnds, vars, procs, At
<1> QED BY <1>1, <1>2, <1>3, <1>4, <1>6, <1>7 DEF Next

\* What a command has to do of a pause only becomes less, and its move is the last of it.
LEMMA TailOfPause ==
  ASSUME CommandOK, PauseFirst, command.todo # <<>>, Stopping,
         NEW todo, todo = Tail(command.todo), todo # <<>>
  PROVE  /\ \A i \in DOMAIN todo : i > 1 /\ todo[i] \in {"read", "move"} => todo[i - 1] = "read"
         /\ Head(todo) \in {"read", "move"} => Head(command.todo) = "read"
<1>1. /\ command.todo \in Seq(Steps) /\ todo \in Seq(Steps) /\ Len(command.todo) \in Nat \ {0}
      /\ Len(todo) = Len(command.todo) - 1
      /\ DOMAIN todo = 1..Len(todo)
      /\ \A i \in DOMAIN todo : i + 1 \in DOMAIN command.todo /\ todo[i] = command.todo[i + 1]
      /\ Head(command.todo) = command.todo[1]
  BY CommandFacts
<1>2. \A i \in DOMAIN todo : command.todo[i + 1] \in {"read", "move"} => command.todo[i] = "read"
  <2> SUFFICES ASSUME NEW i \in DOMAIN todo, command.todo[i + 1] \in {"read", "move"}
               PROVE  command.todo[i] = "read"
    OBVIOUS
  <2>1. i + 1 \in DOMAIN command.todo /\ i + 1 > 1 /\ (i + 1) - 1 = i
    BY <1>1
  <2> QED BY <2>1 DEF PauseFirst
<1>3. Len(todo) > 0 /\ 1 \in DOMAIN todo /\ Head(todo) = todo[1]
  BY <1>1
<1>4. Head(todo) \in {"read", "move"} => Head(command.todo) = "read"
  BY <1>1, <1>2, <1>3
<1>5. \A i \in DOMAIN todo : i > 1 => i - 1 \in DOMAIN todo /\ todo[i - 1] = command.todo[i]
  BY <1>1
<1> QED BY <1>1, <1>2, <1>4, <1>5

LEMMA PauseKept ==
  ASSUME CommandOK, PauseFirst, [Next]_vars
  PROVE  /\ PauseFirst'
         /\ Pausing' => Pausing \/ \E name \in DOMAIN Program : Give(name)
         /\ CommandMove => ~Pausing'
<1> DEFINE Goal == PauseFirst' /\ (Pausing' => Pausing) /\ (CommandMove => ~Pausing')
<1>1. ASSUME command' = NoCommand
      PROVE  Goal
  BY <1>1 DEF NoCommand, PauseFirst, Pausing, Stopping
<1>2. ASSUME command.todo # <<>>, command'.name = command.name, command'.todo = Tail(command.todo),
             Tail(command.todo) # <<>>
      PROVE  Goal
  <2>1. CASE ~Stopping
    BY <1>2, <2>1 DEF Stopping, PauseFirst, Pausing
  <2>2. CASE Stopping
    <3>1. CommandMove => Head(command.todo) = "move"
      BY DEF CommandMove, Doing
    <3> QED BY <1>2, <2>2, <3>1, TailOfPause DEF Stopping, PauseFirst, Pausing
  <2> QED BY <2>1, <2>2
<1>3. ASSUME command.todo # <<>>, Done
      PROVE  Goal
  <2>1. CASE Tail(command.todo) = <<>>
    BY <1>1, <1>3, <2>1 DEF Done, Then
  <2>2. CASE Tail(command.todo) # <<>>
    <3>1. Tail(command.todo) \in Seq(Steps)
      BY <1>3, CommandFacts
    <3> QED BY <1>2, <1>3, <2>2, <3>1, CommandFacts DEF Done
  <2> QED BY <2>1, <2>2
<1>4. ASSUME CommandMove \/ CommandRecover \/ CommandOwn \/ CommandRelease
      PROVE  Goal
  BY <1>3, <1>4 DEF CommandMove, CommandRecover, CommandOwn, CommandRelease, Doing
<1>6. ASSUME CommandRefused
      PROVE  Goal
  BY <1>1, <1>3, <1>6 DEF CommandRefused, Then, Doing, Done
<1>7. ASSUME CommandCrash
      PROVE  Goal
  BY <1>1, <1>7 DEF CommandCrash, Then
<1>8. ASSUME CommandList \/ CommandTerminate
      PROVE  Goal
  <2>1. /\ command.todo # <<>> /\ Head(command.todo) \in {"list", "terminate"}
        /\ command'.name = command.name /\ command'.todo = Tail(command.todo)
    <3>1. CASE CommandList
      BY <3>1 DEF CommandList, Doing
    <3>2. CASE CommandTerminate
      BY <3>2 DEF CommandTerminate, Doing
    <3> QED BY <1>8, <3>1, <3>2
  <2>2. Tail(command.todo) # <<>>
    BY <2>1, CommandFacts, LessToDo
  <2> QED BY <1>2, <2>1, <2>2
<1>9. ASSUME CommandRead
      PROVE  Goal
  <2>1. command.todo # <<>> /\ Head(command.todo) = "read" /\ Rest(command.name, command.todo)
    BY <1>9, CommandFacts DEF CommandRead, Doing
  <2>2. CASE Then(Tail(command.todo))
    BY <1>3, <2>1, <2>2 DEF Done
  <2>3. CASE Then(Tail(Tail(command.todo)))
    <3> DEFINE rest == Tail(command.todo)
    <3>1. rest # <<>> /\ rest \in Seq(Steps)
      <4>1. rest # <<>> /\ Rest(command.name, rest)
        BY <2>1, LessToDo
      <4> QED BY <4>1 DEF Rest
    <3>2. CASE Tail(rest) = <<>>
      BY <1>1, <2>3, <3>2 DEF Then
    <3>3. CASE Tail(rest) # <<>>
      <4>0. Tail(rest) \in Seq(Steps)
        BY <3>1
      <4>1. command'.name = command.name /\ command'.todo = Tail(rest)
        BY <2>1, <2>3, <3>3, <4>0, CommandFacts
      <4>2. CASE ~Stopping
        BY <4>1, <4>2, <2>1 DEF Stopping, PauseFirst, Pausing, CommandMove, Doing
      <4>3. CASE Stopping
        <5>1. \A i \in DOMAIN rest : i > 1 /\ rest[i] \in {"read", "move"} => rest[i - 1] = "read"
          BY <2>1, <3>1, <4>3, TailOfPause
        <5>2. /\ DOMAIN rest = 1..Len(rest) /\ DOMAIN Tail(rest) = 1..(Len(rest) - 1)
              /\ \A i \in DOMAIN Tail(rest) : Tail(rest)[i] = rest[i + 1]
          BY <3>1
        <5>3. ASSUME NEW i \in DOMAIN Tail(rest), i > 1, Tail(rest)[i] \in {"read", "move"}
              PROVE  Tail(rest)[i - 1] = "read"
          <6>1. i + 1 \in DOMAIN rest /\ i + 1 > 1 /\ (i + 1) - 1 = i /\ i - 1 \in DOMAIN Tail(rest)
            BY <5>2, <5>3
          <6>2. rest[i] = "read"
            BY <5>1, <5>2, <5>3, <6>1
          <6>3. Tail(rest)[i - 1] = rest[(i - 1) + 1] /\ (i - 1) + 1 = i
            BY <5>2, <6>1
          <6> QED BY <6>2, <6>3
        <5>4. PauseFirst'
          BY <4>1, <5>3 DEF PauseFirst
        <5>5. Pausing /\ ~CommandMove
          BY <2>1, <4>3 DEF Pausing, CommandMove, Doing
        <5> QED BY <5>4, <5>5
      <4> QED BY <4>2, <4>3
    <3> QED BY <3>2, <3>3
  <2> QED BY <1>9, <2>2, <2>3 DEF CommandRead
<1>10. ASSUME NEW name \in DOMAIN Program, Give(name)
       PROVE  PauseFirst'
  <2>1. command' = [name |-> name, todo |-> Program[name], targets |-> {}] /\ command.todo = <<>>
    BY <1>10 DEF Give
  <2>2. name \in {"pause", "stop"} => Program[name] = <<"read", "move", "list", "terminate", "recover">>
    BY DEF Program
  <2>3. command'.name = name /\ command'.todo = Program[name]
    BY <2>1
  <2> QED BY <2>1, <2>2, <2>3 DEF PauseFirst, Stopping
<1>11. ASSUME command' = command
       PROVE  PauseFirst' /\ (Pausing' => Pausing)
  BY <1>11 DEF PauseFirst, Pausing, Stopping
<1>12. ASSUME NEW s \in Schedulers, Start(s) \/ Work(s) \/ Interrupt(s) \/ Crash(s)
       PROVE  command' = command
  BY <1>12 DEF Start, Work, Interrupt, Crash, Recover, Own, Enter, Begin, Loop, Claim, ClaimNothing,
               WrapUp, EnsureTrial, Spawn, Attach, AttachRefused, PollControl, PollExit, Kill,
               Abort, Commit, CommitRefused, Finish, Drop, Dead, Decide, Release
<1>13. ASSUME MatchEnds \/ UNCHANGED vars
       PROVE  PauseFirst' /\ (Pausing' => Pausing)
  BY <1>11, <1>13 DEF MatchEnds, vars
<1>14. PauseFirst' /\ (Pausing' => Pausing \/ \E name \in DOMAIN Program : Give(name))
  BY <1>4, <1>6, <1>7, <1>8, <1>9, <1>10, <1>11, <1>12, <1>13 DEF Next, CommandStep
<1> QED
  BY <1>4, <1>14

\* A scheduler gets where it may claim by being started, or by a pause.
LEMMA ClaimingKept ==
  ASSUME StoreType, SchedType, OneScheduler, CommandOK, [Next]_vars,
         ~ \E s \in Schedulers : Claim(s) \/ Commit(s)
  PROVE  \/ Claiming' => Claiming
         \/ \E s \in Schedulers : Start(s)
         \/ CommandMove /\ Pausing
<1> DEFINE Goal == Claiming' => Claiming
<1>0. /\ "completed" \in Terminal /\ "running" \notin Terminal
      /\ \A status \in Terminal : CampaignMoves[status] = {}
  BY DEF Terminal, CampaignMoves
<1>1. ASSUME NEW s \in Schedulers, NEW pc \in PCs,
             sched'[s].pc = pc, \A t \in Schedulers \ {s} : sched'[t] = sched[t],
             campaign' \in {campaign, "completed"},
             MayClaim(pc, campaign) => MayClaim(sched[s].pc, campaign)
      PROVE  Goal
  <2>1. \A p : MayClaim(p, campaign') => MayClaim(p, campaign)
    BY <1>0, <1>1 DEF MayClaim
  <2> QED BY <1>1, <2>1 DEF Claiming
<1>2. ASSUME NEW s \in Schedulers, NEW pc \in PCs, Goto(s, pc),
             campaign' \in {campaign, "completed"},
             MayClaim(pc, campaign) => MayClaim(sched[s].pc, campaign)
      PROVE  Goal
  BY <1>1, <1>2, GotoFacts
<1>3. ASSUME NEW s \in Schedulers, NEW pc \in PCs, Leave(s, pc),
             campaign' \in {campaign, "completed"},
             MayClaim(pc, campaign) => MayClaim(sched[s].pc, campaign)
      PROVE  Goal
  BY <1>1, <1>3, LeaveFacts
<1>4. \A status :
        /\ \A pc \in Eager : MayClaim(pc, status) <=> status \notin Terminal
        /\ \A pc \in {"trial", "spawn", "attach", "poll", "abort", "commit", "dead", "decide"} :
             MayClaim(pc, status) <=> status \notin Terminal /\ status # "running"
        /\ \A pc \in {"off", "wrap up", "release"} : ~MayClaim(pc, status)
  BY DEF MayClaim, Eager, WithBlock
<1>5. /\ \A pc \in {"recover", "own", "enter", "begin", "loop", "claim"} : pc \in Eager
      /\ \A pc \in {"kill", "drop", "finish"} : pc \in Eager
  BY DEF Eager
<1>6. ASSUME NEW s \in Schedulers, Recover(s) \/ Own(s) \/ Enter(s)
      PROVE  Goal
  BY <1>2, <1>4, <1>5, <1>6, Places
     DEF Recover, RecoverJobs, Own, ClaimCampaign, Enter, store, At
<1>7. ASSUME NEW s \in Schedulers, Begin(s)
      PROVE  Goal
  <2>1. sched[s].pc = "begin" /\ MoveAllowed("running")
    BY <1>7 DEF Begin, TransitionCampaign, At
  <2>2. campaign \notin Terminal
    BY <1>0, <2>1 DEF MoveAllowed
  <2>3. MayClaim(sched[s].pc, campaign)
    BY <1>4, <1>5, <2>1, <2>2
  <2> QED BY <2>3 DEF Claiming
<1>8. ASSUME NEW s \in Schedulers, Loop(s) \/ ClaimNothing(s) \/ WrapUp(s)
      PROVE  Goal
  BY <1>2, <1>4, <1>5, <1>8, Places DEF Loop, ClaimNothing, WrapUp, FinishWork, store, At
<1>9. ASSUME NEW s \in Schedulers, EnsureTrial(s) \/ Spawn(s) \/ Attach(s) \/ AttachRefused(s)
      PROVE  Goal
  BY <1>2, <1>4, <1>9, Places
     DEF EnsureTrial, RunTrial, Spawn, Attach, SetProcess, AttachRefused, store, At
<1>10. ASSUME NEW s \in Schedulers, PollControl(s)
       PROVE  Goal
  BY <1>2, <1>4, <1>5, <1>10, Places DEF PollControl, Controlled, store, At
<1>11. ASSUME NEW s \in Schedulers, PollExit(s)
       PROVE  Goal
  BY <1>2, <1>4, <1>5, <1>11, Places DEF PollExit, store, At
<1>12. ASSUME NEW s \in Schedulers, Kill(s) \/ Abort(s) \/ CommitRefused(s)
       PROVE  Goal
  BY <1>2, <1>4, <1>5, <1>12, Places DEF Kill, Abort, CommitRefused, store, At
<1>13. ASSUME NEW s \in Schedulers, Finish(s) \/ Drop(s) \/ Dead(s)
       PROVE  Goal
  BY <1>3, <1>4, <1>5, <1>13, Places DEF Finish, FinishWork, Drop, Dead, InterruptBlock, At
<1>14. ASSUME NEW s \in Schedulers, Decide(s)
       PROVE  Goal
  BY <1>2, <1>4, <1>5, <1>14, Places DEF Decide, MayRetry, Terminal, store, At
<1>15. ASSUME NEW s \in Schedulers, Release(s) \/ Interrupt(s) \/ Crash(s)
       PROVE  Goal
  BY <1>2, <1>3, <1>4, <1>15, Places DEF Release, ReleaseCampaign, Interrupt, Crash, store, At
<1>16. CASE sched' = sched /\ campaign' = campaign
  BY <1>16 DEF Claiming
<1>17. CASE MatchEnds \/ UNCHANGED vars \/ CommandCrash \/ \E name \in DOMAIN Program : Give(name)
  BY <1>16, <1>17 DEF MatchEnds, CommandCrash, Give, vars, store, procs
<1>18. CASE CommandRead \/ CommandRefused \/ CommandList \/ CommandTerminate
  BY <1>16, <1>18 DEF CommandRead, CommandRefused, CommandList, CommandTerminate, store, procs
<1>19. CASE CommandRecover \/ CommandOwn \/ CommandRelease
  BY <1>16, <1>19 DEF CommandRecover, RecoverJobs, CommandOwn, ClaimCampaign, CommandRelease,
     ReleaseCampaign, procs
<1>20. CASE CommandMove
  <2>1. command.todo # <<>> /\ Head(command.todo) = "move" /\ sched' = sched
        /\ MoveAllowed(Target[command.name]) /\ campaign' = Target[command.name]
    BY <1>20 DEF CommandMove, Doing, TransitionCampaign, procs
  <2>2. command.name \in Names
    BY <2>1, CommandFacts
  <2>3. CASE Stopping
    BY <1>20, <2>1, <2>3 DEF Pausing
  <2>4. CASE ~Stopping
    <3>1. Target[command.name] = "running"
      BY <2>2, <2>4 DEF Stopping, Names, Target
    <3>2. campaign \notin Terminal
      BY <1>0, <2>1, <3>1 DEF MoveAllowed
    <3>3. \A pc : MayClaim(pc, "running") => MayClaim(pc, campaign)
      BY <3>2 DEF MayClaim
    <3> QED BY <2>1, <3>1, <3>3 DEF Claiming
  <2> QED BY <2>3, <2>4
<1> QED
  BY <1>6, <1>7, <1>8, <1>9, <1>10, <1>11, <1>12, <1>13, <1>14, <1>15, <1>17, <1>18, <1>19, <1>20
     DEF Next, Work, CommandStep

\* What a step adds to the claims that may come, it adds to the starts and commands.
LEMMA SpareKept ==
  ASSUME TypeInv, OneScheduler, PauseFirst, AtWork, [Next]_vars,
         ~ \E s \in Schedulers : Claim(s) \/ Commit(s)
  PROVE  \E m \in Nat, n \in Nat :
           m = Spare' /\ n = Spare /\ m + (starts + commands) <= n + (starts' + commands')
<1>1. starts \in Nat /\ commands \in Nat /\ starts' \in Nat /\ commands' \in Nat
  BY RestTyped DEF TypeInv, RestType
<1>2. starts <= starts' /\ commands <= commands'
  BY AtWorkKept DEF TypeInv
<1>3. /\ starts + commands \in Nat /\ starts' + commands' \in Nat
      /\ starts + commands <= starts' + commands'
  <2>1. \A a, b \in Nat : a + b \in Nat
    OBVIOUS
  <2> QED BY <1>1, <1>2, <2>1, Sums
<1>4. PICK m \in Nat, n \in Nat : m = Spare' /\ n = Spare
  BY SpareFacts
<1>5. /\ m = 0 \/ m = 1 \/ m = 2
      /\ ~Pausing' => m = 0 \/ m = 1
      /\ ~Claiming' => m = 0 \/ m = 1
      /\ n = 0 \/ n = 1 \/ n = 2
      /\ Pausing \/ Claiming => n = 1 \/ n = 2
      /\ Pausing /\ Claiming => n = 2
      /\ Claiming' /\ Pausing' => m = 2
      /\ ~Claiming' /\ ~Pausing' => m = 0
  BY <1>4, SpareFacts
<1>6. CASE \E s \in Schedulers : Start(s)
  <2>1. starts' = starts + 1 /\ commands' = commands /\ command' = command
    BY <1>6 DEF Start
  <2>2. Pausing' => Pausing
    BY <2>1 DEF Pausing, Stopping
  <2>3. m <= n + 1
    BY <1>5, <2>2
  <2> QED BY <1>1, <1>4, <2>1, <2>3
<1>7. CASE \E name \in DOMAIN Program : Give(name)
  <2>1. commands' = commands + 1 /\ starts' = starts /\ (Claiming' => Claiming)
    BY <1>7 DEF Give, Claiming, store, procs
  <2>2. m <= n + 1
    BY <1>5, <2>1
  <2> QED BY <1>1, <1>4, <2>1, <2>2
<1>8. CASE CommandMove /\ Pausing
  <2>1. ~Pausing'
    BY <1>8, PauseKept DEF TypeInv
  <2>2. m <= n
    BY <1>5, <1>8, <2>1
  <2>3. m + (starts + commands) <= n + (starts' + commands')
    BY <1>3, <2>2, Sums
  <2> QED BY <1>4, <2>3
<1>9. CASE (Claiming' => Claiming) /\ (Pausing' => Pausing)
  <2>1. m <= n
    BY <1>5, <1>9
  <2>2. m + (starts + commands) <= n + (starts' + commands')
    BY <1>3, <2>1, Sums
  <2> QED BY <1>4, <2>2
<1> QED BY <1>6, <1>7, <1>8, <1>9, ClaimingKept, PauseKept DEF TypeInv

LEMMA BudgetKept ==
  ASSUME TypeInv, OneScheduler, QueueInv, AttemptInv, StoreStep, [Next]_vars,
         StoreType', AtWork', Untried', RestType'
  PROVE  Budget'
<1> USE DEF AttemptInv
<1> DEFINE paid == starts + commands
<1>1. /\ starts \in Nat /\ commands \in Nat /\ starts' \in Nat /\ commands' \in Nat
      /\ paid <= paid'
      /\ \A b \in Blocks : b \in Nat /\ rows[b].attempt \in Nat /\ rows'[b].attempt \in Nat
  <2>1. starts <= starts' /\ commands <= commands'
    BY AtWorkKept DEF TypeInv
  <2>2. starts \in Nat /\ commands \in Nat /\ starts' \in Nat /\ commands' \in Nat
    BY DEF TypeInv, RestType
  <2>3. paid <= paid'
    BY <2>1, <2>2, Sums
  <2>4. \A b \in Blocks : b \in Nat /\ rows[b].attempt \in Nat /\ rows'[b].attempt \in Nat
    BY StoreAssumption DEF TypeInv, StoreType, Row, Blocks
  <2> QED BY <2>2, <2>3, <2>4
<1>0. paid \in Nat /\ paid' \in Nat
  <2>1. starts \in Nat /\ commands \in Nat /\ starts' \in Nat /\ commands' \in Nat
    BY DEF TypeInv, RestType
  <2> QED BY <2>1, Sums
<1>2. ASSUME NEW s \in Schedulers, Claim(s)
      PROVE  Budget'
  <2> PICK b \in Blocks :
         /\ ClaimBlock(b)
         /\ sched' = [sched EXCEPT ![s] = [pc |-> "trial", block |-> b,
                                          attempt |-> rows[b].attempt + 1]]
    BY <1>2 DEF Claim
  <2>1. UNCHANGED <<starts, commands, command, campaign>> /\ campaign = "running"
    BY <1>2 DEF Claim, ClaimBlock, Claimable
  <2>2. Claiming
    BY <2>1, <1>2 DEF Claiming, MayClaim, Eager, Claim, At, Terminal
  <2>3. ~Claiming'
    <3>1. sched'[s].pc = "trial" /\ \A t \in Schedulers \ {s} : sched'[t].pc = "off"
      BY <1>2 DEF Claim, OneScheduler, At, TypeInv, SchedType
    <3> QED BY <2>1, <3>1, Places DEF Claiming, MayClaim, Eager
  <2>4. Pausing' <=> Pausing
    BY <2>1 DEF Pausing, Stopping
  <2>5. /\ rows[b].status # "completed" /\ rows'[b].attempt = rows[b].attempt + 1
        /\ \A c \in Blocks \ {b} : rows'[c] = rows[c]
    BY DEF ClaimBlock, Claimable, Runnable, TypeInv, StoreType
  <2>6. PICK m \in Nat, n \in Nat : m = Spare' /\ n = Spare /\ m <= n /\ n = m + 1
    <3>1. PICK m \in Nat, n \in Nat : m = Spare' /\ n = Spare
      BY SpareFacts
    <3>2. (Pausing' /\ m = 1 /\ n = 2) \/ (~Pausing' /\ m = 0 /\ n = 1)
      BY <2>2, <2>3, <2>4, <3>1, SpareFacts
    <3>3. m <= n /\ n = m + 1
      BY <3>2
    <3> QED BY <3>1, <3>3
  <2>9. /\ rows[b].attempt + n <= paid
        /\ \A c \in Blocks : rows[c].attempt <= paid
        /\ \A c \in Blocks : rows[c].status # "completed" => rows[c].attempt + n <= paid
    BY <2>5, <2>6 DEF Budget
  <2> SUFFICES ASSUME NEW c \in Blocks
               PROVE  /\ rows'[c].attempt <= paid'
                      /\ rows'[c].status # "completed" => rows'[c].attempt + Spare' <= paid'
    BY DEF Budget
  <2>7. CASE c = b
    <3>1. rows'[c].attempt + m <= paid'
      BY <1>1, <2>1, <2>5, <2>6, <2>7, <2>9
    <3> QED BY <1>1, <2>6, <3>1
  <2>8. CASE c # b
    <3>1. rows'[c].attempt <= paid' /\ (rows'[c].status # "completed" => rows'[c].attempt + m <= paid')
      BY <1>1, <2>1, <2>5, <2>6, <2>8, <2>9
    <3> QED BY <2>6, <3>1
  <2> QED BY <2>7, <2>8
<1>3. ASSUME NEW s \in Schedulers, At(s, "commit"), CompleteBlock(sched[s].block, sched[s].attempt)
      PROVE  Budget'
  <2> PICK b \in Blocks : b = sched[s].block
    BY <1>3, Places DEF At, TypeInv, SchedType
  <2>2. /\ b = checkpoint.next /\ checkpoint'.next = b + 1
        /\ rows'[b].attempt = rows[b].attempt /\ rows'[b].status = "completed"
        /\ \A c \in Blocks \ {b} : rows'[c] = rows[c]
    BY <1>3 DEF CompleteBlock, MayComplete, QueueInv, InOrder, TypeInv, StoreType
  <2>3. \E m \in Nat : m = Spare' /\ m <= paid'
    <3>1. starts' > 0
      BY <1>1, <1>3, AtWorkKept DEF TypeInv, At, AtWork
    <3>2. Pausing' => commands' > 0
      BY DEF Pausing, AtWork
    <3>3. PICK m \in Nat : m = Spare'
      BY SpareFacts
    <3>4. (m = 0 \/ m = 1 \/ m = 2) /\ (~Pausing' => m = 0 \/ m = 1)
      BY <3>3, SpareFacts
    <3>5. m <= starts' + commands'
      <4>1. m = 0 \/ (m = 1 /\ starts' > 0) \/ (m = 2 /\ starts' > 0 /\ commands' > 0)
        BY <3>1, <3>2, <3>4
      <4> QED BY <1>1, <3>3, <4>1, Sums
    <3> QED BY <3>3, <3>5
  <2>4. \A c \in Blocks : rows'[c].status # "completed" => rows'[c].attempt = 0
    <3>1. \A c \in Blocks : c < b => rows[c].status = "completed"
      BY <2>2 DEF QueueInv, ResultsCounted
    <3>2. \A c \in Blocks : c > b => rows'[c].attempt = 0
      BY <1>1, <2>2 DEF Untried
    <3> QED BY <1>1, <2>2, <3>1, <3>2
  <2>5. \A c \in Blocks : rows'[c].attempt = rows[c].attempt
    BY <2>2
  <2>6. \A c \in Blocks : rows[c].attempt <= paid
    BY DEF Budget
  <2> SUFFICES ASSUME NEW c \in Blocks
               PROVE  /\ rows'[c].attempt <= paid'
                      /\ rows'[c].status # "completed" => rows'[c].attempt + Spare' <= paid'
    BY DEF Budget
  <2>7. rows'[c].attempt <= paid'
    BY <1>1, <2>5, <2>6
  <2>8. rows'[c].status # "completed" => rows'[c].attempt + Spare' <= paid'
    <3>1. PICK m \in Nat : m = Spare' /\ m <= paid'
      BY <2>3
    <3>2. rows'[c].status # "completed" => rows'[c].attempt + m <= paid'
      BY <2>4, <3>1
    <3> QED BY <3>1, <3>2
  <2> QED BY <2>7, <2>8
<1>4. ASSUME ~ \E s \in Schedulers : Claim(s),
             ~ \E s \in Schedulers : At(s, "commit") /\ CompleteBlock(sched[s].block, sched[s].attempt)
      PROVE  Budget'
  <2>1. PICK m \in Nat, n \in Nat : m = Spare' /\ n = Spare /\ m + paid <= n + paid'
    BY <1>4, SpareKept DEF Commit
  <2>2. \A b \in Blocks : /\ rows'[b].attempt = rows[b].attempt
                          /\ rows'[b].status = "completed" <=> rows[b].status = "completed"
    BY <1>4, AttemptsKept, CompletedKept DEF TypeInv
  <2>3. \A b \in Blocks : /\ rows[b].attempt <= paid
                          /\ rows[b].status # "completed" => rows[b].attempt + n <= paid
    BY <2>1 DEF Budget
  <2>4. \A b \in Blocks : /\ rows'[b].attempt <= paid'
                          /\ rows'[b].status # "completed" => rows'[b].attempt + m <= paid'
    <3> SUFFICES ASSUME NEW b \in Blocks
                 PROVE  /\ rows'[b].attempt <= paid'
                        /\ rows'[b].status # "completed" => rows'[b].attempt + m <= paid'
      OBVIOUS
    <3>1. rows[b].attempt <= paid /\ rows'[b].attempt = rows[b].attempt
      BY <2>2, <2>3
    <3>2. rows'[b].attempt <= paid'
      <4> HIDE DEF paid
      <4>1. rows[b].attempt \in Nat
        BY <1>1
      <4> QED BY <1>1, <1>0, <3>1, <4>1, Sums
    <3>3. ASSUME rows'[b].status # "completed"
          PROVE  rows'[b].attempt + m <= paid'
      <4>1. rows[b].attempt + n <= paid
        BY <2>2, <2>3, <3>3
      <4>2. m + paid <= n + paid'
        BY <2>1
      <4>3. rows[b].attempt \in Nat
        BY <1>1
      <4> HIDE DEF paid
      <4> QED BY <1>0, <3>1, <4>1, <4>2, <4>3, Sums
    <3> QED BY <3>2, <3>3
  <2> QED BY <2>1, <2>4 DEF Budget
<1> QED BY <1>2, <1>3, <1>4
-----------------------------------------------------------------------------
IInv ==
  /\ TypeInv /\ OneScheduler
  /\ HoldsAttempt /\ QueueInv
  /\ MatchInv
  /\ QuietMeansNoBlock
  /\ OwnerIsActive
  /\ AttemptInv

(* The inductive invariant: what a command has left to do, one scheduler,  *)
(* the attempt it holds, the rows in order, the matches it knows to be     *)
(* over, the quiet, the owner, and who pays for the attempts.              *)
THEOREM Inductive == Spec => []IInv
<1>1. Init => TypeInv
  <2> SUFFICES ASSUME Init PROVE TypeInv
    OBVIOUS
  <2>1. StoreType
    BY StoreAssumption DEF Init, StoreInit, StoreType, Row, States
  <2>2. SchedType
    BY Places DEF Init, SchedType, Idle, Match
  <2>3. MatchType /\ RestType /\ CommandOK
    BY DEF Init, MatchType, RestType, CommandOK
  <2> QED BY <2>1, <2>2, <2>3 DEF TypeInv
<1>2. Init => IInv
  <2> SUFFICES ASSUME Init PROVE IInv
    OBVIOUS
  <2>1. OneScheduler /\ HoldsAttempt
    BY Places DEF Init, Idle, OneScheduler, HoldsAttempt, At
  <2>2. QueueInv
    BY StoreAssumption DEF Init, StoreInit, QueueInv, Statuses, ResultsCounted, InOrder, Running, Blocks
  <2>3. MatchInv
    BY DEF Init, MatchInv, NoStrayMatch
  <2>4. QuietMeansNoBlock /\ OwnerIsActive
    BY DEF Init, StoreInit, QuietMeansNoBlock, OwnerIsActive
  <2>5. Untried /\ AtWork /\ PauseFirst
    BY DEF Init, StoreInit, Untried, AtWork, PauseFirst, Stopping, NoCommand, Idle, At
  <2>6. Budget
    <3>1. ~Claiming /\ ~Pausing
      BY Places DEF Init, Claiming, MayClaim, Eager, Idle, Pausing, Stopping, NoCommand
    <3> QED BY <3>1 DEF Init, StoreInit, Budget, Spare, Count
  <2> QED BY <1>1, <2>1, <2>2, <2>3, <2>4, <2>5, <2>6 DEF IInv, AttemptInv
<1>3. TypeInv /\ [Next]_vars => TypeInv' /\ StoreStep /\ SchedStep
  BY StoreSteps, StoreTyped, SchedSteps, SchedTyped, MatchTyped, CommandTyped, RestTyped DEF TypeInv
<1>4. IInv /\ [Next]_vars => AttemptInv'
  <2> SUFFICES ASSUME IInv, [Next]_vars PROVE AttemptInv'
    OBVIOUS
  <2>1. TypeInv' /\ StoreStep
    BY <1>3 DEF IInv
  <2>2. Untried' /\ AtWork' /\ PauseFirst'
    BY <2>1, UntriedKept, AtWorkKept, PauseKept DEF IInv, TypeInv, AttemptInv
  <2> QED BY <2>1, <2>2, BudgetKept DEF IInv, TypeInv, AttemptInv
<1>5. IInv /\ [Next]_vars => IInv'
  BY <1>3, <1>4, SchedulersAlone, AttemptsHeld, QueueKept, MatchesKept, QuietKept, OwnersKept
     DEF IInv, TypeInv
<1> QED BY <1>2, <1>5, PTL DEF Spec

(* Every variable keeps its type, and a scheduler has a block exactly while *)
(* it is in _run_block, whatever is interrupted or killed.                  *)
THEOREM TypeCorrect == Spec => []TypeOK
<1>1. IInv => TypeOK
  BY TypeInvTypes DEF IInv
<1> QED BY <1>1, Inductive, PTL

(* The games of a block are counted once, when it is completed, and the    *)
(* checkpoint stands between the completed blocks and the others.          *)
THEOREM CountedOnce == Spec => []ResultsCounted
<1>1. IInv => ResultsCounted
  BY DEF IInv, QueueInv
<1> QED BY <1>1, Inductive, PTL

(* A block is tried again only because a scheduler was started or a        *)
(* command given: no monitor that dies is retried for ever, whatever       *)
(* status a scheduler has read and another has changed since.              *)
THEOREM AttemptsArePaidFor == Spec => []AttemptsAccounted
<1>1. IInv => AttemptsAccounted
  BY DEF IInv, AttemptInv, Budget, AttemptsAccounted
<1> QED BY <1>1, Inductive, PTL

(* Only a kill leaves a match without a scheduler, or the campaign with an *)
(* owner who is no longer at work, and after a pause or a stop no block is *)
(* running until somebody resumes.                                         *)
THEOREM LeavesNothing == Spec => []NothingLeftBehind
<1>1. IInv => NothingLeftBehind
  BY DEF IInv, MatchInv, NothingLeftBehind
<1> QED BY <1>1, Inductive, PTL

(* The rows of the store are a queue of blocks that are played in order,   *)
(* one at a time, each to completion once.                                 *)
THEOREM Refinement == Spec => IsBlockQueue
<1>1. Init => Queue!Init
  BY DEF Init, StoreInit, Queue!Init, Queue!Blocks, Blocks, QueueState
<1>2. IInv /\ [Next]_vars => [Queue!Next]_QueueState
  BY StoreSteps, QueueSteps DEF IInv, TypeInv
<1> QED BY <1>1, <1>2, Inductive, PTL DEF Spec, IsBlockQueue, Queue!Spec
=============================================================================
