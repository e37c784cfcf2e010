------------------------- MODULE CampaignScheduler -------------------------
(***************************************************************************)
(* A campaign of the optimizer being played: schedulers (scheduler.py),    *)
(* one at a time by a file lock, that run one match after the other as     *)
(* child processes, and the commands of another terminal (service.py), one *)
(* at a time by another lock.  They meet in the store only.  A scheduler   *)
(* or a command can be killed between any two of its transactions; its     *)
(* locks go with it, a match it has started does not.                      *)
(***************************************************************************)
EXTENDS CampaignStore, Sequences

CONSTANTS
  MaxStarts,    \* schedulers that are ever started
  MaxCommands   \* commands that are ever given

ASSUME BoundsAssumption == MaxStarts \in Nat /\ MaxCommands \in Nat

\* Schedulers in the order of their start; each has a token of its own, and the
\* run command has another.
Schedulers == 1..MaxStarts
Control    == 0

VARIABLES
  sched,     \* what each scheduler does, and with which block and attempt
  exit,      \* how the match of a scheduler has ended, for its parent only
  playing,   \* the matches in progress, as <<block, attempt>>: process groups
  command,   \* the command in progress: what it has still to do
  starts, commands,
  orphans,   \* history: the matches whose scheduler was killed
  killed,    \* history: the owners that were killed with the campaign claimed
  quiet      \* history: a pause or stop is over and nobody has resumed since

procs   == <<sched, exit, playing>>
history == <<orphans, killed, quiet>>
vars    == <<store, procs, command, starts, commands, history>>

Idle == [pc |-> "off", block |-> 0, attempt |-> 0]

NoCommand == [name |-> "none", todo |-> <<>>, targets |-> {}]

Match(s) == <<sched[s].block, sched[s].attempt>>

At(s, pc) == sched[s].pc = pc

Goto(s, pc) == sched' = [sched EXCEPT ![s].pc = pc]

\* Mutant: the groups are stopped before the status is changed.
StopFirst ==
  [pause  |-> <<"list", "terminate", "recover", "read", "move">>,
   stop   |-> <<"list", "terminate", "recover", "read", "move">>,
   resume |-> <<"list", "terminate", "recover", "move">>,
   run    |-> <<"own", "recover", "read", "move", "release">>]

\* What a control command does, one transaction or signal after the other.
Program ==
  [pause  |-> <<"read", "move", "list", "terminate", "recover">>,
   stop   |-> <<"read", "move", "list", "terminate", "recover">>,
   resume |-> <<"list", "terminate", "recover", "move">>,
   run    |-> <<"own", "recover", "read", "move", "release">>]

Target == [pause |-> "paused", stop |-> "interrupted", resume |-> "running", run |-> "running"]

\* The statuses that a command leaves as they are.
Leaves ==
  [pause |-> Terminal \cup {"paused", "interrupted"},
   stop  |-> Terminal \cup {"interrupted"},
   run   |-> Terminal \cup {"running"}]

Init ==
  /\ StoreInit
  /\ sched = [s \in Schedulers |-> Idle]
  /\ exit = [s \in Schedulers |-> "none"]
  /\ playing = {}
  /\ command = NoCommand
  /\ starts = 0 /\ commands = 0
  /\ orphans = {} /\ killed = {} /\ quiet = FALSE

-----------------------------------------------------------------------------
\* terminate_process_group: whoever waits for one of these sees it fail.
Terminate(matches) ==
  /\ playing' = playing \ matches
  /\ exit' = [s \in Schedulers |->
                IF Match(s) \in matches \cap playing THEN "failed" ELSE exit[s]]

\* A match ends by itself: with a valid result, or else (an exit with another
\* status and an exit without a valid result take the same course).
MatchEnds ==
  \E m \in playing, e \in {"ok", "failed"} :
    /\ playing' = playing \ {m}
    /\ exit' = [s \in Schedulers |-> IF Match(s) = m THEN e ELSE exit[s]]
    /\ UNCHANGED <<store, sched, command, starts, commands, history>>

-----------------------------------------------------------------------------
(* The scheduler.                                                          *)

\* Mutant: nobody takes scheduler.lock.
AlwaysFree == TRUE

\* scheduler_lock
Unlocked == \A s \in Schedulers : At(s, "off")

Start(s) ==
  /\ Unlocked
  /\ s = starts + 1
  /\ starts' = s
  /\ Goto(s, "recover")
  /\ UNCHANGED <<store, exit, playing, command, commands, history>>

Recover(s) ==
  /\ At(s, "recover") /\ RecoverJobs
  /\ Goto(s, "own")
  /\ UNCHANGED <<exit, playing, command, starts, commands, history>>

Own(s) ==
  /\ At(s, "own") /\ ClaimCampaign(s)
  /\ Goto(s, "enter")
  /\ killed' = {}
  /\ UNCHANGED <<exit, playing, command, starts, commands, orphans, quiet>>

\* _enter_running_state reads the status in one transaction,
Enter(s) ==
  /\ At(s, "enter")
  /\ Goto(s, IF campaign \in Terminal THEN "release"
             ELSE IF campaign = "running" THEN "loop" ELSE "begin")
  /\ UNCHANGED <<store, exit, playing, command, starts, commands, history>>

\* and makes it running in another.
Begin(s) ==
  /\ At(s, "begin") /\ TransitionCampaign("running")
  /\ Goto(s, "loop")
  /\ quiet' = FALSE
  /\ UNCHANGED <<exit, playing, command, starts, commands, orphans, killed>>

\* Mutant: interrupted is waited out like paused.
LeavesTerminal == campaign \in Terminal

\* The statuses at which run returns; it waits while paused.
LoopReturns == campaign \in Terminal \cup {"interrupted"}

Loop(s) ==
  /\ At(s, "loop")
  /\ \/ LoopReturns /\ Goto(s, "release")
     \/ campaign = "running" /\ Goto(s, "claim")
  /\ UNCHANGED <<store, exit, playing, command, starts, commands, history>>

Claim(s) ==
  /\ At(s, "claim")
  /\ \E b \in Blocks :
       /\ ClaimBlock(b)
       /\ sched' = [sched EXCEPT ![s] = [pc |-> "trial", block |-> b,
                                         attempt |-> rows[b].attempt + 1]]
  /\ UNCHANGED <<exit, playing, command, starts, commands, history>>

\* No block: all are done, or the campaign is no more running.  (A block that is
\* running would make claim_next_block raise CampaignBusy.)
ClaimNothing(s) ==
  /\ At(s, "claim")
  /\ ~ \E b \in Blocks : Claimable(b)
  /\ Goto(s, IF campaign = "running" /\ Running # {} THEN "release" ELSE "wrap up")
  /\ UNCHANGED <<store, exit, playing, command, starts, commands, history>>

\* The campaign is finished, or run raises an error.
WrapUp(s) ==
  /\ At(s, "wrap up") /\ FinishWork
  /\ Goto(s, "release")
  /\ UNCHANGED <<exit, playing, command, starts, commands, history>>

\* _ensure_trial_running
EnsureTrial(s) ==
  /\ At(s, "trial") /\ RunTrial
  /\ Goto(s, "spawn")
  /\ UNCHANGED <<exit, playing, command, starts, commands, history>>

\* Popen, in a session of its own; it may fail.
Spawn(s) ==
  /\ At(s, "spawn")
  /\ \/ playing' = playing \cup {Match(s)} /\ Goto(s, "attach")
     \/ UNCHANGED playing /\ Goto(s, "abort")
  /\ exit' = [exit EXCEPT ![s] = "none"]
  /\ UNCHANGED <<store, command, starts, commands, history>>

Attach(s) ==
  /\ At(s, "attach")
  /\ SetProcess(sched[s].block, sched[s].attempt)
  /\ Goto(s, "poll")
  /\ UNCHANGED <<exit, playing, command, starts, commands, history>>

\* set_block_process raises: somebody has interrupted the block.
AttachRefused(s) ==
  /\ At(s, "attach") /\ sched[s].block \notin Running
  /\ Goto(s, "abort")
  /\ UNCHANGED <<store, exit, playing, command, starts, commands, history>>

Controlled == campaign # "running"

\* The match seems to be going on, and the status is read.
PollControl(s) ==
  /\ At(s, "poll") /\ Controlled
  /\ Goto(s, "kill")
  /\ UNCHANGED <<store, exit, playing, command, starts, commands, history>>

\* The match has ended; then the status is read.
PollExit(s) ==
  /\ At(s, "poll") /\ exit[s] # "none"
  /\ Goto(s, IF campaign # "running" THEN "drop" ELSE
             IF exit[s] = "ok" THEN "commit" ELSE "dead")
  /\ UNCHANGED <<store, exit, playing, command, starts, commands, history>>

Kill(s) ==
  /\ At(s, "kill") /\ Terminate({Match(s)})
  /\ Goto(s, "drop")
  /\ UNCHANGED <<store, command, starts, commands, history>>

\* Mutant: an aborted block leaves its match alone.
LetPlay(s) == UNCHANGED <<exit, playing>>

\* An exception in _run_block: the match, if there is one, goes too.
AbortMatch(s) == Terminate({Match(s)})

Abort(s) ==
  /\ At(s, "abort") /\ AbortMatch(s)
  /\ Goto(s, "dead")
  /\ UNCHANGED <<store, command, starts, commands, history>>

Commit(s) ==
  /\ At(s, "commit")
  /\ CompleteBlock(sched[s].block, sched[s].attempt)
  /\ Goto(s, "finish")
  /\ UNCHANGED <<exit, playing, command, starts, commands, history>>

\* complete_block_atomically raises InvalidTransition.
CommitRefused(s) ==
  /\ At(s, "commit") /\ ~MayComplete(sched[s].block)
  /\ Goto(s, "dead")
  /\ UNCHANGED <<store, exit, playing, command, starts, commands, history>>

\* _run_block is left: the scheduler has no block any more.
Leave(s, pc) ==
  /\ sched' = [sched EXCEPT ![s] = [Idle EXCEPT !.pc = pc]]
  /\ exit' = [exit EXCEPT ![s] = "none"]

Finish(s) ==
  /\ At(s, "finish") /\ FinishWork
  /\ Leave(s, "loop")
  /\ UNCHANGED <<playing, command, starts, commands, history>>

\* The outcome "control".
Drop(s) ==
  /\ At(s, "drop") /\ InterruptBlock(sched[s].block)
  /\ Leave(s, "loop")
  /\ UNCHANGED <<playing, command, starts, commands, history>>

\* The outcome "dead",
Dead(s) ==
  /\ At(s, "dead") /\ InterruptBlock(sched[s].block)
  /\ Leave(s, "decide")
  /\ UNCHANGED <<playing, command, starts, commands, history>>

\* Mutant: a dead monitor is tried again at once.
AlwaysRetry == TRUE

MayRetry == campaign \in {"paused", "interrupted"}

\* after which run goes on only under a control status.
Decide(s) ==
  /\ At(s, "decide")
  /\ Goto(s, IF MayRetry THEN "loop" ELSE "release")
  /\ UNCHANGED <<store, exit, playing, command, starts, commands, history>>

Release(s) ==
  /\ At(s, "release") /\ ReleaseCampaign(s)
  /\ Goto(s, "off")
  /\ UNCHANGED <<exit, playing, command, starts, commands, history>>

\* KeyboardInterrupt once run is in its try: the finally clauses end the match
\* and release the campaign; the block's row stays as it is.
Interrupt(s) ==
  /\ sched[s].pc \notin {"off", "recover", "own", "release"}
  /\ playing' = playing \ {Match(s)}
  /\ Leave(s, "release")
  /\ UNCHANGED <<store, command, starts, commands, history>>

\* SIGKILL, or SIGTERM: nothing is cleaned up.
Crash(s) ==
  /\ ~At(s, "off")
  /\ orphans' = orphans \cup ({Match(s)} \cap playing)
  /\ killed' = killed \cup (owner \cap {s})
  /\ Leave(s, "off")
  /\ UNCHANGED <<store, playing, command, starts, commands, quiet>>

Work(s) ==
  \/ Recover(s) \/ Own(s) \/ Enter(s) \/ Begin(s)
  \/ Loop(s) \/ Claim(s) \/ ClaimNothing(s) \/ WrapUp(s)
  \/ EnsureTrial(s) \/ Spawn(s) \/ Attach(s) \/ AttachRefused(s)
  \/ PollControl(s) \/ PollExit(s) \/ Kill(s) \/ Abort(s)
  \/ Commit(s) \/ CommitRefused(s) \/ Finish(s) \/ Drop(s)
  \/ Dead(s) \/ Decide(s) \/ Release(s)

-----------------------------------------------------------------------------
(* The commands.                                                           *)

Give(name) ==
  /\ command.todo = <<>>
  /\ commands < MaxCommands
  /\ commands' = commands + 1
  /\ command' = [name |-> name, todo |-> Program[name], targets |-> {}]
  /\ UNCHANGED <<store, procs, starts, history>>

Doing(step) == command.todo # <<>> /\ Head(command.todo) = step

\* What remains of the command; nothing, when it is over.
Then(todo) == command' = IF todo = <<>> THEN NoCommand ELSE [command EXCEPT !.todo = todo]

Done == Then(Tail(command.todo))

\* A pause or stop that is over has left the campaign quiet.
Settles ==
  quiet' = IF campaign' = "running" THEN FALSE
           ELSE quiet \/ /\ command.name \in {"pause", "stop"} /\ command' = NoCommand
                         /\ campaign' \in {"paused", "interrupted"}

\* The status decides whether there is anything to move.
CommandRead ==
  /\ Doing("read")
  /\ Then(IF campaign \in Leaves[command.name] THEN Tail(Tail(command.todo))
          ELSE Tail(command.todo))
  /\ UNCHANGED <<store, procs, starts, commands, history>>

CommandMove ==
  /\ Doing("move") /\ TransitionCampaign(Target[command.name])
  /\ Done /\ Settles
  /\ UNCHANGED <<procs, starts, commands, orphans, killed>>

\* InvalidTransition ends the command; run still releases the campaign.
CommandRefused ==
  /\ Doing("move") /\ ~MoveAllowed(Target[command.name])
  /\ Then(IF command.name = "run" THEN Tail(command.todo) ELSE <<>>)
  /\ UNCHANGED <<store, procs, starts, commands, history>>

\* terminate_active_blocks: read the rows, signal their groups, recover.
CommandList ==
  /\ Doing("list")
  /\ command' = [name |-> command.name, todo |-> Tail(command.todo),
                  targets |-> {<<b, rows[b].group>> : b \in {c \in Running : rows[c].group # 0}}]
  /\ UNCHANGED <<store, procs, starts, commands, history>>

CommandTerminate ==
  /\ Doing("terminate") /\ Terminate(command.targets)
  /\ command' = [name |-> command.name, todo |-> Tail(command.todo), targets |-> {}]
  /\ UNCHANGED <<store, sched, starts, commands, history>>

CommandRecover ==
  /\ Doing("recover") /\ RecoverJobs
  /\ Done /\ Settles
  /\ UNCHANGED <<procs, starts, commands, orphans, killed>>

CommandOwn ==
  /\ Doing("own") /\ ClaimCampaign(Control)
  /\ Done
  /\ killed' = {}
  /\ UNCHANGED <<procs, starts, commands, orphans, quiet>>

CommandRelease ==
  /\ Doing("release") /\ ReleaseCampaign(Control)
  /\ Done
  /\ UNCHANGED <<procs, starts, commands, history>>

CommandCrash ==
  /\ command.todo # <<>>
  /\ Then(<<>>)
  /\ killed' = killed \cup (owner \cap {Control})
  /\ UNCHANGED <<store, procs, starts, commands, orphans, quiet>>

CommandStep ==
  \/ CommandRead \/ CommandMove \/ CommandRefused \/ CommandList
  \/ CommandTerminate \/ CommandRecover \/ CommandOwn \/ CommandRelease

-----------------------------------------------------------------------------
Next ==
  \/ \E s \in Schedulers : Start(s) \/ Work(s) \/ Interrupt(s) \/ Crash(s)
  \/ MatchEnds
  \/ \E name \in DOMAIN Program : Give(name)
  \/ CommandStep
  \/ CommandCrash

\* The one scheduler and the command run on; nothing is assumed of matches, users and crashes.
Fairness ==
  /\ WF_vars(\E s \in Schedulers : Work(s))
  /\ WF_vars(CommandStep)

Spec     == Init /\ [][Next]_vars
FairSpec == Spec /\ Fairness
-----------------------------------------------------------------------------
WithBlock == {"trial", "spawn", "attach", "poll", "kill", "drop", "abort", "commit", "finish",
              "dead"}

PCs == WithBlock \cup {"off", "recover", "own", "enter", "begin", "loop", "claim", "wrap up",
                       "decide", "release"}

Steps == {"own", "read", "move", "list", "terminate", "recover", "release"}

(* Types; a scheduler has a block exactly while it is in _run_block.       *)
TypeOK ==
  /\ campaign \in States /\ trial \in States
  /\ owner \in SUBSET (Schedulers \cup {Control})
  /\ rows \in [Blocks -> Row] /\ games \in [Blocks -> Nat]
  /\ checkpoint \in [next : Nat, attempt : Nat]
  /\ sched \in [Schedulers -> [pc : PCs, block : Nat, attempt : Nat]]
  /\ \A s \in Schedulers : IF sched[s].pc \in WithBlock THEN sched[s].block \in Blocks
                           ELSE Match(s) = <<0, 0>>
  /\ exit \in [Schedulers -> {"none", "ok", "failed"}]
  /\ playing \in SUBSET (Blocks \X Nat) /\ orphans \in SUBSET (Blocks \X Nat)
  /\ command \in [name : DOMAIN Program \cup {"none"}, todo : Seq(Steps),
                  targets : SUBSET (Blocks \X Nat)]
  /\ starts \in Nat /\ commands \in Nat
  /\ killed \in SUBSET (Schedulers \cup {Control}) /\ quiet \in BOOLEAN

(* optimizer/SPEC.md:282-288.  Whatever is interrupted, killed and         *)
(* replayed: the games of a block are in the table once when it is         *)
(* completed and not before, its result is that of its last attempt, and   *)
(* the optimizer's checkpoint stands behind the completed blocks and       *)
(* before the others.                                                      *)
ResultsCounted ==
  \A b \in Blocks :
    /\ games[b] = IF rows[b].status = "completed" THEN 1 ELSE 0
    /\ rows[b].status = "completed" => rows[b].result = rows[b].attempt
    /\ rows[b].status = "completed" <=> b < checkpoint.next

(* A match in progress has a scheduler that will end it or wait for it, or *)
(* its scheduler was killed: every error path of _run_block and every      *)
(* control command leaves no match behind.                                 *)
NoStrayMatch ==
  playing \subseteq orphans \cup {Match(s) : s \in Schedulers}

(* When a pause or a stop is over, no block is running, and none is until  *)
(* somebody resumes: the status is moved before the blocks are swept up,   *)
(* so that a scheduler cannot claim one in between.                        *)
QuietMeansNoBlock == quiet => Running = {} /\ campaign # "running"

(* scheduler.py:137.  A block is tried again only because a scheduler was  *)
(* started or a command given: monitors that die are not retried for ever. *)
AttemptsAccounted == \A b \in Blocks : rows[b].attempt <= starts + commands

(* A campaign's owner is at work, unless it was killed.                    *)
OwnerIsActive ==
  \A o \in owner :
    \/ o \in killed
    \/ o = Control /\ command.name = "run" /\ command.todo # <<>>
    \/ o \in Schedulers /\ ~At(o, "off")

(* Nothing but a kill leaves a match without a scheduler, or the campaign  *)
(* with an owner who is gone; and a pause or a stop leaves no block to run *)
(* on.                                                                     *)
NothingLeftBehind == NoStrayMatch /\ OwnerIsActive /\ QuietMeansNoBlock

(* The rows of match_blocks are a queue of blocks that are played in       *)
(* order, one at a time, each to completion once.                          *)
QueueState ==
  [b \in Blocks |-> CASE rows[b].status = "running"   -> "taken"
                      [] rows[b].status = "completed" -> "done"
                      [] OTHER                        -> "open"]

Queue == INSTANCE BlockQueue WITH state <- QueueState

IsBlockQueue == Queue!Spec

(* After a pause or a stop every match ends, those that were being started *)
(* as well, even when no command knew their process group.                 *)
QuietEndsMatches == quiet ~> (~quiet \/ playing \subseteq orphans)

(* A scheduler never hangs: it ends, or waits for a resume or its match.   *)
WaitsForMatchOrResume ==
  ~Unlocked ~> (Unlocked \/ campaign = "paused" \/ \E s \in Schedulers : Match(s) \in playing)

(* Both wait for somebody else to act: the one for the scheduler, which     *)
(* polls, the other for a command, which may have died or been refused.    *)
NobodyWaitsInVain == QuietEndsMatches /\ WaitsForMatchOrResume

(* optimizer/README.md:395 (and IMPLEMENTATION-PLAN.md:395): "Schedulern   *)
(* kör högst ett block åt gången" - a scheduler that is killed leaves its  *)
(* match playing, and the next one starts the block again beside it.       *)
OneMatchAtATime == \A m, n \in playing : m = n
=============================================================================
