--------------------------- MODULE CampaignStore ---------------------------
(***************************************************************************)
(* The optimizer's SQLite store, optimizer/.../database.py, as far as a    *)
(* campaign with one trial needs it: each method is one transaction (BEGIN *)
(* IMMEDIATE, rolled back on an exception), and so one operator that gives *)
(* every variable of the store its new value.  CampaignScheduler says who  *)
(* calls which when.                                                       *)
(*                                                                         *)
(* Left out: the events table, texts and times, and the progress counts    *)
(* that observers read while a block runs.                                 *)
(***************************************************************************)
EXTENDS Naturals

CONSTANT BlockCount  \* blocks of the campaign, numbered by block_index from 1

ASSUME StoreAssumption == BlockCount \in Nat

Blocks == 1..BlockCount

VARIABLES
  campaign,    \* status of the campaign
  owner,       \* its owner_token: none or one
  trial,       \* status of its trial
  rows,        \* match_blocks
  games,       \* how often the games of a block are in the games table
  checkpoint   \* optimizer_state

store == <<campaign, owner, trial, rows, games, checkpoint>>

States   == {"pending", "running", "completed", "failed", "interrupted", "paused", "rejected"}
Terminal == {"completed", "failed", "rejected"}

\* CAMPAIGN_TRANSITIONS
CampaignMoves ==
  [pending     |-> {"running", "paused", "interrupted"} \cup Terminal,
   running     |-> {"paused", "interrupted"} \cup Terminal,
   paused      |-> {"running", "interrupted"} \cup Terminal,
   interrupted |-> {"running"} \cup Terminal,
   completed   |-> {},
   failed      |-> {},
   rejected    |-> {}]

\* A row of match_blocks.  group is the recorded process group, named by the
\* attempt whose monitor leads it, and result the attempt whose monitor wrote
\* result_json; 0 is NULL.
Row == [status : States \ {"paused"}, attempt : Nat, group : Nat, result : Nat]

\* ensure_fake_schedule
StoreInit ==
  /\ campaign = "pending"
  /\ owner = {}
  /\ trial = "pending"
  /\ rows = [b \in Blocks |-> [status |-> "pending", attempt |-> 0, group |-> 0, result |-> 0]]
  /\ games = [b \in Blocks |-> 0]
  /\ checkpoint = [next |-> 1, attempt |-> 0]

Running  == {b \in Blocks : rows[b].status = "running"}
Runnable == {b \in Blocks : rows[b].status \in {"pending", "interrupted"}}

-----------------------------------------------------------------------------
\* transition_campaign: to the same status is no transition, and no error.
MoveAllowed(status) == status = campaign \/ status \in CampaignMoves[campaign]

TransitionCampaign(status) ==
  /\ MoveAllowed(status)
  /\ campaign' = status
  /\ UNCHANGED <<owner, trial, rows, games, checkpoint>>

\* claim_campaign, with takeover.
ClaimCampaign(token) ==
  /\ owner' = {token}
  /\ UNCHANGED <<campaign, trial, rows, games, checkpoint>>

\* release_campaign: refused, with no effect, when another owns the campaign.
ReleaseCampaign(token) ==
  /\ owner' = owner \ {token}
  /\ UNCHANGED <<campaign, trial, rows, games, checkpoint>>

\* transition_trial to running, for a trial that is not yet or no more running.
RunTrial ==
  /\ trial \notin Terminal
  /\ trial' = "running"
  /\ UNCHANGED <<campaign, owner, rows, games, checkpoint>>

Claimable(b) ==
  /\ campaign = "running"
  /\ Running = {}
  /\ b \in Runnable
  /\ \A c \in Runnable : b <= c

\* claim_next_block: a new attempt, its row reset.
ClaimBlock(b) ==
  /\ Claimable(b)
  /\ rows' = [rows EXCEPT ![b] = [status |-> "running", attempt |-> @.attempt + 1,
                                  group |-> 0, result |-> 0]]
  /\ UNCHANGED <<campaign, owner, trial, games, checkpoint>>

\* set_block_process
SetProcess(b, group) ==
  /\ b \in Running
  /\ rows' = [rows EXCEPT ![b].group = group]
  /\ UNCHANGED <<campaign, owner, trial, games, checkpoint>>

Interrupted(row) ==
  [status |-> "interrupted", attempt |-> row.attempt, group |-> 0, result |-> 0]

\* interrupt_block: nothing, unless the block is running.
InterruptBlock(b) ==
  /\ rows' = [c \in Blocks |-> IF c = b /\ c \in Running THEN Interrupted(rows[c]) ELSE rows[c]]
  /\ UNCHANGED <<campaign, owner, trial, games, checkpoint>>

\* recover_abandoned_jobs
RecoverJobs ==
  /\ rows' = [b \in Blocks |-> IF b \in Running THEN Interrupted(rows[b]) ELSE rows[b]]
  /\ trial' = IF trial = "running" THEN "interrupted" ELSE trial
  /\ UNCHANGED <<campaign, owner, games, checkpoint>>

\* Mutant: the status of the block is not looked at again.
MayCompleteAny(b) == campaign = "running"

MayComplete(b) == campaign = "running" /\ b \in Running

\* complete_block_atomically: the result, its games and the checkpoint.
CompleteBlock(b, attempt) ==
  /\ MayComplete(b)
  /\ rows' = [rows EXCEPT ![b] = [status |-> "completed", attempt |-> @.attempt,
                                  group |-> 0, result |-> attempt]]
  /\ games' = [games EXCEPT ![b] = @ + 1]
  /\ checkpoint' = [next |-> b + 1, attempt |-> attempt]
  /\ UNCHANGED <<campaign, owner, trial>>

\* finish_completed_work: the trial, then the campaign if it is running.
FinishWork ==
  /\ LET done == BlockCount > 0 /\ \A b \in Blocks : rows[b].status = "completed"
     IN /\ trial' = IF done THEN "completed" ELSE trial
        /\ campaign' = IF done /\ campaign = "running" THEN "completed" ELSE campaign
  /\ UNCHANGED <<owner, rows, games, checkpoint>>
=============================================================================
