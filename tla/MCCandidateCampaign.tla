------------------------ MODULE MCCandidateCampaign ------------------------
(* CandidateCampaign with a ladder of two time controls.                   *)
EXTENDS CandidateCampaign

MCTimeControls == <<"10+0.1", "20+0.2">>
=============================================================================
