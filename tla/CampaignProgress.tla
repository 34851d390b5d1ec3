-------------------------- MODULE CampaignProgress --------------------------
(***************************************************************************)
(* What a campaign promises its operator: it starts once, takes its steps  *)
(* one by one, completes only from the last of them, and never leaves      *)
(* COMPLETED or FAILED.                                                    *)
(***************************************************************************)
EXTENDS Naturals

CONSTANT TotalSteps

VARIABLES status, current

progressVars == <<status, current>>

Begin == status = "NONE" /\ status' = "RUNNING" /\ current' = 0

Advance ==
  /\ status = "RUNNING" /\ current < TotalSteps
  /\ current' = current + 1
  /\ UNCHANGED status

Finish ==
  /\ status = "RUNNING" /\ current = TotalSteps
  /\ status' = "COMPLETED"
  /\ UNCHANGED current

Break ==
  /\ status = "RUNNING" /\ current > 0
  /\ status' = "FAILED"
  /\ UNCHANGED current

ProgressSpec ==
  /\ status = "NONE" /\ current = 0
  /\ [][Begin \/ Advance \/ Finish \/ Break]_progressVars
=============================================================================
