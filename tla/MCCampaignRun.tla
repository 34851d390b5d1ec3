---------------------------- MODULE MCCampaignRun ----------------------------
(***************************************************************************)
(* CampaignRun for TLC.                                                    *)
(***************************************************************************)
EXTENDS CampaignRun
=============================================================================
