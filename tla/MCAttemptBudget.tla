-------------------------- MODULE MCAttemptBudget --------------------------
(***************************************************************************)
(* AttemptBudget for TLC.                                                  *)
(***************************************************************************)
EXTENDS AttemptBudget
=============================================================================
