---------------------------- MODULE MCEventClaim ----------------------------
(***************************************************************************)
(* EventClaim for TLC.  Its configuration names the workers.               *)
(***************************************************************************)
EXTENDS EventClaim, TLC

=============================================================================
