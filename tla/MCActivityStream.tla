-------------------------- MODULE MCActivityStream --------------------------
(***************************************************************************)
(* ActivityStream for TLC.                                                 *)
(***************************************************************************)
EXTENDS ActivityStream
=============================================================================
