--------------------------- MODULE MCEventDelivery ---------------------------
(***************************************************************************)
(* EventDelivery for TLC.  Messages are interchangeable, so the liveness   *)
(* of one stands for that of all; its run uses no symmetry otherwise.      *)
(***************************************************************************)
EXTENDS EventDelivery, TLC

Watched == CHOOSE m \in Transport : TRUE
FairSpec == Spec /\ Pushed(Watched)

\* This message, which alone the broker is known to push until it is acknowledged,
\* is acknowledged, whatever becomes of the other.
WatchedSettles == Settles(Watched)
=============================================================================
