--------------------------- MODULE MCToolGateway ---------------------------
(***************************************************************************)
(* ToolGateway for TLC.                                                    *)
(***************************************************************************)
EXTENDS ToolGateway

\* Processes are interchangeable: one of them stands for all.
Retrier == CHOOSE w \in Worker : TRUE
FairSpec == Spec /\ Runs(Retrier)

\* The retry of this process, which alone is known to run on, repairs an operation
\* that any process left behind with its effect recorded.
RetrierRepairs == RetryRepairs(Retrier)
=============================================================================
