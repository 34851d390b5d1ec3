--------------------------- MODULE MCWorkerProcess ---------------------------
(***************************************************************************)
(* WorkerProcess for TLC.  The fairness of one caller is enough for its    *)
(* own call to end: the run watches one caller of either kind and gives    *)
(* nothing to the other push requests, which may stay in their slots for   *)
(* ever.                                                                   *)
(***************************************************************************)
EXTENDS WorkerProcess

CONSTANTS Watched, Third

\* The third push fills the limiter, which the loop does not share: the two are not at
\* work at the same time.
Apart == call[Third].pc = "idle" \/ LoopIdle

WatchedSpec ==
  /\ ProcessInit /\ [][ProcessNext /\ Apart']_processVars
  /\ (\A c \in Watched : CallFairness(c)) /\ ShutdownFairness

\* Work that was accepted ends in bounded time, even if the provider never answers and
\* those who hold the slots it waits for never let go.
WatchedCallsEnd == \A c \in Watched : CallEnds(c)
=============================================================================
