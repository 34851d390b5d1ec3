---------------------------- MODULE WorkerProcess ----------------------------
(***************************************************************************)
(* The worker process: it starts, takes push requests and events of the    *)
(* polling loop, each of which calls the model, and stops on a signal: it  *)
(* takes no more work, drains what is in flight, disconnects the database  *)
(* and flushes telemetry, each within its time.                            *)
(* ProcessInit, ProcessNext and so on are named so that WorkerProofs can   *)
(* extend this module beside ResponseWorkflow.                             *)
(*                                                                         *)
(* Source: apps/worker/src/lifecycle.ts and                                *)
(* apps/worker/src/processor/worker-orchestrator.ts; ModelCall models what *)
(* the work waits for.                                                     *)
(***************************************************************************)
EXTENDS ModelCall, FiniteSets

ASSUME LoopAssumption == Enrichment = {} \/ \E loop \in Enrichment : Enrichment = {loop}

VARIABLES
  phase,      \* of startWorker and stop
  listening,  \* the HTTP server takes connections
  connected,  \* push requests whose connection is open, be it at work or kept alive
  looping,    \* isRunning of the polling loop
  ready,      \* isReadyState
  database,   \* the client's connection
  forced      \* the drain timed out

lifeVars == <<phase, listening, connected, looping, ready, database, forced>>
processVars == <<callVars, lifeVars>>

ProcessInit ==
  /\ CallInit
  /\ phase = "starting"
  /\ listening = FALSE /\ connected = {} /\ looping = FALSE /\ ready = FALSE
  /\ database = "open" /\ forced = FALSE

-----------------------------------------------------------------------------
(* startWorker. *)

Listen ==
  /\ phase = "starting" /\ process = "up"
  /\ phase' = "listening" /\ listening' = TRUE
  /\ UNCHANGED <<callVars, connected, looping, ready, database, forced>>

\* The port is taken, for instance; the catch clause undoes what was done.
StartupFails ==
  /\ phase = "starting" /\ process = "up"
  /\ phase' = "stopped" /\ database' = "closed"
  /\ UNCHANGED <<callVars, listening, connected, looping, ready, forced>>

BecomeReady ==
  /\ phase = "listening" /\ process = "up"
  /\ phase' = "running" /\ looping' = TRUE /\ ready' = TRUE
  /\ UNCHANGED <<callVars, listening, connected, database, forced>>

-----------------------------------------------------------------------------
(* The work. *)

\* A push request, on a new connection or one kept alive, or the next step of the loop.
Accept(c) ==
  /\ process = "up" /\ call[c].pc = "idle"
  /\ call' = [call EXCEPT ![c].pc = "accepted"]
  /\ \/ c \in Analysis /\ (listening \/ c \in connected) /\ connected' = connected \cup {c}
     \/ c \in Enrichment /\ looping /\ UNCHANGED connected
  /\ UNCHANGED <<active, queue, process, phase, listening, looping, ready, database, forced>>

\* The outcome is written and the request answered, if its connection is still open.
Conclude(c) ==
  /\ process = "up" /\ call[c].pc = "ended"
  /\ call' = [call EXCEPT ![c] = IdleCall]
  /\ UNCHANGED <<active, queue, process, lifeVars>>

Work(c) == CallStep(c) /\ UNCHANGED lifeVars

\* The client gives up, its deadline passes, or a kept connection is idle for too long.
\* The handler that was at work for it is not told.
CloseConnection(c) ==
  /\ process = "up" /\ c \in connected
  /\ connected' = connected \ {c}
  /\ UNCHANGED <<callVars, phase, listening, looping, ready, database, forced>>

-----------------------------------------------------------------------------
(* stop. *)

Idle == \A c \in Call : call[c].pc = "idle"
LoopIdle == \A c \in Enrichment : call[c].pc = "idle"

\* server.close also closes the connections at which nothing is at work.
Stop ==
  /\ phase = "running" /\ process = "up"
  /\ phase' = "draining"
  /\ listening' = FALSE /\ looping' = FALSE /\ ready' = FALSE
  /\ connected' = {c \in connected : call[c].pc # "idle"}
  /\ UNCHANGED <<callVars, database, forced>>

DrainedAtOnce ==    \* mutant: nothing waits for the polling loop
  /\ phase = "draining" /\ process = "up"
  /\ connected = {}
  /\ phase' = "drained"
  /\ UNCHANGED <<callVars, listening, connected, looping, ready, database, forced>>

\* server.close returns when the last connection is closed, and the loop's stop when its
\* step has ended.  Neither waits for a handler whose connection is gone.
Drained ==
  /\ phase = "draining" /\ process = "up"
  /\ connected = {} /\ LoopIdle
  /\ phase' = "drained"
  /\ UNCHANGED <<callVars, listening, connected, looping, ready, database, forced>>

\* The sockets that are left are destroyed.
DrainTimeout ==
  /\ phase = "draining" /\ process = "up"
  /\ phase' = "drained" /\ forced' = TRUE /\ connected' = {}
  /\ UNCHANGED <<callVars, listening, looping, ready, database>>

\* $disconnect, or its timeout; the telemetry flush that follows changes nothing here.
Disconnect(done) ==
  /\ phase = "drained" /\ process = "up"
  /\ phase' = "stopped"
  /\ database' = IF done THEN "closed" ELSE database
  /\ UNCHANGED <<callVars, listening, connected, looping, ready, forced>>

\* The total budget of the shutdown ends it earlier.
ShutdownTimeout ==
  /\ phase \in {"draining", "drained"} /\ process = "up"
  /\ phase' = "stopped"
  /\ UNCHANGED <<callVars, listening, connected, looping, ready, database, forced>>

ExitWhenIdle ==    \* mutant: the process ends by itself when nothing is left to do
  /\ phase = "stopped" /\ process = "up" /\ Idle
  /\ process' = "exited"
  /\ UNCHANGED <<call, active, queue, lifeVars>>

Exit ==
  /\ phase = "stopped" /\ process = "up"
  /\ process' = "exited"
  /\ UNCHANGED <<call, active, queue, lifeVars>>

Shutdown == Drained \/ DrainTimeout \/ (\E done \in BOOLEAN : Disconnect(done)) \/ ShutdownTimeout \/ Exit

ProcessNext ==
  \/ Listen \/ StartupFails \/ BecomeReady
  \/ \E c \in Call : Accept(c) \/ Work(c) \/ Conclude(c) \/ CloseConnection(c)
  \/ Stop \/ Shutdown

ProcessSpec == ProcessInit /\ [][ProcessNext]_processVars

\* Timers fire, and the database answers the gate or refuses.
CallFairness(c) == WF_processVars((Progress(c) /\ UNCHANGED lifeVars) \/ Conclude(c))

\* The steps of a shutdown are bounded by timers.
ShutdownFairness == WF_processVars(Shutdown)

ProcessFairSpec == ProcessSpec /\ (\A c \in Call : CallFairness(c)) /\ ShutdownFairness

-----------------------------------------------------------------------------
(* Properties. *)

ProcessTypeOK ==
  /\ CallTypeOK
  /\ phase \in {"starting", "listening", "running", "draining", "drained", "stopped"}
  /\ connected \subseteq Analysis
  /\ listening \in BOOLEAN /\ looping \in BOOLEAN /\ ready \in BOOLEAN
  /\ database \in {"open", "closed"} /\ forced \in BOOLEAN

\* However calls end, time out or are aborted, and wherever they wait: a slot is counted
\* exactly while a call holds it, nobody waits while a slot is free, and everyone who
\* waits is in the queue once.
SlotsConserved == \A a \in Adapter :
  LET own == {c \in Call : AdapterOf(c) = a} IN
  /\ active[a] = Cardinality({c \in own : Holding(c)})
  /\ active[a] <= MaxConcurrency /\ Len(queue[a]) <= MaxQueueSize
  /\ queue[a] # <<>> => active[a] = MaxConcurrency
  /\ ToSet(queue[a]) = {c \in own : call[c].pc = "queued"}
  /\ Cardinality(ToSet(queue[a])) = Len(queue[a])

\* Unless the drain timed out, the database is taken from nobody who is waited for: of the
\* work that outlives it, none is the polling loop's and none can be answered any more,
\* although a kept connection may bring a request while the worker drains.
DatabaseOutlivesAwaited ==
  database = "closed" /\ ~forced =>
    \A c \in Call : call[c].pc # "idle" => c \in Analysis \ connected

\* Work that was accepted ends in bounded time, even if the provider never answers.
CallEnds(c) == call[c].pc # "idle" ~> (call[c].pc = "idle" \/ process # "up")

\* A worker that was told to stop is gone in the end, whatever it was waiting for.
StopEnds == phase = "draining" ~> process # "up"

\* A timer of a model call ends the call, never the worker process.  The overview promises
\* (docs/architecture/overview.md:106): "Gemini timeout or unavailability produces an
\* explicit degraded result; deterministic policy remains available".
TimeoutsAreContained == process # "crashed"
=============================================================================
