------------------------------ MODULE ModelCall ------------------------------
(***************************************************************************)
(* Calls to the model provider: the concurrency limiter, the attempts with *)
(* their backoff, the request timeout and the deadline of the operation.   *)
(* The autonomous adapter takes a slot of its limiter for each attempt,    *)
(* the enrichment adapter one slot for all of them.                        *)
(*                                                                         *)
(* Source: apps/worker/src/adapters/{concurrency-limiter,                  *)
(* autonomous-gemini-adapter, gemini-adapter, retry-policy,                *)
(* error-classifier}.ts.  What the attempt gate does in the database is    *)
(* the subject of AttemptBudget.                                           *)
(***************************************************************************)
EXTENDS Naturals, Sequences, SequencesExt

CONSTANTS
  Analysis,        \* callers of analyzeEnvelope
  Enrichment,      \* callers of enrichEvent
  MaxConcurrency,  \* slots of a limiter
  MaxQueueSize,    \* callers that may wait for one
  MaxRetries

ASSUME CallersAssumption == Analysis \cap Enrichment = {}
ASSUME LimitsAssumption ==
  /\ MaxConcurrency \in Nat \ {0} /\ MaxQueueSize \in Nat /\ MaxRetries \in Nat

VARIABLES
  call,     \* the operations
  active,   \* currentActive of each limiter
  queue,    \* the queue of each limiter
  process   \* whether the worker process runs

callVars == <<call, active, queue, process>>

Call == Analysis \cup Enrichment
Adapter == {"analyze", "enrich"}
AdapterOf(c) == IF c \in Analysis THEN "analyze" ELSE "enrich"

IdleCall == [pc |-> "idle", attempt |-> 0, aborted |-> FALSE]

CallInit ==
  /\ call = [c \in Call |-> IdleCall]
  /\ active = [a \in Adapter |-> 0]
  /\ queue = [a \in Adapter |-> <<>>]
  /\ process = "up"

-----------------------------------------------------------------------------
(* ConcurrencyLimiter. *)

Holding(c) ==
  \/ call[c].pc \in {"entering", "gate", "dispatched"}
  \/ call[c].pc = "sleeping" /\ c \in Enrichment

\* acquire: a slot, a place in the queue, or a ConcurrencySaturationError.
Acquire(c) ==
  LET a == AdapterOf(c) IN
  \/ /\ active[a] < MaxConcurrency
     /\ active' = [active EXCEPT ![a] = @ + 1]
     /\ call' = [call EXCEPT ![c].pc = "entering"]
     /\ UNCHANGED queue
  \/ /\ active[a] >= MaxConcurrency /\ Len(queue[a]) < MaxQueueSize
     /\ queue' = [queue EXCEPT ![a] = Append(@, c)]
     /\ call' = [call EXCEPT ![c].pc = "queued"]
     /\ UNCHANGED active
  \/ /\ active[a] >= MaxConcurrency /\ Len(queue[a]) >= MaxQueueSize
     /\ call' = [call EXCEPT ![c].pc = "ended"]
     /\ UNCHANGED <<active, queue>>

ReleaseAsTwice(c, record) ==    \* mutant: a slot that is handed over is freed too
  LET a == AdapterOf(c) IN
  /\ active' = [active EXCEPT ![a] = @ - 1]
  /\ IF queue[a] = <<>>
     THEN call' = [call EXCEPT ![c] = record] /\ UNCHANGED queue
     ELSE /\ queue' = [queue EXCEPT ![a] = Tail(@)]
          /\ call' = [call EXCEPT ![c] = record, ![Head(queue[a])].pc = "entering"]

\* release, by a caller that goes on as its record says: the slot goes to the first in
\* the queue, in the same turn of the event loop.
ReleaseAs(c, record) ==
  LET a == AdapterOf(c) IN
  IF queue[a] = <<>>
  THEN /\ active' = [active EXCEPT ![a] = @ - 1]
       /\ call' = [call EXCEPT ![c] = record]
       /\ UNCHANGED queue
  ELSE /\ queue' = [queue EXCEPT ![a] = Tail(@)]
       /\ call' = [call EXCEPT ![c] = record, ![Head(queue[a])].pc = "entering"]
       /\ UNCHANGED active

GoOn(record, pc) == [record EXCEPT !.pc = pc]

-----------------------------------------------------------------------------
(* The adapters. *)

\* classifyProviderError gives an error a kind; one kind is retriable, two are reported
\* as INVALID_OUTPUT.
ErrorKind == {"TRANSIENT", "SCHEMA_INVALID", "AUTH_OR_CONFIG", "CLIENT_ERROR", "TIMEOUT",
              "CANCELLED", "CONCURRENCY_SATURATED", "TERMINAL"}
IsRetriable(error) == error = "TRANSIENT"
InvalidOutput(error) == error \in {"SCHEMA_INVALID", "CLIENT_ERROR"}

BeginOperation(c) ==
  /\ process = "up" /\ call[c].pc = "accepted"
  /\ Acquire(c)
  /\ UNCHANGED process

\* The start of an attempt.  The first was paid for before the operation began, each
\* later one waits for the attempt gate; a deadline that has passed ends the operation.
EnterAttempt(c) ==
  /\ process = "up" /\ call[c].pc = "entering"
  /\ IF call[c].aborted
     THEN ReleaseAs(c, GoOn(call[c], "ended"))
     ELSE /\ call' = [call EXCEPT ![c].pc = IF call[c].attempt = 0 THEN "dispatched" ELSE "gate"]
          /\ UNCHANGED <<active, queue>>
  /\ UNCHANGED process

\* After an attempt that failed: the last one, or no time left for the backoff, ends the
\* operation; otherwise it sleeps, the autonomous adapter without its slot.
EndAttempt(c) == ReleaseAs(c, GoOn(call[c], "ended"))

Backoff(c) ==
  LET asleep == [call[c] EXCEPT !.pc = "sleeping", !.attempt = @ + 1] IN
  /\ call[c].attempt < MaxRetries
  /\ IF c \in Analysis THEN ReleaseAs(c, asleep)
     ELSE call' = [call EXCEPT ![c] = asleep] /\ UNCHANGED <<active, queue>>

GateOpens(c) ==
  /\ process = "up" /\ call[c].pc = "gate"
  /\ call' = [call EXCEPT ![c].pc = "dispatched"]
  /\ UNCHANGED <<active, queue, process>>

\* The budget is exhausted or the database fails: the enrichment adapter stops, the
\* autonomous one classifies it like any other error and tries again.
GateRefuses(c) ==
  /\ process = "up" /\ call[c].pc = "gate"
  /\ EndAttempt(c) \/ (c \in Analysis /\ Backoff(c))
  /\ UNCHANGED process

\* SUCCESS or INVALID_OUTPUT.
ProviderAnswers(c) ==
  /\ process = "up" /\ call[c].pc = "dispatched"
  /\ EndAttempt(c)
  /\ UNCHANGED process

\* The enrichment adapter asks the classifier; the autonomous one retries whatever is
\* not reported as INVALID_OUTPUT.
Retries(c, error) == IF c \in Analysis THEN ~InvalidOutput(error) ELSE IsRetriable(error)

ProviderFails(c, error) ==
  /\ process = "up" /\ call[c].pc = "dispatched"
  /\ EndAttempt(c) \/ (Retries(c, error) /\ Backoff(c))
  /\ UNCHANGED process

WakeUp(c) ==
  /\ process = "up" /\ call[c].pc = "sleeping"
  /\ IF c \in Analysis THEN Acquire(c)
     ELSE call' = [call EXCEPT ![c].pc = "entering"] /\ UNCHANGED <<active, queue>>
  /\ UNCHANGED process

\* abortPromise is rejected while nothing listens to it: the race that handles it begins
\* when the gate has answered.  Node ends the process on an unhandled rejection.
RejectUnheard(c) ==
  /\ call[c].pc = "gate"
  /\ process' = "crashed"
  /\ UNCHANGED <<call, active, queue>>

\* The timer of one request.
RequestTimeout(c) ==
  /\ process = "up"
  /\ \/ /\ call[c].pc = "dispatched"
        /\ EndAttempt(c) \/ Backoff(c)
        /\ UNCHANGED process
     \/ RejectUnheard(c)

TimedOut(c) == [call[c] EXCEPT !.aborted = TRUE, !.pc = "ended"]

LeaveQueueNever(c) == FALSE    \* mutant: the queue does not listen to the signal

\* onAbort of a waiter, which is in the queue once.
LeaveQueue(c) ==
  /\ call[c].pc = "queued"
  /\ \E i \in DOMAIN queue[AdapterOf(c)] :
       /\ queue[AdapterOf(c)][i] = c
       /\ queue' = [queue EXCEPT ![AdapterOf(c)] = RemoveAt(@, i)]
  /\ call' = [call EXCEPT ![c] = TimedOut(c)]
  /\ UNCHANGED <<active, process>>

\* The timer of the operation ends it wherever it waits.
Deadline(c) ==
  /\ process = "up" /\ ~call[c].aborted
  /\ \/ LeaveQueue(c)
     \/ /\ call[c].pc = "entering"
        /\ call' = [call EXCEPT ![c].aborted = TRUE]
        /\ UNCHANGED <<active, queue, process>>
     \/ /\ call[c].pc \in {"dispatched", "sleeping"} /\ Holding(c)
        /\ ReleaseAs(c, TimedOut(c))
        /\ UNCHANGED process
     \/ /\ call[c].pc = "sleeping" /\ ~Holding(c)
        /\ call' = [call EXCEPT ![c] = TimedOut(c)]
        /\ UNCHANGED <<active, queue, process>>
     \/ RejectUnheard(c)

CallStep(c) ==
  \/ BeginOperation(c) \/ EnterAttempt(c) \/ WakeUp(c)
  \/ GateOpens(c) \/ GateRefuses(c)
  \/ ProviderAnswers(c) \/ (\E error \in ErrorKind : ProviderFails(c, error))
  \/ RequestTimeout(c) \/ Deadline(c)

\* What ends a wait when the provider never answers.
Progress(c) ==
  \/ BeginOperation(c) \/ EnterAttempt(c) \/ WakeUp(c)
  \/ GateOpens(c) \/ GateRefuses(c) \/ Deadline(c)

-----------------------------------------------------------------------------
CallTypeOK ==
  /\ call \in [Call -> [pc : {"idle", "accepted", "queued", "entering", "gate", "dispatched",
                              "sleeping", "ended"},
                        attempt : 0..MaxRetries, aborted : BOOLEAN]]
  /\ active \in [Adapter -> 0..MaxConcurrency]
  /\ queue \in [Adapter -> Seq(Call)]
  /\ process \in {"up", "crashed", "exited"}
=============================================================================
