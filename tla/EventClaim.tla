----------------------------- MODULE EventClaim -----------------------------
(***************************************************************************)
(* The polling path of the worker: several worker processes claim rows of  *)
(* the table intrusion_events under a short lease, evaluate them, and      *)
(* persist one decision per event.                                         *)
(*                                                                         *)
(* Source: apps/worker/src/persistence/worker-repository.ts,               *)
(* apps/worker/src/processor/event-processor.ts and worker-orchestrator.ts.*)
(*                                                                         *)
(* Every SQL statement or transaction is one action; between two of them   *)
(* any other worker may run, a lease may expire, or the process may die.   *)
(* Events are numbered in the order of received_at.  A lease is "live"     *)
(* until LeaseExpires turns it off: how long it lasts is abstracted.       *)
(***************************************************************************)
EXTENDS Naturals

CONSTANTS
  Worker,        \* worker processes sharing the database
  NumEvents,     \* rows of intrusion_events, all PENDING at first
  MaxAttempts    \* maxProcessingAttempts

ASSUME NumEventsAssumption   == NumEvents \in Nat
ASSUME MaxAttemptsAssumption == MaxAttempts \in Nat \ {0}

Event == 1 .. NumEvents

NoToken == 0     \* processing_claim_token IS NULL
NoEvent == 0

VARIABLES
  row,           \* intrusion_events: status, claim token, lease, attempt count
  decisions,     \* deception_decisions, with the claim token that wrote each
  worker,        \* per process: where processNextPending stands, what it holds
  lastToken      \* tokens 1..lastToken have been drawn by randomUUID

vars == <<row, decisions, worker, lastToken>>

Status == {"PENDING", "PROCESSING", "DECIDED", "FAILED"}

Idle == [pc |-> "idle", event |-> NoEvent, token |-> NoToken]

Init ==
  /\ row = [e \in Event |->
              [status |-> "PENDING", token |-> NoToken, live |-> FALSE, attempts |-> 0]]
  /\ decisions = {}
  /\ worker = [w \in Worker |-> Idle]
  /\ lastToken = 0

Decided(e) == \E d \in decisions : d.event = e

(***************************************************************************)
(* claimNextPendingEvent, first statement: expired claims whose attempts   *)
(* are used up become FAILED, all in one UPDATE.                           *)
(***************************************************************************)
ExhaustedTooLate(e) ==   \* mutant: one claim too many is waited for
  /\ row[e].status = "PROCESSING"
  /\ ~row[e].live
  /\ row[e].attempts > MaxAttempts

ExhaustedEarly(e) ==     \* mutant: the attempts are not looked at
  /\ row[e].status = "PROCESSING"
  /\ ~row[e].live
  /\ ~Decided(e)

Exhausted(e) ==
  /\ row[e].status = "PROCESSING"
  /\ ~row[e].live
  /\ row[e].attempts >= MaxAttempts
  /\ ~Decided(e)

\* SET status = s, processing_claim_token = NULL, processing_lease_expires_at = NULL
Unclaimed(r, s) ==
  [status |-> s, token |-> NoToken, live |-> FALSE, attempts |-> r.attempts]

FailExhausted(w) ==
  /\ worker[w].pc = "idle"
  /\ row' = [e \in Event |-> IF Exhausted(e) THEN Unclaimed(row[e], "FAILED") ELSE row[e]]
  /\ worker' = [worker EXCEPT ![w].pc = "claiming"]
  /\ UNCHANGED <<decisions, lastToken>>

(***************************************************************************)
(* Second statement: UPDATE ... WHERE id = (SELECT ... ORDER BY received_at*)
(* FOR UPDATE SKIP LOCKED LIMIT 1).  The oldest claimable row is taken; an *)
(* older one is passed over only when another transaction may have it      *)
(* locked, which is when its holder is persisting or releasing.            *)
(***************************************************************************)
ClaimableForever(e) ==   \* mutant: an expired claim is taken over without limit
  row[e].status = "PENDING" \/ (row[e].status = "PROCESSING" /\ ~row[e].live)

ClaimableFailed(e) ==    \* mutant: an event that was given up is taken again
  \/ row[e].status \in {"PENDING", "FAILED"}
  \/ row[e].status = "PROCESSING" /\ ~row[e].live /\ row[e].attempts < MaxAttempts

Claimable(e) ==
  \/ row[e].status = "PENDING"
  \/ /\ row[e].status = "PROCESSING"
     /\ ~row[e].live
     /\ row[e].attempts < MaxAttempts

MayBeLocked(e, w) ==
  \E v \in Worker \ {w} : worker[v].event = e /\ worker[v].pc \in {"processing", "releasing"}

ClaimRowSameToken(r, t) ==   \* mutant: a takeover keeps the token of the lost claim
  [status |-> "PROCESSING", token |-> IF r.token = NoToken THEN t ELSE r.token,
   live |-> TRUE, attempts |-> r.attempts + 1]

ClaimRowCountsDown(r, t) ==  \* mutant: the count goes the wrong way
  [status |-> "PROCESSING", token |-> t, live |-> TRUE, attempts |-> r.attempts - 1]

ClaimRow(r, t) ==
  [status |-> "PROCESSING", token |-> t, live |-> TRUE, attempts |-> r.attempts + 1]

Claim(w) ==
  /\ worker[w].pc = "claiming"
  /\ \E e \in Event :
       /\ Claimable(e)
       /\ \A o \in Event : o < e /\ Claimable(o) => MayBeLocked(o, w)
       /\ row' = [row EXCEPT ![e] = ClaimRow(row[e], lastToken + 1)]
       /\ worker' = [worker EXCEPT ![w] =
                       [pc |-> "processing", event |-> e, token |-> lastToken + 1]]
  /\ lastToken' = lastToken + 1
  /\ UNCHANGED decisions

NothingToClaim(w) ==
  /\ worker[w].pc = "claiming"
  /\ \A e \in Event : Claimable(e) => MayBeLocked(e, w)
  /\ worker' = [worker EXCEPT ![w] = Idle]
  /\ UNCHANGED <<row, decisions, lastToken>>

(***************************************************************************)
(* persistDecision: the fenced UPDATE to DECIDED and the INSERT of the     *)
(* decision (unique per event) in one transaction.                         *)
(***************************************************************************)
FencePassesNoToken(e, t) ==  \* mutant: any live claim will do
  row[e].status = "PROCESSING" /\ row[e].live

FencePasses(e, t) ==
  /\ row[e].status = "PROCESSING"
  /\ row[e].token = t
  /\ row[e].live

CommitDecision(w) ==
  LET e == worker[w].event IN
  /\ worker[w].pc = "processing"
  /\ FencePasses(e, worker[w].token)
  /\ ~Decided(e)
  /\ row' = [row EXCEPT ![e] = Unclaimed(row[e], "DECIDED")]
  /\ decisions' = decisions \cup {[event |-> e, token |-> worker[w].token]}
  /\ UNCHANGED lastToken

PersistDecision(w) ==
  /\ CommitDecision(w)
  /\ worker' = [worker EXCEPT ![w] = Idle]

\* The transaction commits, but its acknowledgement never reaches the worker.
PersistUnacknowledged(w) ==
  /\ CommitDecision(w)
  /\ worker' = [worker EXCEPT ![w].pc = "releasing"]

(***************************************************************************)
(* Anything thrown by processEvent (the policy, the simulated agent, a     *)
(* fencing violation, the database) is caught by processNextPending, which *)
(* calls releaseOrFailClaim.                                               *)
(***************************************************************************)
ProcessingThrows(w) ==
  /\ worker[w].pc = "processing"
  /\ worker' = [worker EXCEPT ![w].pc = "releasing"]
  /\ UNCHANGED <<row, decisions, lastToken>>

MayReleaseAny(w) == TRUE     \* mutant: released without looking whose claim it is

MayRelease(w) ==
  LET e == worker[w].event IN
  /\ ~Decided(e)
  /\ row[e].status = "PROCESSING"
  /\ row[e].token = worker[w].token

ReleaseOrFailClaim(w) ==
  LET e == worker[w].event
      requeues == row[e].attempts < MaxAttempts
  IN
  /\ worker[w].pc = "releasing"
  /\ row' = IF MayRelease(w)
            THEN [row EXCEPT ![e] = Unclaimed(row[e], IF requeues THEN "PENDING" ELSE "FAILED")]
            ELSE row
  /\ worker' = [worker EXCEPT ![w] = Idle]
  /\ UNCHANGED <<decisions, lastToken>>

(***************************************************************************)
(* The lease runs out, and a process holding a claim dies (or its release  *)
(* fails, or the claimed row does not parse): the row keeps its token.     *)
(***************************************************************************)
LeaseExpires(e) ==
  /\ row[e].live
  /\ row' = [row EXCEPT ![e].live = FALSE]
  /\ UNCHANGED <<decisions, worker, lastToken>>

Abandon(w) ==
  /\ worker[w].pc \in {"processing", "releasing"}
  /\ worker' = [worker EXCEPT ![w] = Idle]
  /\ UNCHANGED <<row, decisions, lastToken>>

-----------------------------------------------------------------------------
Step(w) ==
  \/ FailExhausted(w)
  \/ Claim(w)
  \/ NothingToClaim(w)
  \/ PersistDecision(w)
  \/ PersistUnacknowledged(w)
  \/ ProcessingThrows(w)
  \/ ReleaseOrFailClaim(w)

Next ==
  \/ \E w \in Worker : Step(w) \/ Abandon(w)
  \/ \E e \in Event : LeaseExpires(e)

Spec == Init /\ [][Next]_vars

\* The poll loop reschedules itself after every step, and time passes.
FairSpec ==
  /\ Spec
  /\ \A w \in Worker : WF_vars(Step(w))
  /\ \A e \in Event : WF_vars(LeaseExpires(e))

-----------------------------------------------------------------------------
(* Properties *)

TypeOK ==
  /\ row \in [Event -> [status : Status, token : Nat, live : BOOLEAN, attempts : Nat]]
  /\ decisions \subseteq [event : Event, token : Nat]
  /\ worker \in [Worker ->
       [pc : {"idle", "claiming"}, event : {NoEvent}, token : {NoToken}]
         \cup [pc : {"processing", "releasing"}, event : Event, token : Nat]]
  /\ lastToken \in Nat

Holding(w) == worker[w].pc \in {"processing", "releasing"}

\* An event has at most one decision, and it has one exactly when its row says
\* DECIDED, whatever workers lost their lease or their acknowledgement
\* (persistDecision's fence and transaction).
DecidedExactlyOnce ==
  \A e \in Event :
    /\ \A c, d \in decisions : c.event = e /\ d.event = e => c = d
    /\ row[e].status = "DECIDED" <=> Decided(e)

\* The number of claims of an event never passes maxProcessingAttempts although
\* a PENDING row is claimed without looking at its count, and an event is given
\* up only after all of them were spent without a decision.
AttemptsRespected ==
  \A e \in Event :
    /\ row[e].attempts <= MaxAttempts
    /\ row[e].status = "PENDING" => row[e].attempts < MaxAttempts
    /\ row[e].status = "FAILED" => row[e].attempts = MaxAttempts /\ ~Decided(e)

\* A claim token names one claim: two workers never hold the same one, and the
\* row of a worker with a live lease on it is in PROCESSING with a token no
\* later claim has been given.
TokensNameOneClaim ==
  /\ \A v, w \in Worker :
       Holding(v) /\ Holding(w) /\ worker[v].token = worker[w].token => v = w
  /\ \A e \in Event : row[e].live =>
       /\ row[e].status = "PROCESSING"
       /\ \A w \in Worker : Holding(w) /\ worker[w].event = e => worker[w].token <= row[e].token

\* A decision is written only by the newest claim of its event: a worker that
\* lost its lease to another one cannot slip its own decision in.
NoStaleDecision ==
  [][\A d \in decisions' \ decisions :
       \A w \in Worker : Holding(w) /\ worker[w].event = d.event => worker[w].token <= d.token]_vars

\* DECIDED and FAILED are final, and a claim never takes back a decision.
TerminalIsFinal ==
  [][/\ \A e \in Event :
          row[e].status \in {"DECIDED", "FAILED"} => row'[e].status = row[e].status
     /\ decisions \subseteq decisions']_vars

\* Every pending event is eventually decided or given up, even if workers keep
\* dying with the claim in their hands.
EveryEventSettles ==
  \A e \in Event : <>(row[e].status \in {"DECIDED", "FAILED"})

(***************************************************************************)
(* The refinement: PENDING and PROCESSING rows are OPEN events.            *)
(***************************************************************************)
OutcomeOf(r) == IF r.status \in {"DECIDED", "FAILED"} THEN r.status ELSE "OPEN"

Outcome == INSTANCE EventOutcome WITH
  outcome <- [e \in Event |-> OutcomeOf(row[e])],
  tries   <- [e \in Event |-> row[e].attempts]

\* The claim protocol implements EventOutcome: bounded tries, one outcome each.
ImplementsOutcome == Outcome!Spec

\* ... and, under fairness, its promise that each event keeps progressing.
ImplementsFairOutcome == Outcome!FairSpec
=============================================================================
