# FalseRoute in TLA+

Specifications, model-checking configurations and machine-checked proofs for
FalseRoute, a monorepo of an API, a worker and an operator console that answer
intrusion events with *simulated* deception: decoys, false routes and source
quarantines.  Paths below are relative to `src/`.

Contents: 1 the system, 2 the modules, 3 how they correspond to the code, 4 the
runs, 5 fairness, 6 the proofs, 7 findings and observations, 8 what is not
modelled, 9 the plan.

## 1. The system

### Parts, state and operations

| Part | State | Operations |
|---|---|---|
| Event polling (`apps/worker/src/processor`, `persistence/worker-repository.ts`) | `intrusion_events` with claim token, lease and attempt count; `deception_decisions` | claim under a lease, evaluate, persist the decision behind a fence, release or fail the claim |
| Autonomous workflow (`orchestration/autonomous-workflow.ts`, `integrations/pubsub-push-handler.ts`) | ingestion receipts, delivery attempts | accept a push delivery, deduplicate, evaluate with a model, execute tool calls, quarantine poison messages |
| Tool gateway (`apps/worker/src/tools`) | `tool_operation_ledger`, `provider_intent_records`, reservations, lease rows, activity | authorize, reserve, claim the intent, call the provider, write five boundaries, recover an ambiguous operation |
| Budgets (`budget-repository.ts`, `services/gemini-budget-service.ts`) | `budget_reservation_records` | acquire an attempt slot, mark, consume, release, reconcile what expired |
| Leases and cleanup (`lease-repository.ts`, `cleanup/lease-cleanup.ts`) | three lease tables, `cleanup_sweep_records` | create, claim expired leases, settle, record a failure, remove orphans |
| Emergency release (`emergency-release-repository.ts`, `unsettled-leases.ts`, `apps/api/src/services/emergency-release-service.ts`) | `emergency_release_records` | claim active leases, settle routes and quarantines, leave decoys to the sweep, derive the result |
| Simulated providers (`tools/fake-cloud-adapters.ts`) | in-memory inventory, lost with the process | deploy, assign, apply, remove, list |
| Dead letters and replay (`dead-letter-service.ts`, `event-publisher.ts`) | dead-letter records, replay attempts | store, claim, publish, complete or fail the claim |
| Campaign runner (`campaign-orchestrator.ts`, `campaign-repository.ts`, `campaign-service.ts`) | `campaign_runs`, `campaign_step_runs` with the claim of a publication | start, complete a step and prepare the next in one transaction, publish, mark, fail, resume by a sweep |
| Activity stream (`activity-stream-service.ts`, `activity-event-repository.ts`, `ActivityStreamConsumer.ts`) | activity rows with a cursor; the poller's cursor, clients and their catch-up buffers; the console's cursor | insert, poll, broadcast, catch up, repair from a snapshot, reconnect |
| Model adapters (`apps/worker/src/adapters`) | limiter slots and queue, attempts, timers | wait for a slot, pay, call, classify an error, back off, give up |
| Decision policies (`domain/autonomous-policy.ts`, `tools/tool-policy.ts`, `contracts/src/scenario.ts`, `incident-context-service.ts`) | none; the scenario catalog | validate evidence, build the context, accept an answer, plan the response, check a tool call |
| Process lifecycles (`apps/worker/src/lifecycle.ts`, `apps/api/src/lifecycle.ts`) | phases of start and stop, the database connection | listen, become ready, drain, disconnect, exit |
| API middleware, console, contracts, scripts | token buckets, in-flight count; UI state; none; none | see PROJECT.json |

### How they interact

The database is the only shared memory.  Every worker and API process runs
transactions against it, and between two of them anything may happen: another
process acts, a lease or a claim runs out, the process dies.  There are five
protocols over it, and a message queue and a stream beside it.

* A *claim with a lease and a token* (events, provider intents, sweeps,
  emergency releases): whoever finds the row free or expired takes it with a new
  token; a later write is a compare-and-set on that token.
* A *reservation* (budgets): an amount is reserved before the work and
  consumed, released or, when it expired, reconciled afterwards.
* An *intent* (tools): the provider is called only by the holder of a claimed
  intent; after a failure the next caller must find out what happened.
* A *takeover* (leases): the sweep and an emergency release take leases from
  each other with a new owner and the next fencing token.
* A *chain* (campaigns): the transaction that completes a step prepares the next
  one, whose publication is then anybody's who holds its claim.

Events reach the worker in two ways: it polls the table, or the API publishes a
message that the broker pushes to it, once or several times, until it is
acknowledged.  A *receipt* per message tells the first push from the others.  A
push goes through the push handler (`EventDelivery`), the campaign runner
(`CampaignRun`), the workflow (`ResponseWorkflow`), the model adapter (`ModelCall`)
with its attempt gate (`AttemptBudget`), and for each planned tool the gateway
(`ToolGateway`), all in a process that may be told to stop (`WorkerProcess`).  What
they record is streamed to the consoles (`ActivityStream`).

The tool gateway reserves budgets and creates lease rows; the sweep settles both
later and reads the gateway's intents to decide whether an expired reservation
was spent; the emergency release competes with the sweep for the same leases.

### What is hard

* A write commits and its acknowledgement is lost: the caller takes the error
  path over a state that says success.
* A lease expires under a holder that is still working, who then writes late.
* A value is read, something is awaited, and the value is acted upon: the
  outcome of an expired slot, the known lease keys, the status of an intent.
* A message is pushed again while it is worked on, or after its worker died; a
  replay is published and its answer lost.
* A process dies between two of the gateway's boundaries, or between the
  provider call and the row that says so, and its simulated inventory dies too.
* Two deliveries and two sweeps are at the same campaign step.
* Activity rows become visible in another order than that of their cursors, while
  a client is caught up, a console repairs and connections break unnoticed.
* A slot of the limiter is handed over while its next holder gives up; a timer
  fires while an attempt waits for the database.
* Budgets are charged to the day on which the work began, so two windows can be
  open for one event.

### What makes each part correct

| Part | Safety | Liveness |
|---|---|---|
| Event polling | one decision per event, by the newest claim; attempts bounded; DECIDED and FAILED final | every event is decided or given up |
| Tool gateway | one provider effect per operation; terminal rows are projected; no effect is refunded by the gateway; outcomes final | an undisturbed retry repairs |
| Model budget | one request per slot; sent requests stay charged; on-time spend within the limit; verdicts final | every reservation is settled |
| Leases and release | released means absent; COMPLETED is true; one unfinished release; no lease in two releases; overtaken sweeps write nothing | every resource goes; every lease is settled |
| Delivery and replay | one workflow per message; what is acknowledged is on record; a dead letter is published again at most once; its status is true | the broker gets rid of every message that can be recorded |
| Campaign | steps form a chain; nothing is marked published before it was sent; the campaign's row advances one step at a time | a campaign whose first event is out ends |
| Activity stream | a console is shown what was on time, once and in order | every such row is shown |
| Model calls, worker process | slots are conserved; work that the drain waits for keeps its database; a timeout ends a call and not the process | a call ends though the provider hangs; a stop ends |
| Decisions | no answer of the model expands its authority or takes the mandatory response away; the three tables agree; the context says the truth about itself | - |

PROJECT.json, "hazards", gives the line at which each of these can go wrong.

## 2. The modules

| Module | Role |
|---|---|
| `EventClaim` | the claim protocol of the polling worker |
| `EventOutcome` | its promise: bounded tries, one outcome per event |
| `EventClaimProofs` | theorems about `EventClaim` |
| `ToolGateway` | one event's tool operations through the gateway, with ledger, intents, reservations, lease rows and the sweep's reconciliation |
| `ToolOperation` | its promise: rejected without an effect, or one effect and then recorded |
| `ToolGatewayProofs` | theorems about `ToolGateway` |
| `AttemptBudget` | model attempt slots, their gate, the daily limit, the expiry sweep |
| `AttemptBudgetProofs` | theorems about `AttemptBudget` |
| `LeaseRelease` | what happens to a simulated resource after its creation: cleanup sweeps and emergency releases compete for its lease |
| `LeaseReleaseProofs` | theorems about `LeaseRelease` |
| `EventDelivery` | the way of an event into the worker: publication, broker, push handler, receipts, quarantine, replay of dead letters |
| `MessageFate` | its promise: a message is worked on once or recorded before it is settled, and a dead letter is published again at most once |
| `EventDeliveryProofs` | theorems about `EventDelivery` |
| `CampaignRun` | the campaign: start, deliveries of its steps, preparation, publication, resume sweep |
| `CampaignRunProofs` | theorems about `CampaignRun` |
| `CampaignProgress` | its promise: it starts once, takes its steps one by one, and ends once |
| `ActivityStream` | activity rows, the API's poller and clients, the consoles |
| `ActivityStreamProofs` | theorems about `ActivityStream` |
| `ModelCall` | model calls: limiter, attempts, backoff, timers |
| `WorkerProcess` | the worker process around them: start, work, stop (extends `ModelCall`) |
| `ResponsePolicy` | the scenario catalog, the acceptance of an answer, the plan, the gateway's policy, as operators |
| `ResponseWorkflow` | one workflow from the envelope to its end (extends `ResponsePolicy`) |
| `WorkerProofs` | theorems about `ResponseWorkflow` and about `ModelCall` with `WorkerProcess`: what runs inside the response worker |
| `MC...` | the instances TLC checks, one module for each component |

`LeaseRelease` takes the tool operation of `ToolGateway` in short: dispatched
once (proved there: `OneEffect`), then the intent and the lease row, each of
which may fail, and a later call that repairs what is missing.  `ToolGateway`
takes the cleanup in short in the other direction: `ProviderRemoves` lets a
resource disappear at any time, so nothing it promises depends on when the sweep
runs.  `EventDelivery` and `CampaignRun` have one
step where the workflow runs, with its outcomes; `ResponseWorkflow` has its inside
and takes the tools in short (a call is executed or fails).  `ModelCall` takes the
attempt gate in short (it opens or refuses), `AttemptBudget` the adapter (it asks
again or stops).  No abstract specification is stated for the other components:
their promises are invariants over rows that others read, and are stated as such.

## 3. Correspondence to the code

Every SQL statement that is alone, and every transaction, is one action; so is
every await on a provider.  A read that is followed by a compare-and-set of what
was read is one step with it, as a change in between makes the write fail and the
call throw or ask again, which are steps of the model too (`ClaimIntent`,
`ReconcileReservation`); so is a read back of a row that the caller has just claimed
(`ClaimPublication`).  `ObserveProvider` joins three awaits on one slot (observe,
revoke, observe again) and has every outcome they can have together.  What a lost connection may do is written out where
it matters: a call may fail before it changes anything, or after.  `MaxFaults`
bounds how often; in the proofs the bound is any natural number.  Time is
abstract: a lease, claim or reservation is `live` (or `expired`) until an action
of its own changes that at any moment.  Version columns are kept only when a
comparison can tell two values apart.

**EventClaim.**  `row` is `intrusion_events`, `decisions` is
`deception_decisions` with the token that wrote each, `worker` is where
`processNextPending` stands.  `FailExhausted` and `Claim`/`NothingToClaim` are
the two statements of `claimNextPendingEvent` (`SKIP LOCKED` is `MayBeLocked`);
`PersistDecision` and `PersistUnacknowledged` are `persistDecision`;
`ProcessingThrows`, then `ReleaseOrFailClaim`, is the error path; `Abandon` is a
process that dies.  Tokens are numbered, as `randomUUID` never repeats.

**ToolGateway.**  A `Worker` is one incarnation of a process.  `ledger`,
`intent`, `resv`, `lease`, `activity` are the tables, `provider` each process's
inventory, `held` the gateway's `heldClaimTokens`.  `AuthorizeCall`,
`RejectCall`, the two `Reserve...Budget`, `CreateIntent`, `ClaimIntent` and
`Dispatch` are the awaits of `runToolCall` in their order; `Recover` and
`CheckHeldReservation` are `recoverAmbiguousOperation`; `SettleIntent`,
`EnsureLeasePersisted`, `SettleBudget`, `RecordActivity` and `SettleLedger` are
the five boundaries of `settleExecution`, and `BoundaryFails` is a boundary that
throws, after which the rest is still attempted.  `SettleBudget` goes over the two
keys one after the other, and over each in up to three steps: `ConsumeBudget`, which
fails for a reservation of another owner or one that is settled, `AcceptReservation`,
which reads it, and `ReconcileReservation`, which takes over what an earlier owner left.
`ReleaseToolBudgets` and `ReleaseAmbiguousBudget` release one key after the other,
the second one in either order, and a release that fails is swallowed
(`ReleaseOrFail`).  `ReservationCollides` is the key that is found in the window of
an earlier hour or day.  `SweepInspect` and
`SweepSettle` are `reconcileExpiredReservations` for tool reservations.
Parameter validation, the allow-list and the hourly count are one choice,
`RejectCall`.

**AttemptBudget.**  A `Worker` is a call of `executeWithBudget` with its gate.
`AcquireRead` and `AcquireInsert` are the two halves of
`acquireEventAttemptSlot`, under the advisory lock of their window (`LockFree`);
`RecordDispatched` is the marker written before a request, `Dispatch` the
request, `SettleBeforeNext`, `ExecuteReturns` and `ExecuteThrowsPreCall` are the
gate's settlements, `ReleaseVerified` the refund of a request that was verifiably
not sent.  `SweepRead` and `SweepSettle` are `reconcileExpiredReservations`.  The
start of the next UTC day is `NextDay`.  Every attempt reserves and is charged
the same amount, as no caller passes usage metadata, so amounts are counted in
attempts.

**LeaseRelease.**  A `Lease` is one operation with its resource and its row.
`Dispatch`, `Resume` and `Project` are the tool operation; `AcquireLock`,
`ClaimExpired`, `ReleaseResource`, `MarkReleased`, `RecordFailure`,
`ReadOwnershipKeys`, `RemoveOrphans` and `FinishSweep` are `sweepExpiredLeases`
with the leases of one sweep in any order, as its `Promise.all` leaves them;
`ClaimEmergency`, `ObserveProvider`, `MarkEmergencyReleased`,
`MarkEmergencyFailed`, `Defer`, `SettleRecord` and `AbandonRequest` are
`executeEmergencyRelease`.  Routes sit in slots (`sourceIp`, `sourceCidr`):
assigning a slot replaces what it held, and the emergency release revokes by
slot while the sweep removes by operation.  `Observable` are the routes whose
adapters are wired into the API; `apps/api/src/app.ts:220` wires none, so in the
deployed API every route is deferred to the sweep, while the service's tests
wire both.  The statuses CLEANED_UP, REVOKED and RELEASED are one, `Released`,
as nothing in the code distinguishes them after the fact.

**EventDelivery.**  `events` are the rows of `intrusion_events`, `message` is
what the broker holds, with the subscription that a message is in.  `progress`
joins the ingestion receipt (`accepted`), the end of the workflow (`worked`) and
the recorded delivery attempt (`reported`) of a message; `letter` joins a
dead-letter record with its replay attempt, whose status changes in the same
transaction.  `push` and `replay` are requests in progress.  `CreateScenario`
and `PublishScenario` are `createAutonomousScenario`; `PublishPoison` is what the schemas
reject: `form` says whether the envelope itself is rejected, or a payload in it.  `Deliver`, `Forward` and `DeliverDead` are the
broker.  `Accept`, `SkipDuplicate`, `Work`, `Report` and `Quarantine` are the push
handlers down to the repository calls, and `PushFails` is an error answer or a
dying worker.  `ReplayRead`, `Claim`, `PublishReplay`, `PublishUnheard`,
`Complete`, `CompleteFails`, `Fail` and `ReplayDies` are `replayRecord`.  A
forwarded message keeps its identity in the model.  The foreign key of
`dead_letter_records` is `Storable`; `Recordable` adds that the handler of the
dead-letter subscription refuses a rejected envelope before it records anything.  How
long the broker keeps a message is not modelled (the subscriptions have its default,
seven days): a message that is never acknowledged is pushed for ever.  `Contents`, `Standings`, `Works`, `Verdicts`
and `Origins` map this state to that of `MessageFate`: both subscriptions are `open`
there, and whether the delivery attempt was recorded does not matter.

**CampaignRun.**  `campaign` and `step` are the two tables, `sent`, `acked` and
`receipt` the broker and the receipts.  `Start`, `PublishFirst` and
`PublishFirstFails` are `CampaignService.start`.  A push is `Receive` and
`WorkflowEnds` (the workflow), `LookForFirst` and `CreateFirst`
(`ensureInitialStep`), `CompleteAndPrepareNext`, `PublishNext` and `MarkNext`, or
`FailCampaign` and `FailStep`, the two statements of `failCampaign`.  A sweep is
`ListResumable`, `ClaimPublication`, `PublishClaimed`, `MarkClaimed`.  The claim that
`completeAndPrepareNext` takes on the campaign begins and ends inside its
transaction and is left out.  The mode is OIDC; the publisher of the local mode,
which works on the next step in the same call, is not modelled.

**ActivityStream.**  An event is its cursor.  `Insert`, `Commit` and `Abort` are a
row; a row that becomes visible after a later one is `late`.  `BeginPoll` and
`PollPage` are `pollPersistedEvents`, page by page, with `Broadcast`;
`BeginCatchUp` and `CatchUp` are `registerClient`; `Disconnect`, `PollFails`, `Reap`
and `Restart` are the ways a client is lost; `zombies` counts connections that broke
unnoticed.  `BeginRepair`, `FirstSnapshot`, `RepairPage`, `OpenStream`, `Refused`,
`ReadBlock`, `StreamEnds` and `Breaks` are the consumer.  `since` is a history
variable: the cursor before the first snapshot.

**ModelCall, WorkerProcess.**  `active` and `queue` are the two limiters, `call`
the operations.  `Acquire`, `ReleaseAs` and `LeaveQueue` are the limiter,
`EnterAttempt`, `GateOpens`, `GateRefuses`, `ProviderAnswers`, `ProviderFails`, `WakeUp`,
`RequestTimeout` and `Deadline` the two adapters: the autonomous one takes a slot for
each attempt and sleeps without it, the enrichment one holds its slot.  A timer that
fires while an attempt waits for its gate rejects a promise nobody listens to yet
(`RejectUnheard`).  `connected` are the push requests whose connection is open: it is
kept alive after the answer, and may close under the handler (`CloseConnection`).  A
stop closes the idle ones, and `Drained` waits for the others and for the loop, as
`server.close` and the orchestrator's `stop` do, and not for handlers.  `Listen`, `BecomeReady` and `StartupFails` are `startWorker`;
`Stop`, `Drained`, `DrainTimeout`, `Disconnect`, `ShutdownTimeout` and `Exit` are its
`stop`.  Durations are left out: a timer may fire at any time.

**ResponsePolicy, ResponseWorkflow.**  The catalog is one record per scenario.
Evidence is four flags, a function call its tool and three flags (`valid`, `sound`,
`confident`), as nothing else of it decides; every accepted call is executed in its
canonical form.  `ParseAnswer` is the end of `executeSingleCall`, `SimulatedAnswer`
the simulated adapter, `ActionsToExecute` is `evaluateAutonomousPolicy`,
`ToolAuthorized` is `evaluateToolPolicy`.  The actions of `ResponseWorkflow` are the
awaits of `processEventEnvelope`; `ContextOf` is the incident context over an
activity feed.

## 4. The runs

States are distinct states; each run finishes within three minutes on two cores.  A
run without a number of states expects the violation that section 7 describes.

| Run | Instance | States | Question and answer |
|---|---|---|---|
| `event_claim` | 3 workers, 2 events, 2 attempts | 31k | Do leases that expire at any moment, lost acknowledgements and dying workers ever cause a second decision, a stale one, or an event tried too often or never settled?  No; and the protocol implements `EventOutcome`, with its fairness. |
| `tool_gateway` | 2 processes over one inventory, 1 resource operation, 1 fault | 594k | Is the effect made once, is a terminal row always complete, does the gateway refund no effect?  Yes; the gateway implements `ToolOperation`, and a retry that neither a failed call nor a stale sweep disturbs repairs a recorded effect. |
| `tool_gateway_spend` | 1 process, 1 resource operation, no fault | - | Is every reservation beside a terminal row charged?  No: finding 3. |
| `attempt_budget` | 2 calls, 1 event of 2 attempts, room for one, 2 days, 1 fault | 464k | Does a slot ever pay for two requests, is a sent request refunded, does what is settled in time pass the limit, is a reservation never settled?  No. |
| `lease_release` | 1 route and 2 sweeps, or 2 requests with 2 keys and 2 claims, or a decoy beside it; 2 attempts, 1 fault | 208k | Is what is recorded as released gone, whoever overtook whom, and are overtaken sweeps without effect on rows?  Does every resource go and every lease get settled, also after an abandoned release?  Yes. |
| `event_delivery` | 1 event, 2 messages, 2 pushes, 2 replays, 2 deliveries, 2 faults | 297k | Does redelivery, a lost answer or a dying process ever run a workflow twice, lose a message without a record, publish a letter twice or leave a false status?  No; the delivery implements `MessageFate`, and every message whose envelope can be read and whose event, if it names one, has a row is settled. |
| `event_delivery_retry` | the same, 1 fault | - | Is a delivery that failed worked on again?  No: finding 1. |
| `campaign` | 2 steps, 1 operator, 2 pushes, 2 sweeps, 4 copies of a message, 1 fault | 301k | Do two deliveries of a step, two sweeps and the worker that prepared the next one ever break the chain, or mark what was not sent?  No; the row implements `CampaignProgress`, and a campaign whose first event is out ends. |
| `activity_stream` | 3 rows, 1 console, 1 connection, pages and windows of one row, 3 faults | 54k | Is a console shown a row twice, out of order, or not at all, while it is caught up, repairs or reconnects?  Not a row that became visible in the order of its cursor. |
| `worker_process` | 3 push requests, the polling loop, 1 slot, a queue of 1, 1 retry | 167k | Is a slot lost or given twice, does work that the drain waits for lose its database before the drain times out, can a call or a stop hang?  No. |
| `model_call_crash` | 1 push request, the polling loop, 1 retry | - | Does a timeout end the call and nothing else?  No: finding 2. |
| `response_workflow` | all scenarios and evidence, answers of up to 6 calls under a ceiling of 4, feeds of up to 3 rows, 2 signals | 173k | Can an answer expand the model's authority, or take the mandatory response away?  Do the policies disagree, or does the context misstate itself?  No. |

**Why the bounds are enough.**  Each protocol is about who overtakes whom, and
two competitors show every order of two; `event_claim` has a third worker so
that a row can be lost twice.  Two attempts distinguish "again" from "for the
last time".  One fault is a lost acknowledgement or a death at any point; two,
where they fit, allow a failed repair after it.  Two days are what one call can
span.  `MaxClaims = 2` lets an emergency release be resumed after its claim
expired, or another key try.  One resource operation is enough because rows of
different operations share nothing but the daily limit, which `attempt_budget`
contends, and the provider slots: that two routes share an address is left to the
theorems, which hold for any assignment of slots.  Processes with inventories of
their own (`SharedInventory = FALSE`) are left to the theorems as well;
`ProviderRemoves` lets the shared inventory lose a resource at any time.  Two
messages are an event published twice, a letter and its replay, or an event and a
poison message; two deliveries are a first one and a last.  Two campaign steps are
the first, which nobody prepares, and the last, which prepares nothing; four
copies are two that the start may send and two of a sweep or worker each.  Pages,
windows and connections of one row make every boundary of the stream happen.  One
slot with a queue of one has a holder, a waiter and a caller that is refused.  The
ceiling on tool requests is 4 instead of 5, so that answers at, under and over it
are all enumerated.  The proofs remove these bounds for the safety properties they
cover.

**What does not come together.**  Two instances leave combinations out, in their next
steps, so that safety and liveness can be checked over one state space (`Apart`).  In
`lease_release` the second sweep, the second emergency claim and the decoy exclude each
other, and a failed call and both leases; the second request and key are kept
for the second claim.  In `worker_process` the third push, which fills the limiter, and a
step of the polling loop, which has a limiter of its own, are not at work at the same
time.  Only beginnings are left out (a claim, a dispatch, a fault, an acceptance), to
which no fairness is given, but for a sweep that takes the lock, which the first sweep
may always do; the theorems about these modules are about `Spec`, with every
combination.  No run uses symmetry.

**Deadlock** is checked where the system never stops (`event_claim`, the leases);
elsewhere the work really ends: every operation terminal or every process dead,
all slots settled on the last day, all messages settled, the campaign over, all
rows shown, the process gone, the workflow finished.

**Mutants.**  Every property of a passing run is violated by at least one
plausible bug in the code, kept next to the definition it changes and marked
`mutant`: for instance a takeover that keeps the token of the lost claim, a
primed attempt that is not reset, a fence that does not compare the owner, an
emergency release that does not observe the provider after the revocation, a
step completed without comparing the campaign's current one, a slot that is handed
over and freed too.

## 5. Fairness

Liveness is stated under the fairness the code's scheduling gives, and no more.

* Polling: `runStep` schedules its successor on every path, errors included
  (`processor/worker-orchestrator.ts:74-106`), so `WF(Step(w))`; leases have an
  expiry time, so `WF(LeaseExpires(e))`.
* Gateway: a call that is in progress runs on, `WF(Step(w, op))`.  Nothing makes
  a *new* call: `RetryRepairs(w)` speaks of a retry that `w` has started, and
  assumes the fairness of `w` alone.  Processes are interchangeable, so TLC checks
  it for one of them (`RetrierRepairs`).
* Budgets: time passes, and the cleanup job calls the sweep
  (`infrastructure/terraform/modules/scheduler/main.tf:5-22`, every five minutes,
  and the poll loop where a cleanup service is wired), so `WF(Sweep)`,
  `WF(RowExpires)`.  The workers get no fairness: they may all be gone.
* Leases: the same schedule gives `WF` for taking the sweep lock and for each
  sweep in progress; leases and the lock expire.  Operators, requests and tool
  operations get none, so nothing depends on a release being retried.
* Delivery: a push request that was received runs, `WF(HandlerStep(p))`.  The
  broker pushes what is not acknowledged, up to five times and then to the
  dead-letter subscription, which has no limit
  (`infrastructure/terraform/modules/pubsub/main.tf:34-80`): `WF(Forward(m))`,
  and `SF` for each delivery, as a free handler comes and goes.  `Settles(m)`
  assumes this of `m` alone, and TLC checks it for one message
  (`WatchedSettles`).  Publishers, clients and operators get none.
* Campaign: a push that was received runs on, `WF(PushStep(p))`; the broker pushes
  what is not acknowledged, `SF` on the first message of each step, as a free
  handler comes and goes; the resume sweep comes round in the polling loop
  (`worker-orchestrator.ts:108-121`), `WF(SweepStep(s))`; a claim expires.  The
  operator gets none.
* Activity stream: the poll and heartbeat timers come round, a client that is being
  caught up and a console go on (`WF`); writers get none, so a row that stays open
  holds nobody up.  Faults are bounded, which says that connections do not break
  for ever.
* Worker process: `Progress(c)` is what timers and the database give a call; that
  the provider answers (`ProviderAnswers`, `ProviderFails`) is in no fairness.  It is given to
  one watched push and to the loop, and to nobody they wait for.  The phases of a stop are bounded by
  timers, `WF(Shutdown)`.

## 6. The proofs

All theorems hold for every value of the constants, in particular any number of
processes, operations, attempts, days, sweeps, requests and faults.  They assume
only the named assumptions on the constants.

**EventClaim**: `TypeCorrect`, `OneDecision`, `BoundedAttempts`,
`TokenOwnership`, `FencedDecisions`, `RefinesOutcome`.  The inductive invariant
`ClaimInv` adds to the properties that a lease is live only on a PROCESSING row,
whose token was drawn (`RowShape`), that no holder's token is newer than the
last one drawn or than that of the PROCESSING row it works on (`HolderShape`),
and that no two holders have the same token (`DistinctTokens`).  Without it
`DecidedExactlyOnce` is not inductive: nothing would stop a holder with an old
token from passing the fence.  The refinement maps PENDING and PROCESSING to
OPEN; each action is a try, a decision, a surrender or a stutter.

**ToolGateway**: `TypeCorrect`, `OneEffect`, `ProjectedTerminals`,
`FinalOutcomes`, `NoRefunds`, `RefinesOperation`.  `GatewayInv` has a part about each
operation (an effect implies that the intent was taken and stays taken; EXECUTED
implies an effect), one about each call in progress (a call that has reached a
boundary without a failure has all earlier boundaries durable behind it; a
dispatcher has a taken intent and no effect yet), and `OneDispatcher`.  The lemma
`Stable` collects what no step takes back.  `AtMostOneEffect` needs all three:
the claim is exclusive, it is never offered again, and a dispatcher dispatches
once.  `SpendInv` is the strengthening for `NoRefundOfEffects`: a reservation that
was released belongs to an operation whose intent FAILED, or whose intent nobody
has claimed while no call is on its way to pay, so a claim can never find its
payment taken back (`SpendOp`), with what each call knows of the reservation it
made (`SpendCall`).  It speaks of RELEASED reservations: what the cleanup EXPIRES
returns to the window as well, and does so beside recorded effects (finding 3).  It
shows by the way that `AfterRefusedClaim` is out of reach
here: the reservation of an operation never changes its owner.

**AttemptBudget**: `TypeCorrect`, `OneCall`, `CallsCharged`, `FinalVerdicts`,
`LimitKept`.  `BudgetInv` says who holds a slot (`OneHolder`), that a held slot
that may still be spent has not been (`UnsentInv`), and that the sweep's evidence
of a pre-call failure is still true of the row when it acts on it (`SweepInv`).
`LimitInv` is the argument of the advisory lock: one inserter per window, and
the room it read is still there; it needs cardinalities of finite sets.

**LeaseRelease**: `TypeCorrect`, `ReleasedLeases`, `CompletedReleases`,
`OneRelease`, `DisjointReleases`, `FencedSweeps`.  `LeaseInv` adds that a new
operation has no row, that only leases with a row have jobs, that the resource
of a job about to be marked is absent, that members of a release were claimed and
that a live claim is of a PENDING record.  The argument: a resource appears only
while its operation is new, so what was observed absent under a row stays absent
though another may be assigned the same slot; a COMPLETED record saw all of its
routes released; and ACTIVE is never entered again, so a lease has one release.
`StepMoves` states what one step may do to rows, resources, jobs and records,
with one step per action; everything else follows from it.
`MembershipIsDisjoint` is proved only; TLC agreed on a small instance.

**EventDelivery**: `TypeCorrect`, `OneWorkflow`, `AckedRecorded`, `OneReplay`,
`TrueLetters`, `ForwardLetters`, `RefinesFate`.  `DeliveryInv` adds that an unsent message has
no receipt and no letter and that a copy's letter was claimed (`MessageShape`),
what a push at each point knows of its message (`PushShape`), the same of a
replay (`ReplayShape`), and that one request holds the claim of a letter
(`OneClaim`).  A receipt is written by the push that then works, and by no other;
a claim takes a letter out of AVAILABLE, to which it never returns, so its
holder alone can publish and can do so once.  For the refinement `Readable` adds that
what is replayed can be read, so that a copy has the content of its original; each
step then publishes, begins or ends a workflow, settles, records, claims, publishes
again, judges, or changes no fate.  `AckedRecorded`, which is what `MessageFate`
demands of a settlement, is proved only; TLC checks it as part of the refinement.

**CampaignRun**: `CampaignTypes`, `ChainOfSteps`, `SentBeforeMarked`,
`RefinesProgress`.  `CampaignInv` adds that work on a campaign is work on one
that was started (`StartedBefore`), what a request at each point knows of its step
(`PushShape`: in particular that one about to fail the step's row has failed the
campaign at that step, and nobody else moves a failed campaign), that a sweep
about to mark has sent (`SweepShape`), and that the current step exists
(`CurrentExists`).  The argument: only a request whose step is the current one of
a running campaign completes it, so it can be completed once; a first row can only
be created while nothing was, because afterwards the first step exists.
`CampaignSteps` says what one step may do to the campaign's row, and
`RefinesProgress` is its comparison with `CampaignProgress`.

**ResponseWorkflow**: `BoundedAuthority`, `MandatoryResponse`,
`AgreementOfPolicies`, `TruthfulContext`, for every set of answers, every feed and
every ceiling on the number of requests.  `CatalogFits` is what the scenario table must satisfy for
the policies to be right, scenario by scenario: the fallback is mandatory, nothing
mandatory is forbidden or needs a decoy, and what the gateway refuses is forbidden.
From it follow `PlanIsOwned`, `MandatoryIsPlanned`, `AcceptedIsPlanned` and
`PlanIsAuthorized`, which are about the policy as a function of the answer;
`WorkflowInv` carries them through the workflow (what was executed is a first part
of the plan in the fixed order).  A change of the catalog that breaks one of these
facts breaks `CatalogFits`.
`TruthfulContext` is about feeds of any length without an induction over them: the
other events of an incident are each known by the first of their rows
(`RelatedRows`), `Precedes` orders them strictly, so a row is known by how many are
before it, and fewer than `MaxSignals` of them are among the most recent, all of
them if there are no more (`RecentRows`).  The theorem is about contexts that were built
(status SUCCESS): that COMPLETE is exactly that nothing of the feed is missing and that
there is something besides the current event.  Of a DEGRADED context it says nothing.

**ModelCall, WorkerProcess**: `ProcessTypes`, `SlotsTheorem`, `DatabaseTheorem`, in
`WorkerProofs`, which extends `WorkerProcess` beside `ResponseWorkflow`; the names
`ProcessInit`, `ProcessNext` and so on keep the two apart.  `ProcessInv` is
`SlotInv`, for each limiter that the count is the number of holders (`CountInv`) and
that the queue has the waiting calls, each in one place, and nobody while a slot is
free (`QueueInv`), with `LifeInv`, what each phase means for the work.  The set of
callers may be infinite: those who hold a slot are finitely many at any time, which
is itself part of the invariant.  Every step of a call does one of four things to its
limiter (`Local`, `Takes`, `Gives`, `LeaveQueue`), and the lemmas about slots and queues
are about these four.  `DatabaseTheorem` (`DatabaseOutlivesAwaited`) is `LifeInv`: when
the listener and the loop are off, work arrives over kept connections only, and when the
last of these has closed none arrives any more, so what was idle at the drain stays
idle (`IdleStays`).  Handlers whose connection closed before are left out of it
(see the observations).

**ActivityStream**: `StreamTypes`, `ExactFeed`, `ContinuedWire`, for any number of
consoles and rows, any sizes of page, replay and queue, and any number of faults.
`StreamInv` rests on one fact about cursors: whoever keeps one (the service, a client
or a console) read it from the table (`CursorsReached`), and a row on time that
commits later lies past the whole table, so what a stream has is complete up to its
cursor ever after (lemma `StreamsKeep`).  The other parts say what each place holds
between two cursors: what is on the wire continues what the console has (`WireReads`),
what the polling has passed is pending for a client that catches up and written for one
that is live (`QueueHolds`), and the console shows what it has read (`FeedShows`).
`Span` states that of any table, so that a page read earlier can be compared with the
table as it is now; `Batch` is a page.  The module begins with lemmas about ascending
sequences of cursors, which are known by their members.

**Model-checked only**: the liveness properties (`EveryEventSettles`, the fairness
of `ImplementsOutcome`, `RetrierRepairs`, `EverySlotSettles`, `EveryResourceGoes`,
`EveryLeaseSettles`, `WatchedSettles`, `CampaignEnds`, `EveryRowIsShown`,
`WatchedCallsEnd`, `StopEnds`), as the prover does not reason about ENABLED.  Every
invariant and every action property of the passing runs is also a theorem.

## 7. Findings and observations

Violations, each with a run that shows it.  The first two are defects, the third is a
disagreement of the code with a comment and a test.

1. **A failed delivery is not worked on again** (`FailedDeliveryIsRetried`).  The
   receipt is written before the work.  When the work fails, the handler answers
   that the delivery will be retried (`pubsub-push-handler.ts:278`); the next push
   finds the receipt, is a duplicate, and is acknowledged.  The event is neither
   worked on nor a dead letter.
2. **A timeout can end the process** (`TimeoutsAreContained`).  Both adapters
   create the promise that a timer rejects, and then await the attempt gate, a
   database call, before anything listens to it
   (`autonomous-gemini-adapter.ts:190-223`, `gemini-adapter.ts:188-235`).  A timer
   that fires in between rejects a promise without a handler, which Node treats as
   an uncaught error.  `docs/architecture/overview.md:106` promises a degraded
   result.
3. **A terminal row may stand beside spend that does not count** (`TerminalIsCharged`).
   The sweep reads the intents, the gateway records the effect, and the sweep expires
   the reservation by what it read (`budget-repository.ts:661-684`).  The gateway
   accepts any settled reservation (`tool-gateway.ts:711`) and writes the terminal row;
   an EXPIRED amount no longer counts for its window.  The comment at
   `tool-gateway.ts:524-526` retains committed spend, and the tests
   (`tool-gateway.test.ts:1127-1132`) expect CONSUMED or RECONCILED.
   `TerminalIsProjected` and `NoRefundOfEffects` are what remains true.

Observations without a run.  The model does what the code does in each of them.

*Tools and budgets*

* An expired reservation no longer counts for its window, its room may be given
  away, and it is charged afterwards if the sweep finds a sent attempt: a window can
  be charged more than its limit (`budget-repository.ts:109-128`, 391).
  `OnTimeSpendWithinLimit` is therefore about what is settled in time.
* A refused budget is not recorded as REJECTED.  `runToolCall` has inserted the
  AUTHORIZED row before it reserves; `reject()` then inserts a REJECTED one under
  the same key and the repository throws a collision (`RejectRefused` returns
  COLLISION).  The gateway's unit tests mock the repository and expect REJECTED
  (`tool-gateway.test.ts:331-333`).
* A key that was rejected once throws when it is called again with valid
  parameters (REPLAY_COLLISION in the model).
* `budget-repository.ts:295-297` says that the attempts of an event share one
  budget window; a redelivery after midnight UTC opens a second one.  The slot
  keys keep the number of attempts bounded all the same (`OneCallPerSlot`).
* No caller passes the reply's usage metadata, or tells the gate that an error
  came before the call: the whole amount is always charged.

*Leases*

* The orphan cleanup reads the lease keys, awaits, and then lists the inventory
  (`lease-cleanup.ts:363-378`): a tool operation that writes its row in between loses
  its resource, and the lease stays ACTIVE, although `docs/architecture/overview.md:70`
  lets cleanup remove only what belongs to the matching operation.
* `settleRoute` observes and revokes by address (`emergency-release-service.ts:170-173`),
  and an address may have been assigned again: the release of one lease can revoke the
  route of another operation, against the same line.  The worker's sweep revokes by
  operation.  It takes adapters that the deployed API does not wire.
* Recording a cleanup failure does not look at the status.  If the
  acknowledgement of the settlement is lost on the last attempt, a lease whose
  resource is gone becomes TERMINAL_FAILURE.  It is the safe side of
  `ReleasedIsAbsent`.
* A TERMINAL_FAILURE lease keeps its emergency record from COMPLETED, and an
  unfinished record refuses every other key: after that a new key can never be
  used.  The old key still can, and claims what has become active since.
* A sweep removes the resource before its first fenced write, so an overtaken
  sweep still acts on the provider; `docs/architecture/threat-model.md:116` asks
  for the check before state is updated, which is true of rows only.
* If the write that makes a failed emergency settlement due at once is lost too,
  the lease waits for its original expiry.

*Delivery and campaigns*

* Two kinds of rejected messages may be pushed for ever, while
  `docs/architecture/threat-model.md:108` has every schema-invalid message recorded and
  says "do not loop on unparseable payloads".  A payload that carries the UUID of an
  event without a row can never be stored: the foreign key of `dead_letter_records`
  refuses it, only a duplicate key is handled, and both handlers answer 503.  A rejected
  envelope whose quarantine fails as often as the broker delivers reaches the
  dead-letter subscription, whose handler answers 503 to it without recording anything
  (`pubsub-push-handler.ts:296-305`).  The model does both; `Settles` is about the
  messages that can be recorded.
* Nothing takes up a letter whose replay died with the API: it stays REPLAYING.
* A push that finds the receipt of its event is a DUPLICATE and completes the
  campaign step, although the workflow of the first push may still run, or may have
  died.  `campaign-orchestrator.test.ts:29` has the step advance "only after the
  workflow completes".
* The sweep and the worker that prepared a step may both publish it, and a start
  that read `currentStep` before the first step was done may publish step 1 again
  (`campaign-service.ts:16-17` says that it cannot).  The receipts absorb the
  copies; `ChainOfSteps` is about rows, and holds.
* `failCampaign` is two statements without a transaction.  If the process dies
  after the first, the redelivery finds a failed campaign and the step's row never
  becomes FAILED.  The CAMPAIGN_FAILED activity is recorded even if another request
  had ended the campaign.
* Events of a campaign are PENDING rows, which the polling worker takes up too.

*Activity stream*

* Cursors come from a sequence, and a row with a lower one may become visible after
  a higher one was read.  The poller, a client's cursor and the console all pass it
  by; `EveryRowIsShown` and `FeedIsExact` are about rows that became visible in
  order.  The comment at `ActivityStreamConsumer.ts:128` takes every gap for an
  unused number.

*Models and decisions*

* `server.close` waits for connections, and nobody keeps the handlers
  (`lifecycle.ts:340-371`, 563-570): a push whose connection has closed, because the
  acknowledgement deadline passed or the client went away, loses its database without a
  drain timeout, while `docs/architecture/overview.md:126` says that the worker "drains
  in-flight processing".  `DatabaseOutlivesAwaited` is about what the drain waits for.
* `error-classifier.ts:90` says that 400, 401, 403 and 404 are never retried;
  `autonomous-gemini-adapter.ts:124-131` retries everything but SUCCESS and
  INVALID_OUTPUT.
* REJECT_ACCESS is mandatory in a scenario and has no tool: nothing is executed for
  it, while `README.md:112-113` speaks of mandatory rejection.
* ALERT_OPERATOR is executed last and the first tool that fails ends the workflow:
  a failing optional tool keeps the mandatory alert from being executed.
* The catalog lists ALERT_OPERATOR as mandatory and as the degraded fallback, which
  `ScenarioActionOwnershipSchema` (`scenario.ts:307-338`) refuses.  The schema is not
  applied to the catalog.
* Mandatory actions get the origin DEGRADED_FALLBACK when the model is unavailable.
* The context reads the latest 100 activity rows (`autonomous-workflow.ts:390`), so
  one that calls itself COMPLETE may lack older signals.  One related record that
  is invalid degrades the whole context.  `ContextIsTruthful` is about the window.

## 8. What is not modelled

* **Pure decisions of the polling worker** (`policy-engine.ts`): scores without a
  state; `EventClaim` takes any decision.
* **API middleware**: the token buckets are local to a process, and to evict one
  only loosens a limit; the overload guard is one counter; the session check verifies
  a signed cookie.  None of them takes part in a protocol.
* **The API's life cycle**: only that it dies and starts again (`Restart` of the
  stream, the crash of a replay); its stop is like the worker's without the drain of
  two kinds of work.
* **The local mode's publisher**, which works on what it publishes in the same call.
* **The console's view state**, apart from its stream consumer.
* **Contracts, security matrix, configuration, observability**, apart from the
  scenario catalog: schemas and tables without a protocol.
* **Scripts and infrastructure**: they start, verify and describe the system.
* Within the modelled parts, wording, names, digests and TTL values, and read-only
  reports (`findAllUnsettledLeases`, `discoverOrphanedResources`,
  `verifyRollbackState`).
* What a model answers: any answer of the enumerated shapes.

## 9. The plan

Done, in this order, most important behaviour first: the claim protocol, the tool
gateway, the model budget, leases and releases, delivery and replay, the campaign,
the activity stream, model calls and the worker process, the response policy and
its workflow.  Left, by what it would add:

| Step | What | Why |
|---|---|---|
| 1 | abstract specifications of the leases and of the budget | their promises are invariants over rows; a page each would say them once |
| 2 | an emergency release with two routes in one slot, as a run | so far covered by the theorems only |
| 3 | the API's life cycle, the token bucket | small, next to nothing depends on them |
