----------------------------- MODULE ToolGateway -----------------------------
(***************************************************************************)
(* One tool call of the autonomous workflow: the gateway authorizes it in  *)
(* the durable ledger, reserves budget, claims the provider intent, makes  *)
(* the (simulated) provider call, and then writes five durable boundaries, *)
(* the ledger last.  Any worker process may run the same operation again,  *)
(* after a crash, a lost database call or a replayed delivery.             *)
(*                                                                         *)
(* Source: apps/worker/src/tools/tool-gateway.ts, tool-execution-helper.ts,*)
(* fake-cloud-adapters.ts and the repositories of packages/database.       *)
(*                                                                         *)
(* Op are the operations (idempotency keys) of one event.  Each await on   *)
(* the database is one action.  A Worker is one incarnation of a process:  *)
(* a restarted process has a new random workerId, so it is another Worker. *)
(* Leases and reservations expire by actions of their own.                 *)
(***************************************************************************)
EXTENDS Naturals, FiniteSets

CONSTANTS
  Worker,           \* process incarnations
  Op,               \* idempotency keys idem-<tool>-<event>
  ResourceOp,       \* those that create a provider resource, and cost money
  SharedInventory,  \* TRUE: the provider's inventory outlives a process
  MaxFaults         \* bound on failed database calls

ASSUME ResourceOpAssumption == ResourceOp \subseteq Op
ASSUME SharedAssumption     == SharedInventory \in BOOLEAN
ASSUME MaxFaultsAssumption  == MaxFaults \in Nat

VARIABLES
  ledger,      \* tool_operation_ledger.stage, "NONE" before the row exists
  intent,      \* provider_intent_records
  resv,        \* budget_reservation_records budget:tool:<op>, budget:usd:<op>
  lease,       \* operations whose lease row exists
  activity,    \* operations with a TOOL_EXECUTED activity event
  provider,    \* inventory of each process's adapters: operations found there
  effects,     \* how often the provider mutation of each operation was made
  call,        \* executeToolCall in progress, per worker and operation
  held,        \* heldClaimTokens: claim token (0: none) per worker and operation
  alive,       \* processes that have not crashed
  sweep,       \* reconcileExpiredReservations: what the current sweep has read
  faults

durable == <<ledger, intent, resv, lease, activity>>
vars == <<durable, provider, effects, call, held, alive, sweep, faults>>

NoOwner == "none"
Keys == {"tool", "usd"}
KeysOf(op) == IF op \in ResourceOp THEN Keys ELSE {"tool"}   \* estimateSpendUsd > 0

NoIntent == [status |-> "NONE", live |-> FALSE, token |-> 0, version |-> 0]
NoResv   == [status |-> "NONE", owner |-> NoOwner, live |-> FALSE, version |-> 0]
NoFence  == [kind |-> "NONE", status |-> "NONE", version |-> 0]
NoSweep  == [op |-> NoOwner, key |-> NoOwner, version |-> 0, expire |-> FALSE]

Returned(r) == [pc |-> "idle", result |-> r, failed |-> FALSE, fence |-> NoFence]
At(p)       == [pc |-> p, result |-> "NONE", failed |-> FALSE, fence |-> NoFence]

Init ==
  /\ ledger = [op \in Op |-> "NONE"]
  /\ intent = [op \in Op |-> NoIntent]
  /\ resv = [op \in Op |-> [k \in Keys |-> NoResv]]
  /\ lease = {}
  /\ activity = {}
  /\ provider = [w \in Worker |-> {}]
  /\ effects = [op \in Op |-> 0]
  /\ call = [w \in Worker |-> [op \in Op |-> Returned("NONE")]]
  /\ held = [w \in Worker |-> [op \in Op |-> 0]]
  /\ alive = Worker
  /\ sweep = NoSweep
  /\ faults = 0

Running(w, op, p) == w \in alive /\ call[w][op].pc = p
Go(w, op, c) == call' = [call EXCEPT ![w][op] = c]

\* A database call that fails, or whose fence no longer matches, throws.
Fault == faults < MaxFaults /\ faults' = faults + 1

SettleableAnyStage(op) ==   \* mutant: a terminal row is written again
  ledger[op] # "NONE"

Settleable(op) == ledger[op] \in {"AUTHORIZED", "FAILED"}   \* expectedPriorStage

-----------------------------------------------------------------------------
(* The ledger row: reserveToolOperation. *)

(***************************************************************************)
(* reject() inserts a REJECTED row.  A row that exists must have been      *)
(* stored with the same authorized flag, otherwise the repository throws.  *)
(***************************************************************************)
RejectOutcome(op) == IF ledger[op] \in {"NONE", "REJECTED"} THEN "REJECTED" ELSE "COLLISION"

RejectRow(op) ==
  ledger' = [ledger EXCEPT ![op] = IF @ = "NONE" THEN "REJECTED" ELSE @]

\* The in-memory hourly count, the parameters or the policy refuse the call.
RejectCall(w, op) ==
  /\ Running(w, op, "idle")
  /\ RejectRow(op)
  /\ Go(w, op, Returned(RejectOutcome(op)))
  /\ UNCHANGED <<intent, resv, lease, activity, provider, effects, held, alive, sweep, faults>>

AuthorizeCall(w, op) ==
  /\ Running(w, op, "idle")
  /\ ledger' = [ledger EXCEPT ![op] = IF @ = "NONE" THEN "AUTHORIZED" ELSE @]
  /\ Go(w, op, CASE ledger[op] = "NONE"          -> At("reserveTool")
                 [] Settleable(op)               -> At("recover")
                 [] ledger[op] = "FAKE_EXECUTED" -> Returned("EXECUTED")
                 [] ledger[op] = "REJECTED"      -> Returned("REPLAY_COLLISION"))
  /\ UNCHANGED <<intent, resv, lease, activity, provider, effects, held, alive, sweep, faults>>

-----------------------------------------------------------------------------
(* Budget: reserveBudget, releaseBudget, settleAmbiguousToolReservation.  Each reads *)
(* its row and then writes it under a fence on status and version, so that a write    *)
(* that follows a change refuses; the read and the write are one step.                *)

Granted(w, r) == r.status = "NONE" \/ (r.status = "RESERVED" /\ r.owner = w /\ r.live)

Reserve(w, op, k) ==
  resv' = [resv EXCEPT ![op][k] =
             IF @.status = "NONE"
             THEN [status |-> "RESERVED", owner |-> w, live |-> TRUE, version |-> 1]
             ELSE @]

Closed(r, s) == [status |-> s, owner |-> r.owner, live |-> FALSE, version |-> r.version + 1]

ReserveToolBudget(w, op) ==
  /\ Running(w, op, "reserveTool")
  /\ Granted(w, resv[op]["tool"])
  /\ Reserve(w, op, "tool")
  /\ Go(w, op, At(IF "usd" \in KeysOf(op) THEN "reserveUsd" ELSE "createIntent"))
  /\ UNCHANGED <<ledger, intent, lease, activity, provider, effects, held, alive, sweep, faults>>

ReserveUsdBudget(w, op) ==
  /\ Running(w, op, "reserveUsd")
  /\ Granted(w, resv[op]["usd"])
  /\ Reserve(w, op, "usd")
  /\ Go(w, op, At("createIntent"))
  /\ UNCHANGED <<ledger, intent, lease, activity, provider, effects, held, alive, sweep, faults>>

\* The key is found in the window of an earlier hour or day: reserveBudget throws, and what
\* the call has reserved before stays.
ReservationCollides(w, op) ==
  /\ \/ Running(w, op, "reserveTool") /\ resv[op]["tool"].status # "NONE"
     \/ Running(w, op, "reserveUsd") /\ resv[op]["usd"].status # "NONE"
  /\ Go(w, op, Returned("THROWN"))
  /\ UNCHANGED <<durable, provider, effects, held, alive, sweep, faults>>

\* Refused: held by another owner, spent, expired, or (a new key) the ceiling.
MayRefuse(w, r) == r.status = "NONE" \/ ~Granted(w, r)

RefuseToolBudget(w, op) ==
  /\ Running(w, op, "reserveTool")
  /\ MayRefuse(w, resv[op]["tool"])
  /\ Go(w, op, At("reject"))
  /\ UNCHANGED <<durable, provider, effects, held, alive, sweep, faults>>

\* releaseToolBudgets with no cost follows: it releases the tool key alone.
RefuseUsdBudget(w, op) ==
  /\ Running(w, op, "reserveUsd")
  /\ MayRefuse(w, resv[op]["usd"])
  /\ Go(w, op, At("releaseRefused"))
  /\ UNCHANGED <<durable, provider, effects, held, alive, sweep, faults>>

RejectRefused(w, op) ==
  /\ Running(w, op, "reject")
  /\ RejectRow(op)
  /\ Go(w, op, Returned(RejectOutcome(op)))
  /\ UNCHANGED <<intent, resv, lease, activity, provider, effects, held, alive, sweep, faults>>

ReleaseOwn(w, r) == IF r.status = "RESERVED" /\ r.owner = w THEN Closed(r, "RELEASED") ELSE r

\* One reservation becomes r, or the write fails and the failure is swallowed.
ReleaseOrFail(op, k, r) ==
  \/ resv' = [resv EXCEPT ![op][k] = r] /\ UNCHANGED faults
  \/ Fault /\ UNCHANGED resv

ReleaseBudget(w, op, k, from, to) ==
  /\ Running(w, op, from)
  /\ ReleaseOrFail(op, k, ReleaseOwn(w, resv[op][k]))
  /\ Go(w, op, At(to))
  /\ UNCHANGED <<ledger, intent, lease, activity, provider, effects, held, alive, sweep>>

\* releaseToolBudgets: owner-fenced, one key after the other.
ReleaseToolBudgets(w, op) ==
  \/ ReleaseBudget(w, op, "tool", "releaseRefused", "reject")
  \/ ReleaseBudget(w, op, "tool", "releaseTool",
                   IF "usd" \in KeysOf(op) THEN "releaseUsd" ELSE "failLedger")
  \/ ReleaseBudget(w, op, "usd", "releaseUsd", "failLedger")

(***************************************************************************)
(* releaseAmbiguousBudget: an own reservation is released, another owner's *)
(* only if the intent durably says FAILED and the ledger is not terminal.  *)
(* The two keys are released side by side, in either order.                *)
(***************************************************************************)
ReleaseAmbiguousReservation(w, op, k, from, to) ==
  LET r == resv[op][k]
      releasable == /\ r.status = "RESERVED"
                    /\ r.owner = w \/ (intent[op].status = "FAILED" /\ Settleable(op))
  IN
  /\ Running(w, op, from)
  /\ ReleaseOrFail(op, k, IF releasable THEN Closed(r, "RELEASED") ELSE r)
  /\ Go(w, op, At(to))
  /\ UNCHANGED <<ledger, intent, lease, activity, provider, effects, held, alive, sweep>>

ReleaseAmbiguousBudget(w, op) ==
  \/ ReleaseAmbiguousReservation(w, op, "tool", "ambiguousBoth", "ambiguousUsd")
  \/ ReleaseAmbiguousReservation(w, op, "usd", "ambiguousBoth", "ambiguousTool")
  \/ ReleaseAmbiguousReservation(w, op, "tool", "ambiguousTool", "failLedger")
  \/ ReleaseAmbiguousReservation(w, op, "usd", "ambiguousUsd", "failLedger")

-----------------------------------------------------------------------------
(* What a later call does with a row that exists: recoverAmbiguousOperation. *)

\* inspectProviderResource looks into the inventory of the own process.
Observed(w, op) ==
  op \in ResourceOp /\ \E v \in Worker : (v = w \/ SharedInventory) /\ op \in provider[v]

Settling(p, f) == [pc |-> p, result |-> "NONE", failed |-> FALSE, fence |-> f]

\* resolveRecoverySettlement: the held token, or an expired (or no) claim.
Reconciled(w, op) ==
  LET i == intent[op] IN
  IF held[w][op] # 0 /\ i.status = "CLAIMED"
  THEN Settling("intent", [kind |-> "TOKEN", status |-> "CLAIMED", version |-> held[w][op]])
  ELSE IF i.live
  THEN Returned("AMBIGUOUS")
  ELSE Settling("intent", [kind |-> "RECONCILE", version |-> i.version,
                           status |-> IF i.status = "CLAIMED" THEN "CLAIMED" ELSE "PENDING"])

AlreadyExecuted == Settling("lease", [kind |-> "DONE", status |-> "EXECUTED", version |-> 0])

AfterRecovery(w, op) ==
  LET i == intent[op]
      undecided == i.status \in {"PENDING", "CLAIMED"}
      seen == Observed(w, op)
  IN
  CASE i.status = "NONE"               -> At("reserveTool")
    [] i.status = "EXECUTED"           -> AlreadyExecuted
    [] undecided /\ seen               -> Reconciled(w, op)
    [] i.status = "FAILED" /\ seen     -> Returned("AMBIGUOUS")
    [] i.status = "FAILED" /\ ~seen    ->
         At(IF "usd" \in KeysOf(op) THEN "ambiguousBoth" ELSE "ambiguousTool")
    [] undecided /\ ~seen /\ i.live    -> Returned("AMBIGUOUS")
    [] undecided /\ ~seen /\ ~i.live   -> At("checkHeld")

Recover(w, op) ==
  /\ Running(w, op, "recover")
  /\ Go(w, op, AfterRecovery(w, op))
  /\ UNCHANGED <<durable, provider, effects, held, alive, sweep, faults>>

CheckHeldReservation(w, op) ==
  LET r == resv[op]["tool"] IN
  /\ Running(w, op, "checkHeld")
  /\ Go(w, op, IF r.status = "RESERVED" /\ r.owner # w THEN Returned("AMBIGUOUS")
               ELSE At("reserveTool"))
  /\ UNCHANGED <<durable, provider, effects, held, alive, sweep, faults>>

-----------------------------------------------------------------------------
(* The provider intent and the provider call: claimProviderIntent, *)
(* dispatchProviderCall, updateProviderIntentStatus.               *)

CreateIntent(w, op) ==
  /\ Running(w, op, "createIntent")
  /\ intent' = [intent EXCEPT ![op] =
       IF @.status = "NONE" THEN [status |-> "PENDING", live |-> FALSE, token |-> 0, version |-> 1]
       ELSE @]
  /\ Go(w, op, At("claimIntent"))
  /\ UNCHANGED <<ledger, resv, lease, activity, provider, effects, held, alive, sweep, faults>>

ClaimedIntentUnmarked(i) ==  \* mutant: the claim leaves the row PENDING
  [status |-> "PENDING", live |-> FALSE, token |-> i.version + 1, version |-> i.version + 1]

\* The token of a claim is fresh: the version it gives the row stands for it.
ClaimedIntent(i) ==
  [status |-> "CLAIMED", live |-> TRUE, token |-> i.version + 1, version |-> i.version + 1]

MayClaim(i) == i.status = "PENDING"

ClaimTaken(w, op) ==
  LET t == intent[op].version + 1 IN
  /\ intent' = [intent EXCEPT ![op] = ClaimedIntent(@)]
  /\ \/ /\ held' = [held EXCEPT ![w][op] = t]
        /\ Go(w, op, Settling("dispatch", [kind |-> "TOKEN", status |-> "CLAIMED", version |-> t]))
        /\ UNCHANGED faults
     \/ Fault /\ Go(w, op, Returned("THROWN")) /\ UNCHANGED held   \* acknowledgement lost

\* ALREADY_EXECUTED, or reconcileUnclaimedIntent.
AfterRefusedClaim(w, op) ==
  LET i == intent[op] IN
  CASE i.status = "EXECUTED" -> AlreadyExecuted
    [] i.status # "EXECUTED" /\ Observed(w, op) -> Reconciled(w, op)
    [] i.status # "EXECUTED" /\ ~Observed(w, op) /\ i.live -> Returned("AMBIGUOUS")
    [] OTHER -> At("releaseTool")

ClaimIntent(w, op) ==
  /\ Running(w, op, "claimIntent")
  /\ IF MayClaim(intent[op])
     THEN ClaimTaken(w, op)
     ELSE Go(w, op, AfterRefusedClaim(w, op)) /\ UNCHANGED <<intent, held, faults>>
  /\ UNCHANGED <<ledger, resv, lease, activity, provider, effects, alive, sweep>>

\* The mutation reaches the provider.
Mutate(w, op) ==
  /\ provider' = IF op \in ResourceOp THEN [provider EXCEPT ![w] = @ \cup {op}] ELSE provider
  /\ effects' = [effects EXCEPT ![op] = @ + 1]

Dispatch(w, op) ==
  /\ Running(w, op, "dispatch")
  /\ Mutate(w, op)
  /\ Go(w, op, [call[w][op] EXCEPT !.pc = "intent"])
  /\ UNCHANGED <<durable, held, alive, sweep, faults>>

\* The adapter throws: before the mutation, or after it.
DispatchThrows(w, op) ==
  /\ Running(w, op, "dispatch")
  /\ Fault
  /\ Mutate(w, op) \/ UNCHANGED <<provider, effects>>
  /\ Go(w, op, [call[w][op] EXCEPT !.pc = "markFailed"])
  /\ UNCHANGED <<durable, held, alive, sweep>>

Fenced(w, op) ==
  LET f == call[w][op].fence
      i == intent[op]
  IN
  \/ f.kind = "TOKEN" /\ i.status = "CLAIMED" /\ i.token = f.version
  \/ /\ f.kind = "RECONCILE"
     /\ i.status = f.status
     /\ i.version = f.version
     /\ f.status = "CLAIMED" => ~i.live

Settle(i, s) == [status |-> s, live |-> FALSE, token |-> i.token, version |-> i.version + 1]

MarkFailed(w, op) ==
  /\ Running(w, op, "markFailed")
  /\ IF Fenced(w, op)
     THEN /\ intent' = [intent EXCEPT ![op] = Settle(@, "FAILED")]
          /\ held' = [held EXCEPT ![w][op] = 0]
          /\ Go(w, op, At("releaseTool"))
     ELSE /\ Go(w, op, Returned("THROWN"))
          /\ UNCHANGED <<intent, held>>
  /\ UNCHANGED <<ledger, resv, lease, activity, provider, effects, alive, sweep, faults>>

-----------------------------------------------------------------------------
(* settleExecution: five boundaries; a failed one marks the call and goes on. *)

Advance(w, op, p) == Go(w, op, [call[w][op] EXCEPT !.pc = p])
FailOnRefunding(w, op, p) == Go(w, op, At("releaseTool"))   \* mutant: give the budget back
FailOn(w, op, p)  == Go(w, op, [call[w][op] EXCEPT !.pc = p, !.failed = TRUE])

SettleIntent(w, op) ==
  /\ Running(w, op, "intent")
  /\ Fenced(w, op)
  /\ intent' = [intent EXCEPT ![op] = Settle(@, "EXECUTED")]
  /\ \/ /\ held' = [held EXCEPT ![w][op] = 0]
        /\ Advance(w, op, "lease")
        /\ UNCHANGED faults
     \/ Fault /\ FailOn(w, op, "lease") /\ UNCHANGED held    \* acknowledgement lost
  /\ UNCHANGED <<ledger, resv, lease, activity, provider, effects, alive, sweep>>

IntentClaimLost(w, op) ==
  /\ Running(w, op, "intent")
  /\ ~Fenced(w, op)
  /\ FailOn(w, op, "lease")
  /\ UNCHANGED <<durable, provider, effects, held, alive, sweep, faults>>

EnsureLeasePersisted(w, op) ==
  /\ Running(w, op, "lease")
  /\ lease' = lease \cup ({op} \cap ResourceOp)
  /\ Advance(w, op, "budgetTool")
  /\ UNCHANGED <<ledger, intent, resv, activity, provider, effects, held, alive, sweep, faults>>

(***************************************************************************)
(* settleReservation, per key: consume what is ours; if that throws, read: *)
(* a settled reservation is accepted whatever its status, and what another *)
(* owner left is committed by settleAmbiguousToolReservation.  An owner    *)
(* never changes, so the status alone is its fence.                        *)
(***************************************************************************)
MayReconcileClaimed(op) == intent[op].status = "CLAIMED" /\ Settleable(op)   \* mutant

MayReconcile(op) == intent[op].status = "EXECUTED" /\ Settleable(op)

SettlingPC     == {"acceptTool", "acceptUsd", "reconcileTool", "reconcileUsd"}
AcceptPC(k)    == IF k = "tool" THEN "acceptTool" ELSE "acceptUsd"
ReconcilePC(k) == IF k = "tool" THEN "reconcileTool" ELSE "reconcileUsd"
Paid(op, k)    == IF k = "tool" /\ "usd" \in KeysOf(op) THEN "budgetUsd" ELSE "activity"

ConsumeBudget(w, op, k) ==
  LET r == resv[op][k]
      own == r.status = "RESERVED" /\ r.owner = w
  IN
  /\ Running(w, op, IF k = "tool" THEN "budgetTool" ELSE "budgetUsd")
  /\ \/ own /\ resv' = [resv EXCEPT ![op][k] = Closed(@, "CONSUMED")]
     \/ ~own /\ UNCHANGED resv
  /\ \/ Advance(w, op, IF own THEN Paid(op, k) ELSE AcceptPC(k)) /\ UNCHANGED faults
     \/ Fault /\ Advance(w, op, AcceptPC(k))             \* acknowledgement lost
  /\ UNCHANGED <<ledger, intent, lease, activity, provider, effects, held, alive, sweep>>

AcceptReservation(w, op, k) ==
  LET r == resv[op][k] IN
  /\ Running(w, op, AcceptPC(k))
  /\ CASE r.status = "RESERVED" /\ r.owner # w -> Advance(w, op, ReconcilePC(k))
       [] r.status \notin {"NONE", "RESERVED"} -> Advance(w, op, Paid(op, k))
       [] OTHER                                -> FailOn(w, op, "activity")
  /\ UNCHANGED <<durable, provider, effects, held, alive, sweep, faults>>

ReconcileReservation(w, op, k) ==
  LET r == resv[op][k]
      open == r.status = "RESERVED" /\ MayReconcile(op)
  IN
  /\ Running(w, op, ReconcilePC(k))
  /\ resv' = [resv EXCEPT ![op][k] = IF open THEN Closed(r, "RECONCILED") ELSE r]
  /\ \/ /\ IF open \/ r.status \in {"CONSUMED", "RECONCILED"}
           THEN Advance(w, op, Paid(op, k))
           ELSE FailOn(w, op, "activity")
        /\ UNCHANGED faults
     \/ Fault /\ FailOn(w, op, "activity")                \* acknowledgement lost
  /\ UNCHANGED <<ledger, intent, lease, activity, provider, effects, held, alive, sweep>>

SettleBudget(w, op) ==
  \E k \in Keys : \/ ConsumeBudget(w, op, k)
                  \/ AcceptReservation(w, op, k)
                  \/ ReconcileReservation(w, op, k)

RecordActivity(w, op) ==
  /\ Running(w, op, "activity")
  /\ activity' = IF call[w][op].failed THEN activity ELSE activity \cup {op}
  /\ Advance(w, op, "ledger")
  /\ UNCHANGED <<ledger, intent, resv, lease, provider, effects, held, alive, sweep, faults>>

\* The call of a boundary fails; a failed tool settlement skips the usd one, and a
\* consumption that failed is followed by the read.
BoundaryFails(w, op) ==
  /\ Fault
  /\ \/ Running(w, op, "intent") /\ FailOn(w, op, "lease")
     \/ Running(w, op, "lease") /\ FailOn(w, op, "budgetTool")
     \/ Running(w, op, "budgetTool") /\ Advance(w, op, "acceptTool")
     \/ Running(w, op, "budgetUsd") /\ Advance(w, op, "acceptUsd")
     \/ call[w][op].pc \in SettlingPC /\ w \in alive /\ FailOn(w, op, "activity")
     \/ Running(w, op, "activity") /\ FailOn(w, op, "ledger")
  /\ UNCHANGED <<durable, provider, effects, held, alive, sweep>>

SettledStageAlways(failed) == "FAKE_EXECUTED"     \* mutant: terminal with a boundary missing
SettledStageObserved(failed) == IF failed THEN "UNKNOWN" ELSE "FAKE_EXECUTED"  \* mutant: observedState

SettledStage(failed) == IF failed THEN "FAILED" ELSE "FAKE_EXECUTED"

\* updateToolOperationStage; a FAILED write that fails is ignored.
SettleLedger(w, op) ==
  LET failed == call[w][op].failed IN
  /\ Running(w, op, "ledger")
  /\ ledger' = [ledger EXCEPT ![op] = IF Settleable(op) THEN SettledStage(failed) ELSE @]
  /\ Go(w, op, Returned(IF Settleable(op) /\ ~failed THEN "EXECUTED" ELSE "AMBIGUOUS"))
  /\ UNCHANGED <<intent, resv, lease, activity, provider, effects, held, alive, sweep, faults>>

LedgerUnwritten(w, op) ==
  /\ Running(w, op, "ledger")
  /\ Fault
  /\ Go(w, op, Returned("AMBIGUOUS"))
  /\ UNCHANGED <<durable, provider, effects, held, alive, sweep>>

\* failToolCall.
FailLedger(w, op) ==
  /\ Running(w, op, "failLedger")
  /\ ledger' = [ledger EXCEPT ![op] = IF Settleable(op) THEN "FAILED" ELSE @]
  /\ Go(w, op, Returned(IF Settleable(op) THEN "FAILED" ELSE "THROWN"))
  /\ UNCHANGED <<intent, resv, lease, activity, provider, effects, held, alive, sweep, faults>>

-----------------------------------------------------------------------------
(* The environment: failing database, crashes, time, the cleanup sweep. *)

\* Outside settleExecution a failed database call propagates to the caller.
DatabaseThrows(w, op) ==
  /\ w \in alive
  /\ call[w][op].pc \in {"recover", "checkHeld", "reserveTool", "reserveUsd", "reject",
                         "createIntent", "claimIntent", "markFailed", "failLedger"}
  /\ Fault
  /\ Go(w, op, Returned("THROWN"))
  /\ UNCHANGED <<durable, provider, effects, held, alive, sweep>>

\* The adapters live in the memory of the process, unless the inventory is shared.
Crash(w) ==
  /\ w \in alive
  /\ alive' = alive \ {w}
  /\ provider' = IF SharedInventory THEN provider ELSE [provider EXCEPT ![w] = {}]
  /\ call' = [call EXCEPT ![w] = [op \in Op |-> Returned("NONE")]]
  /\ held' = [held EXCEPT ![w] = [op \in Op |-> 0]]
  /\ UNCHANGED <<durable, effects, sweep, faults>>

ReservationExpires(op, k) ==
  /\ resv[op][k].live
  /\ resv' = [resv EXCEPT ![op][k].live = FALSE]
  /\ UNCHANGED <<ledger, intent, lease, activity, provider, effects, call, held, alive, sweep, faults>>

\* Claim and reservation both last 60 s, and the reservation is the older one.
ClaimExpires(op) ==
  /\ intent[op].live
  /\ \A k \in Keys : ~resv[op][k].live
  /\ intent' = [intent EXCEPT ![op].live = FALSE]
  /\ UNCHANGED <<ledger, resv, lease, activity, provider, effects, call, held, alive, sweep, faults>>

(***************************************************************************)
(* reconcileExpiredReservations, one expired row: the intents of the event *)
(* are read first, the fenced update follows.  With no intent at all the   *)
(* row expires unless the event has a decision.                            *)
(***************************************************************************)
Intents == {op \in Op : intent[op].status # "NONE"}

ShouldExpire(expire) ==
  IF Intents = {} THEN expire \in BOOLEAN
  ELSE expire = (\A op \in Intents : intent[op].status = "FAILED")

SweepInspect(op, k) ==
  /\ resv[op][k].status = "RESERVED"
  /\ ~resv[op][k].live
  /\ \E expire \in BOOLEAN :
       /\ ShouldExpire(expire)
       /\ sweep' = [op |-> op, key |-> k, version |-> resv[op][k].version, expire |-> expire]
  /\ UNCHANGED <<durable, provider, effects, call, held, alive, faults>>

SweepSettle ==
  LET op == sweep.op
      k == sweep.key
  IN
  /\ sweep # NoSweep
  /\ resv' = IF resv[op][k].status = "RESERVED" /\ resv[op][k].version = sweep.version
             THEN [resv EXCEPT ![op][k] = Closed(@, IF sweep.expire THEN "EXPIRED" ELSE "RECONCILED")]
             ELSE resv
  /\ sweep' = NoSweep
  /\ UNCHANGED <<ledger, intent, lease, activity, provider, effects, call, held, alive, faults>>

\* The cleanup of leases and orphans removes a resource from an inventory.
ProviderRemoves(w, op) ==
  /\ w \in alive
  /\ op \in provider[w]
  /\ provider' = [provider EXCEPT ![w] = @ \ {op}]
  /\ UNCHANGED <<durable, effects, call, held, alive, sweep, faults>>

-----------------------------------------------------------------------------
\* What a call in progress does by itself, in the order of the code.
Step(w, op) ==
  \/ ReserveToolBudget(w, op)
  \/ ReserveUsdBudget(w, op)
  \/ RefuseToolBudget(w, op)
  \/ RefuseUsdBudget(w, op)
  \/ ReservationCollides(w, op)
  \/ RejectRefused(w, op)
  \/ Recover(w, op)
  \/ CheckHeldReservation(w, op)
  \/ CreateIntent(w, op)
  \/ ClaimIntent(w, op)
  \/ Dispatch(w, op)
  \/ MarkFailed(w, op)
  \/ SettleIntent(w, op)
  \/ IntentClaimLost(w, op)
  \/ EnsureLeasePersisted(w, op)
  \/ SettleBudget(w, op)
  \/ RecordActivity(w, op)
  \/ SettleLedger(w, op)
  \/ ReleaseToolBudgets(w, op)
  \/ ReleaseAmbiguousBudget(w, op)
  \/ FailLedger(w, op)

Start(w, op) == RejectCall(w, op) \/ AuthorizeCall(w, op)

Misfortune(w, op) ==
  \/ DispatchThrows(w, op)
  \/ BoundaryFails(w, op)
  \/ LedgerUnwritten(w, op)
  \/ DatabaseThrows(w, op)

Next ==
  \/ \E w \in Worker, op \in Op :
       Start(w, op) \/ Step(w, op) \/ Misfortune(w, op) \/ ProviderRemoves(w, op)
  \/ \E w \in Worker : Crash(w)
  \/ \E op \in Op : ClaimExpires(op)
  \/ \E op \in Op, k \in Keys : ReservationExpires(op, k) \/ SweepInspect(op, k)
  \/ SweepSettle

Spec == Init /\ [][Next]_vars

\* A call that the process w has started runs on; nobody promises that it is
\* started again, nor that the calls of the other processes run on.
Runs(w) == \A op \in Op : WF_vars(Step(w, op))

-----------------------------------------------------------------------------
(* Properties *)

Stages == {"NONE", "AUTHORIZED", "REJECTED", "FAILED", "FAKE_EXECUTED"}
IntentStatus == {"NONE", "PENDING", "CLAIMED", "EXECUTED", "FAILED"}
ResvStatus == {"NONE", "RESERVED", "CONSUMED", "RELEASED", "RECONCILED", "EXPIRED"}

PlainPC == {"idle", "recover", "checkHeld", "reserveTool", "reserveUsd", "reject", "createIntent",
            "claimIntent", "releaseRefused", "releaseTool", "releaseUsd", "ambiguousBoth",
            "ambiguousTool", "ambiguousUsd", "failLedger"}
FencedPC == {"dispatch", "markFailed", "intent", "lease", "budgetTool", "budgetUsd", "activity",
             "ledger"} \cup SettlingPC
Results == {"NONE", "EXECUTED", "REJECTED", "FAILED", "AMBIGUOUS", "THROWN", "COLLISION",
            "REPLAY_COLLISION"}

Fences ==
  [kind : {"NONE"}, status : {"NONE"}, version : {0}]
    \cup [kind : {"TOKEN"}, status : {"CLAIMED"}, version : Nat]
    \cup [kind : {"RECONCILE"}, status : {"PENDING", "CLAIMED"}, version : Nat]
    \cup [kind : {"DONE"}, status : {"EXECUTED"}, version : {0}]

Calls == [pc : PlainPC \cup FencedPC, result : Results, failed : BOOLEAN, fence : Fences]

IntentRows == [status : IntentStatus, live : BOOLEAN, token : Nat, version : Nat]

Reservations ==
  [status : ResvStatus, owner : Worker \cup {NoOwner}, live : BOOLEAN, version : Nat]

TypeOK ==
  /\ ledger \in [Op -> Stages]
  /\ intent \in [Op -> IntentRows]
  /\ resv \in [Op -> [Keys -> Reservations]]
  /\ lease \subseteq ResourceOp
  /\ activity \subseteq Op
  /\ provider \in [Worker -> SUBSET ResourceOp]
  /\ effects \in [Op -> Nat]
  /\ call \in [Worker -> [Op -> Calls]]
  /\ held \in [Worker -> [Op -> Nat]]
  /\ alive \subseteq Worker
  /\ sweep \in {NoSweep} \cup [op : Op, key : Keys, version : Nat, expire : BOOLEAN]
  /\ faults \in 0 .. MaxFaults

\* The provider mutation of an operation is made at most once, however often
\* the call is repeated, by whichever process, after whatever failure
\* (claimProviderIntent's fence, recoverAmbiguousOperation).
AtMostOneEffect == \A op \in Op : effects[op] <= 1

\* A terminal FAKE_EXECUTED row never coexists with a missing projection: intent,
\* lease and activity are there and no reservation is left open, whatever its end
\* (which is TerminalIsCharged); and EXECUTED is reported only when that row is
\* durable (settleExecution).
TerminalIsProjected ==
  \A op \in Op :
    /\ ledger[op] = "FAKE_EXECUTED" =>
         /\ intent[op].status = "EXECUTED"
         /\ effects[op] = 1
         /\ op \in ResourceOp => op \in lease
         /\ op \in activity
         /\ \A k \in KeysOf(op) : resv[op][k].status \notin {"NONE", "RESERVED"}
    /\ \A w \in Worker : call[w][op].result = "EXECUTED" => ledger[op] = "FAKE_EXECUTED"

\* What the comment of settleExecution (tool-gateway.ts:524-526) and the tests
\* (tool-gateway.test.ts:1127-1132) say of the budget: beside a terminal row every
\* reservation is committed spend, one that counts for its window.
TerminalIsCharged ==
  \A op \in Op : ledger[op] = "FAKE_EXECUTED" =>
    \A k \in KeysOf(op) : resv[op][k].status \in {"CONSUMED", "RECONCILED"}

\* The gateway never refunds an effect: a reservation it has RELEASED belongs to an
\* operation whose intent is not EXECUTED and whose effect nobody can make any more
\* (the releases of runToolCall and releaseAmbiguousBudget).  What the cleanup gives
\* back as EXPIRED is not the gateway's doing and not part of it.
NoRefundOfEffects ==
  \A op \in Op, k \in Keys :
    resv[op][k].status = "RELEASED" =>
      /\ intent[op].status # "EXECUTED"
      /\ \A w \in Worker : call[w][op].pc # "dispatch"

\* Outcomes are final: REJECTED and FAKE_EXECUTED rows, EXECUTED and FAILED
\* intents, settled reservations, and an EXECUTED intent that is repaired by
\* another process meanwhile is never turned back to FAILED.
OutcomesAreFinal ==
  [][\A op \in Op :
       /\ ledger[op] \in {"REJECTED", "FAKE_EXECUTED"} => ledger'[op] = ledger[op]
       /\ intent[op].status \in {"EXECUTED", "FAILED"} => intent'[op] = intent[op]
       /\ \A k \in Keys : resv[op][k].status \notin {"NONE", "RESERVED"} =>
                            resv'[op][k] = resv[op][k]]_vars

\* Whichever process makes it, one undisturbed retry repairs an operation whose
\* effect is recorded.  It is disturbed by a failed call, and by a sweep that decided
\* before the effect was recorded and expires the reservation under the retry.
RetryRepairs(w) ==
  \A op \in Op :
    (/\ faults = MaxFaults /\ ~sweep.expire
     /\ Running(w, op, "recover") /\ intent[op].status = "EXECUTED")
      ~> (ledger[op] = "FAKE_EXECUTED" \/ w \notin alive)

(***************************************************************************)
(* The refinement: AUTHORIZED and FAILED rows are still open.              *)
(***************************************************************************)
PhaseOf(stage) ==
  CASE stage = "REJECTED"      -> "REJECTED"
    [] stage = "FAKE_EXECUTED" -> "DONE"
    [] OTHER                   -> "OPEN"

Promise == INSTANCE ToolOperation WITH phase <- [op \in Op |-> PhaseOf(ledger[op])]

\* The gateway implements ToolOperation: rejected without an effect, or one
\* effect that is recorded once.
ImplementsOperation == Promise!Spec

=============================================================================
