-------------------------- MODULE ToolGatewayProofs --------------------------
(***************************************************************************)
(* Theorems about ToolGateway for any number of processes and operations.  *)
(***************************************************************************)
EXTENDS ToolGateway, TLAPS

\* Updating one cell of a function of functions.
LEMMA Cell ==
  ASSUME NEW A, NEW B, NEW R, NEW f \in [A -> [B -> R]], NEW a \in A, NEW b \in B, NEW r \in R
  PROVE  /\ [f EXCEPT ![a][b] = r] \in [A -> [B -> R]]
         /\ \A x \in A, y \in B :
              [f EXCEPT ![a][b] = r][x][y] = IF x = a /\ y = b THEN r ELSE f[x][y]
<1>1. f[a] \in [B -> R]
  OBVIOUS
<1>2. [f EXCEPT ![a][b] = r] = [f EXCEPT ![a] = [f[a] EXCEPT ![b] = r]]
  OBVIOUS
<1>3. QED
  BY <1>1, <1>2

\* Go changes the one call it names.
LEMMA GoEffect ==
  ASSUME call \in [Worker -> [Op -> Calls]], NEW w \in Worker, NEW op \in Op,
         NEW c \in Calls, Go(w, op, c)
  PROVE  /\ call' \in [Worker -> [Op -> Calls]]
         /\ \A v \in Worker, o \in Op :
              call'[v][o] = IF v = w /\ o = op THEN c ELSE call[v][o]
BY Cell DEF Go

\* The records the code builds are calls.
LEMMA CallRecords ==
  /\ \A r \in Results : Returned(r) \in Calls
  /\ \A p \in PlainPC : At(p) \in Calls
  /\ AlreadyExecuted \in Calls
  /\ \A w \in Worker, op \in Op : TypeOK => Reconciled(w, op) \in Calls
<1>1. \A r \in Results : Returned(r) \in Calls
  BY DEF Returned, NoFence, Calls, PlainPC, Fences
<1>2. \A p \in PlainPC : At(p) \in Calls
  BY DEF At, NoFence, Calls, PlainPC, Fences, Results
<1>3. AlreadyExecuted \in Calls
  BY DEF AlreadyExecuted, Settling, Calls, FencedPC, Fences, Results
<1>4. ASSUME NEW w \in Worker, NEW op \in Op, TypeOK PROVE Reconciled(w, op) \in Calls
  <2>1. held[w][op] \in Nat /\ intent[op].version \in Nat
    BY <1>4 DEF TypeOK, IntentRows
  <2>2. Returned("AMBIGUOUS") \in Calls
    BY <1>1 DEF Results
  <2>3. QED
    BY <2>1, <2>2 DEF Reconciled, Settling, Calls, FencedPC, Fences, Results
<1>5. QED
  BY <1>1, <1>2, <1>3, <1>4

\* A step on one call keeps the type of call, held and faults.
LEMMA StepCallType ==
  ASSUME TypeOK, NEW w \in Worker, NEW op \in Op, NEW c \in Calls, Go(w, op, c)
  PROVE  call' \in [Worker -> [Op -> Calls]]
BY GoEffect DEF TypeOK

\* Moving on in settleExecution keeps a call a call.
LEMMA Moves ==
  ASSUME NEW c \in Calls, NEW p \in FencedPC
  PROVE  /\ [c EXCEPT !.pc = p] \in Calls
         /\ [c EXCEPT !.pc = p, !.failed = TRUE] \in Calls
BY DEF Calls

\* Changing one claim token keeps the type of held.
LEMMA HeldType ==
  ASSUME TypeOK, NEW w \in Worker, NEW op \in Op, NEW t \in Nat
  PROVE  [held EXCEPT ![w][op] = t] \in [Worker -> [Op -> Nat]]
BY Cell DEF TypeOK

\* Changing one reservation keeps the type of resv.
LEMMA ResvType ==
  ASSUME TypeOK, NEW op \in Op, NEW k \in Keys, NEW r \in Reservations
  PROVE  [resv EXCEPT ![op][k] = r] \in [Op -> [Keys -> Reservations]]
BY Cell DEF TypeOK

\* A fault is counted within its bound.
LEMMA FaultType == TypeOK /\ Fault => faults' \in 0 .. MaxFaults
BY MaxFaultsAssumption DEF TypeOK, Fault

\* Settling an intent row yields a row.
LEMMA SettledRow ==
  ASSUME NEW i \in IntentRows, NEW s \in IntentStatus
  PROVE  Settle(i, s) \in IntentRows
BY DEF IntentRows, Settle

\* Closing a reservation yields a row.
LEMMA ClosedRow ==
  ASSUME NEW r \in Reservations, NEW s \in ResvStatus
  PROVE  Closed(r, s) \in Reservations
BY DEF Reservations, Closed

\* Reserving and releasing yield rows.
LEMMA ResvRows ==
  ASSUME NEW r \in Reservations, NEW w \in Worker
  PROVE  /\ [status |-> "RESERVED", owner |-> w, live |-> TRUE, version |-> 1] \in Reservations
         /\ ReleaseOwn(w, r) \in Reservations
BY ClosedRow DEF Reservations, ResvStatus, ReleaseOwn

-----------------------------------------------------------------------------
(* The two actions on reservations that take several steps, each told as one *)
(* step on one key.                                                          *)

FailedPC == {"releaseTool", "releaseUsd", "ambiguousBoth", "ambiguousTool", "ambiguousUsd"}

\* A release: the reservation, if still open, is closed, or nothing is written.
Releases(w, op, k, from, to) ==
  /\ Running(w, op, from)
  /\ Go(w, op, At(to))
  /\ \/ from = "releaseRefused" /\ to = "reject" /\ k = "tool"
     \/ from \in FailedPC /\ to \in FailedPC \cup {"failLedger"}
  /\ \/ resv' = resv
     \/ /\ resv[op][k].status = "RESERVED"
        /\ resv' = [resv EXCEPT ![op][k] = Closed(resv[op][k], "RELEASED")]
  /\ faults' = faults \/ Fault
  /\ UNCHANGED <<ledger, intent, lease, activity, provider, effects, held, alive, sweep>>

LEMMA ReleaseSteps ==
  ASSUME TypeOK, NEW w \in Worker, NEW op \in Op,
         ReleaseToolBudgets(w, op) \/ ReleaseAmbiguousBudget(w, op)
  PROVE  \E k \in Keys, from, to \in PlainPC : Releases(w, op, k, from, to)
<1>1. \A k \in Keys : [resv EXCEPT ![op][k] = resv[op][k]] = resv
  BY DEF TypeOK
<1>2. \A k \in Keys : "tool" \in Keys /\ "usd" \in Keys
  BY DEF Keys
<1>3. ASSUME NEW k \in Keys, NEW from \in PlainPC, NEW to \in PlainPC,
             ReleaseBudget(w, op, k, from, to) \/ ReleaseAmbiguousReservation(w, op, k, from, to),
             \/ from = "releaseRefused" /\ to = "reject" /\ k = "tool"
             \/ from \in FailedPC /\ to \in FailedPC \cup {"failLedger"}
      PROVE  Releases(w, op, k, from, to)
  <2>1. PICK r \in {resv[op][k], Closed(resv[op][k], "RELEASED")} :
          ReleaseOrFail(op, k, r) /\ (r # resv[op][k] => resv[op][k].status = "RESERVED")
    BY <1>3 DEF ReleaseBudget, ReleaseAmbiguousReservation, ReleaseOwn
  <2>2. \/ resv' = resv
        \/ /\ resv[op][k].status = "RESERVED"
           /\ resv' = [resv EXCEPT ![op][k] = Closed(resv[op][k], "RELEASED")]
    BY <1>1, <2>1 DEF ReleaseOrFail
  <2>3. faults' = faults \/ Fault
    BY <2>1 DEF ReleaseOrFail
  <2>4. QED
    BY <1>3, <2>2, <2>3 DEF ReleaseBudget, ReleaseAmbiguousReservation, Releases
<1>4. CASE ReleaseToolBudgets(w, op)
  <2>1. \E k \in Keys, from, to \in PlainPC :
          /\ ReleaseBudget(w, op, k, from, to)
          /\ \/ from = "releaseRefused" /\ to = "reject" /\ k = "tool"
             \/ from \in FailedPC /\ to \in FailedPC \cup {"failLedger"}
    BY <1>4 DEF ReleaseToolBudgets, Keys, PlainPC, FailedPC
  <2>2. QED
    BY <1>3, <2>1
<1>5. CASE ReleaseAmbiguousBudget(w, op)
  <2>1. \E k \in Keys, from, to \in PlainPC :
          /\ ReleaseAmbiguousReservation(w, op, k, from, to)
          /\ from \in FailedPC /\ to \in FailedPC \cup {"failLedger"}
    BY <1>5 DEF ReleaseAmbiguousBudget, Keys, PlainPC, FailedPC
  <2>2. QED
    BY <1>3, <2>1
<1>6. QED
  BY <1>4, <1>5

\* A settlement: the reservation, if still open, is closed as spend; the call goes on
\* when it is paid, looks again, or is marked as failed.
BudgetPC(k) == IF k = "tool" THEN {"budgetTool", "acceptTool", "reconcileTool"}
               ELSE {"budgetUsd", "acceptUsd", "reconcileUsd"}

Settles(w, op, k, q) ==
  /\ w \in alive /\ call[w][op].pc \in BudgetPC(k)
  /\ \/ Advance(w, op, q) /\ q = Paid(op, k) /\ resv'[op][k].status \notin {"NONE", "RESERVED"}
     \/ Advance(w, op, q) /\ q \in BudgetPC(k)
     \/ FailOn(w, op, q) /\ q = "activity"
  /\ \/ resv' = resv
     \/ /\ resv[op][k].status = "RESERVED"
        /\ \E s \in {"CONSUMED", "RECONCILED"} :
             resv' = [resv EXCEPT ![op][k] = Closed(resv[op][k], s)]
  /\ faults' = faults \/ Fault
  /\ UNCHANGED <<ledger, intent, lease, activity, provider, effects, held, alive, sweep>>

LEMMA SettlementSteps ==
  ASSUME TypeOK, NEW w \in Worker, NEW op \in Op, SettleBudget(w, op)
  PROVE  \E k \in Keys, q \in FencedPC : Settles(w, op, k, q)
<1>1. PICK k \in Keys : \/ ConsumeBudget(w, op, k) \/ AcceptReservation(w, op, k)
                        \/ ReconcileReservation(w, op, k)
  BY DEF SettleBudget
<1>2. /\ [resv EXCEPT ![op][k] = resv[op][k]] = resv
      /\ \A s : [resv EXCEPT ![op][k] = Closed(resv[op][k], s)][op][k].status = s
  BY <1>1 DEF TypeOK, Closed
<1>3. /\ {AcceptPC(k), ReconcilePC(k)} \subseteq BudgetPC(k)
      /\ BudgetPC(k) \cup {Paid(op, k), "activity"} \subseteq FencedPC
  BY DEF AcceptPC, ReconcilePC, Paid, BudgetPC, SettlingPC, FencedPC
<1>4. CASE ConsumeBudget(w, op, k)
  <2> DEFINE own == resv[op][k].status = "RESERVED" /\ resv[op][k].owner = w
  <2>1. \/ own /\ resv' = [resv EXCEPT ![op][k] = Closed(resv[op][k], "CONSUMED")]
        \/ ~own /\ resv' = resv
    BY <1>4 DEF ConsumeBudget
  <2>2. \/ Advance(w, op, AcceptPC(k))
        \/ own /\ Advance(w, op, Paid(op, k))
    BY <1>4 DEF ConsumeBudget
  <2>3. own => resv'[op][k].status = "CONSUMED"
    BY <1>2, <2>1
  <2>4. call[w][op].pc \in BudgetPC(k) /\ w \in alive
    BY <1>4 DEF ConsumeBudget, Running, BudgetPC
  <2>5. (faults' = faults \/ Fault)
        /\ UNCHANGED <<ledger, intent, lease, activity, provider, effects, held, alive, sweep>>
    BY <1>4 DEF ConsumeBudget
  <2>6. Settles(w, op, k, AcceptPC(k)) \/ Settles(w, op, k, Paid(op, k))
    BY <1>3, <2>1, <2>2, <2>3, <2>4, <2>5 DEF Settles
  <2>7. QED
    BY <1>1, <1>3, <2>6
<1>5. CASE AcceptReservation(w, op, k)
  <2>1. \/ Advance(w, op, ReconcilePC(k))
        \/ Advance(w, op, Paid(op, k)) /\ resv[op][k].status \notin {"NONE", "RESERVED"}
        \/ FailOn(w, op, "activity")
    BY <1>5 DEF AcceptReservation
  <2>2. call[w][op].pc \in BudgetPC(k) /\ w \in alive
    BY <1>3, <1>5 DEF AcceptReservation, Running
  <2>3. UNCHANGED <<durable, provider, effects, held, alive, sweep, faults>>
    BY <1>5 DEF AcceptReservation
  <2>4. \E q \in {ReconcilePC(k), Paid(op, k), "activity"} : Settles(w, op, k, q)
    BY <1>3, <2>1, <2>2, <2>3 DEF Settles, durable
  <2>5. QED
    BY <1>1, <1>3, <2>4
<1>6. CASE ReconcileReservation(w, op, k)
  <2> DEFINE open == resv[op][k].status = "RESERVED" /\ MayReconcile(op)
  <2>1. \/ open /\ resv' = [resv EXCEPT ![op][k] = Closed(resv[op][k], "RECONCILED")]
        \/ ~open /\ resv' = resv
    BY <1>2, <1>6 DEF ReconcileReservation
  <2>2. \/ /\ Advance(w, op, Paid(op, k))
           /\ open \/ resv[op][k].status \in {"CONSUMED", "RECONCILED"}
        \/ FailOn(w, op, "activity")
    BY <1>6 DEF ReconcileReservation
  <2>3. open => resv'[op][k].status = "RECONCILED"
    BY <1>2, <2>1
  <2>4. open => resv[op][k].status = "RESERVED"
    OBVIOUS
  <2>5. call[w][op].pc \in BudgetPC(k) /\ w \in alive
    BY <1>3, <1>6 DEF ReconcileReservation, Running
  <2>6. (faults' = faults \/ Fault)
        /\ UNCHANGED <<ledger, intent, lease, activity, provider, effects, held, alive, sweep>>
    BY <1>6 DEF ReconcileReservation
  <2> HIDE DEF open
  <2>7. \E q \in {Paid(op, k), "activity"} : Settles(w, op, k, q)
    BY <2>1, <2>2, <2>3, <2>4, <2>5, <2>6 DEF Settles
  <2>8. QED
    BY <1>1, <1>3, <2>7
<1>7. QED
  BY <1>1, <1>4, <1>5, <1>6

-----------------------------------------------------------------------------
\* Typing, action by action: authorization and budget.
LEMMA BudgetStepsType ==
  ASSUME TypeOK, NEW w \in Worker, NEW op \in Op,
         \/ RejectCall(w, op) \/ AuthorizeCall(w, op) \/ RejectRefused(w, op)
         \/ ReserveToolBudget(w, op) \/ ReserveUsdBudget(w, op)
         \/ RefuseToolBudget(w, op) \/ RefuseUsdBudget(w, op)
         \/ ReservationCollides(w, op)
         \/ ReleaseToolBudgets(w, op) \/ ReleaseAmbiguousBudget(w, op)
  PROVE  TypeOK'
<1> USE DEF durable
<1>0. "tool" \in Keys /\ "usd" \in Keys /\ \A k \in Keys : resv[op][k] \in Reservations
  BY DEF Keys, TypeOK
<1>1. CASE RejectCall(w, op) \/ RejectRefused(w, op)
  <2>1. Returned(RejectOutcome(op)) \in Calls
    BY CallRecords DEF RejectOutcome, Results
  <2>2. QED
    BY <1>1, <2>1, StepCallType DEF TypeOK, RejectCall, RejectRefused, RejectRow, Stages
<1>2. CASE AuthorizeCall(w, op)
  <2>1. PICK c \in Calls : Go(w, op, c)
    BY <1>2, CallRecords DEF TypeOK, AuthorizeCall, Settleable, Stages, Results, PlainPC
  <2>2. QED
    BY <1>2, <2>1, StepCallType DEF TypeOK, AuthorizeCall, Stages
<1>3. CASE ReserveToolBudget(w, op) \/ ReserveUsdBudget(w, op)
  <2>1. PICK k \in Keys : Reserve(w, op, k)
    BY <1>0, <1>3 DEF ReserveToolBudget, ReserveUsdBudget
  <2>2. resv' \in [Op -> [Keys -> Reservations]]
    BY <1>0, <2>1, ResvType, ResvRows DEF Reserve, TypeOK
  <2>3. PICK c \in Calls : Go(w, op, c)
    BY <1>3, CallRecords DEF ReserveToolBudget, ReserveUsdBudget, PlainPC
  <2>4. QED
    BY <1>3, <2>2, <2>3, StepCallType DEF TypeOK, ReserveToolBudget, ReserveUsdBudget
<1>4. CASE RefuseToolBudget(w, op) \/ RefuseUsdBudget(w, op) \/ ReservationCollides(w, op)
  <2>1. At("reject") \in Calls /\ At("releaseRefused") \in Calls /\ Returned("THROWN") \in Calls
    BY CallRecords DEF PlainPC, Results
  <2>2. QED
    BY <1>4, <2>1, StepCallType DEF TypeOK, RefuseToolBudget, RefuseUsdBudget, ReservationCollides
<1>5. CASE ReleaseToolBudgets(w, op) \/ ReleaseAmbiguousBudget(w, op)
  <2>1. PICK k \in Keys, from \in PlainPC, to \in PlainPC : Releases(w, op, k, from, to)
    BY <1>5, ReleaseSteps
  <2>2. resv' \in [Op -> [Keys -> Reservations]]
    <3>1. Closed(resv[op][k], "RELEASED") \in Reservations
      BY <1>0, ClosedRow DEF ResvStatus
    <3>2. [resv EXCEPT ![op][k] = Closed(resv[op][k], "RELEASED")] \in [Op -> [Keys -> Reservations]]
      BY <3>1, ResvType
    <3>3. QED
      BY <2>1, <3>2 DEF Releases, TypeOK
  <2>3. At(to) \in Calls
    BY CallRecords
  <2>4. faults' \in 0 .. MaxFaults
    BY <2>1, FaultType DEF Releases, TypeOK
  <2>5. call' \in [Worker -> [Op -> Calls]]
    BY <2>1, <2>3, StepCallType DEF Releases
  <2>6. QED
    BY <2>1, <2>2, <2>4, <2>5 DEF TypeOK, Releases
<1>10. QED
  BY <1>1, <1>2, <1>3, <1>4, <1>5

\* Typing of recovery, of the intent and of the provider call.
LEMMA IntentStepsType ==
  ASSUME TypeOK, NEW w \in Worker, NEW op \in Op,
         \/ Recover(w, op) \/ CheckHeldReservation(w, op) \/ CreateIntent(w, op)
         \/ ClaimIntent(w, op) \/ Dispatch(w, op) \/ DispatchThrows(w, op) \/ MarkFailed(w, op)
  PROVE  TypeOK'
<1> USE DEF durable
<1>0. /\ intent[op] \in IntentRows
      /\ call[w][op] \in Calls
      /\ provider[w] \subseteq ResourceOp
      /\ effects[op] \in Nat
      /\ faults \in Nat
  BY MaxFaultsAssumption DEF TypeOK
<1>1. CASE Recover(w, op)
  <2>1. AfterRecovery(w, op) \in Calls
    BY <1>0, CallRecords DEF AfterRecovery, IntentRows, IntentStatus, Results, PlainPC
  <2>2. QED
    BY <1>1, <2>1, StepCallType DEF TypeOK, Recover
<1>2. CASE CheckHeldReservation(w, op)
  <2>1. PICK c \in Calls : Go(w, op, c)
    BY <1>2, CallRecords DEF CheckHeldReservation, Results, PlainPC
  <2>2. QED
    BY <1>2, <2>1, StepCallType DEF TypeOK, CheckHeldReservation
<1>3. CASE CreateIntent(w, op)
  <2>1. At("claimIntent") \in Calls
    BY CallRecords DEF PlainPC
  <2>2. intent' \in [Op -> IntentRows]
    BY <1>0, <1>3 DEF TypeOK, CreateIntent, IntentRows, IntentStatus
  <2>3. QED
    BY <1>3, <2>1, <2>2, StepCallType DEF TypeOK, CreateIntent
<1>4. CASE ClaimIntent(w, op)
  <2> DEFINE t == intent[op].version + 1
             c == Settling("dispatch", [kind |-> "TOKEN", status |-> "CLAIMED", version |-> t])
  <2>1. CASE MayClaim(intent[op])
    <3>1. t \in Nat /\ ClaimedIntent(intent[op]) \in IntentRows
      BY <1>0 DEF IntentRows, ClaimedIntent, IntentStatus
    <3>2. c \in Calls /\ Returned("THROWN") \in Calls
      BY <3>1, CallRecords DEF Settling, Calls, FencedPC, Fences, Results
    <3>3. intent' \in [Op -> IntentRows]
      BY <1>4, <2>1, <3>1 DEF ClaimIntent, ClaimTaken, TypeOK
    <3>4. held' \in [Worker -> [Op -> Nat]] /\ faults' \in 0 .. MaxFaults
      <4>1. [held EXCEPT ![w][op] = t] \in [Worker -> [Op -> Nat]]
        BY <3>1, HeldType
      <4>2. held' \in {held, [held EXCEPT ![w][op] = t]} /\ (Fault \/ UNCHANGED faults)
        BY <1>4, <2>1 DEF ClaimIntent, ClaimTaken
      <4>3. faults' \in 0 .. MaxFaults
        BY <1>0, <4>2, FaultType DEF TypeOK
      <4>4. QED
        BY <4>1, <4>2, <4>3 DEF TypeOK
    <3>5. call' \in [Worker -> [Op -> Calls]]
      <4>1. Go(w, op, c) \/ Go(w, op, Returned("THROWN"))
        BY <1>4, <2>1 DEF ClaimIntent, ClaimTaken
      <4>2. QED
        BY <3>2, <4>1, StepCallType
    <3>6. QED
      BY <1>4, <3>3, <3>4, <3>5 DEF ClaimIntent, TypeOK
  <2>2. CASE ~MayClaim(intent[op])
    <3>1. AfterRefusedClaim(w, op) \in Calls
      BY <1>0, CallRecords DEF AfterRefusedClaim, Results, PlainPC
    <3>2. QED
      BY <1>4, <2>2, <3>1, StepCallType DEF TypeOK, ClaimIntent
  <2>3. QED
    BY <2>1, <2>2
<1>5. CASE Dispatch(w, op) \/ DispatchThrows(w, op)
  <2>1. PICK p \in FencedPC : Go(w, op, [call[w][op] EXCEPT !.pc = p])
    BY <1>5 DEF Dispatch, DispatchThrows, FencedPC
  <2>2. call' \in [Worker -> [Op -> Calls]]
    BY <1>0, <2>1, Moves, StepCallType
  <2>3. provider' \in [Worker -> SUBSET ResourceOp] /\ effects' \in [Op -> Nat]
    <3>1. Mutate(w, op) \/ UNCHANGED <<provider, effects>>
      BY <1>5 DEF Dispatch, DispatchThrows
    <3>2. CASE Mutate(w, op)
      <4>1. op \in ResourceOp => provider[w] \cup {op} \in SUBSET ResourceOp
        BY <1>0
      <4>2. provider' \in [Worker -> SUBSET ResourceOp]
        BY <3>2, <4>1 DEF Mutate, TypeOK
      <4>3. effects' \in [Op -> Nat]
        BY <1>0, <3>2 DEF Mutate, TypeOK
      <4>4. QED
        BY <4>2, <4>3
    <3>3. QED
      BY <3>1, <3>2 DEF TypeOK
  <2>4. faults' \in 0 .. MaxFaults
    BY <1>5, FaultType DEF Dispatch, DispatchThrows, TypeOK
  <2>5. QED
    BY <1>5, <2>2, <2>3, <2>4 DEF TypeOK, Dispatch, DispatchThrows
<1>6. CASE MarkFailed(w, op)
  <2>1. Returned("THROWN") \in Calls /\ At("releaseTool") \in Calls
    BY CallRecords DEF Results, PlainPC
  <2>2. intent' \in [Op -> IntentRows]
    <3>1. Settle(intent[op], "FAILED") \in IntentRows
      BY <1>0, SettledRow DEF IntentStatus
    <3>2. QED
      BY <1>6, <3>1 DEF TypeOK, MarkFailed
  <2>3. held' \in [Worker -> [Op -> Nat]]
    <3>1. [held EXCEPT ![w][op] = 0] \in [Worker -> [Op -> Nat]]
      BY HeldType
    <3>2. held' \in {held, [held EXCEPT ![w][op] = 0]}
      BY <1>6 DEF MarkFailed
    <3>3. QED
      BY <3>1, <3>2 DEF TypeOK
  <2>4. PICK c \in Calls : Go(w, op, c)
    BY <1>6, <2>1 DEF MarkFailed
  <2>5. QED
    BY <1>6, <2>2, <2>3, <2>4, StepCallType DEF TypeOK, MarkFailed
<1>7. QED
  BY <1>1, <1>2, <1>3, <1>4, <1>5, <1>6

\* Typing of the five boundaries and of failToolCall.
LEMMA SettleStepsType ==
  ASSUME TypeOK, NEW w \in Worker, NEW op \in Op,
         \/ SettleIntent(w, op) \/ IntentClaimLost(w, op) \/ EnsureLeasePersisted(w, op)
         \/ SettleBudget(w, op) \/ RecordActivity(w, op) \/ BoundaryFails(w, op)
         \/ SettleLedger(w, op) \/ LedgerUnwritten(w, op) \/ FailLedger(w, op)
         \/ DatabaseThrows(w, op)
  PROVE  TypeOK'
<1> USE DEF durable
<1>0. /\ intent[op] \in IntentRows
      /\ call[w][op] \in Calls
      /\ \A k \in Keys : resv[op][k] \in Reservations
  BY DEF TypeOK
<1>a. \A p \in FencedPC : \A c \in {[call[w][op] EXCEPT !.pc = p],
                                    [call[w][op] EXCEPT !.pc = p, !.failed = TRUE]} :
        Go(w, op, c) => call' \in [Worker -> [Op -> Calls]]
  BY <1>0, Moves, StepCallType
<1>b. \A p \in FencedPC : Advance(w, op, p) \/ FailOn(w, op, p) =>
        call' \in [Worker -> [Op -> Calls]]
  BY <1>a DEF Advance, FailOn
<1>c. \A r \in Results : Go(w, op, Returned(r)) => call' \in [Worker -> [Op -> Calls]]
  BY StepCallType, CallRecords
<1>1. CASE SettleIntent(w, op)
  <2>1. intent' \in [Op -> IntentRows]
    <3>1. Settle(intent[op], "EXECUTED") \in IntentRows
      BY <1>0, SettledRow DEF IntentStatus
    <3>2. QED
      BY <1>1, <3>1 DEF TypeOK, SettleIntent
  <2>2. held' \in [Worker -> [Op -> Nat]]
    <3>1. [held EXCEPT ![w][op] = 0] \in [Worker -> [Op -> Nat]]
      BY HeldType
    <3>2. held' \in {held, [held EXCEPT ![w][op] = 0]}
      BY <1>1 DEF SettleIntent
    <3>3. QED
      BY <3>1, <3>2 DEF TypeOK
  <2>3. call' \in [Worker -> [Op -> Calls]] /\ faults' \in 0 .. MaxFaults
    BY <1>1, <1>b, FaultType DEF SettleIntent, FencedPC, TypeOK
  <2>4. QED
    BY <1>1, <2>1, <2>2, <2>3 DEF TypeOK, SettleIntent
<1>2. CASE IntentClaimLost(w, op) \/ BoundaryFails(w, op) \/ RecordActivity(w, op)
  <2>1. call' \in [Worker -> [Op -> Calls]]
    BY <1>2, <1>b DEF IntentClaimLost, BoundaryFails, RecordActivity, FencedPC, SettlingPC
  <2>2. faults' \in 0 .. MaxFaults
    BY <1>2, FaultType DEF IntentClaimLost, BoundaryFails, RecordActivity, TypeOK
  <2>3. QED
    BY <1>2, <2>1, <2>2 DEF TypeOK, IntentClaimLost, BoundaryFails, RecordActivity
<1>3. CASE EnsureLeasePersisted(w, op)
  <2>1. call' \in [Worker -> [Op -> Calls]]
    BY <1>3, <1>b DEF EnsureLeasePersisted, FencedPC
  <2>2. QED
    BY <1>3, <2>1 DEF TypeOK, EnsureLeasePersisted
<1>4. CASE SettleBudget(w, op)
  <2>1. PICK k \in Keys, q \in FencedPC : Settles(w, op, k, q)
    BY <1>4, SettlementSteps
  <2>2. resv' \in [Op -> [Keys -> Reservations]]
    <3>1. CASE resv' = resv
      BY <3>1 DEF TypeOK
    <3>2. CASE resv' # resv
      <4>1. PICK s \in {"CONSUMED", "RECONCILED"} :
              resv' = [resv EXCEPT ![op][k] = Closed(resv[op][k], s)]
        BY <2>1, <3>2 DEF Settles
      <4>2. Closed(resv[op][k], s) \in Reservations
        BY <1>0, ClosedRow DEF ResvStatus
      <4>3. QED
        BY <4>1, <4>2, ResvType
    <3>3. QED
      BY <3>1, <3>2
  <2>3. call' \in [Worker -> [Op -> Calls]] /\ faults' \in 0 .. MaxFaults
    BY <1>b, <2>1, FaultType DEF Settles, TypeOK
  <2>4. QED
    BY <2>1, <2>2, <2>3 DEF TypeOK, Settles
<1>5. CASE SettleLedger(w, op) \/ FailLedger(w, op)
  <2>1. call' \in [Worker -> [Op -> Calls]]
    BY <1>5, <1>c DEF SettleLedger, FailLedger, Results
  <2>2. QED
    BY <1>5, <2>1 DEF TypeOK, SettleLedger, SettledStage, FailLedger, Stages
<1>6. CASE LedgerUnwritten(w, op) \/ DatabaseThrows(w, op)
  <2>1. call' \in [Worker -> [Op -> Calls]]
    BY <1>6, <1>c DEF LedgerUnwritten, DatabaseThrows, Results
  <2>2. QED
    BY <1>6, <2>1, FaultType DEF TypeOK, LedgerUnwritten, DatabaseThrows
<1>7. QED
  BY <1>1, <1>2, <1>3, <1>4, <1>5, <1>6

\* Typing of what happens around the calls.
LEMMA EnvironmentType ==
  ASSUME TypeOK,
         \/ \E w \in Worker : Crash(w) \/ \E op \in Op : ProviderRemoves(w, op)
         \/ \E op \in Op : ClaimExpires(op)
         \/ \E op \in Op, k \in Keys : ReservationExpires(op, k) \/ SweepInspect(op, k)
         \/ SweepSettle
  PROVE  TypeOK'
<1> USE DEF durable
<1>1. ASSUME NEW w \in Worker, Crash(w) PROVE TypeOK'
  <2>1. call' \in [Worker -> [Op -> Calls]]
    BY <1>1, CallRecords DEF Crash, TypeOK, Results
  <2>2. held' \in [Worker -> [Op -> Nat]] /\ provider' \in [Worker -> SUBSET ResourceOp]
    BY <1>1 DEF Crash, TypeOK
  <2>3. QED
    BY <1>1, <2>1, <2>2 DEF Crash, TypeOK
<1>2. ASSUME NEW w \in Worker, NEW op \in Op, ProviderRemoves(w, op) PROVE TypeOK'
  BY <1>2 DEF ProviderRemoves, TypeOK
<1>3. ASSUME NEW op \in Op, ClaimExpires(op) PROVE TypeOK'
  <2>1. [intent[op] EXCEPT !.live = FALSE] \in IntentRows
    <3>1. intent[op] \in IntentRows
      BY DEF TypeOK
    <3>2. QED
      BY <3>1 DEF IntentRows
  <2>2. QED
    BY <1>3, <2>1 DEF ClaimExpires, TypeOK
<1>4. ASSUME NEW op \in Op, NEW k \in Keys, ReservationExpires(op, k) PROVE TypeOK'
  <2>1. [resv[op][k] EXCEPT !.live = FALSE] \in Reservations
    <3>1. resv[op][k] \in Reservations
      BY DEF TypeOK
    <3>2. QED
      BY <3>1 DEF Reservations
  <2>2. resv' = [resv EXCEPT ![op][k] = [resv[op][k] EXCEPT !.live = FALSE]]
    BY <1>4 DEF ReservationExpires
  <2>3. resv' \in [Op -> [Keys -> Reservations]]
    BY <2>1, <2>2, ResvType
  <2>4. QED
    BY <1>4, <2>3 DEF ReservationExpires, TypeOK
<1>5. ASSUME NEW op \in Op, NEW k \in Keys, SweepInspect(op, k) PROVE TypeOK'
  <2>1. resv[op][k].version \in Nat
    BY DEF TypeOK, Reservations
  <2>2. sweep' \in [op : Op, key : Keys, version : Nat, expire : BOOLEAN]
    BY <1>5, <2>1 DEF SweepInspect
  <2>3. QED
    BY <1>5, <2>2 DEF SweepInspect, TypeOK
<1>6. CASE SweepSettle
  <2> DEFINE op == sweep.op
             k == sweep.key
             closed == Closed(resv[op][k], IF sweep.expire THEN "EXPIRED" ELSE "RECONCILED")
  <2>1. op \in Op /\ k \in Keys
    BY <1>6 DEF SweepSettle, TypeOK
  <2>2. closed \in Reservations
    <3>1. resv[op][k] \in Reservations
      BY <2>1 DEF TypeOK
    <3>2. QED
      BY <3>1, ClosedRow DEF ResvStatus
  <2>3. [resv EXCEPT ![op][k] = closed] \in [Op -> [Keys -> Reservations]]
    BY <2>1, <2>2, ResvType
  <2>4. resv' \in {resv, [resv EXCEPT ![op][k] = closed]}
    BY <1>6 DEF SweepSettle
  <2>5. QED
    BY <1>6, <2>3, <2>4 DEF SweepSettle, TypeOK
<1>7. QED
  BY <1>1, <1>2, <1>3, <1>4, <1>5, <1>6

\* The initial state is typed.
LEMMA InitTypes == Init => TypeOK
<1>1. Returned("NONE") \in Calls
  BY CallRecords DEF Results
<1>2. QED
  BY <1>1, MaxFaultsAssumption
     DEF Init, TypeOK, Stages, IntentRows, IntentStatus, NoIntent, Reservations, ResvStatus, NoResv

\* Every step keeps the types.
LEMMA NextTypes == TypeOK /\ [Next]_vars => TypeOK'
<1> SUFFICES ASSUME TypeOK, [Next]_vars PROVE TypeOK'
  OBVIOUS
<1>1. CASE UNCHANGED vars
  BY <1>1 DEF vars, durable, TypeOK
<1>2. ASSUME NEW w \in Worker, NEW op \in Op,
             Start(w, op) \/ Step(w, op) \/ Misfortune(w, op)
      PROVE  TypeOK'
  BY <1>2, BudgetStepsType, IntentStepsType, SettleStepsType DEF Start, Step, Misfortune
<1>3. QED
  BY <1>1, <1>2, EnvironmentType DEF Next

\* Every variable keeps its type (tool-gateway.ts and the repositories).
THEOREM TypeCorrect == Spec => []TypeOK
BY InitTypes, NextTypes, PTL DEF Spec

-----------------------------------------------------------------------------
(* The inductive invariant.  What makes the effect unique is that a claim  *)
(* takes the intent out of PENDING for ever, and that only its one holder  *)
(* dispatches; what makes a terminal row complete is what a call that has  *)
(* not failed knows at each boundary.                                      *)

Opened(op)   == ledger[op] \notin {"NONE", "REJECTED"}
Taken(op)    == intent[op].status \notin {"NONE", "PENDING"}
Executed(op) == intent[op].status = "EXECUTED"
Leased(op)   == op \in ResourceOp => op \in lease
Charged(op, k) == resv[op][k].status \notin {"NONE", "RESERVED"}

Done(op) ==
  /\ Executed(op) /\ Leased(op) /\ op \in activity
  /\ \A k \in KeysOf(op) : Charged(op, k)

SettlePC == {"intent", "lease", "budgetTool", "budgetUsd", "activity", "ledger"} \cup SettlingPC

OpInv(op) ==
  /\ intent[op].live => intent[op].status = "CLAIMED"
  /\ \A k \in Keys : resv[op][k].live => resv[op][k].status = "RESERVED"
  /\ intent[op].status # "NONE" => Opened(op)
  /\ effects[op] \in {0, 1}
  /\ effects[op] = 1 => Taken(op)
  /\ Executed(op) => effects[op] = 1
  /\ \A w \in Worker : op \in provider[w] => effects[op] = 1
  /\ ledger[op] = "FAKE_EXECUTED" => Done(op)

CallInv(c, op) ==
  LET sound == ~c.failed IN
  /\ c.pc # "idle" => Opened(op)
  /\ c.pc = "dispatch" => Taken(op) /\ effects[op] = 0
  /\ c.pc \in SettlePC => effects[op] = 1
  /\ c.pc \in SettlePC \ {"intent"} /\ sound => Executed(op)
  /\ c.pc \in SettlePC \ {"intent", "lease"} /\ sound => Leased(op)
  /\ c.pc \in BudgetPC("usd") \cup {"activity", "ledger"} /\ sound => Charged(op, "tool")
  /\ c.pc \in {"activity", "ledger"} /\ sound => \A k \in KeysOf(op) : Charged(op, k)
  /\ c.pc = "ledger" /\ sound => op \in activity
  /\ c.result = "EXECUTED" => ledger[op] = "FAKE_EXECUTED"

OneDispatcher(op) ==
  \A v, w \in Worker : call[v][op].pc = "dispatch" /\ call[w][op].pc = "dispatch" => v = w

GatewayInv ==
  /\ TypeOK
  /\ \A op \in Op : OpInv(op) /\ OneDispatcher(op)
  /\ \A w \in Worker, op \in Op : CallInv(call[w][op], op)

\* What no step takes back.
Stable(op) ==
  /\ Opened(op) => Opened(op)'
  /\ Taken(op) => Taken(op)'
  /\ Executed(op) => Executed(op)'
  /\ op \in lease => op \in lease'
  /\ op \in activity => op \in activity'
  /\ \A k \in Keys : Charged(op, k) => Charged(op, k)'
  /\ ledger[op] = "FAKE_EXECUTED" => ledger'[op] = "FAKE_EXECUTED"

Untouched(op) ==
  /\ ledger'[op] = ledger[op]
  /\ intent'[op] = intent[op]
  /\ resv'[op] = resv[op]
  /\ op \in lease' <=> op \in lease
  /\ op \in activity' <=> op \in activity
  /\ effects'[op] = effects[op]
  /\ \A v \in Worker : op \in provider'[v] => op \in provider[v]

\* An operation whose data do not change keeps its invariant.
LEMMA UntouchedOp ==
  ASSUME NEW op \in Op, Untouched(op), OpInv(op)
  PROVE  OpInv(op)' /\ Stable(op)
BY DEF Untouched, OpInv, Stable, Opened, Taken, Executed, Done, Leased, Charged, KeysOf

\* A call that does not move keeps its invariant when the data only grow.
LEMMA CallKept ==
  ASSUME NEW op \in Op, NEW c, CallInv(c, op), Stable(op),
         effects'[op] = effects[op] \/ (effects'[op] = 1 /\ c.pc # "dispatch")
  PROVE  CallInv(c, op)'
<1>1. \A k \in KeysOf(op) : Charged(op, k) => Charged(op, k)'
  BY DEF Stable, KeysOf, Keys
<1>2. Charged(op, "tool") => Charged(op, "tool")'
  BY DEF Stable, Keys
<1>3. Leased(op) => Leased(op)'
  BY DEF Stable, Leased
<1>4. KeysOf(op)' = KeysOf(op)
  BY DEF KeysOf
<1>5. QED
  BY <1>1, <1>2, <1>3, <1>4 DEF CallInv, Stable

\* A step of one call: it is enough to look at that call and its operation.
LEMMA LocalStep ==
  ASSUME GatewayInv, TypeOK', NEW w \in Worker, NEW op \in Op, NEW c \in Calls, Go(w, op, c),
         \A o \in Op \ {op} : Untouched(o),
         Stable(op), OpInv(op)', CallInv(c, op)',
         \/ effects'[op] = effects[op]
         \/ effects'[op] = 1 /\ \A v \in Worker \ {w} : call[v][op].pc # "dispatch",
         c.pc = "dispatch" => \A v \in Worker : call[v][op].pc # "dispatch"
  PROVE  GatewayInv'
<1>1. \A v \in Worker, o \in Op : call'[v][o] = IF v = w /\ o = op THEN c ELSE call[v][o]
  BY GoEffect DEF GatewayInv, TypeOK
<1>2. /\ \A o \in Op : OpInv(o)' /\ Stable(o)
      /\ \A o \in Op \ {op} : effects'[o] = effects[o]
  BY UntouchedOp DEF GatewayInv, Untouched
<1>3. ASSUME NEW v \in Worker, NEW o \in Op PROVE CallInv(call[v][o], o)'
  <2>1. PICK d : d = call'[v][o]
    OBVIOUS
  <2>2. CallInv(d, o)'
    <3>1. CASE v = w /\ o = op
      BY <1>1, <2>1, <3>1
    <3>2. CASE ~(v = w /\ o = op)
      <4>1. d = call[v][o]
        BY <1>1, <2>1, <3>2
      <4>2. CallInv(d, o)
        BY <4>1 DEF GatewayInv
      <4>3. \/ effects'[o] = effects[o]
            \/ effects'[o] = 1 /\ d.pc # "dispatch"
        BY <1>2, <3>2, <4>1
      <4>4. QED
        BY <1>2, <4>2, <4>3, CallKept
    <3>3. QED
      BY <3>1, <3>2
  <2>3. QED
    BY <2>1, <2>2 DEF CallInv
<1>4. \A o \in Op : OneDispatcher(o)'
  BY <1>1 DEF GatewayInv, OneDispatcher
<1>5. QED
  BY <1>2, <1>3, <1>4 DEF GatewayInv, CallInv

\* A step that changes nothing but one call.
LEMMA CallStep ==
  ASSUME GatewayInv, TypeOK', NEW w \in Worker, NEW op \in Op, NEW c \in Calls, Go(w, op, c),
         \A o \in Op : Untouched(o), CallInv(c, op), c.pc # "dispatch"
  PROVE  GatewayInv'
<1>1. OpInv(op)' /\ Stable(op) /\ effects'[op] = effects[op]
  BY UntouchedOp DEF GatewayInv, Untouched
<1>2. CallInv(c, op)'
  BY <1>1, CallKept
<1>3. QED
  BY <1>1, <1>2, LocalStep

\* A call that returned, or that is before the intent, knows little.
LEMMA FreshCalls ==
  ASSUME NEW op \in Op
  PROVE  /\ \A r \in Results \ {"EXECUTED"} : CallInv(Returned(r), op)
         /\ \A p \in PlainPC : Opened(op) => CallInv(At(p), op)
BY DEF CallInv, Returned, At, PlainPC, SettlePC, SettlingPC, BudgetPC

\* Authorization: a row that is opened here has no intent yet.
LEMMA AuthorizationKeeps ==
  ASSUME GatewayInv, TypeOK', NEW w \in Worker, NEW op \in Op,
         RejectCall(w, op) \/ AuthorizeCall(w, op) \/ RejectRefused(w, op)
  PROVE  GatewayInv'
<1>0. OpInv(op) /\ CallInv(call[w][op], op) /\ TypeOK
  BY DEF GatewayInv
<1>1. UNCHANGED <<intent, resv, lease, activity, provider, effects>>
  BY DEF RejectCall, AuthorizeCall, RejectRefused
<1>2. /\ \A o \in Op \ {op} : ledger'[o] = ledger[o]
      /\ ledger[op] # "NONE" => ledger'[op] = ledger[op]
      /\ ledger'[op] # "FAKE_EXECUTED" \/ ledger'[op] = ledger[op]
  BY <1>0 DEF RejectCall, AuthorizeCall, RejectRefused, RejectRow, TypeOK
<1>3. (\A o \in Op \ {op} : Untouched(o)) /\ effects'[op] = effects[op]
  BY <1>1, <1>2 DEF Untouched
<1>4. Stable(op)
  BY <1>1, <1>2 DEF Stable, Opened, Taken, Executed, Charged
<1>5. OpInv(op)'
  BY <1>0, <1>1, <1>2 DEF OpInv, Opened, Taken, Executed, Done, Leased, Charged, KeysOf
<1>6. PICK c \in Calls : Go(w, op, c) /\ CallInv(c, op)' /\ c.pc # "dispatch"
  <2>1. CASE RejectCall(w, op) \/ RejectRefused(w, op)
    <3>1. PICK r \in Results \ {"EXECUTED"} : r = RejectOutcome(op)
      BY DEF RejectOutcome, Results
    <3>2. Go(w, op, Returned(r))
      BY <2>1, <3>1 DEF RejectCall, RejectRefused
    <3>3. Returned(r) \in Calls /\ Returned(r).pc # "dispatch"
      BY CallRecords DEF Returned
    <3>4. CallInv(Returned(r), op)'
      BY DEF CallInv, Returned, SettlePC, SettlingPC, BudgetPC
    <3>5. QED
      BY <3>2, <3>3, <3>4
  <2>2. CASE AuthorizeCall(w, op)
    <3>1. CASE ledger[op] \in {"NONE", "AUTHORIZED", "FAILED"}
      <4>1. PICK p \in {"reserveTool", "recover"} : Go(w, op, At(p))
        BY <2>2, <3>1 DEF AuthorizeCall, Settleable
      <4>2. At(p) \in Calls /\ At(p).pc # "dispatch"
        BY CallRecords DEF At, PlainPC
      <4>3. Opened(op)'
        BY <2>2, <3>1 DEF AuthorizeCall, Opened, TypeOK
      <4>4. CallInv(At(p), op)'
        BY <4>3 DEF CallInv, At, SettlePC, SettlingPC, BudgetPC
      <4>5. QED
        BY <4>1, <4>2, <4>4
    <3>2. CASE ledger[op] \in {"FAKE_EXECUTED", "REJECTED"}
      <4>1. PICK r \in {"EXECUTED", "REPLAY_COLLISION"} :
              Go(w, op, Returned(r)) /\ (r = "EXECUTED" => ledger[op] = "FAKE_EXECUTED")
        BY <2>2, <3>2 DEF AuthorizeCall, Settleable
      <4>2. Returned(r) \in Calls /\ Returned(r).pc # "dispatch"
        BY CallRecords DEF Returned, Results
      <4>3. CallInv(Returned(r), op)'
        BY <1>2, <4>1 DEF CallInv, Returned, SettlePC, SettlingPC, BudgetPC
      <4>4. QED
        BY <4>1, <4>2, <4>3
    <3>3. QED
      BY <1>0, <3>1, <3>2 DEF TypeOK, Stages
  <2>3. QED
    BY <2>1, <2>2
<1>7. QED
  BY <1>3, <1>4, <1>5, <1>6, LocalStep

\* Reservations of one operation change, and no settled one does.
GrowingResv(op) ==
  /\ UNCHANGED <<ledger, intent, lease, activity, provider, effects>>
  /\ \A o \in Op \ {op} : resv'[o] = resv[o]
  /\ \A k \in Keys :
       /\ Charged(op, k) => resv'[op][k] = resv[op][k]
       /\ resv'[op][k].live => resv'[op][k].status = "RESERVED"

\* Changing open reservations disturbs nothing else.
LEMMA ResvChange ==
  ASSUME NEW op \in Op, GrowingResv(op), OpInv(op)
  PROVE  /\ OpInv(op)'
         /\ Stable(op)
         /\ effects'[op] = effects[op]
         /\ \A o \in Op \ {op} : Untouched(o)
<1>1. Stable(op)
  BY DEF GrowingResv, Stable, Opened, Taken, Executed, Charged
<1>2. \A k \in KeysOf(op) : Charged(op, k) => Charged(op, k)'
  BY <1>1 DEF Stable, KeysOf, Keys
<1>3. OpInv(op)'
  BY <1>2 DEF GrowingResv, OpInv, Opened, Taken, Executed, Done, Leased, KeysOf
<1>4. QED
  BY <1>1, <1>3 DEF GrowingResv, Untouched

\* One reservation becomes r.
LEMMA OneResvChange ==
  ASSUME TypeOK, NEW op \in Op, NEW k \in Keys, NEW r \in Reservations, OpInv(op),
         UNCHANGED <<ledger, intent, lease, activity, provider, effects>>,
         resv' = [resv EXCEPT ![op][k] = r],
         Charged(op, k) => r = resv[op][k],
         r.live => r.status = "RESERVED"
  PROVE  GrowingResv(op)
<1>1. \A o \in Op, j \in Keys : resv'[o][j] = IF o = op /\ j = k THEN r ELSE resv[o][j]
  BY Cell DEF TypeOK
<1>2. \A o \in Op \ {op} : resv'[o] = resv[o]
  BY DEF TypeOK
<1>3. QED
  BY <1>1, <1>2 DEF GrowingResv, OpInv

\* Reserving and releasing.
LEMMA BudgetKeeps ==
  ASSUME GatewayInv, TypeOK', NEW w \in Worker, NEW op \in Op,
         \/ ReserveToolBudget(w, op) \/ ReserveUsdBudget(w, op)
         \/ RefuseToolBudget(w, op) \/ RefuseUsdBudget(w, op)
         \/ ReleaseToolBudgets(w, op) \/ ReleaseAmbiguousBudget(w, op)
  PROVE  GatewayInv'
<1> USE DEF durable
<1>0. /\ OpInv(op) /\ CallInv(call[w][op], op) /\ TypeOK
      /\ "tool" \in Keys /\ "usd" \in Keys
      /\ \A k \in Keys : resv[op][k] \in Reservations
  BY DEF GatewayInv, TypeOK, Keys
<1>1. PICK p \in PlainPC : Go(w, op, At(p)) /\ call[w][op].pc # "idle"
  <2>1. CASE ReleaseToolBudgets(w, op) \/ ReleaseAmbiguousBudget(w, op)
    BY <1>0, <2>1, ReleaseSteps DEF Releases, Running, FailedPC
  <2>2. CASE ~(ReleaseToolBudgets(w, op) \/ ReleaseAmbiguousBudget(w, op))
    BY <2>2 DEF ReserveToolBudget, ReserveUsdBudget, RefuseToolBudget, RefuseUsdBudget,
                PlainPC, Running
  <2>3. QED
    BY <2>1, <2>2
<1>2. Opened(op)
  BY <1>0, <1>1 DEF CallInv
<1>3. At(p) \in Calls /\ At(p).pc # "dispatch"
  BY CallRecords DEF At, PlainPC
<1>4. GrowingResv(op)
  <2>1. CASE ReserveToolBudget(w, op) \/ ReserveUsdBudget(w, op)
    <3>1. PICK k \in Keys : Reserve(w, op, k)
      BY <1>0, <2>1 DEF ReserveToolBudget, ReserveUsdBudget
    <3> DEFINE new == [status |-> "RESERVED", owner |-> w, live |-> TRUE, version |-> 1]
               r == IF resv[op][k].status = "NONE" THEN new ELSE resv[op][k]
    <3>2. r \in Reservations /\ resv' = [resv EXCEPT ![op][k] = r]
      BY <1>0, <3>1, ResvRows DEF Reserve
    <3>3. (Charged(op, k) => r = resv[op][k]) /\ (r.live => r.status = "RESERVED")
      BY <1>0 DEF Charged, OpInv
    <3>4. UNCHANGED <<ledger, intent, lease, activity, provider, effects>>
      BY <2>1 DEF ReserveToolBudget, ReserveUsdBudget
    <3> HIDE DEF r
    <3>5. QED
      BY <1>0, <3>2, <3>3, <3>4, OneResvChange
  <2>2. CASE RefuseToolBudget(w, op)
    BY <1>0, <2>2 DEF RefuseToolBudget, GrowingResv, OpInv
  <2>3. CASE RefuseUsdBudget(w, op)
    BY <1>0, <2>3 DEF RefuseUsdBudget, GrowingResv, OpInv
  <2>4. CASE ReleaseToolBudgets(w, op) \/ ReleaseAmbiguousBudget(w, op)
    <3>1. PICK k \in Keys, from \in PlainPC, to \in PlainPC : Releases(w, op, k, from, to)
      BY <1>0, <2>4, ReleaseSteps
    <3>2. UNCHANGED <<ledger, intent, lease, activity, provider, effects>>
      BY <3>1 DEF Releases
    <3>3. CASE resv' = resv
      BY <1>0, <3>2, <3>3 DEF GrowingResv, OpInv
    <3>4. CASE resv' # resv
      <4> DEFINE r == Closed(resv[op][k], "RELEASED")
      <4>1. resv' = [resv EXCEPT ![op][k] = r] /\ ~Charged(op, k)
        BY <3>1, <3>4 DEF Releases, Charged
      <4>2. r \in Reservations /\ r.live = FALSE
        BY <1>0, ClosedRow DEF ResvStatus, Closed
      <4> HIDE DEF r
      <4>3. QED
        BY <1>0, <3>2, <4>1, <4>2, OneResvChange
    <3>5. QED
      BY <3>3, <3>4
  <2>5. QED
    BY <2>1, <2>2, <2>3, <2>4
<1>5. /\ OpInv(op)' /\ Stable(op) /\ effects'[op] = effects[op]
      /\ \A o \in Op \ {op} : Untouched(o)
  BY <1>0, <1>4, ResvChange
<1>6. CallInv(At(p), op)'
  BY <1>2, <1>3, <1>5, FreshCalls, CallKept
<1>7. QED
  BY <1>1, <1>3, <1>5, <1>6, LocalStep

-----------------------------------------------------------------------------
\* What the recovery reads is still true when it acts on it: a resource that
\* is observed was created, an EXECUTED intent has had its effect.
LEMMA RecoveryKnows ==
  ASSUME GatewayInv, NEW w \in Worker, NEW op \in Op, Opened(op)
  PROVE  /\ Observed(w, op) => CallInv(Reconciled(w, op), op)
         /\ Executed(op) => CallInv(AlreadyExecuted, op)
         /\ CallInv(Returned("AMBIGUOUS"), op)
         /\ \A p \in PlainPC : CallInv(At(p), op)
<1>1. OpInv(op)
  BY DEF GatewayInv
<1>2. CallInv(Returned("AMBIGUOUS"), op) /\ \A p \in PlainPC : CallInv(At(p), op)
  BY FreshCalls DEF Results
<1>3. Observed(w, op) => effects[op] = 1
  BY <1>1 DEF Observed, OpInv
<1>4. Observed(w, op) => CallInv(Reconciled(w, op), op)
  BY <1>2, <1>3 DEF CallInv, Settling, SettlePC, SettlingPC, BudgetPC, Reconciled
<1>5. Executed(op) => CallInv(AlreadyExecuted, op)
  BY <1>1 DEF AlreadyExecuted, Settling, CallInv, SettlePC, SettlingPC, BudgetPC, OpInv
<1>6. QED
  BY <1>2, <1>4, <1>5

\* Steps that read only: recovery, a lost claim, a failing database.
LEMMA ReadersKeep ==
  ASSUME GatewayInv, TypeOK', NEW w \in Worker, NEW op \in Op,
         \/ Recover(w, op) \/ CheckHeldReservation(w, op) \/ IntentClaimLost(w, op)
         \/ BoundaryFails(w, op) \/ LedgerUnwritten(w, op) \/ DatabaseThrows(w, op)
         \/ ReservationCollides(w, op)
  PROVE  GatewayInv'
<1> USE DEF durable
<1>0. OpInv(op) /\ CallInv(call[w][op], op) /\ TypeOK /\ call[w][op] \in Calls
  BY DEF GatewayInv, TypeOK
<1>1. \A o \in Op : Untouched(o)
  BY DEF Recover, CheckHeldReservation, IntentClaimLost, BoundaryFails, LedgerUnwritten,
         DatabaseThrows, ReservationCollides, Untouched
<1>2. CASE Recover(w, op)
  <2>1. Opened(op)
    BY <1>0, <1>2 DEF Recover, Running, CallInv
  <2>2. PICK c : c = AfterRecovery(w, op)
    OBVIOUS
  <2>3. intent[op].status \in IntentStatus
    BY <1>0 DEF TypeOK, IntentRows
  <2>4. /\ \/ c \in {At("reserveTool"), At("ambiguousBoth"), At("ambiguousTool"), At("checkHeld")}
           \/ c = Returned("AMBIGUOUS")
           \/ Executed(op) /\ c = AlreadyExecuted
           \/ Observed(w, op) /\ c = Reconciled(w, op)
    BY <2>2, <2>3 DEF AfterRecovery, IntentStatus, Executed
  <2>5. CallInv(c, op)
    BY <2>1, <2>4, RecoveryKnows DEF PlainPC
  <2>6. c \in Calls
    BY <1>0, <2>4, CallRecords DEF PlainPC, Results
  <2>7. c.pc # "dispatch"
    BY <2>4 DEF At, Returned, AlreadyExecuted, Settling, Reconciled
  <2>8. Go(w, op, c)
    BY <1>2, <2>2 DEF Recover
  <2>9. QED
    BY <1>1, <2>5, <2>6, <2>7, <2>8, CallStep
<1>3. CASE CheckHeldReservation(w, op)
  <2>1. Opened(op)
    BY <1>0, <1>3 DEF CheckHeldReservation, Running, CallInv
  <2>2. PICK c \in {Returned("AMBIGUOUS"), At("reserveTool")} : Go(w, op, c)
    BY <1>3 DEF CheckHeldReservation
  <2>3. CallInv(c, op)
    BY <2>1, <2>2, RecoveryKnows DEF PlainPC
  <2>4. c \in Calls
    BY <2>2, CallRecords DEF PlainPC, Results
  <2>5. c.pc # "dispatch"
    BY <2>2 DEF At, Returned
  <2>6. QED
    BY <1>1, <2>2, <2>3, <2>4, <2>5, CallStep
<1>4. CASE IntentClaimLost(w, op) \/ BoundaryFails(w, op)
  <2>1. PICK p \in SettlePC \ {"intent"} :
          /\ call[w][op].pc \in SettlePC
          /\ \/ FailOn(w, op, p)
             \/ Advance(w, op, p) /\ call[w][op].pc = "budgetTool" /\ p = "acceptTool"
             \/ Advance(w, op, p) /\ call[w][op].pc = "budgetUsd" /\ p = "acceptUsd"
    BY <1>4 DEF IntentClaimLost, BoundaryFails, Running, SettlePC, SettlingPC
  <2>2. p \in FencedPC /\ p # "dispatch"
    BY DEF SettlePC, FencedPC, SettlingPC
  <2>3. CASE FailOn(w, op, p)
    <3>1. PICK c : c = [call[w][op] EXCEPT !.pc = p, !.failed = TRUE]
      OBVIOUS
    <3>2. c \in Calls
      BY <1>0, <2>2, <3>1, Moves
    <3>3. c.pc = p /\ c.failed = TRUE /\ c.result = call[w][op].result
      BY <1>0, <3>1 DEF Calls
    <3>4. CallInv(c, op)
      BY <1>0, <2>1, <2>2, <3>3 DEF CallInv, SettlePC, SettlingPC, BudgetPC
    <3>5. Go(w, op, c)
      BY <2>3, <3>1 DEF FailOn
    <3>6. QED
      BY <1>1, <2>2, <3>2, <3>3, <3>4, <3>5, CallStep
  <2>4. CASE ~FailOn(w, op, p)
    <3>1. PICK c : c = [call[w][op] EXCEPT !.pc = p]
      OBVIOUS
    <3>2. c \in Calls
      BY <1>0, <2>2, <3>1, Moves
    <3>3. c.pc = p /\ c.failed = call[w][op].failed /\ c.result = call[w][op].result
      BY <1>0, <3>1 DEF Calls
    <3>4. CallInv(c, op)
      BY <1>0, <2>1, <2>4, <3>3 DEF CallInv, SettlePC, SettlingPC, BudgetPC
    <3>5. Go(w, op, c)
      BY <2>1, <2>4, <3>1 DEF Advance
    <3>6. QED
      BY <1>1, <2>2, <3>2, <3>3, <3>4, <3>5, CallStep
  <2>5. QED
    BY <2>3, <2>4
<1>5. CASE LedgerUnwritten(w, op) \/ DatabaseThrows(w, op) \/ ReservationCollides(w, op)
  <2>1. PICK r \in Results \ {"EXECUTED"} : Go(w, op, Returned(r))
    BY <1>5 DEF LedgerUnwritten, DatabaseThrows, ReservationCollides, Results
  <2>2. CallInv(Returned(r), op)
    BY FreshCalls
  <2>3. Returned(r) \in Calls /\ Returned(r).pc # "dispatch"
    BY CallRecords DEF Returned
  <2>4. QED
    BY <1>1, <2>1, <2>2, <2>3, CallStep
<1>6. QED
  BY <1>2, <1>3, <1>4, <1>5

-----------------------------------------------------------------------------
\* The intent of one operation becomes i, and does not go back.
GrowingIntent(op, i) ==
  /\ UNCHANGED <<ledger, resv, lease, activity, provider, effects>>
  /\ intent' = [intent EXCEPT ![op] = i]
  /\ i.live => i.status = "CLAIMED"
  /\ Taken(op) => i.status \notin {"NONE", "PENDING"}
  /\ Executed(op) => i.status = "EXECUTED"
  /\ i.status = "EXECUTED" => effects[op] = 1

\* Moving the intent forward disturbs nothing else.
LEMMA IntentChange ==
  ASSUME TypeOK, NEW op \in Op, NEW i \in IntentRows, GrowingIntent(op, i), OpInv(op), Opened(op)
  PROVE  /\ OpInv(op)'
         /\ Stable(op)
         /\ effects'[op] = effects[op]
         /\ \A o \in Op \ {op} : Untouched(o)
<1>1. \A o \in Op : intent'[o] = IF o = op THEN i ELSE intent[o]
  BY DEF GrowingIntent, TypeOK
<1>2. Stable(op)
  BY <1>1 DEF GrowingIntent, Stable, Opened, Taken, Executed, Charged
<1>3. \A k \in Keys : Charged(op, k)' = Charged(op, k)
  BY DEF GrowingIntent, Charged
<1>4. ledger[op] = "FAKE_EXECUTED" => Done(op)'
  BY <1>2, <1>3 DEF GrowingIntent, OpInv, Done, Stable, Leased, KeysOf, Keys
<1>5. OpInv(op)'
  BY <1>1, <1>2, <1>4 DEF GrowingIntent, OpInv, Opened, Taken, Executed
<1>6. QED
  BY <1>1, <1>2, <1>5 DEF GrowingIntent, Untouched

\* A fence only passes on an undecided intent.
LEMMA FencedUndecided ==
  ASSUME TypeOK, NEW w \in Worker, NEW op \in Op, Fenced(w, op)
  PROVE  intent[op].status \in {"PENDING", "CLAIMED"}
<1>1. call[w][op].fence \in Fences
  BY DEF TypeOK, Calls
<1>2. QED
  BY <1>1 DEF Fenced, Fences

\* Creating the intent, and settling it.
LEMMA IntentKeeps ==
  ASSUME GatewayInv, TypeOK', NEW w \in Worker, NEW op \in Op,
         CreateIntent(w, op) \/ MarkFailed(w, op) \/ SettleIntent(w, op)
  PROVE  GatewayInv'
<1>0. /\ OpInv(op) /\ CallInv(call[w][op], op) /\ TypeOK
      /\ call[w][op] \in Calls /\ intent[op] \in IntentRows
  BY DEF GatewayInv, TypeOK
<1>1. Opened(op)
  BY <1>0 DEF CreateIntent, MarkFailed, SettleIntent, Running, CallInv
<1>2. CASE CreateIntent(w, op)
  <2> DEFINE new == [status |-> "PENDING", live |-> FALSE, token |-> 0, version |-> 1]
             i == IF intent[op].status = "NONE" THEN new ELSE intent[op]
  <2>1. i \in IntentRows
    BY <1>0 DEF IntentRows, IntentStatus
  <2>2. GrowingIntent(op, i)
    BY <1>0, <1>2 DEF CreateIntent, GrowingIntent, OpInv, Taken, Executed
  <2> HIDE DEF i
  <2>3. /\ OpInv(op)' /\ Stable(op) /\ effects'[op] = effects[op]
        /\ \A o \in Op \ {op} : Untouched(o)
    BY <1>0, <1>1, <2>1, <2>2, IntentChange
  <2>4. At("claimIntent") \in Calls
    BY CallRecords DEF PlainPC
  <2>5. At("claimIntent").pc # "dispatch" /\ Go(w, op, At("claimIntent"))
    BY <1>2 DEF At, CreateIntent
  <2>6. CallInv(At("claimIntent"), op)'
    BY <1>1, <2>3, FreshCalls, CallKept DEF PlainPC
  <2>7. QED
    BY <2>3, <2>4, <2>5, <2>6, LocalStep
<1>3. CASE MarkFailed(w, op)
  <2>1. CASE Fenced(w, op)
    <3>1. PICK i \in IntentRows : i = Settle(intent[op], "FAILED")
      BY <1>0, SettledRow DEF IntentStatus
    <3>2. GrowingIntent(op, i)
      BY <1>0, <1>3, <2>1, <3>1, FencedUndecided
         DEF MarkFailed, GrowingIntent, Settle, Taken, Executed
    <3>3. /\ OpInv(op)' /\ Stable(op) /\ effects'[op] = effects[op]
          /\ \A o \in Op \ {op} : Untouched(o)
      BY <1>0, <1>1, <3>1, <3>2, IntentChange
    <3>4. At("releaseTool") \in Calls
      BY CallRecords DEF PlainPC
    <3>5. At("releaseTool").pc # "dispatch" /\ Go(w, op, At("releaseTool"))
      BY <1>3, <2>1 DEF At, MarkFailed
    <3>6. CallInv(At("releaseTool"), op)'
      BY <1>1, <3>3, FreshCalls, CallKept DEF PlainPC
    <3>7. QED
      BY <3>3, <3>4, <3>5, <3>6, LocalStep
  <2>2. CASE ~Fenced(w, op)
    <3>1. \A o \in Op : Untouched(o)
      BY <1>3, <2>2 DEF MarkFailed, Untouched
    <3>2. Go(w, op, Returned("THROWN")) /\ Returned("THROWN").pc # "dispatch"
      BY <1>3, <2>2 DEF MarkFailed, Returned
    <3>3. Returned("THROWN") \in Calls /\ CallInv(Returned("THROWN"), op)
      BY CallRecords, FreshCalls DEF Results
    <3>4. QED
      BY <3>1, <3>2, <3>3, CallStep
  <2>3. QED
    BY <2>1, <2>2
<1>4. CASE SettleIntent(w, op)
  <2>1. Fenced(w, op) /\ effects[op] = 1 /\ call[w][op].pc = "intent"
    BY <1>0, <1>4 DEF SettleIntent, Running, CallInv, SettlePC, SettlingPC, BudgetPC
  <2>2. PICK i \in IntentRows : i = Settle(intent[op], "EXECUTED")
    BY <1>0, SettledRow DEF IntentStatus
  <2>3. GrowingIntent(op, i)
    BY <1>4, <2>1, <2>2 DEF SettleIntent, GrowingIntent, Settle, Taken, Executed
  <2>4. /\ OpInv(op)' /\ Stable(op) /\ effects'[op] = effects[op]
        /\ \A o \in Op \ {op} : Untouched(o)
    BY <1>0, <1>1, <2>2, <2>3, IntentChange
  <2>5. Executed(op)'
    BY <1>0, <2>2, <2>3 DEF GrowingIntent, Settle, Executed, TypeOK
  <2>6. PICK c \in {[call[w][op] EXCEPT !.pc = "lease"],
                    [call[w][op] EXCEPT !.pc = "lease", !.failed = TRUE]} : Go(w, op, c)
    BY <1>4 DEF SettleIntent, Advance, FailOn
  <2>7. c \in Calls
    <3>1. "lease" \in FencedPC
      BY DEF FencedPC
    <3>2. QED
      BY <1>0, <2>6, <3>1, Moves
  <2>8. c.pc = "lease" /\ c.result = call[w][op].result
    BY <1>0, <2>6 DEF Calls
  <2>9. CallInv(c, op)'
    <3>1. Opened(op)' /\ effects'[op] = 1
      BY <1>1, <2>1, <2>4 DEF Stable
    <3>2. c.result = "EXECUTED" => ledger'[op] = "FAKE_EXECUTED"
      BY <1>0, <2>4, <2>8 DEF CallInv, Stable
    <3>3. QED
      BY <2>5, <2>8, <3>1, <3>2 DEF CallInv, SettlePC, SettlingPC, BudgetPC
  <2>10. QED
    BY <2>4, <2>6, <2>7, <2>8, <2>9, LocalStep
<1>5. QED
  BY <1>2, <1>3, <1>4

\* Only one call ever leaves ClaimIntent for the provider: it took the row
\* out of PENDING.
LEMMA ClaimKeeps ==
  ASSUME GatewayInv, TypeOK', NEW w \in Worker, NEW op \in Op, ClaimIntent(w, op)
  PROVE  GatewayInv'
<1>0. /\ OpInv(op) /\ CallInv(call[w][op], op) /\ TypeOK
      /\ intent[op] \in IntentRows
  BY DEF GatewayInv, TypeOK
<1>1. Opened(op)
  BY <1>0 DEF ClaimIntent, Running, CallInv
<1>2. CASE MayClaim(intent[op])
  <2>1. ~Taken(op) /\ effects[op] = 0
    BY <1>0, <1>2 DEF MayClaim, Taken, OpInv
  <2>2. \A v \in Worker : call[v][op].pc # "dispatch"
    BY <2>1 DEF GatewayInv, CallInv
  <2>a. intent[op].version + 1 \in Nat
    BY <1>0 DEF IntentRows
  <2>b. ClaimedIntent(intent[op]) \in IntentRows
    BY <2>a DEF ClaimedIntent, IntentRows, IntentStatus
  <2>3. PICK i \in IntentRows : i = ClaimedIntent(intent[op])
    BY <2>b
  <2>4. GrowingIntent(op, i)
    BY <1>2, <2>1, <2>3 DEF ClaimIntent, ClaimTaken, GrowingIntent, ClaimedIntent, Taken, Executed
  <2>5. /\ OpInv(op)' /\ Stable(op) /\ effects'[op] = effects[op]
        /\ \A o \in Op \ {op} : Untouched(o)
    BY <1>0, <1>1, <2>3, <2>4, IntentChange
  <2>6. Taken(op)'
    BY <1>0, <2>3, <2>4 DEF GrowingIntent, ClaimedIntent, Taken, TypeOK
  <2>7. PICK t \in Nat : t = intent[op].version + 1
    BY <1>0 DEF IntentRows
  <2> DEFINE d == Settling("dispatch", [kind |-> "TOKEN", status |-> "CLAIMED", version |-> t])
  <2>8. d \in Calls /\ Returned("THROWN") \in Calls
    BY CallRecords DEF Settling, Calls, FencedPC, Fences, Results
  <2>9. CallInv(d, op)' /\ CallInv(Returned("THROWN"), op)'
    <3>1. CallInv(Returned("THROWN"), op)'
      BY <2>5, FreshCalls, CallKept DEF Results
    <3>2. Opened(op)' /\ effects'[op] = 0
      BY <1>1, <2>1, <2>5 DEF Stable
    <3>3. CallInv(d, op)'
      BY <2>6, <3>2 DEF CallInv, Settling, SettlePC, SettlingPC, BudgetPC
    <3>4. QED
      BY <3>1, <3>3
  <2>10. Go(w, op, d) \/ Go(w, op, Returned("THROWN"))
    BY <1>2, <2>7 DEF ClaimIntent, ClaimTaken
  <2> HIDE DEF d
  <2>11. QED
    BY <2>2, <2>5, <2>8, <2>9, <2>10, LocalStep
<1>3. CASE ~MayClaim(intent[op])
  <2>1. \A o \in Op : Untouched(o)
    BY <1>3 DEF ClaimIntent, Untouched
  <2>2. PICK c : c = AfterRefusedClaim(w, op)
    OBVIOUS
  <2>3. \/ c \in {At("releaseTool"), Returned("AMBIGUOUS")}
        \/ Executed(op) /\ c = AlreadyExecuted
        \/ Observed(w, op) /\ c = Reconciled(w, op)
    BY <2>2 DEF AfterRefusedClaim, Executed
  <2>4. CallInv(c, op)
    BY <1>1, <2>3, RecoveryKnows DEF PlainPC
  <2>5. c \in Calls
    BY <1>0, <2>3, CallRecords DEF PlainPC, Results
  <2>6. c.pc # "dispatch"
    BY <2>3 DEF At, Returned, AlreadyExecuted, Settling, Reconciled
  <2>7. Go(w, op, c)
    BY <1>3, <2>2 DEF ClaimIntent
  <2>8. QED
    BY <2>1, <2>4, <2>5, <2>6, <2>7, CallStep
<1>4. QED
  BY <1>2, <1>3

\* The provider call: its one dispatcher makes the first and only effect.
LEMMA DispatchKeeps ==
  ASSUME GatewayInv, TypeOK', NEW w \in Worker, NEW op \in Op,
         Dispatch(w, op) \/ DispatchThrows(w, op)
  PROVE  GatewayInv'
<1> USE DEF durable
<1>0. /\ OpInv(op) /\ CallInv(call[w][op], op) /\ TypeOK /\ call[w][op] \in Calls
      /\ OneDispatcher(op)
  BY DEF GatewayInv, TypeOK
<1>1. call[w][op].pc = "dispatch"
  BY DEF Dispatch, DispatchThrows, Running
<1>2. Opened(op) /\ Taken(op) /\ effects[op] = 0
  BY <1>0, <1>1 DEF CallInv
<1>3. \A v \in Worker \ {w} : call[v][op].pc # "dispatch"
  BY <1>0, <1>1 DEF OneDispatcher
<1>4. PICK p \in {"intent", "markFailed"} :
        /\ Go(w, op, [call[w][op] EXCEPT !.pc = p])
        /\ p = "intent" => Mutate(w, op)
  BY DEF Dispatch, DispatchThrows
<1>5. UNCHANGED durable /\ (Mutate(w, op) \/ UNCHANGED <<provider, effects>>)
  BY DEF Dispatch, DispatchThrows
<1>6. \A o \in Op \ {op} : effects'[o] = effects[o]
  BY <1>0, <1>5 DEF Mutate, TypeOK
<1>7. effects'[op] \in {0, 1} /\ (Mutate(w, op) => effects'[op] = 1)
  BY <1>0, <1>2, <1>5 DEF Mutate, TypeOK
<1>8. \A o \in Op \ {op}, v \in Worker : o \in provider'[v] => o \in provider[v]
  <2>1. \A v \in Worker : provider'[v] = provider[v] \/ provider'[v] = provider[v] \cup {op}
    BY <1>0, <1>5 DEF Mutate, TypeOK
  <2>2. QED
    BY <2>1
<1>9. \A v \in Worker : op \in provider'[v] => effects'[op] = 1
  <2>1. \A v \in Worker : op \notin provider[v]
    BY <1>0, <1>2 DEF OpInv
  <2>2. QED
    BY <1>5, <1>7, <2>1
<1>10. (\A o \in Op \ {op} : Untouched(o)) /\ Stable(op)
  BY <1>5, <1>6, <1>8 DEF Untouched, Stable, Opened, Taken, Executed, Charged
<1>11. OpInv(op)'
  <2>1. ~Executed(op)
    BY <1>0, <1>2 DEF OpInv
  <2>2. QED
    BY <1>0, <1>2, <1>5, <1>7, <1>9, <2>1
       DEF OpInv, Opened, Taken, Executed, Done
<1>12. PICK c : c = [call[w][op] EXCEPT !.pc = p]
  OBVIOUS
<1>13. c \in Calls
  BY <1>0, <1>12, Moves DEF FencedPC
<1>14. c.pc = p /\ c.result = call[w][op].result
  BY <1>0, <1>12 DEF Calls
<1>15. CallInv(c, op)'
  <2>1. c.result = "EXECUTED" => ledger'[op] = "FAKE_EXECUTED"
    BY <1>0, <1>5, <1>14 DEF CallInv
  <2>2. Opened(op)' /\ (c.pc = "intent" => effects'[op] = 1)
    BY <1>2, <1>4, <1>7, <1>10, <1>14 DEF Stable
  <2>3. c.pc \in {"intent", "markFailed"}
    BY <1>14
  <2>4. QED
    BY <2>1, <2>2, <2>3 DEF CallInv, SettlePC, SettlingPC, BudgetPC
<1>16. effects'[op] = effects[op] \/ effects'[op] = 1
  BY <1>2, <1>7
<1>17. Go(w, op, c) /\ c.pc # "dispatch"
  BY <1>4, <1>12, <1>14
<1>18. QED
  BY <1>3, <1>10, <1>11, <1>13, <1>15, <1>16, <1>17, LocalStep

-----------------------------------------------------------------------------
\* Moving on: what the call must know at its next boundary.
LEMMA Advances ==
  ASSUME TypeOK, NEW w \in Worker, NEW op \in Op, NEW p \in FencedPC,
         NEW c, c = [call[w][op] EXCEPT !.pc = p]
  PROVE  /\ c \in Calls
         /\ c.pc = p
         /\ c.failed = call[w][op].failed
         /\ c.result = call[w][op].result
<1>1. call[w][op] \in Calls
  BY DEF TypeOK
<1>2. c \in Calls
  BY <1>1, Moves
<1>3. QED
  BY <1>1 DEF Calls

\* The lease and the activity event: nothing else depends on them.
LEMMA ProjectionKeeps ==
  ASSUME GatewayInv, TypeOK', NEW w \in Worker, NEW op \in Op,
         EnsureLeasePersisted(w, op) \/ RecordActivity(w, op)
  PROVE  GatewayInv'
<1>0. OpInv(op) /\ CallInv(call[w][op], op) /\ TypeOK
  BY DEF GatewayInv
<1>1. PICK p \in {"budgetTool", "ledger"} :
        /\ Go(w, op, [call[w][op] EXCEPT !.pc = p])
        /\ p = "budgetTool" => EnsureLeasePersisted(w, op)
        /\ p = "ledger" => RecordActivity(w, op)
  BY DEF EnsureLeasePersisted, RecordActivity, Advance
<1>2. PICK c : c = [call[w][op] EXCEPT !.pc = p]
  OBVIOUS
<1>3. /\ c \in Calls /\ c.pc = p /\ c.failed = call[w][op].failed
      /\ c.result = call[w][op].result
  BY <1>0, <1>2, Advances DEF FencedPC
<1>4. /\ UNCHANGED <<ledger, intent, resv, provider, effects>>
      /\ lease \subseteq lease' /\ activity \subseteq activity'
      /\ \A o \in Op \ {op} : (o \in lease' => o \in lease) /\ (o \in activity' => o \in activity)
  BY DEF EnsureLeasePersisted, RecordActivity
<1>5. (\A o \in Op \ {op} : Untouched(o)) /\ Stable(op) /\ effects'[op] = effects[op]
  BY <1>4 DEF Untouched, Stable, Opened, Taken, Executed, Charged
<1>6. OpInv(op)'
  BY <1>0, <1>4 DEF OpInv, Opened, Taken, Executed, Done, Leased, Charged, KeysOf
<1>7. CallInv(c, op)'
  <2>1. CASE p = "budgetTool"
    <3>1. call[w][op].pc = "lease" /\ Leased(op)'
      BY <1>1, <2>1 DEF EnsureLeasePersisted, Running, Leased
    <3>2. QED
      BY <1>0, <1>3, <1>4, <2>1, <3>1 DEF CallInv, SettlePC, SettlingPC, BudgetPC, Opened, Executed
  <2>2. CASE p = "ledger"
    <3>1. /\ call[w][op].pc = "activity"
          /\ ~call[w][op].failed => op \in activity'
      BY <1>1, <2>2 DEF RecordActivity, Running
    <3>2. Leased(op) => Leased(op)'
      BY <1>4 DEF Leased
    <3>3. \A k \in KeysOf(op) : Charged(op, k) => Charged(op, k)'
      BY <1>4 DEF Charged
    <3>4. Charged(op, "tool") => Charged(op, "tool")'
      BY <1>4 DEF Charged
    <3>5. KeysOf(op)' = KeysOf(op)
      BY DEF KeysOf
    <3>6. QED
      BY <1>0, <1>3, <1>4, <2>2, <3>1, <3>2, <3>3, <3>4, <3>5
         DEF CallInv, SettlePC, SettlingPC, BudgetPC, Opened, Executed
  <2>3. QED
    BY <2>1, <2>2
<1>8. Go(w, op, c) /\ c.pc # "dispatch"
  BY <1>1, <1>2, <1>3
<1>9. QED
  BY <1>3, <1>5, <1>6, <1>7, <1>8, LocalStep

\* Settling a reservation: committed here, or settled before.
LEMMA SettleBudgetKeeps ==
  ASSUME GatewayInv, TypeOK', NEW w \in Worker, NEW op \in Op, SettleBudget(w, op)
  PROVE  GatewayInv'
<1>0. /\ OpInv(op) /\ CallInv(call[w][op], op) /\ TypeOK
      /\ call[w][op] \in Calls
      /\ "tool" \in Keys /\ "usd" \in Keys
  BY DEF GatewayInv, TypeOK, Keys
<1>1. PICK k \in Keys, q \in FencedPC : Settles(w, op, k, q)
  BY <1>0, SettlementSteps
<1>2. UNCHANGED <<ledger, intent, lease, activity, provider, effects>>
  BY <1>1 DEF Settles
<1>3. GrowingResv(op)
  <2>1. CASE resv' = resv
    BY <1>0, <1>2, <2>1 DEF GrowingResv, OpInv
  <2>2. CASE resv' # resv
    <3>1. PICK s \in {"CONSUMED", "RECONCILED"} :
            resv' = [resv EXCEPT ![op][k] = Closed(resv[op][k], s)] /\ ~Charged(op, k)
      BY <1>1, <2>2 DEF Settles, Charged
    <3> DEFINE r == Closed(resv[op][k], s)
    <3>2. resv[op][k] \in Reservations
      BY <1>0 DEF TypeOK
    <3>3. r \in Reservations /\ r.live = FALSE
      BY <3>2, ClosedRow DEF ResvStatus, Closed
    <3>4. resv' = [resv EXCEPT ![op][k] = r]
      BY <3>1
    <3> HIDE DEF r
    <3>5. QED
      BY <1>0, <1>2, <3>1, <3>3, <3>4, OneResvChange
  <2>3. QED
    BY <2>1, <2>2
<1>4. /\ OpInv(op)' /\ Stable(op) /\ effects'[op] = effects[op]
      /\ \A o \in Op \ {op} : Untouched(o)
  BY <1>0, <1>3, ResvChange
<1>5. call[w][op].pc \in BudgetPC(k)
  BY <1>1 DEF Settles
<1>6. call[w][op].pc \in SettlePC \ {"intent", "lease"}
  BY <1>5 DEF BudgetPC, SettlePC, SettlingPC
<1>7. PICK c \in {[call[w][op] EXCEPT !.pc = q], [call[w][op] EXCEPT !.pc = q, !.failed = TRUE]} :
        /\ Go(w, op, c)
        /\ \/ c = [call[w][op] EXCEPT !.pc = q, !.failed = TRUE] /\ q = "activity"
           \/ /\ c = [call[w][op] EXCEPT !.pc = q]
              /\ q \in BudgetPC(k) \/ (q = Paid(op, k) /\ Charged(op, k)')
  BY <1>1 DEF Settles, Advance, FailOn, Charged
<1>8. c \in Calls
  BY <1>0, <1>7, Moves
<1>9. /\ c.pc = q /\ c.result = call[w][op].result
      /\ \/ c.failed = TRUE /\ q = "activity"
         \/ /\ c.failed = call[w][op].failed
            /\ q \in BudgetPC(k) \/ (q = Paid(op, k) /\ Charged(op, k)')
  BY <1>0, <1>7 DEF Calls
<1>10. q \in SettlePC \ {"intent", "lease", "ledger"}
  BY <1>9 DEF BudgetPC, Paid, SettlePC, SettlingPC
<1>11. Opened(op)' /\ effects'[op] = 1
  BY <1>0, <1>4, <1>6 DEF CallInv, Stable, SettlePC, SettlingPC
<1>12. ~c.failed => ~call[w][op].failed /\ Executed(op)' /\ Leased(op)'
  BY <1>0, <1>4, <1>6, <1>9 DEF CallInv, Stable, Leased
<1>13. ~c.failed /\ q \in BudgetPC("usd") \cup {"activity"} => Charged(op, "tool")'
  <2>1. CASE k = "tool"
    BY <1>9, <2>1 DEF BudgetPC
  <2>2. CASE k = "usd"
    BY <1>0, <1>4, <1>5, <1>12, <2>2 DEF CallInv, Stable
  <2>3. QED
    BY <2>1, <2>2 DEF Keys
<1>14. ~c.failed /\ q = "activity" => \A j \in KeysOf(op)' : Charged(op, j)'
  BY <1>9, <1>13 DEF KeysOf, Keys, Paid, BudgetPC
<1>15. c.result = "EXECUTED" => ledger'[op] = "FAKE_EXECUTED"
  BY <1>0, <1>4, <1>9 DEF CallInv, Stable
<1>16. CallInv(c, op)'
  BY <1>9, <1>10, <1>11, <1>12, <1>13, <1>14, <1>15 DEF CallInv, SettlePC, SettlingPC
<1>17. c.pc # "dispatch"
  BY <1>9, <1>10 DEF SettlePC, SettlingPC
<1>18. QED
  BY <1>4, <1>7, <1>8, <1>16, <1>17, LocalStep

\* The ledger row is written last: a call that has not failed knows that
\* every projection is there.
LEMMA LedgerKeeps ==
  ASSUME GatewayInv, TypeOK', NEW w \in Worker, NEW op \in Op,
         SettleLedger(w, op) \/ FailLedger(w, op)
  PROVE  GatewayInv'
<1>0. OpInv(op) /\ CallInv(call[w][op], op) /\ TypeOK
  BY DEF GatewayInv
<1>1. UNCHANGED <<intent, resv, lease, activity, provider, effects>>
  BY DEF SettleLedger, FailLedger
<1>2. /\ \A o \in Op \ {op} : ledger'[o] = ledger[o]
      /\ ledger'[op] \in {ledger[op], "FAILED", "FAKE_EXECUTED"}
      /\ ~Settleable(op) => ledger'[op] = ledger[op]
      /\ ledger'[op] = "FAKE_EXECUTED" =>
           \/ ledger[op] = "FAKE_EXECUTED"
           \/ call[w][op].pc = "ledger" /\ ~call[w][op].failed
  BY <1>0 DEF SettleLedger, FailLedger, SettledStage, Settleable, TypeOK, Running
<1>3. (\A o \in Op \ {op} : Untouched(o)) /\ effects'[op] = effects[op]
  BY <1>1, <1>2 DEF Untouched
<1>4. Opened(op) /\ Opened(op)'
  BY <1>0, <1>2 DEF SettleLedger, FailLedger, Running, CallInv, Opened
<1>5. Stable(op)
  BY <1>1, <1>2, <1>4 DEF Stable, Taken, Executed, Charged, Settleable
<1>6. ledger'[op] = "FAKE_EXECUTED" => Done(op)'
  <2>1. Done(op) => Done(op)'
    BY <1>1 DEF Done, Executed, Leased, Charged, KeysOf
  <2>2. ledger'[op] = "FAKE_EXECUTED" => Done(op)
    BY <1>0, <1>2 DEF OpInv, CallInv, SettlePC, SettlingPC, BudgetPC, Done
  <2>3. QED
    BY <2>1, <2>2
<1>7. OpInv(op)'
  BY <1>0, <1>1, <1>4, <1>6 DEF OpInv, Taken, Executed
<1>8. PICK r \in Results : /\ Go(w, op, Returned(r))
                           /\ r = "EXECUTED" => ledger'[op] = "FAKE_EXECUTED"
  BY <1>0 DEF SettleLedger, FailLedger, Results, SettledStage, TypeOK
<1>9. Returned(r) \in Calls /\ Returned(r).pc # "dispatch"
  BY CallRecords DEF Returned
<1>10. CallInv(Returned(r), op)'
  BY <1>8 DEF CallInv, Returned, SettlePC, SettlingPC, BudgetPC
<1>11. QED
  BY <1>3, <1>5, <1>7, <1>8, <1>9, <1>10, LocalStep

-----------------------------------------------------------------------------
\* What happens around the calls: a call stays where it is, or is gone.
LEMMA QuietStep ==
  ASSUME GatewayInv, TypeOK',
         \A o \in Op : OpInv(o)' /\ Stable(o) /\ effects'[o] = effects[o],
         \A v \in Worker, o \in Op :
           call'[v][o] = call[v][o] \/ call'[v][o] = Returned("NONE")
  PROVE  GatewayInv'
<1>1. ASSUME NEW v \in Worker, NEW o \in Op PROVE CallInv(call[v][o], o)'
  <2>1. PICK d : d = call'[v][o]
    OBVIOUS
  <2>2. CallInv(d, o)
    <3>1. CallInv(call[v][o], o) /\ CallInv(Returned("NONE"), o)
      BY FreshCalls DEF GatewayInv, Results
    <3>2. d = call[v][o] \/ d = Returned("NONE")
      BY <2>1
    <3>3. QED
      BY <3>1, <3>2
  <2>3. CallInv(d, o)'
    BY <2>2, CallKept
  <2>4. QED
    BY <2>1, <2>3 DEF CallInv
<1>2. ASSUME NEW o \in Op PROVE OneDispatcher(o)'
  <2>1. \A v \in Worker : call'[v][o].pc = "dispatch" => call[v][o].pc = "dispatch"
    BY DEF Returned
  <2>2. OneDispatcher(o)
    BY DEF GatewayInv
  <2>3. QED
    BY <2>1, <2>2 DEF OneDispatcher
<1>3. QED
  BY <1>1, <1>2 DEF GatewayInv

\* Crashes, time and the cleanups.
LEMMA EnvironmentKeeps ==
  ASSUME GatewayInv, TypeOK',
         \/ \E w \in Worker : Crash(w) \/ \E op \in Op : ProviderRemoves(w, op)
         \/ \E op \in Op : ClaimExpires(op)
         \/ \E op \in Op, k \in Keys : ReservationExpires(op, k) \/ SweepInspect(op, k)
         \/ SweepSettle
  PROVE  GatewayInv'
<1> USE DEF durable
<1>0. TypeOK /\ \A o \in Op : OpInv(o)
  BY DEF GatewayInv
<1>1. ASSUME NEW w \in Worker, Crash(w) PROVE GatewayInv'
  <2>1. \A o \in Op : Untouched(o)
    BY <1>0, <1>1 DEF Crash, Untouched, TypeOK
  <2>2. \A o \in Op : OpInv(o)' /\ Stable(o) /\ effects'[o] = effects[o]
    BY <1>0, <2>1, UntouchedOp DEF Untouched
  <2>3. \A v \in Worker, o \in Op : call'[v][o] = call[v][o] \/ call'[v][o] = Returned("NONE")
    BY <1>0, <1>1 DEF Crash, TypeOK
  <2>4. QED
    BY <2>2, <2>3, QuietStep
<1>2. ASSUME NEW w \in Worker, NEW op \in Op, ProviderRemoves(w, op) PROVE GatewayInv'
  <2>1. \A o \in Op : Untouched(o)
    BY <1>0, <1>2 DEF ProviderRemoves, Untouched, TypeOK
  <2>2. \A o \in Op : OpInv(o)' /\ Stable(o) /\ effects'[o] = effects[o]
    BY <1>0, <2>1, UntouchedOp DEF Untouched
  <2>3. UNCHANGED call
    BY <1>2 DEF ProviderRemoves
  <2>4. QED
    BY <2>2, <2>3, QuietStep
<1>3. ASSUME NEW op \in Op, ClaimExpires(op) PROVE GatewayInv'
  <2>1. PICK i : i = [intent[op] EXCEPT !.live = FALSE]
    OBVIOUS
  <2>2. i \in IntentRows /\ i.status = intent[op].status /\ i.live = FALSE
    <3>1. intent[op] \in IntentRows
      BY <1>0 DEF TypeOK
    <3>2. QED
      BY <2>1, <3>1 DEF IntentRows
  <2>3. intent[op].status = "CLAIMED" /\ Opened(op)
    BY <1>0, <1>3 DEF ClaimExpires, OpInv
  <2>4. GrowingIntent(op, i)
    BY <1>3, <2>1, <2>2, <2>3 DEF ClaimExpires, GrowingIntent, Taken, Executed
  <2>5. /\ OpInv(op)' /\ Stable(op) /\ effects'[op] = effects[op]
        /\ \A o \in Op \ {op} : Untouched(o)
    BY <1>0, <2>2, <2>3, <2>4, IntentChange
  <2>6. \A o \in Op : OpInv(o)' /\ Stable(o) /\ effects'[o] = effects[o]
    BY <1>0, <2>5, UntouchedOp DEF Untouched
  <2>7. UNCHANGED call
    BY <1>3 DEF ClaimExpires
  <2>8. QED
    BY <2>6, <2>7, QuietStep
<1>4. ASSUME NEW op \in Op, NEW k \in Keys, NEW r \in Reservations, UNCHANGED call,
             UNCHANGED <<ledger, intent, lease, activity, provider, effects>>,
             resv' = [resv EXCEPT ![op][k] = r],
             Charged(op, k) => r = resv[op][k],
             r.live => r.status = "RESERVED"
      PROVE  GatewayInv'
  <2>1. GrowingResv(op)
    BY <1>0, <1>4, OneResvChange
  <2>2. /\ OpInv(op)' /\ Stable(op) /\ effects'[op] = effects[op]
        /\ \A o \in Op \ {op} : Untouched(o)
    BY <1>0, <2>1, ResvChange
  <2>3. \A o \in Op : OpInv(o)' /\ Stable(o) /\ effects'[o] = effects[o]
    BY <1>0, <2>2, UntouchedOp DEF Untouched
  <2>4. QED
    BY <1>4, <2>3, QuietStep
<1>5. ASSUME NEW op \in Op, NEW k \in Keys, ReservationExpires(op, k) PROVE GatewayInv'
  <2>1. resv[op][k] \in Reservations
    BY <1>0 DEF TypeOK
  <2>2. PICK r : r = [resv[op][k] EXCEPT !.live = FALSE]
    OBVIOUS
  <2>3. r \in Reservations /\ r.live = FALSE
    BY <2>1, <2>2 DEF Reservations
  <2>4. ~Charged(op, k)
    BY <1>0, <1>5 DEF ReservationExpires, OpInv, Charged
  <2>5. resv' = [resv EXCEPT ![op][k] = r]
    BY <1>5, <2>2 DEF ReservationExpires
  <2>6. UNCHANGED <<call, ledger, intent, lease, activity, provider, effects>>
    BY <1>5 DEF ReservationExpires
  <2>7. QED
    BY <1>4, <2>3, <2>4, <2>5, <2>6
<1>6. ASSUME UNCHANGED <<resv, call, ledger, intent, lease, activity, provider, effects>>
      PROVE  GatewayInv'
  <2>1. \A o \in Op : Untouched(o)
    BY <1>6 DEF Untouched
  <2>2. \A o \in Op : OpInv(o)' /\ Stable(o) /\ effects'[o] = effects[o]
    BY <1>0, <2>1, UntouchedOp DEF Untouched
  <2>3. QED
    BY <1>6, <2>2, QuietStep
<1>7. CASE SweepSettle
  <2>1. PICK op \in Op, k \in Keys : op = sweep.op /\ k = sweep.key
    BY <1>0, <1>7 DEF SweepSettle, TypeOK
  <2>2. PICK s \in ResvStatus : s = (IF sweep.expire THEN "EXPIRED" ELSE "RECONCILED")
    BY DEF ResvStatus
  <2>3. UNCHANGED <<call, ledger, intent, lease, activity, provider, effects>>
    BY <1>7 DEF SweepSettle
  <2>4. \/ resv' = resv
        \/ /\ resv[op][k].status = "RESERVED"
           /\ resv' = [resv EXCEPT ![op][k] = Closed(resv[op][k], s)]
    BY <1>7, <2>1, <2>2 DEF SweepSettle
  <2>5. Closed(resv[op][k], s) \in Reservations
    BY <1>0, ClosedRow DEF TypeOK
  <2>6. Closed(resv[op][k], s).live = FALSE
    BY DEF Closed
  <2>7. CASE resv' = resv
    BY <1>6, <2>3, <2>7
  <2>8. CASE resv[op][k].status = "RESERVED" /\ resv' = [resv EXCEPT ![op][k] = Closed(resv[op][k], s)]
    <3>1. ~Charged(op, k)
      BY <2>8 DEF Charged
    <3>2. PICK r : r = Closed(resv[op][k], s)
      OBVIOUS
    <3>3. QED
      BY <1>4, <2>3, <2>5, <2>6, <2>8, <3>1, <3>2
  <2>9. QED
    BY <2>4, <2>7, <2>8
<1>8. ASSUME NEW op \in Op, NEW k \in Keys, SweepInspect(op, k) PROVE GatewayInv'
  BY <1>6, <1>8 DEF SweepInspect
<1>9. QED
  BY <1>1, <1>2, <1>3, <1>5, <1>7, <1>8

\* GatewayInv is inductive: no interleaving, crash or failing call breaks it.
THEOREM Inductive == Spec => []GatewayInv
<1>1. Init => GatewayInv
  <2> SUFFICES ASSUME Init PROVE GatewayInv
    OBVIOUS
  <2>1. TypeOK
    BY InitTypes
  <2>2. \A op \in Op : OpInv(op)
    BY DEF Init, OpInv, NoIntent, NoResv, Taken, Executed
  <2>3. \A w \in Worker, op \in Op : call[w][op] = Returned("NONE")
    BY DEF Init
  <2>4. \A w \in Worker, op \in Op : CallInv(call[w][op], op)
    BY <2>3, FreshCalls DEF Results
  <2>5. \A op \in Op : OneDispatcher(op)
    BY <2>3 DEF OneDispatcher, Returned
  <2>6. QED
    BY <2>1, <2>2, <2>4, <2>5 DEF GatewayInv
<1>2. GatewayInv /\ [Next]_vars => GatewayInv'
  <2> SUFFICES ASSUME GatewayInv, [Next]_vars PROVE GatewayInv'
    OBVIOUS
  <2>1. TypeOK'
    BY NextTypes DEF GatewayInv
  <2>2. CASE UNCHANGED vars
    BY <2>2 DEF vars, durable, GatewayInv, TypeOK, OpInv, CallInv, OneDispatcher, Opened, Taken,
                Executed, Leased, Charged, Done, KeysOf
  <2>3. ASSUME NEW w \in Worker, NEW op \in Op, Start(w, op) \/ Step(w, op) \/ Misfortune(w, op)
        PROVE  GatewayInv'
    BY <2>1, <2>3, AuthorizationKeeps, BudgetKeeps, ReadersKeep, IntentKeeps, ClaimKeeps,
       DispatchKeeps, ProjectionKeeps, SettleBudgetKeeps, LedgerKeeps
       DEF Start, Step, Misfortune
  <2>4. QED
    BY <2>1, <2>2, <2>3, EnvironmentKeeps DEF Next
<1>3. QED
  BY <1>1, <1>2, PTL DEF Spec

\* The provider mutation of an operation is made at most once, for any number
\* of processes, operations, crashes and failed database calls
\* (claimProviderIntent, recoverAmbiguousOperation).
THEOREM OneEffect == Spec => []AtMostOneEffect
<1>1. GatewayInv => AtMostOneEffect
  BY DEF GatewayInv, OpInv, AtMostOneEffect
<1>2. QED
  BY <1>1, Inductive, PTL

\* A FAKE_EXECUTED row has all its projections, and only such a row is
\* reported as executed (settleExecution).
THEOREM ProjectedTerminals == Spec => []TerminalIsProjected
<1>1. GatewayInv => TerminalIsProjected
  BY DEF GatewayInv, OpInv, CallInv, Done, Executed, Leased, Charged, TerminalIsProjected
<1>2. QED
  BY <1>1, Inductive, PTL

-----------------------------------------------------------------------------
\* Who writes the ledger, and who makes an effect.
LEMMA WritesOfLedger ==
  ASSUME TypeOK, [Next]_vars
  PROVE  \/ UNCHANGED <<ledger, effects>>
         \/ /\ UNCHANGED effects
            /\ \E op \in Op, s \in Stages :
                 /\ ledger' = [ledger EXCEPT ![op] = s]
                 /\ \/ ledger[op] = "NONE" /\ s \in {"AUTHORIZED", "REJECTED"}
                    \/ Settleable(op) /\ s \in {"FAILED", "FAKE_EXECUTED"}
         \/ /\ UNCHANGED ledger
            /\ \E w \in Worker, op \in Op :
                 /\ call[w][op].pc = "dispatch"
                 /\ effects' = [effects EXCEPT ![op] = @ + 1]
<1> USE DEF durable
<1>1. CASE UNCHANGED vars
  BY <1>1 DEF vars
<1>2. ASSUME NEW w \in Worker, NEW op \in Op,
             \/ RejectCall(w, op) \/ AuthorizeCall(w, op) \/ RejectRefused(w, op)
      PROVE  /\ UNCHANGED effects
             /\ \/ UNCHANGED ledger
                \/ \E s \in Stages :
                     /\ ledger' = [ledger EXCEPT ![op] = s]
                     /\ ledger[op] = "NONE" /\ s \in {"AUTHORIZED", "REJECTED"}
  <2>1. CASE ledger[op] = "NONE"
    BY <1>2, <2>1 DEF RejectCall, AuthorizeCall, RejectRefused, RejectRow, Stages
  <2>2. CASE ledger[op] # "NONE"
    <3>1. ledger' = [ledger EXCEPT ![op] = ledger[op]]
      BY <1>2, <2>2 DEF RejectCall, AuthorizeCall, RejectRefused, RejectRow
    <3>2. QED
      BY <1>2, <3>1 DEF TypeOK, RejectCall, AuthorizeCall, RejectRefused
  <2>3. QED
    BY <2>1, <2>2
<1>3. ASSUME NEW w \in Worker, NEW op \in Op, SettleLedger(w, op) \/ FailLedger(w, op)
      PROVE  /\ UNCHANGED effects
             /\ \/ UNCHANGED ledger
                \/ \E s \in Stages :
                     /\ ledger' = [ledger EXCEPT ![op] = s]
                     /\ Settleable(op) /\ s \in {"FAILED", "FAKE_EXECUTED"}
  <2>1. CASE Settleable(op)
    BY <1>3, <2>1 DEF SettleLedger, FailLedger, SettledStage, Stages
  <2>2. CASE ~Settleable(op)
    <3>1. ledger' = [ledger EXCEPT ![op] = ledger[op]]
      BY <1>3, <2>2 DEF SettleLedger, FailLedger
    <3>2. QED
      BY <1>3, <3>1 DEF TypeOK, SettleLedger, FailLedger
  <2>3. QED
    BY <2>1, <2>2
<1>4. ASSUME NEW w \in Worker, NEW op \in Op, Dispatch(w, op) \/ DispatchThrows(w, op)
      PROVE  /\ UNCHANGED ledger
             /\ \/ UNCHANGED effects
                \/ /\ call[w][op].pc = "dispatch"
                   /\ effects' = [effects EXCEPT ![op] = @ + 1]
  BY <1>4 DEF Dispatch, DispatchThrows, Mutate, Running
<1>5. ASSUME NEW w \in Worker, NEW op \in Op,
             \/ ReserveToolBudget(w, op) \/ ReserveUsdBudget(w, op)
             \/ RefuseToolBudget(w, op) \/ RefuseUsdBudget(w, op) \/ ReservationCollides(w, op)
             \/ ReleaseToolBudgets(w, op) \/ ReleaseAmbiguousBudget(w, op)
             \/ Recover(w, op) \/ CheckHeldReservation(w, op) \/ CreateIntent(w, op)
             \/ ClaimIntent(w, op) \/ MarkFailed(w, op)
             \/ SettleIntent(w, op) \/ IntentClaimLost(w, op) \/ EnsureLeasePersisted(w, op)
             \/ SettleBudget(w, op) \/ RecordActivity(w, op)
             \/ BoundaryFails(w, op) \/ LedgerUnwritten(w, op) \/ DatabaseThrows(w, op)
      PROVE  UNCHANGED <<ledger, effects>>
  BY <1>5 DEF ReserveToolBudget, ReserveUsdBudget, RefuseToolBudget, RefuseUsdBudget,
              ReservationCollides, ReleaseToolBudgets, ReleaseBudget, ReleaseAmbiguousBudget,
              ReleaseAmbiguousReservation, Recover, CheckHeldReservation,
              CreateIntent, ClaimIntent, MarkFailed, SettleIntent, IntentClaimLost,
              EnsureLeasePersisted, SettleBudget, ConsumeBudget, AcceptReservation,
              ReconcileReservation, RecordActivity,
              BoundaryFails, LedgerUnwritten, DatabaseThrows
<1>6. ASSUME \/ \E w \in Worker : Crash(w) \/ \E op \in Op : ProviderRemoves(w, op)
             \/ \E op \in Op : ClaimExpires(op)
             \/ \E op \in Op, k \in Keys : ReservationExpires(op, k) \/ SweepInspect(op, k)
             \/ SweepSettle
      PROVE  UNCHANGED <<ledger, effects>>
  BY <1>6 DEF Crash, ProviderRemoves, ClaimExpires, ReservationExpires, SweepInspect, SweepSettle
<1>7. QED
  BY <1>1, <1>2, <1>3, <1>4, <1>5, <1>6 DEF Next, Start, Step, Misfortune

\* What a step of the gateway is to ToolOperation.
LEMMA StepRefines ==
  ASSUME GatewayInv, GatewayInv', [Next]_vars
  PROVE  [Promise!Next]_(Promise!operationVars)
<1> DEFINE phase == [op \in Op |-> PhaseOf(ledger[op])]
<1>0. TypeOK /\ \A op \in Op : OpInv(op) /\ OpInv(op)'
  BY DEF GatewayInv
<1>1. CASE UNCHANGED <<ledger, effects>>
  BY <1>1 DEF Promise!operationVars, PhaseOf
<1>2. ASSUME UNCHANGED effects, NEW op \in Op, NEW s \in Stages,
             ledger' = [ledger EXCEPT ![op] = s],
             \/ ledger[op] = "NONE" /\ s \in {"AUTHORIZED", "REJECTED"}
             \/ Settleable(op) /\ s \in {"FAILED", "FAKE_EXECUTED"}
      PROVE  [Promise!Next]_(Promise!operationVars)
  <2>1. phase' = [phase EXCEPT ![op] = PhaseOf(s)]
    BY <1>0, <1>2 DEF PhaseOf, TypeOK
  <2>2. phase[op] = "OPEN"
    BY <1>2 DEF PhaseOf, Settleable
  <2>3. CASE s \in {"AUTHORIZED", "FAILED"}
    <3>1. phase' = phase
      BY <2>1, <2>2, <2>3 DEF PhaseOf
    <3>2. QED
      BY <1>2, <3>1 DEF Promise!operationVars
  <2>4. CASE s = "REJECTED"
    <3>1. effects[op] = 0
      BY <1>0, <1>2, <2>4 DEF OpInv, Opened, Taken
    <3>2. Promise!Reject(op)
      BY <1>2, <2>1, <2>2, <2>4, <3>1 DEF Promise!Reject, PhaseOf
    <3>3. QED
      BY <3>2 DEF Promise!Next
  <2>5. CASE s = "FAKE_EXECUTED"
    <3>1. ledger'[op] = "FAKE_EXECUTED"
      BY <1>0, <1>2, <2>5 DEF TypeOK
    <3>2. effects[op] = 1
      BY <1>0, <1>2, <3>1 DEF OpInv, Done
    <3>3. Promise!Complete(op)
      BY <1>2, <2>1, <2>2, <2>5, <3>2 DEF Promise!Complete, PhaseOf
    <3>4. QED
      BY <3>3 DEF Promise!Next
  <2>6. QED
    BY <1>2, <2>3, <2>4, <2>5
<1>3. ASSUME UNCHANGED ledger, NEW w \in Worker, NEW op \in Op,
             call[w][op].pc = "dispatch", effects' = [effects EXCEPT ![op] = @ + 1]
      PROVE  [Promise!Next]_(Promise!operationVars)
  <2>1. Opened(op) /\ effects[op] = 0
    BY <1>3 DEF GatewayInv, CallInv
  <2>2. ledger[op] \in {"AUTHORIZED", "FAILED"}
    BY <1>0, <2>1 DEF OpInv, Done, Opened, TypeOK, Stages
  <2>3. phase[op] = "OPEN" /\ phase' = phase
    BY <1>3, <2>2 DEF PhaseOf
  <2>4. effects' = [effects EXCEPT ![op] = 1]
    BY <1>3, <2>1
  <2>5. Promise!TakeEffect(op)
    BY <2>1, <2>3, <2>4 DEF Promise!TakeEffect
  <2>6. QED
    BY <2>5 DEF Promise!Next
<1>4. QED
  BY <1>0, <1>1, <1>2, <1>3, WritesOfLedger

\* The gateway implements ToolOperation.
THEOREM RefinesOperation == Spec => ImplementsOperation
<1>1. Init => Promise!Init
  BY DEF Init, Promise!Init, PhaseOf
<1>2. GatewayInv /\ GatewayInv' /\ [Next]_vars => [Promise!Next]_(Promise!operationVars)
  BY StepRefines
<1>3. QED
  BY <1>1, <1>2, Inductive, PTL DEF Spec, Promise!Spec, ImplementsOperation

-----------------------------------------------------------------------------
\* An intent changes only while it is undecided.
LEMMA WritesOfIntent ==
  ASSUME GatewayInv, [Next]_vars
  PROVE  \/ UNCHANGED intent
         \/ \E op \in Op : /\ intent[op].status \in {"NONE", "PENDING", "CLAIMED"}
                           /\ \A o \in Op \ {op} : intent'[o] = intent[o]
<1> USE DEF durable
<1>0. TypeOK /\ \A op \in Op : OpInv(op)
  BY DEF GatewayInv
<1>1. CASE UNCHANGED vars
  BY <1>1 DEF vars
<1>2. ASSUME NEW w \in Worker, NEW op \in Op, CreateIntent(w, op)
      PROVE  \/ intent[op].status = "NONE" /\ \A o \in Op \ {op} : intent'[o] = intent[o]
             \/ UNCHANGED intent
  <2>1. intent' = intent \/ intent[op].status = "NONE"
    <3>1. CASE intent[op].status # "NONE"
      <4>1. intent' = [intent EXCEPT ![op] = intent[op]]
        BY <1>2, <3>1 DEF CreateIntent
      <4>2. QED
        BY <1>0, <4>1 DEF TypeOK
    <3>2. QED
      BY <3>1
  <2>2. QED
    BY <1>0, <1>2, <2>1 DEF CreateIntent, TypeOK
<1>3. ASSUME NEW w \in Worker, NEW op \in Op, ClaimIntent(w, op)
      PROVE  \/ intent[op].status = "PENDING" /\ \A o \in Op \ {op} : intent'[o] = intent[o]
             \/ UNCHANGED intent
  BY <1>0, <1>3 DEF ClaimIntent, ClaimTaken, MayClaim, TypeOK
<1>4. ASSUME NEW w \in Worker, NEW op \in Op, MarkFailed(w, op) \/ SettleIntent(w, op)
      PROVE  \/ /\ intent[op].status \in {"PENDING", "CLAIMED"}
                /\ \A o \in Op \ {op} : intent'[o] = intent[o]
             \/ UNCHANGED intent
  BY <1>0, <1>4, FencedUndecided DEF MarkFailed, SettleIntent, TypeOK
<1>5. ASSUME NEW op \in Op, ClaimExpires(op)
      PROVE  intent[op].status = "CLAIMED" /\ \A o \in Op \ {op} : intent'[o] = intent[o]
  BY <1>0, <1>5 DEF ClaimExpires, OpInv, TypeOK
<1>6. ASSUME NEW w \in Worker, NEW op \in Op,
             \/ RejectCall(w, op) \/ AuthorizeCall(w, op) \/ RejectRefused(w, op)
             \/ ReserveToolBudget(w, op) \/ ReserveUsdBudget(w, op)
             \/ RefuseToolBudget(w, op) \/ RefuseUsdBudget(w, op) \/ ReservationCollides(w, op)
             \/ ReleaseToolBudgets(w, op) \/ ReleaseAmbiguousBudget(w, op)
             \/ Recover(w, op) \/ CheckHeldReservation(w, op)
             \/ Dispatch(w, op) \/ DispatchThrows(w, op)
             \/ IntentClaimLost(w, op) \/ EnsureLeasePersisted(w, op)
             \/ SettleBudget(w, op) \/ RecordActivity(w, op) \/ BoundaryFails(w, op)
             \/ SettleLedger(w, op) \/ LedgerUnwritten(w, op) \/ FailLedger(w, op)
             \/ DatabaseThrows(w, op)
      PROVE  UNCHANGED intent
  BY <1>6 DEF RejectCall, AuthorizeCall, RejectRefused, ReserveToolBudget, ReserveUsdBudget,
              RefuseToolBudget, RefuseUsdBudget, ReservationCollides, ReleaseToolBudgets,
              ReleaseBudget, ReleaseAmbiguousBudget, ReleaseAmbiguousReservation,
              Recover, CheckHeldReservation, Dispatch, DispatchThrows, IntentClaimLost,
              EnsureLeasePersisted, SettleBudget, ConsumeBudget, AcceptReservation,
              ReconcileReservation, RecordActivity,
              BoundaryFails, SettleLedger, LedgerUnwritten, FailLedger, DatabaseThrows
<1>7. ASSUME \/ \E w \in Worker : Crash(w) \/ \E op \in Op : ProviderRemoves(w, op)
             \/ \E op \in Op, k \in Keys : ReservationExpires(op, k) \/ SweepInspect(op, k)
             \/ SweepSettle
      PROVE  UNCHANGED intent
  BY <1>7 DEF Crash, ProviderRemoves, ReservationExpires, SweepInspect, SweepSettle
<1>8. QED
  BY <1>1, <1>2, <1>3, <1>4, <1>5, <1>6, <1>7 DEF Next, Start, Step, Misfortune

\* A reservation changes only while it is not settled.
ResvWritten(op) ==
  /\ \A o \in Op \ {op} : resv'[o] = resv[o]
  /\ \A k \in Keys : Charged(op, k) => resv'[op][k] = resv[op][k]

\* Writing one reservation that is not settled.
LEMMA OneResvWritten ==
  ASSUME TypeOK, NEW op \in Op, NEW k \in Keys, NEW r,
         resv' = [resv EXCEPT ![op][k] = r], Charged(op, k) => r = resv[op][k]
  PROVE  ResvWritten(op)
<1>1. \A o \in Op \ {op} : resv'[o] = resv[o]
  BY DEF TypeOK
<1>2. \A j \in Keys : resv'[op][j] = IF j = k THEN r ELSE resv[op][j]
  <2>1. resv' = [resv EXCEPT ![op] = [resv[op] EXCEPT ![k] = r]]
    OBVIOUS
  <2>2. resv'[op] = [resv[op] EXCEPT ![k] = r]
    BY <2>1 DEF TypeOK
  <2>3. resv[op] \in [Keys -> Reservations]
    BY DEF TypeOK
  <2>4. QED
    BY <2>2, <2>3
<1>3. QED
  BY <1>1, <1>2 DEF ResvWritten

\* No step touches a settled reservation.
LEMMA WritesOfReservations ==
  ASSUME GatewayInv, [Next]_vars
  PROVE  UNCHANGED resv \/ \E op \in Op : ResvWritten(op)
<1> USE DEF durable
<1>0. /\ TypeOK /\ \A op \in Op : OpInv(op)
      /\ "tool" \in Keys /\ "usd" \in Keys
  BY DEF GatewayInv, Keys
<1>1. CASE UNCHANGED vars
  BY <1>1 DEF vars
<1>2. ASSUME NEW w \in Worker, NEW op \in Op, ReserveToolBudget(w, op) \/ ReserveUsdBudget(w, op)
      PROVE  ResvWritten(op)
  <2>1. PICK k \in Keys : Reserve(w, op, k)
    BY <1>0, <1>2 DEF ReserveToolBudget, ReserveUsdBudget
  <2>2. PICK r : r = IF resv[op][k].status = "NONE"
                     THEN [status |-> "RESERVED", owner |-> w, live |-> TRUE, version |-> 1]
                     ELSE resv[op][k]
    OBVIOUS
  <2>3. resv' = [resv EXCEPT ![op][k] = r]
    BY <2>1, <2>2 DEF Reserve
  <2>4. Charged(op, k) => r = resv[op][k]
    BY <2>2 DEF Charged
  <2>5. QED
    BY <1>0, <2>3, <2>4, OneResvWritten
<1>3. ASSUME NEW op \in Op, NEW k \in Keys, NEW st, resv[op][k].status = "RESERVED",
             resv' = [resv EXCEPT ![op][k] = Closed(resv[op][k], st)]
      PROVE  ResvWritten(op)
  <2>1. PICK r : r = Closed(resv[op][k], st)
    OBVIOUS
  <2>2. QED
    BY <1>0, <1>3, <2>1, OneResvWritten DEF Charged
<1>4. ASSUME NEW w \in Worker, NEW op \in Op,
             ReleaseToolBudgets(w, op) \/ ReleaseAmbiguousBudget(w, op)
      PROVE  UNCHANGED resv \/ ResvWritten(op)
  <2>1. PICK k \in Keys, from \in PlainPC, to \in PlainPC : Releases(w, op, k, from, to)
    BY <1>0, <1>4, ReleaseSteps
  <2>2. QED
    BY <1>3, <2>1 DEF Releases
<1>5. ASSUME NEW w \in Worker, NEW op \in Op, SettleBudget(w, op)
      PROVE  UNCHANGED resv \/ ResvWritten(op)
  <2>1. PICK k \in Keys, q \in FencedPC : Settles(w, op, k, q)
    BY <1>0, <1>5, SettlementSteps
  <2>2. QED
    BY <1>3, <2>1 DEF Settles
<1>6. ASSUME NEW op \in Op, NEW k \in Keys, ReservationExpires(op, k)
      PROVE  ResvWritten(op)
  <2>1. PICK r : r = [resv[op][k] EXCEPT !.live = FALSE]
    OBVIOUS
  <2>2. resv' = [resv EXCEPT ![op][k] = r] /\ ~Charged(op, k)
    BY <1>0, <1>6, <2>1 DEF ReservationExpires, OpInv, Charged
  <2>3. QED
    BY <1>0, <2>2, OneResvWritten
<1>7. CASE SweepSettle
  <2>1. PICK op \in Op, k \in Keys : op = sweep.op /\ k = sweep.key
    BY <1>0, <1>7 DEF SweepSettle, TypeOK
  <2>2. PICK r : r = Closed(resv[op][k], IF sweep.expire THEN "EXPIRED" ELSE "RECONCILED")
    OBVIOUS
  <2>3. UNCHANGED resv \/ (resv' = [resv EXCEPT ![op][k] = r] /\ ~Charged(op, k))
    BY <1>7, <2>1, <2>2 DEF SweepSettle, Charged
  <2>4. QED
    BY <1>0, <2>3, OneResvWritten
<1>8. ASSUME NEW w \in Worker, NEW op \in Op,
             \/ RejectCall(w, op) \/ AuthorizeCall(w, op) \/ RejectRefused(w, op)
             \/ RefuseToolBudget(w, op) \/ RefuseUsdBudget(w, op) \/ ReservationCollides(w, op)
             \/ Recover(w, op) \/ CheckHeldReservation(w, op)
             \/ CreateIntent(w, op) \/ ClaimIntent(w, op) \/ MarkFailed(w, op)
             \/ Dispatch(w, op) \/ DispatchThrows(w, op) \/ SettleIntent(w, op)
             \/ IntentClaimLost(w, op) \/ EnsureLeasePersisted(w, op)
             \/ RecordActivity(w, op) \/ BoundaryFails(w, op)
             \/ SettleLedger(w, op) \/ LedgerUnwritten(w, op) \/ FailLedger(w, op)
             \/ DatabaseThrows(w, op)
      PROVE  UNCHANGED resv
  BY <1>8 DEF RejectCall, AuthorizeCall, RejectRefused, RefuseToolBudget, RefuseUsdBudget,
              ReservationCollides, Recover,
              CheckHeldReservation, CreateIntent, ClaimIntent, MarkFailed, Dispatch,
              DispatchThrows, SettleIntent, IntentClaimLost, EnsureLeasePersisted,
              RecordActivity, BoundaryFails, SettleLedger, LedgerUnwritten, FailLedger,
              DatabaseThrows
<1>9. ASSUME \/ \E w \in Worker : Crash(w) \/ \E op \in Op : ProviderRemoves(w, op)
             \/ \E op \in Op : ClaimExpires(op)
             \/ \E op \in Op, k \in Keys : SweepInspect(op, k)
      PROVE  UNCHANGED resv
  BY <1>9 DEF Crash, ProviderRemoves, ClaimExpires, SweepInspect
<1>10. QED
  BY <1>1, <1>2, <1>4, <1>5, <1>6, <1>7, <1>8, <1>9 DEF Next, Start, Step, Misfortune

\* Rows, intents and reservations that are settled stay as they are, whoever
\* repairs the operation meanwhile (the fences of the repositories).
THEOREM FinalOutcomes == Spec => OutcomesAreFinal
<1> DEFINE Final(op) ==
      /\ ledger[op] \in {"REJECTED", "FAKE_EXECUTED"} => ledger'[op] = ledger[op]
      /\ intent[op].status \in {"EXECUTED", "FAILED"} => intent'[op] = intent[op]
      /\ \A k \in Keys : resv[op][k].status \notin {"NONE", "RESERVED"} =>
                           resv'[op][k] = resv[op][k]
<1>1. ASSUME GatewayInv, [Next]_vars, NEW op \in Op PROVE Final(op)
  <2>1. ledger[op] \in {"REJECTED", "FAKE_EXECUTED"} => ledger'[op] = ledger[op]
    <3>1. TypeOK
      BY <1>1 DEF GatewayInv
    <3>2. QED
      BY <1>1, <3>1, WritesOfLedger DEF TypeOK, Settleable
  <2>2. intent[op].status \in {"EXECUTED", "FAILED"} => intent'[op] = intent[op]
    BY <1>1, WritesOfIntent
  <2>3. \A k \in Keys : resv[op][k].status \notin {"NONE", "RESERVED"} =>
                          resv'[op][k] = resv[op][k]
    BY <1>1, WritesOfReservations DEF ResvWritten, Charged
  <2>4. QED
    BY <2>1, <2>2, <2>3
<1>2. GatewayInv /\ [Next]_vars => [\A op \in Op : Final(op)]_vars
  BY <1>1
<1>3. QED
  BY <1>2, Inductive, PTL DEF Spec, OutcomesAreFinal

-----------------------------------------------------------------------------
(***************************************************************************)
(* Spend.  The tool reservation of an operation belongs to one process, so *)
(* that process alone comes to claim the intent; when it gives the         *)
(* reservation back before that, nobody is left who could.  A claim that   *)
(* has expired has outlived the reservation, which a retry of the owner    *)
(* then is refused.                                                        *)
(***************************************************************************)
\* Where a call has been granted the tool budget, and is on its way to claim the intent
\* or to give the reservation back.
Paying == {"reserveUsd", "createIntent", "claimIntent", "releaseRefused"}

Unclaimed(op) == intent[op].status \in {"NONE", "PENDING"}

\* The tool reservation belongs to the first process that made it, for ever.
OwnsTool(w, op) == resv[op]["tool"].status # "NONE" /\ resv[op]["tool"].owner = w

SpendOp(op) ==
  /\ intent[op].status # "NONE" => resv[op]["tool"].status # "NONE"
  /\ intent[op].status = "CLAIMED" /\ ~intent[op].live => ~resv[op]["tool"].live
  /\ \A k \in Keys : resv[op][k].status = "RELEASED" =>
       \/ intent[op].status = "FAILED"
       \/ k = "tool" /\ Unclaimed(op) /\ \A w \in Worker : call[w][op].pc \notin Paying

SpendCall(w, op, pc) ==
  /\ pc \in Paying \cup {"dispatch", "markFailed"} => OwnsTool(w, op)
  /\ pc \in Paying => Unclaimed(op)
  /\ pc = "claimIntent" => intent[op].status = "PENDING"
  /\ pc \in {"checkHeld", "reserveTool"} /\ OwnsTool(w, op) /\ resv[op]["tool"].live => Unclaimed(op)
  /\ pc = "dispatch" => intent[op].status = "CLAIMED"
  /\ pc = "markFailed" => Taken(op)
  /\ pc \in FailedPC => intent[op].status = "FAILED"

SpendInv == \A op \in Op : SpendOp(op) /\ \A w \in Worker : SpendCall(w, op, call[w][op].pc)

\* Steps that move no reservation and no intent, by a call that promises nothing new.
LEMMA SpendKept ==
  ASSUME TypeOK, SpendInv, UNCHANGED <<intent, resv>>, NEW w \in Worker, NEW op \in Op,
         NEW c \in Calls, Go(w, op, c), SpendCall(w, op, c.pc),
         c.pc \in Paying => call[w][op].pc \in Paying
  PROVE  SpendInv'
<1>1. \A v \in Worker, o \in Op : call'[v][o] = IF v = w /\ o = op THEN c ELSE call[v][o]
  BY GoEffect DEF TypeOK
<1>2. ASSUME NEW o \in Op PROVE SpendOp(o)'
  <2>1. SpendOp(o)
    BY DEF SpendInv
  <2>2. \A v \in Worker : call'[v][o].pc \in Paying => call[v][o].pc \in Paying
    BY <1>1
  <2>3. QED
    BY <2>1, <2>2 DEF SpendOp, Unclaimed
<1>3. ASSUME NEW v \in Worker, NEW o \in Op PROVE SpendCall(v, o, call[v][o].pc)'
  <2>1. PICK p : p = call'[v][o].pc
    OBVIOUS
  <2>2. SpendCall(v, o, p)
    BY <1>1, <2>1 DEF SpendInv
  <2>3. SpendCall(v, o, p)'
    BY <2>2 DEF SpendCall, OwnsTool, Unclaimed, Taken
  <2>4. QED
    BY <2>1, <2>3 DEF SpendCall
<1>4. QED
  BY <1>2, <1>3 DEF SpendInv

\* Reservations of op are closed or expire: only a FAILED intent has them released.
Closing(op) ==
  /\ \A o \in Op \ {op} : resv'[o] = resv[o]
  /\ \A k \in Keys :
       \/ resv'[op][k] = resv[op][k]
       \/ /\ resv[op][k].status # "NONE" /\ resv'[op][k].status # "NONE"
          /\ resv'[op][k].owner = resv[op][k].owner
          /\ resv'[op][k].live = FALSE
          /\ resv'[op][k].status = "RELEASED" => intent[op].status = "FAILED"

LEMMA ClosingKeeps ==
  ASSUME TypeOK, SpendInv, UNCHANGED intent, NEW op \in Op, Closing(op),
         \A v \in Worker, o \in Op :
           /\ call'[v][o].pc \in Paying => call[v][o].pc \in Paying
           /\ SpendCall(v, o, call'[v][o].pc)
  PROVE  SpendInv'
<1>0. "tool" \in Keys
  BY DEF Keys
<1>1. ASSUME NEW o \in Op PROVE SpendOp(o)'
  <2>1. SpendOp(o)
    BY DEF SpendInv
  <2>2. CASE o # op
    <3>1. resv'[o] = resv[o]
      BY <2>2 DEF Closing
    <3>2. QED
      BY <2>1, <3>1 DEF SpendOp, Unclaimed
  <2>3. CASE o = op
    BY <1>0, <2>1, <2>3 DEF SpendOp, Unclaimed, Closing
  <2>4. QED
    BY <2>2, <2>3
<1>2. ASSUME NEW v \in Worker, NEW o \in Op PROVE SpendCall(v, o, call[v][o].pc)'
  <2>1. PICK p : p = call'[v][o].pc
    OBVIOUS
  <2>2. SpendCall(v, o, p)
    BY <2>1
  <2>3. OwnsTool(v, o)' <=> OwnsTool(v, o)
    BY <1>0 DEF OwnsTool, Closing
  <2>4. resv'[o]["tool"].live => resv[o]["tool"].live
    BY <1>0 DEF Closing
  <2>5. SpendCall(v, o, p)'
    BY <2>2, <2>3, <2>4 DEF SpendCall, Unclaimed, Taken
  <2>6. QED
    BY <2>1, <2>5 DEF SpendCall
<1>3. QED
  BY <1>1, <1>2 DEF SpendInv

\* One open reservation is closed, or none is.
LEMMA ClosingStep ==
  ASSUME TypeOK, NEW op \in Op, NEW k \in Keys,
         \/ resv' = resv
         \/ /\ resv[op][k].status = "RESERVED"
            /\ \E s \in {"CONSUMED", "RECONCILED", "RELEASED"} :
                 /\ resv' = [resv EXCEPT ![op][k] = Closed(resv[op][k], s)]
                 /\ s = "RELEASED" => intent[op].status = "FAILED"
  PROVE  Closing(op)
<1>1. CASE resv' = resv
  BY <1>1 DEF Closing
<1>2. CASE resv' # resv
  <2>1. PICK s \in {"CONSUMED", "RECONCILED", "RELEASED"} :
          /\ resv' = [resv EXCEPT ![op][k] = Closed(resv[op][k], s)]
          /\ s = "RELEASED" => intent[op].status = "FAILED"
    BY <1>2
  <2>2. resv \in [Op -> [Keys -> Reservations]] /\ resv[op][k] \in Reservations
    BY DEF TypeOK
  <2>3. PICK r \in Reservations : r = Closed(resv[op][k], s)
    BY <2>2, ClosedRow DEF ResvStatus
  <2>4. r.status = s /\ r.owner = resv[op][k].owner /\ r.live = FALSE
    BY <2>3 DEF Closed
  <2>a. resv' = [resv EXCEPT ![op][k] = r]
    BY <2>1, <2>3
  <2>5. \A o \in Op, j \in Keys : resv'[o][j] = IF o = op /\ j = k THEN r ELSE resv[o][j]
    BY <2>2, <2>a, Cell
  <2>6. \A o \in Op \ {op} : resv'[o] = resv[o]
    BY <2>2, <2>a
  <2>7. resv[op][k].status = "RESERVED"
    BY <1>2
  <2>8. QED
    BY <2>1, <2>4, <2>5, <2>6, <2>7 DEF Closing
<1>3. QED
  BY <1>1, <1>2

\* Any other step of one call: what it has to show is about that operation alone.
LEMMA SpendStep ==
  ASSUME TypeOK, SpendInv, NEW w \in Worker, NEW op \in Op, NEW c \in Calls, Go(w, op, c),
         \A o \in Op \ {op} : intent'[o] = intent[o] /\ resv'[o] = resv[o],
         SpendOp(op)', SpendCall(w, op, c.pc)',
         \A v \in Worker \ {w}, p \in PlainPC \cup FencedPC :
           SpendCall(v, op, p) /\ p = call[v][op].pc => SpendCall(v, op, p)'
  PROVE  SpendInv'
<1>1. \A v \in Worker, o \in Op : call'[v][o] = IF v = w /\ o = op THEN c ELSE call[v][o]
  BY GoEffect DEF TypeOK
<1>2. ASSUME NEW o \in Op \ {op} PROVE SpendOp(o)'
  <2>1. SpendOp(o)
    BY DEF SpendInv
  <2>2. \A v \in Worker : call'[v][o].pc \in Paying => call[v][o].pc \in Paying
    BY <1>1
  <2>3. QED
    BY <2>1, <2>2 DEF SpendOp, Unclaimed
<1>3. ASSUME NEW v \in Worker, NEW o \in Op PROVE SpendCall(v, o, call[v][o].pc)'
  <2>1. PICK p \in PlainPC \cup FencedPC : p = call'[v][o].pc
    <3>1. call'[v][o] \in Calls
      BY <1>1 DEF TypeOK
    <3>2. QED
      BY <3>1 DEF Calls
  <2>2. CASE v = w /\ o = op
    <3>1. p = c.pc
      BY <1>1, <2>1, <2>2
    <3>2. QED
      BY <2>1, <2>2, <3>1 DEF SpendCall
  <2>3. CASE o = op /\ v # w
    <3>1. p = call[v][op].pc /\ SpendCall(v, op, p)
      BY <1>1, <2>1, <2>3 DEF SpendInv
    <3>2. SpendCall(v, o, p)'
      BY <2>3, <3>1
    <3>3. QED
      BY <2>1, <3>2 DEF SpendCall
  <2>4. CASE o # op
    <3>1. p = call[v][o].pc /\ SpendCall(v, o, p)
      BY <1>1, <2>1, <2>4 DEF SpendInv
    <3>2. SpendCall(v, o, p)'
      BY <2>4, <3>1 DEF SpendCall, OwnsTool, Unclaimed, Taken
    <3>3. QED
      BY <2>1, <3>2 DEF SpendCall
  <2>5. QED
    BY <2>2, <2>3, <2>4
<1>4. QED
  BY <1>2, <1>3 DEF SpendInv

\* Where a call has nothing to say about the money.
Calm == {"idle", "recover", "reject", "failLedger"} \cup SettlePC

LEMMA CalmCalls ==
  ASSUME NEW w \in Worker, NEW op \in Op
  PROVE  \A p \in Calm : SpendCall(w, op, p) /\ p \notin Paying
BY DEF Calm, SettlePC, SettlingPC, SpendCall, Paying, FailedPC

\* The steps that neither reserve nor claim.
LEMMA CalmSteps ==
  ASSUME GatewayInv, SpendInv, NEW w \in Worker, NEW op \in Op,
         \/ RejectCall(w, op) \/ RejectRefused(w, op) \/ RefuseToolBudget(w, op)
         \/ ReservationCollides(w, op)
         \/ Dispatch(w, op) \/ IntentClaimLost(w, op) \/ EnsureLeasePersisted(w, op)
         \/ RecordActivity(w, op) \/ BoundaryFails(w, op) \/ SettleLedger(w, op)
         \/ LedgerUnwritten(w, op) \/ FailLedger(w, op) \/ DatabaseThrows(w, op)
  PROVE  SpendInv'
<1> USE DEF durable
<1>0. TypeOK /\ call[w][op] \in Calls
  BY DEF GatewayInv, TypeOK
<1>1. UNCHANGED <<intent, resv>>
  BY DEF RejectCall, RejectRefused, RefuseToolBudget, ReservationCollides, Dispatch, IntentClaimLost,
         EnsureLeasePersisted, RecordActivity, BoundaryFails, SettleLedger, LedgerUnwritten,
         FailLedger, DatabaseThrows
<1>2. CASE RejectCall(w, op) \/ RejectRefused(w, op) \/ SettleLedger(w, op) \/ LedgerUnwritten(w, op)
           \/ FailLedger(w, op) \/ DatabaseThrows(w, op) \/ ReservationCollides(w, op)
  <2>1. PICK r \in Results : Go(w, op, Returned(r))
    BY <1>2 DEF RejectCall, RejectRefused, RejectOutcome, SettleLedger, LedgerUnwritten,
                FailLedger, DatabaseThrows, ReservationCollides, Results
  <2>2. Returned(r) \in Calls /\ Returned(r).pc \in Calm
    BY CallRecords DEF Returned, Calm
  <2>3. QED
    BY <1>0, <1>1, <2>1, <2>2, CalmCalls, SpendKept
<1>3. CASE RefuseToolBudget(w, op)
  <2>1. Go(w, op, At("reject"))
    BY <1>3 DEF RefuseToolBudget
  <2>2. At("reject") \in Calls /\ At("reject").pc \in Calm
    BY CallRecords DEF At, Calm, PlainPC
  <2>3. QED
    BY <1>0, <1>1, <2>1, <2>2, CalmCalls, SpendKept
<1>4. CASE Dispatch(w, op) \/ IntentClaimLost(w, op) \/ EnsureLeasePersisted(w, op)
           \/ RecordActivity(w, op) \/ BoundaryFails(w, op)
  <2>1. PICK p \in SettlePC :
          \/ Go(w, op, [call[w][op] EXCEPT !.pc = p])
          \/ Go(w, op, [call[w][op] EXCEPT !.pc = p, !.failed = TRUE])
    BY <1>4 DEF Dispatch, IntentClaimLost, EnsureLeasePersisted, RecordActivity, BoundaryFails,
                Advance, FailOn, SettlePC, SettlingPC
  <2>2. PICK c \in {[call[w][op] EXCEPT !.pc = p],
                    [call[w][op] EXCEPT !.pc = p, !.failed = TRUE]} : Go(w, op, c)
    BY <2>1
  <2>3. c \in Calls
    BY <1>0, <2>2, Moves DEF SettlePC, SettlingPC, FencedPC
  <2>4. c.pc \in Calm
    BY <1>0, <2>2 DEF Calls, Calm
  <2>5. QED
    BY <1>0, <1>1, <2>2, <2>3, <2>4, CalmCalls, SpendKept
<1>5. QED
  BY <1>2, <1>3, <1>4

\* What a retry decides by reading: an expired claim has outlived the reservation.
LEMMA DecidingSteps ==
  ASSUME GatewayInv, SpendInv, NEW w \in Worker, NEW op \in Op,
         AuthorizeCall(w, op) \/ Recover(w, op) \/ CheckHeldReservation(w, op) \/ DispatchThrows(w, op)
  PROVE  SpendInv'
<1> USE DEF durable
<1>0. /\ TypeOK /\ call[w][op] \in Calls /\ intent[op].status \in IntentStatus
      /\ ledger[op] \in Stages /\ OpInv(op)
      /\ SpendOp(op) /\ SpendCall(w, op, call[w][op].pc)
  BY DEF GatewayInv, TypeOK, IntentRows, SpendInv
<1>1. UNCHANGED <<intent, resv>>
  BY DEF AuthorizeCall, Recover, CheckHeldReservation, DispatchThrows
<1>2. CASE AuthorizeCall(w, op)
  <2>1. PICK c : Go(w, op, c) /\ \/ c = At("reserveTool") /\ ledger[op] = "NONE"
                                 \/ c \in {At("recover"), Returned("EXECUTED"), Returned("REPLAY_COLLISION")}
    BY <1>0, <1>2 DEF AuthorizeCall, Settleable, Stages
  <2>2. c \in Calls
    BY <2>1, CallRecords DEF PlainPC, Results
  <2>3. c.pc \in Calm \/ (c.pc = "reserveTool" /\ ledger[op] = "NONE")
    BY <2>1 DEF At, Returned, Calm
  <2>4. ledger[op] = "NONE" => Unclaimed(op)
    BY <1>0 DEF OpInv, Opened, Unclaimed
  <2>5. SpendCall(w, op, c.pc) /\ c.pc \notin Paying
    BY <2>3, <2>4, CalmCalls DEF SpendCall, FailedPC, Paying
  <2>6. QED
    BY <1>0, <1>1, <2>1, <2>2, <2>5, SpendKept
<1>3. CASE Recover(w, op)
  <2>1. PICK c : c = AfterRecovery(w, op)
    OBVIOUS
  <2>2. \/ c = At("reserveTool") /\ intent[op].status = "NONE"
        \/ c \in {At("ambiguousBoth"), At("ambiguousTool")} /\ intent[op].status = "FAILED"
        \/ c = At("checkHeld") /\ intent[op].status \in {"PENDING", "CLAIMED"} /\ ~intent[op].live
        \/ c \in {Returned("AMBIGUOUS"), AlreadyExecuted, Reconciled(w, op)}
    BY <1>0, <2>1 DEF AfterRecovery, IntentStatus
  <2>3. c \in Calls
    BY <1>0, <2>2, CallRecords DEF PlainPC, Results
  <2>4. \/ c.pc = "reserveTool" /\ intent[op].status = "NONE"
        \/ c.pc \in {"ambiguousBoth", "ambiguousTool"} /\ intent[op].status = "FAILED"
        \/ c.pc = "checkHeld" /\ intent[op].status \in {"PENDING", "CLAIMED"} /\ ~intent[op].live
        \/ c.pc \in Calm
    BY <2>2 DEF At, Returned, AlreadyExecuted, Reconciled, Settling, Calm, SettlePC, SettlingPC
  <2>5. SpendCall(w, op, c.pc) /\ c.pc \notin Paying
    <3>1. CASE c.pc = "reserveTool" /\ intent[op].status = "NONE"
      BY <3>1 DEF SpendCall, FailedPC, Unclaimed, Paying
    <3>2. CASE c.pc \in {"ambiguousBoth", "ambiguousTool"} /\ intent[op].status = "FAILED"
      BY <3>2 DEF SpendCall, Paying, FailedPC
    <3>3. CASE c.pc = "checkHeld" /\ intent[op].status \in {"PENDING", "CLAIMED"} /\ ~intent[op].live
      BY <1>0, <3>3 DEF SpendCall, FailedPC, SpendOp, Unclaimed, Paying
    <3>4. CASE c.pc \in Calm
      BY <3>4, CalmCalls
    <3>5. QED
      BY <2>4, <3>1, <3>2, <3>3, <3>4
  <2>6. Go(w, op, c)
    BY <1>3, <2>1 DEF Recover
  <2>7. QED
    BY <1>0, <1>1, <2>3, <2>5, <2>6, SpendKept
<1>4. CASE CheckHeldReservation(w, op)
  <2>1. PICK c \in {Returned("AMBIGUOUS"), At("reserveTool")} : Go(w, op, c)
    BY <1>4 DEF CheckHeldReservation
  <2>2. c \in Calls
    BY <2>1, CallRecords DEF PlainPC, Results
  <2>3. c.pc \in {"idle", "reserveTool"}
    BY <2>1 DEF At, Returned
  <2>4. call[w][op].pc = "checkHeld"
    BY <1>4 DEF CheckHeldReservation, Running
  <2>5. SpendCall(w, op, c.pc) /\ c.pc \notin Paying
    BY <1>0, <2>3, <2>4 DEF SpendCall, FailedPC, Paying
  <2>6. QED
    BY <1>0, <1>1, <2>1, <2>2, <2>5, SpendKept
<1>5. CASE DispatchThrows(w, op)
  <2>1. PICK c : c = [call[w][op] EXCEPT !.pc = "markFailed"]
    OBVIOUS
  <2>2. c \in Calls
    BY <1>0, <2>1, Moves DEF FencedPC
  <2>3. c.pc = "markFailed" /\ call[w][op].pc = "dispatch" /\ Go(w, op, c)
    BY <1>0, <1>5, <2>1 DEF DispatchThrows, Running, Calls
  <2>4. SpendCall(w, op, c.pc) /\ c.pc \notin Paying
    BY <1>0, <2>3 DEF SpendCall, FailedPC, Taken, Paying, OwnsTool
  <2>5. QED
    BY <1>0, <1>1, <2>2, <2>3, <2>4, SpendKept
<1>6. QED
  BY <1>2, <1>3, <1>4, <1>5

\* Granting: a new tool reservation finds no intent, a held one finds it unclaimed.
LEMMA ReservingSteps ==
  ASSUME GatewayInv, TypeOK', SpendInv, NEW w \in Worker, NEW op \in Op,
         ReserveToolBudget(w, op) \/ ReserveUsdBudget(w, op)
  PROVE  SpendInv'
<1>0. /\ TypeOK /\ OpInv(op) /\ "tool" \in Keys /\ "usd" \in Keys
      /\ SpendOp(op) /\ SpendCall(w, op, call[w][op].pc)
      /\ \A v \in Worker : SpendCall(v, op, call[v][op].pc)
  BY DEF GatewayInv, SpendInv, Keys
<1> DEFINE new == [status |-> "RESERVED", owner |-> w, live |-> TRUE, version |-> 1]
<1>1. PICK k \in Keys : /\ Reserve(w, op, k) /\ Granted(w, resv[op][k])
                        /\ k = "tool" => call[w][op].pc = "reserveTool"
                        /\ k = "usd" => call[w][op].pc = "reserveUsd"
  BY <1>0 DEF ReserveToolBudget, ReserveUsdBudget, Running
<1>2. PICK r : r = IF resv[op][k].status = "NONE" THEN new ELSE resv[op][k]
  OBVIOUS
<1>3. r \in Reservations /\ resv' = [resv EXCEPT ![op][k] = r]
  <2>1. resv[op][k] \in Reservations
    BY <1>0 DEF TypeOK
  <2>2. QED
    BY <1>1, <1>2, <2>1, ResvRows DEF Reserve
<1>4. \A o \in Op, j \in Keys : resv'[o][j] = IF o = op /\ j = k THEN r ELSE resv[o][j]
  <2>1. resv \in [Op -> [Keys -> Reservations]]
    BY <1>0 DEF TypeOK
  <2>2. /\ \A o \in Op, j \in Keys :
             [resv EXCEPT ![op][k] = r][o][j] = IF o = op /\ j = k THEN r ELSE resv[o][j]
    BY <1>3, <2>1, Cell
  <2>3. QED
    BY <1>3, <2>2
<1>5. \A o \in Op \ {op} : intent'[o] = intent[o] /\ resv'[o] = resv[o]
  BY <1>0, <1>3 DEF ReserveToolBudget, ReserveUsdBudget, TypeOK
<1>6. intent' = intent
  BY DEF ReserveToolBudget, ReserveUsdBudget
<1>7. PICK p \in {"reserveUsd", "createIntent"} : Go(w, op, At(p))
  BY DEF ReserveToolBudget, ReserveUsdBudget
<1>8. At(p) \in Calls /\ At(p).pc = p
  BY CallRecords DEF At, PlainPC
<1>9. r.status = "RESERVED" /\ r.owner = w /\ r.live
  BY <1>1, <1>2 DEF Granted
<1>10. Unclaimed(op) /\ OwnsTool(w, op)'
  <2>1. CASE k = "tool"
    <3>1. OwnsTool(w, op)'
      BY <1>0, <1>4, <1>9, <2>1 DEF OwnsTool
    <3>2. CASE resv[op][k].status = "NONE"
      BY <1>0, <2>1, <3>1, <3>2 DEF SpendOp, Unclaimed, TypeOK, IntentRows, IntentStatus
    <3>3. CASE resv[op][k].status # "NONE"
      BY <1>0, <1>1, <2>1, <3>1, <3>3 DEF SpendCall, Granted, OwnsTool
    <3>4. QED
      BY <3>1, <3>2, <3>3
  <2>2. CASE k = "usd"
    BY <1>0, <1>1, <1>4, <2>2 DEF SpendCall, OwnsTool, Paying
  <2>3. QED
    BY <2>1, <2>2 DEF Keys
<1>11. SpendCall(w, op, p)'
  BY <1>6, <1>10 DEF SpendCall, FailedPC, Unclaimed, Paying
<1>12. \A j \in Keys : resv'[op][j].status # "RELEASED"
  <2>1. ASSUME NEW j \in Keys, resv[op][j].status = "RELEASED" PROVE j # k /\ FALSE
    <3>1. intent[op].status # "FAILED" /\ j = "tool" /\ call[w][op].pc \notin Paying
      BY <1>0, <1>10, <2>1 DEF SpendOp, Unclaimed
    <3>2. k = "tool"
      BY <1>1, <3>1 DEF Keys, Paying
    <3>3. QED
      BY <1>1, <2>1, <3>1, <3>2 DEF Granted
  <2>2. QED
    BY <1>0, <1>4, <1>9, <2>1
<1>13. SpendOp(op)'
  <2>1. intent'[op].status # "NONE" => resv'[op]["tool"].status # "NONE"
    BY <1>10 DEF OwnsTool
  <2>2. intent'[op].status # "CLAIMED"
    BY <1>6, <1>10 DEF Unclaimed
  <2>3. QED
    BY <1>12, <2>1, <2>2 DEF SpendOp
<1>14. ASSUME NEW v \in Worker \ {w}, NEW q \in PlainPC \cup FencedPC, SpendCall(v, op, q),
              q = call[v][op].pc
       PROVE  SpendCall(v, op, q)'
  <2>1. OwnsTool(v, op) => OwnsTool(v, op)'
    BY <1>0, <1>2, <1>4 DEF OwnsTool
  <2>2. OwnsTool(v, op)' => FALSE
    BY <1>10 DEF OwnsTool
  <2>3. QED
    BY <1>6, <1>14, <2>1, <2>2 DEF SpendCall, Unclaimed, Taken
<1>15. QED
  BY <1>0, <1>5, <1>7, <1>8, <1>11, <1>13, <1>14, SpendStep

\* Giving up before the intent: the call that was refused the money ...
LEMMA RefusingUsdStep ==
  ASSUME GatewayInv, SpendInv, NEW w \in Worker, NEW op \in Op, RefuseUsdBudget(w, op)
  PROVE  SpendInv'
<1>0. TypeOK /\ SpendCall(w, op, call[w][op].pc)
  BY DEF GatewayInv, SpendInv
<1>1. call[w][op].pc = "reserveUsd" /\ UNCHANGED <<intent, resv>> /\ Go(w, op, At("releaseRefused"))
  BY DEF RefuseUsdBudget, Running, durable
<1>2. At("releaseRefused") \in Calls /\ At("releaseRefused").pc = "releaseRefused"
  BY CallRecords DEF At, PlainPC
<1>3. SpendCall(w, op, "releaseRefused") /\ call[w][op].pc \in Paying
  BY <1>0, <1>1 DEF SpendCall, Paying, FailedPC
<1>4. QED
  BY <1>0, <1>1, <1>2, <1>3, SpendKept

\* ... gives the tool reservation back: its owner leaves, and was the only one on the
\* way to the claim.
LEMMA LeavingStep ==
  ASSUME GatewayInv, SpendInv, NEW w \in Worker, NEW op \in Op,
         Releases(w, op, "tool", "releaseRefused", "reject")
  PROVE  SpendInv'
<1>0. /\ TypeOK /\ OpInv(op) /\ "tool" \in Keys
      /\ SpendOp(op) /\ SpendCall(w, op, call[w][op].pc)
      /\ \A v \in Worker : SpendCall(v, op, call[v][op].pc)
  BY DEF GatewayInv, SpendInv, Keys
<1>1. PICK r \in {resv[op]["tool"], Closed(resv[op]["tool"], "RELEASED")} :
        resv' = [resv EXCEPT ![op]["tool"] = r]
  <2>1. [resv EXCEPT ![op]["tool"] = resv[op]["tool"]] = resv
    BY <1>0 DEF TypeOK
  <2>2. QED
    BY <2>1 DEF Releases
<1>2. /\ call[w][op].pc = "releaseRefused" /\ intent' = intent
      /\ resv' = [resv EXCEPT ![op]["tool"] = r] /\ Go(w, op, At("reject"))
  BY <1>1 DEF Releases, Running
<1>3. resv[op]["tool"] \in Reservations /\ resv \in [Op -> [Keys -> Reservations]]
  BY <1>0 DEF TypeOK
<1>4. r \in Reservations
  BY <1>1, <1>3, ClosedRow DEF ResvStatus
<1>5. \A o \in Op, j \in Keys :
        resv'[o][j] = IF o = op /\ j = "tool" THEN r ELSE resv[o][j]
  BY <1>0, <1>2, <1>3, <1>4, Cell
<1>6. Unclaimed(op) /\ OwnsTool(w, op)
  BY <1>0, <1>2 DEF SpendCall, Paying
<1>7. r.status # "NONE" /\ r.owner = w
  BY <1>1, <1>6 DEF Closed, OwnsTool
<1>8. At("reject") \in Calls /\ At("reject").pc = "reject"
  BY CallRecords DEF At, PlainPC
<1>9. \A o \in Op \ {op} : intent'[o] = intent[o] /\ resv'[o] = resv[o]
  BY <1>0, <1>2 DEF TypeOK
<1>10. \A v \in Worker, o \in Op : call'[v][o] = IF v = w /\ o = op THEN At("reject") ELSE call[v][o]
  BY <1>0, <1>2, <1>8, GoEffect DEF TypeOK
<1>11. \A v \in Worker \ {w} : ~OwnsTool(v, op) /\ ~OwnsTool(v, op)'
  BY <1>0, <1>5, <1>6, <1>7 DEF OwnsTool
<1>12. \A v \in Worker : call'[v][op].pc \notin Paying
  <2>1. \A v \in Worker \ {w} : call[v][op].pc \notin Paying
    BY <1>0, <1>11 DEF SpendCall
  <2>2. call'[w][op].pc = "reject"
    BY <1>8, <1>10
  <2>3. QED
    BY <1>10, <2>1, <2>2 DEF Paying
<1>13. SpendOp(op)'
  <2>1. \A k \in Keys \ {"tool"} : resv'[op][k] = resv[op][k]
    BY <1>5
  <2>2. \A k \in Keys \ {"tool"} : resv[op][k].status # "RELEASED"
    BY <1>0, <1>6 DEF SpendOp, Unclaimed
  <2>3. resv'[op]["tool"].status # "NONE"
    BY <1>0, <1>5, <1>7
  <2>4. Unclaimed(op)' /\ intent'[op].status # "CLAIMED"
    BY <1>2, <1>6 DEF Unclaimed
  <2>5. QED
    BY <1>12, <2>1, <2>2, <2>3, <2>4 DEF SpendOp
<1>14. SpendCall(w, op, "reject")'
  BY DEF SpendCall, FailedPC, Paying
<1>15. ASSUME NEW v \in Worker \ {w}, NEW q \in PlainPC \cup FencedPC, SpendCall(v, op, q)
       PROVE  SpendCall(v, op, q)'
  BY <1>2, <1>11, <1>15 DEF SpendCall, Unclaimed, Taken
<1>16. QED
  BY <1>0, <1>2, <1>8, <1>9, <1>13, <1>14, <1>15, SpendStep

\* Releasing after the provider call failed, settling, and the sweep.
LEMMA ReleasingSteps ==
  ASSUME GatewayInv, SpendInv, NEW w \in Worker, NEW op \in Op,
         ReleaseToolBudgets(w, op) \/ ReleaseAmbiguousBudget(w, op)
  PROVE  SpendInv'
<1>0. /\ TypeOK /\ SpendCall(w, op, call[w][op].pc)
      /\ \A v \in Worker, o \in Op : SpendCall(v, o, call[v][o].pc)
  BY DEF GatewayInv, SpendInv
<1>1. PICK k \in Keys, from \in PlainPC, to \in PlainPC : Releases(w, op, k, from, to)
  BY <1>0, ReleaseSteps
<1>2. CASE from = "releaseRefused"
  <2>1. Releases(w, op, "tool", "releaseRefused", "reject")
    BY <1>1, <1>2 DEF Releases, FailedPC
  <2>2. QED
    BY <2>1, LeavingStep
<1>3. CASE from # "releaseRefused"
  <2>1. call[w][op].pc \in FailedPC /\ to \in FailedPC \cup {"failLedger"} /\ Go(w, op, At(to))
    BY <1>1, <1>3 DEF Releases, Running
  <2>2. intent[op].status = "FAILED" /\ intent' = intent
    BY <1>0, <1>1, <2>1 DEF Releases, SpendCall
  <2>3. Closing(op)
    BY <1>0, <1>1, <2>2, ClosingStep DEF Releases
  <2>4. At(to) \in Calls /\ At(to).pc = to
    BY CallRecords DEF At
  <2>5. \A v \in Worker, o \in Op :
          call'[v][o] = IF v = w /\ o = op THEN At(to) ELSE call[v][o]
    BY <1>0, <2>1, <2>4, GoEffect DEF TypeOK
  <2>6. SpendCall(w, op, to) /\ to \notin Paying
    BY <2>1, <2>2 DEF SpendCall, Paying, FailedPC
  <2>7. QED
    BY <1>0, <2>2, <2>3, <2>4, <2>5, <2>6, ClosingKeeps
<1>4. QED
  BY <1>2, <1>3

LEMMA SettlingSteps ==
  ASSUME GatewayInv, SpendInv, NEW w \in Worker, NEW op \in Op, SettleBudget(w, op)
  PROVE  SpendInv'
<1>0. /\ TypeOK /\ call[w][op] \in Calls
      /\ \A v \in Worker, o \in Op : SpendCall(v, o, call[v][o].pc)
  BY DEF GatewayInv, SpendInv, TypeOK
<1>1. PICK k \in Keys, q \in FencedPC : Settles(w, op, k, q)
  BY <1>0, SettlementSteps
<1>2. PICK c \in {[call[w][op] EXCEPT !.pc = q], [call[w][op] EXCEPT !.pc = q, !.failed = TRUE]} :
        Go(w, op, c)
  BY <1>1 DEF Settles, Advance, FailOn
<1>3. c \in Calls
  BY <1>0, <1>2, Moves
<1>4. c.pc \in Calm
  <2>1. q \in SettlePC
    BY <1>1 DEF Settles, Paid, BudgetPC, SettlePC, SettlingPC
  <2>2. c.pc = q
    BY <1>0, <1>2 DEF Calls
  <2>3. QED
    BY <2>1, <2>2 DEF Calm
<1>5. \A v \in Worker, o \in Op : call'[v][o] = IF v = w /\ o = op THEN c ELSE call[v][o]
  BY <1>0, <1>2, <1>3, GoEffect DEF TypeOK
<1>6. Closing(op)
  BY <1>0, <1>1, ClosingStep DEF Settles
<1>7. intent' = intent
  BY <1>1 DEF Settles
<1>8. QED
  BY <1>0, <1>4, <1>5, <1>6, <1>7, CalmCalls, ClosingKeeps

\* The intent: made and claimed by the owner of the tool reservation, settled by who made
\* the effect or found it.
LEMMA ClaimingSteps ==
  ASSUME GatewayInv, TypeOK', SpendInv, NEW w \in Worker, NEW op \in Op,
         CreateIntent(w, op) \/ ClaimIntent(w, op)
  PROVE  SpendInv'
<1>0. /\ TypeOK /\ OpInv(op) /\ "tool" \in Keys /\ intent[op].status \in IntentStatus
      /\ SpendOp(op) /\ SpendCall(w, op, call[w][op].pc)
      /\ \A v \in Worker : SpendCall(v, op, call[v][op].pc)
  BY DEF GatewayInv, SpendInv, Keys, TypeOK, IntentRows
<1>1. call[w][op].pc \in Paying /\ resv' = resv /\ OwnsTool(w, op) /\ Unclaimed(op)
  BY <1>0 DEF CreateIntent, ClaimIntent, Running, Paying, SpendCall
<1>2. \A v \in Worker \ {w} : ~OwnsTool(v, op) /\ ~OwnsTool(v, op)'
  BY <1>1 DEF OwnsTool
<1>3. \A k \in Keys : resv[op][k].status # "RELEASED"
  BY <1>0, <1>1 DEF SpendOp, Unclaimed
<1>4. ASSUME NEW v \in Worker \ {w} PROVE call[v][op].pc \notin Paying \cup {"dispatch", "markFailed"}
  BY <1>0, <1>2 DEF SpendCall
<1>5. CASE CreateIntent(w, op)
  <2>1. Go(w, op, At("claimIntent")) /\ At("claimIntent") \in Calls
        /\ At("claimIntent").pc = "claimIntent"
    BY <1>5, CallRecords DEF CreateIntent, At, PlainPC
  <2>2. intent'[op].status = "PENDING"
    BY <1>0, <1>1, <1>5 DEF CreateIntent, Unclaimed, TypeOK
  <2>3. \A o \in Op \ {op} : intent'[o] = intent[o] /\ resv'[o] = resv[o]
    BY <1>0, <1>1, <1>5 DEF CreateIntent, TypeOK
  <2>4. SpendOp(op)'
    BY <1>1, <1>3, <2>2 DEF SpendOp, OwnsTool
  <2>5. SpendCall(w, op, "claimIntent")'
    BY <1>1, <2>2 DEF SpendCall, FailedPC, OwnsTool, Unclaimed
  <2>6. ASSUME NEW v \in Worker \ {w}, NEW q \in PlainPC \cup FencedPC, SpendCall(v, op, q),
               q = call[v][op].pc
        PROVE  SpendCall(v, op, q)'
    <3>1. q \notin FailedPC
      BY <1>1, <2>6 DEF SpendCall, Unclaimed
    <3>2. q \notin Paying \cup {"dispatch", "markFailed"} /\ q # "claimIntent"
      BY <1>4, <2>6 DEF Paying
    <3>3. QED
      BY <1>2, <3>1, <3>2 DEF SpendCall
  <2>7. QED
    BY <1>0, <2>1, <2>3, <2>4, <2>5, <2>6, SpendStep
<1>6. CASE ClaimIntent(w, op)
  <2>1. intent[op].status = "PENDING" /\ MayClaim(intent[op])
    BY <1>0, <1>6 DEF SpendCall, ClaimIntent, Running, MayClaim
  <2>2. intent' = [intent EXCEPT ![op] = ClaimedIntent(intent[op])]
    BY <1>6, <2>1 DEF ClaimIntent, ClaimTaken
  <2>3. intent'[op].status = "CLAIMED" /\ intent'[op].live
    BY <1>0, <2>2 DEF TypeOK, ClaimedIntent
  <2>4. \A o \in Op \ {op} : intent'[o] = intent[o] /\ resv'[o] = resv[o]
    BY <1>0, <1>1, <2>2 DEF TypeOK
  <2>5. PICK t \in Nat : t = intent[op].version + 1
    BY <1>0 DEF TypeOK, IntentRows
  <2>6. PICK c \in {Settling("dispatch", [kind |-> "TOKEN", status |-> "CLAIMED", version |-> t]),
                    Returned("THROWN")} : Go(w, op, c)
    BY <1>6, <2>1, <2>5 DEF ClaimIntent, ClaimTaken
  <2>7. c \in Calls /\ c.pc \in {"dispatch", "idle"}
    <3>1. Returned("THROWN") \in Calls
      BY CallRecords DEF Results
    <3>2. PICK f \in Fences : f = [kind |-> "TOKEN", status |-> "CLAIMED", version |-> t]
      BY DEF Fences
    <3>3. Settling("dispatch", f) \in Calls /\ Settling("dispatch", f).pc = "dispatch"
      BY DEF Settling, Calls, FencedPC, Results
    <3>4. Returned("THROWN").pc = "idle"
      BY DEF Returned
    <3>5. QED
      BY <2>6, <3>1, <3>2, <3>3, <3>4
  <2>8. SpendOp(op)'
    BY <1>1, <1>3, <2>3 DEF SpendOp, OwnsTool
  <2>9. SpendCall(w, op, c.pc)'
    BY <1>1, <2>3, <2>7 DEF SpendCall, FailedPC, Paying, OwnsTool
  <2>10. ASSUME NEW v \in Worker \ {w}, NEW q \in PlainPC \cup FencedPC, SpendCall(v, op, q),
                q = call[v][op].pc
         PROVE  SpendCall(v, op, q)'
    <3>1. q \notin FailedPC
      BY <2>1, <2>10 DEF SpendCall
    <3>2. q \notin Paying \cup {"dispatch", "markFailed"} /\ q # "claimIntent"
      BY <1>4, <2>10 DEF Paying
    <3>3. QED
      BY <1>2, <3>1, <3>2 DEF SpendCall
  <2>11. QED
    BY <1>0, <2>4, <2>6, <2>7, <2>8, <2>9, <2>10, SpendStep
<1>7. QED
  BY <1>5, <1>6

LEMMA DecidedSteps ==
  ASSUME GatewayInv, TypeOK', SpendInv, NEW w \in Worker, NEW op \in Op,
         MarkFailed(w, op) \/ SettleIntent(w, op)
  PROVE  SpendInv'
<1>0. /\ TypeOK /\ OpInv(op) /\ "tool" \in Keys /\ call[w][op] \in Calls
      /\ SpendOp(op) /\ SpendCall(w, op, call[w][op].pc)
      /\ \A v \in Worker : SpendCall(v, op, call[v][op].pc) /\ CallInv(call[v][op], op)
  BY DEF GatewayInv, SpendInv, Keys, TypeOK
<1>1. resv' = resv
  BY DEF MarkFailed, SettleIntent
<1>2. CASE MarkFailed(w, op) /\ ~Fenced(w, op)
  <2>1. Go(w, op, Returned("THROWN")) /\ intent' = intent
    BY <1>2 DEF MarkFailed
  <2>2. Returned("THROWN") \in Calls /\ Returned("THROWN").pc \in Calm
    BY CallRecords DEF Returned, Calm, Results
  <2>3. QED
    BY <1>0, <1>1, <2>1, <2>2, CalmCalls, SpendKept
<1>3. CASE ~(MarkFailed(w, op) /\ ~Fenced(w, op))
  <2>1. Fenced(w, op) /\ call[w][op].pc \in {"markFailed", "intent"}
    BY <1>3 DEF MarkFailed, SettleIntent, Running
  <2>2. Taken(op)
    BY <1>0, <2>1 DEF SpendCall, CallInv, SettlePC, SettlingPC, BudgetPC, OpInv
  <2>3. intent[op].status = "CLAIMED" /\ ~Unclaimed(op)
    BY <1>0, <2>1, <2>2, FencedUndecided DEF Taken, Unclaimed
  <2>4. \A k \in Keys : resv[op][k].status # "RELEASED"
    BY <1>0, <2>3 DEF SpendOp
  <2>5. PICK s \in {"FAILED", "EXECUTED"} :
          /\ intent' = [intent EXCEPT ![op] = Settle(intent[op], s)]
          /\ s = "FAILED" <=> call[w][op].pc = "markFailed"
    BY <1>3, <2>1 DEF MarkFailed, SettleIntent, Running
  <2>6. intent'[op].status = s
    BY <1>0, <2>5 DEF TypeOK, Settle
  <2>7. \A o \in Op \ {op} : intent'[o] = intent[o] /\ resv'[o] = resv[o]
    BY <1>0, <1>1, <2>5 DEF TypeOK
  <2>8. SpendOp(op)'
    <3>1. resv[op]["tool"].status # "NONE"
      BY <1>0, <2>3 DEF SpendOp
    <3>2. QED
      BY <1>1, <2>4, <2>6, <3>1 DEF SpendOp
  <2>9. PICK c \in Calls : /\ Go(w, op, c)
                           /\ c.pc \in {"releaseTool", "lease"}
                           /\ c.pc = "releaseTool" => s = "FAILED"
    <3>1. CASE call[w][op].pc = "markFailed"
      <4>1. Go(w, op, At("releaseTool")) /\ At("releaseTool") \in Calls
            /\ At("releaseTool").pc = "releaseTool"
        BY <2>1, <3>1, CallRecords DEF MarkFailed, SettleIntent, Running, At, PlainPC
      <4>2. QED
        BY <2>5, <3>1, <4>1
    <3>2. CASE call[w][op].pc = "intent"
      <4>1. PICK c \in {[call[w][op] EXCEPT !.pc = "lease"],
                        [call[w][op] EXCEPT !.pc = "lease", !.failed = TRUE]} : Go(w, op, c)
        BY <3>2 DEF MarkFailed, SettleIntent, Running, Advance, FailOn
      <4>2. c \in Calls /\ c.pc = "lease"
        <5>1. "lease" \in FencedPC
          BY DEF FencedPC
        <5>2. c \in Calls
          BY <1>0, <4>1, <5>1, Moves
        <5>3. QED
          BY <1>0, <4>1, <5>2 DEF Calls
      <4>3. QED
        BY <4>1, <4>2
    <3>3. QED
      BY <2>1, <3>1, <3>2
  <2>10. SpendCall(w, op, c.pc)'
    BY <2>6, <2>9 DEF SpendCall, FailedPC, Paying
  <2>11. ASSUME NEW v \in Worker \ {w}, NEW q \in PlainPC \cup FencedPC, SpendCall(v, op, q),
                q = call[v][op].pc
         PROVE  SpendCall(v, op, q)'
    <3>1. q \notin FailedPC /\ q \notin Paying
      BY <2>3, <2>11 DEF SpendCall
    <3>2. q # "dispatch"
      <4>1. CASE s = "EXECUTED"
        <5>1. effects[op] = 1
          BY <1>0, <2>1, <2>5, <4>1 DEF CallInv, SettlePC, SettlingPC, BudgetPC
        <5>2. QED
          BY <1>0, <2>11, <5>1 DEF CallInv
      <4>2. CASE s = "FAILED"
        <5>1. OwnsTool(w, op)
          BY <1>0, <2>5, <4>2 DEF SpendCall
        <5>2. QED
          BY <2>11, <5>1 DEF SpendCall, OwnsTool
      <4>3. QED
        BY <4>1, <4>2
    <3>3. ~(q \in {"checkHeld", "reserveTool"} /\ OwnsTool(v, op) /\ resv[op]["tool"].live)
      BY <2>3, <2>11 DEF SpendCall
    <3>4. Taken(op)'
      BY <2>6 DEF Taken
    <3>5. OwnsTool(v, op)' <=> OwnsTool(v, op)
      BY <1>1 DEF OwnsTool
    <3>6. q = "claimIntent" => q \in Paying
      BY DEF Paying
    <3>7. QED
      BY <1>1, <2>11, <3>1, <3>2, <3>3, <3>4, <3>5, <3>6 DEF SpendCall
  <2>12. QED
    BY <1>0, <2>7, <2>8, <2>9, <2>10, <2>11, SpendStep
<1>4. QED
  BY <1>2, <1>3

\* Crashes, time and the cleanups: a claim expires behind the reservation.
LEMMA SurroundingSteps ==
  ASSUME GatewayInv, SpendInv,
         \/ \E w \in Worker : Crash(w) \/ \E op \in Op : ProviderRemoves(w, op)
         \/ \E op \in Op : ClaimExpires(op)
         \/ \E op \in Op, k \in Keys : ReservationExpires(op, k) \/ SweepInspect(op, k)
         \/ SweepSettle
  PROVE  SpendInv'
<1> USE DEF durable
<1>0. /\ TypeOK /\ \A o \in Op : OpInv(o) /\ SpendOp(o)
      /\ \A v \in Worker, o \in Op : SpendCall(v, o, call[v][o].pc)
      /\ "tool" \in Keys
  BY DEF GatewayInv, SpendInv, Keys
<1>1. ASSUME NEW op \in Op, Closing(op), UNCHANGED intent,
             \A v \in Worker, o \in Op : call'[v][o] = call[v][o] \/ call'[v][o] = Returned("NONE")
      PROVE  SpendInv'
  <2>1. Returned("NONE").pc \in Calm
    BY DEF Returned, Calm
  <2>2. \A v \in Worker, o \in Op : /\ call'[v][o].pc \in Paying => call[v][o].pc \in Paying
                                    /\ SpendCall(v, o, call'[v][o].pc)
    BY <1>0, <1>1, <2>1, CalmCalls
  <2>3. QED
    BY <1>0, <1>1, <2>2, ClosingKeeps
<1>2. ASSUME NEW op \in Op, UNCHANGED <<intent, resv, call>> PROVE SpendInv'
  BY <1>1, <1>2 DEF Closing
<1>3. ASSUME NEW w \in Worker, Crash(w) PROVE SpendInv'
  <2>1. \A v \in Worker, o \in Op : call'[v][o] = call[v][o] \/ call'[v][o] = Returned("NONE")
    BY <1>0, <1>3 DEF Crash, TypeOK
  <2>2. UNCHANGED <<intent, resv>>
    BY <1>3 DEF Crash
  <2>3. \A o \in Op : Closing(o)
    BY <2>2 DEF Closing
  <2>4. CASE Op = {}
    BY <2>4 DEF SpendInv
  <2>5. CASE Op # {}
    BY <1>1, <2>1, <2>2, <2>3, <2>5
  <2>6. QED
    BY <2>4, <2>5
<1>4. ASSUME NEW w \in Worker, NEW op \in Op, ProviderRemoves(w, op) PROVE SpendInv'
  BY <1>2, <1>4 DEF ProviderRemoves
<1>5. ASSUME NEW op \in Op, NEW k \in Keys, SweepInspect(op, k) PROVE SpendInv'
  BY <1>2, <1>5 DEF SweepInspect
<1>6. ASSUME NEW op \in Op, NEW k \in Keys, NEW r \in Reservations, UNCHANGED <<intent, call>>,
             resv' = [resv EXCEPT ![op][k] = r], resv[op][k].status # "NONE", r.status # "NONE",
             r.owner = resv[op][k].owner, r.live = FALSE, r.status # "RELEASED"
      PROVE  SpendInv'
  <2>1. resv \in [Op -> [Keys -> Reservations]]
    BY <1>0 DEF TypeOK
  <2>2. \A o \in Op, j \in Keys : resv'[o][j] = IF o = op /\ j = k THEN r ELSE resv[o][j]
    BY <1>6, <2>1, Cell
  <2>3. \A o \in Op \ {op} : resv'[o] = resv[o]
    BY <1>6, <2>1
  <2>4. Closing(op)
    BY <1>6, <2>2, <2>3 DEF Closing
  <2>5. QED
    BY <1>1, <1>6, <2>4
<1>7. ASSUME NEW op \in Op, NEW k \in Keys, ReservationExpires(op, k) PROVE SpendInv'
  <2>1. resv[op][k] \in Reservations
    BY <1>0 DEF TypeOK
  <2>2. PICK r : r = [resv[op][k] EXCEPT !.live = FALSE]
    OBVIOUS
  <2>3. /\ r \in Reservations /\ r.live = FALSE /\ r.owner = resv[op][k].owner
        /\ r.status = resv[op][k].status
    BY <2>1, <2>2 DEF Reservations
  <2>4. resv[op][k].status = "RESERVED"
    BY <1>0, <1>7 DEF ReservationExpires, OpInv
  <2>5. resv' = [resv EXCEPT ![op][k] = r] /\ UNCHANGED <<intent, call>>
    BY <1>7, <2>2 DEF ReservationExpires
  <2>6. QED
    BY <1>6, <2>3, <2>4, <2>5
<1>8. CASE SweepSettle
  <2>1. PICK op \in Op, k \in Keys : op = sweep.op /\ k = sweep.key
    BY <1>0, <1>8 DEF SweepSettle, TypeOK
  <2>2. PICK s \in {"EXPIRED", "RECONCILED"} : s = (IF sweep.expire THEN "EXPIRED" ELSE "RECONCILED")
    OBVIOUS
  <2>3. \/ resv' = resv
        \/ /\ resv[op][k].status = "RESERVED"
           /\ resv' = [resv EXCEPT ![op][k] = Closed(resv[op][k], s)]
    BY <1>8, <2>1, <2>2 DEF SweepSettle
  <2>4. UNCHANGED <<intent, call>>
    BY <1>8 DEF SweepSettle
  <2>5. PICK r : r = Closed(resv[op][k], s)
    OBVIOUS
  <2>6. r \in Reservations
    BY <1>0, <2>5, ClosedRow DEF TypeOK, ResvStatus
  <2>7. r.owner = resv[op][k].owner /\ r.live = FALSE /\ r.status = s
    BY <2>5 DEF Closed
  <2>8. QED
    BY <1>2, <1>6, <2>3, <2>4, <2>5, <2>6, <2>7
<1>9. ASSUME NEW op \in Op, ClaimExpires(op) PROVE SpendInv'
  <2>1. /\ intent' = [intent EXCEPT ![op].live = FALSE] /\ UNCHANGED <<resv, call>>
        /\ ~resv[op]["tool"].live
    BY <1>0, <1>9 DEF ClaimExpires
  <2>2. \A o \in Op : intent'[o].status = intent[o].status
    BY <1>0, <2>1 DEF TypeOK, IntentRows
  <2>3. \A o \in Op \ {op} : intent'[o] = intent[o]
    BY <1>0, <2>1 DEF TypeOK
  <2>4. ASSUME NEW o \in Op PROVE SpendOp(o)'
    <3>1. SpendOp(o) /\ (Unclaimed(o)' <=> Unclaimed(o))
      BY <1>0, <2>2 DEF Unclaimed
    <3>2. intent'[o].status = "CLAIMED" /\ ~intent'[o].live => ~resv'[o]["tool"].live
      BY <2>1, <2>3, <3>1 DEF SpendOp
    <3>3. QED
      BY <2>1, <2>2, <3>1, <3>2 DEF SpendOp
  <2>5. ASSUME NEW v \in Worker, NEW o \in Op PROVE SpendCall(v, o, call[v][o].pc)'
    BY <1>0, <2>1, <2>2 DEF SpendCall, OwnsTool, Unclaimed, Taken
  <2>6. QED
    BY <2>4, <2>5 DEF SpendInv
<1>10. QED
  BY <1>3, <1>4, <1>5, <1>7, <1>8, <1>9

\* The gateway refunds no effect: it releases a reservation when the intent durably says
\* FAILED, or before anybody could claim it (runToolCall, releaseAmbiguousBudget).  Of a
\* reservation the cleanup has expired it says nothing.
THEOREM NoRefunds == Spec => []NoRefundOfEffects
<1>1. Init => SpendInv
  <2> SUFFICES ASSUME Init PROVE SpendInv
    OBVIOUS
  <2>1. \A w \in Worker, op \in Op : call[w][op] = Returned("NONE")
    BY DEF Init
  <2>2. \A w \in Worker, op \in Op : SpendCall(w, op, call[w][op].pc)
    <3>1. Returned("NONE").pc \in Calm
      BY DEF Returned, Calm
    <3>2. QED
      BY <2>1, <3>1, CalmCalls
  <2>3. \A op \in Op : intent[op].status = "NONE"
    BY DEF Init, NoIntent
  <2>4. \A op \in Op, k \in Keys : resv[op][k].status = "NONE"
    BY DEF Init, NoResv
  <2>5. QED
    BY <2>2, <2>3, <2>4 DEF SpendInv, SpendOp
<1>2. GatewayInv /\ GatewayInv' /\ SpendInv /\ [Next]_vars => SpendInv'
  <2> SUFFICES ASSUME GatewayInv, GatewayInv', SpendInv, [Next]_vars PROVE SpendInv'
    OBVIOUS
  <2>1. TypeOK'
    BY DEF GatewayInv
  <2>2. CASE UNCHANGED vars
    BY <2>2 DEF vars, durable, SpendInv, SpendOp, SpendCall, OwnsTool, Unclaimed, Taken
  <2>3. ASSUME NEW w \in Worker, NEW op \in Op, Start(w, op) \/ Step(w, op) \/ Misfortune(w, op)
        PROVE  SpendInv'
    BY <2>1, <2>3, CalmSteps, DecidingSteps, ReservingSteps, RefusingUsdStep, ReleasingSteps,
       SettlingSteps, ClaimingSteps, DecidedSteps
       DEF Start, Step, Misfortune
  <2>4. QED
    BY <2>2, <2>3, SurroundingSteps DEF Next
<1>3. GatewayInv /\ SpendInv => NoRefundOfEffects
  <2> SUFFICES ASSUME GatewayInv, SpendInv, NEW op \in Op, NEW k \in Keys,
                      resv[op][k].status = "RELEASED"
               PROVE  /\ intent[op].status # "EXECUTED"
                      /\ \A w \in Worker : call[w][op].pc # "dispatch"
    BY DEF NoRefundOfEffects
  <2>1. intent[op].status \in {"NONE", "PENDING", "FAILED"}
    BY DEF SpendInv, SpendOp, Unclaimed
  <2>2. \A w \in Worker : call[w][op].pc = "dispatch" => intent[op].status = "CLAIMED"
    BY DEF SpendInv, SpendCall
  <2>3. QED
    BY <2>1, <2>2
<1>4. QED
  BY <1>1, <1>2, <1>3, Inductive, PTL DEF Spec
=============================================================================
