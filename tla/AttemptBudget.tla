---------------------------- MODULE AttemptBudget ----------------------------
(***************************************************************************)
(* The durable budget of model calls.  Every call to the model provider    *)
(* needs an attempt slot of its event: a row of the table                  *)
(* budget_reservation_records, at most MaxCalls of them per event, charged *)
(* to the daily window in which the work on the event began.               *)
(*                                                                         *)
(* Source: acquireEventAttemptSlot, recordGeminiAttemptOutcome,            *)
(* consumeBudget, releaseBudget and reconcileExpiredReservations of        *)
(* budget-repository.ts; DurableAttemptGate and executeWithBudget of       *)
(* gemini-budget-service.ts; the retry loops of the two model adapters.    *)
(*                                                                         *)
(* A slot gemini-tokens:<e>:attempt-<n> is named by its event and number.  *)
(* Each acquisition draws a new owner id and no row is created twice, so   *)
(* the gate that created a row is its owner; the version is 1 as long as   *)
(* the row is RESERVED and is not kept.  All attempts reserve, and are     *)
(* charged, the same amount: no caller reports usage.  Amounts are counted *)
(* in that unit.                                                           *)
(***************************************************************************)
EXTENDS Naturals, FiniteSets

CONSTANTS
  Worker,     \* calls of executeWithBudget that may be in progress at once
  Event,
  MaxCalls,   \* maxCallsPerEvent
  Room,       \* attempts the daily limit has room for
  NumDays,    \* bound on the days that pass
  MaxFaults   \* bound on failed database calls

ASSUME EventAssumption     == IsFiniteSet(Event)
ASSUME MaxCallsAssumption  == MaxCalls \in Nat
ASSUME RoomAssumption      == Room \in Nat
ASSUME NumDaysAssumption   == NumDays \in Nat \ {0}
ASSUME MaxFaultsAssumption == MaxFaults \in Nat

VARIABLES
  rows,        \* budget_reservation_records, per event and attempt number
  dispatches,  \* requests sent to the provider under each of them
  call,        \* executeWithBudget: its gate, and where it stands
  today,       \* the current budget window
  sweep,       \* what the current reconcileExpiredReservations still has to settle
  faults

vars == <<rows, dispatches, call, today, sweep, faults>>

Slot == 1 .. MaxCalls
Day == 1 .. NumDays
NoSlot == 0
NoEvent == "none"

NoRow == [status |-> "NONE", window |-> 0, outcome |-> "NONE", live |-> FALSE]
Idle  == [pc |-> "idle", event |-> NoEvent, window |-> 0, priming |-> FALSE,
          primed |-> FALSE, slot |-> NoSlot, open |-> NoSlot]

Init ==
  /\ rows = [e \in Event |-> [n \in Slot |-> NoRow]]
  /\ dispatches = [e \in Event |-> [n \in Slot |-> 0]]
  /\ call = [w \in Worker |-> Idle]
  /\ today = 1
  /\ sweep = {}
  /\ faults = 0

At(w, p) == call[w].pc = p
Go(w, c) == call' = [call EXCEPT ![w] = c]
Fault == faults < MaxFaults /\ faults' = faults + 1
SetRow(e, n, r) == rows' = [rows EXCEPT ![e][n] = r]

Charged == {"RESERVED", "CONSUMED", "RECONCILED"}

\* sumCommittedInWindow: an expired reservation does not count until it is settled.
Committed(d) ==
  {s \in Event \X Slot :
     LET r == rows[s[1]][s[2]] IN
     /\ r.window = d
     /\ r.status \in {"CONSUMED", "RECONCILED"} \/ (r.status = "RESERVED" /\ r.live)}

-----------------------------------------------------------------------------
(* executeWithBudget opens a gate and primes it. *)

Start(w, e) ==
  /\ At(w, "idle")
  /\ Go(w, [Idle EXCEPT !.pc = "read", !.event = e, !.window = today, !.priming = TRUE])
  /\ UNCHANGED <<rows, dispatches, today, sweep, faults>>

\* Refused: prime() ends the call, a later beginAttempt() fails in the adapter.
Refused(c) == IF c.priming THEN Idle ELSE [c EXCEPT !.pc = "run", !.slot = NoSlot]

(***************************************************************************)
(* acquireEventAttemptSlot.  One transaction per window at a time (the     *)
(* advisory lock): it reads the rows of the event and the window's total,  *)
(* then inserts.  MaxCalls charged rows leave no slot free.                *)
(***************************************************************************)
LockFreeAlways(w) == TRUE    \* mutant: no advisory lock

LockFree(w) == \A v \in Worker : At(v, "insert") => call[v].window # call[w].window

Free(e) == {n \in Slot : rows[e][n].status = "NONE"}

HasRoomOneOver(d) == Cardinality(Committed(d)) <= Room    \* mutant: off by one

HasRoom(d) == Cardinality(Committed(d)) + 1 <= Room

AcquireRead(w) ==
  LET e == call[w].event IN
  /\ At(w, "read")
  /\ LockFree(w)
  /\ IF HasRoom(call[w].window) /\ Free(e) # {}
     THEN \E n \in Free(e) :
            /\ \A m \in Free(e) : n <= m
            /\ Go(w, [call[w] EXCEPT !.pc = "insert", !.slot = n])
     ELSE Go(w, Refused(call[w]))
  /\ UNCHANGED <<rows, dispatches, today, sweep, faults>>

\* A transaction of another window may have taken the slot: the key is unique.
KeyFreeUnchecked(e, n) == TRUE   \* mutant: the insert overwrites

KeyFree(e, n) == rows[e][n].status = "NONE"

NewRowTomorrow(d) ==         \* mutant: charged to the following window
  [status |-> "RESERVED", window |-> d + 1, outcome |-> "NONE", live |-> TRUE]

NewRow(d) == [status |-> "RESERVED", window |-> d, outcome |-> "NONE", live |-> TRUE]

AcquireInsert(w) ==
  LET e == call[w].event
      n == call[w].slot
  IN
  /\ At(w, "insert")
  /\ IF KeyFree(e, n)
     THEN /\ SetRow(e, n, NewRow(call[w].window))
          /\ \/ /\ Go(w, [call[w] EXCEPT !.pc = "mark", !.slot = NoSlot, !.open = n])
                /\ UNCHANGED faults
             \/ Fault /\ Go(w, Refused(call[w]))    \* acknowledgement lost
     ELSE /\ Go(w, Refused(call[w]))
          /\ UNCHANGED <<rows, faults>>
  /\ UNCHANGED <<dispatches, today, sweep>>

\* The DISPATCHED marker; the gate hands the attempt out only when it is written.
Marked(c) ==
  IF c.priming
  THEN [c EXCEPT !.pc = "run", !.priming = FALSE, !.primed = TRUE]
  ELSE [c EXCEPT !.pc = "dispatch"]

RecordDispatched(w) ==
  LET e == call[w].event
      n == call[w].open
  IN
  /\ At(w, "mark")
  /\ IF rows[e][n].status = "RESERVED"
     THEN /\ SetRow(e, n, [rows[e][n] EXCEPT !.outcome = "DISPATCHED"])
          /\ \/ Go(w, Marked(call[w])) /\ UNCHANGED faults
             \/ Fault /\ Go(w, Refused(call[w]))    \* acknowledgement lost
     ELSE /\ Go(w, Refused(call[w]))
          /\ UNCHANGED <<rows, faults>>
  /\ UNCHANGED <<dispatches, today, sweep>>

-----------------------------------------------------------------------------
(* The adapter asks for an attempt before each request, as often as it     *)
(* likes to retry.                                                         *)

KeepsPrimed(c) == [c EXCEPT !.pc = "dispatch"]   \* mutant: primed is not reset

TakesPrimed(c) == [c EXCEPT !.pc = "dispatch", !.primed = FALSE]

BeginAttempt(w) ==
  /\ At(w, "run")
  /\ Go(w, IF call[w].primed THEN TakesPrimed(call[w])
           ELSE [call[w] EXCEPT !.pc = IF call[w].open = NoSlot THEN "read" ELSE "settle"])
  /\ UNCHANGED <<rows, dispatches, today, sweep, faults>>

\* generateContent: with a signal that is already aborted it sends nothing.
Dispatch(w) ==
  /\ At(w, "dispatch")
  /\ \/ dispatches' = [dispatches EXCEPT ![call[w].event][call[w].open] = @ + 1]
     \/ UNCHANGED dispatches
  /\ Go(w, [call[w] EXCEPT !.pc = "run"])
  /\ UNCHANGED <<rows, today, sweep, faults>>

(***************************************************************************)
(* settle: consumeBudget charges the open attempt in full; if it fails the *)
(* reservation stays as it is, and the gate forgets it either way.  Before *)
(* the next attempt, and once more when execute has returned.              *)
(***************************************************************************)
ConsumeAny(e, n) ==          \* mutant: the update is not fenced
  SetRow(e, n, [rows[e][n] EXCEPT !.status = "CONSUMED"])

Consume(e, n) ==
  IF rows[e][n].status = "RESERVED"
  THEN SetRow(e, n, [rows[e][n] EXCEPT !.status = "CONSUMED"])
  ELSE UNCHANGED rows

Settle(w, c) ==
  /\ \/ call[w].open = NoSlot /\ UNCHANGED <<rows, faults>>
     \/ call[w].open # NoSlot /\ Consume(call[w].event, call[w].open) /\ UNCHANGED faults
     \/ /\ call[w].open # NoSlot
        /\ Fault
        /\ Consume(call[w].event, call[w].open) \/ UNCHANGED rows
  /\ Go(w, c)
  /\ UNCHANGED <<dispatches, today, sweep>>

SettleBeforeNext(w) ==
  At(w, "settle") /\ Settle(w, [call[w] EXCEPT !.pc = "read", !.open = NoSlot])

\* execute returns, and the last attempt is settled.
ExecuteReturns(w) ==
  At(w, "run") /\ Settle(w, Idle)

(***************************************************************************)
(* execute throws.  If isPreCallError verifies that nothing was sent, the  *)
(* evidence is recorded and the slot released, in two writes.              *)
(***************************************************************************)
ExecuteThrowsPreCall(w) ==
  /\ At(w, "run")
  /\ call[w].open # NoSlot
  /\ dispatches[call[w].event][call[w].open] = 0
  /\ Go(w, [call[w] EXCEPT !.pc = "preCall"])
  /\ UNCHANGED <<rows, dispatches, today, sweep, faults>>

RecordPreCallFailed(w) ==
  LET e == call[w].event
      n == call[w].open
  IN
  /\ At(w, "preCall")
  /\ IF rows[e][n].status = "RESERVED"
     THEN /\ SetRow(e, n, [rows[e][n] EXCEPT !.outcome = "PRE_CALL_FAILED"])
          /\ \/ Go(w, [call[w] EXCEPT !.pc = "release"]) /\ UNCHANGED faults
             \/ Fault /\ Go(w, Idle)                \* acknowledgement lost
     ELSE /\ Go(w, Idle)
          /\ UNCHANGED <<rows, faults>>
  /\ UNCHANGED <<dispatches, today, sweep>>

ReleaseVerified(w) ==
  LET e == call[w].event
      n == call[w].open
  IN
  /\ At(w, "release")
  /\ IF rows[e][n].status = "RESERVED"
     THEN SetRow(e, n, [rows[e][n] EXCEPT !.status = "RELEASED"])
     ELSE UNCHANGED rows
  /\ Go(w, Idle)
  /\ UNCHANGED <<dispatches, today, sweep, faults>>

-----------------------------------------------------------------------------
(* Failures, time, and the expiry sweep. *)

\* A database call fails without effect.
DatabaseThrows(w) ==
  /\ Fault
  /\ \/ call[w].pc \in {"read", "insert", "mark"} /\ Go(w, Refused(call[w]))
     \/ call[w].pc \in {"preCall", "release"} /\ Go(w, Idle)
  /\ UNCHANGED <<rows, dispatches, today, sweep>>

\* The process dies, or execute throws an error that is not a pre-call error.
Abandon(w) ==
  /\ ~At(w, "idle")
  /\ Go(w, Idle)
  /\ UNCHANGED <<rows, dispatches, today, sweep, faults>>

RowExpires(e, n) ==
  /\ rows[e][n].status = "RESERVED"
  /\ rows[e][n].live
  /\ SetRow(e, n, [rows[e][n] EXCEPT !.live = FALSE])
  /\ UNCHANGED <<dispatches, call, today, sweep, faults>>

NextDay ==
  /\ today < NumDays
  /\ today' = today + 1
  /\ UNCHANGED <<rows, dispatches, call, sweep, faults>>

(***************************************************************************)
(* reconcileExpiredReservations reads the expired rows, then settles each  *)
(* by an update fenced by status and version.  The marker does not change  *)
(* the version: the outcome it acts on is the one it read.                 *)
(***************************************************************************)
ExpiredWithEvidence(e, n) == \* mutant: rows without evidence are skipped
  rows[e][n].status = "RESERVED" /\ ~rows[e][n].live /\ rows[e][n].outcome # "NONE"

Expired(e, n) == rows[e][n].status = "RESERVED" /\ ~rows[e][n].live

SweepRead ==
  /\ sweep = {}
  /\ \E e \in Event, n \in Slot : Expired(e, n)
  /\ sweep' = {[event |-> s[1], slot |-> s[2], outcome |-> rows[s[1]][s[2]].outcome] :
                 s \in {t \in Event \X Slot : Expired(t[1], t[2])}}
  /\ UNCHANGED <<rows, dispatches, call, today, faults>>

VerdictWithoutEvidence(outcome) ==   \* mutant: no evidence is taken for no call
  IF outcome = "DISPATCHED" THEN "RECONCILED" ELSE "EXPIRED"

Verdict(outcome) == IF outcome = "PRE_CALL_FAILED" THEN "EXPIRED" ELSE "RECONCILED"

SweepSettle(x) ==
  /\ x \in sweep
  /\ sweep' = sweep \ {x}
  /\ IF rows[x.event][x.slot].status = "RESERVED"
     THEN SetRow(x.event, x.slot, [rows[x.event][x.slot] EXCEPT !.status = Verdict(x.outcome)])
     ELSE UNCHANGED rows
  /\ UNCHANGED <<dispatches, call, today, faults>>

Sweep == SweepRead \/ \E x \in sweep : SweepSettle(x)

-----------------------------------------------------------------------------
Step(w) ==
  \/ AcquireRead(w)
  \/ AcquireInsert(w)
  \/ RecordDispatched(w)
  \/ BeginAttempt(w)
  \/ Dispatch(w)
  \/ SettleBeforeNext(w)
  \/ ExecuteReturns(w)
  \/ ExecuteThrowsPreCall(w)
  \/ RecordPreCallFailed(w)
  \/ ReleaseVerified(w)

Next ==
  \/ \E w \in Worker, e \in Event : Start(w, e)
  \/ \E w \in Worker : Step(w) \/ DatabaseThrows(w) \/ Abandon(w)
  \/ \E e \in Event, n \in Slot : RowExpires(e, n)
  \/ NextDay
  \/ Sweep

Spec == Init /\ [][Next]_vars

\* Time passes, and the cleanup job, which runs the sweep, is on a schedule.
FairSpec ==
  /\ Spec
  /\ WF_vars(Sweep)
  /\ \A e \in Event, n \in Slot : WF_vars(RowExpires(e, n))

-----------------------------------------------------------------------------
(* Properties *)

Statuses == {"NONE", "RESERVED", "CONSUMED", "RELEASED", "EXPIRED", "RECONCILED"}
Outcomes == {"NONE", "DISPATCHED", "PRE_CALL_FAILED"}

Rows == [status : Statuses, window : 0 .. NumDays, outcome : Outcomes, live : BOOLEAN]

Calls ==
  {Idle} \cup
  [pc : {"read", "insert", "mark", "run", "dispatch", "settle", "preCall", "release"},
   event : Event, window : Day, priming : BOOLEAN, primed : BOOLEAN,
   slot : Slot \cup {NoSlot}, open : Slot \cup {NoSlot}]

TypeOK ==
  /\ rows \in [Event -> [Slot -> Rows]]
  /\ dispatches \in [Event -> [Slot -> Nat]]
  /\ call \in [Worker -> Calls]
  /\ today \in Day
  /\ sweep \subseteq [event : Event, slot : Slot, outcome : Outcomes]
  /\ faults \in 0 .. MaxFaults

\* A slot authorizes one request, so that an event makes at most MaxCalls of
\* them: across retries, racing workers, restarts and the change of the day
\* (acquireEventAttemptSlot, beginAttempt).
OneCallPerSlot == \A e \in Event, n \in Slot : dispatches[e][n] <= 1

\* A request that was sent is charged: its slot was reserved before, says
\* DISPATCHED, and is never released or expired, whatever the sweep had read
\* when (recordGeminiAttemptOutcome, reconcileExpiredReservations).
CallsAreCharged ==
  \A e \in Event, n \in Slot :
    dispatches[e][n] > 0 => rows[e][n].status \in Charged /\ rows[e][n].outcome = "DISPATCHED"

\* What was reserved and settled in time never exceeds the daily limit: only
\* a reservation that is settled after it expired can push a window over it
\* (the lock and the sum of acquireEventAttemptSlot).
OnTime(d) ==
  {s \in Event \X Slot :
     LET r == rows[s[1]][s[2]] IN r.window = d /\ r.live /\ r.status \in Charged}

OnTimeSpendWithinLimit == \A d \in Day : Cardinality(OnTime(d)) <= Room

\* A settled slot keeps its verdict: the gate's late settlement and the sweep
\* never overrule each other (consumeBudget, releaseBudget and the sweep).
VerdictsAreFinal ==
  [][\A e \in Event, n \in Slot :
       rows[e][n].status \notin {"NONE", "RESERVED"} => rows'[e][n] = rows[e][n]]_vars

\* No reservation blocks or hides spend for ever: each one is settled, even if
\* the worker that made it is gone.
EverySlotSettles ==
  \A e \in Event, n \in Slot :
    rows[e][n].status = "RESERVED" ~> rows[e][n].status # "RESERVED"
=============================================================================
