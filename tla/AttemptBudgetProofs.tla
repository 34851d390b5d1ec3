------------------------ MODULE AttemptBudgetProofs ------------------------
(***************************************************************************)
(* Theorems about AttemptBudget for any number of calls, events, attempts, *)
(* days and failures.  BudgetInv says who may still send a request under a *)
(* slot: its one holder, and only while the row carries the marker; a row  *)
(* that says PRE_CALL_FAILED has no holder that could.  LimitInv adds what *)
(* the advisory lock protects: between the sum and the insert of its       *)
(* holder nobody else reserves in the same window.                         *)
(***************************************************************************)
EXTENDS AttemptBudget, FiniteSetTheorems, TLAPS

Holds(w, e, n) == call[w].pc # "idle" /\ call[w].event = e /\ call[w].open = n

\* Where the gate stands decides what it may have sent, and whether it has a slot.
GateInv ==
  \A w \in Worker :
    LET c == call[w] IN
    /\ c.pc \in {"read", "insert"} => c.open = NoSlot
    /\ c.pc = "insert" => c.slot # NoSlot
    /\ c.pc \in {"mark", "dispatch", "settle", "preCall", "release"} => c.open # NoSlot
    /\ c.primed => c.open # NoSlot /\ c.pc \in {"run", "preCall", "release"}

UnsentInv ==
  \A w \in Worker, e \in Event, n \in Slot :
    Holds(w, e, n) =>
      /\ rows[e][n].status # "NONE"
      /\ call[w].pc \in {"mark", "dispatch", "preCall", "release"} \/ call[w].primed =>
           dispatches[e][n] = 0
      /\ call[w].pc = "dispatch" \/ (call[w].primed /\ call[w].pc = "run") =>
           rows[e][n].outcome = "DISPATCHED"
      /\ call[w].pc = "release" => rows[e][n].outcome = "PRE_CALL_FAILED"
      /\ rows[e][n].outcome = "PRE_CALL_FAILED" => call[w].pc = "release"

OneHolder ==
  \A v, w \in Worker, e \in Event, n \in Slot : Holds(v, e, n) /\ Holds(w, e, n) => v = w

RowInv ==
  \A e \in Event, n \in Slot :
    /\ dispatches[e][n] <= 1
    /\ dispatches[e][n] > 0 => rows[e][n].status # "NONE" /\ rows[e][n].outcome = "DISPATCHED"
    /\ rows[e][n].status \in {"RELEASED", "EXPIRED"} => rows[e][n].outcome = "PRE_CALL_FAILED"

\* The sweep's evidence of a pre-call failure is still in the row.
SweepInv ==
  \A x \in sweep :
    /\ rows[x.event][x.slot].status # "NONE"
    /\ x.outcome = "PRE_CALL_FAILED" => rows[x.event][x.slot].outcome = "PRE_CALL_FAILED"

BudgetInv == TypeOK /\ GateInv /\ UnsentInv /\ OneHolder /\ RowInv /\ SweepInv

OneInserter ==
  \A v, w \in Worker :
    At(v, "insert") /\ At(w, "insert") /\ call[v].window = call[w].window => v = w

InserterHasRoom ==
  \A w \in Worker, d \in Day :
    At(w, "insert") /\ call[w].window = d => Cardinality(OnTime(d)) + 1 <= Room

LimitInv == OneInserter /\ InserterHasRoom /\ OnTimeSpendWithinLimit

-----------------------------------------------------------------------------
(* Types. *)

\* What is known of a call that is not idle.
LEMMA CallTypes ==
  ASSUME TypeOK, NEW w \in Worker, call[w].pc # "idle"
  PROVE  /\ call[w] \in [pc : {"read", "insert", "mark", "run", "dispatch", "settle", "preCall", "release"},
                          event : Event, window : Day, priming : BOOLEAN, primed : BOOLEAN,
                          slot : Slot \cup {NoSlot}, open : Slot \cup {NoSlot}]
         /\ call[w].event \in Event
         /\ call[w].window \in Day
         /\ call[w].open # NoSlot => call[w].open \in Slot
         /\ call[w].slot # NoSlot => call[w].slot \in Slot
BY DEF TypeOK, Calls, Idle

\* A call that goes to a well-typed record keeps the type of all calls.
LEMMA GoTypes ==
  ASSUME TypeOK, NEW w \in Worker, NEW c \in Calls, Go(w, c)
  PROVE  call' \in [Worker -> Calls]
BY DEF TypeOK, Go

\* A refusal leaves a well-typed call.
LEMMA RefusedTypes ==
  ASSUME TypeOK, NEW w \in Worker, call[w].pc # "idle"
  PROVE  Refused(call[w]) \in Calls
BY CallTypes DEF Refused, Calls, Slot, NoSlot

\* A row that is set to a well-typed record keeps the type of all rows.
LEMMA RowTypes ==
  ASSUME TypeOK, NEW e \in Event, NEW n \in Slot, NEW r \in Rows, SetRow(e, n, r)
  PROVE  rows' \in [Event -> [Slot -> Rows]]
BY DEF TypeOK, SetRow

\* Rows, and a row whose fields are set to proper values.
LEMMA RowFields ==
  ASSUME TypeOK, NEW e \in Event, NEW n \in Slot
  PROVE  /\ rows[e][n] \in Rows
         /\ \A s \in Statuses : [rows[e][n] EXCEPT !.status = s] \in Rows
         /\ \A o \in Outcomes : [rows[e][n] EXCEPT !.outcome = o] \in Rows
         /\ [rows[e][n] EXCEPT !.live = FALSE] \in Rows
<1>1. rows[e] \in [Slot -> Rows]
  BY DEF TypeOK
<1>2. rows[e][n] \in Rows
  BY <1>1
<1>3. QED
  BY <1>2 DEF Rows

\* The fault counter keeps its bound.
LEMMA FaultTypes ==
  ASSUME TypeOK, Fault
  PROVE  faults' \in 0 .. MaxFaults
BY MaxFaultsAssumption DEF TypeOK, Fault

\* The invariant part that the types of the acquisition and the gate rest on.
LEMMA Located ==
  ASSUME TypeOK, GateInv, NEW w \in Worker
  PROVE  /\ call[w].pc = "insert" => call[w].slot \in Slot
         /\ call[w].pc \in {"mark", "dispatch", "settle", "preCall", "release"} =>
              call[w].open \in Slot
BY CallTypes DEF GateInv
LEMMA InitTypes == Init => TypeOK
BY NumDaysAssumption, MaxFaultsAssumption
DEF Init, TypeOK, NoRow, Rows, Statuses, Outcomes, Calls, Day

\* Each step keeps the types; where a slot is used the gate has one.
LEMMA NextTypes == TypeOK /\ GateInv /\ [Next]_vars => TypeOK'
<1> SUFFICES ASSUME TypeOK, GateInv, [Next]_vars PROVE TypeOK'
  OBVIOUS
<1>1. ASSUME NEW w \in Worker, NEW e \in Event, Start(w, e) PROVE TypeOK'
  <2>1. call' \in [Worker -> Calls]
    BY <1>1, GoTypes DEF Start, TypeOK, Idle, Calls
  <2>2. QED
    BY <1>1, <2>1 DEF Start, TypeOK
<1>2. ASSUME NEW w \in Worker, AcquireRead(w) PROVE TypeOK'
  <2>1. call[w].pc # "idle"
    BY <1>2 DEF AcquireRead, At
  <2>2. ASSUME NEW n \in Free(call[w].event)
        PROVE  [call[w] EXCEPT !.pc = "insert", !.slot = n] \in Calls
    BY <2>1, CallTypes DEF Free, Calls
  <2>3. call' \in [Worker -> Calls]
    BY <1>2, <2>1, <2>2, RefusedTypes, GoTypes DEF AcquireRead
  <2>4. QED
    BY <1>2, <2>3 DEF AcquireRead, TypeOK
<1>3. ASSUME NEW w \in Worker, AcquireInsert(w) PROVE TypeOK'
  <2>1. /\ call[w].pc # "idle"
        /\ call[w].event \in Event
        /\ call[w].slot \in Slot
        /\ NewRow(call[w].window) \in Rows
    BY <1>3, CallTypes, Located DEF AcquireInsert, At, NewRow, Rows, Statuses, Outcomes, Day
  <2>2. [call[w] EXCEPT !.pc = "mark", !.slot = NoSlot, !.open = call[w].slot] \in Calls
    BY <2>1, CallTypes DEF Calls
  <2>3. call' \in [Worker -> Calls]
    BY <1>3, <2>1, <2>2, RefusedTypes, GoTypes DEF AcquireInsert
  <2>4. rows' \in [Event -> [Slot -> Rows]]
    BY <1>3, <2>1, RowTypes DEF AcquireInsert, TypeOK
  <2>5. faults' \in 0 .. MaxFaults
    BY <1>3, FaultTypes DEF AcquireInsert, TypeOK
  <2>6. QED
    BY <1>3, <2>3, <2>4, <2>5 DEF AcquireInsert, TypeOK
<1>4. ASSUME NEW w \in Worker, RecordDispatched(w) PROVE TypeOK'
  <2>1. call[w].pc # "idle" /\ call[w].event \in Event /\ call[w].open \in Slot
    BY <1>4, CallTypes, Located DEF RecordDispatched, At
  <2>2. [rows[call[w].event][call[w].open] EXCEPT !.outcome = "DISPATCHED"] \in Rows
    BY <2>1, RowFields DEF Outcomes
  <2>3. Marked(call[w]) \in Calls
    BY <2>1, CallTypes DEF Marked, Calls
  <2>4. call' \in [Worker -> Calls]
    BY <1>4, <2>1, <2>3, RefusedTypes, GoTypes DEF RecordDispatched
  <2>5. rows' \in [Event -> [Slot -> Rows]]
    BY <1>4, <2>1, <2>2, RowTypes DEF RecordDispatched, TypeOK
  <2>6. faults' \in 0 .. MaxFaults
    BY <1>4, FaultTypes DEF RecordDispatched, TypeOK
  <2>7. QED
    BY <1>4, <2>4, <2>5, <2>6 DEF RecordDispatched, TypeOK
<1>5. ASSUME NEW w \in Worker, BeginAttempt(w) PROVE TypeOK'
  <2>1. call[w].pc # "idle"
    BY <1>5 DEF BeginAttempt, At
  <2>2. /\ TakesPrimed(call[w]) \in Calls
        /\ [call[w] EXCEPT !.pc = IF call[w].open = NoSlot THEN "read" ELSE "settle"] \in Calls
    BY <2>1, CallTypes DEF TakesPrimed, Calls
  <2>3. call' \in [Worker -> Calls]
    BY <1>5, <2>2, GoTypes DEF BeginAttempt
  <2>4. QED
    BY <1>5, <2>3 DEF BeginAttempt, TypeOK
<1>6. ASSUME NEW w \in Worker, Dispatch(w) PROVE TypeOK'
  <2>1. call[w].pc # "idle" /\ call[w].event \in Event /\ call[w].open \in Slot
    BY <1>6, CallTypes, Located DEF Dispatch, At
  <2>2. [call[w] EXCEPT !.pc = "run"] \in Calls
    BY <2>1, CallTypes DEF Calls
  <2>3. call' \in [Worker -> Calls]
    BY <1>6, <2>2, GoTypes DEF Dispatch
  <2>4. dispatches' \in [Event -> [Slot -> Nat]]
    <3>1. dispatches[call[w].event] \in [Slot -> Nat]
      BY <2>1 DEF TypeOK
    <3>2. dispatches[call[w].event][call[w].open] + 1 \in Nat
      BY <2>1, <3>1
    <3>3. QED
      BY <1>6, <2>1, <3>1, <3>2 DEF Dispatch, TypeOK
  <2>5. QED
    BY <1>6, <2>3, <2>4 DEF Dispatch, TypeOK
<1>7. ASSUME NEW w \in Worker, NEW c \in Calls, ~At(w, "idle"), Settle(w, c) PROVE TypeOK'
  <2>1. call' \in [Worker -> Calls]
    BY <1>7, GoTypes DEF Settle
  <2>2. ASSUME call[w].open # NoSlot
        PROVE  [rows[call[w].event][call[w].open] EXCEPT !.status = "CONSUMED"] \in Rows
    BY <1>7, <2>2, CallTypes, RowFields DEF At, Statuses
  <2>3. rows' \in [Event -> [Slot -> Rows]]
    BY <1>7, <2>2, CallTypes, RowTypes DEF At, Settle, Consume, TypeOK
  <2>4. faults' \in 0 .. MaxFaults
    BY <1>7, FaultTypes DEF Settle, TypeOK
  <2>5. QED
    BY <1>7, <2>1, <2>3, <2>4 DEF Settle, TypeOK
<1>8. ASSUME NEW w \in Worker, SettleBeforeNext(w) PROVE TypeOK'
  <2>1. [call[w] EXCEPT !.pc = "read", !.open = NoSlot] \in Calls
    BY <1>8, CallTypes DEF SettleBeforeNext, At, Calls
  <2>2. QED
    BY <1>7, <1>8, <2>1 DEF SettleBeforeNext, At
<1>9. ASSUME NEW w \in Worker, ExecuteReturns(w) PROVE TypeOK'
  BY <1>7, <1>9 DEF ExecuteReturns, At, Calls
<1>10. ASSUME NEW w \in Worker, ExecuteThrowsPreCall(w) PROVE TypeOK'
  <2>1. [call[w] EXCEPT !.pc = "preCall"] \in Calls
    BY <1>10, CallTypes DEF ExecuteThrowsPreCall, At, Calls
  <2>2. QED
    BY <1>10, <2>1, GoTypes DEF ExecuteThrowsPreCall, TypeOK
<1>11. ASSUME NEW w \in Worker, RecordPreCallFailed(w) PROVE TypeOK'
  <2>1. call[w].pc # "idle" /\ call[w].event \in Event /\ call[w].open \in Slot
    BY <1>11, CallTypes, Located DEF RecordPreCallFailed, At
  <2>2. [rows[call[w].event][call[w].open] EXCEPT !.outcome = "PRE_CALL_FAILED"] \in Rows
    BY <2>1, RowFields DEF Outcomes
  <2>3. Idle \in Calls /\ [call[w] EXCEPT !.pc = "release"] \in Calls
    BY <2>1, CallTypes DEF Calls
  <2>4. call' \in [Worker -> Calls]
    BY <1>11, <2>3, GoTypes DEF RecordPreCallFailed
  <2>5. rows' \in [Event -> [Slot -> Rows]]
    BY <1>11, <2>1, <2>2, RowTypes DEF RecordPreCallFailed, TypeOK
  <2>6. faults' \in 0 .. MaxFaults
    BY <1>11, FaultTypes DEF RecordPreCallFailed, TypeOK
  <2>7. QED
    BY <1>11, <2>4, <2>5, <2>6 DEF RecordPreCallFailed, TypeOK
<1>12. ASSUME NEW w \in Worker, ReleaseVerified(w) PROVE TypeOK'
  <2>1. call[w].event \in Event /\ call[w].open \in Slot
    BY <1>12, CallTypes, Located DEF ReleaseVerified, At
  <2>2. [rows[call[w].event][call[w].open] EXCEPT !.status = "RELEASED"] \in Rows
    BY <2>1, RowFields DEF Statuses
  <2>3. rows' \in [Event -> [Slot -> Rows]]
    BY <1>12, <2>1, <2>2, RowTypes DEF ReleaseVerified, TypeOK
  <2>4. QED
    BY <1>12, <2>3, GoTypes DEF ReleaseVerified, TypeOK, Calls
<1>13. ASSUME NEW w \in Worker, DatabaseThrows(w) PROVE TypeOK'
  BY <1>13, FaultTypes, RefusedTypes, GoTypes DEF DatabaseThrows, TypeOK, Calls
<1>14. ASSUME NEW w \in Worker, Abandon(w) PROVE TypeOK'
  BY <1>14, GoTypes DEF Abandon, TypeOK, Calls
<1>15. ASSUME NEW e \in Event, NEW n \in Slot, RowExpires(e, n) PROVE TypeOK'
  <2>1. [rows[e][n] EXCEPT !.live = FALSE] \in Rows
    BY RowFields
  <2>2. QED
    BY <1>15, <2>1, RowTypes DEF RowExpires, TypeOK
<1>16. CASE NextDay
  BY <1>16, NumDaysAssumption DEF NextDay, TypeOK, Day
<1>17. CASE SweepRead
  BY <1>17 DEF SweepRead, TypeOK, Rows
<1>18. ASSUME NEW x \in sweep, SweepSettle(x) PROVE TypeOK'
  <2>1. [rows[x.event][x.slot] EXCEPT !.status = Verdict(x.outcome)] \in Rows
    <3>1. x.event \in Event /\ x.slot \in Slot
      BY DEF TypeOK
    <3>2. QED
      BY <3>1, RowFields DEF Statuses, Verdict
  <2>2. x.event \in Event /\ x.slot \in Slot
    BY DEF TypeOK
  <2>3. rows' \in [Event -> [Slot -> Rows]]
    BY <1>18, <2>1, <2>2, RowTypes DEF SweepSettle, TypeOK
  <2>4. QED
    BY <1>18, <2>3 DEF SweepSettle, TypeOK
<1>19. CASE UNCHANGED vars
  BY <1>19 DEF vars, TypeOK
<1>20. QED
  BY <1>1, <1>2, <1>3, <1>4, <1>5, <1>6, <1>8, <1>9, <1>10, <1>11, <1>12, <1>13, <1>14, <1>15,
     <1>16, <1>17, <1>18, <1>19 DEF Next, Step, Sweep
-----------------------------------------------------------------------------
(* The inductive invariant. *)

\* Only the call that goes somewhere changes.
LEMMA GoEffect ==
  ASSUME TypeOK, NEW w \in Worker, NEW c, Go(w, c)
  PROVE  call'[w] = c /\ \A v \in Worker : v # w => call'[v] = call[v]
BY DEF TypeOK, Go

\* Only the row that is set changes.
LEMMA SetRowEffect ==
  ASSUME TypeOK, NEW e \in Event, NEW n \in Slot, NEW r, SetRow(e, n, r)
  PROVE  /\ rows'[e][n] = r
         /\ \A f \in Event, m \in Slot : f # e \/ m # n => rows'[f][m] = rows[f][m]
BY DEF TypeOK, SetRow

\* A step that leaves the table alone and takes one call from a slot, or
\* leaves it where nothing has to be unsent, keeps the invariant.
LEMMA CallMoves ==
  ASSUME BudgetInv, NEW w \in Worker, NEW c, Go(w, c), UNCHANGED <<rows, dispatches, sweep>>,
         \/ c = Idle
         \/ /\ c.pc \in {"read", "run", "settle", "insert", "dispatch", "preCall"}
            /\ c.pc \in {"read", "insert"} => c.open = NoSlot
            /\ c.pc = "insert" => c.slot # NoSlot
            /\ c.pc \in {"settle", "dispatch", "preCall"} => c.open # NoSlot
            /\ c.primed => call[w].primed /\ c.pc \in {"run", "preCall"} /\ c.open # NoSlot
            /\ c.open # NoSlot =>
                 /\ call[w].pc \notin {"idle", "release"}
                 /\ call[w].event = c.event
                 /\ call[w].open = c.open
            /\ c.pc = "dispatch" => call[w].primed /\ call[w].pc = "run"
            /\ c.pc = "run" /\ c.primed => call[w].pc = "run"
            /\ c.pc = "preCall" => dispatches[c.event][c.open] = 0
  PROVE  (GateInv /\ UnsentInv /\ OneHolder /\ RowInv /\ SweepInv)'
<1>1. TypeOK /\ GateInv /\ UnsentInv /\ OneHolder /\ RowInv /\ SweepInv
  BY DEF BudgetInv
<1>2. call'[w] = c /\ \A v \in Worker : v # w => call'[v] = call[v]
  BY <1>1, GoEffect
<1>3. GateInv'
  BY <1>1, <1>2 DEF GateInv, Idle
<1>4. \A v \in Worker, e \in Event, n \in Slot :
        Holds(v, e, n)' => Holds(v, e, n)
  BY <1>1, <1>2 DEF Holds, Idle, Slot, NoSlot
<1>5. UnsentInv'
  BY <1>1, <1>2, <1>4 DEF UnsentInv, Holds, Idle, Slot, NoSlot
<1>6. OneHolder'
  BY <1>1, <1>4 DEF OneHolder
<1>7. RowInv' /\ SweepInv'
  BY <1>1 DEF RowInv, SweepInv
<1>8. QED
  BY <1>3, <1>5, <1>6, <1>7
\* A step that only changes the status, or the lease, of one existing row, for
\* a refund with evidence, keeps the invariant wherever the call stays.
LEMMA RowMoves ==
  ASSUME BudgetInv, NEW e \in Event, NEW n \in Slot, NEW r, SetRow(e, n, r),
         rows[e][n].status # "NONE", r.status # "NONE", r.outcome = rows[e][n].outcome,
         r.status \in {"RELEASED", "EXPIRED"} => r.outcome = "PRE_CALL_FAILED",
         UNCHANGED <<dispatches, call>>, sweep' \subseteq sweep
  PROVE  (GateInv /\ UnsentInv /\ OneHolder /\ RowInv /\ SweepInv)'
<1>1. TypeOK /\ GateInv /\ UnsentInv /\ OneHolder /\ RowInv /\ SweepInv
  BY DEF BudgetInv
<1>2. /\ rows'[e][n] = r
      /\ \A f \in Event, m \in Slot : f # e \/ m # n => rows'[f][m] = rows[f][m]
  BY <1>1, SetRowEffect
<1>3. \A f \in Event, m \in Slot :
        /\ rows'[f][m].outcome = rows[f][m].outcome
        /\ rows[f][m].status # "NONE" => rows'[f][m].status # "NONE"
  BY <1>2
<1>4. GateInv' /\ OneHolder'
  BY <1>1 DEF GateInv, OneHolder, Holds
<1>5. UnsentInv'
  BY <1>1, <1>3 DEF UnsentInv, Holds
<1>6. RowInv'
  BY <1>1, <1>2, <1>3 DEF RowInv
<1>7. SweepInv'
  BY <1>1, <1>3 DEF SweepInv, TypeOK
<1>8. QED
  BY <1>4, <1>5, <1>6, <1>7

\* acquireEventAttemptSlot inserts: the new row's only holder is the call.
LEMMA InsertKeeps ==
  ASSUME BudgetInv, NEW w \in Worker, AcquireInsert(w)
  PROVE  (GateInv /\ UnsentInv /\ OneHolder /\ RowInv /\ SweepInv)'
<1> DEFINE e == call[w].event
           n == call[w].slot
<1>1. TypeOK /\ GateInv /\ UnsentInv /\ OneHolder /\ RowInv /\ SweepInv
  BY DEF BudgetInv
<1>2. call[w].pc = "insert" /\ e \in Event /\ n \in Slot /\ call[w].open = NoSlot
  BY <1>1, CallTypes, Located DEF AcquireInsert, At, GateInv
<1>3. ~call[w].primed
  BY <1>1, <1>2 DEF GateInv
<1>4. CASE ~KeyFree(e, n)
  <2>1. Go(w, Refused(call[w])) /\ UNCHANGED <<rows, dispatches, sweep>>
    BY <1>4 DEF AcquireInsert
  <2>2. QED
    BY <1>1, <1>2, <1>3, <2>1, CallTypes, CallMoves DEF Refused
<1>5. CASE KeyFree(e, n)
  <2>1. /\ rows'[e][n] = NewRow(call[w].window)
        /\ \A f \in Event, m \in Slot : f # e \/ m # n => rows'[f][m] = rows[f][m]
        /\ UNCHANGED <<dispatches, sweep>>
    BY <1>1, <1>2, <1>5, SetRowEffect DEF AcquireInsert
  <2>2. \A v \in Worker : ~Holds(v, e, n)
    BY <1>1, <1>2, <1>5 DEF KeyFree, UnsentInv
  <2>3. dispatches[e][n] = 0
    BY <1>1, <1>2, <1>5 DEF KeyFree, RowInv, TypeOK
  <2>4. \E c : /\ Go(w, c)
               /\ c = Refused(call[w]) \/ c = [call[w] EXCEPT !.pc = "mark", !.slot = NoSlot, !.open = n]
    BY <1>5 DEF AcquireInsert
  <2>5. PICK c : /\ Go(w, c)
                 /\ \/ c = Refused(call[w])
                    \/ c = [call[w] EXCEPT !.pc = "mark", !.slot = NoSlot, !.open = n]
    BY <2>4
  <2>6. call'[w] = c /\ \A v \in Worker : v # w => call'[v] = call[v]
    BY <1>1, <2>5, GoEffect
  <2>7. /\ c.pc \in {"idle", "run", "mark"}
        /\ c.pc # "idle" => c.event = e
        /\ c.pc = "mark" <=> c.open # NoSlot
        /\ c.pc = "mark" => c.open = n
        /\ ~c.primed
    <3>1. CASE c = Refused(call[w])
      BY <1>1, <1>2, <1>3, <3>1, CallTypes DEF Refused, Idle, Slot, NoSlot
    <3>2. CASE c = [call[w] EXCEPT !.pc = "mark", !.slot = NoSlot, !.open = n]
      BY <1>1, <1>2, <1>3, <3>2, CallTypes DEF Slot, NoSlot
    <3>3. QED
      BY <2>5, <3>1, <3>2
  <2>8. \A v \in Worker, f \in Event, m \in Slot :
          Holds(v, f, m)' => Holds(v, f, m) \/ (v = w /\ f = e /\ m = n)
    BY <1>2, <2>6, <2>7 DEF Holds, Slot, NoSlot
  <2>9. GateInv'
    BY <1>1, <2>6, <2>7 DEF GateInv
  <2>10. UnsentInv'
    BY <1>1, <1>2, <2>1, <2>2, <2>3, <2>6, <2>7, <2>8 DEF UnsentInv, Holds, NewRow
  <2>11. OneHolder'
    BY <1>1, <2>2, <2>8 DEF OneHolder
  <2>12. RowInv'
    BY <1>1, <2>1, <2>3 DEF RowInv, NewRow
  <2>13. SweepInv'
    BY <1>1, <1>2, <1>5, <2>1 DEF SweepInv, TypeOK, KeyFree
  <2>14. QED
    BY <2>9, <2>10, <2>11, <2>12, <2>13
<1>6. QED
  BY <1>4, <1>5

\* The marker is written by the only holder, for whom nothing was sent.
LEMMA MarkKeeps ==
  ASSUME BudgetInv, NEW w \in Worker, RecordDispatched(w)
  PROVE  (GateInv /\ UnsentInv /\ OneHolder /\ RowInv /\ SweepInv)'
<1> PICK e, n : e = call[w].event /\ n = call[w].open
  OBVIOUS
<1>1. TypeOK /\ GateInv /\ UnsentInv /\ OneHolder /\ RowInv /\ SweepInv
  BY DEF BudgetInv
<1>2. /\ e = call[w].event /\ n = call[w].open /\ e \in Event /\ n \in Slot
      /\ call[w].pc = "mark" /\ ~call[w].primed
  BY <1>1, CallTypes, Located DEF RecordDispatched, At, GateInv
<1>3. CASE rows[e][n].status # "RESERVED"
  <2>1. Go(w, Refused(call[w])) /\ UNCHANGED <<rows, dispatches, sweep>>
    BY <1>2, <1>3 DEF RecordDispatched
  <2>2. QED
    BY <1>1, <1>2, <2>1, CallMoves, CallTypes DEF Refused
<1>4. CASE rows[e][n].status = "RESERVED"
  <2>1. /\ rows'[e][n] = [rows[e][n] EXCEPT !.outcome = "DISPATCHED"]
        /\ \A f \in Event, m \in Slot : f # e \/ m # n => rows'[f][m] = rows[f][m]
        /\ UNCHANGED <<dispatches, sweep>>
    BY <1>1, <1>2, <1>4, SetRowEffect DEF RecordDispatched
  <2>2. rows'[e][n].outcome = "DISPATCHED" /\ rows'[e][n].status = "RESERVED"
    BY <1>1, <1>2, <1>4, <2>1, RowFields DEF Rows
  <2>3. Holds(w, e, n)
    BY <1>2 DEF Holds
  <2>4. dispatches[e][n] = 0 /\ rows[e][n].outcome # "PRE_CALL_FAILED"
    BY <1>1, <1>2, <2>3 DEF UnsentInv
  <2>5. PICK c : Go(w, c) /\ (c = Refused(call[w]) \/ c = Marked(call[w]))
    BY <1>2, <1>4 DEF RecordDispatched
  <2>6. call'[w] = c /\ \A v \in Worker : v # w => call'[v] = call[v]
    BY <1>1, <2>5, GoEffect
  <2>7. /\ c.pc \in {"idle", "run", "dispatch"}
        /\ c.pc # "idle" => c.event = e /\ c.open = n
        /\ c.primed => c.pc = "run"
    <3>1. CASE c = Refused(call[w])
      BY <1>1, <1>2, <3>1, CallTypes DEF Refused, Idle
    <3>2. CASE c = Marked(call[w])
      BY <1>1, <1>2, <3>2, CallTypes DEF Marked
    <3>3. QED
      BY <2>5, <3>1, <3>2
  <2>8. \A v \in Worker, f \in Event, m \in Slot : Holds(v, f, m)' => Holds(v, f, m)
    BY <1>2, <2>3, <2>6, <2>7 DEF Holds
  <2>9. GateInv'
    BY <1>1, <1>2, <2>6, <2>7 DEF GateInv, Slot, NoSlot
  <2>10. \A v \in Worker : Holds(v, e, n)' => v = w
    BY <1>1, <1>2, <2>3, <2>8 DEF OneHolder
  <2>11. UnsentInv'
    <3> SUFFICES ASSUME NEW v \in Worker, NEW f \in Event, NEW m \in Slot, Holds(v, f, m)'
                 PROVE  /\ rows'[f][m].status # "NONE"
                        /\ call'[v].pc \in {"mark", "dispatch", "preCall", "release"} \/ call'[v].primed =>
                             dispatches'[f][m] = 0
                        /\ call'[v].pc = "dispatch" \/ (call'[v].primed /\ call'[v].pc = "run") =>
                             rows'[f][m].outcome = "DISPATCHED"
                        /\ call'[v].pc = "release" => rows'[f][m].outcome = "PRE_CALL_FAILED"
                        /\ rows'[f][m].outcome = "PRE_CALL_FAILED" => call'[v].pc = "release"
      BY DEF UnsentInv
    <3>1. CASE v = w
      BY <1>2, <2>1, <2>2, <2>4, <2>6, <2>7, <3>1 DEF Holds
    <3>2. CASE v # w
      <4>1. f # e \/ m # n
        BY <2>10, <3>2
      <4>2. QED
        BY <1>1, <2>1, <2>6, <2>8, <3>2, <4>1 DEF UnsentInv
    <3>3. QED
      BY <3>1, <3>2
  <2>12. OneHolder'
    BY <1>1, <2>8 DEF OneHolder
  <2>13. RowInv'
    <3> SUFFICES ASSUME NEW f \in Event, NEW m \in Slot
                 PROVE  /\ dispatches'[f][m] <= 1
                        /\ dispatches'[f][m] > 0 =>
                             rows'[f][m].status # "NONE" /\ rows'[f][m].outcome = "DISPATCHED"
                        /\ rows'[f][m].status \in {"RELEASED", "EXPIRED"} =>
                             rows'[f][m].outcome = "PRE_CALL_FAILED"
      BY DEF RowInv
    <3>1. CASE f = e /\ m = n
      <4>1. dispatches'[f][m] = 0
        BY <2>1, <2>4, <3>1
      <4>2. /\ rows'[f][m].status = "RESERVED"
            /\ rows'[f][m].outcome = "DISPATCHED"
        BY <2>2, <3>1
      <4>3. QED
        BY <4>1, <4>2
    <3>2. CASE f # e \/ m # n
      BY <1>1, <2>1, <3>2 DEF RowInv
    <3>3. QED
      BY <3>1, <3>2
  <2>14. SweepInv'
    <3> SUFFICES ASSUME NEW x \in sweep
                 PROVE  /\ rows'[x.event][x.slot].status # "NONE"
                        /\ x.outcome = "PRE_CALL_FAILED" =>
                             rows'[x.event][x.slot].outcome = "PRE_CALL_FAILED"
      BY <2>1 DEF SweepInv
    <3>1. x.event \in Event /\ x.slot \in Slot
      BY <1>1 DEF TypeOK
    <3>2. CASE x.event = e /\ x.slot = n
      BY <1>1, <2>2, <2>4, <3>2 DEF SweepInv
    <3>3. CASE x.event # e \/ x.slot # n
      BY <1>1, <2>1, <3>1, <3>3 DEF SweepInv
    <3>4. QED
      BY <3>2, <3>3
  <2>15. QED
    BY <2>9, <2>11, <2>12, <2>13, <2>14
<1>5. QED
  BY <1>3, <1>4
\* A request is sent by the holder of a marked slot that has sent none.
LEMMA DispatchKeeps ==
  ASSUME BudgetInv, NEW w \in Worker, Dispatch(w)
  PROVE  (GateInv /\ UnsentInv /\ OneHolder /\ RowInv /\ SweepInv)'
<1> PICK e, n : e = call[w].event /\ n = call[w].open
  OBVIOUS
<1>1. TypeOK /\ GateInv /\ UnsentInv /\ OneHolder /\ RowInv /\ SweepInv
  BY DEF BudgetInv
<1>2. /\ e = call[w].event /\ n = call[w].open /\ e \in Event /\ n \in Slot
      /\ call[w].pc = "dispatch" /\ ~call[w].primed /\ Holds(w, e, n)
  BY <1>1, CallTypes, Located DEF Dispatch, At, GateInv, Holds
<1>3. /\ dispatches[e][n] = 0
      /\ rows[e][n].outcome = "DISPATCHED"
      /\ rows[e][n].status # "NONE"
  BY <1>1, <1>2 DEF UnsentInv
<1>4. /\ dispatches'[e][n] \in {0, 1}
      /\ \A f \in Event, m \in Slot : f # e \/ m # n => dispatches'[f][m] = dispatches[f][m]
      /\ UNCHANGED <<rows, sweep>>
  BY <1>1, <1>2, <1>3 DEF Dispatch, TypeOK
<1>5. /\ call'[w] = [call[w] EXCEPT !.pc = "run"]
      /\ \A v \in Worker : v # w => call'[v] = call[v]
  BY <1>1, GoEffect DEF Dispatch
<1>6. /\ call'[w].pc = "run" /\ call'[w].event = e /\ call'[w].open = n /\ ~call'[w].primed
  BY <1>1, <1>2, <1>5, CallTypes
<1>7. \A v \in Worker, f \in Event, m \in Slot : Holds(v, f, m)' => Holds(v, f, m)
  <2> SUFFICES ASSUME NEW v \in Worker, NEW f \in Event, NEW m \in Slot, Holds(v, f, m)'
               PROVE  Holds(v, f, m)
    OBVIOUS
  <2>1. CASE v = w
    <3>1. f = e /\ m = n
      BY <1>6, <2>1 DEF Holds
    <3>2. QED
      BY <1>2, <2>1, <3>1
  <2>2. CASE v # w
    BY <1>5, <2>2 DEF Holds
  <2>3. QED
    BY <2>1, <2>2
<1>8. GateInv'
  BY <1>1, <1>5, <1>6 DEF GateInv
<1>9. \A v \in Worker : Holds(v, e, n)' => v = w
  BY <1>1, <1>2, <1>7 DEF OneHolder
<1>10. UnsentInv'
  <2> SUFFICES ASSUME NEW v \in Worker, NEW f \in Event, NEW m \in Slot, Holds(v, f, m)'
               PROVE  /\ rows'[f][m].status # "NONE"
                      /\ call'[v].pc \in {"mark", "dispatch", "preCall", "release"} \/ call'[v].primed =>
                           dispatches'[f][m] = 0
                      /\ call'[v].pc = "dispatch" \/ (call'[v].primed /\ call'[v].pc = "run") =>
                           rows'[f][m].outcome = "DISPATCHED"
                      /\ call'[v].pc = "release" => rows'[f][m].outcome = "PRE_CALL_FAILED"
                      /\ rows'[f][m].outcome = "PRE_CALL_FAILED" => call'[v].pc = "release"
    BY DEF UnsentInv
  <2>1. CASE v = w
    <3>1. f = e /\ m = n
      BY <1>6, <2>1 DEF Holds
    <3>2. rows'[f][m] = rows[e][n]
      BY <1>4, <3>1
    <3>3. QED
      BY <1>3, <1>6, <2>1, <3>2
  <2>2. CASE v # w
    <3>1. f # e \/ m # n
      BY <1>9, <2>2
    <3>2. QED
      BY <1>1, <1>4, <1>5, <1>7, <2>2, <3>1 DEF UnsentInv
  <2>3. QED
    BY <2>1, <2>2
<1>11. OneHolder'
  BY <1>1, <1>7 DEF OneHolder
<1>12. RowInv'
  BY <1>1, <1>3, <1>4 DEF RowInv
<1>13. SweepInv'
  BY <1>1, <1>4 DEF SweepInv
<1>14. QED
  BY <1>8, <1>10, <1>11, <1>12, <1>13

\* A settlement charges the open slot, which keeps its evidence, and lets go of it.
LEMMA SettleKeeps ==
  ASSUME BudgetInv, NEW w \in Worker, NEW c, Settle(w, c), ~At(w, "idle"),
         \/ c = Idle
         \/ /\ c.pc = "read" /\ c.open = NoSlot
            /\ ~c.primed
  PROVE  (GateInv /\ UnsentInv /\ OneHolder /\ RowInv /\ SweepInv)'
<1> PICK e, n : e = call[w].event /\ n = call[w].open
  OBVIOUS
<1>1. TypeOK /\ GateInv /\ UnsentInv /\ OneHolder /\ RowInv /\ SweepInv
  BY DEF BudgetInv
<1>2. e = call[w].event /\ n = call[w].open /\ e \in Event /\ (n # NoSlot => n \in Slot)
  BY <1>1, CallTypes DEF At
<1>3. /\ call'[w] = c /\ \A v \in Worker : v # w => call'[v] = call[v]
      /\ UNCHANGED <<dispatches, sweep>>
  BY <1>1, GoEffect DEF Settle
<1>4. \/ UNCHANGED rows
      \/ /\ n \in Slot /\ rows[e][n].status = "RESERVED"
         /\ SetRow(e, n, [rows[e][n] EXCEPT !.status = "CONSUMED"])
  BY <1>2 DEF Settle, Consume
<1>5. \A f \in Event, m \in Slot :
        /\ rows'[f][m].outcome = rows[f][m].outcome
        /\ rows[f][m].status # "NONE" => rows'[f][m].status # "NONE"
        /\ rows'[f][m].status \in {"RELEASED", "EXPIRED"} =>
             rows[f][m].status \in {"RELEASED", "EXPIRED"}
  <2>1. CASE UNCHANGED rows
    BY <2>1
  <2>2. CASE /\ n \in Slot /\ rows[e][n].status = "RESERVED"
             /\ SetRow(e, n, [rows[e][n] EXCEPT !.status = "CONSUMED"])
    <3>1. rows[e][n] \in Rows
      BY <1>1, <1>2, <2>2, RowFields
    <3>2. QED
      BY <1>1, <1>2, <2>2, <3>1, SetRowEffect DEF Rows
  <2>3. QED
    BY <1>4, <2>1, <2>2
<1>6. \A v \in Worker, f \in Event, m \in Slot : Holds(v, f, m)' => Holds(v, f, m) /\ v # w
  BY <1>3 DEF Holds, Idle, Slot, NoSlot
<1>7. GateInv'
  BY <1>1, <1>3 DEF GateInv, Idle
<1>8. UnsentInv'
  BY <1>1, <1>3, <1>5, <1>6 DEF UnsentInv
<1>9. OneHolder'
  BY <1>1, <1>6 DEF OneHolder
<1>10. RowInv'
  BY <1>1, <1>3, <1>5 DEF RowInv
<1>11. SweepInv'
  BY <1>1, <1>3, <1>5 DEF SweepInv, TypeOK
<1>12. QED
  BY <1>7, <1>8, <1>9, <1>10, <1>11

\* The evidence of a pre-call failure is written by the only holder, who sent nothing.
LEMMA PreCallKeeps ==
  ASSUME BudgetInv, NEW w \in Worker, RecordPreCallFailed(w)
  PROVE  (GateInv /\ UnsentInv /\ OneHolder /\ RowInv /\ SweepInv)'
<1> PICK e, n : e = call[w].event /\ n = call[w].open
  OBVIOUS
<1>1. TypeOK /\ GateInv /\ UnsentInv /\ OneHolder /\ RowInv /\ SweepInv
  BY DEF BudgetInv
<1>2. /\ e = call[w].event /\ n = call[w].open /\ e \in Event /\ n \in Slot
      /\ call[w].pc = "preCall" /\ Holds(w, e, n)
  BY <1>1, CallTypes, Located DEF RecordPreCallFailed, At, Holds
<1>3. dispatches[e][n] = 0
  BY <1>1, <1>2 DEF UnsentInv
<1>4. CASE rows[e][n].status # "RESERVED"
  <2>1. Go(w, Idle) /\ UNCHANGED <<rows, dispatches, sweep>>
    BY <1>2, <1>4 DEF RecordPreCallFailed
  <2>2. QED
    BY <2>1, CallMoves
<1>5. CASE rows[e][n].status = "RESERVED"
  <2>1. /\ rows'[e][n] = [rows[e][n] EXCEPT !.outcome = "PRE_CALL_FAILED"]
        /\ \A f \in Event, m \in Slot : f # e \/ m # n => rows'[f][m] = rows[f][m]
        /\ UNCHANGED <<dispatches, sweep>>
    BY <1>1, <1>2, <1>5, SetRowEffect DEF RecordPreCallFailed
  <2>2. rows'[e][n].outcome = "PRE_CALL_FAILED" /\ rows'[e][n].status = "RESERVED"
    BY <1>1, <1>2, <1>5, <2>1, RowFields DEF Rows
  <2>3. PICK c : Go(w, c) /\ c \in {Idle, [call[w] EXCEPT !.pc = "release"]}
    BY <1>2, <1>5 DEF RecordPreCallFailed
  <2>4. call'[w] = c /\ \A v \in Worker : v # w => call'[v] = call[v]
    BY <1>1, <2>3, GoEffect
  <2>5. /\ c.pc \in {"idle", "release"}
        /\ c.pc = "release" => c.event = e /\ c.open = n
        /\ c.pc = "idle" => ~c.primed
    BY <1>1, <1>2, <2>3, CallTypes DEF Idle
  <2>6. \A v \in Worker, f \in Event, m \in Slot : Holds(v, f, m)' => Holds(v, f, m)
    BY <1>2, <2>4, <2>5 DEF Holds
  <2>7. GateInv'
    BY <1>1, <1>2, <2>4, <2>5 DEF GateInv, Slot, NoSlot
  <2>8. \A v \in Worker : Holds(v, e, n)' => v = w
    BY <1>1, <1>2, <2>6 DEF OneHolder
  <2>9. UnsentInv'
    <3> SUFFICES ASSUME NEW v \in Worker, NEW f \in Event, NEW m \in Slot, Holds(v, f, m)'
                 PROVE  /\ rows'[f][m].status # "NONE"
                        /\ call'[v].pc \in {"mark", "dispatch", "preCall", "release"} \/ call'[v].primed =>
                             dispatches'[f][m] = 0
                        /\ call'[v].pc = "dispatch" \/ (call'[v].primed /\ call'[v].pc = "run") =>
                             rows'[f][m].outcome = "DISPATCHED"
                        /\ call'[v].pc = "release" => rows'[f][m].outcome = "PRE_CALL_FAILED"
                        /\ rows'[f][m].outcome = "PRE_CALL_FAILED" => call'[v].pc = "release"
      BY DEF UnsentInv
    <3>1. CASE v = w
      BY <1>2, <1>3, <2>1, <2>2, <2>4, <2>5, <3>1 DEF Holds
    <3>2. CASE v # w
      <4>1. f # e \/ m # n
        BY <2>8, <3>2
      <4>2. QED
        BY <1>1, <2>1, <2>4, <2>6, <3>2, <4>1 DEF UnsentInv
    <3>3. QED
      BY <3>1, <3>2
  <2>10. OneHolder'
    BY <1>1, <2>6 DEF OneHolder
  <2>11. RowInv'
    <3> SUFFICES ASSUME NEW f \in Event, NEW m \in Slot
                 PROVE  /\ dispatches'[f][m] <= 1
                        /\ dispatches'[f][m] > 0 =>
                             rows'[f][m].status # "NONE" /\ rows'[f][m].outcome = "DISPATCHED"
                        /\ rows'[f][m].status \in {"RELEASED", "EXPIRED"} =>
                             rows'[f][m].outcome = "PRE_CALL_FAILED"
      BY DEF RowInv
    <3>1. CASE f = e /\ m = n
      <4>1. dispatches'[f][m] = 0
        BY <1>3, <2>1, <3>1
      <4>2. /\ rows'[f][m].status = "RESERVED"
            /\ rows'[f][m].outcome = "PRE_CALL_FAILED"
        BY <2>2, <3>1
      <4>3. QED
        BY <4>1, <4>2
    <3>2. CASE f # e \/ m # n
      BY <1>1, <2>1, <3>2 DEF RowInv
    <3>3. QED
      BY <3>1, <3>2
  <2>12. SweepInv'
    <3> SUFFICES ASSUME NEW x \in sweep
                 PROVE  /\ rows'[x.event][x.slot].status # "NONE"
                        /\ x.outcome = "PRE_CALL_FAILED" =>
                             rows'[x.event][x.slot].outcome = "PRE_CALL_FAILED"
      BY <2>1 DEF SweepInv
    <3>1. x.event \in Event /\ x.slot \in Slot
      BY <1>1 DEF TypeOK
    <3>2. CASE x.event = e /\ x.slot = n
      BY <2>2, <3>2
    <3>3. CASE x.event # e \/ x.slot # n
      BY <1>1, <2>1, <3>1, <3>3 DEF SweepInv
    <3>4. QED
      BY <3>2, <3>3
  <2>13. QED
    BY <2>7, <2>9, <2>10, <2>11, <2>12
<1>6. QED
  BY <1>4, <1>5

\* releaseBudget refunds a slot only with the evidence its holder wrote.
LEMMA ReleaseKeeps ==
  ASSUME BudgetInv, NEW w \in Worker, ReleaseVerified(w)
  PROVE  (GateInv /\ UnsentInv /\ OneHolder /\ RowInv /\ SweepInv)'
<1> PICK e, n : e = call[w].event /\ n = call[w].open
  OBVIOUS
<1>1. TypeOK /\ GateInv /\ UnsentInv /\ OneHolder /\ RowInv /\ SweepInv
  BY DEF BudgetInv
<1>2. /\ e = call[w].event /\ n = call[w].open /\ e \in Event /\ n \in Slot
      /\ call[w].pc = "release" /\ Holds(w, e, n)
  BY <1>1, CallTypes, Located DEF ReleaseVerified, At, Holds
<1>3. rows[e][n].outcome = "PRE_CALL_FAILED" /\ rows[e][n] \in Rows
  BY <1>1, <1>2, RowFields DEF UnsentInv
<1>4. /\ call'[w] = Idle /\ \A v \in Worker : v # w => call'[v] = call[v]
      /\ UNCHANGED <<dispatches, sweep>>
  BY <1>1, GoEffect DEF ReleaseVerified
<1>5. \/ UNCHANGED rows
      \/ /\ rows[e][n].status = "RESERVED"
         /\ SetRow(e, n, [rows[e][n] EXCEPT !.status = "RELEASED"])
  BY <1>2 DEF ReleaseVerified
<1>6. \A f \in Event, m \in Slot :
        /\ rows'[f][m].outcome = rows[f][m].outcome
        /\ rows[f][m].status # "NONE" => rows'[f][m].status # "NONE"
        /\ rows'[f][m].status \in {"RELEASED", "EXPIRED"} =>
             rows[f][m].outcome = "PRE_CALL_FAILED"
  <2>1. CASE UNCHANGED rows
    BY <1>1, <2>1 DEF RowInv
  <2>2. CASE /\ rows[e][n].status = "RESERVED"
             /\ SetRow(e, n, [rows[e][n] EXCEPT !.status = "RELEASED"])
    BY <1>1, <1>2, <1>3, <2>2, SetRowEffect DEF Rows, RowInv
  <2>3. QED
    BY <1>5, <2>1, <2>2
<1>7. \A v \in Worker, f \in Event, m \in Slot : Holds(v, f, m)' => Holds(v, f, m) /\ v # w
  BY <1>4 DEF Holds, Idle
<1>8. GateInv'
  BY <1>1, <1>4 DEF GateInv, Idle
<1>9. UnsentInv'
  BY <1>1, <1>4, <1>6, <1>7 DEF UnsentInv
<1>10. OneHolder'
  BY <1>1, <1>7 DEF OneHolder
<1>11. RowInv'
  BY <1>1, <1>4, <1>6 DEF RowInv
<1>12. SweepInv'
  BY <1>1, <1>4, <1>6 DEF SweepInv, TypeOK
<1>13. QED
  BY <1>8, <1>9, <1>10, <1>11, <1>12

\* The steps of a call that touch no row: they take nothing they did not hold.
LEMMA CallSteps ==
  ASSUME BudgetInv, NEW w \in Worker,
         \/ \E e \in Event : Start(w, e)
         \/ AcquireRead(w)
         \/ BeginAttempt(w)
         \/ ExecuteThrowsPreCall(w)
         \/ DatabaseThrows(w)
         \/ Abandon(w)
  PROVE  (GateInv /\ UnsentInv /\ OneHolder /\ RowInv /\ SweepInv)'
<1>1. TypeOK /\ GateInv
  BY DEF BudgetInv
<1>2. ASSUME NEW e \in Event, Start(w, e)
      PROVE  (GateInv /\ UnsentInv /\ OneHolder /\ RowInv /\ SweepInv)'
  <2>1. PICK c : /\ c = [Idle EXCEPT !.pc = "read", !.event = e, !.window = today, !.priming = TRUE]
                 /\ Go(w, c) /\ UNCHANGED <<rows, dispatches, sweep>>
    BY <1>2 DEF Start
  <2>2. c.pc = "read" /\ c.open = NoSlot /\ ~c.primed
    BY <2>1 DEF Idle
  <2>3. QED
    BY <2>1, <2>2, CallMoves
<1>3. CASE AcquireRead(w)
  <2>1. call[w].pc = "read" /\ call[w].open = NoSlot /\ ~call[w].primed
    BY <1>1, <1>3 DEF AcquireRead, At, GateInv
  <2>2. UNCHANGED <<rows, dispatches, sweep>>
    BY <1>3 DEF AcquireRead
  <2>3. CASE Go(w, Refused(call[w]))
    <3>1. Refused(call[w]) = Idle \/ Refused(call[w]) = [call[w] EXCEPT !.pc = "run", !.slot = NoSlot]
      BY DEF Refused
    <3>2. PICK c : c = Refused(call[w]) /\ Go(w, c)
      BY <2>3
    <3>3. c = Idle \/ (c.pc = "run" /\ c.open = NoSlot /\ ~c.primed)
      BY <1>1, <2>1, <3>1, <3>2, CallTypes
    <3>4. QED
      BY <2>2, <3>2, <3>3, CallMoves
  <2>4. CASE \E n \in Free(call[w].event) : Go(w, [call[w] EXCEPT !.pc = "insert", !.slot = n])
    <3>1. PICK n \in Free(call[w].event) : Go(w, [call[w] EXCEPT !.pc = "insert", !.slot = n])
      BY <2>4
    <3>2. n # NoSlot
      BY DEF Free, Slot, NoSlot
    <3>3. PICK c : c = [call[w] EXCEPT !.pc = "insert", !.slot = n] /\ Go(w, c)
      BY <3>1
    <3>4. c.pc = "insert" /\ c.slot = n /\ c.open = NoSlot /\ ~c.primed
      BY <1>1, <2>1, <3>3, CallTypes
    <3>5. QED
      BY <2>2, <3>2, <3>3, <3>4, CallMoves
  <2>5. QED
    BY <1>3, <2>3, <2>4 DEF AcquireRead
<1>4. CASE BeginAttempt(w)
  <2>1. call[w].pc = "run" /\ (call[w].primed => call[w].open # NoSlot)
    BY <1>1, <1>4 DEF BeginAttempt, At, GateInv
  <2>2. UNCHANGED <<rows, dispatches, sweep>>
    BY <1>4 DEF BeginAttempt
  <2>3. CASE call[w].primed
    <3>1. PICK c : c = TakesPrimed(call[w]) /\ Go(w, c)
      BY <1>4, <2>3 DEF BeginAttempt
    <3>2. /\ c.pc = "dispatch" /\ c.event = call[w].event /\ c.open = call[w].open /\ ~c.primed
      BY <1>1, <2>1, <3>1, CallTypes DEF TakesPrimed
    <3>3. QED
      BY <2>1, <2>2, <2>3, <3>1, <3>2, CallMoves
  <2>4. CASE ~call[w].primed
    <3>1. PICK c : /\ c = [call[w] EXCEPT !.pc = IF call[w].open = NoSlot THEN "read" ELSE "settle"]
                   /\ Go(w, c)
      BY <1>4, <2>4 DEF BeginAttempt
    <3>2. /\ c.pc = IF call[w].open = NoSlot THEN "read" ELSE "settle"
          /\ c.event = call[w].event /\ c.open = call[w].open /\ ~c.primed
      BY <1>1, <2>1, <2>4, <3>1, CallTypes
    <3>3. CASE call[w].open = NoSlot
      <4>1. c.pc = "read" /\ c.open = NoSlot /\ ~c.primed
        BY <3>2, <3>3
      <4>2. QED
        BY <2>2, <3>1, <4>1, CallMoves
    <3>4. CASE call[w].open # NoSlot
      <4>1. c.pc = "settle"
        BY <3>2, <3>4
      <4>2. QED
        BY <2>1, <2>2, <3>1, <3>2, <3>4, <4>1, CallMoves
    <3>5. QED
      BY <3>3, <3>4
  <2>5. QED
    BY <2>3, <2>4
<1>5. CASE ExecuteThrowsPreCall(w)
  <2>1. PICK c : /\ c = [call[w] EXCEPT !.pc = "preCall"] /\ Go(w, c)
                 /\ UNCHANGED <<rows, dispatches, sweep>>
    BY <1>5 DEF ExecuteThrowsPreCall
  <2>2. /\ call[w].pc = "run" /\ call[w].open # NoSlot
        /\ dispatches[call[w].event][call[w].open] = 0
    BY <1>5 DEF ExecuteThrowsPreCall, At
  <2>3. /\ c.pc = "preCall" /\ c.event = call[w].event /\ c.open = call[w].open
        /\ c.primed = call[w].primed
    BY <1>1, <2>1, <2>2, CallTypes
  <2>4. QED
    BY <2>1, <2>2, <2>3, CallMoves
<1>6. CASE DatabaseThrows(w)
  <2>1. UNCHANGED <<rows, dispatches, sweep>>
    BY <1>6 DEF DatabaseThrows
  <2>2. CASE Go(w, Idle)
    BY <2>1, <2>2, CallMoves
  <2>3. CASE call[w].pc \in {"read", "insert", "mark"} /\ Go(w, Refused(call[w]))
    <3>1. ~call[w].primed
      BY <1>1, <2>3 DEF GateInv
    <3>2. PICK c : c = Refused(call[w]) /\ Go(w, c)
      BY <2>3
    <3>3. \/ c = Idle
          \/ c.pc = "run" /\ c.event = call[w].event /\ c.open = call[w].open /\ ~c.primed
      BY <1>1, <2>3, <3>1, <3>2, CallTypes DEF Refused
    <3>4. QED
      BY <2>1, <2>3, <3>2, <3>3, CallMoves
  <2>4. QED
    BY <1>6, <2>2, <2>3 DEF DatabaseThrows
<1>7. CASE Abandon(w)
  BY <1>7, CallMoves DEF Abandon
<1>8. QED
  BY <1>2, <1>3, <1>4, <1>5, <1>6, <1>7

\* The table, the sweep and the clock move on their own.
LEMMA SweepSteps ==
  ASSUME BudgetInv,
         \/ \E e \in Event, n \in Slot : RowExpires(e, n)
         \/ NextDay
         \/ SweepRead
         \/ \E x \in sweep : SweepSettle(x)
         \/ UNCHANGED vars
  PROVE  (GateInv /\ UnsentInv /\ OneHolder /\ RowInv /\ SweepInv)'
<1>1. TypeOK /\ GateInv /\ UnsentInv /\ OneHolder /\ RowInv /\ SweepInv
  BY DEF BudgetInv
<1>2. ASSUME NEW e \in Event, NEW n \in Slot, RowExpires(e, n)
      PROVE  (GateInv /\ UnsentInv /\ OneHolder /\ RowInv /\ SweepInv)'
  <2>1. PICK r : r = [rows[e][n] EXCEPT !.live = FALSE] /\ SetRow(e, n, r)
    BY <1>2 DEF RowExpires
  <2>2. r.status = "RESERVED" /\ r.outcome = rows[e][n].outcome
    BY <1>1, <1>2, <2>1, RowFields DEF RowExpires, Rows
  <2>3. QED
    BY <1>2, <2>1, <2>2, RowMoves DEF RowExpires
<1>3. CASE NextDay \/ UNCHANGED vars
  <2>1. UNCHANGED <<rows, dispatches, call, sweep>>
    BY <1>3 DEF NextDay, vars
  <2>2. QED
    BY <1>1, <2>1 DEF GateInv, UnsentInv, OneHolder, RowInv, SweepInv, Holds
<1>4. CASE SweepRead
  <2>1. GateInv' /\ UnsentInv' /\ OneHolder' /\ RowInv'
    BY <1>1, <1>4 DEF SweepRead, GateInv, UnsentInv, OneHolder, RowInv, Holds
  <2>2. SweepInv'
    BY <1>4 DEF SweepRead, SweepInv, Expired
  <2>3. QED
    BY <2>1, <2>2
<1>5. ASSUME NEW x \in sweep, SweepSettle(x)
      PROVE  (GateInv /\ UnsentInv /\ OneHolder /\ RowInv /\ SweepInv)'
  <2>1. x.event \in Event /\ x.slot \in Slot
    BY <1>1 DEF TypeOK
  <2>2. sweep' \subseteq sweep /\ UNCHANGED <<dispatches, call>>
    BY <1>5 DEF SweepSettle
  <2>3. CASE rows[x.event][x.slot].status = "RESERVED"
    <3>1. PICK r : /\ r = [rows[x.event][x.slot] EXCEPT !.status = Verdict(x.outcome)]
                   /\ SetRow(x.event, x.slot, r)
      BY <1>5, <2>3 DEF SweepSettle
    <3>2. r.status = Verdict(x.outcome) /\ r.outcome = rows[x.event][x.slot].outcome
      BY <1>1, <2>1, <3>1, RowFields DEF Rows
    <3>3. r.status \in {"RELEASED", "EXPIRED"} => r.outcome = "PRE_CALL_FAILED"
      BY <1>1, <3>2 DEF Verdict, SweepInv
    <3>4. QED
      <4>1. r.status # "NONE"
        BY <3>2 DEF Verdict
      <4>2. QED
        BY <2>1, <2>2, <2>3, <3>1, <3>2, <3>3, <4>1, RowMoves
  <2>4. CASE rows[x.event][x.slot].status # "RESERVED"
    <3>1. UNCHANGED rows
      BY <1>5, <2>4 DEF SweepSettle
    <3>2. QED
      BY <1>1, <2>2, <3>1 DEF GateInv, UnsentInv, OneHolder, RowInv, SweepInv, Holds
  <2>5. QED
    BY <2>3, <2>4
<1>6. QED
  BY <1>2, <1>3, <1>4, <1>5

\* The strengthening is inductive, for any number of everything.
THEOREM Inductive == Spec => []BudgetInv
<1>1. Init => BudgetInv
  <2> SUFFICES ASSUME Init PROVE BudgetInv
    OBVIOUS
  <2>1. \A w \in Worker : call[w] = Idle
    BY DEF Init
  <2>2. GateInv
    BY <2>1 DEF GateInv, Idle
  <2>3. UnsentInv /\ OneHolder
    BY <2>1 DEF UnsentInv, OneHolder, Holds, Idle
  <2>4. RowInv /\ SweepInv
    BY DEF Init, RowInv, SweepInv, NoRow
  <2>5. QED
    BY <2>2, <2>3, <2>4, InitTypes DEF BudgetInv
<1>2. BudgetInv /\ [Next]_vars => BudgetInv'
  <2> SUFFICES ASSUME BudgetInv, [Next]_vars
               PROVE  (GateInv /\ UnsentInv /\ OneHolder /\ RowInv /\ SweepInv)'
    BY NextTypes DEF BudgetInv
  <2>1. ASSUME NEW w \in Worker, Step(w)
        PROVE  (GateInv /\ UnsentInv /\ OneHolder /\ RowInv /\ SweepInv)'
    <3>1. CASE AcquireRead(w) \/ BeginAttempt(w) \/ ExecuteThrowsPreCall(w)
      BY <3>1, CallSteps
    <3>2. CASE AcquireInsert(w)
      BY <3>2, InsertKeeps
    <3>3. CASE RecordDispatched(w)
      BY <3>3, MarkKeeps
    <3>4. CASE Dispatch(w)
      BY <3>4, DispatchKeeps
    <3>5. CASE SettleBeforeNext(w)
      <4>1. PICK c : /\ c = [call[w] EXCEPT !.pc = "read", !.open = NoSlot]
                     /\ Settle(w, c) /\ At(w, "settle")
        BY <3>5 DEF SettleBeforeNext
      <4>2. ~call[w].primed /\ ~At(w, "idle")
        BY <4>1 DEF At, BudgetInv, GateInv
      <4>3. c.pc = "read" /\ c.open = NoSlot /\ ~c.primed
        BY <4>1, <4>2, CallTypes DEF At, BudgetInv
      <4>4. QED
        BY <4>1, <4>2, <4>3, SettleKeeps
    <3>6. CASE ExecuteReturns(w)
      BY <3>6, SettleKeeps DEF ExecuteReturns, At
    <3>7. CASE RecordPreCallFailed(w)
      BY <3>7, PreCallKeeps
    <3>8. CASE ReleaseVerified(w)
      BY <3>8, ReleaseKeeps
    <3>9. QED
      BY <2>1, <3>1, <3>2, <3>3, <3>4, <3>5, <3>6, <3>7, <3>8 DEF Step
  <2>2. QED
    BY <2>1, CallSteps, SweepSteps DEF Next, Sweep
<1>3. QED
  BY <1>1, <1>2, PTL DEF Spec

\* Type correctness.
THEOREM TypeCorrect == Spec => []TypeOK
BY Inductive, PTL DEF BudgetInv

\* A slot authorizes at most one request: acquireEventAttemptSlot and
\* beginAttempt bound the requests of an event by MaxCalls.
THEOREM OneCall == Spec => []OneCallPerSlot
<1>1. BudgetInv => OneCallPerSlot
  BY DEF BudgetInv, RowInv, OneCallPerSlot
<1>2. QED
  BY <1>1, Inductive, PTL

\* A request that was sent stays charged (reconcileExpiredReservations and
\* releaseBudget never give its slot back).
THEOREM CallsCharged == Spec => []CallsAreCharged
<1>1. BudgetInv => CallsAreCharged
  <2> SUFFICES ASSUME BudgetInv, NEW e \in Event, NEW n \in Slot, dispatches[e][n] > 0
               PROVE  rows[e][n].status \in Charged /\ rows[e][n].outcome = "DISPATCHED"
    BY DEF CallsAreCharged
  <2>1. rows[e][n] \in Rows
    BY RowFields DEF BudgetInv
  <2>2. QED
    BY <2>1 DEF BudgetInv, RowInv, Rows, Statuses, Charged
<1>2. QED
  BY <1>1, Inductive, PTL

-----------------------------------------------------------------------------
(* Verdicts. *)

\* A row that is set while it is open leaves all settled rows alone.
LEMMA OpenRowSet ==
  ASSUME TypeOK, NEW e \in Event, NEW n \in Slot, NEW r, SetRow(e, n, r),
         rows[e][n].status \in {"NONE", "RESERVED"}
  PROVE  \A f \in Event, m \in Slot :
           rows[f][m].status \notin {"NONE", "RESERVED"} => rows'[f][m] = rows[f][m]
BY SetRowEffect

\* consumeBudget, releaseBudget and the sweep settle only what is still reserved.
THEOREM FinalVerdicts == Spec => VerdictsAreFinal
<1> DEFINE Final == \A e \in Event, n \in Slot :
                      rows[e][n].status \notin {"NONE", "RESERVED"} => rows'[e][n] = rows[e][n]
<1>1. BudgetInv /\ [Next]_vars => [Final]_vars
  <2> SUFFICES ASSUME BudgetInv, Next PROVE Final
    OBVIOUS
  <2> USE DEF At
  <2>1. TypeOK /\ GateInv
    BY DEF BudgetInv
  <2>2. CASE UNCHANGED rows
    BY <2>2
  <2>3. ASSUME NEW w \in Worker, AcquireInsert(w) PROVE Final
    <3>1. call[w].event \in Event /\ call[w].slot \in Slot
      BY <2>1, <2>3, CallTypes, Located DEF AcquireInsert
    <3>2. QED
      BY <2>1, <2>3, <3>1, OpenRowSet DEF AcquireInsert, KeyFree
  <2>4. ASSUME NEW w \in Worker, RecordDispatched(w) \/ RecordPreCallFailed(w) \/ ReleaseVerified(w)
        PROVE  Final
    <3>1. call[w].event \in Event /\ call[w].open \in Slot
      BY <2>1, <2>4, CallTypes, Located DEF RecordDispatched, RecordPreCallFailed, ReleaseVerified
    <3>2. CASE RecordDispatched(w)
      BY <2>1, <3>1, <3>2, OpenRowSet DEF RecordDispatched
    <3>3. CASE RecordPreCallFailed(w)
      BY <2>1, <3>1, <3>3, OpenRowSet DEF RecordPreCallFailed
    <3>4. CASE ReleaseVerified(w)
      BY <2>1, <3>1, <3>4, OpenRowSet DEF ReleaseVerified
    <3>5. QED
      BY <2>4, <3>2, <3>3, <3>4
  <2>5. ASSUME NEW w \in Worker, SettleBeforeNext(w) \/ ExecuteReturns(w) PROVE Final
    <3>1. PICK c : Settle(w, c) /\ call[w].pc # "idle"
      BY <2>5 DEF SettleBeforeNext, ExecuteReturns
    <3>2. CASE call[w].open = NoSlot
      BY <2>2, <3>1, <3>2 DEF Settle
    <3>3. CASE call[w].open # NoSlot
      BY <2>1, <2>2, <3>1, <3>3, CallTypes, OpenRowSet DEF Settle, Consume
    <3>4. QED
      BY <3>2, <3>3
  <2>6. ASSUME NEW e \in Event, NEW n \in Slot, RowExpires(e, n) PROVE Final
    BY <2>1, <2>6, OpenRowSet DEF RowExpires
  <2>7. ASSUME NEW x \in sweep, SweepSettle(x) PROVE Final
    <3>1. x.event \in Event /\ x.slot \in Slot
      BY <2>1 DEF TypeOK
    <3>2. QED
      BY <2>1, <2>7, <3>1, OpenRowSet DEF SweepSettle
  <2>8. QED
    BY <2>2, <2>3, <2>4, <2>5, <2>6, <2>7
    DEF Next, Step, Sweep, Start, AcquireRead, BeginAttempt, Dispatch, ExecuteThrowsPreCall,
        DatabaseThrows, Abandon, NextDay, SweepRead
<1>2. QED
  BY Inductive, <1>1, PTL DEF Spec, VerdictsAreFinal

-----------------------------------------------------------------------------
(* The daily limit. *)

\* What a window was charged in time is a finite set, and part of what the
\* acquisition sums up.
LEMMA OnTimeFinite ==
  ASSUME NEW d \in Day
  PROVE  /\ IsFiniteSet(OnTime(d)) /\ IsFiniteSet(Committed(d))
         /\ Cardinality(OnTime(d)) \in Nat /\ Cardinality(Committed(d)) \in Nat
         /\ Cardinality(OnTime(d)) <= Cardinality(Committed(d))
<1>1. IsFiniteSet(Event \X Slot)
  <2>1. 1 \in Int /\ MaxCalls \in Int
    BY MaxCallsAssumption
  <2>2. IsFiniteSet(Slot)
    BY <2>1, FS_Interval DEF Slot
  <2>3. QED
    BY <2>2, EventAssumption, FS_Product
<1>2. OnTime(d) \subseteq Committed(d) /\ Committed(d) \subseteq Event \X Slot
  BY DEF OnTime, Committed, Charged
<1>3. IsFiniteSet(Committed(d))
  BY <1>1, <1>2, FS_Subset
<1>4. IsFiniteSet(OnTime(d)) /\ Cardinality(OnTime(d)) <= Cardinality(Committed(d))
  BY <1>2, <1>3, FS_Subset
<1>5. QED
  BY <1>3, <1>4, FS_CardinalityType

\* A window's charge does not grow when an open reservation is settled or expires.
LEMMA RowShrinks ==
  ASSUME TypeOK, NEW e \in Event, NEW n \in Slot, NEW r, SetRow(e, n, r),
         rows[e][n].status = "RESERVED", r.window = rows[e][n].window,
         r.live => rows[e][n].live
  PROVE  \A d \in Day : OnTime(d)' \subseteq OnTime(d)
<1> SUFFICES ASSUME NEW d \in Day, NEW s \in OnTime(d)' PROVE s \in OnTime(d)
  OBVIOUS
<1>1. s \in Event \X Slot /\ s[1] \in Event /\ s[2] \in Slot
  BY DEF OnTime
<1>2. CASE s[1] = e /\ s[2] = n
  BY <1>1, <1>2, SetRowEffect DEF OnTime, Charged
<1>3. CASE s[1] # e \/ s[2] # n
  BY <1>1, <1>3, SetRowEffect DEF OnTime
<1>4. QED
  BY <1>2, <1>3

\* A step by which no window's charge grows and nobody comes to the insert
\* keeps the limit.
LEMMA LimitShrinks ==
  ASSUME TypeOK, LimitInv,
         \A d \in Day : OnTime(d)' \subseteq OnTime(d),
         \A w \in Worker : At(w, "insert")' => At(w, "insert") /\ call'[w].window = call[w].window
  PROVE  LimitInv'
<1>1. \A d \in Day : Cardinality(OnTime(d)') <= Cardinality(OnTime(d))
  BY OnTimeFinite, FS_Subset
<1>2. \A d \in Day : Cardinality(OnTime(d)') \in Nat /\ Cardinality(OnTime(d)) \in Nat
  BY OnTimeFinite, <1>1, FS_Subset, FS_CardinalityType
<1>3. OneInserter'
  BY DEF LimitInv, OneInserter
<1>4. InserterHasRoom'
  BY <1>1, <1>2, RoomAssumption DEF LimitInv, InserterHasRoom
<1>5. OnTimeSpendWithinLimit'
  BY <1>1, <1>2, RoomAssumption DEF LimitInv, OnTimeSpendWithinLimit
<1>6. QED
  BY <1>3, <1>4, <1>5 DEF LimitInv

\* Unchanged rows charge the same.
LEMMA SameCharge ==
  ASSUME UNCHANGED rows
  PROVE  \A d \in Day : OnTime(d)' \subseteq OnTime(d)
BY DEF OnTime

\* A call that goes anywhere but to the insert adds no inserter.
LEMMA NoInserter ==
  ASSUME TypeOK, NEW w \in Worker, NEW c, Go(w, c), c.pc # "insert"
  PROVE  \A v \in Worker : At(v, "insert")' => At(v, "insert") /\ call'[v].window = call[v].window
BY GoEffect DEF At

\* acquireEventAttemptSlot goes on to its insert only with the lock and with room.
LEMMA ReadKeepsLimit ==
  ASSUME BudgetInv, LimitInv, NEW w \in Worker, AcquireRead(w)
  PROVE  LimitInv'
<1>1. TypeOK /\ UNCHANGED rows /\ At(w, "read") /\ LockFree(w)
  BY DEF BudgetInv, AcquireRead
<1>2. CASE Go(w, Refused(call[w]))
  <2>1. Refused(call[w]).pc # "insert"
    BY <1>1, CallTypes DEF Refused, Idle, At
  <2>2. QED
    BY <1>1, <1>2, <2>1, NoInserter, SameCharge, LimitShrinks
<1>3. CASE /\ HasRoom(call[w].window)
           /\ \E n \in Free(call[w].event) : Go(w, [call[w] EXCEPT !.pc = "insert", !.slot = n])
  <2>1. call[w].window \in Day
    BY <1>1, CallTypes DEF At
  <2>2. /\ call'[w].window = call[w].window
        /\ \A v \in Worker : v # w => call'[v] = call[v]
    <3>1. PICK n \in Free(call[w].event) : Go(w, [call[w] EXCEPT !.pc = "insert", !.slot = n])
      BY <1>3
    <3>2. /\ call'[w] = [call[w] EXCEPT !.pc = "insert", !.slot = n]
          /\ \A v \in Worker : v # w => call'[v] = call[v]
      BY <1>1, <3>1, GoEffect
    <3>3. [call[w] EXCEPT !.pc = "insert", !.slot = n].window = call[w].window
      BY <1>1, CallTypes DEF At
    <3>4. QED
      BY <3>2, <3>3
  <2>3. \A d \in Day : OnTime(d)' = OnTime(d)
    BY <1>1 DEF OnTime
  <2>4. OneInserter'
    BY <1>1, <2>2 DEF LimitInv, OneInserter, LockFree, At
  <2>5. InserterHasRoom'
    <3> SUFFICES ASSUME NEW v \in Worker, NEW d \in Day, At(v, "insert")', call'[v].window = d
                 PROVE  Cardinality(OnTime(d)) + 1 <= Room
      BY <2>3 DEF InserterHasRoom
    <3>1. CASE v = w
      <4>1. Cardinality(Committed(d)) + 1 <= Room
        BY <1>3, <2>2, <3>1 DEF HasRoom
      <4>2. QED
        BY <4>1, OnTimeFinite, RoomAssumption
    <3>2. CASE v # w
      BY <2>2, <3>2 DEF LimitInv, InserterHasRoom, At
    <3>3. QED
      BY <3>1, <3>2
  <2>6. OnTimeSpendWithinLimit'
    BY <2>3 DEF LimitInv, OnTimeSpendWithinLimit
  <2>7. QED
    BY <2>4, <2>5, <2>6 DEF LimitInv
<1>4. QED
  BY <1>2, <1>3 DEF AcquireRead

\* The insert takes the room that was seen: nobody else was about to.
LEMMA InsertKeepsLimit ==
  ASSUME BudgetInv, LimitInv, NEW w \in Worker, AcquireInsert(w)
  PROVE  LimitInv'
<1> PICK e, n, b : e = call[w].event /\ n = call[w].slot /\ b = call[w].window
  OBVIOUS
<1>1. /\ TypeOK /\ GateInv
      /\ e \in Event /\ n \in Slot /\ b \in Day
      /\ At(w, "insert") /\ call[w].window = b
  BY CallTypes, Located DEF BudgetInv, AcquireInsert, At
<1>2. \E c : Go(w, c) /\ c.pc # "insert"
  <2>1. Refused(call[w]).pc # "insert"
    BY <1>1, CallTypes DEF Refused, Idle, At
  <2>2. [call[w] EXCEPT !.pc = "mark", !.slot = NoSlot, !.open = n].pc # "insert"
    BY <1>1, CallTypes DEF At
  <2>3. QED
    BY <2>1, <2>2 DEF AcquireInsert
<1>3. \A v \in Worker : At(v, "insert")' => At(v, "insert") /\ call'[v].window = call[v].window
  BY <1>1, <1>2, NoInserter
<1>4. ~At(w, "insert")'
  BY <1>1, <1>2, GoEffect DEF At
<1>5. CASE ~KeyFree(e, n)
  BY <1>1, <1>3, <1>5, SameCharge, LimitShrinks DEF AcquireInsert
<1>6. CASE KeyFree(e, n)
  <2>1. SetRow(e, n, NewRow(b))
    BY <1>6 DEF AcquireInsert
  <2>2. /\ rows'[e][n] = NewRow(b)
        /\ \A f \in Event, m \in Slot : f # e \/ m # n => rows'[f][m] = rows[f][m]
    BY <1>1, <2>1, SetRowEffect
  <2>3. \A d \in Day : OnTime(d)' \subseteq OnTime(d) \cup {<<e, n>>}
    BY <2>2 DEF OnTime
  <2>4. \A d \in Day : d # b => OnTime(d)' \subseteq OnTime(d)
    <3> SUFFICES ASSUME NEW d \in Day, d # b, NEW s \in OnTime(d)' PROVE s \in OnTime(d)
      OBVIOUS
    <3>1. rows'[s[1]][s[2]].window = d
      BY DEF OnTime
    <3>2. s # <<e, n>>
      BY <2>2, <3>1 DEF NewRow
    <3>3. QED
      BY <2>3, <3>2
  <2>5. ASSUME NEW d \in Day
        PROVE  /\ Cardinality(OnTime(d)') \in Nat
               /\ Cardinality(OnTime(d)') <= Cardinality(OnTime(d)) + 1
               /\ d # b => Cardinality(OnTime(d)') <= Cardinality(OnTime(d))
    <3>1. IsFiniteSet(OnTime(d)) /\ Cardinality(OnTime(d)) \in Nat
      BY OnTimeFinite
    <3>2. /\ IsFiniteSet(OnTime(d) \cup {<<e, n>>})
          /\ Cardinality(OnTime(d) \cup {<<e, n>>}) <= Cardinality(OnTime(d)) + 1
      <4>1. Cardinality(OnTime(d) \cup {<<e, n>>}) =
              IF <<e, n>> \in OnTime(d) THEN Cardinality(OnTime(d)) ELSE Cardinality(OnTime(d)) + 1
        BY <3>1, FS_AddElement
      <4>2. QED
        BY <3>1, <4>1, FS_AddElement
    <3>3. /\ IsFiniteSet(OnTime(d)')
          /\ Cardinality(OnTime(d)') <= Cardinality(OnTime(d) \cup {<<e, n>>})
      BY <2>3, <3>2, FS_Subset
    <3>4. d # b => Cardinality(OnTime(d)') <= Cardinality(OnTime(d))
      BY <2>4, <3>1, FS_Subset
    <3>5. QED
      BY <3>1, <3>2, <3>3, <3>4, FS_CardinalityType
  <2>6. OneInserter'
    BY <1>3 DEF LimitInv, OneInserter
  <2>7. InserterHasRoom'
    <3> SUFFICES ASSUME NEW v \in Worker, NEW d \in Day, At(v, "insert")', call'[v].window = d
                 PROVE  Cardinality(OnTime(d)') + 1 <= Room
      BY DEF InserterHasRoom
    <3>1. v # w /\ At(v, "insert") /\ call[v].window = d
      BY <1>3, <1>4
    <3>2. d # b
      BY <1>1, <3>1 DEF LimitInv, OneInserter
    <3>3. Cardinality(OnTime(d)) + 1 <= Room
      BY <3>1 DEF LimitInv, InserterHasRoom
    <3>4. QED
      BY <2>5, <3>2, <3>3, OnTimeFinite, RoomAssumption
  <2>8. OnTimeSpendWithinLimit'
    <3> SUFFICES ASSUME NEW d \in Day PROVE Cardinality(OnTime(d)') <= Room
      BY DEF OnTimeSpendWithinLimit
    <3>1. d = b => Cardinality(OnTime(d)) + 1 <= Room
      BY <1>1 DEF LimitInv, InserterHasRoom
    <3>2. Cardinality(OnTime(d)) <= Room
      BY DEF LimitInv, OnTimeSpendWithinLimit
    <3>3. QED
      BY <2>5, <3>1, <3>2, OnTimeFinite, RoomAssumption
  <2>9. QED
    BY <2>6, <2>7, <2>8 DEF LimitInv
<1>7. QED
  BY <1>5, <1>6

\* Every other step settles what was reserved, or touches no row at all.
LEMMA OthersKeepLimit ==
  ASSUME BudgetInv, LimitInv, [Next]_vars,
         \A w \in Worker : ~AcquireRead(w) /\ ~AcquireInsert(w)
  PROVE  LimitInv'
<1>1. TypeOK /\ GateInv
  BY DEF BudgetInv
<1>2. ASSUME NEW w \in Worker, NEW c, Go(w, c), c.pc # "insert", UNCHANGED rows
      PROVE  LimitInv'
  BY <1>1, <1>2, NoInserter, SameCharge, LimitShrinks
<1>3. ASSUME NEW w \in Worker, NEW c, Go(w, c), c.pc # "insert",
             NEW e \in Event, NEW n \in Slot, NEW r, SetRow(e, n, r),
             rows[e][n].status = "RESERVED", r.window = rows[e][n].window, r.live = rows[e][n].live
      PROVE  LimitInv'
  BY <1>1, <1>3, NoInserter, RowShrinks, LimitShrinks
<1>4. ASSUME UNCHANGED call, \A d \in Day : OnTime(d)' \subseteq OnTime(d)
      PROVE  LimitInv'
  BY <1>1, <1>4, LimitShrinks DEF At
<1>5. ASSUME NEW w \in Worker, NEW e \in Event, Start(w, e) PROVE LimitInv'
  <2>1. PICK c : c = [Idle EXCEPT !.pc = "read", !.event = e, !.window = today, !.priming = TRUE] /\ Go(w, c)
    BY <1>5 DEF Start
  <2>2. QED
    BY <1>2, <1>5, <2>1 DEF Start, Idle
<1>6. ASSUME NEW w \in Worker, BeginAttempt(w) \/ Dispatch(w) \/ ExecuteThrowsPreCall(w)
      PROVE  LimitInv'
  <2>1. call[w].pc # "idle" /\ UNCHANGED rows
    BY <1>6 DEF BeginAttempt, Dispatch, ExecuteThrowsPreCall, At
  <2>2. \A p : p # "insert" => [call[w] EXCEPT !.pc = p].pc # "insert"
    BY <1>1, <2>1, CallTypes
  <2>3. TakesPrimed(call[w]).pc # "insert"
    BY <1>1, <2>1, CallTypes DEF TakesPrimed
  <2>4. QED
    BY <1>2, <1>6, <2>1, <2>2, <2>3 DEF BeginAttempt, Dispatch, ExecuteThrowsPreCall
<1>7. ASSUME NEW w \in Worker, DatabaseThrows(w) \/ Abandon(w) PROVE LimitInv'
  <2>1. call[w].pc # "idle" /\ UNCHANGED rows
    BY <1>7 DEF DatabaseThrows, Abandon, At
  <2>2. Refused(call[w]).pc # "insert" /\ Idle.pc # "insert"
    BY <1>1, <2>1, CallTypes DEF Refused, Idle
  <2>3. QED
    BY <1>2, <1>7, <2>1, <2>2 DEF DatabaseThrows, Abandon
<1>8. ASSUME NEW w \in Worker, NEW c, Settle(w, c), ~At(w, "idle"), c.pc # "insert" PROVE LimitInv'
  <2>1. Go(w, c)
    BY <1>8 DEF Settle
  <2>2. CASE UNCHANGED rows
    BY <1>2, <1>8, <2>1, <2>2
  <2>3. CASE ~(UNCHANGED rows)
    <3>1. /\ call[w].open # NoSlot
          /\ rows[call[w].event][call[w].open].status = "RESERVED"
          /\ SetRow(call[w].event, call[w].open,
                    [rows[call[w].event][call[w].open] EXCEPT !.status = "CONSUMED"])
      BY <1>8, <2>3 DEF Settle, Consume
    <3>2. call[w].event \in Event /\ call[w].open \in Slot
      BY <1>1, <1>8, <3>1, CallTypes DEF At
    <3>3. rows[call[w].event][call[w].open] \in Rows
      BY <1>1, <3>2, RowFields
    <3>4. PICK r : /\ r = [rows[call[w].event][call[w].open] EXCEPT !.status = "CONSUMED"]
                   /\ SetRow(call[w].event, call[w].open, r)
      BY <3>1
    <3>5. /\ r.window = rows[call[w].event][call[w].open].window
          /\ r.live = rows[call[w].event][call[w].open].live
      BY <3>3, <3>4 DEF Rows
    <3>6. QED
      BY <1>3, <1>8, <2>1, <3>1, <3>2, <3>4, <3>5
  <2>4. QED
    BY <2>2, <2>3
<1>9. ASSUME NEW w \in Worker, SettleBeforeNext(w) \/ ExecuteReturns(w) PROVE LimitInv'
  <2>1. CASE SettleBeforeNext(w)
    <3>1. [call[w] EXCEPT !.pc = "read", !.open = NoSlot].pc # "insert"
      BY <1>1, <2>1, CallTypes DEF SettleBeforeNext, At
    <3>2. QED
      BY <1>8, <2>1, <3>1 DEF SettleBeforeNext, At
  <2>2. CASE ExecuteReturns(w)
    BY <1>8, <2>2 DEF ExecuteReturns, At, Idle
  <2>3. QED
    BY <1>9, <2>1, <2>2
<1>10. ASSUME NEW w \in Worker, RecordDispatched(w) \/ RecordPreCallFailed(w) \/ ReleaseVerified(w)
       PROVE  LimitInv'
  <2> PICK e, n : e = call[w].event /\ n = call[w].open
    OBVIOUS
  <2>1. /\ e = call[w].event /\ n = call[w].open /\ e \in Event /\ n \in Slot
        /\ call[w].pc # "idle"
    BY <1>1, <1>10, CallTypes, Located
    DEF RecordDispatched, RecordPreCallFailed, ReleaseVerified, At
  <2>2. /\ Refused(call[w]).pc # "insert" /\ Marked(call[w]).pc # "insert" /\ Idle.pc # "insert"
        /\ [call[w] EXCEPT !.pc = "release"].pc # "insert"
    BY <1>1, <2>1, CallTypes DEF Refused, Marked, Idle
  <2>3. \E c : Go(w, c) /\ c.pc # "insert"
    <3>1. CASE RecordDispatched(w)
      BY <2>2, <3>1 DEF RecordDispatched
    <3>2. CASE RecordPreCallFailed(w)
      BY <2>2, <3>2 DEF RecordPreCallFailed
    <3>3. CASE ReleaseVerified(w)
      BY <2>2, <3>3 DEF ReleaseVerified
    <3>4. QED
      BY <1>10, <3>1, <3>2, <3>3
  <2>4. CASE UNCHANGED rows
    BY <1>2, <2>3, <2>4
  <2>5. CASE ~(UNCHANGED rows)
    <3>1. /\ rows[e][n].status = "RESERVED"
          /\ \/ SetRow(e, n, [rows[e][n] EXCEPT !.outcome = "DISPATCHED"])
             \/ SetRow(e, n, [rows[e][n] EXCEPT !.outcome = "PRE_CALL_FAILED"])
             \/ SetRow(e, n, [rows[e][n] EXCEPT !.status = "RELEASED"])
      BY <1>10, <2>1, <2>5 DEF RecordDispatched, RecordPreCallFailed, ReleaseVerified
    <3>2. rows[e][n] \in Rows
      BY <1>1, <2>1, RowFields
    <3>3. \E r : SetRow(e, n, r) /\ r.window = rows[e][n].window /\ r.live = rows[e][n].live
      <4>1. /\ [rows[e][n] EXCEPT !.outcome = "DISPATCHED"].window = rows[e][n].window
            /\ [rows[e][n] EXCEPT !.outcome = "DISPATCHED"].live = rows[e][n].live
        BY <3>2 DEF Rows
      <4>2. /\ [rows[e][n] EXCEPT !.outcome = "PRE_CALL_FAILED"].window = rows[e][n].window
            /\ [rows[e][n] EXCEPT !.outcome = "PRE_CALL_FAILED"].live = rows[e][n].live
        BY <3>2 DEF Rows
      <4>3. /\ [rows[e][n] EXCEPT !.status = "RELEASED"].window = rows[e][n].window
            /\ [rows[e][n] EXCEPT !.status = "RELEASED"].live = rows[e][n].live
        BY <3>2 DEF Rows
      <4>4. CASE SetRow(e, n, [rows[e][n] EXCEPT !.outcome = "DISPATCHED"])
        BY <4>1, <4>4
      <4>5. CASE SetRow(e, n, [rows[e][n] EXCEPT !.outcome = "PRE_CALL_FAILED"])
        BY <4>2, <4>5
      <4>6. CASE SetRow(e, n, [rows[e][n] EXCEPT !.status = "RELEASED"])
        BY <4>3, <4>6
      <4>7. QED
        BY <3>1, <4>4, <4>5, <4>6
    <3>4. QED
      BY <1>3, <2>1, <2>3, <3>1, <3>3
  <2>6. QED
    BY <2>4, <2>5
<1>11. ASSUME NEW e \in Event, NEW n \in Slot, RowExpires(e, n) PROVE LimitInv'
  <2>1. PICK r : r = [rows[e][n] EXCEPT !.live = FALSE] /\ SetRow(e, n, r)
    BY <1>11 DEF RowExpires
  <2>2. r.window = rows[e][n].window /\ ~r.live
    BY <1>1, <2>1, RowFields DEF Rows
  <2>3. QED
    BY <1>1, <1>4, <1>11, <2>1, <2>2, RowShrinks DEF RowExpires
<1>12. CASE NextDay \/ SweepRead \/ UNCHANGED vars
  BY <1>4, <1>12, SameCharge DEF NextDay, SweepRead, vars
<1>13. ASSUME NEW x \in sweep, SweepSettle(x) PROVE LimitInv'
  <2>1. x.event \in Event /\ x.slot \in Slot /\ UNCHANGED call
    BY <1>1, <1>13 DEF TypeOK, SweepSettle
  <2>2. CASE rows[x.event][x.slot].status = "RESERVED"
    <3>1. PICK r : /\ r = [rows[x.event][x.slot] EXCEPT !.status = Verdict(x.outcome)]
                   /\ SetRow(x.event, x.slot, r)
      BY <1>13, <2>2 DEF SweepSettle
    <3>2. r.window = rows[x.event][x.slot].window /\ r.live = rows[x.event][x.slot].live
      BY <1>1, <2>1, <3>1, RowFields DEF Rows
    <3>3. QED
      BY <1>1, <1>4, <2>1, <2>2, <3>1, <3>2, RowShrinks
  <2>3. CASE rows[x.event][x.slot].status # "RESERVED"
    BY <1>4, <1>13, <2>1, <2>3, SameCharge DEF SweepSettle
  <2>4. QED
    BY <2>2, <2>3
<1>14. ASSUME NEW w \in Worker, Step(w) PROVE LimitInv'
  BY <1>6, <1>9, <1>10, <1>14 DEF Step
<1>15. QED
  BY <1>5, <1>7, <1>11, <1>12, <1>13, <1>14 DEF Next, Sweep

\* What a window is charged in time is within the daily limit, however many
\* events and workers compete (acquireEventAttemptSlot).
THEOREM LimitKept == Spec => []OnTimeSpendWithinLimit
<1>1. Init => LimitInv
  <2> SUFFICES ASSUME Init PROVE LimitInv
    OBVIOUS
  <2>1. \A w \in Worker : ~At(w, "insert")
    BY DEF Init, At, Idle
  <2>2. \A d \in Day : OnTime(d) = {}
    BY DEF Init, OnTime, NoRow, Charged
  <2>3. OnTimeSpendWithinLimit
    BY <2>2, FS_EmptySet, RoomAssumption DEF OnTimeSpendWithinLimit
  <2>4. QED
    BY <2>1, <2>3 DEF LimitInv, OneInserter, InserterHasRoom
<1>2. BudgetInv /\ LimitInv /\ [Next]_vars => LimitInv'
  BY ReadKeepsLimit, InsertKeepsLimit, OthersKeepLimit
<1>3. LimitInv => OnTimeSpendWithinLimit
  BY DEF LimitInv
<1>4. QED
  BY <1>1, <1>2, <1>3, Inductive, PTL DEF Spec
=============================================================================
