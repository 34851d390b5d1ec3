-------------------------- MODULE EventClaimProofs --------------------------
(***************************************************************************)
(* Theorems about EventClaim for any number of workers, events and         *)
(* attempts.  ClaimInv strengthens the properties to an inductive          *)
(* invariant: what makes the fence sound is that the token of a row in     *)
(* PROCESSING is at least as new as the token of any worker still working  *)
(* on that event.                                                          *)
(***************************************************************************)
EXTENDS EventClaim, TLAPS

\* A row carries a token and a lease only while it is in PROCESSING.
RowShape ==
  \A e \in Event :
    /\ row[e].live => row[e].status = "PROCESSING"
    /\ row[e].status = "PROCESSING" =>
         row[e].attempts > 0 /\ row[e].token > 0 /\ row[e].token <= lastToken

HolderShape ==
  \A w \in Worker : Holding(w) =>
    /\ worker[w].event \in Event
    /\ worker[w].token <= lastToken
    /\ row[worker[w].event].status = "PROCESSING" =>
         worker[w].token <= row[worker[w].event].token

DistinctTokens ==
  \A v, w \in Worker :
    Holding(v) /\ Holding(w) /\ worker[v].token = worker[w].token => v = w

ClaimInv ==
  /\ TypeOK
  /\ RowShape
  /\ HolderShape
  /\ DistinctTokens
  /\ AttemptsRespected
  /\ DecidedExactlyOnce

-----------------------------------------------------------------------------
\* Every variable keeps its type (all statements of worker-repository.ts).
THEOREM TypeCorrect == Spec => []TypeOK
<1>1. Init => TypeOK
  BY DEF Init, TypeOK, Status, Idle, NoToken, NoEvent
<1>2. TypeOK /\ [Next]_vars => TypeOK'
  <2> SUFFICES ASSUME TypeOK, [Next]_vars PROVE TypeOK'
    OBVIOUS
  <2> USE DEF TypeOK, Status, NoToken, NoEvent, Idle
  <2>1. ASSUME NEW w \in Worker, FailExhausted(w) PROVE TypeOK'
    BY <2>1 DEF FailExhausted, Unclaimed
  <2>2. ASSUME NEW w \in Worker, Claim(w) PROVE TypeOK'
    BY <2>2 DEF Claim, ClaimRow
  <2>3. ASSUME NEW w \in Worker, NothingToClaim(w) PROVE TypeOK'
    BY <2>3 DEF NothingToClaim
  <2>4. ASSUME NEW w \in Worker, CommitDecision(w),
               worker' \in {[worker EXCEPT ![w] = Idle], [worker EXCEPT ![w].pc = "releasing"]}
        PROVE TypeOK'
    <3>1. worker[w].event \in Event /\ worker[w].token \in Nat
      BY <2>4 DEF CommitDecision
    <3>2. row' \in [Event -> [status : Status, token : Nat, live : BOOLEAN, attempts : Nat]]
      BY <2>4, <3>1 DEF CommitDecision, Unclaimed
    <3>3. decisions' \subseteq [event : Event, token : Nat] /\ lastToken' \in Nat
      BY <2>4, <3>1 DEF CommitDecision
    <3>4. QED
      BY <2>4, <3>2, <3>3 DEF CommitDecision
  <2>5. ASSUME NEW w \in Worker, ProcessingThrows(w) PROVE TypeOK'
    BY <2>5 DEF ProcessingThrows
  <2>6. ASSUME NEW w \in Worker, ReleaseOrFailClaim(w) PROVE TypeOK'
    BY <2>6, SMTT(20) DEF ReleaseOrFailClaim, Unclaimed
  <2>7. ASSUME NEW w \in Worker, Abandon(w) PROVE TypeOK'
    BY <2>7 DEF Abandon
  <2>8. ASSUME NEW e \in Event, LeaseExpires(e) PROVE TypeOK'
    <3> DEFINE Rows == [status : Status, token : Nat, live : BOOLEAN, attempts : Nat]
    <3>1. row \in [Event -> Rows]
      OBVIOUS
    <3>2. [row[e] EXCEPT !.live = FALSE] \in Rows
      BY <3>1
    <3>3. row' \in [Event -> Rows]
      BY <2>8, <3>1, <3>2 DEF LeaseExpires
    <3>4. QED
      BY <2>8, <3>3 DEF LeaseExpires
  <2>9. CASE UNCHANGED vars
    BY <2>9 DEF vars
  <2>10. ASSUME NEW w \in Worker, PersistDecision(w) \/ PersistUnacknowledged(w) PROVE TypeOK'
    BY <2>4, <2>10 DEF PersistDecision, PersistUnacknowledged
  <2>11. QED
    BY <2>1, <2>2, <2>3, <2>5, <2>6, <2>7, <2>8, <2>9, <2>10 DEF Next, Step
<1>3. QED
  BY <1>1, <1>2, PTL DEF Spec

-----------------------------------------------------------------------------
\* Initially nothing is claimed and nothing is decided.
LEMMA InitInv == Init => ClaimInv
<1> SUFFICES ASSUME Init PROVE ClaimInv
  OBVIOUS
<1>1. TypeOK
  BY DEF Init, TypeOK, Status, Idle, NoToken, NoEvent
<1>2. RowShape /\ HolderShape /\ DistinctTokens
  BY DEF Init, RowShape, HolderShape, DistinctTokens, Holding, Idle
<1>3. AttemptsRespected /\ DecidedExactlyOnce
  BY MaxAttemptsAssumption DEF Init, AttemptsRespected, DecidedExactlyOnce, Decided
<1>4. QED
  BY <1>1, <1>2, <1>3 DEF ClaimInv

\* The statement that gives up exhausted claims touches only rows in
\* PROCESSING that have no decision.
LEMMA FailExhaustedInv ==
  ASSUME ClaimInv, TypeOK', NEW w \in Worker, FailExhausted(w)
  PROVE  ClaimInv'
<1> USE DEF ClaimInv, TypeOK, FailExhausted
<1>1. RowShape'
  BY DEF RowShape, Unclaimed
<1>2. HolderShape'
  BY DEF HolderShape, Holding, Unclaimed
<1>3. DistinctTokens'
  BY DEF DistinctTokens, Holding
<1>4. AttemptsRespected'
  BY MaxAttemptsAssumption, SMTT(20) DEF AttemptsRespected, Exhausted, Unclaimed, Decided
<1>5. DecidedExactlyOnce'
  BY DEF DecidedExactlyOnce, Exhausted, Unclaimed, Decided
<1>6. QED
  BY <1>1, <1>2, <1>3, <1>4, <1>5

\* A claim draws a token newer than all others and spends one attempt that
\* the candidate row still had.
LEMMA ClaimStepInv ==
  ASSUME ClaimInv, TypeOK', NEW w \in Worker, Claim(w)
  PROVE  ClaimInv'
<1> USE DEF ClaimInv, TypeOK
<1>1. PICK e \in Event :
        /\ Claimable(e)
        /\ row' = [row EXCEPT ![e] = ClaimRow(row[e], lastToken + 1)]
        /\ worker' = [worker EXCEPT ![w] =
                        [pc |-> "processing", event |-> e, token |-> lastToken + 1]]
        /\ lastToken' = lastToken + 1
        /\ decisions' = decisions
  BY DEF Claim
<1>2. RowShape'
  BY <1>1 DEF RowShape, ClaimRow
<1>3. HolderShape'
  BY <1>1 DEF HolderShape, Holding, ClaimRow
<1>4. DistinctTokens'
  BY <1>1 DEF DistinctTokens, Holding, HolderShape
<1>5. row[e].attempts < MaxAttempts /\ row[e].status \in {"PENDING", "PROCESSING"}
  BY <1>1 DEF Claimable, AttemptsRespected
<1>6. AttemptsRespected'
  BY <1>1, <1>5, MaxAttemptsAssumption DEF AttemptsRespected, ClaimRow, Decided
<1>7. DecidedExactlyOnce'
  BY <1>1, <1>5 DEF DecidedExactlyOnce, ClaimRow, Decided
<1>8. QED
  BY <1>2, <1>3, <1>4, <1>6, <1>7

\* The transaction of persistDecision, whether or not it is acknowledged.
LEMMA CommitInv ==
  ASSUME ClaimInv, TypeOK', NEW w \in Worker, CommitDecision(w),
         worker' \in {[worker EXCEPT ![w] = Idle], [worker EXCEPT ![w].pc = "releasing"]}
  PROVE  ClaimInv'
<1> USE DEF ClaimInv, TypeOK, CommitDecision, FencePasses
<1> DEFINE e == worker[w].event
<1>1. e \in Event
  OBVIOUS
<1>2. RowShape'
  BY <1>1 DEF RowShape, Unclaimed
<1>3. \A v \in Worker : Holding(v)' =>
        Holding(v) /\ worker'[v].event = worker[v].event /\ worker'[v].token = worker[v].token
  BY DEF Holding, Idle
<1>4. HolderShape' /\ DistinctTokens'
  <2>1. HolderShape'
    <3>1. lastToken' = lastToken
      OBVIOUS
    <3>2. \A f \in Event : row'[f].status = "PROCESSING" =>
            row[f].status = "PROCESSING" /\ row'[f] = row[f]
      BY <1>1 DEF Unclaimed
    <3>3. QED
      BY <1>3, <3>1, <3>2 DEF HolderShape
  <2>2. DistinctTokens'
    BY <1>3 DEF DistinctTokens
  <2>3. QED
    BY <2>1, <2>2
<1>5. AttemptsRespected'
  BY <1>1 DEF AttemptsRespected, Unclaimed, Decided
<1>6. DecidedExactlyOnce'
  <2>1. decisions' = decisions \cup {[event |-> e, token |-> worker[w].token]}
    OBVIOUS
  <2>2. \A f \in Event : row'[f].status = "DECIDED" <=> (f = e \/ row[f].status = "DECIDED")
    BY <1>1 DEF Unclaimed
  <2>3. \A f \in Event : Decided(f)' <=> (f = e \/ Decided(f))
    <3>1. [event |-> e, token |-> worker[w].token].event = e
      OBVIOUS
    <3> HIDE DEF e, CommitDecision, ClaimInv, TypeOK, FencePasses
    <3>2. QED
      BY <2>1, <3>1 DEF Decided
  <2>4. \A c, d \in decisions' : c.event = d.event => c = d
    BY <2>1 DEF Decided, DecidedExactlyOnce
  <2>5. QED
    BY <2>2, <2>3, <2>4 DEF DecidedExactlyOnce
<1>7. QED
  BY <1>2, <1>4, <1>5, <1>6

\* releaseOrFailClaim leaves the row alone unless the claim is still current.
LEMMA ReleaseInv ==
  ASSUME ClaimInv, TypeOK', NEW w \in Worker, ReleaseOrFailClaim(w)
  PROVE  ClaimInv'
<1> USE DEF ClaimInv, TypeOK, ReleaseOrFailClaim, MayRelease
<1>1. worker[w].event \in Event
  OBVIOUS
<1>2. RowShape'
  BY <1>1 DEF RowShape, Unclaimed
<1>3. \A v \in Worker : Holding(v)' => Holding(v) /\ worker'[v] = worker[v]
  BY DEF Holding, Idle
<1>4. HolderShape'
  BY <1>1, <1>3 DEF HolderShape, Unclaimed
<1>5. DistinctTokens'
  BY <1>3 DEF DistinctTokens
<1>6. AttemptsRespected'
  BY <1>1, MaxAttemptsAssumption, SMTT(20) DEF AttemptsRespected, Unclaimed, Decided
<1>7. DecidedExactlyOnce'
  BY <1>1, SMTT(20) DEF DecidedExactlyOnce, Unclaimed, Decided
<1>8. QED
  BY <1>2, <1>4, <1>5, <1>6, <1>7

\* The steps that only move a worker's program counter.
LEMMA LocalStepInv ==
  ASSUME ClaimInv, TypeOK', NEW w \in Worker,
         NothingToClaim(w) \/ ProcessingThrows(w) \/ Abandon(w)
  PROVE  ClaimInv'
<1> USE DEF ClaimInv, TypeOK, NothingToClaim, ProcessingThrows, Abandon
<1>1. \A v \in Worker : Holding(v)' =>
        Holding(v) /\ worker'[v].event = worker[v].event /\ worker'[v].token = worker[v].token
  BY DEF Holding, Idle
<1>2. RowShape' /\ AttemptsRespected' /\ DecidedExactlyOnce'
  BY DEF RowShape, AttemptsRespected, DecidedExactlyOnce, Decided
<1>3. HolderShape' /\ DistinctTokens'
  BY <1>1 DEF HolderShape, DistinctTokens
<1>4. QED
  BY <1>2, <1>3

\* Losing a lease changes neither the token nor the status of the row.
LEMMA ExpiryInv ==
  ASSUME ClaimInv, TypeOK', NEW e \in Event, LeaseExpires(e)
  PROVE  ClaimInv'
<1> USE DEF ClaimInv, TypeOK, LeaseExpires
<1>1. RowShape' /\ AttemptsRespected' /\ DecidedExactlyOnce'
  BY DEF RowShape, AttemptsRespected, DecidedExactlyOnce, Decided
<1>2. HolderShape' /\ DistinctTokens'
  BY DEF HolderShape, DistinctTokens, Holding
<1>3. QED
  BY <1>1, <1>2

-----------------------------------------------------------------------------
\* ClaimInv is inductive.
THEOREM Inductive == Spec => []ClaimInv
<1>1. ClaimInv /\ TypeOK' /\ [Next]_vars => ClaimInv'
  <2> SUFFICES ASSUME ClaimInv, TypeOK', [Next]_vars PROVE ClaimInv'
    OBVIOUS
  <2>1. ASSUME NEW w \in Worker, PersistDecision(w) \/ PersistUnacknowledged(w) PROVE ClaimInv'
    BY <2>1, CommitInv DEF PersistDecision, PersistUnacknowledged
  <2>2. CASE UNCHANGED vars
    BY <2>2 DEF vars, ClaimInv, TypeOK, RowShape, HolderShape, DistinctTokens, Holding,
                AttemptsRespected, DecidedExactlyOnce, Decided
  <2>3. QED
    BY <2>1, <2>2, FailExhaustedInv, ClaimStepInv, ReleaseInv, LocalStepInv, ExpiryInv
       DEF Next, Step
<1>2. QED
  BY InitInv, TypeCorrect, <1>1, PTL DEF Spec

\* However many workers race for an event, it gets at most one decision, and
\* has it exactly when its row says DECIDED.
THEOREM OneDecision == Spec => []DecidedExactlyOnce
<1>1. ClaimInv => DecidedExactlyOnce
  BY DEF ClaimInv
<1>2. QED
  BY Inductive, <1>1, PTL

\* No event is tried more than MaxAttempts times or given up before that.
THEOREM BoundedAttempts == Spec => []AttemptsRespected
<1>1. ClaimInv => AttemptsRespected
  BY DEF ClaimInv
<1>2. QED
  BY Inductive, <1>1, PTL

\* A claim token is never shared, and a live row carries the newest one.
THEOREM TokenOwnership == Spec => []TokensNameOneClaim
<1>1. ClaimInv => TokensNameOneClaim
  BY DEF ClaimInv, TypeOK, RowShape, HolderShape, DistinctTokens, TokensNameOneClaim, Holding
<1>2. QED
  BY Inductive, <1>1, PTL

\* Only the newest claim of an event writes its decision.
THEOREM FencedDecisions == Spec => NoStaleDecision
<1> DEFINE Fenced ==
      \A d \in decisions' \ decisions :
        \A w \in Worker : Holding(w) /\ worker[w].event = d.event => worker[w].token <= d.token
<1>1. ClaimInv /\ [Next]_vars => [Fenced]_vars
  <2> SUFFICES ASSUME ClaimInv, Next PROVE Fenced
    OBVIOUS
  <2>1. ASSUME NEW w \in Worker, CommitDecision(w) PROVE Fenced
    BY <2>1 DEF ClaimInv, TypeOK, HolderShape, Holding, CommitDecision, FencePasses
  <2>2. CASE decisions' = decisions
    BY <2>2
  <2>3. QED
    BY <2>1, <2>2
       DEF Next, Step, FailExhausted, Claim, NothingToClaim, PersistDecision,
           PersistUnacknowledged, ProcessingThrows, ReleaseOrFailClaim, Abandon, LeaseExpires
<1>2. QED
  BY Inductive, <1>1, PTL DEF Spec, NoStaleDecision

-----------------------------------------------------------------------------
\* Refinement.  The outcome and the tries of an event are read off its row.
outcomeOf == [e \in Event |-> OutcomeOf(row[e])]
triesOf   == [e \in Event |-> row[e].attempts]

\* Initially every event is open and untried.
LEMMA InitRefines == Init => Outcome!Init
BY DEF Init, Outcome!Init, OutcomeOf

\* A claim is a try: its row still had an attempt left.
LEMMA ClaimRefines ==
  ASSUME ClaimInv, NEW w \in Worker, Claim(w)
  PROVE  Outcome!Next
<1>1. PICK e \in Event :
        /\ Claimable(e)
        /\ row' = [row EXCEPT ![e] = ClaimRow(row[e], lastToken + 1)]
  BY DEF Claim
<1>2. row[e].attempts < MaxAttempts /\ row[e].status \in {"PENDING", "PROCESSING"}
  BY <1>1 DEF Claimable, ClaimInv, AttemptsRespected
<1>3. outcomeOf' = outcomeOf
  BY <1>1, <1>2 DEF ClaimInv, TypeOK, outcomeOf, OutcomeOf, ClaimRow
<1>4. triesOf' = [triesOf EXCEPT ![e] = @ + 1]
  BY <1>1 DEF ClaimInv, TypeOK, triesOf, ClaimRow
<1>5. Outcome!Try(e)
  BY <1>2, <1>3, <1>4 DEF Outcome!Try, outcomeOf, triesOf, OutcomeOf
<1>6. QED
  BY <1>5 DEF Outcome!Next

\* persistDecision decides an open event that has been tried.
LEMMA CommitRefines ==
  ASSUME ClaimInv, NEW w \in Worker, CommitDecision(w)
  PROVE  Outcome!Next
<1> DEFINE e == worker[w].event
<1>1. e \in Event /\ row[e].status = "PROCESSING" /\ row[e].attempts > 0
  BY DEF ClaimInv, TypeOK, RowShape, CommitDecision, FencePasses
<1>2. row' = [row EXCEPT ![e] = Unclaimed(row[e], "DECIDED")]
  BY DEF CommitDecision
<1>3. triesOf' = triesOf
  BY <1>1, <1>2 DEF ClaimInv, TypeOK, triesOf, Unclaimed
<1>4. outcomeOf' = [outcomeOf EXCEPT ![e] = "DECIDED"]
  BY <1>1, <1>2 DEF ClaimInv, TypeOK, outcomeOf, OutcomeOf, Unclaimed
<1>5. Outcome!Decide(e)
  BY <1>1, <1>3, <1>4 DEF Outcome!Decide, outcomeOf, triesOf, OutcomeOf
<1>6. QED
  BY <1>1, <1>5 DEF Outcome!Next

\* Giving up the rows of a set of open events that used all their attempts.
LEMMA GivingUp ==
  ASSUME ClaimInv, NEW E \in SUBSET Event,
         \A e \in E : row[e].status = "PROCESSING" /\ row[e].attempts = MaxAttempts,
         row' = [e \in Event |-> IF e \in E THEN Unclaimed(row[e], "FAILED") ELSE row[e]]
  PROVE  [Outcome!Next]_<<outcomeOf, triesOf>>
<1>1. triesOf' = triesOf
  BY DEF ClaimInv, TypeOK, triesOf, Unclaimed
<1>2. outcomeOf' = [e \in Event |-> IF e \in E THEN "FAILED" ELSE outcomeOf[e]]
  BY DEF ClaimInv, TypeOK, outcomeOf, OutcomeOf, Unclaimed
<1>3. CASE E = {}
  <2>1. outcomeOf' = outcomeOf
    BY <1>2, <1>3 DEF outcomeOf
  <2>2. QED
    BY <1>1, <2>1
<1>4. CASE E # {}
  <2>1. Outcome!GiveUp(E)
    BY <1>1, <1>2 DEF Outcome!GiveUp, outcomeOf, triesOf, OutcomeOf
  <2>2. QED
    BY <1>4, <2>1 DEF Outcome!Next
<1>5. QED
  BY <1>3, <1>4

\* The code tests attempts < maximum; with the invariant, failing it means equality.
LEMMA AllAttemptsUsed ==
  ASSUME ClaimInv, NEW e \in Event, ~(row[e].attempts < MaxAttempts)
  PROVE  row[e].attempts = MaxAttempts
<1>1. row[e].attempts \in Nat /\ row[e].attempts <= MaxAttempts
  BY DEF ClaimInv, TypeOK, AttemptsRespected
<1>2. QED
  BY <1>1, MaxAttemptsAssumption

\* The first statement of a claim gives up the exhausted events together.
LEMMA FailExhaustedRefines ==
  ASSUME ClaimInv, NEW w \in Worker, FailExhausted(w)
  PROVE  [Outcome!Next]_<<outcomeOf, triesOf>>
<1> DEFINE E == {e \in Event : Exhausted(e)}
<1>1. \A e \in E : row[e].status = "PROCESSING" /\ row[e].attempts = MaxAttempts
  <2> SUFFICES ASSUME NEW e \in E
               PROVE  row[e].status = "PROCESSING" /\ row[e].attempts = MaxAttempts
    OBVIOUS
  <2>1. e \in Event /\ row[e].status = "PROCESSING" /\ row[e].attempts >= MaxAttempts
    BY DEF Exhausted
  <2>2. row[e].attempts \in Nat
    BY <2>1 DEF ClaimInv, TypeOK
  <2>3. ~(row[e].attempts < MaxAttempts)
    BY <2>1, <2>2, MaxAttemptsAssumption
  <2>4. QED
    BY <2>1, <2>3, AllAttemptsUsed
<1>2. row' = [e \in Event |-> IF e \in E THEN Unclaimed(row[e], "FAILED") ELSE row[e]]
  BY DEF FailExhausted
<1>3. QED
  BY <1>1, <1>2, GivingUp

\* A release is invisible, or gives up one event after its last attempt.
LEMMA ReleaseRefines ==
  ASSUME ClaimInv, NEW w \in Worker, ReleaseOrFailClaim(w)
  PROVE  [Outcome!Next]_<<outcomeOf, triesOf>>
<1> DEFINE e == worker[w].event
<1>1. e \in Event
  BY DEF ClaimInv, TypeOK, ReleaseOrFailClaim
<1>2. CASE row' = row
  BY <1>2 DEF outcomeOf, triesOf
<1>3. CASE row[e].status = "PROCESSING" /\ row' = [row EXCEPT ![e] = Unclaimed(row[e], "PENDING")]
  <2>1. outcomeOf' = outcomeOf /\ triesOf' = triesOf
    BY <1>1, <1>3 DEF ClaimInv, TypeOK, outcomeOf, triesOf, OutcomeOf, Unclaimed
  <2>2. QED
    BY <2>1
<1>4. CASE /\ row[e].status = "PROCESSING"
           /\ ~(row[e].attempts < MaxAttempts)
           /\ row' = [row EXCEPT ![e] = Unclaimed(row[e], "FAILED")]
  <2>1. row[e].attempts = MaxAttempts
    BY <1>1, <1>4, AllAttemptsUsed
  <2>2. row' = [f \in Event |-> IF f \in {e} THEN Unclaimed(row[f], "FAILED") ELSE row[f]]
    BY <1>1, <1>4 DEF ClaimInv, TypeOK
  <2>3. QED
    BY <1>1, <1>4, <2>1, <2>2, GivingUp
<1>5. QED
  BY <1>2, <1>3, <1>4 DEF ReleaseOrFailClaim, MayRelease

\* The claim protocol implements its abstract specification.
THEOREM RefinesOutcome == Spec => ImplementsOutcome
<1>1. ClaimInv /\ [Next]_vars => [Outcome!Next]_<<outcomeOf, triesOf>>
  <2> SUFFICES ASSUME ClaimInv, [Next]_vars PROVE [Outcome!Next]_<<outcomeOf, triesOf>>
    OBVIOUS
  <2>1. CASE row' = row
    BY <2>1 DEF outcomeOf, triesOf
  <2>2. ASSUME NEW e \in Event, LeaseExpires(e) PROVE outcomeOf' = outcomeOf /\ triesOf' = triesOf
    BY <2>2 DEF ClaimInv, TypeOK, LeaseExpires, outcomeOf, triesOf, OutcomeOf
  <2>3. QED
    BY <2>1, <2>2, ClaimRefines, CommitRefines, FailExhaustedRefines, ReleaseRefines
       DEF Next, Step, vars, NothingToClaim, PersistDecision, PersistUnacknowledged,
           ProcessingThrows, Abandon
<1>2. QED
  BY InitRefines, Inductive, <1>1, PTL
     DEF Spec, ImplementsOutcome, Outcome!Spec, Outcome!outcomeVars, outcomeOf, triesOf
=============================================================================
