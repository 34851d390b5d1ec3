-------------------------- MODULE LeaseReleaseProofs --------------------------
(***************************************************************************)
(* Theorems about LeaseRelease, for any number of leases, sweeps and       *)
(* emergency requests, whatever fails.                                     *)
(***************************************************************************)
EXTENDS LeaseRelease, TLAPS

-----------------------------------------------------------------------------
(* Type correctness. *)

\* A field of a row is replaced.
LEMMA RowFields ==
  ASSUME NEW r \in RowType
  PROVE  /\ \A x \in Pending \cup {"ACTIVE", Released, Exhausted} : [r EXCEPT !.status = x] \in RowType
         /\ \A h \in Sweep \cup Request : [r EXCEPT !.owner = h] \in RowType
         /\ [r EXCEPT !.fence = @ + 1] \in RowType
         /\ [r EXCEPT !.attempts = @ + 1] \in RowType
         /\ [r EXCEPT !.expired = TRUE] \in RowType
         /\ \A x \in BOOLEAN : [r EXCEPT !.emergency = x] \in RowType
<1> USE DEF RowType
<1>1. \A x \in Pending \cup {"ACTIVE", Released, Exhausted} : [r EXCEPT !.status = x] \in RowType
  OBVIOUS
<1>2. \A h \in Sweep \cup Request : [r EXCEPT !.owner = h] \in RowType
  OBVIOUS
<1>3. [r EXCEPT !.fence = @ + 1] \in RowType
  OBVIOUS
<1>4. [r EXCEPT !.attempts = @ + 1] \in RowType
  OBVIOUS
<1>5. [r EXCEPT !.expired = TRUE] \in RowType
  OBVIOUS
<1>6. \A x \in BOOLEAN : [r EXCEPT !.emergency = x] \in RowType
  OBVIOUS
<1> QED
  BY <1>1, <1>2, <1>3, <1>4, <1>5, <1>6

\* A row after a claim, a settlement or a recorded failure is still a row.
LEMMA RowsStayRows ==
  ASSUME NEW r \in RowType
  PROVE  /\ \A h \in Sweep \cup Request, status \in Pending : Taken(r, h, status) \in RowType
         /\ [r EXCEPT !.status = Released] \in RowType
         /\ Failed(r) \in RowType
<1>1. ASSUME NEW h \in Sweep \cup Request, NEW status \in Pending
      PROVE  Taken(r, h, status) \in RowType
  <2> DEFINE r1 == [r EXCEPT !.status = status]
             r2 == [r1 EXCEPT !.owner = h]
  <2>1. r1 \in RowType
    BY RowFields
  <2>2. r2 \in RowType
    BY <2>1, RowFields
  <2>3. [r2 EXCEPT !.fence = @ + 1] \in RowType
    BY <2>2, RowFields
  <2>4. Taken(r, h, status) = [r2 EXCEPT !.fence = @ + 1]
    BY DEF Taken
  <2> QED
    BY <2>3, <2>4
<1>2. Failed(r) \in RowType
  <2> DEFINE status == IF r.attempts + 1 >= MaxAttempts THEN Exhausted ELSE r.status
             r1 == [r EXCEPT !.attempts = @ + 1]
             r2 == [r1 EXCEPT !.emergency = FALSE]
  <2>1. r1 \in RowType
    BY RowFields
  <2>2. r2 \in RowType /\ r2.status = r.status
    <3>1. r2 \in RowType
      BY <2>1, RowFields
    <3>2. r1.status = r.status /\ r2.status = r1.status
      BY DEF RowType
    <3> QED
      BY <3>1, <3>2
  <2> HIDE DEF r2
  <2>3. [r2 EXCEPT !.status = status] \in RowType
    <3>1. CASE r.attempts + 1 >= MaxAttempts
      BY <3>1, <2>2, RowFields
    <3>2. CASE ~(r.attempts + 1 >= MaxAttempts)
      BY <3>2, <2>2 DEF RowType
    <3> QED
      BY <3>1, <3>2
  <2>4. Failed(r) = [r2 EXCEPT !.status = status]
    BY DEF Failed, RowType, r2
  <2> QED
    BY <2>3, <2>4
<1> QED
  BY <1>1, <1>2, RowFields

LEMMA NewRows == NoRow \in RowType /\ [NoRow EXCEPT !.status = "ACTIVE", !.fence = 1] \in RowType
BY DEF RowType, NoRow

\* The jobs of a sweep and the tasks of a request.
LEMMA SweepSteps ==
  ASSUME TypeOK, NEW s \in Sweep, NEW l \in Lease
  PROVE  /\ \A step \in {"none", "release", "mark", "fail"} :
              NextJob(s, l, step) => sweep' \in [Sweep -> SweepType]
         /\ EndJob(s, l) => sweep' \in [Sweep -> SweepType]
<1>1. sweep[s] \in SweepType /\ sweep[s].job[l] \in Jobs
  BY DEF TypeOK, SweepType
<1>2. \A job \in Jobs : [sweep[s] EXCEPT !.job = [@ EXCEPT ![l] = job]] \in SweepType
  BY <1>1 DEF SweepType
<1>3. \A step \in {"none", "release", "mark", "fail"} : [sweep[s].job[l] EXCEPT !.step = step] \in Jobs
  BY <1>1 DEF Jobs
<1>4. NoJob \in Jobs
  BY DEF NoJob, Job, Jobs
<1>5. \A job \in Jobs : [sweep EXCEPT ![s].job[l] = job] \in [Sweep -> SweepType]
  BY <1>2 DEF TypeOK
<1>6. \A step \in {"none", "release", "mark", "fail"} :
        NextJob(s, l, step) => sweep' = [sweep EXCEPT ![s].job[l] = [sweep[s].job[l] EXCEPT !.step = step]]
  BY DEF NextJob
<1>7. EndJob(s, l) => sweep' \in [Sweep -> SweepType]
  BY <1>4, <1>5 DEF EndJob
<1>8. ASSUME NEW step \in {"none", "release", "mark", "fail"}, NextJob(s, l, step)
       PROVE  sweep' \in [Sweep -> SweepType]
  <2> DEFINE job == [sweep[s].job[l] EXCEPT !.step = step]
  <2>1. job \in Jobs /\ sweep' = [sweep EXCEPT ![s].job[l] = job]
    BY <1>3, <1>6, <1>8
  <2> HIDE DEF job
  <2> QED
    BY <2>1, <1>5
<1> QED
  BY <1>7, <1>8

LEMMA SweepPhases ==
  ASSUME TypeOK, NEW s \in Sweep, NEW known \in SUBSET Lease,
         NEW pc \in {"idle", "claim", "settle", "orphans", "finish"}
  PROVE  /\ [sweep EXCEPT ![s].pc = pc, ![s].known = known] \in [Sweep -> SweepType]
         /\ [sweep EXCEPT ![s].pc = pc] \in [Sweep -> SweepType]
<1>1. /\ [sweep[s] EXCEPT !.pc = pc, !.known = known] \in SweepType
      /\ [sweep[s] EXCEPT !.pc = pc] \in SweepType
  BY DEF TypeOK, SweepType
<1> QED
  BY <1>1 DEF TypeOK

LEMMA RequestSteps ==
  ASSUME TypeOK, NEW r \in Request, NEW l \in Lease
  PROVE  /\ \A step \in {"none", "observe", "mark", "unmark", "defer"} :
              NextTask(r, l, step) => req' \in [Request -> RequestType]
         /\ EndTask(r, l) => req' \in [Request -> RequestType]
         /\ [req EXCEPT ![r].job[l] = NoJob, ![r].pc = "failing"] \in [Request -> RequestType]
<1>1. req[r] \in RequestType /\ req[r].job[l] \in Tasks
  BY DEF TypeOK, RequestType
<1>2. \A task \in Tasks : [req[r] EXCEPT !.job = [@ EXCEPT ![l] = task]] \in RequestType
  BY <1>1 DEF RequestType
<1>3. \A step \in {"none", "observe", "mark", "unmark", "defer"} :
        [req[r].job[l] EXCEPT !.step = step] \in Tasks
  BY <1>1 DEF Tasks
<1>4. NoJob \in Tasks
  BY DEF NoJob, Job, Tasks
<1>5. ASSUME NEW task \in Tasks
      PROVE  [req EXCEPT ![r].job[l] = task] \in [Request -> RequestType]
  BY <1>2 DEF TypeOK
<1>6. \A step \in {"none", "observe", "mark", "unmark", "defer"} :
        NextTask(r, l, step) => req' = [req EXCEPT ![r].job[l] = [req[r].job[l] EXCEPT !.step = step]]
  BY DEF NextTask
<1>7. [req[r] EXCEPT !.job = [@ EXCEPT ![l] = NoJob], !.pc = "failing"] \in RequestType
  BY <1>1, <1>4 DEF RequestType
<1> QED
  BY <1>3, <1>4, <1>5, <1>6, <1>7 DEF EndTask, TypeOK

LEMMA InitType == Init => TypeOK
<1> SUFFICES ASSUME Init PROVE TypeOK
  OBVIOUS
<1>1. NoJobs \in [Lease -> Jobs] /\ NoJobs \in [Lease -> Tasks]
  BY DEF NoJobs, NoJob, Job, Jobs, Tasks
<1>2. IdleSweep \in SweepType /\ IdleRequest \in RequestType
  BY <1>1 DEF IdleSweep, IdleRequest, SweepType, RequestType
<1>3. [status |-> "NONE", owner |-> Nobody, live |-> FALSE, ids |-> {}] \in RecordType
  BY DEF RecordType
<1> QED
  BY <1>2, <1>3, NewRows, BoundsAssumption DEF Init, TypeOK

\* Idle processes, and the claims that start their jobs.
LEMMA Starts ==
  ASSUME TypeOK
  PROVE  /\ IdleSweep \in SweepType /\ IdleRequest \in RequestType
         /\ [pc |-> "settle", known |-> {},
             job |-> [l \in Lease |-> IF Claimable(l) THEN Job("release", row[l].fence + 1)
                                      ELSE NoJob]] \in SweepType
         /\ \A k \in Key, taken \in SUBSET Lease :
              [pc |-> "settle", key |-> k,
               job |-> [l \in Lease |-> IF l \in taken \ Decoy
                                        THEN Job(FirstStep(l), row[l].fence + 1)
                                        ELSE NoJob]] \in RequestType
<1>1. \A l \in Lease : row[l].fence + 1 \in Nat
  BY DEF TypeOK, RowType
<1>2. NoJob \in Jobs /\ NoJob \in Tasks /\ NoJobs \in [Lease -> Jobs] /\ NoJobs \in [Lease -> Tasks]
  BY DEF NoJobs, NoJob, Job, Jobs, Tasks
<1>3. \A l \in Lease : Job("release", row[l].fence + 1) \in Jobs
  BY <1>1 DEF Job, Jobs
<1>4. \A l \in Lease : Job(FirstStep(l), row[l].fence + 1) \in Tasks
  BY <1>1 DEF Job, Tasks, FirstStep
<1> QED
  BY <1>2, <1>3, <1>4 DEF IdleSweep, IdleRequest, SweepType, RequestType

LEMMA StepType == TypeOK /\ [Next]_vars => TypeOK'
<1> SUFFICES ASSUME TypeOK, [Next]_vars PROVE TypeOK'
  OBVIOUS
<1> USE DEF worker, sweeping, releasing
<1>1. ASSUME NEW l \in Lease, Dispatch(l) PROVE TypeOK'
  BY <1>1 DEF Dispatch, TypeOK
<1>2. ASSUME NEW l \in Lease, Resume(l) PROVE TypeOK'
  BY <1>2 DEF Resume, TypeOK
<1>3. ASSUME NEW l \in Lease, Project(l) PROVE TypeOK'
  <2>1. row' \in [Lease -> RowType]
    BY <1>3, NewRows DEF Project, TypeOK
  <2>2. faults' \in 0..MaxFaults
    BY <1>3, BoundsAssumption DEF Project, Fault, TypeOK
  <2>3. confirmed' \subseteq Lease
    BY <1>3 DEF Project, TypeOK
  <2>4. op' = [op EXCEPT ![l] = "idle"] /\ UNCHANGED <<inv, lock, sweep, rec, req, claims>>
    BY <1>3 DEF Project
  <2> QED
    BY <2>1, <2>2, <2>3, <2>4 DEF TypeOK
<1>4. ASSUME NEW l \in Lease, LeaseExpires(l) PROVE TypeOK'
  <2>1. row' \in [Lease -> RowType]
    BY <1>4, RowFields DEF LeaseExpires, TypeOK
  <2> QED
    BY <1>4, <2>1 DEF LeaseExpires, TypeOK
<1>5. CASE WorkerRestarts
  BY <1>5, Starts, BoundsAssumption DEF WorkerRestarts, Fault, TypeOK
<1>6. CASE LockExpires
  BY <1>6, BoundsAssumption DEF LockExpires, Fault, TypeOK
<1>7. ASSUME NEW s \in Sweep, AcquireLock(s) PROVE TypeOK'
  <2>1. sweep' \in [Sweep -> SweepType]
    BY <1>7 DEF AcquireLock, TypeOK, SweepType
  <2> QED
    BY <1>7, <2>1 DEF AcquireLock, TypeOK
<1>8. ASSUME NEW s \in Sweep, ClaimExpired(s) PROVE TypeOK'
  <2>1. row' \in [Lease -> RowType]
    <3>1. \A l \in Lease : row[l] \in RowType
      BY DEF TypeOK
    <3>2. \A l \in Lease : Taken(row[l], s, "CLEANUP_PENDING") \in RowType
      BY <3>1, RowsStayRows DEF Pending
    <3> QED
      BY <1>8, <3>2 DEF ClaimExpired, TypeOK
  <2>2. sweep' \in [Sweep -> SweepType]
    BY <1>8, Starts DEF ClaimExpired, TypeOK
  <2> QED
    BY <1>8, <2>1, <2>2, BoundsAssumption DEF ClaimExpired, TypeOK, Fault
<1>9. ASSUME NEW s \in Sweep, NEW l \in Lease, ReleaseResource(s, l) PROVE TypeOK'
  <2>1. sweep' \in [Sweep -> SweepType]
    BY <1>9, SweepSteps DEF ReleaseResource
  <2> QED
    BY <1>9, <2>1 DEF ReleaseResource, TypeOK
<1>10. ASSUME NEW s \in Sweep, NEW l \in Lease, MarkReleased(s, l) PROVE TypeOK'
  <2>1. sweep' \in [Sweep -> SweepType]
    BY <1>10, SweepSteps DEF MarkReleased
  <2>2. row' \in [Lease -> RowType]
    <3>1. [row[l] EXCEPT !.status = Released] \in RowType
      BY RowsStayRows DEF TypeOK
    <3>2. Settle(l) => row' \in [Lease -> RowType]
      BY <3>1 DEF Settle, TypeOK
    <3> QED
      BY <1>10, <3>2 DEF MarkReleased, TypeOK
  <2> QED
    BY <1>10, <2>1, <2>2, BoundsAssumption DEF MarkReleased, TypeOK, Fault
<1>11. ASSUME NEW s \in Sweep, NEW l \in Lease, RecordFailure(s, l) PROVE TypeOK'
  <2>1. sweep' \in [Sweep -> SweepType]
    BY <1>11, SweepSteps DEF RecordFailure
  <2>2. row' \in [Lease -> RowType]
    <3>1. Failed(row[l]) \in RowType
      BY RowsStayRows DEF TypeOK
    <3> QED
      BY <1>11, <3>1 DEF RecordFailure, TypeOK
  <2> QED
    BY <1>11, <2>1, <2>2, BoundsAssumption DEF RecordFailure, TypeOK, Fault
<1>12. ASSUME NEW s \in Sweep, ReadOwnershipKeys(s) PROVE TypeOK'
  <2>1. sweep' \in [Sweep -> SweepType]
    <3>1. {l \in Lease : Exists(l)} \subseteq Lease
      OBVIOUS
    <3> DEFINE known == {l \in Lease : Exists(l)}
    <3>2. /\ [sweep EXCEPT ![s].pc = "orphans", ![s].known = known] \in [Sweep -> SweepType]
          /\ [sweep EXCEPT ![s].pc = "finish"] \in [Sweep -> SweepType]
      BY <3>1, SweepPhases
    <3> QED
      BY <1>12, <3>2 DEF ReadOwnershipKeys
  <2> QED
    BY <1>12, <2>1, BoundsAssumption DEF ReadOwnershipKeys, TypeOK, Fault
<1>13. ASSUME NEW s \in Sweep, RemoveOrphans(s) PROVE TypeOK'
  <2>1. sweep' \in [Sweep -> SweepType]
    BY <1>13, SweepPhases DEF RemoveOrphans
  <2> QED
    BY <1>13, <2>1 DEF RemoveOrphans, TypeOK
<1>14. ASSUME NEW s \in Sweep, FinishSweep(s) PROVE TypeOK'
  BY <1>14, Starts, BoundsAssumption DEF FinishSweep, TypeOK, Fault
<1>15. ASSUME NEW r \in Request, NEW k \in Key, ClaimEmergency(r, k) PROVE TypeOK'
  <2> DEFINE taken == Candidates(k)
  <2>1. taken \subseteq Lease
    BY DEF Candidates, Leftover, TypeOK, RecordType
  <2>2. row' \in [Lease -> RowType]
    <3>1. \A l \in Lease : row[l] \in RowType
      BY DEF TypeOK
    <3>2. \A l \in Lease : ForEmergency(r, l) \in RowType
      BY <3>1, RowsStayRows, RowFields DEF ForEmergency, Pending
    <3> QED
      BY <1>15, <3>1, <3>2 DEF ClaimEmergency
  <2>3. rec' \in [Key -> RecordType]
    BY <1>15, <2>1 DEF ClaimEmergency, TypeOK, RecordType
  <2>4. req' \in [Request -> RequestType]
    BY <1>15, <2>1, Starts DEF ClaimEmergency, TypeOK
  <2>5. claims' \in 0..MaxClaims
    BY <1>15, BoundsAssumption DEF ClaimEmergency, TypeOK
  <2> QED
    BY <1>15, <2>2, <2>3, <2>4, <2>5 DEF ClaimEmergency, TypeOK
<1>16. ASSUME NEW k \in Key, ClaimExpires(k) PROVE TypeOK'
  <2>1. rec' \in [Key -> RecordType]
    <3>1. [rec[k] EXCEPT !.live = FALSE] \in RecordType
      BY DEF TypeOK, RecordType
    <3> QED
      BY <1>16, <3>1 DEF ClaimExpires, TypeOK
  <2> QED
    BY <1>16, <2>1 DEF ClaimExpires, TypeOK
<1>17. ASSUME NEW r \in Request, NEW l \in Lease, ObserveProvider(r, l) PROVE TypeOK'
  <2>1. req' \in [Request -> RequestType]
    BY <1>17, RequestSteps DEF ObserveProvider
  <2> QED
    BY <1>17, <2>1 DEF ObserveProvider, TypeOK
<1>18. ASSUME NEW r \in Request, NEW l \in Lease, MarkEmergencyReleased(r, l) PROVE TypeOK'
  <2>1. req' \in [Request -> RequestType]
    BY <1>18, RequestSteps DEF MarkEmergencyReleased
  <2>2. row' \in [Lease -> RowType]
    <3>1. [row[l] EXCEPT !.status = Released] \in RowType
      BY RowsStayRows DEF TypeOK
    <3>2. Settle(l) => row' \in [Lease -> RowType]
      BY <3>1 DEF Settle, TypeOK
    <3> QED
      BY <1>18, <3>2 DEF MarkEmergencyReleased, TypeOK
  <2> QED
    BY <1>18, <2>1, <2>2, BoundsAssumption DEF MarkEmergencyReleased, TypeOK, Fault
<1>19. ASSUME NEW r \in Request, NEW l \in Lease, MarkEmergencyFailed(r, l) PROVE TypeOK'
  <2>1. req' \in [Request -> RequestType]
    BY <1>19, RequestSteps DEF MarkEmergencyFailed
  <2>2. row' \in [Lease -> RowType]
    <3> DEFINE failed == [row[l] EXCEPT !.attempts = @ + 1, !.expired = TRUE, !.emergency = TRUE]
    <3>1. failed \in RowType
      <4>1. row[l] \in RowType
        BY DEF TypeOK
      <4>2. row[l].attempts + 1 \in Nat
        BY <4>1 DEF RowType
      <4> QED
        BY <4>1, <4>2 DEF RowType
    <3>2. row' = [row EXCEPT ![l] = failed] => row' \in [Lease -> RowType]
      BY <3>1 DEF TypeOK
    <3>3. (EmergencyFenced(r, l) /\ row' = [row EXCEPT ![l] = failed]) \/ row' = row
      BY <1>19 DEF MarkEmergencyFailed, TypeOK
    <3> QED
      BY <3>2, <3>3 DEF TypeOK
  <2> QED
    BY <1>19, <2>1, <2>2, BoundsAssumption DEF MarkEmergencyFailed, TypeOK, Fault
<1>20. ASSUME NEW r \in Request, NEW l \in Lease, Defer(r, l) PROVE TypeOK'
  <2>1. req' \in [Request -> RequestType]
    <3>1. \/ EndTask(r, l)
          \/ req' = [req EXCEPT ![r].job[l] = NoJob, ![r].pc = "failing"]
      BY <1>20 DEF Defer
    <3>2. /\ EndTask(r, l) => req' \in [Request -> RequestType]
          /\ [req EXCEPT ![r].job[l] = NoJob, ![r].pc = "failing"] \in [Request -> RequestType]
      BY RequestSteps
    <3> QED
      BY <3>1, <3>2
  <2>2. row' \in [Lease -> RowType]
    <3>1. [row[l] EXCEPT !.expired = TRUE] \in RowType
      BY RowFields DEF TypeOK
    <3>2. [row EXCEPT ![l].expired = TRUE] \in [Lease -> RowType]
      BY <3>1 DEF TypeOK
    <3>3. (EmergencyFenced(r, l) /\ row' = [row EXCEPT ![l].expired = TRUE]) \/ UNCHANGED row
      BY <1>20 DEF Defer
    <3> QED
      BY <3>2, <3>3 DEF TypeOK
  <2> QED
    BY <1>20, <2>1, <2>2, BoundsAssumption DEF Defer, TypeOK, Fault
<1>21. ASSUME NEW r \in Request, SettleRecord(r) PROVE TypeOK'
  <2>1. rec' \in [Key -> RecordType]
    BY <1>21 DEF SettleRecord, DerivedStatus, TypeOK, RecordType, RequestType
  <2> QED
    BY <1>21, <2>1, Starts, BoundsAssumption DEF SettleRecord, TypeOK, Fault
<1>22. ASSUME NEW r \in Request, AbandonRequest(r) PROVE TypeOK'
  BY <1>22, Starts, BoundsAssumption DEF AbandonRequest, TypeOK, Fault
<1>23. CASE UNCHANGED vars
  BY <1>23 DEF vars, TypeOK
<1> QED
  BY <1>1, <1>2, <1>3, <1>4, <1>5, <1>6, <1>7, <1>8, <1>9, <1>10, <1>11, <1>12, <1>13, <1>14,
     <1>15, <1>16, <1>17, <1>18, <1>19, <1>20, <1>21, <1>22, <1>23
     DEF Next, Work, RunSweep, SettleLease, RunRequest, SettleRoute

(***************************************************************************)
(* The variables keep their types: every status, owner and job that the    *)
(* repositories write is one of those the schema and the handlers know.    *)
(***************************************************************************)
THEOREM TypeCorrect == Spec => []TypeOK
BY InitType, StepType, PTL DEF Spec
-----------------------------------------------------------------------------
(***************************************************************************)
(* The inductive invariant.  ReleasedIsAbsent and CompletedIsAbsent say    *)
(* that a resource is absent; they last because a resource only appears    *)
(* when its operation is new, and a new operation has no row, no job and   *)
(* no record.  The records stay serialized because only a live claim is    *)
(* settled, and a live claim is of an unfinished operation.                *)
(***************************************************************************)
NewHasNoRow == \A l \in Lease : op[l] = "new" => ~Exists(l)

JobsHaveRows ==
  \A l \in Lease :
    /\ \A s \in Sweep : sweep[s].job[l].step # "none" => Exists(l)
    /\ \A r \in Request : req[r].job[l].step # "none" => Exists(l)

MarkedIsAbsent ==
  \A l \in Lease :
    /\ \A s \in Sweep : sweep[s].job[l].step = "mark" => l \notin inv
    /\ \A r \in Request : req[r].job[l].step = "mark" => l \notin inv

MembersWereClaimed ==
  \A k \in Key : \A l \in rec[k].ids : row[l].status \notin {"NONE", "ACTIVE"}

LiveIsPending == \A k \in Key : rec[k].live => rec[k].status = "PENDING"

JobInv == TypeOK /\ NewHasNoRow /\ JobsHaveRows /\ MarkedIsAbsent

LeaseInv ==
  /\ JobInv
  /\ ReleasedIsAbsent
  /\ MembersWereClaimed
  /\ LiveIsPending
  /\ CompletedIsAbsent
  /\ OneUnfinished
  /\ MembershipIsDisjoint


-----------------------------------------------------------------------------
(* What one step may do to a row, a resource and a job. *)

RowMoves(l) ==
  /\ Exists(l) => row'[l].status # "NONE"
  /\ Exists(l) /\ row[l].status # "ACTIVE" => row'[l].status # "ACTIVE"
  /\ ~Exists(l) /\ row'[l].status # "NONE" => op[l] = "called"
  /\ row'[l].status = Released => row[l].status = Released \/ l \notin inv

InvMoves(l) ==
  /\ l \in inv' => l \in inv \/ op[l] = "new"
  /\ op'[l] = "new" => op[l] = "new"

JobMoves(s, l) ==
  /\ sweep'[s].job[l].step # "none" => Exists(l)
  /\ sweep'[s].job[l].step = "mark" => sweep[s].job[l].step = "mark" \/ l \notin inv'

TaskMoves(r, l) ==
  /\ req'[r].job[l].step # "none" => Exists(l)
  /\ req'[r].job[l].step = "mark" => req[r].job[l].step = "mark" \/ l \notin inv'

RecordMoves ==
  \/ UNCHANGED rec
  \/ \E r \in Request, k \in Key : ClaimEmergency(r, k)
  \/ \E k \in Key : ClaimExpires(k)
  \/ \E r \in Request : SettleRecord(r)

RowsMove  == \A l \in Lease : RowMoves(l)
InvMove   == \A l \in Lease : InvMoves(l)
JobsMove  == \A s \in Sweep, l \in Lease : JobMoves(s, l)
TasksMove == \A r \in Request, l \in Lease : TaskMoves(r, l)
Moves == RowsMove /\ InvMove /\ JobsMove /\ TasksMove /\ RecordMoves

\* What does not change moves in the permitted way.
LEMMA Still ==
  ASSUME JobInv
  PROVE  /\ UNCHANGED row => RowsMove
         /\ UNCHANGED op /\ inv' \subseteq inv => InvMove
         /\ UNCHANGED sweep => JobsMove
         /\ UNCHANGED req => TasksMove
         /\ UNCHANGED rec => RecordMoves
BY DEF JobInv, JobsHaveRows, Exists, RowsMove, RowMoves, InvMove, InvMoves, JobsMove, JobMoves,
       TasksMove, TaskMoves, RecordMoves

\* A job's step is replaced, every other job stays as it is.
LEMMA JobFrame ==
  ASSUME TypeOK, NEW s \in Sweep, NEW l \in Lease, NEW step \in {"none", "release", "mark", "fail"},
         \/ NextJob(s, l, step)
         \/ step = "none" /\ EndJob(s, l)
  PROVE  \A z \in Sweep, m \in Lease :
           sweep'[z].job[m].step = IF z = s /\ m = l THEN step ELSE sweep[z].job[m].step
<1>1. sweep[s] \in SweepType /\ sweep[s].job \in [Lease -> Jobs] /\ sweep[s].job[l] \in Jobs
  BY DEF TypeOK, SweepType
<1>2. PICK job : job.step = step /\ sweep' = [sweep EXCEPT ![s].job[l] = job]
  <2>1. CASE NextJob(s, l, step)
    <3>1. sweep' = [sweep EXCEPT ![s].job[l] = [sweep[s].job[l] EXCEPT !.step = step]]
      BY <2>1 DEF NextJob
    <3>2. [sweep[s].job[l] EXCEPT !.step = step].step = step
      BY <1>1 DEF Jobs
    <3> QED
      BY <3>1, <3>2
  <2>2. CASE step = "none" /\ EndJob(s, l)
    BY <2>2 DEF EndJob, NoJob, Job
  <2> QED
    BY <2>1, <2>2
<1>3. sweep' = [sweep EXCEPT ![s] = [sweep[s] EXCEPT !.job = [sweep[s].job EXCEPT ![l] = job]]]
  BY <1>2
<1>4. [sweep[s] EXCEPT !.job = [sweep[s].job EXCEPT ![l] = job]].job = [sweep[s].job EXCEPT ![l] = job]
  BY <1>1 DEF SweepType
<1>5. sweep'[s].job = [sweep[s].job EXCEPT ![l] = job] /\ \A z \in Sweep \ {s} : sweep'[z] = sweep[z]
  BY <1>3, <1>4 DEF TypeOK
<1> QED
  BY <1>1, <1>2, <1>5

\* The task is dropped and its request fails.
FailTask(r, l) == req' = [req EXCEPT ![r].job[l] = NoJob, ![r].pc = "failing"]

LEMMA TaskFrame ==
  ASSUME TypeOK, NEW r \in Request, NEW l \in Lease,
         NEW step \in {"none", "observe", "mark", "unmark", "defer"},
         \/ NextTask(r, l, step)
         \/ step = "none" /\ EndTask(r, l)
         \/ step = "none" /\ FailTask(r, l)
  PROVE  \A z \in Request, m \in Lease :
           req'[z].job[m].step = IF z = r /\ m = l THEN step ELSE req[z].job[m].step
<1>1. req[r] \in RequestType /\ req[r].job \in [Lease -> Tasks] /\ req[r].job[l] \in Tasks
  BY DEF TypeOK, RequestType
<1>2. PICK task : /\ task.step = step
                  /\ \/ req' = [req EXCEPT ![r].job[l] = task]
                     \/ req' = [req EXCEPT ![r].job[l] = task, ![r].pc = "failing"]
  <2>1. CASE NextTask(r, l, step)
    <3>1. req' = [req EXCEPT ![r].job[l] = [req[r].job[l] EXCEPT !.step = step]]
      BY <2>1 DEF NextTask
    <3>2. [req[r].job[l] EXCEPT !.step = step].step = step
      BY <1>1 DEF Tasks
    <3> QED
      BY <3>1, <3>2
  <2>2. CASE step = "none" /\ ~NextTask(r, l, step)
    <3>1. NoJob.step = step
      BY <2>2 DEF NoJob, Job
    <3> QED
      BY <2>2, <3>1 DEF EndTask, FailTask
  <2> QED
    BY <2>1, <2>2
<1>3. \/ req' = [req EXCEPT ![r] = [req[r] EXCEPT !.job = [req[r].job EXCEPT ![l] = task]]]
      \/ req' = [req EXCEPT ![r] = [req[r] EXCEPT !.job = [req[r].job EXCEPT ![l] = task], !.pc = "failing"]]
  BY <1>2 DEF TypeOK
<1>4. /\ [req[r] EXCEPT !.job = [req[r].job EXCEPT ![l] = task]].job = [req[r].job EXCEPT ![l] = task]
      /\ [req[r] EXCEPT !.job = [req[r].job EXCEPT ![l] = task], !.pc = "failing"].job
           = [req[r].job EXCEPT ![l] = task]
  BY <1>1 DEF RequestType
<1>5. req'[r].job = [req[r].job EXCEPT ![l] = task] /\ \A z \in Request \ {r} : req'[z] = req[z]
  BY <1>3, <1>4 DEF TypeOK
<1> QED
  BY <1>1, <1>2, <1>5

\* A job ends, or goes on to a step that is not "mark".
LEMMA JobGoesOn ==
  ASSUME JobInv, NEW s \in Sweep, NEW l \in Lease,
         \/ EndJob(s, l)
         \/ sweep[s].job[l].step # "none" /\ NextJob(s, l, "fail")
  PROVE  JobsMove
<1>1. PICK step \in {"none", "fail"} :
         /\ step # "none" => sweep[s].job[l].step # "none"
         /\ NextJob(s, l, step) \/ (step = "none" /\ EndJob(s, l))
  OBVIOUS
<1>2. \A z \in Sweep, m \in Lease :
        sweep'[z].job[m].step = IF z = s /\ m = l THEN step ELSE sweep[z].job[m].step
  BY <1>1, JobFrame DEF JobInv
<1> QED
  BY <1>1, <1>2 DEF JobInv, JobsHaveRows, JobsMove, JobMoves

LEMMA TaskGoesOn ==
  ASSUME JobInv, NEW r \in Request, NEW l \in Lease, req[r].job[l].step # "none",
         \/ NextTask(r, l, "unmark")
         \/ EndTask(r, l)
         \/ FailTask(r, l)
  PROVE  TasksMove
<1>1. PICK step \in {"none", "unmark"} :
         \/ NextTask(r, l, step)
         \/ step = "none" /\ EndTask(r, l)
         \/ step = "none" /\ FailTask(r, l)
  OBVIOUS
<1>2. \A z \in Request, m \in Lease :
        req'[z].job[m].step = IF z = r /\ m = l THEN step ELSE req[z].job[m].step
  <2>1. TypeOK /\ step \in {"none", "observe", "mark", "unmark", "defer"}
    BY <1>1 DEF JobInv
  <2> QED
    BY <1>1, <2>1, TaskFrame
<1> QED
  BY <1>2 DEF JobInv, JobsHaveRows, TasksMove, TaskMoves

\* A sweep or a request that has no job.
LEMMA NothingToDo ==
  ASSUME TypeOK
  PROVE  /\ \A l \in Lease : IdleSweep.job[l].step = "none" /\ IdleRequest.job[l].step = "none"
         /\ \A s \in Sweep : sweep' = [sweep EXCEPT ![s] = IdleSweep] /\ JobInv => JobsMove
         /\ \A r \in Request : req' = [req EXCEPT ![r] = IdleRequest] /\ JobInv => TasksMove
<1>1. \A l \in Lease : IdleSweep.job[l].step = "none" /\ IdleRequest.job[l].step = "none"
  BY DEF IdleSweep, IdleRequest, NoJobs, NoJob, Job
<1>2. ASSUME NEW s \in Sweep, sweep' = [sweep EXCEPT ![s] = IdleSweep], JobInv PROVE JobsMove
  <2>1. sweep'[s] = IdleSweep /\ \A z \in Sweep \ {s} : sweep'[z] = sweep[z]
    BY <1>2 DEF TypeOK
  <2> QED
    BY <1>1, <1>2, <2>1 DEF JobInv, JobsHaveRows, JobsMove, JobMoves
<1>3. ASSUME NEW r \in Request, req' = [req EXCEPT ![r] = IdleRequest], JobInv PROVE TasksMove
  <2>1. req'[r] = IdleRequest /\ \A z \in Request \ {r} : req'[z] = req[z]
    BY <1>3 DEF TypeOK
  <2> QED
    BY <1>1, <1>3, <2>1 DEF JobInv, JobsHaveRows, TasksMove, TaskMoves
<1> QED
  BY <1>1, <1>2, <1>3

\* The row of a marked job is settled: its resource is absent.
LEMMA SettledIsAbsent ==
  ASSUME JobInv, NEW l \in Lease, Settle(l), Exists(l), l \notin inv
  PROVE  RowsMove
<1>1. row[l] \in RowType /\ row \in [Lease -> RowType]
  BY DEF JobInv, TypeOK
<1>2. row'[l].status = Released /\ \A m \in Lease \ {l} : row'[m] = row[m]
  BY <1>1 DEF Settle, RowType
<1> QED
  BY <1>2 DEF RowsMove, RowMoves, Exists, Released

\* Every step moves rows, resources, jobs and records in the permitted way.
LEMMA StepMoves == JobInv /\ [Next]_vars => Moves
<1> SUFFICES ASSUME JobInv, [Next]_vars PROVE Moves
  OBVIOUS
<1> USE Still DEF worker, sweeping, releasing, Moves
<1>0. TypeOK
  BY DEF JobInv
<1>1. ASSUME NEW l \in Lease, Dispatch(l) PROVE Moves
  <2>1. InvMove
    BY <1>1, <1>0 DEF Dispatch, InvMove, InvMoves, TypeOK
  <2> QED
    BY <1>1, <2>1 DEF Dispatch
<1>2. ASSUME NEW l \in Lease, Resume(l) PROVE Moves
  <2>1. InvMove
    BY <1>2, <1>0 DEF Resume, InvMove, InvMoves, TypeOK
  <2> QED
    BY <1>2, <2>1 DEF Resume
<1>3. ASSUME NEW l \in Lease, Project(l) PROVE Moves
  <2>1. InvMove
    BY <1>3, <1>0 DEF Project, InvMove, InvMoves, TypeOK
  <2>2. RowsMove
    <3>1. PICK failed \in SUBSET {"intent", "lease"} :
            row' = [row EXCEPT ![l] = IF Exists(l) \/ "lease" \in failed THEN @
                      ELSE [NoRow EXCEPT !.status = "ACTIVE", !.fence = 1]]
      BY <1>3 DEF Project
    <3>2. row'[l].status = row[l].status \/ (~Exists(l) /\ row'[l].status = "ACTIVE")
      BY <3>1, <1>0 DEF TypeOK, NoRow
    <3>3. \A m \in Lease \ {l} : row'[m] = row[m]
      BY <3>1, <1>0 DEF TypeOK
    <3> QED
      BY <1>3, <3>2, <3>3 DEF RowsMove, RowMoves, Exists, Project, Released
  <2> QED
    BY <1>3, <2>1, <2>2 DEF Project
<1>4. ASSUME NEW l \in Lease, LeaseExpires(l) PROVE Moves
  <2>1. \A m \in Lease : row'[m].status = row[m].status
    BY <1>4, <1>0 DEF LeaseExpires, TypeOK, RowType
  <2>2. RowsMove
    BY <2>1 DEF RowsMove, RowMoves, Exists
  <2> QED
    BY <1>4, <2>2 DEF LeaseExpires
<1>5. CASE WorkerRestarts
  <2>1. InvMove
    BY <1>5, <1>0 DEF WorkerRestarts, InvMove, InvMoves, TypeOK
  <2>2. JobsMove
    BY <1>5, <1>0, NothingToDo DEF WorkerRestarts, JobsMove, JobMoves
  <2> QED
    BY <1>5, <2>1, <2>2 DEF WorkerRestarts
<1>6. CASE LockExpires
  BY <1>6 DEF LockExpires
<1>7. ASSUME NEW s \in Sweep, AcquireLock(s) PROVE Moves
  <2>1. \A z \in Sweep : sweep'[z].job = sweep[z].job
    BY <1>7, <1>0 DEF AcquireLock, TypeOK, SweepType
  <2>2. JobsMove
    BY <2>1 DEF JobInv, JobsHaveRows, JobsMove, JobMoves
  <2> QED
    BY <1>7, <2>2 DEF AcquireLock
<1>8. ASSUME NEW s \in Sweep, ClaimExpired(s) PROVE Moves
  <2>1. CASE sweep' = [sweep EXCEPT ![s] = IdleSweep] /\ UNCHANGED row
    BY <1>8, <2>1, <1>0, NothingToDo DEF ClaimExpired
  <2>2. CASE ~(sweep' = [sweep EXCEPT ![s] = IdleSweep] /\ UNCHANGED row)
    <3> DEFINE job == [l \in Lease |-> IF Claimable(l) THEN Job("release", row[l].fence + 1) ELSE NoJob]
    <3>1. /\ row' = [l \in Lease |-> IF Claimable(l) THEN Taken(row[l], s, "CLEANUP_PENDING") ELSE row[l]]
          /\ sweep' = [sweep EXCEPT ![s] = [pc |-> "settle", known |-> {}, job |-> job]]
      BY <1>8, <2>2 DEF ClaimExpired
    <3>2. RowsMove
      <4>1. \A l \in Lease : Claimable(l) => Exists(l) /\ row'[l].status = "CLEANUP_PENDING"
        BY <3>1, <1>0 DEF Claimable, Exists, Pending, Taken, TypeOK, RowType
      <4>2. \A l \in Lease : ~Claimable(l) => row'[l] = row[l]
        BY <3>1
      <4> QED
        BY <4>1, <4>2 DEF RowsMove, RowMoves, Exists, Released
    <3>3. JobsMove
      <4>1. \A l \in Lease : /\ job[l].step \in {"none", "release"}
                             /\ job[l].step # "none" => Exists(l)
        BY DEF Job, NoJob, Claimable, Exists, Pending
      <4>2. sweep'[s].job = job /\ \A z \in Sweep \ {s} : sweep'[z] = sweep[z]
        BY <3>1, <1>0 DEF TypeOK
      <4> HIDE DEF job
      <4> QED
        BY <4>1, <4>2 DEF JobInv, JobsHaveRows, JobsMove, JobMoves
    <3> QED
      BY <1>8, <3>2, <3>3 DEF ClaimExpired
  <2> QED
    BY <2>1, <2>2
<1>9. ASSUME NEW s \in Sweep, NEW l \in Lease, ReleaseResource(s, l) PROVE Moves
  <2>1. Exists(l)
    BY <1>9 DEF ReleaseResource, JobAt, JobInv, JobsHaveRows
  <2>2. InvMove
    BY <1>9 DEF ReleaseResource, InvMove, InvMoves
  <2>3. JobsMove
    <3>1. CASE inv' = inv \ {l} /\ NextJob(s, l, "mark")
      <4>1. \A z \in Sweep, m \in Lease :
              sweep'[z].job[m].step = IF z = s /\ m = l THEN "mark" ELSE sweep[z].job[m].step
        BY <3>1, <1>0, JobFrame
      <4> QED
        BY <3>1, <4>1, <2>1 DEF JobInv, JobsHaveRows, JobsMove, JobMoves
    <3>2. CASE NextJob(s, l, "fail")
      BY <1>9, <3>2, JobGoesOn DEF ReleaseResource, JobAt
    <3> QED
      BY <1>9, <3>1, <3>2 DEF ReleaseResource
  <2> QED
    BY <1>9, <2>2, <2>3 DEF ReleaseResource
<1>10. ASSUME NEW s \in Sweep, NEW l \in Lease, MarkReleased(s, l) PROVE Moves
  <2>1. Exists(l) /\ l \notin inv /\ sweep[s].job[l].step # "none"
    BY <1>10 DEF MarkReleased, JobAt, JobInv, JobsHaveRows, MarkedIsAbsent
  <2>2. JobsMove
    BY <1>10, <2>1, JobGoesOn DEF MarkReleased
  <2>3. RowsMove
    BY <1>10, <2>1, SettledIsAbsent DEF MarkReleased
  <2> QED
    BY <1>10, <2>2, <2>3 DEF MarkReleased
<1>11. ASSUME NEW s \in Sweep, NEW l \in Lease, RecordFailure(s, l) PROVE Moves
  <2>1. Exists(l)
    BY <1>11 DEF RecordFailure, JobAt, JobInv, JobsHaveRows
  <2>2. JobsMove
    BY <1>11, JobGoesOn DEF RecordFailure
  <2>3. RowsMove
    <3>1. CASE row' = [row EXCEPT ![l] = Failed(@)]
      <4>1. /\ row'[l].status \in {row[l].status, Exhausted}
            /\ \A m \in Lease \ {l} : row'[m] = row[m]
        BY <3>1, <1>0 DEF Failed, TypeOK, RowType
      <4> QED
        BY <4>1, <2>1 DEF RowsMove, RowMoves, Exists, Exhausted, Released
    <3> QED
      BY <1>11, <3>1 DEF RecordFailure
  <2> QED
    BY <1>11, <2>2, <2>3 DEF RecordFailure
<1>12. ASSUME NEW s \in Sweep, ReadOwnershipKeys(s) PROVE Moves
  <2>1. \A z \in Sweep : sweep'[z].job = sweep[z].job
    <3> DEFINE known == {l \in Lease : Exists(l)}
    <3>1. \/ sweep' = [sweep EXCEPT ![s].pc = "orphans", ![s].known = known]
          \/ sweep' = [sweep EXCEPT ![s].pc = "finish"]
      BY <1>12 DEF ReadOwnershipKeys
    <3> HIDE DEF known
    <3> QED
      BY <3>1, <1>0 DEF TypeOK, SweepType
  <2>2. JobsMove
    BY <2>1 DEF JobInv, JobsHaveRows, JobsMove, JobMoves
  <2> QED
    BY <1>12, <2>2 DEF ReadOwnershipKeys
<1>13. ASSUME NEW s \in Sweep, RemoveOrphans(s) PROVE Moves
  <2>1. \A z \in Sweep : sweep'[z].job = sweep[z].job
    BY <1>13, <1>0 DEF RemoveOrphans, TypeOK, SweepType
  <2>2. JobsMove
    BY <2>1 DEF JobInv, JobsHaveRows, JobsMove, JobMoves
  <2>3. InvMove
    BY <1>13 DEF RemoveOrphans, InvMove, InvMoves
  <2> QED
    BY <1>13, <2>2, <2>3 DEF RemoveOrphans
<1>14. ASSUME NEW s \in Sweep, FinishSweep(s) PROVE Moves
  BY <1>14, <1>0, NothingToDo DEF FinishSweep
<1>15. ASSUME NEW r \in Request, NEW k \in Key, ClaimEmergency(r, k) PROVE Moves
  <2> DEFINE taken == Candidates(k)
             job == [l \in Lease |-> IF l \in taken \ Decoy THEN Job(FirstStep(l), row[l].fence + 1)
                                     ELSE NoJob]
  <2>1. \A l \in Lease : l \in taken => Exists(l)
    BY DEF Candidates, Leftover, Exists
  <2>2. RowsMove
    <3>1. row' = [l \in Lease |-> IF l \in taken THEN ForEmergency(r, l) ELSE row[l]]
      BY <1>15 DEF ClaimEmergency
    <3>2. \A l \in Lease : l \in taken => row'[l].status \in {"PENDING_CLEANUP", "EMERGENCY_RELEASE_PENDING"}
      BY <3>1, <1>0 DEF ForEmergency, Taken, TypeOK, RowType
    <3> HIDE DEF taken
    <3>3. \A l \in Lease : l \notin taken => row'[l] = row[l]
      BY <3>1
    <3> QED
      BY <2>1, <3>2, <3>3 DEF RowsMove, RowMoves, Exists, Released
  <2>3. TasksMove
    <3>1. req' = [req EXCEPT ![r] = [pc |-> "settle", key |-> k, job |-> job]]
      BY <1>15 DEF ClaimEmergency
    <3>2. req'[r].job = job /\ \A z \in Request \ {r} : req'[z] = req[z]
      BY <3>1, <1>0 DEF TypeOK
    <3>3. \A l \in Lease : /\ job[l].step \in {"none", "observe", "defer"}
                           /\ job[l].step # "none" => Exists(l)
      BY <2>1 DEF Job, NoJob, FirstStep
    <3> HIDE DEF job
    <3> QED
      BY <3>2, <3>3 DEF JobInv, JobsHaveRows, TasksMove, TaskMoves
  <2>4. RecordMoves
    BY <1>15 DEF RecordMoves
  <2> QED
    BY <1>15, <2>2, <2>3, <2>4 DEF ClaimEmergency
<1>16. ASSUME NEW k \in Key, ClaimExpires(k) PROVE Moves
  BY <1>16 DEF ClaimExpires, RecordMoves
<1>17. ASSUME NEW r \in Request, NEW l \in Lease, ObserveProvider(r, l) PROVE Moves
  <2>1. Exists(l)
    BY <1>17 DEF ObserveProvider, TaskAt, JobInv, JobsHaveRows
  <2>2. InvMove
    BY <1>17 DEF ObserveProvider, InvMove, InvMoves
  <2>3. TasksMove
    <3>1. PICK step \in {"mark", "unmark", "defer"} :
            NextTask(r, l, step) /\ (step = "mark" => inv' = inv \ SameSlot(l))
      BY <1>17 DEF ObserveProvider
    <3>2. \A z \in Request, m \in Lease :
            req'[z].job[m].step = IF z = r /\ m = l THEN step ELSE req[z].job[m].step
      BY <3>1, <1>0, TaskFrame
    <3>3. l \in SameSlot(l)
      BY DEF SameSlot
    <3> QED
      BY <3>1, <3>2, <3>3, <2>1 DEF JobInv, JobsHaveRows, TasksMove, TaskMoves
  <2> QED
    BY <1>17, <2>2, <2>3 DEF ObserveProvider
<1>18. ASSUME NEW r \in Request, NEW l \in Lease, MarkEmergencyReleased(r, l) PROVE Moves
  <2>1. Exists(l) /\ l \notin inv /\ req[r].job[l].step # "none"
    BY <1>18 DEF MarkEmergencyReleased, TaskAt, JobInv, JobsHaveRows, MarkedIsAbsent
  <2>2. TasksMove
    BY <1>18, <2>1, TaskGoesOn DEF MarkEmergencyReleased
  <2>3. RowsMove
    BY <1>18, <2>1, SettledIsAbsent DEF MarkEmergencyReleased
  <2> QED
    BY <1>18, <2>2, <2>3 DEF MarkEmergencyReleased
<1>19. ASSUME NEW r \in Request, NEW l \in Lease, MarkEmergencyFailed(r, l) PROVE Moves
  <2>1. TasksMove
    BY <1>19, TaskGoesOn DEF MarkEmergencyFailed, TaskAt
  <2>2. \A m \in Lease : row'[m].status = row[m].status
    BY <1>19, <1>0 DEF MarkEmergencyFailed, TypeOK, RowType
  <2>3. RowsMove
    BY <2>2 DEF RowsMove, RowMoves, Exists
  <2> QED
    BY <1>19, <2>1, <2>3 DEF MarkEmergencyFailed
<1>20. ASSUME NEW r \in Request, NEW l \in Lease, Defer(r, l) PROVE Moves
  <2>1. EndTask(r, l) \/ FailTask(r, l)
    BY <1>20 DEF Defer, FailTask
  <2>2. TasksMove
    BY <1>20, <2>1, TaskGoesOn DEF Defer, TaskAt
  <2>3. row' = [row EXCEPT ![l].expired = TRUE] \/ UNCHANGED row
    BY <1>20 DEF Defer
  <2>4. \A m \in Lease : row'[m].status = row[m].status
    BY <2>3, <1>0 DEF TypeOK, RowType
  <2>5. RowsMove
    BY <2>4 DEF RowsMove, RowMoves, Exists
  <2> QED
    BY <1>20, <2>2, <2>5 DEF Defer
<1>21. ASSUME NEW r \in Request, SettleRecord(r) PROVE Moves
  BY <1>21, <1>0, NothingToDo DEF SettleRecord, RecordMoves
<1>22. ASSUME NEW r \in Request, AbandonRequest(r) PROVE Moves
  BY <1>22, <1>0, NothingToDo DEF AbandonRequest
<1>23. CASE UNCHANGED vars
  BY <1>23 DEF vars
<1> QED
  BY <1>1, <1>2, <1>3, <1>4, <1>5, <1>6, <1>7, <1>8, <1>9, <1>10, <1>11, <1>12, <1>13, <1>14,
     <1>15, <1>16, <1>17, <1>18, <1>19, <1>20, <1>21, <1>22, <1>23
     DEF Next, Work, RunSweep, SettleLease, RunRequest, SettleRoute

-----------------------------------------------------------------------------
(* The invariant holds initially and every step preserves it. *)

LEMMA InitLease == Init => LeaseInv
<1> SUFFICES ASSUME Init PROVE LeaseInv
  OBVIOUS
<1>1. TypeOK
  BY InitType
<1>2. NewHasNoRow /\ ReleasedIsAbsent
  BY DEF Init, NewHasNoRow, ReleasedIsAbsent, Exists, NoRow
<1>3. JobsHaveRows /\ MarkedIsAbsent
  BY <1>1, NothingToDo DEF Init, JobsHaveRows, MarkedIsAbsent
<1>4. /\ MembersWereClaimed /\ LiveIsPending /\ CompletedIsAbsent
      /\ OneUnfinished /\ MembershipIsDisjoint
  BY DEF Init, MembersWereClaimed, LiveIsPending, CompletedIsAbsent, OneUnfinished,
         MembershipIsDisjoint, Unfinished
<1> QED
  BY <1>1, <1>2, <1>3, <1>4 DEF LeaseInv, JobInv

\* The part about jobs, and with it that a released lease has no resource.
LEMMA StepJobs == JobInv /\ ReleasedIsAbsent /\ [Next]_vars => JobInv' /\ ReleasedIsAbsent'
<1> SUFFICES ASSUME JobInv, ReleasedIsAbsent, [Next]_vars PROVE JobInv' /\ ReleasedIsAbsent'
  OBVIOUS
<1>1. TypeOK'
  BY StepType DEF JobInv
<1>2. RowsMove /\ InvMove /\ JobsMove /\ TasksMove
  BY StepMoves DEF Moves
<1>3. NewHasNoRow'
  BY <1>2 DEF RowsMove, RowMoves, InvMove, InvMoves, JobInv, NewHasNoRow, Exists
<1>4. JobsHaveRows'
  BY <1>2 DEF RowsMove, RowMoves, JobsMove, JobMoves, TasksMove, TaskMoves, JobsHaveRows, Exists
<1>5. MarkedIsAbsent'
  <2>1. ASSUME NEW l \in Lease, Exists(l), l \notin inv PROVE l \notin inv'
    BY <1>2, <2>1 DEF InvMove, InvMoves, JobInv, NewHasNoRow
  <2>2. ASSUME NEW l \in Lease, NEW s \in Sweep, sweep'[s].job[l].step = "mark" PROVE l \notin inv'
    BY <1>2, <2>1, <2>2 DEF JobsMove, JobMoves, JobInv, MarkedIsAbsent
  <2>3. ASSUME NEW l \in Lease, NEW r \in Request, req'[r].job[l].step = "mark" PROVE l \notin inv'
    BY <1>2, <2>1, <2>3 DEF TasksMove, TaskMoves, JobInv, MarkedIsAbsent
  <2> QED
    BY <2>2, <2>3 DEF MarkedIsAbsent
<1>6. ReleasedIsAbsent'
  <2> SUFFICES ASSUME NEW l \in Lease, row'[l].status = Released PROVE l \notin inv'
    BY DEF ReleasedIsAbsent
  <2>1. l \notin inv
    BY <1>2 DEF RowsMove, RowMoves, ReleasedIsAbsent
  <2>2. op[l] # "new"
    BY <1>2 DEF RowsMove, RowMoves, JobInv, NewHasNoRow, Exists, Released
  <2> QED
    BY <1>2, <2>1, <2>2 DEF InvMove, InvMoves
<1> QED
  BY <1>1, <1>3, <1>4, <1>5, <1>6 DEF JobInv

\* A record that is COMPLETED by a settlement has no route left.
LEMMA CompletionIsTrue ==
  ASSUME TypeOK, ReleasedIsAbsent, NEW k \in Key, DerivedStatus(rec[k].ids) = "COMPLETED"
  PROVE  (rec[k].ids \ Decoy) \cap inv = {}
<1> SUFFICES ASSUME NEW l \in rec[k].ids \ Decoy PROVE l \notin inv
  OBVIOUS
<1>1. l \in Lease
  BY DEF TypeOK, RecordType
<1>2. Outcome(l) # "FAILED" /\ Outcome(l) # "PENDING"
  BY DEF DerivedStatus
<1>3. row[l].status = Released
  BY <1>2 DEF Outcome
<1> QED
  BY <1>1, <1>3 DEF ReleasedIsAbsent

RecordInv ==
  MembersWereClaimed /\ LiveIsPending /\ CompletedIsAbsent /\ OneUnfinished /\ MembershipIsDisjoint

\* The records, when rows and resources move as they may.
LEMMA RecordsHold ==
  ASSUME LeaseInv, Moves, UNCHANGED rec
  PROVE  RecordInv'
<1>1. \A k \in Key : rec[k].ids \subseteq Lease
  BY DEF LeaseInv, JobInv, TypeOK, RecordType
<1>2. MembersWereClaimed'
  BY <1>1 DEF LeaseInv, MembersWereClaimed, Moves, RowsMove, RowMoves, Exists
<1>3. CompletedIsAbsent'
  <2> SUFFICES ASSUME NEW k \in Key, rec[k].status = "COMPLETED", NEW l \in rec[k].ids \ Decoy
               PROVE  l \notin inv'
    BY DEF CompletedIsAbsent
  <2>1. l \in Lease /\ l \notin inv /\ Exists(l)
    BY <1>1 DEF LeaseInv, CompletedIsAbsent, MembersWereClaimed, Exists
  <2> QED
    BY <2>1 DEF LeaseInv, JobInv, NewHasNoRow, Moves, InvMove, InvMoves
<1>4. LiveIsPending' /\ OneUnfinished' /\ MembershipIsDisjoint'
  BY DEF LeaseInv, LiveIsPending, OneUnfinished, MembershipIsDisjoint, Unfinished
<1> QED
  BY <1>2, <1>3, <1>4 DEF RecordInv

LEMMA StepRecords == LeaseInv /\ [Next]_vars => RecordInv'
<1> SUFFICES ASSUME LeaseInv, [Next]_vars PROVE RecordInv'
  OBVIOUS
<1>1. TypeOK /\ Moves
  BY StepMoves DEF LeaseInv, JobInv
<1>2. CASE UNCHANGED rec
  BY <1>1, <1>2, RecordsHold
<1>3. ASSUME NEW r \in Request, NEW k \in Key, ClaimEmergency(r, k) PROVE RecordInv'
  <2> DEFINE taken == Candidates(k)
  <2>1. /\ rec' = [rec EXCEPT ![k] = [status |-> "PENDING", owner |-> r, live |-> TRUE,
                                      ids |-> rec[k].ids \cup taken]]
        /\ row' = [l \in Lease |-> IF l \in taken THEN ForEmergency(r, l) ELSE row[l]]
        /\ MayClaim(k)
    BY <1>3 DEF ClaimEmergency, TypeOK
  <2>2. /\ rec'[k] = [status |-> "PENDING", owner |-> r, live |-> TRUE, ids |-> rec[k].ids \cup taken]
        /\ \A j \in Key \ {k} : rec'[j] = rec[j]
    BY <2>1, <1>1 DEF TypeOK
  <2>3. taken \subseteq {l \in Lease : row[l].status = "ACTIVE"} \cup rec[k].ids
    BY DEF Candidates, Leftover
  <2>4. \A j \in Key : rec[j].ids \subseteq Lease
    BY <1>1 DEF TypeOK, RecordType
  <2>5. \A l \in taken : row'[l].status \notin {"NONE", "ACTIVE"}
    <3>1. \A l \in taken : l \in Lease
      BY <2>3, <2>4
    <3> QED
      BY <2>1, <3>1, <1>1 DEF ForEmergency, Taken, TypeOK, RowType
  <2> HIDE DEF taken
  <2>6. MembersWereClaimed'
    <3> SUFFICES ASSUME NEW j \in Key, NEW l \in rec'[j].ids
                 PROVE  row'[l].status \notin {"NONE", "ACTIVE"}
      BY DEF MembersWereClaimed
    <3>1. CASE l \in taken
      BY <2>5, <3>1
    <3>2. CASE l \notin taken
      <4>1. l \in rec[j].ids /\ l \in Lease
        BY <2>2, <2>4, <3>2
      <4>2. row'[l] = row[l]
        BY <2>1, <3>2, <4>1
      <4> QED
        BY <4>1, <4>2 DEF LeaseInv, MembersWereClaimed
    <3> QED
      BY <3>1, <3>2
  <2>7. LiveIsPending'
    BY <2>2 DEF LeaseInv, LiveIsPending
  <2>8. CompletedIsAbsent'
    <3>1. UNCHANGED inv
      BY <1>3 DEF ClaimEmergency, worker
    <3> QED
      BY <2>2, <3>1 DEF LeaseInv, CompletedIsAbsent
  <2>9. OneUnfinished'
    BY <2>1, <2>2 DEF OneUnfinished, Unfinished, MayClaim
  <2>10. MembershipIsDisjoint'
    <3>1. \A j \in Key \ {k} : rec[j].ids \cap taken = {}
      BY <2>3 DEF LeaseInv, MembersWereClaimed, MembershipIsDisjoint
    <3> QED
      BY <2>2, <3>1 DEF LeaseInv, MembershipIsDisjoint
  <2> QED
    BY <2>6, <2>7, <2>8, <2>9, <2>10 DEF RecordInv
<1>4. ASSUME NEW k \in Key, ClaimExpires(k) PROVE RecordInv'
  <2>1. /\ UNCHANGED <<inv, row>>
        /\ \A j \in Key : /\ rec'[j].ids = rec[j].ids /\ rec'[j].status = rec[j].status
                          /\ rec'[j].live => rec[j].live
    BY <1>1, <1>4 DEF ClaimExpires, worker, TypeOK, RecordType
  <2> QED
    BY <2>1 DEF RecordInv, LeaseInv, MembersWereClaimed, LiveIsPending, CompletedIsAbsent,
                OneUnfinished, MembershipIsDisjoint, Unfinished
<1>5. ASSUME NEW r \in Request, SettleRecord(r), ~UNCHANGED rec PROVE RecordInv'
  <2> DEFINE k == req[r].key
  <2>1. /\ UNCHANGED <<inv, row>>
        /\ rec[k].live
        /\ rec' = [rec EXCEPT ![k].status = DerivedStatus(rec[k].ids), ![k].live = FALSE]
    BY <1>5 DEF SettleRecord, worker
  <2>2. k \in Key
    BY <1>1, <1>5, <2>1 DEF TypeOK
  <2> HIDE DEF k
  <2>3. /\ \A j \in Key : rec'[j].ids = rec[j].ids /\ (rec'[j].live => rec[j].live)
        /\ rec'[k].status = DerivedStatus(rec[k].ids) /\ ~rec'[k].live
        /\ \A j \in Key \ {k} : rec'[j] = rec[j]
    BY <1>1, <2>1, <2>2 DEF TypeOK, RecordType
  <2>4. MembersWereClaimed' /\ MembershipIsDisjoint'
    BY <2>1, <2>3 DEF LeaseInv, MembersWereClaimed, MembershipIsDisjoint
  <2>5. LiveIsPending'
    BY <2>2, <2>3 DEF LeaseInv, LiveIsPending
  <2>6. CompletedIsAbsent'
    <3>1. DerivedStatus(rec[k].ids) = "COMPLETED" => (rec[k].ids \ Decoy) \cap inv = {}
      BY <1>1, <2>2, CompletionIsTrue DEF LeaseInv
    <3> QED
      BY <2>1, <2>3, <3>1 DEF LeaseInv, CompletedIsAbsent
  <2>7. OneUnfinished'
    <3>1. Unfinished(k)
      BY <2>1, <2>2 DEF LeaseInv, LiveIsPending, Unfinished
    <3> QED
      BY <2>2, <2>3, <3>1 DEF LeaseInv, OneUnfinished, Unfinished
  <2> QED
    BY <2>4, <2>5, <2>6, <2>7 DEF RecordInv
<1> QED
  BY <1>1, <1>2, <1>3, <1>4, <1>5 DEF Moves, RecordMoves

(***************************************************************************)
(* The inductive invariant holds in every reachable state.                 *)
(***************************************************************************)
THEOREM Inductive == Spec => []LeaseInv
<1>1. LeaseInv /\ [Next]_vars => LeaseInv'
  BY StepJobs, StepRecords DEF LeaseInv, RecordInv
<1> QED
  BY InitLease, <1>1, PTL DEF Spec

(***************************************************************************)
(* A lease that is recorded as released has no resource in the provider's  *)
(* inventory, for any number of sweeps, requests, failures and restarts.   *)
(***************************************************************************)
THEOREM ReleasedLeases == Spec => []ReleasedIsAbsent
<1>1. LeaseInv => ReleasedIsAbsent
  BY DEF LeaseInv
<1> QED
  BY Inductive, <1>1, PTL

(***************************************************************************)
(* A COMPLETED emergency release left no route or quarantine behind.       *)
(***************************************************************************)
THEOREM CompletedReleases == Spec => []CompletedIsAbsent
<1>1. LeaseInv => CompletedIsAbsent
  BY DEF LeaseInv
<1> QED
  BY Inductive, <1>1, PTL

(***************************************************************************)
(* Emergency releases are serialized.                                      *)
(***************************************************************************)
THEOREM OneRelease == Spec => []OneUnfinished
<1>1. LeaseInv => OneUnfinished
  BY DEF LeaseInv
<1> QED
  BY Inductive, <1>1, PTL

(***************************************************************************)
(* No lease is a member of two emergency releases.                         *)
(***************************************************************************)
THEOREM DisjointReleases == Spec => []MembershipIsDisjoint
<1>1. LeaseInv => MembershipIsDisjoint
  BY DEF LeaseInv
<1> QED
  BY Inductive, <1>1, PTL

-----------------------------------------------------------------------------
(* Fencing. *)

\* A change of a sweep and of a row, the fencing token apart.
LEMMA StepFenced ==
  ASSUME TypeOK, [Next]_vars, NEW s \in Sweep, NEW l \in Lease,
         sweep'[s] # sweep[s], row'[l] # row[l], row'[l].fence = row[l].fence
  PROVE  Fenced(s, sweep[s].job, l)
<1> USE DEF worker, sweeping, releasing
<1>1. ~UNCHANGED row /\ ~UNCHANGED sweep
  OBVIOUS
<1>2. ASSUME NEW z \in Sweep, ClaimExpired(z) PROVE FALSE
  <2>1. row' = [m \in Lease |-> IF Claimable(m) THEN Taken(row[m], z, "CLEANUP_PENDING") ELSE row[m]]
    BY <1>1, <1>2 DEF ClaimExpired
  <2>2. row'[l] = row[l] \/ row'[l] = Taken(row[l], z, "CLEANUP_PENDING")
    BY <2>1
  <2>3. row[l] \in RowType /\ row[l].fence \in Nat
    BY DEF TypeOK, RowType
  <2>4. Taken(row[l], z, "CLEANUP_PENDING").fence = row[l].fence + 1
    BY <2>3 DEF Taken, RowType
  <2>5. row'[l].fence = row[l].fence + 1
    BY <2>2, <2>4
  <2> QED
    BY <2>3, <2>5
<1>3. ASSUME NEW z \in Sweep, NEW m \in Lease, MarkReleased(z, m) PROVE Fenced(s, sweep[s].job, l)
  <2>1. SweepFenced(z, m) /\ Settle(m)
    BY <1>1, <1>3 DEF MarkReleased
  <2>2. m = l
    BY <2>1 DEF Settle, TypeOK
  <2>3. z = s
    BY <1>3 DEF MarkReleased, EndJob, NextJob, TypeOK
  <2> QED
    BY <2>1, <2>2, <2>3 DEF SweepFenced
<1>4. ASSUME NEW z \in Sweep, NEW m \in Lease, RecordFailure(z, m) PROVE Fenced(s, sweep[s].job, l)
  <2>1. Fenced(z, sweep[z].job, m) /\ row' = [row EXCEPT ![m] = Failed(@)]
    BY <1>1, <1>4 DEF RecordFailure
  <2>2. m = l
    BY <2>1 DEF TypeOK
  <2>3. z = s
    BY <1>4 DEF RecordFailure, EndJob, TypeOK
  <2> QED
    BY <2>1, <2>2, <2>3
<1>5. /\ ~WorkerRestarts /\ ~LockExpires /\ ~UNCHANGED vars
      /\ \A m \in Lease : ~Dispatch(m) /\ ~Resume(m) /\ ~Project(m) /\ ~LeaseExpires(m)
  BY <1>1 DEF WorkerRestarts, LockExpires, vars, Dispatch, Resume, Project, LeaseExpires
<1>6. \A z \in Sweep : /\ ~AcquireLock(z) /\ ~ReadOwnershipKeys(z) /\ ~RemoveOrphans(z) /\ ~FinishSweep(z)
                       /\ \A m \in Lease : ~ReleaseResource(z, m)
  BY <1>1 DEF AcquireLock, ReadOwnershipKeys, RemoveOrphans, FinishSweep, ReleaseResource
<1>7. \A r \in Request, k \in Key : ~ClaimEmergency(r, k)
  BY <1>1 DEF ClaimEmergency
<1>8. \A r \in Request : ~SettleRecord(r) /\ ~AbandonRequest(r)
  BY <1>1 DEF SettleRecord, AbandonRequest
<1>9. \A r \in Request, m \in Lease : ~SettleRoute(r, m)
  BY <1>1 DEF SettleRoute, ObserveProvider, MarkEmergencyReleased, MarkEmergencyFailed, Defer
<1>10. \A k \in Key : ~ClaimExpires(k)
  BY <1>1 DEF ClaimExpires
<1> QED
  BY <1>2, <1>3, <1>4, <1>5, <1>6, <1>7, <1>8, <1>9, <1>10
     DEF Next, Work, RunSweep, SettleLease, RunRequest

(***************************************************************************)
(* A sweep that was overtaken changes no row but those it claims anew.     *)
(***************************************************************************)
THEOREM FencedSweeps == Spec => StaleSweepsChangeNothing
<1>1. TypeOK /\ [Next]_vars
        => [\A l \in Lease, s \in Sweep :
              sweep'[s] # sweep[s] /\ row'[l] # row[l] /\ row'[l].fence = row[l].fence
                => row[l].owner = s /\ row[l].fence = sweep[s].job[l].fence]_vars
  BY StepFenced DEF Fenced
<1> QED
  BY TypeCorrect, <1>1, PTL DEF Spec, StaleSweepsChangeNothing
=============================================================================
