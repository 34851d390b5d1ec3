----------------------------- MODULE LeaseRelease -----------------------------
(***************************************************************************)
(* The end of a simulated resource.  A tool operation creates the resource *)
(* in the provider's inventory and, a few database calls later, its lease  *)
(* row.  Two actors take resources away: the cleanup sweep of the worker,  *)
(* which claims expired leases and removes resources without a row, and    *)
(* the operator's emergency release in the API, which claims active ones.  *)
(* Both claim with a new owner and the next fencing token.                 *)
(*                                                                         *)
(* Source: packages/database/src/repositories/lease-repository.ts,         *)
(* emergency-release-repository.ts, unsettled-leases.ts;                   *)
(* apps/worker/src/cleanup/lease-cleanup.ts;                               *)
(* apps/api/src/services/emergency-release-service.ts.                     *)
(*                                                                         *)
(* A Lease stands for one operation, its resource and its row: a decoy, or *)
(* a route or quarantine, whose handling is the same.  Routes sit in slots *)
(* (sourceIp, sourceCidr): assigning a slot again replaces what it held.   *)
(***************************************************************************)
EXTENDS Naturals

CONSTANTS
  Lease,        \* tool operations that create a resource
  Decoy,        \* those that deploy a decoy, which keeps a slot of its own
  Observable,   \* routes whose provider adapter is wired into the API
  SlotOf,       \* [Lease -> slots]
  Sweep,        \* calls of sweepExpiredLeases that may overlap
  Request,      \* emergency release requests that may overlap
  Key,          \* idempotency keys of emergency releases
  Nobody,       \* no owner
  MaxAttempts,  \* LeaseCleanupService.maxAttempts
  MaxClaims,    \* bound on emergency claims
  MaxFaults     \* bound on failed calls, restarts and sweeps that outlive the lock

ASSUME KindsAssumption == Decoy \subseteq Lease /\ Observable \subseteq Lease \ Decoy
ASSUME SlotAssumption ==
  \A d \in Decoy, l \in Lease : SlotOf[d] = SlotOf[l] => d = l
ASSUME NobodyAssumption == Nobody \notin Sweep \cup Request
ASSUME BoundsAssumption == MaxAttempts \in Nat \ {0} /\ MaxClaims \in Nat /\ MaxFaults \in Nat

VARIABLES
  inv,        \* resources in the provider's inventory
  op,         \* where the tool operation of each lease stands
  confirmed,  \* operations whose provider intent is EXECUTED
  row,        \* lease rows
  lock,       \* owner of the unexpired ACTIVE cleanup_sweep_record
  sweep,      \* sweeps in progress
  rec,        \* emergency_release_records
  req,        \* emergency requests in progress
  claims,     \* emergency claims made
  faults

worker   == <<inv, op, confirmed>>
sweeping == <<lock, sweep>>
releasing == <<rec, req, claims>>
vars == <<worker, row, sweeping, releasing, faults>>

NoRow == [status |-> "NONE", owner |-> Nobody, fence |-> 0, expired |-> FALSE,
          attempts |-> 0, emergency |-> FALSE]

Pending  == {"CLEANUP_PENDING", "PENDING_CLEANUP", "EMERGENCY_RELEASE_PENDING"}
Released == "RELEASED"            \* CLEANED_UP, REVOKED
Exhausted == "TERMINAL_FAILURE"
Route == Lease \ Decoy

\* The settlement of one claimed lease: the next step and the token it was claimed with.
Job(step, fence) == [step |-> step, fence |-> fence]
NoJob  == Job("none", 0)
NoJobs == [l \in Lease |-> NoJob]
IdleSweep   == [pc |-> "idle", job |-> NoJobs, known |-> {}]
IdleRequest == [pc |-> "idle", key |-> Nobody, job |-> NoJobs]

Init ==
  /\ inv = {}
  /\ op = [l \in Lease |-> "new"]
  /\ confirmed = {}
  /\ row = [l \in Lease |-> NoRow]
  /\ lock = Nobody
  /\ sweep = [s \in Sweep |-> IdleSweep]
  /\ rec = [k \in Key |-> [status |-> "NONE", owner |-> Nobody, live |-> FALSE, ids |-> {}]]
  /\ req = [r \in Request |-> IdleRequest]
  /\ claims = 0
  /\ faults = 0

Exists(l) == row[l].status # "NONE"
Fault == faults < MaxFaults /\ faults' = faults + 1

-----------------------------------------------------------------------------
(* The worker's tool operation, as far as it concerns the resource. *)

SameSlot(l) == {m \in Lease : SlotOf[m] = SlotOf[l]}

\* The gateway calls the provider at most once (ToolGateway, AtMostOneEffect).
Dispatch(l) ==
  /\ op[l] = "new"
  /\ inv' = (inv \ SameSlot(l)) \cup {l}
  /\ op' = [op EXCEPT ![l] = "called"]
  /\ UNCHANGED <<confirmed, row, sweeping, releasing, faults>>

\* A later call repairs: the resource is observed, or the intent is EXECUTED.
Resume(l) ==
  /\ op[l] = "idle"
  /\ l \in confirmed \cup inv /\ ~(l \in confirmed /\ Exists(l))
  /\ op' = [op EXCEPT ![l] = "called"]
  /\ UNCHANGED <<inv, confirmed, row, sweeping, releasing, faults>>

\* The intent becomes EXECUTED, then the lease row is created (createDecoyLease and
\* its like leave a row that exists as it is).  Either may fail, the other is made.
Project(l) ==
  /\ op[l] = "called"
  /\ op' = [op EXCEPT ![l] = "idle"]
  /\ \E failed \in SUBSET {"intent", "lease"} :
       /\ IF failed = {} THEN UNCHANGED faults ELSE Fault
       /\ confirmed' = IF "intent" \in failed THEN confirmed ELSE confirmed \cup {l}
       /\ row' = [row EXCEPT ![l] = IF Exists(l) \/ "lease" \in failed THEN @
                     ELSE [NoRow EXCEPT !.status = "ACTIVE", !.fence = 1]]
  /\ UNCHANGED <<inv, sweeping, releasing>>

\* expiresAt passes.
LeaseExpires(l) ==
  /\ row[l].status \in Pending \cup {"ACTIVE"} /\ ~row[l].expired
  /\ row' = [row EXCEPT ![l].expired = TRUE]
  /\ UNCHANGED <<worker, sweeping, releasing, faults>>

\* The process restarts: its fake inventory and everything in progress is gone.
WorkerRestarts ==
  /\ Fault
  /\ inv' = {}
  /\ op' = [l \in Lease |-> IF op[l] = "new" THEN "new" ELSE "idle"]
  /\ sweep' = [s \in Sweep |-> IdleSweep]
  /\ UNCHANGED <<confirmed, row, lock, releasing>>

-----------------------------------------------------------------------------
(* The row updates that both actors make. *)

\* claim: new owner, next fencing token.
Taken(r, h, status) == [r EXCEPT !.status = status, !.owner = h, !.fence = @ + 1]

FencedBySomeone(h, job, l) ==   \* mutant: the row's owner is not compared
  row[l].owner # Nobody

\* Compare-and-set: owner and fencing token; most updates also ask for a status.
Fenced(h, job, l) == row[l].owner = h /\ row[l].fence = job[l].fence

SweepFenced(s, l) ==
  /\ Fenced(s, sweep[s].job, l)
  /\ row[l].status \in {"ACTIVE", "CLEANUP_PENDING"} \cup
                         (IF l \in Decoy THEN {"PENDING_CLEANUP"} ELSE {})

EmergencyFenced(r, l) ==
  /\ Fenced(r, req[r].job, l)
  /\ row[l].status \in {"ACTIVE", "EMERGENCY_RELEASE_PENDING"}

Settle(l) == row' = [row EXCEPT ![l].status = Released]

-----------------------------------------------------------------------------
(* LeaseCleanupService.sweepExpiredLeases. *)

\* acquireCleanupSweepLock; a sweep that does not get it returns SKIPPED.
AcquireLock(s) ==
  /\ sweep[s].pc = "idle" /\ lock = Nobody
  /\ lock' = s
  /\ sweep' = [sweep EXCEPT ![s].pc = "claim"]
  /\ UNCHANGED <<worker, row, releasing, faults>>

\* The lock record expires after 60 s; a sweep still running is not stopped.
LockExpires ==
  /\ lock # Nobody
  /\ lock' = Nobody
  /\ IF sweep[lock].pc = "idle" THEN UNCHANGED faults ELSE Fault
  /\ UNCHANGED <<worker, row, sweep, releasing>>

ClaimableByStatus(l) ==   \* mutant: one of the pending statuses is forgotten
  row[l].expired /\ row[l].status \in {"ACTIVE", "CLEANUP_PENDING", "EMERGENCY_RELEASE_PENDING"}

Claimable(l) == row[l].expired /\ row[l].status \in Pending \cup {"ACTIVE"}

\* claimLeasesForCleanup, one transaction; a conflict aborts it and the sweep
\* throws, its lock record still ACTIVE.
ClaimExpired(s) ==
  /\ sweep[s].pc = "claim"
  /\ \/ /\ row' = [l \in Lease |-> IF Claimable(l) THEN Taken(row[l], s, "CLEANUP_PENDING")
                                   ELSE row[l]]
        /\ sweep' = [sweep EXCEPT ![s] =
              [pc |-> "settle", known |-> {},
               job |-> [l \in Lease |-> IF Claimable(l) THEN Job("release", row[l].fence + 1)
                                        ELSE NoJob]]]
        /\ UNCHANGED faults
     \/ Fault /\ sweep' = [sweep EXCEPT ![s] = IdleSweep] /\ UNCHANGED row
  /\ UNCHANGED <<worker, lock, releasing>>

JobAt(s, l, step) == sweep[s].pc = "settle" /\ sweep[s].job[l].step = step
NextJob(s, l, step) == sweep' = [sweep EXCEPT ![s].job[l].step = step]
EndJob(s, l) == sweep' = [sweep EXCEPT ![s].job[l] = NoJob]

\* deleteDecoyByOperation and its like remove the operation's own resource only;
\* an absent resource counts as released.  The provider may also fail.
ReleaseResource(s, l) ==
  /\ JobAt(s, l, "release")
  /\ \/ inv' = inv \ {l} /\ NextJob(s, l, "mark")
     \/ l \in inv /\ UNCHANGED inv /\ NextJob(s, l, "fail")
  /\ UNCHANGED <<op, confirmed, row, lock, releasing, faults>>

\* markDecoyCleanedUp, markRouteRevoked, markQuarantineReleased.  The update
\* may be lost, or be made and its answer lost.
MarkReleased(s, l) ==
  /\ JobAt(s, l, "mark")
  /\ \/ SweepFenced(s, l) /\ Settle(l) /\ EndJob(s, l) /\ UNCHANGED faults
     \/ ~SweepFenced(s, l) /\ NextJob(s, l, "fail") /\ UNCHANGED <<row, faults>>
     \/ Fault /\ NextJob(s, l, "fail") /\ UNCHANGED row
     \/ Fault /\ NextJob(s, l, "fail") /\ SweepFenced(s, l) /\ Settle(l)
  /\ UNCHANGED <<worker, lock, releasing>>

\* The status is not part of the condition.
Failed(r) == [r EXCEPT !.attempts = @ + 1, !.emergency = FALSE,
                       !.status = IF r.attempts + 1 >= MaxAttempts THEN Exhausted ELSE @]

\* recordLeaseCleanupFailure: read, compare, versioned update; errors swallowed.
RecordFailure(s, l) ==
  /\ JobAt(s, l, "fail")
  /\ EndJob(s, l)
  /\ \/ /\ Fenced(s, sweep[s].job, l)
        /\ row' = [row EXCEPT ![l] = Failed(@)]
        /\ UNCHANGED faults
     \/ ~Fenced(s, sweep[s].job, l) /\ UNCHANGED <<row, faults>>
     \/ Fault /\ UNCHANGED row
  /\ UNCHANGED <<worker, lock, releasing>>

\* cleanupOrphanedResources, first half: findLeaseOwnershipKeys.
ReadOwnershipKeys(s) ==
  /\ sweep[s].pc = "settle" /\ sweep[s].job = NoJobs
  /\ \/ /\ sweep' = [sweep EXCEPT ![s].pc = "orphans", ![s].known = {l \in Lease : Exists(l)}]
        /\ UNCHANGED faults
     \/ Fault /\ sweep' = [sweep EXCEPT ![s].pc = "finish"]
  /\ UNCHANGED <<worker, row, lock, releasing>>

RemoveOrphansCounting(s) ==   \* mutant: orphans are discovered, not removed
  /\ sweep[s].pc = "orphans"
  /\ sweep' = [sweep EXCEPT ![s].pc = "finish", ![s].known = {}]
  /\ UNCHANGED <<worker, row, lock, releasing, faults>>

\* Second half: list the inventory as it is now, remove what was not known.
RemoveOrphans(s) ==
  /\ sweep[s].pc = "orphans"
  /\ inv' = inv \cap sweep[s].known
  /\ sweep' = [sweep EXCEPT ![s].pc = "finish", ![s].known = {}]
  /\ UNCHANGED <<op, confirmed, row, lock, releasing, faults>>

\* completeCleanupSweepRecord, after the budget reconciliation.
FinishSweep(s) ==
  /\ sweep[s].pc = "finish"
  /\ sweep' = [sweep EXCEPT ![s] = IdleSweep]
  /\ \/ lock' = (IF lock = s THEN Nobody ELSE lock) /\ UNCHANGED faults
     \/ Fault /\ UNCHANGED lock
  /\ UNCHANGED <<worker, row, releasing>>

-----------------------------------------------------------------------------
(* EmergencyReleaseService.executeEmergencyRelease. *)

\* claimEmergencyRelease: a completed key or a live claim answers a duplicate,
\* an unfinished operation of another key refuses the request.
Unfinished(k) == rec[k].status \notin {"NONE", "COMPLETED"}

MayClaimOwnKey(k) ==   \* mutant: operations of other keys are not looked at
  rec[k].status # "COMPLETED" /\ ~rec[k].live

MayClaim(k) ==
  /\ rec[k].status # "COMPLETED" /\ ~rec[k].live
  /\ \A other \in Key \ {k} : ~Unfinished(other)

\* Work that a previous claim of the same operation left behind.
Leftover(k) ==
  {l \in rec[k].ids :
     /\ rec[k].owner # Nobody /\ row[l].owner = rec[k].owner
     /\ row[l].status \in IF l \in Decoy THEN {"PENDING_CLEANUP", "CLEANUP_PENDING"}
                          ELSE {"ACTIVE", "EMERGENCY_RELEASE_PENDING"}}

Candidates(k) == {l \in Lease : row[l].status = "ACTIVE"} \cup Leftover(k)

ForEmergency(r, l) ==
  IF l \in Decoy THEN [Taken(row[l], r, "PENDING_CLEANUP") EXCEPT !.expired = TRUE]
  ELSE Taken(row[l], r, "EMERGENCY_RELEASE_PENDING")

FirstStep(l) == IF l \in Observable THEN "observe" ELSE "defer"

ClaimEmergency(r, k) ==
  LET taken == Candidates(k) IN
  /\ req[r].pc = "idle" /\ MayClaim(k)
  /\ claims < MaxClaims /\ claims' = claims + 1
  /\ row' = [l \in Lease |-> IF l \in taken THEN ForEmergency(r, l) ELSE row[l]]
  /\ rec' = [rec EXCEPT ![k] = [status |-> "PENDING", owner |-> r, live |-> TRUE,
                                ids |-> @.ids \cup taken]]
  /\ req' = [req EXCEPT ![r] =
       [pc |-> "settle", key |-> k,
        job |-> [l \in Lease |-> IF l \in taken \ Decoy THEN Job(FirstStep(l), row[l].fence + 1)
                                 ELSE NoJob]]]
  /\ UNCHANGED <<worker, sweeping, faults>>

\* claimExpiresAt passes, 60 s after the claim.
ClaimExpires(k) ==
  /\ rec[k].live
  /\ rec' = [rec EXCEPT ![k].live = FALSE]
  /\ UNCHANGED <<worker, row, sweeping, req, claims, faults>>

TaskAt(r, l, step) == req[r].pc \in {"settle", "failing"} /\ req[r].job[l].step = step
NextTask(r, l, step) == req' = [req EXCEPT ![r].job[l].step = step]
EndTask(r, l) == req' = [req EXCEPT ![r].job[l] = NoJob]

ObserveProviderOnce(r, l) ==   \* mutant: the slot is not observed after the revocation
  /\ TaskAt(r, l, "observe")
  /\ inv' \in {inv, inv \ SameSlot(l)}
  /\ NextTask(r, l, "mark") \/ NextTask(r, l, "defer")
  /\ UNCHANGED <<op, confirmed, row, sweeping, rec, claims, faults>>

\* settleRoute: hasActiveRoute, revokeRoute(sourceIp), hasActiveRoute.  The slot is
\* observed empty, observed still taken, or the provider's answer is an error.
ObserveProvider(r, l) ==
  /\ TaskAt(r, l, "observe")
  /\ \/ inv' = inv \ SameSlot(l) /\ NextTask(r, l, "mark")
     \/ inv \cap SameSlot(l) # {} /\ UNCHANGED inv /\ NextTask(r, l, "unmark")
     \/ inv' \in {inv, inv \ SameSlot(l)} /\ NextTask(r, l, "defer")
  /\ UNCHANGED <<op, confirmed, row, sweeping, rec, claims, faults>>

\* markEmergencyRouteReleased(success): anything but one updated row is a failure.
MarkEmergencyReleased(r, l) ==
  /\ TaskAt(r, l, "mark")
  /\ \/ EmergencyFenced(r, l) /\ Settle(l) /\ EndTask(r, l) /\ UNCHANGED faults
     \/ ~EmergencyFenced(r, l) /\ NextTask(r, l, "unmark") /\ UNCHANGED <<row, faults>>
     \/ Fault /\ NextTask(r, l, "unmark") /\ UNCHANGED row
     \/ Fault /\ NextTask(r, l, "unmark") /\ EmergencyFenced(r, l) /\ Settle(l)
  /\ UNCHANGED <<worker, sweeping, rec, claims>>

\* markEmergencyRouteReleased(failure); a lost fence or an error is swallowed.
MarkEmergencyFailed(r, l) ==
  /\ TaskAt(r, l, "unmark")
  /\ EndTask(r, l)
  /\ \/ /\ EmergencyFenced(r, l)
        /\ row' = [row EXCEPT ![l].attempts = @ + 1, ![l].expired = TRUE, ![l].emergency = TRUE]
        /\ UNCHANGED faults
     \/ ~EmergencyFenced(r, l) /\ UNCHANGED <<row, faults>>
     \/ Fault /\ UNCHANGED row
  /\ UNCHANGED <<worker, sweeping, rec, claims>>

\* deferRoute: the sweep may take the lease at once; a lost fence throws.
Defer(r, l) ==
  /\ TaskAt(r, l, "defer")
  /\ \/ /\ EmergencyFenced(r, l)
        /\ row' = [row EXCEPT ![l].expired = TRUE]
        /\ EndTask(r, l)
        /\ UNCHANGED faults
     \/ /\ \/ ~EmergencyFenced(r, l) /\ UNCHANGED faults
           \/ Fault
        /\ req' = [req EXCEPT ![r].job[l] = NoJob, ![r].pc = "failing"]
        /\ UNCHANGED row
  /\ UNCHANGED <<worker, sweeping, rec, claims>>

\* classifyEmergencyLease.
Outcome(l) ==
  CASE row[l].status = Released -> "VERIFIED"
    [] row[l].status # Released /\ (row[l].status = Exhausted \/ row[l].emergency) -> "FAILED"
    [] OTHER -> "PENDING"

DerivedStatusOfFailures(ids) ==   \* mutant: deferred routes do not count
  IF \E l \in ids : Outcome(l) = "FAILED" THEN "PARTIAL_FAILURE" ELSE "COMPLETED"

\* summarizeEmergencyLeases, deriveEmergencyReleaseStatus: decoys may stay pending.
DerivedStatus(ids) ==
  IF \E l \in ids : Outcome(l) = "FAILED" THEN "PARTIAL_FAILURE"
  ELSE IF \E l \in ids \ Decoy : Outcome(l) = "PENDING" THEN "PENDING"
  ELSE "COMPLETED"

\* settleEmergencyReleaseRecord: fenced by the claim, which must not have expired.
SettleRecord(r) ==
  LET k == req[r].key IN
  /\ req[r].pc = "settle" /\ req[r].job = NoJobs
  /\ req' = [req EXCEPT ![r] = IdleRequest]
  /\ \/ /\ rec[k].owner = r /\ rec[k].live
        /\ rec' = [rec EXCEPT ![k].status = DerivedStatus(rec[k].ids), ![k].live = FALSE]
        /\ UNCHANGED faults
     \/ ~(rec[k].owner = r /\ rec[k].live) /\ UNCHANGED <<rec, faults>>
     \/ Fault /\ UNCHANGED rec
  /\ UNCHANGED <<worker, row, sweeping, claims>>

\* The request answers an error, or the API restarts; its claims stay as they are.
AbandonRequest(r) ==
  /\ \/ req[r].pc = "failing" /\ UNCHANGED faults
     \/ req[r].pc = "settle" /\ Fault
  /\ req' = [req EXCEPT ![r] = IdleRequest]
  /\ UNCHANGED <<worker, row, sweeping, rec, claims>>

-----------------------------------------------------------------------------

Work(l) == Dispatch(l) \/ Resume(l) \/ Project(l) \/ LeaseExpires(l)

SettleLease(s, l) == ReleaseResource(s, l) \/ MarkReleased(s, l) \/ RecordFailure(s, l)

RunSweep(s) ==
  \/ ClaimExpired(s) \/ ReadOwnershipKeys(s) \/ RemoveOrphans(s) \/ FinishSweep(s)
  \/ \E l \in Lease : SettleLease(s, l)

SettleRoute(r, l) ==
  ObserveProvider(r, l) \/ MarkEmergencyReleased(r, l) \/ MarkEmergencyFailed(r, l) \/ Defer(r, l)

RunRequest(r) == SettleRecord(r) \/ AbandonRequest(r) \/ \E l \in Lease : SettleRoute(r, l)

Next ==
  \/ \E l \in Lease : Work(l)
  \/ WorkerRestarts
  \/ LockExpires
  \/ \E s \in Sweep : AcquireLock(s) \/ RunSweep(s)
  \/ \E r \in Request, k \in Key : ClaimEmergency(r, k)
  \/ \E k \in Key : ClaimExpires(k)
  \/ \E r \in Request : RunRequest(r)

Spec == Init /\ [][Next]_vars

(***************************************************************************)
(* The scheduler calls the sweep every five minutes; a sweep in progress   *)
(* runs on; time passes.  Nothing makes an operator release or a failed    *)
(* operation be retried.                                                   *)
(***************************************************************************)
Fairness ==
  /\ \A l \in Lease : WF_vars(LeaseExpires(l))
  /\ WF_vars(LockExpires)
  /\ WF_vars(\E s \in Sweep : AcquireLock(s))
  /\ \A s \in Sweep : WF_vars(RunSweep(s))

FairSpec == Spec /\ Fairness
-----------------------------------------------------------------------------
(* Properties. *)

Jobs  == [step : {"none", "release", "mark", "fail"}, fence : Nat]
Tasks == [step : {"none", "observe", "mark", "unmark", "defer"}, fence : Nat]

RowType == [status : Pending \cup {"NONE", "ACTIVE", Released, Exhausted},
            owner : Sweep \cup Request \cup {Nobody}, fence : Nat,
            expired : BOOLEAN, attempts : Nat, emergency : BOOLEAN]

SweepType == [pc : {"idle", "claim", "settle", "orphans", "finish"},
              job : [Lease -> Jobs], known : SUBSET Lease]

RecordType == [status : {"NONE", "PENDING", "PARTIAL_FAILURE", "COMPLETED"},
               owner : Request \cup {Nobody}, live : BOOLEAN, ids : SUBSET Lease]

RequestType == [pc : {"idle", "settle", "failing"}, key : Key \cup {Nobody},
                job : [Lease -> Tasks]]

TypeOK ==
  /\ inv \subseteq Lease /\ confirmed \subseteq Lease
  /\ op \in [Lease -> {"new", "called", "idle"}]
  /\ row \in [Lease -> RowType]
  /\ lock \in Sweep \cup {Nobody}
  /\ sweep \in [Sweep -> SweepType]
  /\ rec \in [Key -> RecordType]
  /\ req \in [Request -> RequestType]
  /\ claims \in 0..MaxClaims
  /\ faults \in 0..MaxFaults

(***************************************************************************)
(* A lease that the sweep or an emergency release records as released has  *)
(* no resource left, whoever else claimed it meanwhile, whichever answer   *)
(* was lost and whatever a retry of its operation does.                    *)
(***************************************************************************)
ReleasedIsAbsent == \A l \in Lease : row[l].status = Released => l \notin inv

(***************************************************************************)
(* A COMPLETED emergency release is true: none of the routes and           *)
(* quarantines it ever claimed, by any of its requests, is in the          *)
(* provider's inventory, though some were left to the worker's sweep.      *)
(***************************************************************************)
CompletedIsAbsent ==
  \A k \in Key : rec[k].status = "COMPLETED" => (rec[k].ids \ Decoy) \cap inv = {}

(***************************************************************************)
(* Emergency releases are serialized: at most one operation is unfinished, *)
(* across concurrent requests, expired claims and failed settlements.      *)
(***************************************************************************)
OneUnfinished == \A j, k \in Key : Unfinished(j) /\ Unfinished(k) => j = k

(***************************************************************************)
(* No lease is counted by two emergency operations: membership is kept     *)
(* when a request fails and the sweep takes over, and a lease that was     *)
(* claimed once never returns to ACTIVE.                                   *)
(***************************************************************************)
MembershipIsDisjoint == \A j, k \in Key : j # k => rec[j].ids \cap rec[k].ids = {}

(***************************************************************************)
(* A sweep that was overtaken changes no row: if a step of a sweep changes *)
(* a row it does not claim in that step, then the row carries the owner    *)
(* and the fencing token of the sweep's own claim.                         *)
(***************************************************************************)
StaleSweepsChangeNothing ==
  [][\A l \in Lease, s \in Sweep :
       sweep'[s] # sweep[s] /\ row'[l] # row[l] /\ row'[l].fence = row[l].fence
         => row[l].owner = s /\ row[l].fence = sweep[s].job[l].fence]_vars

(***************************************************************************)
(* Every resource is removed in the end, by the expiry of its lease or as  *)
(* an orphan, or its lease is a durable TERMINAL_FAILURE; a lost lease     *)
(* row, a failed or overtaken sweep and an abandoned emergency release do  *)
(* not leave it behind.                                                    *)
(***************************************************************************)
EveryResourceGoes ==
  \A l \in Lease : l \in inv ~> (l \notin inv \/ row[l].status = Exhausted)

(***************************************************************************)
(* Every lease row is settled in the end: the retries are bounded, and     *)
(* what an emergency release defers or abandons the sweep takes over.      *)
(***************************************************************************)
EveryLeaseSettles == \A l \in Lease : Exists(l) ~> (row[l].status \in {Released, Exhausted})
=============================================================================
