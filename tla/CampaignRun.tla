----------------------------- MODULE CampaignRun -----------------------------
(***************************************************************************)
(* The autonomous campaign: a fixed chain of synthetic events.  The        *)
(* operator starts it and publishes the event of step 1; the worker that   *)
(* has worked on a step's event completes the step and prepares the next   *)
(* one in one transaction, then publishes it; what a worker prepared and   *)
(* did not publish, the sweep of a polling loop publishes later.           *)
(*                                                                         *)
(* Source: packages/database/src/repositories/campaign-repository.ts,      *)
(* apps/worker/src/orchestration/campaign-orchestrator.ts,                 *)
(* apps/api/src/services/campaign-service.ts.  The broker is external and  *)
(* delivers at least once.  The mode is OIDC: a published event comes back *)
(* as a push request, maybe to another process.                            *)
(***************************************************************************)
EXTENDS Naturals

CONSTANTS
  Operator,    \* requests to start the campaign
  Push,        \* push requests that may be handled at a time
  Sweeper,     \* worker processes, each with its sweep and its ownerId
  Nobody,      \* a step without an owner
  TotalSteps,  \* INITIAL_CAMPAIGN_STEPS.length
  MaxCopies,   \* bound on the messages published for one step
  MaxFaults    \* bound on failed calls, crashes and claims outlived by their sweep

ASSUME TotalStepsAssumption == TotalSteps \in Nat \ {0}
ASSUME NobodyAssumption == Nobody \notin Sweeper
ASSUME BoundsAssumption == MaxCopies \in Nat \ {0} /\ MaxFaults \in Nat

VARIABLES
  campaign,  \* the row of campaign_runs
  step,      \* the rows of campaign_step_runs
  sent,      \* the number of messages published for each step
  acked,     \* messages the broker is rid of
  receipt,   \* messages with an ingestion receipt
  operator,  \* start requests
  push,      \* push requests, each with its message
  sweep,     \* sweeps, each with the step it publishes
  faults

vars == <<campaign, step, sent, acked, receipt, operator, push, sweep, faults>>

Step == 1..TotalSteps
Message == Step \X (1..MaxCopies)
StepOf(m) == m[1]

NoStep == [status |-> "NONE", owner |-> Nobody, expired |-> FALSE]
IdlePush == [pc |-> "idle", msg |-> <<1, 1>>]
IdleSweep == [pc |-> "idle", step |-> 1]

Init ==
  /\ campaign = [status |-> "NONE", current |-> 0]
  /\ step = [k \in Step |-> NoStep]
  /\ sent = [k \in Step |-> 0]
  /\ acked = {} /\ receipt = {}
  /\ operator = [o \in Operator |-> "idle"]
  /\ push = [p \in Push |-> IdlePush]
  /\ sweep = [s \in Sweeper |-> IdleSweep]
  /\ faults = 0

Fault == faults < MaxFaults /\ faults' = faults + 1

Publish(k) ==
  /\ sent[k] < MaxCopies
  /\ sent' = [sent EXCEPT ![k] = @ + 1]

-----------------------------------------------------------------------------
(* CampaignService.start. *)

\* startInitialCampaign finds the row or creates it (the loser of a race finds it);
\* currentStep is compared as it was read.
Start(o) ==
  /\ operator[o] = "idle"
  /\ campaign' = IF campaign.status = "NONE" THEN [status |-> "RUNNING", current |-> 0]
                 ELSE campaign
  /\ operator' = [operator EXCEPT ![o] = IF campaign.current = 0 THEN "publish" ELSE "done"]
  /\ UNCHANGED <<step, sent, acked, receipt, push, sweep, faults>>

\* ensureInitialEvent changes nothing when the event is there.
PublishFirst(o) ==
  /\ operator[o] = "publish"
  /\ Publish(1)
  /\ operator' = [operator EXCEPT ![o] = "done"]
  /\ UNCHANGED <<campaign, step, acked, receipt, push, sweep, faults>>

\* The request fails, the message sent or not; the operator may ask again.
PublishFirstFails(o) ==
  /\ operator[o] = "publish"
  /\ Fault
  /\ Publish(1) \/ UNCHANGED sent
  /\ operator' = [operator EXCEPT ![o] = "idle"]
  /\ UNCHANGED <<campaign, step, acked, receipt, push, sweep>>

-----------------------------------------------------------------------------
(* CampaignOrchestrator.process, one push request. *)

Deliver(p, m) ==
  /\ push[p].pc = "idle"
  /\ m[2] <= sent[StepOf(m)] /\ m \notin acked
  /\ push' = [push EXCEPT ![p] = [pc |-> "received", msg |-> m]]
  /\ UNCHANGED <<campaign, step, sent, acked, receipt, operator, sweep, faults>>

Goto(p, pc) == push' = [push EXCEPT ![p].pc = pc]

Ack(p) ==
  /\ acked' = acked \cup {push[p].msg}
  /\ push' = [push EXCEPT ![p] = IdlePush]

\* What follows the workflow: the first step's row is ensured before its result is judged.
AfterWorkflow(p, completed) ==
  IF StepOf(push[p].msg) = 1
  THEN IF completed THEN "ensureCompleted" ELSE "ensureFailed"
  ELSE IF completed THEN "complete" ELSE "fail"

\* A message with a receipt is a DUPLICATE, which process treats like a COMPLETED one.
Receive(p) ==
  /\ push[p].pc = "received"
  /\ receipt' = receipt \cup {push[p].msg}
  /\ Goto(p, IF push[p].msg \in receipt THEN AfterWorkflow(p, TRUE) ELSE "working")
  /\ UNCHANGED <<campaign, step, sent, acked, operator, sweep, faults>>

WorkflowEnds(p, completed) ==
  /\ push[p].pc = "working"
  /\ Goto(p, AfterWorkflow(p, completed))
  /\ UNCHANGED <<campaign, step, sent, acked, receipt, operator, sweep, faults>>

\* ensureInitialStep looks for the row ...
LookForFirst(p) ==
  /\ push[p].pc \in {"ensureCompleted", "ensureFailed"}
  /\ LET then == IF push[p].pc = "ensureCompleted" THEN "complete" ELSE "fail"
         create == IF push[p].pc = "ensureCompleted" THEN "createCompleted" ELSE "createFailed"
     IN  Goto(p, IF step[1].status = "NONE" THEN create ELSE then)
  /\ UNCHANGED <<campaign, step, sent, acked, receipt, operator, sweep, faults>>

\* ... and creates it together with the campaign's first advance.  Of two that found no
\* row, the second fails on the unique event and its message is delivered again.
CreateFirst(p) ==
  /\ push[p].pc \in {"createCompleted", "createFailed"}
  /\ IF step[1].status = "NONE"
     THEN /\ step' = [step EXCEPT ![1].status = "PUBLISHED"]
          /\ campaign' = IF campaign.status = "RUNNING" /\ campaign.current = 0
                         THEN [campaign EXCEPT !.current = 1] ELSE campaign
          /\ Goto(p, IF push[p].pc = "createCompleted" THEN "complete" ELSE "fail")
     ELSE /\ push' = [push EXCEPT ![p] = IdlePush]
          /\ UNCHANGED <<campaign, step>>
  /\ UNCHANGED <<sent, acked, receipt, operator, sweep, faults>>

AtStep(k) == campaign.status = "RUNNING" /\ campaign.current = k

\* failCampaign: the campaign first, the step by a statement of its own.
FailCampaign(p) ==
  LET k == StepOf(push[p].msg) IN
  /\ push[p].pc = "fail"
  /\ IF step[k].status # "NONE" /\ AtStep(k)
     THEN /\ campaign' = [campaign EXCEPT !.status = "FAILED"]
          /\ Goto(p, "failStep")
          /\ UNCHANGED acked
     ELSE Ack(p) /\ UNCHANGED campaign
  /\ UNCHANGED <<step, sent, receipt, operator, sweep, faults>>

FailStep(p) ==
  /\ push[p].pc = "failStep"
  /\ step' = [step EXCEPT ![StepOf(push[p].msg)].status = "FAILED"]
  /\ Ack(p)
  /\ UNCHANGED <<campaign, sent, receipt, operator, sweep, faults>>

\* The answers of completeAndPrepareNext: DUPLICATE, COMPLETED or ADVANCED.
NotCurrentUnchecked(k) == step[k].status = "NONE"    \* mutant: the campaign is not looked at

NotCurrent(k) == step[k].status = "NONE" \/ ~AtStep(k)

CompleteAndPrepareNext(p) ==
  LET k == StepOf(push[p].msg)
      done == [step EXCEPT ![k] = [NoStep EXCEPT !.status = "COMPLETED"]]
  IN
  /\ push[p].pc = "complete"
  /\ CASE NotCurrent(k) -> Ack(p) /\ UNCHANGED <<campaign, step>>
       [] ~NotCurrent(k) /\ k = TotalSteps ->
            /\ step' = done
            /\ campaign' = [campaign EXCEPT !.status = "COMPLETED"]
            /\ Ack(p)
       [] OTHER ->
            /\ step' = [done EXCEPT ![k + 1].status = "READY"]
            /\ campaign' = [campaign EXCEPT !.current = k + 1]
            /\ Goto(p, "publish")
            /\ UNCHANGED acked
  /\ UNCHANGED <<sent, receipt, operator, sweep, faults>>

PublishNext(p) ==
  /\ push[p].pc = "publish"
  /\ Publish(StepOf(push[p].msg) + 1)
  /\ Goto(p, "mark")
  /\ UNCHANGED <<campaign, step, acked, receipt, operator, sweep, faults>>

\* markPublished, by an owner or by the worker that prepared the step and owns nothing.
Marked(k, owner) ==
  \/ step[k].status = "READY" /\ step[k].owner = Nobody
  \/ owner # Nobody /\ step[k].status = "PUBLISHING" /\ step[k].owner = owner

MarkPublished(k, owner) ==
  step' = IF Marked(k, owner) THEN [step EXCEPT ![k] = [NoStep EXCEPT !.status = "PUBLISHED"]]
          ELSE step

MarkNext(p) ==
  /\ push[p].pc = "mark"
  /\ MarkPublished(StepOf(push[p].msg) + 1, Nobody)
  /\ Ack(p)
  /\ UNCHANGED <<campaign, sent, receipt, operator, sweep, faults>>

\* A call throws or the process dies: the message is delivered again.
PushFails(p) ==
  /\ push[p].pc # "idle"
  /\ Fault
  /\ push' = [push EXCEPT ![p] = IdlePush]
  /\ UNCHANGED <<campaign, step, sent, acked, receipt, operator, sweep>>

-----------------------------------------------------------------------------
(* resumeReadyCampaigns, once per campaign in the polling loop. *)

UnpublishedClaimed(k) == step[k].status = "PUBLISHING"    \* mutant: a prepared step is left alone

Unpublished(k) == step[k].status \in {"READY", "PUBLISHING"}

ListResumable(s) ==
  /\ sweep[s].pc = "idle"
  /\ campaign.status = "RUNNING" /\ \E k \in Step : Unpublished(k)
  /\ sweep' = [sweep EXCEPT ![s].pc = "listed"]
  /\ UNCHANGED <<campaign, step, sent, acked, receipt, operator, push, faults>>

\* claimReadyPublication: it looks at the steps alone, whatever became of the campaign.
Claimable(k) == Unpublished(k) /\ (step[k].owner = Nobody \/ step[k].expired)

ClaimedMarking(k) == [pc |-> "mark", step |-> k]    \* mutant: marked before it is sent

Claimed(k) == [pc |-> "publish", step |-> k]

ClaimPublication(s) ==
  /\ sweep[s].pc = "listed"
  /\ \/ \E k \in Step :
          /\ Claimable(k)
          /\ step' = [step EXCEPT ![k] = [status |-> "PUBLISHING", owner |-> s, expired |-> FALSE]]
          /\ sweep' = [sweep EXCEPT ![s] = Claimed(k)]
     \/ /\ \A k \in Step : ~Claimable(k)
        /\ sweep' = [sweep EXCEPT ![s] = IdleSweep]
        /\ UNCHANGED step
  /\ UNCHANGED <<campaign, sent, acked, receipt, operator, push, faults>>

PublishClaimed(s) ==
  /\ sweep[s].pc = "publish"
  /\ Publish(sweep[s].step)
  /\ sweep' = [sweep EXCEPT ![s].pc = "mark"]
  /\ UNCHANGED <<campaign, step, acked, receipt, operator, push, faults>>

MarkClaimed(s) ==
  /\ sweep[s].pc = "mark"
  /\ MarkPublished(sweep[s].step, s)
  /\ sweep' = [sweep EXCEPT ![s] = IdleSweep]
  /\ UNCHANGED <<campaign, sent, acked, receipt, operator, push, faults>>

SweepFails(s) ==
  /\ sweep[s].pc # "idle"
  /\ Fault
  /\ sweep' = [sweep EXCEPT ![s] = IdleSweep]
  /\ UNCHANGED <<campaign, step, sent, acked, receipt, operator, push>>

\* Thirty seconds pass.  That the sweep is still at it counts as a fault.
AtIt(k) == step[k].owner # Nobody /\ sweep[step[k].owner].step = k
           /\ sweep[step[k].owner].pc \in {"publish", "mark"}

ClaimExpires(k) ==
  /\ step[k].owner # Nobody /\ ~step[k].expired
  /\ IF AtIt(k) THEN Fault ELSE UNCHANGED faults
  /\ step' = [step EXCEPT ![k].expired = TRUE]
  /\ UNCHANGED <<campaign, sent, acked, receipt, operator, push, sweep>>

-----------------------------------------------------------------------------
OperatorNext(o) == Start(o) \/ PublishFirst(o) \/ PublishFirstFails(o)

PushStep(p) ==
  \/ Receive(p) \/ (\E completed \in BOOLEAN : WorkflowEnds(p, completed))
  \/ LookForFirst(p) \/ CreateFirst(p)
  \/ FailCampaign(p) \/ FailStep(p) \/ CompleteAndPrepareNext(p) \/ PublishNext(p) \/ MarkNext(p)

PushNext(p) == (\E m \in Message : Deliver(p, m)) \/ PushStep(p) \/ PushFails(p)

SweepStep(s) == ListResumable(s) \/ ClaimPublication(s) \/ PublishClaimed(s) \/ MarkClaimed(s)

Next ==
  \/ \E o \in Operator : OperatorNext(o)
  \/ \E p \in Push : PushNext(p)
  \/ \E s \in Sweeper : SweepStep(s) \/ SweepFails(s)
  \/ \E k \in Step : ClaimExpires(k)

Spec == Init /\ [][Next]_vars

\* A request that was begun goes on, the loop comes round, a claim expires, and the
\* broker delivers a message until it is acknowledged; the first of each step is enough.
Fairness ==
  /\ \A p \in Push : WF_vars(PushStep(p))
  /\ \A k \in Step : SF_vars(\E p \in Push : Deliver(p, <<k, 1>>))
  /\ \A s \in Sweeper : WF_vars(SweepStep(s))
  /\ WF_vars(\E k \in Step : ClaimExpires(k))

FairSpec == Spec /\ Fairness

-----------------------------------------------------------------------------
(* Properties. *)

TypeOK ==
  /\ campaign \in [status : {"NONE", "RUNNING", "COMPLETED", "FAILED"}, current : 0..TotalSteps]
  /\ step \in [Step -> [status : {"NONE", "READY", "PUBLISHING", "PUBLISHED", "COMPLETED", "FAILED"},
                        owner : Sweeper \cup {Nobody}, expired : BOOLEAN]]
  /\ sent \in [Step -> 0..MaxCopies]
  /\ acked \subseteq Message /\ receipt \subseteq Message
  /\ operator \in [Operator -> {"idle", "publish", "done"}]
  /\ push \in [Push -> [pc : {"idle", "received", "working", "ensureCompleted", "ensureFailed",
                              "createCompleted", "createFailed", "complete", "fail", "failStep",
                              "publish", "mark"},
                        msg : Message]]
  /\ sweep \in [Sweeper -> [pc : {"idle", "listed", "publish", "mark"}, step : Step]]
  /\ faults \in 0..MaxFaults

\* The steps before the current one are complete, those after it do not exist, and the
\* current one is what the campaign's status says, however many deliveries, copies and
\* sweeps worked on the same step.
StepsChain ==
  /\ \A k \in Step :
       /\ k < campaign.current => step[k].status = "COMPLETED"
       /\ k > campaign.current => step[k].status = "NONE"
  /\ campaign.status = "NONE" => campaign.current = 0
  /\ campaign.status = "COMPLETED" => campaign.current = TotalSteps
  /\ campaign.current \in Step =>
       (campaign.status = "COMPLETED") <=> (step[campaign.current].status = "COMPLETED")
  /\ campaign.status = "FAILED" => campaign.current \in Step

\* A step that says PUBLISHED, or whose campaign moved past it, has a message: nothing
\* is marked before it is sent.
PublishedWasSent == \A k \in Step :
  step[k].status \in {"PUBLISHED", "COMPLETED", "FAILED"} => sent[k] > 0

Progress == INSTANCE CampaignProgress WITH status <- campaign.status, current <- campaign.current

\* The campaign's row does what CampaignProgress promises.
ImplementsProgress == Progress!ProgressSpec

\* Once its first event is out, the campaign ends: what a worker prepared and lost, a
\* sweep publishes; what failed half way, its redelivery finishes.
CampaignEnds == sent[1] > 0 ~> campaign.status \in {"COMPLETED", "FAILED"}
=============================================================================
