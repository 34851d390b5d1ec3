-------------------------- MODULE CampaignRunProofs --------------------------
(***************************************************************************)
(* Theorems about CampaignRun: for every number of steps, of deliveries,   *)
(* of sweeps, of copies of a message and of faults, the steps of the       *)
(* campaign form a chain, nothing is marked published before it was sent,  *)
(* and the campaign's row implements CampaignProgress.                     *)
(***************************************************************************)
EXTENDS CampaignRun, TLAPS

StepStatus == {"NONE", "READY", "PUBLISHING", "PUBLISHED", "COMPLETED", "FAILED"}
StepRows == [status : StepStatus, owner : Sweeper \cup {Nobody}, expired : BOOLEAN]
PushPc == {"idle", "received", "working", "ensureCompleted", "ensureFailed", "createCompleted",
           "createFailed", "complete", "fail", "failStep", "publish", "mark"}
PushRows == [pc : PushPc, msg : Message]
SweepPc == {"idle", "listed", "publish", "mark"}
SweepRows == [pc : SweepPc, step : Step]
CampaignRows == [status : {"NONE", "RUNNING", "COMPLETED", "FAILED"}, current : 0..TotalSteps]

\* Work on a campaign is work on one that was started.
StartedBefore ==
  /\ \A o \in Operator : operator[o] # "idle" => campaign.status # "NONE"
  /\ \A k \in Step : sent[k] > 0 => campaign.status # "NONE"
  /\ \A s \in Sweeper : sweep[s].pc # "idle" => campaign.status # "NONE"

\* A request holds a message that was sent; where it is says which step the message is of
\* and what it did for it.
PushShape ==
  \A p \in Push :
    LET k == StepOf(push[p].msg) IN
    /\ push[p].pc # "idle" => sent[k] > 0
    /\ push[p].pc \in {"ensureCompleted", "ensureFailed", "createCompleted", "createFailed"} => k = 1
    /\ push[p].pc \in {"publish", "mark"} => k < TotalSteps
    /\ push[p].pc = "mark" => sent[k + 1] > 0
    /\ push[p].pc = "failStep" => campaign.status = "FAILED" /\ campaign.current = k

SweepShape == \A s \in Sweeper : sweep[s].pc = "mark" => sent[sweep[s].step] > 0

\* The current step exists.
CurrentExists == campaign.current \in Step => step[campaign.current].status # "NONE"

CampaignInv ==
  /\ TypeOK
  /\ StepsChain
  /\ CurrentExists
  /\ PublishedWasSent
  /\ StartedBefore
  /\ PushShape
  /\ SweepShape

-----------------------------------------------------------------------------
(* Types. *)

Typed ==
  /\ campaign \in CampaignRows
  /\ step \in [Step -> StepRows]
  /\ sent \in [Step -> 0..MaxCopies]
  /\ acked \subseteq Message /\ receipt \subseteq Message
  /\ operator \in [Operator -> {"idle", "publish", "done"}]
  /\ push \in [Push -> PushRows]
  /\ sweep \in [Sweeper -> SweepRows]
  /\ faults \in 0..MaxFaults

LEMMA Types == (TypeOK <=> Typed) /\ (TypeOK' <=> Typed')
BY DEF Typed, TypeOK, CampaignRows, StepRows, StepStatus, PushRows, PushPc, SweepRows, SweepPc

LEMMA MessageOfStep ==
  ASSUME NEW m \in Message
  PROVE  StepOf(m) \in Step /\ m[2] \in 1..MaxCopies
BY DEF Message, StepOf

LEMMA StepNumbers ==
  /\ 1 \in Step /\ Step \subseteq Nat
  /\ \A k \in Step : k # TotalSteps => k < TotalSteps /\ k + 1 \in Step
  /\ \A k \in Step : k < TotalSteps => k # TotalSteps
  /\ \A k \in Step : k <= TotalSteps /\ 0 < k
BY TotalStepsAssumption DEF Step

LEMMA IdleRows ==
  /\ IdlePush \in PushRows /\ IdlePush.pc = "idle"
  /\ IdleSweep \in SweepRows /\ IdleSweep.pc = "idle"
  /\ NoStep \in StepRows
<1>1. <<1, 1>> \in Message
  BY StepNumbers, BoundsAssumption DEF Message
<1> QED
  BY <1>1, StepNumbers DEF IdlePush, IdleSweep, NoStep, PushRows, PushPc, SweepRows, SweepPc,
     StepRows, StepStatus

\* What an action may do to a step's row, to a request and to a sweep.
LEMMA StepChanges ==
  ASSUME NEW r \in StepRows, NEW status \in StepStatus, NEW s \in Sweeper
  PROVE  /\ [r EXCEPT !.status = status] \in StepRows
         /\ [r EXCEPT !.expired = TRUE] \in StepRows
         /\ [NoStep EXCEPT !.status = status] \in StepRows
         /\ [status |-> "PUBLISHING", owner |-> s, expired |-> FALSE] \in StepRows
<1>1. [r EXCEPT !.status = status] \in StepRows /\ [NoStep EXCEPT !.status = status] \in StepRows
  BY IdleRows DEF StepRows
<1>2. [r EXCEPT !.expired = TRUE] \in StepRows
  BY DEF StepRows
<1>3. [status |-> "PUBLISHING", owner |-> s, expired |-> FALSE] \in StepRows
  BY DEF StepRows, StepStatus
<1> QED
  BY <1>1, <1>2, <1>3

LEMMA PushChanges ==
  ASSUME push \in [Push -> PushRows], NEW p \in Push, NEW pc \in PushPc
  PROVE  /\ [push EXCEPT ![p].pc = pc] \in [Push -> PushRows]
         /\ [push EXCEPT ![p] = IdlePush] \in [Push -> PushRows]
         /\ \A m \in Message : [push EXCEPT ![p] = [pc |-> "received", msg |-> m]] \in [Push -> PushRows]
<1>1. [push[p] EXCEPT !.pc = pc] \in PushRows
  BY DEF PushRows
<1>2. \A m \in Message : [pc |-> "received", msg |-> m] \in PushRows
  BY DEF PushRows, PushPc
<1> QED
  BY <1>1, <1>2, IdleRows

LEMMA SweepChanges ==
  ASSUME sweep \in [Sweeper -> SweepRows], NEW s \in Sweeper, NEW pc \in SweepPc
  PROVE  /\ [sweep EXCEPT ![s].pc = pc] \in [Sweeper -> SweepRows]
         /\ [sweep EXCEPT ![s] = IdleSweep] \in [Sweeper -> SweepRows]
         /\ \A k \in Step : [sweep EXCEPT ![s] = Claimed(k)] \in [Sweeper -> SweepRows]
<1>1. [sweep[s] EXCEPT !.pc = pc] \in SweepRows
  BY DEF SweepRows
<1>2. \A k \in Step : Claimed(k) \in SweepRows
  BY DEF Claimed, SweepRows, SweepPc
<1> QED
  BY <1>1, <1>2, IdleRows

LEMMA PublishTyped ==
  ASSUME sent \in [Step -> 0..MaxCopies], NEW k \in Step, Publish(k)
  PROVE  /\ sent' \in [Step -> 0..MaxCopies]
         /\ sent'[k] > 0
         /\ \A j \in Step : sent[j] > 0 => sent'[j] > 0
<1>1. sent[k] + 1 \in 0..MaxCopies /\ sent[k] + 1 > 0
  BY BoundsAssumption DEF Publish
<1>2. sent'[k] = sent[k] + 1 /\ \A j \in Step : j # k => sent'[j] = sent[j]
  BY DEF Publish
<1> QED
  BY <1>1, <1>2 DEF Publish

-----------------------------------------------------------------------------
(* Every variable keeps its type. *)

LEMMA FaultTyped == ASSUME TypeOK, Fault PROVE faults' \in 0..MaxFaults
BY BoundsAssumption DEF TypeOK, Fault

\* Where a request may go.
LEMMA GotoTyped ==
  ASSUME TypeOK, NEW p \in Push
  PROVE  /\ StepOf(push[p].msg) \in Step /\ push[p].msg \in Message
         /\ \A pc \in PushPc : Goto(p, pc) => push' \in [Push -> PushRows]
         /\ Ack(p) => push' \in [Push -> PushRows] /\ acked' \subseteq Message
<1>1. push \in [Push -> PushRows] /\ acked \subseteq Message
  BY Types DEF Typed
<1>2. push[p].msg \in Message
  BY <1>1 DEF PushRows
<1>3. \A pc \in PushPc : Goto(p, pc) => push' \in [Push -> PushRows]
  BY <1>1, PushChanges DEF Goto
<1>4. Ack(p) => push' \in [Push -> PushRows] /\ acked' \subseteq Message
  <2>1. [push EXCEPT ![p] = IdlePush] \in [Push -> PushRows]
    BY <1>1, IdleRows
  <2> QED
    BY <1>1, <1>2, <2>1 DEF Ack
<1> QED
  BY <1>2, <1>3, <1>4, MessageOfStep

LEMMA RowTyped ==
  ASSUME TypeOK, NEW k \in Step, NEW r \in StepRows, step' = [step EXCEPT ![k] = r]
  PROVE  step' \in [Step -> StepRows]
BY Types DEF Typed

LEMMA OperatorTyped == ASSUME TypeOK, NEW o \in Operator, OperatorNext(o) PROVE TypeOK'
<1> USE Types DEF Typed
<1>1. CASE Start(o)
  BY <1>1, StepNumbers, TotalStepsAssumption DEF Start, CampaignRows
<1>2. CASE PublishFirst(o)
  BY <1>2, StepNumbers, PublishTyped DEF PublishFirst
<1>3. CASE PublishFirstFails(o)
  BY <1>3, StepNumbers, PublishTyped, FaultTyped DEF PublishFirstFails
<1> QED
  BY <1>1, <1>2, <1>3 DEF OperatorNext

\* The three answers of completeAndPrepareNext.
Settled(k) == [step EXCEPT ![k] = [NoStep EXCEPT !.status = "COMPLETED"]]

LEMMA Completions ==
  ASSUME NEW p \in Push, NEW k, k = StepOf(push[p].msg), CompleteAndPrepareNext(p)
  PROVE  /\ push[p].pc = "complete"
         /\ UNCHANGED <<sent, receipt, operator, sweep, faults>>
         /\ \/ NotCurrent(k) /\ Ack(p) /\ UNCHANGED <<campaign, step>>
            \/ /\ ~NotCurrent(k) /\ k = TotalSteps
               /\ step' = Settled(k)
               /\ campaign' = [campaign EXCEPT !.status = "COMPLETED"]
               /\ Ack(p)
            \/ /\ ~NotCurrent(k) /\ k # TotalSteps
               /\ step' = [Settled(k) EXCEPT ![k + 1].status = "READY"]
               /\ campaign' = [campaign EXCEPT !.current = k + 1]
               /\ Goto(p, "publish")
               /\ UNCHANGED acked
<1>1. CASE NotCurrent(k)
  BY <1>1 DEF CompleteAndPrepareNext
<1>2. CASE ~NotCurrent(k) /\ k = TotalSteps
  BY <1>2 DEF CompleteAndPrepareNext, Settled
<1>3. CASE ~NotCurrent(k) /\ k # TotalSteps
  BY <1>3 DEF CompleteAndPrepareNext, Settled
<1> QED
  BY <1>1, <1>2, <1>3

LEMMA PushTyped == ASSUME TypeOK, NEW p \in Push, PushNext(p) PROVE TypeOK'
<1> USE Types DEF Typed
<1> DEFINE k == StepOf(push[p].msg)
<1>1. ASSUME NEW m \in Message, Deliver(p, m) PROVE TypeOK'
  <2>1. push' \in [Push -> PushRows]
    BY <1>1, PushChanges DEF Deliver, PushPc
  <2> QED
    BY <1>1, <2>1 DEF Deliver
<1>2. CASE Receive(p)
  <2>1. AfterWorkflow(p, TRUE) \in PushPc /\ "working" \in PushPc
    BY DEF AfterWorkflow, PushPc
  <2> QED
    BY <1>2, <2>1, GotoTyped DEF Receive
<1>3. ASSUME NEW completed \in BOOLEAN, WorkflowEnds(p, completed) PROVE TypeOK'
  <2>1. AfterWorkflow(p, completed) \in PushPc
    BY DEF AfterWorkflow, PushPc
  <2> QED
    BY <1>3, <2>1, GotoTyped DEF WorkflowEnds
<1>4. CASE LookForFirst(p)
  <2>1. {"complete", "fail", "createCompleted", "createFailed"} \subseteq PushPc
    BY DEF PushPc
  <2> QED
    BY <1>4, <2>1, GotoTyped DEF LookForFirst
<1>5. CASE CreateFirst(p)
  <2>1. {"complete", "fail"} \subseteq PushPc
    BY DEF PushPc
  <2>2. push' \in [Push -> PushRows]
    BY <1>5, <2>1, GotoTyped, PushChanges DEF CreateFirst
  <2>3. [campaign EXCEPT !.current = 1] \in CampaignRows
    BY StepNumbers, TotalStepsAssumption DEF CampaignRows
  <2>4. campaign' \in CampaignRows
    BY <1>5, <2>3 DEF CreateFirst
  <2>5. [step[1] EXCEPT !.status = "PUBLISHED"] \in StepRows
    BY StepNumbers DEF StepRows, StepStatus
  <2>6. step' \in [Step -> StepRows]
    BY <1>5, <2>5, StepNumbers DEF CreateFirst
  <2> QED
    BY <1>5, <2>2, <2>4, <2>6 DEF CreateFirst
<1>6. CASE FailCampaign(p)
  <2>1. [campaign EXCEPT !.status = "FAILED"] \in CampaignRows
    BY DEF CampaignRows
  <2>2. push' \in [Push -> PushRows] /\ acked' \subseteq Message /\ campaign' \in CampaignRows
    BY <1>6, <2>1, GotoTyped DEF FailCampaign, PushPc
  <2> QED
    BY <1>6, <2>2 DEF FailCampaign
<1>7. CASE FailStep(p)
  <2>1. k \in Step
    BY GotoTyped
  <2>2. [step[k] EXCEPT !.status = "FAILED"] \in StepRows
    BY <2>1 DEF StepRows, StepStatus
  <2>3. step' \in [Step -> StepRows]
    BY <1>7, <2>1, <2>2 DEF FailStep
  <2> QED
    BY <1>7, <2>3, GotoTyped DEF FailStep
<1>8. CASE CompleteAndPrepareNext(p)
  <2> DEFINE done == Settled(k)
             prepared == [done EXCEPT ![k + 1].status = "READY"]
  <2>1. k \in Step
    BY GotoTyped
  <2>2. done \in [Step -> StepRows]
    <3>1. [NoStep EXCEPT !.status = "COMPLETED"] \in StepRows
      BY IdleRows DEF StepRows, StepStatus
    <3> QED
      BY <2>1, <3>1 DEF Settled
  <2>3. k # TotalSteps => prepared \in [Step -> StepRows]
    <3>1. SUFFICES ASSUME k # TotalSteps PROVE prepared \in [Step -> StepRows]
      OBVIOUS
    <3>2. k + 1 \in Step
      BY <2>1, <3>1, StepNumbers
    <3>3. [done[k + 1] EXCEPT !.status = "READY"] \in StepRows
      BY <2>2, <3>2 DEF StepRows, StepStatus
    <3> QED
      BY <2>2, <3>2, <3>3
  <2>4. step' \in [Step -> StepRows]
    BY <1>8, <2>2, <2>3, Completions
  <2>5. campaign' \in CampaignRows
    <3>1. [campaign EXCEPT !.status = "COMPLETED"] \in CampaignRows
      BY DEF CampaignRows
    <3>2. k # TotalSteps => [campaign EXCEPT !.current = k + 1] \in CampaignRows
      <4>1. k # TotalSteps => k + 1 \in 0..TotalSteps
        BY <2>1, TotalStepsAssumption DEF Step
      <4> QED
        BY <4>1 DEF CampaignRows
    <3> QED
      BY <1>8, <3>1, <3>2, Completions
  <2>6. push' \in [Push -> PushRows] /\ acked' \subseteq Message
    BY <1>8, GotoTyped, Completions DEF PushPc
  <2> QED
    BY <1>8, <2>4, <2>5, <2>6, Completions
<1>9. CASE PublishNext(p)
  <2>1. sent' \in [Step -> 0..MaxCopies]
    <3> DEFINE j == k + 1
    <3>1. sent[j] < MaxCopies /\ sent' = [sent EXCEPT ![j] = sent[j] + 1]
      BY <1>9 DEF PublishNext, Publish
    <3> HIDE DEF j
    <3>2. j \in Step => sent[j] + 1 \in 0..MaxCopies
      BY <3>1, BoundsAssumption
    <3> QED
      BY <3>1, <3>2
  <2> QED
    BY <1>9, <2>1, GotoTyped DEF PublishNext, PushPc
<1>10. CASE MarkNext(p)
  <2>1. [NoStep EXCEPT !.status = "PUBLISHED"] \in StepRows
    BY IdleRows DEF StepRows, StepStatus
  <2>2. step' \in [Step -> StepRows]
    <3>1. step' = step \/ step' = [step EXCEPT ![k + 1] = [NoStep EXCEPT !.status = "PUBLISHED"]]
      BY <1>10 DEF MarkNext, MarkPublished
    <3> QED
      BY <2>1, <3>1
  <2> QED
    BY <1>10, <2>2, GotoTyped DEF MarkNext
<1>11. CASE PushFails(p)
  <2>1. push' \in [Push -> PushRows]
    BY <1>11, PushChanges, GotoTyped DEF PushFails, PushPc
  <2> QED
    BY <1>11, <2>1, FaultTyped DEF PushFails
<1> QED
  BY <1>1, <1>2, <1>3, <1>4, <1>5, <1>6, <1>7, <1>8, <1>9, <1>10, <1>11 DEF PushNext, PushStep

LEMMA SweepTyped == ASSUME TypeOK, NEW s \in Sweeper, SweepStep(s) \/ SweepFails(s) PROVE TypeOK'
<1> USE Types DEF Typed
<1>1. SweepPc = {"idle", "listed", "publish", "mark"} /\ sweep[s].step \in Step
  BY DEF SweepPc, SweepRows
<1>2. CASE ListResumable(s)
  BY <1>1, <1>2, SweepChanges DEF ListResumable
<1>3. CASE ClaimPublication(s)
  <2>1. \A k \in Step : [status |-> "PUBLISHING", owner |-> s, expired |-> FALSE] \in StepRows
    BY DEF StepRows, StepStatus
  <2>2. step' \in [Step -> StepRows]
    <3>1. \/ UNCHANGED step
          \/ \E j \in Step : step' = [step EXCEPT ![j] = [status |-> "PUBLISHING", owner |-> s,
                                                        expired |-> FALSE]]
      BY <1>3 DEF ClaimPublication
    <3> QED
      BY <2>1, <3>1
  <2>3. sweep' \in [Sweeper -> SweepRows]
    <3>1. \/ sweep' = [sweep EXCEPT ![s] = IdleSweep]
          \/ \E j \in Step : sweep' = [sweep EXCEPT ![s] = Claimed(j)]
      BY <1>3 DEF ClaimPublication
    <3>2. /\ [sweep EXCEPT ![s] = IdleSweep] \in [Sweeper -> SweepRows]
          /\ \A j \in Step : [sweep EXCEPT ![s] = Claimed(j)] \in [Sweeper -> SweepRows]
      BY <1>1, SweepChanges
    <3> QED
      BY <3>1, <3>2
  <2> QED
    BY <1>3, <2>2, <2>3 DEF ClaimPublication
<1>4. CASE PublishClaimed(s)
  <2>1. sweep' \in [Sweeper -> SweepRows]
    BY <1>1, <1>4, SweepChanges DEF PublishClaimed
  <2> QED
    BY <1>1, <1>4, <2>1, PublishTyped DEF PublishClaimed
<1>5. CASE MarkClaimed(s)
  <2>1. [NoStep EXCEPT !.status = "PUBLISHED"] \in StepRows
    BY IdleRows DEF StepRows, StepStatus
  <2>2. step' \in [Step -> StepRows]
    BY <1>5, <2>1 DEF MarkClaimed, MarkPublished
  <2>3. sweep' \in [Sweeper -> SweepRows]
    BY <1>1, <1>5, SweepChanges DEF MarkClaimed
  <2> QED
    BY <1>5, <2>2, <2>3 DEF MarkClaimed
<1>6. CASE SweepFails(s)
  <2>1. sweep' \in [Sweeper -> SweepRows]
    BY <1>1, <1>6, SweepChanges DEF SweepFails
  <2> QED
    BY <1>6, <2>1, FaultTyped DEF SweepFails
<1> QED
  BY <1>2, <1>3, <1>4, <1>5, <1>6 DEF SweepStep

LEMMA ClaimTyped == ASSUME TypeOK, NEW k \in Step, ClaimExpires(k) PROVE TypeOK'
<1> USE Types DEF Typed
<1>1. [step[k] EXCEPT !.expired = TRUE] \in StepRows
  BY DEF StepRows
<1>2. step' \in [Step -> StepRows]
  BY <1>1 DEF ClaimExpires
<1> QED
  BY <1>2, FaultTyped DEF ClaimExpires

LEMMA TypeKept == ASSUME TypeOK, [Next]_vars PROVE TypeOK'
<1>1. CASE UNCHANGED vars
  BY <1>1 DEF vars, TypeOK
<1> QED
  BY <1>1, OperatorTyped, PushTyped, SweepTyped, ClaimTyped DEF Next

-----------------------------------------------------------------------------
(* What a step does to the campaign's row. *)

\* The steps of CampaignProgress, as they are taken.
CampaignStep ==
  \/ UNCHANGED campaign
  \/ campaign.status = "NONE" /\ campaign' = [status |-> "RUNNING", current |-> 0]
  \/ /\ campaign.status = "RUNNING" /\ campaign.current < TotalSteps
     /\ campaign' = [campaign EXCEPT !.current = campaign.current + 1]
  \/ /\ campaign.status = "RUNNING" /\ campaign.current = TotalSteps
     /\ campaign' = [campaign EXCEPT !.status = "COMPLETED"]
  \/ /\ campaign.status = "RUNNING" /\ campaign.current \in Step
     /\ campaign' = [campaign EXCEPT !.status = "FAILED"]

LEMMA CampaignSteps == ASSUME CampaignInv, [Next]_vars PROVE CampaignStep
<1> USE DEF CampaignStep, CampaignInv
<1>1. ASSUME NEW o \in Operator, OperatorNext(o) PROVE CampaignStep
  BY <1>1 DEF OperatorNext, Start, PublishFirst, PublishFirstFails
<1>2. ASSUME NEW p \in Push, CreateFirst(p) PROVE CampaignStep
  BY <1>2, TotalStepsAssumption DEF CreateFirst
<1>3. ASSUME NEW p \in Push, FailCampaign(p) PROVE CampaignStep
  BY <1>3, GotoTyped DEF FailCampaign, AtStep
<1>4. ASSUME NEW p \in Push, CompleteAndPrepareNext(p) PROVE CampaignStep
  <2> DEFINE k == StepOf(push[p].msg)
  <2>1. k \in Step /\ (k # TotalSteps => k < TotalSteps)
    BY GotoTyped, StepNumbers
  <2> QED
    BY <1>4, <2>1, Completions DEF NotCurrent, AtStep
<1>5. ASSUME NEW p \in Push, PushNext(p), UNCHANGED campaign PROVE CampaignStep
  BY <1>5
<1>6. ASSUME NEW p \in Push, PushNext(p) PROVE CampaignStep
  BY <1>2, <1>3, <1>4, <1>6 DEF PushNext, PushStep, Deliver, Receive, WorkflowEnds, LookForFirst,
     FailStep, PublishNext, MarkNext, PushFails
<1>7. ASSUME NEW s \in Sweeper, SweepStep(s) \/ SweepFails(s) PROVE CampaignStep
  BY <1>7 DEF SweepStep, SweepFails, ListResumable, ClaimPublication, PublishClaimed, MarkClaimed
<1>8. ASSUME NEW k \in Step, ClaimExpires(k) PROVE CampaignStep
  BY <1>8 DEF ClaimExpires
<1>9. CASE UNCHANGED vars
  BY <1>9 DEF vars
<1> QED
  BY <1>1, <1>6, <1>7, <1>8, <1>9 DEF Next

\* It stays begun, and failed if it failed.
LEMMA CampaignStays ==
  ASSUME CampaignInv, [Next]_vars
  PROVE  /\ campaign.status # "NONE" => campaign'.status # "NONE"
         /\ campaign.status = "FAILED" => campaign' = campaign
<1>1. campaign \in CampaignRows
  BY Types DEF CampaignInv, Typed
<1>2. CampaignStep
  BY CampaignSteps
<1> QED
  BY <1>1, <1>2 DEF CampaignStep, CampaignRows

\* Who publishes, and when.
LEMMA SentGrows ==
  ASSUME CampaignInv, [Next]_vars
  PROVE  /\ \A k \in Step : sent[k] > 0 => sent'[k] > 0
         /\ \A k \in Step : sent'[k] > 0 => sent[k] > 0 \/ campaign.status # "NONE"
<1> DEFINE Grows ==
      /\ \A k \in Step : sent[k] > 0 => sent'[k] > 0
      /\ \A k \in Step : sent'[k] > 0 => sent[k] > 0 \/ campaign.status # "NONE"
<1>1. TypeOK /\ sent \in [Step -> 0..MaxCopies] /\ StartedBefore /\ PushShape
  BY Types DEF CampaignInv, Typed
<1>2. CASE UNCHANGED sent
  BY <1>2
<1>3. ASSUME NEW k \in Step, Publish(k), campaign.status # "NONE" PROVE Grows
  BY <1>1, <1>3, PublishTyped
<1>4. ASSUME NEW o \in Operator, OperatorNext(o) PROVE Grows
  BY <1>1, <1>2, <1>3, <1>4, StepNumbers
     DEF StartedBefore, OperatorNext, Start, PublishFirst, PublishFirstFails
<1>5. ASSUME NEW p \in Push, PublishNext(p) PROVE Grows
  <2> DEFINE k == StepOf(push[p].msg)
  <2>1. k \in Step /\ push[p].pc = "publish" /\ Publish(k + 1)
    BY <1>1, <1>5, GotoTyped DEF PublishNext
  <2>2. k + 1 \in Step /\ campaign.status # "NONE"
    <3>1. k < TotalSteps /\ sent[k] > 0
      BY <1>1, <2>1 DEF PushShape
    <3>2. k # TotalSteps
      BY <2>1, <3>1, TotalStepsAssumption, StepNumbers
    <3> QED
      BY <1>1, <2>1, <3>1, <3>2, StepNumbers DEF StartedBefore
  <2> QED
    BY <1>3, <2>1, <2>2
<1>6. ASSUME NEW p \in Push, PushNext(p) PROVE Grows
  <2>1. CASE CompleteAndPrepareNext(p)
    BY <1>2, <2>1, Completions
  <2> QED
    BY <1>2, <1>5, <1>6, <2>1 DEF PushNext, PushStep, Deliver, Receive, WorkflowEnds, LookForFirst,
       CreateFirst, FailCampaign, FailStep, MarkNext, PushFails
<1>7. ASSUME NEW s \in Sweeper, SweepStep(s) \/ SweepFails(s) PROVE Grows
  <2>1. CASE PublishClaimed(s)
    <3>1. sweep[s].step \in Step
      BY <1>1, Types DEF Typed, SweepRows
    <3> QED
      BY <1>1, <1>3, <2>1, <3>1 DEF PublishClaimed, StartedBefore
  <2> QED
    BY <1>2, <1>7, <2>1 DEF SweepStep, SweepFails, ListResumable, ClaimPublication, MarkClaimed
<1>8. ASSUME NEW k \in Step, ClaimExpires(k) PROVE Grows
  BY <1>2, <1>8 DEF ClaimExpires
<1>9. CASE UNCHANGED vars
  BY <1>2, <1>9 DEF vars
<1> QED
  BY <1>4, <1>6, <1>7, <1>8, <1>9 DEF Next

-----------------------------------------------------------------------------
(* What work is based on. *)

LEMMA StartedKept == ASSUME CampaignInv, [Next]_vars PROVE StartedBefore'
<1>1. TypeOK /\ StartedBefore /\ campaign \in CampaignRows
  BY Types DEF CampaignInv, Typed
<1>2. campaign.status # "NONE" => campaign'.status # "NONE"
  BY CampaignStays
<1>3. \A k \in Step : sent'[k] > 0 => campaign'.status # "NONE"
  BY <1>1, <1>2, SentGrows DEF StartedBefore
<1>4. (\A o \in Operator : operator'[o] # "idle" => campaign'.status # "NONE")
  <2>1. CASE UNCHANGED operator
    BY <1>1, <1>2, <2>1 DEF StartedBefore
  <2>2. ASSUME NEW o \in Operator, OperatorNext(o)
        PROVE  \A q \in Operator : operator'[q] # "idle" => campaign'.status # "NONE"
    <3>1. \A q \in Operator : q # o => operator'[q] = operator[q]
      BY <2>2, Types, <1>1 DEF Typed, OperatorNext, Start, PublishFirst, PublishFirstFails
    <3>2. CASE Start(o)
      BY <1>1, <1>2, <3>1, <3>2 DEF Start, StartedBefore
    <3>3. CASE PublishFirst(o) \/ PublishFirstFails(o)
      <4>1. operator[o] # "idle"
        BY <3>3 DEF PublishFirst, PublishFirstFails
      <4> QED
        BY <1>1, <1>2, <3>1, <4>1 DEF StartedBefore
    <3> QED
      BY <2>2, <3>2, <3>3 DEF OperatorNext
  <2>3. ASSUME NEW p \in Push, PushNext(p) PROVE UNCHANGED operator
    <3>1. CompleteAndPrepareNext(p) => UNCHANGED operator
      BY Completions
    <3> QED
      BY <2>3, <3>1 DEF PushNext, PushStep, Deliver, Receive, WorkflowEnds, LookForFirst,
         CreateFirst, FailCampaign, FailStep, PublishNext, MarkNext, PushFails
  <2>4. ASSUME NEW s \in Sweeper, SweepStep(s) \/ SweepFails(s) PROVE UNCHANGED operator
    BY <2>4 DEF SweepStep, SweepFails, ListResumable, ClaimPublication, PublishClaimed, MarkClaimed
  <2>5. ASSUME NEW k \in Step, ClaimExpires(k) PROVE UNCHANGED operator
    BY <2>5 DEF ClaimExpires
  <2> QED
    BY <2>1, <2>2, <2>3, <2>4, <2>5 DEF Next, vars
<1>5. \A s \in Sweeper : sweep'[s].pc # "idle" => campaign'.status # "NONE"
  <2>1. CASE UNCHANGED sweep
    BY <1>1, <1>2, <2>1 DEF StartedBefore
  <2>2. ASSUME NEW s \in Sweeper, SweepStep(s) \/ SweepFails(s)
        PROVE  \A t \in Sweeper : sweep'[t].pc # "idle" => campaign'.status # "NONE"
    <3>1. sweep \in [Sweeper -> SweepRows]
      BY <1>1, Types DEF Typed
    <3>2. \A t \in Sweeper : t # s => sweep'[t] = sweep[t]
      BY <2>2, <3>1 DEF SweepStep, SweepFails, ListResumable, ClaimPublication, PublishClaimed, MarkClaimed
    <3>3. sweep[s].pc # "idle" \/ campaign.status # "NONE"
      BY <2>2 DEF SweepStep, SweepFails, ListResumable, ClaimPublication, PublishClaimed, MarkClaimed
    <3> QED
      BY <1>1, <1>2, <3>2, <3>3 DEF StartedBefore
  <2>3. ASSUME NEW p \in Push, PushNext(p) PROVE UNCHANGED sweep
    <3>1. CompleteAndPrepareNext(p) => UNCHANGED sweep
      BY Completions
    <3> QED
      BY <2>3, <3>1 DEF PushNext, PushStep, Deliver, Receive, WorkflowEnds, LookForFirst,
         CreateFirst, FailCampaign, FailStep, PublishNext, MarkNext, PushFails
  <2>4. ASSUME NEW o \in Operator, OperatorNext(o) PROVE UNCHANGED sweep
    BY <2>4 DEF OperatorNext, Start, PublishFirst, PublishFirstFails
  <2>5. ASSUME NEW k \in Step, ClaimExpires(k) PROVE UNCHANGED sweep
    BY <2>5 DEF ClaimExpires
  <2> QED
    BY <2>1, <2>2, <2>3, <2>4, <2>5 DEF Next, vars
<1> QED
  BY <1>3, <1>4, <1>5 DEF StartedBefore

\* The shape of one request.
ShapeOf(p) ==
  LET k == StepOf(push[p].msg) IN
  /\ push[p].pc # "idle" => sent[k] > 0
  /\ push[p].pc \in {"ensureCompleted", "ensureFailed", "createCompleted", "createFailed"} => k = 1
  /\ push[p].pc \in {"publish", "mark"} => k < TotalSteps
  /\ push[p].pc = "mark" => sent[k + 1] > 0
  /\ push[p].pc = "failStep" => campaign.status = "FAILED" /\ campaign.current = k

LEMMA ShapeStays ==
  ASSUME CampaignInv, [Next]_vars, NEW p \in Push, push'[p] = push[p]
  PROVE  ShapeOf(p)'
<1> DEFINE k == StepOf(push[p].msg)
<1>1. TypeOK /\ ShapeOf(p)
  BY DEF CampaignInv, PushShape, ShapeOf
<1>2. k \in Step /\ StepOf(push'[p].msg) = k
  BY <1>1, GotoTyped
<1>3. k < TotalSteps => k + 1 \in Step
  BY <1>2, StepNumbers
<1>4. (sent[k] > 0 => sent'[k] > 0) /\ (k < TotalSteps /\ sent[k + 1] > 0 => sent'[k + 1] > 0)
  BY <1>2, <1>3, SentGrows
<1> HIDE DEF k
<1> QED
  BY <1>1, <1>2, <1>4, CampaignStays DEF ShapeOf, k

\* Another place of the request, and what must be true there.
LEMMA ShapeMoves ==
  ASSUME CampaignInv, [Next]_vars, NEW p \in Push, NEW pc \in PushPc, Goto(p, pc),
         push[p].pc # "idle",
         pc \in {"ensureCompleted", "ensureFailed", "createCompleted", "createFailed"}
           => StepOf(push[p].msg) = 1,
         pc \in {"publish", "mark"} => StepOf(push[p].msg) < TotalSteps,
         pc = "mark" => sent'[StepOf(push[p].msg) + 1] > 0,
         pc = "failStep" => campaign'.status = "FAILED" /\ campaign'.current = StepOf(push[p].msg)
  PROVE  ShapeOf(p)'
<1> DEFINE k == StepOf(push[p].msg)
<1>1. TypeOK /\ ShapeOf(p) /\ push \in [Push -> PushRows]
  BY Types DEF CampaignInv, PushShape, ShapeOf, Typed
<1>2. push'[p].pc = pc /\ push'[p].msg = push[p].msg
  BY <1>1 DEF Goto, PushRows
<1>3. k \in Step /\ sent'[k] > 0
  BY <1>1, GotoTyped, SentGrows DEF ShapeOf
<1> QED
  BY <1>2, <1>3 DEF ShapeOf

\* Only the request that acts moves, and it keeps its shape.
LEMMA PushShapeKept == ASSUME CampaignInv, [Next]_vars PROVE PushShape'
<1> USE DEF PushPc
<1> DEFINE k(p) == StepOf(push[p].msg)
<1>1. TypeOK /\ push \in [Push -> PushRows] /\ \A p \in Push : ShapeOf(p) /\ k(p) \in Step
  BY Types, GotoTyped DEF CampaignInv, PushShape, ShapeOf, Typed
<1>2. ASSUME NEW p \in Push, push'[p].pc = "idle" PROVE ShapeOf(p)'
  BY <1>2 DEF ShapeOf
<1>3. ASSUME NEW p \in Push, push' = [push EXCEPT ![p] = IdlePush] PROVE ShapeOf(p)'
  BY <1>1, <1>2, <1>3, IdleRows
<1>4. ASSUME NEW p \in Push, Ack(p) PROVE ShapeOf(p)'
  BY <1>3, <1>4 DEF Ack
<1>5. ASSUME NEW p \in Push, PushNext(p) PROVE ShapeOf(p)'
  <2>1. ASSUME NEW m \in Message, Deliver(p, m) PROVE ShapeOf(p)'
    <3>1. push'[p] = [pc |-> "received", msg |-> m]
      BY <1>1, <2>1 DEF Deliver
    <3>2. StepOf(m) \in Step /\ sent[StepOf(m)] > 0
      <4>1. m[2] \in 1..MaxCopies /\ StepOf(m) \in Step
        BY MessageOfStep
      <4>2. m[2] <= sent[StepOf(m)] /\ sent[StepOf(m)] \in 0..MaxCopies
        BY <1>1, <2>1, <4>1, Types DEF Deliver, Typed
      <4> QED
        BY <4>1, <4>2, BoundsAssumption
    <3> QED
      BY <3>1, <3>2, SentGrows DEF ShapeOf
  <2>2. CASE Receive(p)
    BY <2>2, ShapeMoves DEF Receive, AfterWorkflow
  <2>3. ASSUME NEW completed \in BOOLEAN, WorkflowEnds(p, completed) PROVE ShapeOf(p)'
    BY <2>3, ShapeMoves DEF WorkflowEnds, AfterWorkflow
  <2>4. CASE LookForFirst(p)
    <3>1. push[p].pc # "idle" /\ k(p) = 1
      BY <1>1, <2>4 DEF LookForFirst, ShapeOf
    <3> QED
      BY <2>4, <3>1, ShapeMoves DEF LookForFirst
  <2>5. CASE CreateFirst(p)
    BY <1>3, <2>5, ShapeMoves DEF CreateFirst
  <2>6. CASE FailCampaign(p)
    <3>1. CASE Ack(p)
      BY <1>4, <3>1
    <3>2. CASE ~Ack(p)
      <4>1. /\ AtStep(k(p)) /\ campaign' = [campaign EXCEPT !.status = "FAILED"]
            /\ Goto(p, "failStep") /\ push[p].pc = "fail"
        BY <2>6, <3>2 DEF FailCampaign
      <4>2. campaign'.status = "FAILED" /\ campaign'.current = k(p)
        BY <1>1, <4>1, Types DEF Typed, CampaignRows, AtStep
      <4> QED
        BY <4>1, <4>2, ShapeMoves
    <3> QED
      BY <3>1, <3>2
  <2>7. CASE FailStep(p)
    BY <1>4, <2>7 DEF FailStep
  <2>8. CASE CompleteAndPrepareNext(p)
    <3>1. CASE Ack(p)
      BY <1>4, <3>1
    <3>2. CASE ~Ack(p)
      <4>1. k(p) # TotalSteps /\ Goto(p, "publish") /\ push[p].pc = "complete"
        BY <2>8, <3>2, Completions
      <4>2. k(p) < TotalSteps
        BY <1>1, <4>1, StepNumbers
      <4> QED
        BY <4>1, <4>2, ShapeMoves
    <3> QED
      BY <3>1, <3>2
  <2>9. CASE PublishNext(p)
    <3>1. push[p].pc = "publish" /\ Publish(k(p) + 1) /\ Goto(p, "mark")
      BY <2>9 DEF PublishNext
    <3>2. k(p) < TotalSteps
      BY <1>1, <3>1 DEF ShapeOf
    <3>3. k(p) + 1 \in Step
      BY <1>1, <3>2, StepNumbers
    <3>4. sent'[k(p) + 1] > 0
      BY <1>1, <3>1, <3>3, Types, PublishTyped DEF Typed
    <3> QED
      BY <3>1, <3>2, <3>4, ShapeMoves
  <2>10. CASE MarkNext(p)
    BY <1>4, <2>10 DEF MarkNext
  <2>11. CASE PushFails(p)
    BY <1>3, <2>11 DEF PushFails
  <2> QED
    BY <1>5, <2>1, <2>2, <2>3, <2>4, <2>5, <2>6, <2>7, <2>8, <2>9, <2>10, <2>11
       DEF PushNext, PushStep
<1>6. ASSUME NEW p \in Push, PushNext(p), NEW q \in Push, q # p PROVE push'[q] = push[q]
  <2>1. CASE CompleteAndPrepareNext(p)
    BY <1>1, <1>6, <2>1, Completions DEF Goto, Ack
  <2> QED
    BY <1>1, <1>6, <2>1 DEF PushNext, PushStep, Deliver, Receive, WorkflowEnds, LookForFirst,
       CreateFirst, FailCampaign, FailStep, PublishNext, MarkNext, PushFails, Goto, Ack
<1>7. ASSUME NEW p \in Push, PushNext(p) PROVE \A q \in Push : ShapeOf(q)'
  BY <1>5, <1>6, <1>7, ShapeStays
<1>8. CASE UNCHANGED push
  BY <1>8, ShapeStays DEF PushShape, ShapeOf
<1>9. ASSUME NEW s \in Sweeper, SweepStep(s) \/ SweepFails(s) PROVE UNCHANGED push
  BY <1>9 DEF SweepStep, SweepFails, ListResumable, ClaimPublication, PublishClaimed, MarkClaimed
<1>10. ASSUME NEW o \in Operator, OperatorNext(o) PROVE UNCHANGED push
  BY <1>10 DEF OperatorNext, Start, PublishFirst, PublishFirstFails
<1>11. ASSUME NEW j \in Step, ClaimExpires(j) PROVE UNCHANGED push
  BY <1>11 DEF ClaimExpires
<1>12. CASE \A q \in Push : ShapeOf(q)'
  BY <1>12 DEF PushShape, ShapeOf
<1> QED
  BY <1>7, <1>8, <1>9, <1>10, <1>11, <1>12 DEF Next, vars

LEMMA SweepShapeKept == ASSUME CampaignInv, [Next]_vars PROVE SweepShape'
<1>1. sweep \in [Sweeper -> SweepRows] /\ SweepShape /\ sent \in [Step -> 0..MaxCopies]
  BY Types DEF CampaignInv, Typed
<1>2. \A s \in Sweeper : sweep[s].step \in Step
  BY <1>1 DEF SweepRows
<1>3. CASE UNCHANGED sweep
  BY <1>1, <1>2, <1>3, SentGrows DEF SweepShape
<1>4. ASSUME NEW s \in Sweeper, SweepStep(s) \/ SweepFails(s) PROVE SweepShape'
  <2>1. \A t \in Sweeper : t # s => sweep'[t] = sweep[t]
    BY <1>1, <1>4 DEF SweepStep, SweepFails, ListResumable, ClaimPublication, PublishClaimed, MarkClaimed
  <2>2. sweep'[s].pc = "mark" => sent'[sweep'[s].step] > 0
    <3>1. CASE PublishClaimed(s)
      <4>1. sweep'[s].step = sweep[s].step
        BY <1>1, <3>1 DEF PublishClaimed, SweepRows
      <4>2. sent'[sweep[s].step] > 0
        BY <1>1, <1>2, <3>1, PublishTyped DEF PublishClaimed
      <4> QED
        BY <4>1, <4>2
    <3>2. CASE ListResumable(s) \/ MarkClaimed(s) \/ SweepFails(s)
      BY <1>1, <3>2, IdleRows DEF ListResumable, MarkClaimed, SweepFails, SweepRows
    <3>3. CASE ClaimPublication(s)
      <4>1. sweep'[s] = IdleSweep \/ \E k \in Step : sweep'[s] = Claimed(k)
        BY <1>1, <3>3 DEF ClaimPublication
      <4>2. \A k \in Step : Claimed(k).pc = "publish"
        BY DEF Claimed
      <4>3. sweep'[s].pc # "mark"
        BY <4>1, <4>2, IdleRows
      <4> QED
        BY <4>3
    <3> QED
      BY <1>4, <3>1, <3>2, <3>3 DEF SweepStep
  <2> QED
    BY <1>1, <1>2, <2>1, <2>2, SentGrows DEF SweepShape
<1>5. ASSUME NEW p \in Push, PushNext(p) PROVE UNCHANGED sweep
  <2>1. CompleteAndPrepareNext(p) => UNCHANGED sweep
    BY Completions
  <2> QED
    BY <1>5, <2>1 DEF PushNext, PushStep, Deliver, Receive, WorkflowEnds, LookForFirst,
       CreateFirst, FailCampaign, FailStep, PublishNext, MarkNext, PushFails
<1>6. ASSUME NEW o \in Operator, OperatorNext(o) PROVE UNCHANGED sweep
  BY <1>6 DEF OperatorNext, Start, PublishFirst, PublishFirstFails
<1>7. ASSUME NEW k \in Step, ClaimExpires(k) PROVE UNCHANGED sweep
  BY <1>7 DEF ClaimExpires
<1> QED
  BY <1>3, <1>4, <1>5, <1>6, <1>7 DEF Next, vars

-----------------------------------------------------------------------------
(* The chain of the steps. *)

Chain == StepsChain /\ CurrentExists /\ PublishedWasSent

\* Steps that are neither absent nor complete may change among themselves.
LEMMA ChainStays ==
  ASSUME CampaignInv, [Next]_vars, UNCHANGED campaign,
         \A k \in Step :
           \/ step'[k].status = step[k].status
           \/ /\ step[k].status \notin {"NONE", "COMPLETED"}
              /\ step'[k].status \notin {"NONE", "COMPLETED"}
              /\ step'[k].status \in {"PUBLISHED", "FAILED"} => sent'[k] > 0
  PROVE  Chain'
<1>1. \A k \in Step : sent[k] > 0 => sent'[k] > 0
  BY SentGrows
<1>2. StepsChain'
  BY DEF CampaignInv, StepsChain
<1>3. CurrentExists'
  BY DEF CampaignInv, CurrentExists
<1>4. PublishedWasSent'
  BY <1>1 DEF CampaignInv, PublishedWasSent
<1> QED
  BY <1>2, <1>3, <1>4 DEF Chain

\* One row changes its status.
LEMMA OneStepChanges ==
  ASSUME CampaignInv, [Next]_vars, UNCHANGED campaign, NEW k \in Step, NEW row \in StepRows,
         step' = [step EXCEPT ![k] = row],
         step[k].status \notin {"NONE", "COMPLETED"}, row.status \notin {"NONE", "COMPLETED"},
         row.status \in {"PUBLISHED", "FAILED"} => sent'[k] > 0
  PROVE  Chain'
<1>1. step'[k] = row /\ \A j \in Step : j # k => step'[j] = step[j]
  BY Types DEF CampaignInv, Typed
<1> QED
  BY <1>1, ChainStays

LEMMA MarkKeepsChain ==
  ASSUME CampaignInv, [Next]_vars, UNCHANGED campaign, NEW k \in Step, NEW owner,
         MarkPublished(k, owner), sent[k] > 0
  PROVE  Chain'
<1>1. CASE Marked(k, owner)
  <2> DEFINE row == [NoStep EXCEPT !.status = "PUBLISHED"]
  <2>1. row \in StepRows /\ row.status = "PUBLISHED"
    BY IdleRows DEF StepRows, StepStatus
  <2>2. step' = [step EXCEPT ![k] = row] /\ step[k].status \in {"READY", "PUBLISHING"}
    BY <1>1 DEF MarkPublished, Marked
  <2> HIDE DEF row
  <2> QED
    BY <2>1, <2>2, OneStepChanges, SentGrows
<1>2. CASE ~Marked(k, owner)
  BY <1>2, ChainStays DEF MarkPublished
<1> QED
  BY <1>1, <1>2

LEMMA ChainKept == ASSUME CampaignInv, [Next]_vars PROVE Chain'
<1> DEFINE k(p) == StepOf(push[p].msg)
<1>1. /\ TypeOK /\ campaign \in CampaignRows /\ step \in [Step -> StepRows]
      /\ StepsChain /\ CurrentExists /\ PublishedWasSent
      /\ \A p \in Push : ShapeOf(p) /\ k(p) \in Step
  BY Types, GotoTyped DEF CampaignInv, PushShape, ShapeOf, Typed
<1>2. CASE UNCHANGED <<campaign, step>>
  BY <1>2, ChainStays
<1>3. ASSUME NEW o \in Operator, OperatorNext(o) PROVE Chain'
  <2>1. CASE Start(o) /\ campaign.status = "NONE"
    <3>1. campaign.current = 0 /\ campaign' = [status |-> "RUNNING", current |-> 0]
      BY <1>1, <2>1 DEF Start, StepsChain
    <3>2. step' = step /\ sent' = sent /\ 0 \notin Step
      BY <2>1, TotalStepsAssumption DEF Start, Step
    <3> QED
      BY <1>1, <3>1, <3>2, StepNumbers DEF Chain, StepsChain, CurrentExists, PublishedWasSent
  <2> QED
    BY <1>2, <1>3, <2>1 DEF OperatorNext, Start, PublishFirst, PublishFirstFails
<1>4. ASSUME NEW p \in Push, CreateFirst(p), step[1].status = "NONE" PROVE Chain'
  <2>1. campaign.current = 0 /\ campaign.status = "RUNNING"
    <3>1. k(p) = 1 /\ sent[1] > 0
      BY <1>1, <1>4 DEF CreateFirst, ShapeOf
    <3>2. campaign.status # "NONE"
      BY <3>1, StepNumbers DEF CampaignInv, StartedBefore
    <3>3. campaign.current \in 0..TotalSteps /\ campaign.current \notin Step
      BY <1>1, <1>4, StepNumbers, TotalStepsAssumption
         DEF CampaignRows, StepsChain, CurrentExists, Step
    <3> QED
      BY <1>1, <3>2, <3>3, TotalStepsAssumption DEF CampaignRows, StepsChain, Step
  <2>2. campaign' = [status |-> "RUNNING", current |-> 1]
    BY <1>1, <1>4, <2>1 DEF CreateFirst, CampaignRows
  <2>3. step'[1].status = "PUBLISHED" /\ \A j \in Step : j # 1 => step'[j] = step[j]
    BY <1>1, <1>4, StepNumbers DEF CreateFirst, StepRows
  <2>4. sent[1] > 0 /\ sent' = sent
    BY <1>1, <1>4 DEF CreateFirst, ShapeOf
  <2>5. \A j \in Step : j # 1 => j > 1 /\ step[j].status = "NONE"
    BY <1>1, <2>1, TotalStepsAssumption DEF StepsChain, Step
  <2> QED
    BY <2>2, <2>3, <2>4, <2>5, StepNumbers DEF Chain, StepsChain, CurrentExists, PublishedWasSent
<1>5. ASSUME NEW p \in Push, FailCampaign(p) PROVE Chain'
  <2>1. CASE AtStep(k(p)) /\ campaign' = [campaign EXCEPT !.status = "FAILED"]
    <3>1. campaign' = [status |-> "FAILED", current |-> k(p)] /\ step' = step /\ sent' = sent
      BY <1>1, <1>5, <2>1 DEF FailCampaign, AtStep, CampaignRows
    <3>2. campaign.status = "RUNNING" /\ campaign.current = k(p)
      BY <2>1 DEF AtStep
    <3> QED
      BY <1>1, <3>1, <3>2 DEF Chain, StepsChain, CurrentExists, PublishedWasSent
  <2> QED
    BY <1>2, <1>5, <2>1 DEF FailCampaign
<1>6. ASSUME NEW p \in Push, FailStep(p) PROVE Chain'
  <2> DEFINE row == [step[k(p)] EXCEPT !.status = "FAILED"]
  <2>1. row \in StepRows /\ row.status = "FAILED" /\ step' = [step EXCEPT ![k(p)] = row]
    BY <1>1, <1>6 DEF FailStep, StepRows, StepStatus
  <2>2. campaign.status = "FAILED" /\ campaign.current = k(p) /\ sent[k(p)] > 0
    BY <1>1, <1>6 DEF FailStep, ShapeOf
  <2>3. step[k(p)].status \notin {"NONE", "COMPLETED"}
    BY <1>1, <2>2 DEF StepsChain, CurrentExists
  <2>4. UNCHANGED <<campaign, sent>>
    BY <1>6 DEF FailStep
  <2> HIDE DEF row
  <2> QED
    BY <1>1, <2>1, <2>2, <2>3, <2>4, OneStepChanges
<1>7. ASSUME NEW p \in Push, CompleteAndPrepareNext(p) PROVE Chain'
  <2> DEFINE n == k(p)
  <2>1. n \in Step /\ n \in Nat
    BY <1>1, StepNumbers
  <2>2. Settled(n)[n].status = "COMPLETED" /\ \A j \in Step : j # n => Settled(n)[j] = step[j]
    BY <1>1, <2>1 DEF Settled, NoStep
  <2>3. Settled(n) \in [Step -> StepRows]
    BY <1>1, <2>1, IdleRows DEF Settled, StepRows, StepStatus
  <2>4. sent' = sent /\ sent[n] > 0
    BY <1>1, <1>7, Completions DEF ShapeOf
  <2>5. CASE NotCurrent(n)
    BY <1>2, <1>7, <2>5, Completions
  <2>6. CASE ~NotCurrent(n) /\ n = TotalSteps
    <3>1. campaign.status = "RUNNING" /\ campaign.current = n
      BY <2>6 DEF NotCurrent, AtStep
    <3>2. step' = Settled(n) /\ campaign' = [status |-> "COMPLETED", current |-> n]
      BY <1>1, <1>7, <2>6, <3>1, Completions DEF CampaignRows
    <3> HIDE DEF n
    <3> QED
      BY <1>1, <2>1, <2>2, <2>4, <2>6, <3>1, <3>2 DEF Chain, StepsChain, CurrentExists, PublishedWasSent
  <2>7. CASE ~NotCurrent(n) /\ n # TotalSteps
    <3>1. campaign.status = "RUNNING" /\ campaign.current = n
      BY <2>7 DEF NotCurrent, AtStep
    <3>2. /\ step' = [Settled(n) EXCEPT ![n + 1].status = "READY"]
          /\ campaign' = [status |-> "RUNNING", current |-> n + 1]
      BY <1>1, <1>7, <2>7, <3>1, Completions DEF CampaignRows
    <3>3. n + 1 \in Step /\ n + 1 > n
      BY <2>1, <2>7, StepNumbers
    <3> HIDE DEF n
    <3>4. /\ step'[n + 1].status = "READY" /\ step'[n].status = "COMPLETED"
          /\ \A j \in Step : j # n /\ j # n + 1 => step'[j] = step[j]
      BY <2>1, <2>2, <2>3, <3>2, <3>3 DEF StepRows
    <3>5. \A j \in Step : (j < n + 1 /\ j # n => j < n) /\ (j > n + 1 => j > n /\ j # n)
      BY <2>1, StepNumbers
    <3>6. StepsChain'
      BY <1>1, <3>1, <3>2, <3>3, <3>4, <3>5, <2>1 DEF StepsChain
    <3>7. CurrentExists'
      BY <3>2, <3>4 DEF CurrentExists
    <3>8. PublishedWasSent'
      BY <1>1, <2>4, <3>4 DEF PublishedWasSent
    <3> QED
      BY <3>6, <3>7, <3>8 DEF Chain
  <2> QED
    BY <2>5, <2>6, <2>7
<1>8. ASSUME NEW p \in Push, MarkNext(p) PROVE Chain'
  <2>1. k(p) < TotalSteps /\ sent[k(p) + 1] > 0
    BY <1>1, <1>8 DEF MarkNext, ShapeOf
  <2>2. k(p) + 1 \in Step /\ MarkPublished(k(p) + 1, Nobody) /\ UNCHANGED campaign
    BY <1>1, <1>8, <2>1, StepNumbers DEF MarkNext
  <2> QED
    BY <2>1, <2>2, MarkKeepsChain
<1>9. ASSUME NEW p \in Push, PushNext(p) PROVE Chain'
  BY <1>2, <1>4, <1>5, <1>6, <1>7, <1>8, <1>9 DEF PushNext, PushStep, Deliver, Receive,
     WorkflowEnds, LookForFirst, CreateFirst, PublishNext, PushFails
<1>10. ASSUME NEW s \in Sweeper, ClaimPublication(s) PROVE Chain'
  <2>1. CASE UNCHANGED step
    BY <1>2, <1>10, <2>1 DEF ClaimPublication
  <2>2. ASSUME NEW j \in Step, Claimable(j),
               step' = [step EXCEPT ![j] = [status |-> "PUBLISHING", owner |-> s, expired |-> FALSE]]
        PROVE  Chain'
    <3> DEFINE row == [status |-> "PUBLISHING", owner |-> s, expired |-> FALSE]
    <3>1. row \in StepRows /\ row.status = "PUBLISHING" /\ step' = [step EXCEPT ![j] = row]
      BY <2>2 DEF StepRows, StepStatus
    <3>2. step[j].status \in {"READY", "PUBLISHING"} /\ UNCHANGED campaign
      BY <1>10, <2>2 DEF Claimable, Unpublished, ClaimPublication
    <3> HIDE DEF row
    <3> QED
      BY <3>1, <3>2, OneStepChanges
  <2> QED
    BY <1>10, <2>1, <2>2 DEF ClaimPublication
<1>11. ASSUME NEW s \in Sweeper, MarkClaimed(s) PROVE Chain'
  <2>1. sweep[s].step \in Step /\ sent[sweep[s].step] > 0
    BY <1>11, <1>1, Types DEF MarkClaimed, CampaignInv, SweepShape, Typed, SweepRows
  <2> QED
    BY <1>11, <2>1, MarkKeepsChain DEF MarkClaimed
<1>12. ASSUME NEW s \in Sweeper, SweepStep(s) \/ SweepFails(s) PROVE Chain'
  BY <1>2, <1>10, <1>11, <1>12 DEF SweepStep, SweepFails, ListResumable, PublishClaimed
<1>13. ASSUME NEW j \in Step, ClaimExpires(j) PROVE Chain'
  <2>1. \A i \in Step : step'[i].status = step[i].status
    BY <1>1, <1>13 DEF ClaimExpires, StepRows
  <2> QED
    BY <1>13, <2>1, ChainStays DEF ClaimExpires
<1>14. CASE UNCHANGED vars
  BY <1>2, <1>14 DEF vars
<1> QED
  BY <1>3, <1>9, <1>12, <1>13, <1>14 DEF Next

-----------------------------------------------------------------------------
(* Theorems. *)

LEMMA InitInv == Init => CampaignInv
<1> SUFFICES ASSUME Init PROVE CampaignInv
  OBVIOUS
<1>1. TypeOK
  BY IdleRows, Types, BoundsAssumption, TotalStepsAssumption DEF Init, Typed, CampaignRows
<1>2. StepsChain /\ CurrentExists
  BY TotalStepsAssumption DEF Init, StepsChain, CurrentExists, NoStep, Step
<1>3. PublishedWasSent
  BY DEF Init, PublishedWasSent, NoStep
<1>4. StartedBefore /\ PushShape /\ SweepShape
  BY IdleRows DEF Init, StartedBefore, PushShape, SweepShape
<1> QED
  BY <1>1, <1>2, <1>3, <1>4 DEF CampaignInv

\* The inductive invariant of the campaign (campaign-repository.ts).
THEOREM CampaignInvariant == Spec => []CampaignInv
<1>1. CampaignInv /\ [Next]_vars => CampaignInv'
  BY TypeKept, StartedKept, PushShapeKept, SweepShapeKept, ChainKept DEF CampaignInv, Chain
<1> QED
  BY <1>1, InitInv, PTL DEF Spec

\* Every variable keeps its type.
THEOREM CampaignTypes == Spec => []TypeOK
BY CampaignInvariant, PTL DEF CampaignInv

\* The steps form a chain, whatever deliveries, copies and sweeps worked on the same step
\* (completeAndPrepareNext, ensureInitialStep, failCampaign, markPublished).
THEOREM ChainOfSteps == Spec => []StepsChain
BY CampaignInvariant, PTL DEF CampaignInv

\* Nothing is marked published before it was sent (publish, resume).
THEOREM SentBeforeMarked == Spec => []PublishedWasSent
BY CampaignInvariant, PTL DEF CampaignInv

\* The campaign's row implements CampaignProgress: it starts once, takes its steps one by
\* one, and ends once.
THEOREM RefinesProgress == Spec => ImplementsProgress
<1> DEFINE Takes == Progress!Begin \/ Progress!Advance \/ Progress!Finish \/ Progress!Break
<1>1. CampaignInv /\ [Next]_vars => [Takes]_(Progress!progressVars)
  <2> SUFFICES ASSUME CampaignInv, [Next]_vars PROVE [Takes]_(Progress!progressVars)
    OBVIOUS
  <2> USE DEF Progress!Begin, Progress!Advance, Progress!Finish, Progress!Break, Progress!progressVars
  <2>1. campaign \in CampaignRows /\ (campaign.status = "NONE" => campaign.current = 0)
    BY Types DEF CampaignInv, Typed, StepsChain
  <2>2. CASE campaign' = campaign
    BY <2>2
  <2>3. CASE campaign.status = "NONE" /\ campaign' = [status |-> "RUNNING", current |-> 0]
    BY <2>1, <2>3
  <2>4. CASE /\ campaign.status = "RUNNING" /\ campaign.current < TotalSteps
             /\ campaign' = [campaign EXCEPT !.current = campaign.current + 1]
    BY <2>1, <2>4 DEF CampaignRows
  <2>5. CASE /\ campaign.status = "RUNNING" /\ campaign.current = TotalSteps
             /\ campaign' = [campaign EXCEPT !.status = "COMPLETED"]
    BY <2>1, <2>5 DEF CampaignRows
  <2>6. CASE /\ campaign.status = "RUNNING" /\ campaign.current \in Step
             /\ campaign' = [campaign EXCEPT !.status = "FAILED"]
    BY <2>1, <2>6, StepNumbers DEF CampaignRows
  <2> QED
    BY <2>2, <2>3, <2>4, <2>5, <2>6, CampaignSteps DEF CampaignStep
<1>2. Init => campaign.status = "NONE" /\ campaign.current = 0
  BY DEF Init
<1> QED
  BY <1>1, <1>2, CampaignInvariant, PTL DEF Spec, ImplementsProgress, Progress!ProgressSpec
=============================================================================
