---------------------------- MODULE EventDelivery ----------------------------
(***************************************************************************)
(* The way of an event into the worker.  The API stores an event and       *)
(* publishes it; the broker pushes the message to the worker until it is   *)
(* acknowledged, and hands it to the dead-letter subscription when its     *)
(* deliveries are exhausted; the worker writes a receipt and runs the      *)
(* workflow, or quarantines what it cannot read; an operator publishes a   *)
(* dead letter again, as a new message.                                    *)
(*                                                                         *)
(* Source: apps/worker/src/integrations/pubsub-push-handler.ts,            *)
(* apps/worker/src/orchestration/autonomous-workflow.ts,                   *)
(* apps/api/src/services/{event,dead-letter}-service.ts,                   *)
(* packages/database/src/repositories/autonomous-workflow-repository.ts.   *)
(* The broker is external; it is configured in                             *)
(* infrastructure/terraform/modules/pubsub/main.tf.                        *)
(*                                                                         *)
(* What the tools of a workflow do is the subject of ToolGateway.          *)
(***************************************************************************)
EXTENDS Naturals

CONSTANTS
  Event,          \* events that clients submit
  Transport,      \* message ids, drawn when a message is published
  None,           \* no event, no message
  Push,           \* push requests that the worker may handle at a time
  Replay,         \* replay requests that may overlap
  MaxDeliveries,  \* max_delivery_attempts of the subscription
  MaxFaults       \* bound on failed calls, lost answers and crashes

ASSUME NoneAssumption == None \notin Event \cup Transport
ASSUME BoundsAssumption == MaxDeliveries \in Nat \ {0} /\ MaxFaults \in Nat

VARIABLES
  events,    \* rows of intrusion_events
  message,   \* the messages of both subscriptions
  progress,  \* of each message: its ingestion receipt, workflow and delivery attempt
  letter,    \* dead_letter_records by original message id, each with its replay attempt
  push,      \* push requests in progress
  replay,    \* replay requests in progress
  faults

vars == <<events, message, progress, letter, push, replay, faults>>

\* What the schemas make of a message: an event, an envelope whose payload is none, or
\* not even an envelope, as when it has no data.
Forms == {"event", "payload", "envelope"}

\* from: the dead letter whose replay published the message.
Unsent == [event |-> None, form |-> "envelope", place |-> "unsent", tries |-> 0, from |-> None]
NoLetter == [status |-> "NONE", sent |-> None]
IdlePush == [pc |-> "idle", msg |-> None, sub |-> "topic"]
IdleReplay == [pc |-> "idle", id |-> None, sent |-> None]

Init ==
  /\ events = {}
  /\ message = [m \in Transport |-> Unsent]
  /\ progress = [m \in Transport |-> "none"]
  /\ letter = [m \in Transport |-> NoLetter]
  /\ push = [p \in Push |-> IdlePush]
  /\ replay = [r \in Replay |-> IdleReplay]
  /\ faults = 0

Fault == faults < MaxFaults /\ faults' = faults + 1

Send(m, e, form, from) ==
  /\ message[m].place = "unsent"
  /\ message' = [message EXCEPT ![m] =
       [event |-> e, form |-> form, place |-> "topic", tries |-> 0, from |-> from]]

-----------------------------------------------------------------------------
(* Publishers. *)

\* createAutonomousScenario: the row, which a retry finds already there ...
CreateScenario(e) ==
  /\ e \notin events
  /\ events' = events \cup {e}
  /\ UNCHANGED <<message, progress, letter, push, replay, faults>>

\* ... and then the message; a client that got no answer asks for it again.
PublishScenario(e, m) ==
  /\ e \in events
  /\ Send(m, e, "event", None)
  /\ UNCHANGED <<events, progress, letter, push, replay, faults>>

\* Something the schemas reject: a payload, which may carry the UUID of some event, or
\* the whole envelope, in which nobody looks for one.
PublishPoison(e, m) ==
  /\ \/ Send(m, e, "payload", None)
     \/ e = None /\ Send(m, e, "envelope", None)
  /\ UNCHANGED <<events, progress, letter, push, replay, faults>>

-----------------------------------------------------------------------------
(* The broker: at least once.  A message is also pushed again while an     *)
(* earlier push is still worked on, when that exceeds the deadline.        *)

\* The handler first parses: what is not an event goes straight to quarantine.
Deliver(p, m) ==
  /\ push[p].pc = "idle"
  /\ message[m].place = "topic" /\ message[m].tries < MaxDeliveries
  /\ message' = [message EXCEPT ![m].tries = @ + 1]
  /\ push' = [push EXCEPT ![p] =
       [pc |-> IF message[m].form = "event" THEN "received" ELSE "quarantine", msg |-> m, sub |-> "topic"]]
  /\ UNCHANGED <<events, progress, letter, replay, faults>>

\* The deliveries are exhausted.
Forward(m) ==
  /\ message[m].place = "topic" /\ message[m].tries = MaxDeliveries
  /\ message' = [message EXCEPT ![m].place = "dead"]
  /\ UNCHANGED <<events, progress, letter, push, replay, faults>>

\* handleDeadLetterRequest records whatever it is given, an event as well, if it can read
\* the envelope; its subscription retries without a limit.
DeliverDead(p, m) ==
  /\ push[p].pc = "idle"
  /\ message[m].place = "dead"
  /\ push' = [push EXCEPT ![p] = [pc |-> "quarantine", msg |-> m, sub |-> "dead"]]
  /\ UNCHANGED <<events, message, progress, letter, replay, faults>>

-----------------------------------------------------------------------------
(* The push handler. *)

Done(p) == push' = [push EXCEPT ![p] = IdlePush]

\* It says nothing to the broker once the message has moved on.
Ack(p) ==
  message' = [message EXCEPT ![push[p].msg].place = IF @ = push[p].sub THEN "acked" ELSE @]

\* 200; the answer may come too late or not at all.
Answer(p) ==
  /\ Done(p)
  /\ \/ Ack(p) /\ UNCHANGED faults
     \/ Fault /\ UNCHANGED message

AcceptAlways(p) ==   \* mutant: the unique key of the receipts is missing
  LET m == push[p].msg IN
  /\ push[p].pc = "received"
  /\ message[m].event \in events
  /\ progress' = [progress EXCEPT ![m] = "accepted"]
  /\ push' = [push EXCEPT ![p].pc = "working"]
  /\ UNCHANGED <<events, message, letter, replay, faults>>

\* recordIngestionReceipt makes the row: the workflow runs.
Accept(p) ==
  LET m == push[p].msg IN
  /\ push[p].pc = "received"
  /\ progress[m] = "none"
  /\ message[m].event \in events
  /\ progress' = [progress EXCEPT ![m] = "accepted"]
  /\ push' = [push EXCEPT ![p].pc = "working"]
  /\ UNCHANGED <<events, message, letter, replay, faults>>

\* ... or finds it: a duplicate, acknowledged without any work.
SkipDuplicate(p) ==
  /\ push[p].pc = "received"
  /\ progress[push[p].msg] # "none"
  /\ Answer(p)
  /\ UNCHANGED <<events, progress, letter, replay>>

\* Analysis, policy and tools have run, or a tool failed: both end the workflow.
Work(p) ==
  /\ push[p].pc = "working"
  /\ progress' = [progress EXCEPT ![push[p].msg] = "worked"]
  /\ push' = [push EXCEPT ![p].pc = "reporting"]
  /\ UNCHANGED <<events, message, letter, replay, faults>>

\* recordDeliveryAttempt, and the answer.
Report(p) ==
  /\ push[p].pc = "reporting"
  /\ progress' = [progress EXCEPT ![push[p].msg] = "reported"]
  /\ Answer(p)
  /\ UNCHANGED <<events, letter, replay>>

\* The foreign key of dead_letter_records: the event is absent or has a row.
Storable(m) == message[m].event \in events \cup {None}

\* A rejected envelope is stored under an id made up from its text, one for each delivery
\* attempt that differs (none is ever replayed), but not by handleDeadLetterRequest, which
\* answers 503 before it stores anything.
Recordable(p) ==
  LET m == push[p].msg IN
  /\ Storable(m)
  /\ push[p].sub = "dead" => message[m].form # "envelope"

StoreAnew(m) ==   \* mutant: a second delivery overwrites the record
  letter' = [letter EXCEPT ![m] = [status |-> "AVAILABLE", sent |-> None]]

\* recordDeadLetter leaves a record that exists as it is.
Store(m) ==
  letter' = [letter EXCEPT ![m] = IF @.status = "NONE"
                                   THEN [status |-> "AVAILABLE", sent |-> None] ELSE @]

QuarantineAlways(p) ==   \* mutant: a failure to store is swallowed
  /\ push[p].pc = "quarantine"
  /\ IF Recordable(p) THEN Store(push[p].msg) ELSE UNCHANGED letter
  /\ Answer(p)
  /\ UNCHANGED <<events, progress, replay>>

QuarantineOnce(p) ==   \* mutant: a record that exists is an error
  /\ push[p].pc = "quarantine"
  /\ IF Recordable(p) /\ letter[push[p].msg].status = "NONE"
     THEN Store(push[p].msg) /\ Answer(p)
     ELSE Done(p) /\ UNCHANGED <<message, letter, faults>>
  /\ UNCHANGED <<events, progress, replay>>

\* tryQuarantinePoisonMessage, persistBrokerDeadLetter: 200 when stored, else 503.
Quarantine(p) ==
  /\ push[p].pc = "quarantine"
  /\ IF Recordable(p)
     THEN Store(push[p].msg) /\ Answer(p)
     ELSE Done(p) /\ UNCHANGED <<message, letter, faults>>
  /\ UNCHANGED <<events, progress, replay>>

\* A database call throws: 500 or 503.  Or the worker dies.
PushFails(p) ==
  /\ push[p].pc # "idle"
  /\ Fault
  /\ Done(p)
  /\ UNCHANGED <<events, message, progress, letter, replay>>

-----------------------------------------------------------------------------
(* DeadLetterService.replayRecord. *)

ReplayEnds(r) == replay' = [replay EXCEPT ![r] = IdleReplay]

\* The record is read, and its payload is an event.
ReplayRead(r, d) ==
  /\ replay[r].pc = "idle"
  /\ letter[d].status = "AVAILABLE" /\ message[d].form = "event"
  /\ replay' = [replay EXCEPT ![r] = [pc |-> "claim", id |-> d, sent |-> None]]
  /\ UNCHANGED <<events, message, progress, letter, push, faults>>

ClaimAlways(r) ==   \* mutant: the claim relies on what was read before
  LET d == replay[r].id IN
  /\ replay[r].pc = "claim"
  /\ letter' = [letter EXCEPT ![d].status = "REPLAYING"]
  /\ replay' = [replay EXCEPT ![r].pc = "publish"]
  /\ UNCHANGED <<events, message, progress, push, faults>>

\* claimDeadLetterForReplay; the replay attempt is CLAIMED while the record is REPLAYING.
Claim(r) ==
  LET d == replay[r].id IN
  /\ replay[r].pc = "claim"
  /\ IF letter[d].status = "AVAILABLE"
     THEN /\ letter' = [letter EXCEPT ![d].status = "REPLAYING"]
          /\ replay' = [replay EXCEPT ![r].pc = "publish"]
     ELSE ReplayEnds(r) /\ UNCHANGED letter
  /\ UNCHANGED <<events, message, progress, push, faults>>

\* The publisher returns the id of the new message.
PublishReplay(r, m) ==
  LET d == replay[r].id IN
  /\ replay[r].pc = "publish"
  /\ Send(m, message[d].event, "event", d)
  /\ replay' = [replay EXCEPT ![r].pc = "complete", ![r].sent = m]
  /\ UNCHANGED <<events, progress, letter, push, faults>>

PublishUnheardCompletes(r, m) ==   \* mutant: an error of the publisher is ignored
  /\ replay[r].pc = "publish"
  /\ Fault
  /\ UNCHANGED message
  /\ replay' = [replay EXCEPT ![r].pc = "complete", ![r].sent = m]
  /\ UNCHANGED <<events, progress, letter, push>>

\* It throws, after the message was sent or without sending it.
PublishUnheard(r, m) ==
  LET d == replay[r].id IN
  /\ replay[r].pc = "publish"
  /\ Fault
  /\ Send(m, message[d].event, "event", d) \/ UNCHANGED message
  /\ replay' = [replay EXCEPT ![r].pc = "fail"]
  /\ UNCHANGED <<events, progress, letter, push>>

\* completeReplayClaim; its answer may be lost after it took effect.
Complete(r) ==
  LET d == replay[r].id IN
  /\ replay[r].pc = "complete"
  /\ IF letter[d].status = "REPLAYING"
     THEN /\ letter' = [letter EXCEPT ![d] = [status |-> "REPLAYED", sent |-> replay[r].sent]]
          /\ \/ ReplayEnds(r) /\ UNCHANGED faults
             \/ replay' = [replay EXCEPT ![r].pc = "fail"] /\ Fault
     ELSE replay' = [replay EXCEPT ![r].pc = "fail"] /\ UNCHANGED <<letter, faults>>
  /\ UNCHANGED <<events, message, progress, push>>

\* It throws and nothing was written.
CompleteFails(r) ==
  /\ replay[r].pc = "complete"
  /\ Fault
  /\ replay' = [replay EXCEPT ![r].pc = "fail"]
  /\ UNCHANGED <<events, message, progress, letter, push>>

\* failReplayClaim: only while the attempt is CLAIMED.
Fail(r) ==
  LET d == replay[r].id IN
  /\ replay[r].pc = "fail"
  /\ IF letter[d].status = "REPLAYING"
     THEN letter' = [letter EXCEPT ![d].status = "REVIEW_REQUIRED"]
     ELSE UNCHANGED letter
  /\ ReplayEnds(r)
  /\ UNCHANGED <<events, message, progress, push, faults>>

\* The API dies, or the database refuses failReplayClaim.
ReplayDies(r) ==
  /\ replay[r].pc # "idle"
  /\ Fault
  /\ ReplayEnds(r)
  /\ UNCHANGED <<events, message, progress, letter, push>>

-----------------------------------------------------------------------------
HandlerStep(p) ==
  \/ Accept(p) \/ SkipDuplicate(p) \/ Work(p) \/ Report(p)
  \/ Quarantine(p)

ReplayStep(r) ==
  \/ \E d \in Transport : ReplayRead(r, d) \/ PublishReplay(r, d) \/ PublishUnheard(r, d)
  \/ Claim(r) \/ Complete(r) \/ CompleteFails(r) \/ Fail(r) \/ ReplayDies(r)

Next ==
  \/ \E e \in Event : CreateScenario(e)
  \/ \E m \in Transport :
       \/ \E e \in Event : PublishScenario(e, m)
       \/ \E e \in Event \cup {None} : PublishPoison(e, m)
       \/ Forward(m)
       \/ \E p \in Push : Deliver(p, m) \/ DeliverDead(p, m)
  \/ \E p \in Push : HandlerStep(p) \/ PushFails(p)
  \/ \E r \in Replay : ReplayStep(r)

Spec == Init /\ [][Next]_vars

\* Push requests run, and the broker keeps pushing the message m until it is
\* acknowledged, whatever it does with the others.
Pushed(m) ==
  /\ \A p \in Push : WF_vars(HandlerStep(p))
  /\ WF_vars(Forward(m))
  /\ SF_vars(\E p \in Push : Deliver(p, m))
  /\ SF_vars(\E p \in Push : DeliverDead(p, m))

-----------------------------------------------------------------------------
(* Properties. *)

Places == {"unsent", "topic", "dead", "acked"}
Messages ==
  [event : Event \cup {None}, form : Forms, place : Places,
   tries : 0 .. MaxDeliveries, from : Transport \cup {None}]
Claimed == {"REPLAYING", "REPLAYED", "REVIEW_REQUIRED"}
Letters ==
  [status : {"NONE", "AVAILABLE"} \cup Claimed, sent : Transport \cup {None}]

\* Every variable holds a value the schema and the code can write.
TypeOK ==
  /\ events \subseteq Event
  /\ message \in [Transport -> Messages]
  /\ progress \in [Transport -> {"none", "accepted", "worked", "reported"}]
  /\ letter \in [Transport -> Letters]
  /\ push \in [Push -> [pc : {"idle", "received", "working", "reporting", "quarantine"},
                        msg : Transport \cup {None}, sub : {"topic", "dead"}]]
  /\ replay \in [Replay -> [pc : {"idle", "claim", "publish", "complete", "fail"},
                            id : Transport \cup {None}, sent : Transport \cup {None}]]
  /\ faults \in 0 .. MaxFaults

InWorkflow(p) == push[p].pc \in {"working", "reporting"}

\* However often and however concurrently a message is pushed, one push runs its
\* workflow, and none once it has ended.
OneWorkflowPerMessage ==
  /\ \A p, q \in Push :
       InWorkflow(p) /\ InWorkflow(q) /\ push[p].msg = push[q].msg => p = q
  /\ \A p \in Push : push[p].pc = "working" => progress[push[p].msg] = "accepted"

\* The broker forgets no message of which the database knows nothing: an event has
\* its receipt or is a dead letter, and anything else is quarantined.
AckedIsRecorded ==
  \A m \in Transport : message[m].place = "acked" =>
    \/ message[m].form = "event" /\ progress[m] # "none"
    \/ letter[m].status # "NONE"

\* Whatever operators, crashes and unheard answers do, a dead letter is published
\* again at most once: nobody is about to publish what another one does or did.
OneReplayPerLetter ==
  /\ \A m, n \in Transport :
       message[m].from # None /\ message[m].from = message[n].from => m = n
  /\ \A r \in Replay : replay[r].pc = "publish" =>
       /\ \A m \in Transport : message[m].from # replay[r].id
       /\ \A q \in Replay : replay[q].pc = "publish" /\ replay[q].id = replay[r].id => q = r

\* What an operator reads is so: an AVAILABLE letter was never published again, and
\* the new message of a REPLAYED one exists and carries its event.
LetterTellsTruth ==
  \A d \in Transport :
    /\ letter[d].status \in {"NONE", "AVAILABLE"} =>
         \A m \in Transport : message[m].from # d
    /\ letter[d].status = "REPLAYED" =>
         /\ letter[d].sent \in Transport
         /\ message[letter[d].sent].from = d
         /\ message[letter[d].sent].event = message[d].event

\* A letter is never made available twice, and what was decided about it stays,
\* also when the broker delivers it once more.
LettersMoveForward ==
  [][\A d \in Transport :
       \/ letter'[d] = letter[d]
       \/ letter[d].status = "NONE" /\ letter'[d].status = "AVAILABLE"
       \/ letter[d].status = "AVAILABLE" /\ letter'[d].status = "REPLAYING"
       \/ letter[d].status = "REPLAYING" /\ letter'[d].status \in {"REPLAYED", "REVIEW_REQUIRED"}
    ]_vars

\* What the databases and the broker tell of each message, in terms of MessageFate.
Contents == [m \in Transport |-> [event |-> message[m].event, form |-> message[m].form]]
Standings == [m \in Transport |->
  IF message[m].place = "unsent" THEN "unsent"
  ELSE IF message[m].place = "acked" THEN "settled" ELSE "open"]
Works == [m \in Transport |->
  IF progress[m] = "none" THEN "none" ELSE IF progress[m] = "accepted" THEN "begun" ELSE "ended"]
Verdicts == [m \in Transport |-> letter[m].status]
Origins == [m \in Transport |-> message[m].from]

Fate == INSTANCE MessageFate WITH
  content <- Contents, standing <- Standings, work <- Works, verdict <- Verdicts, from <- Origins

\* However pushes overlap, handlers and operators race and answers are lost, the fate of
\* every message is one that MessageFate allows.
ImplementsFate == Fate!FateSpec

\* The broker gets rid of a message that can be recorded: one that has an envelope and
\* whose event, if it names one, has a row.  Of the others the source promises it too
\* (threat-model.md:108), and does not keep it.
Settles(m) ==
  (message[m].place = "topic" /\ message[m].form # "envelope" /\ Storable(m))
    ~> (message[m].place = "acked")

\* pubsub-push-handler.ts:278 answers "Event processing failed; delivery will be
\* retried": an event that is acknowledged was worked on to the end.
FailedDeliveryIsRetried ==
  \A m \in Transport :
    /\ message[m].place = "acked" /\ message[m].form = "event" /\ letter[m].status = "NONE"
    /\ \A p \in Push : push[p].msg # m
    => progress[m] \in {"worked", "reported"}
=============================================================================
