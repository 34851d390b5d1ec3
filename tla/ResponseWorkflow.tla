--------------------------- MODULE ResponseWorkflow ---------------------------
(***************************************************************************)
(* One event in the autonomous workflow: it is received, its context is    *)
(* built from the activity of related events, the model is asked, the      *)
(* policy judges the answer, and the tools of the plan are executed in     *)
(* order until one fails.  The database may fail at any step: the event is *)
(* then delivered again and skipped as a duplicate.                        *)
(*                                                                         *)
(* Source: apps/worker/src/orchestration/autonomous-workflow.ts and        *)
(* services/incident-context-service.ts; what executing a tool does is the *)
(* subject of ToolGateway, the receipts are that of EventDelivery.         *)
(***************************************************************************)
EXTENDS ResponsePolicy

CONSTANTS
  Current,      \* the event, a number like every event here
  Feed,         \* what the latest activity may be when the context is built
  MaxSignals,   \* 5 in the code
  Answer        \* what the model may answer

\* A row of the activity feed.  related: it has the correlation id of the current event;
\* valid: it satisfies the bounds of a signal; at: its time.
ActivityRow == [event : Nat, related : BOOLEAN, valid : BOOLEAN, at : Nat]

ASSUME ContextAssumption ==
  Current \in Nat /\ MaxSignals \in Nat \ {0} /\ Feed \subseteq Seq(ActivityRow)
ASSUME AnswerAssumption == Answer \subseteq Seq(FunctionCall)

VARIABLES
  kind,       \* scenarioKind of the envelope
  evidence,
  context,    \* the incident context given to the model
  analysis,   \* modelResult
  plan,       \* tools of canonicalActionsToExecute
  executed,   \* executedActions
  failed,     \* failedActions
  pc

input == <<kind, evidence>>
vars == <<kind, evidence, context, analysis, plan, executed, failed, pc>>

NoContext == [status |-> "DEGRADED", feed |-> <<>>, signals |-> {}, completeness |-> "INSUFFICIENT"]

Init ==
  /\ kind \in ScenarioKind /\ evidence \in Evidence
  /\ context = NoContext /\ analysis = Unavailable
  /\ plan = {} /\ executed = {} /\ failed = {}
  /\ pc = "delivered"

-----------------------------------------------------------------------------
(* IncidentContextService. *)

\* findRelatedSignals: the first row in the feed of every other event of the incident.
RelatedSignals(feed) ==
  {feed[i] : i \in {i \in DOMAIN feed :
     /\ feed[i].related /\ feed[i].event # Current
     /\ \A j \in DOMAIN feed : j < i /\ feed[j].related => feed[j].event # feed[i].event}}

\* compareSignals.
Precedes(r, s) == r.at > s.at \/ (r.at = s.at /\ r.event < s.event)

CompletenessOffByOne(related) ==    \* mutant
  IF related = {} THEN "INSUFFICIENT"
  ELSE IF Cardinality(related) > MaxSignals THEN "PARTIAL"
  ELSE "COMPLETE"

Completeness(related) ==
  IF related = {} THEN "INSUFFICIENT"
  ELSE IF Cardinality(related) > MaxSignals - 1 THEN "PARTIAL"
  ELSE "COMPLETE"

\* The current event and the most recent others; one row out of bounds spoils them all.
ContextOf(feed) ==
  LET related == RelatedSignals(feed)
      recent == {r \in related : Cardinality({s \in related : Precedes(s, r)}) < MaxSignals - 1}
  IN IF \E r \in related : ~r.valid
     THEN NoContext
     ELSE [status |-> "SUCCESS", feed |-> feed,
           signals |-> {Current} \cup {r.event : r \in recent},
           completeness |-> Completeness(related)]

-----------------------------------------------------------------------------
(* processEventEnvelope. *)

Receive ==
  /\ pc = "delivered"
  /\ pc' = IF ValidEvidence(kind, evidence) THEN "received" ELSE "refused"
  /\ UNCHANGED <<input, context, analysis, plan, executed, failed>>

BuildContext ==
  /\ pc = "received"
  /\ \E feed \in Feed : context' = ContextOf(feed)
  /\ pc' = "contextual"
  /\ UNCHANGED <<input, analysis, plan, executed, failed>>

\* REPOSITORY_ERROR degrades the context and nothing else.
ContextUnavailable ==
  /\ pc = "received"
  /\ pc' = "contextual"
  /\ UNCHANGED <<input, context, analysis, plan, executed, failed>>

\* The context goes to the model and has served its purpose.
RequestAnalysis ==
  /\ pc = "contextual"
  /\ context' = NoContext /\ pc' = "asking"
  /\ UNCHANGED <<input, analysis, plan, executed, failed>>

\* Whatever the model answers.
Analyze ==
  /\ pc = "asking"
  /\ \E calls \in Answer : analysis' = ParseAnswer(calls)
  /\ pc' = "analyzed"
  /\ UNCHANGED <<input, context, plan, executed, failed>>

\* Without a provider's key the simulated adapter answers.
AnalyzeSimulated ==
  /\ pc = "asking"
  /\ \E mode \in FakeMode : analysis' = SimulatedAnswer(mode, kind, evidence)
  /\ pc' = "analyzed"
  /\ UNCHANGED <<input, context, plan, executed, failed>>

\* No model, no budget, no time, or an error of the provider.
AnalysisUnavailable ==
  /\ pc = "asking"
  /\ pc' = "analyzed"
  /\ UNCHANGED <<input, context, analysis, plan, executed, failed>>

Judge ==
  /\ pc = "analyzed"
  /\ plan' = ActionsToExecute(kind, evidence, analysis)
  /\ pc' = "executing"
  /\ UNCHANGED <<input, context, analysis, executed, failed>>

\* The next tool of the plan, which the gateway checks once more.
Execute(t) ==
  /\ pc = "executing" /\ failed = {}
  /\ t \in plan \ executed
  /\ \A u \in plan \ executed : Rank[t] <= Rank[u]
  /\ \/ ToolAuthorized(kind, evidence, t) /\ executed' = executed \cup {t} /\ UNCHANGED failed
     \/ failed' = {t} /\ UNCHANGED executed
  /\ UNCHANGED <<input, context, analysis, plan, pc>>

Complete ==
  /\ pc = "executing" /\ plan \subseteq executed
  /\ pc' = "completed"
  /\ UNCHANGED <<input, context, analysis, plan, executed, failed>>

Fail ==
  /\ pc = "executing" /\ failed # {}
  /\ pc' = "failed"
  /\ UNCHANGED <<input, context, analysis, plan, executed, failed>>

\* The database fails at one of the writes in between, or the process does.
Break ==
  /\ pc \in {"received", "contextual", "asking", "analyzed", "executing"}
  /\ pc' = "broken"
  /\ UNCHANGED <<input, context, analysis, plan, executed, failed>>

\* The receipt is there: the second delivery does nothing.
SkipDuplicate ==
  /\ pc \in {"broken", "failed", "completed"}
  /\ pc' = "skipped"
  /\ UNCHANGED <<input, context, analysis, plan, executed, failed>>

Next ==
  \/ Receive \/ BuildContext \/ ContextUnavailable \/ RequestAnalysis
  \/ Analyze \/ AnalyzeSimulated \/ AnalysisUnavailable
  \/ Judge \/ (\E t \in Tool : Execute(t))
  \/ Complete \/ Fail \/ Break \/ SkipDuplicate

Spec == Init /\ [][Next]_vars

-----------------------------------------------------------------------------
(* Properties. *)

TypeOK ==
  /\ kind \in ScenarioKind /\ evidence \in Evidence
  /\ plan \subseteq Tool /\ executed \subseteq Tool /\ failed \subseteq Tool
  /\ analysis.status \in {"SUCCESS", "DEGRADED"} /\ analysis.confident \in BOOLEAN
  /\ analysis.requests \in Seq(FunctionCall)
  /\ pc \in {"delivered", "refused", "received", "contextual", "asking", "analyzed",
             "executing", "completed", "failed", "broken", "skipped"}

\* The tools a scenario owns an action of, in one of its groups.
ToolsOf(actions) == {t \in Tool : actionForToolName[t] \in actions}

\* No answer expands the authority of the model: what is executed, the scenario owns and
\* does not forbid; an optional action is executed only if a request for it was recorded
\* as authorized or narrowed; and baseline traffic has no consequence (threat-model.md:73).
AuthorityIsBounded ==
  /\ executed \cap ToolsOf(Preset(kind).forbidden) = {}
  /\ executed \subseteq ToolsOf(Preset(kind).mandatory) \cup
       {t \in ToolsOf(Preset(kind).optional) : \E i \in DOMAIN analysis.requests :
          /\ analysis.requests[i].tool = t
          /\ Accepted(kind, evidence, analysis, i)}
  /\ evidence.control => executed = {}

\* No answer prevents the response either: a workflow that completes has executed every
\* mandatory action that has a tool, and one that fails none after the action that failed.
MandatoryIsExecuted ==
  /\ pc = "completed" /\ ~evidence.control => ToolsOf(Preset(kind).mandatory) \subseteq executed
  /\ \A t \in executed, u \in failed : Rank[t] < Rank[u]

\* Three decisions written apart agree: what is recorded as accepted of the model's
\* requests is in the plan, and the gateway's own policy refuses nothing the plan has,
\* for a refusal would fail the whole workflow.
PoliciesAgree == pc = "executing" =>
  /\ \A i \in DOMAIN analysis.requests :
       Accepted(kind, evidence, analysis, i)
         => analysis.requests[i].tool \in plan \cup {Plan}
  /\ \A t \in plan : ToolAuthorized(kind, evidence, t)

\* The model is told of the current event, of nothing outside the incident, of at most
\* MaxSignals events, and that the context is complete exactly if no event of the incident
\* that is in the feed was left out and there is one besides the current event.
ContextIsTruthful ==
  LET related == {i \in DOMAIN context.feed : context.feed[i].related}
      incident == {context.feed[i].event : i \in related}
  IN context.status = "SUCCESS" =>
       /\ Current \in context.signals /\ context.signals \subseteq incident \cup {Current}
       /\ Cardinality(context.signals) <= MaxSignals
       /\ context.completeness = "COMPLETE" <=>
            incident \subseteq context.signals /\ incident \ {Current} # {}
=============================================================================
