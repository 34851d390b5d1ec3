----------------------------- MODULE WorkerProofs -----------------------------
(***************************************************************************)
(* Theorems about what runs inside the response worker.                    *)
(*                                                                         *)
(* First the workflow of one event (ResponseWorkflow): whatever the model  *)
(* answers, whatever the activity feed holds and however many requests are *)
(* allowed, the model's authority is bounded, the mandatory response is    *)
(* executed, and the plan, its record and the gateway agree.               *)
(*                                                                         *)
(* Then the process in which workflows run and call the model (ModelCall   *)
(* and WorkerProcess), for any number of callers, slots, places in the     *)
(* queue and retries.                                                      *)
(***************************************************************************)
EXTENDS ResponseWorkflow, WorkerProcess, SequenceTheorems, FiniteSetTheorems, FunctionTheorems,
        WellFoundedInduction, TLAPS

\* The phases in which the evidence has been accepted, and those with a plan.
Accepting == {"received", "contextual", "asking", "analyzed", "executing", "completed", "failed",
              "broken", "skipped"}
Planning == {"executing", "completed", "failed"}

EvidenceChecked == pc \in Accepting => ValidEvidence(kind, evidence)

AnswerShape == analysis.status = "SUCCESS" \/ analysis = Unavailable

\* The plan is what the policy says of the answer, and what was executed is a first part
\* of it; nothing is executed before there is a plan.
PlanFollowed ==
  /\ pc \in Planning => plan = ActionsToExecute(kind, evidence, analysis)
  /\ pc \in {"delivered", "refused", "received", "contextual", "asking", "analyzed"}
       => plan = {} /\ executed = {} /\ failed = {}
  /\ plan \subseteq ActionsToExecute(kind, evidence, analysis)
  /\ executed \subseteq plan
  /\ failed \subseteq plan \ executed
  /\ \A t \in executed, u \in plan \ executed : Rank[t] < Rank[u]
  /\ pc = "completed" => plan \subseteq executed

WorkflowInv ==
  /\ TypeOK
  /\ EvidenceChecked
  /\ AnswerShape
  /\ PlanFollowed

-----------------------------------------------------------------------------
(* The tables. *)

\* The groups of each scenario fit together: its fallback is mandatory, nothing mandatory
\* is forbidden or needs a decoy to be deployed, and what the gateway refuses is forbidden.
LEMMA CatalogFits ==
  ASSUME NEW k \in ScenarioKind
  PROVE  /\ Preset(k).fallback \subseteq Preset(k).mandatory
         /\ Preset(k).mandatory \cap Preset(k).forbidden = {}
         /\ "DEPLOY_DECOY" \notin Preset(k).mandatory
         /\ k \in {"DECOY_CREDENTIAL_USE", "ENV_FILE_PROBE", "WORDPRESS_CONFIG_PROBE",
                   "PATH_TRAVERSAL_PROBE"}
              => "QUARANTINE_SOURCE" \in Preset(k).forbidden
         /\ k \in {"SUSPICIOUS_IP_BURST", "SIP_INVITE_FLOOD", "TOKEN_TAMPER"}
              => Divert \subseteq Preset(k).forbidden
<1> USE DEF Preset, Divert, WebProbe
<1>1. CASE k = "ENV_FILE_PROBE"
  BY <1>1 DEF ENV_FILE_PROBE
<1>2. CASE k = "WORDPRESS_CONFIG_PROBE"
  BY <1>2 DEF WORDPRESS_CONFIG_PROBE
<1>3. CASE k = "SUSPICIOUS_IP_BURST"
  BY <1>3 DEF SUSPICIOUS_IP_BURST
<1>4. CASE k = "SIP_INVITE_FLOOD"
  BY <1>4 DEF SIP_INVITE_FLOOD
<1>5. CASE k = "TOKEN_TAMPER"
  BY <1>5 DEF TOKEN_TAMPER
<1>6. CASE k = "PATH_TRAVERSAL_PROBE"
  BY <1>6 DEF PATH_TRAVERSAL_PROBE
<1>7. CASE k = "DECOY_CREDENTIAL_USE"
  BY <1>7 DEF DECOY_CREDENTIAL_USE
<1>8. CASE k = "SQL_INJECTION_PROBE"
  BY <1>8 DEF SQL_INJECTION_PROBE
<1>9. CASE k = "CLOUD_METADATA_SSRF_PROBE"
  BY <1>9 DEF CLOUD_METADATA_SSRF_PROBE
<1>10. CASE k = "CREDENTIAL_STUFFING_BURST"
  BY <1>10 DEF CREDENTIAL_STUFFING_BURST
<1> QED
  BY <1>1, <1>2, <1>3, <1>4, <1>5, <1>6, <1>7, <1>8, <1>9, <1>10 DEF ScenarioKind

LEMMA ToolTables ==
  /\ actionForToolName["request_decoy_deployment"] = "DEPLOY_DECOY"
  /\ actionForToolName["request_false_route_assignment"] = "ASSIGN_FALSE_ROUTE"
  /\ actionForToolName["request_source_quarantine"] = "QUARANTINE_SOURCE"
  /\ actionForToolName["request_operator_alert"] = "ALERT_OPERATOR"
  /\ Rank["request_decoy_deployment"] = 1
  /\ Rank["request_false_route_assignment"] = 2
  /\ Rank["request_source_quarantine"] = 3
  /\ Rank["request_operator_alert"] = 4
  /\ Plan \notin Tool
BY DEF actionForToolName, Rank, Tool, Plan

LEMMA Ranks ==
  /\ \A t \in Tool : Rank[t] \in Nat
  /\ \A t, u \in Tool : Rank[t] <= Rank[u] /\ t # u => Rank[t] < Rank[u]
BY ToolTables DEF Tool

-----------------------------------------------------------------------------
(* The policy. *)

\* A planned action is mandatory, or an optional one that the model asked for and whose
\* request is recorded as accepted; it is not forbidden.
LEMMA PlanIsOwned ==
  ASSUME NEW k \in ScenarioKind, NEW e \in Evidence, NEW a, NEW t \in ActionsToExecute(k, e, a)
  PROVE  /\ ~IsBaseline(e) /\ t \in Tool
         /\ actionForToolName[t] \notin Preset(k).forbidden
         /\ \/ actionForToolName[t] \in Preset(k).mandatory
            \/ /\ actionForToolName[t] \in Preset(k).optional
               /\ \E i \in DOMAIN a.requests : a.requests[i].tool = t /\ Accepted(k, e, a, i)
<1>1. ~IsBaseline(e) /\ t \in Tool /\ Planned(Preset(k), a, t)
  BY DEF ActionsToExecute
<1>2. actionForToolName[t] \notin Preset(k).forbidden /\ Buildable(Preset(k), t)
  BY <1>1 DEF Planned, Buildable
<1>3. CASE ModelSelects(Preset(k), a, t)
  <2>1. PICK i \in DOMAIN a.requests : a.requests[i].tool = t /\ Considered(a.requests, i)
    BY <1>3 DEF ModelSelects
  <2>2. Accepted(k, e, a, i)
    BY <1>1, <1>2, <1>3, <2>1, ToolTables DEF Accepted, ModelSelects, ModelAvailable
  <2> QED
    BY <1>1, <1>2, <1>3, <2>1, <2>2 DEF ModelSelects
<1>4. CASE actionForToolName[t] \in Preset(k).mandatory
  BY <1>1, <1>2, <1>4
<1>5. CASE actionForToolName[t] \in Preset(k).fallback
  BY <1>1, <1>2, <1>5, CatalogFits
<1> QED
  BY <1>1, <1>3, <1>4, <1>5 DEF Planned

\* What is mandatory and has a tool is planned, whatever the model says.
LEMMA MandatoryIsPlanned ==
  ASSUME NEW k \in ScenarioKind, NEW e \in Evidence, NEW a, ~IsBaseline(e)
  PROVE  ToolsOf(Preset(k).mandatory) \subseteq ActionsToExecute(k, e, a)
<1>1. ASSUME NEW t \in Tool, actionForToolName[t] \in Preset(k).mandatory
      PROVE  Buildable(Preset(k), t)
  <2>1. actionForToolName[t] \notin Preset(k).forbidden
    BY <1>1, CatalogFits
  <2>2. t # "request_decoy_deployment"
    BY <1>1, CatalogFits, ToolTables
  <2> QED
    BY <1>1, <2>1, <2>2 DEF Buildable
<1> QED
  BY <1>1 DEF ToolsOf, ActionsToExecute, Planned

\* What is recorded as accepted is planned.
LEMMA AcceptedIsPlanned ==
  ASSUME NEW k \in ScenarioKind, NEW e \in Evidence, NEW a, NEW i \in DOMAIN a.requests,
         a.status = "SUCCESS", a.requests[i].tool \in Tool, Accepted(k, e, a, i)
  PROVE  a.requests[i].tool \in ActionsToExecute(k, e, a)
<1> DEFINE t == a.requests[i].tool
<1>1. ~IsBaseline(e) /\ a.confident /\ Considered(a.requests, i) /\ Buildable(Preset(k), t)
  BY ToolTables DEF Accepted
<1>2. ModelAvailable(a)
  BY <1>1 DEF ModelAvailable
<1>3. actionForToolName[t] \in Preset(k).optional \cup Preset(k).mandatory
  BY <1>1, CatalogFits DEF Buildable
<1>4. Planned(Preset(k), a, t)
  BY <1>1, <1>2, <1>3 DEF Planned, ModelSelects
<1> QED
  BY <1>1, <1>4 DEF ActionsToExecute

\* The gateway authorizes what the plan has.
LEMMA PlanIsAuthorized ==
  ASSUME NEW k \in ScenarioKind, NEW e \in Evidence, NEW a, NEW t \in ActionsToExecute(k, e, a)
  PROVE  ToolAuthorized(k, e, t)
<1>1. ~IsBaseline(e) /\ actionForToolName[t] \notin Preset(k).forbidden
  BY PlanIsOwned
<1>2. k \in {"DECOY_CREDENTIAL_USE", "ENV_FILE_PROBE", "WORDPRESS_CONFIG_PROBE",
             "PATH_TRAVERSAL_PROBE"} => t # "request_source_quarantine"
  BY <1>1, CatalogFits, ToolTables
<1>3. k \in {"SUSPICIOUS_IP_BURST", "SIP_INVITE_FLOOD", "TOKEN_TAMPER"}
        => t \notin {"request_decoy_deployment", "request_false_route_assignment"}
  BY <1>1, CatalogFits, ToolTables DEF Divert
<1> QED
  BY <1>1, <1>2, <1>3 DEF ToolAuthorized

-----------------------------------------------------------------------------
(* The answers. *)

AnswerTyped(a) ==
  /\ a.status \in {"SUCCESS", "DEGRADED"} /\ a.confident \in BOOLEAN
  /\ a.requests \in Seq(FunctionCall)
  /\ a.status = "SUCCESS" \/ a = Unavailable

LEMMA NoAnswer == AnswerTyped(Unavailable)
BY EmptySeq DEF AnswerTyped, Unavailable

LEMMA ParsedAnswer == ASSUME NEW calls \in Answer PROVE AnswerTyped(ParseAnswer(calls))
<1>1. calls \in Seq(FunctionCall)
  BY AnswerAssumption
<1> DEFINE sure == \E i \in {j \in DOMAIN calls : calls[j].tool = Plan} : calls[i].confident
           answer == [status |-> "SUCCESS", confident |-> sure, requests |-> calls]
<1>2. sure \in BOOLEAN
  OBVIOUS
<1> HIDE DEF sure
<1>3. AnswerTyped(answer)
  BY <1>1, <1>2 DEF AnswerTyped
<1>4. ParseAnswer(calls) = answer \/ ParseAnswer(calls) = Unavailable
  BY DEF ParseAnswer, sure
<1> QED
  BY <1>3, <1>4, NoAnswer

LEMMA AllAllowedTyped ==
  ASSUME NEW k \in ScenarioKind, NEW e \in Evidence
  PROVE  AllAllowed(k, e) \in Seq(Tool)
<1> DEFINE allowed == Preset(k).mandatory \cup Preset(k).optional
           Ask(t) == IF actionForToolName[t] \in allowed THEN <<t>> ELSE <<>>
           s1 == Ask("request_decoy_deployment")
           s2 == Ask("request_false_route_assignment")
           s3 == Ask("request_source_quarantine")
           s4 == Ask("request_operator_alert")
           tools == s1 \o s2 \o s3 \o s4
           room == MaxToolRequests - 1
           n == IF Len(tools) < room THEN Len(tools) ELSE room
<1>1. s1 \in Seq(Tool) /\ s2 \in Seq(Tool) /\ s3 \in Seq(Tool) /\ s4 \in Seq(Tool)
  <2>1. \A t \in Tool : <<t>> \in Seq(Tool)
    OBVIOUS
  <2>2. \A t \in Tool : Ask(t) \in Seq(Tool)
    BY <2>1, EmptySeq
  <2> HIDE DEF Ask
  <2> QED
    BY <2>2 DEF Tool
<1> HIDE DEF s1, s2, s3, s4
<1>2. s1 \o s2 \in Seq(Tool)
  BY <1>1, ConcatProperties
<1>3. (s1 \o s2) \o s3 \in Seq(Tool)
  BY <1>1, <1>2, ConcatProperties
<1>4. tools \in Seq(Tool)
  BY <1>1, <1>3, ConcatProperties
<1>5. AllAllowed(k, e) = IF IsBaseline(e) THEN <<>> ELSE SubSeq(tools, 1, n)
  BY DEF AllAllowed, s1, s2, s3, s4
<1> HIDE DEF tools
<1>6. n \in Int /\ \A i \in 1..n : tools[i] \in Tool
  BY <1>4, RequestsAssumption, ElementOfSeq
<1> HIDE DEF n
<1>7. SubSeq(tools, 1, n) \in Seq(Tool)
  BY <1>6, SubSeqProperties
<1> QED
  BY <1>5, <1>7, EmptySeq

LEMMA SimulatedTyped ==
  ASSUME NEW mode \in FakeMode, NEW k \in ScenarioKind, NEW e \in Evidence
  PROVE  AnswerTyped(SimulatedAnswer(mode, k, e))
<1> DEFINE sound == mode = "auto" => ~IsBaseline(e)
           sure == mode # "low-confidence"
           Asked(t) == [tool |-> t, valid |-> TRUE, confident |-> sure, sound |-> sound]
           tools == CASE mode = "low-confidence" -> <<>>
                      [] mode = "repeated-requests" -> Repeated
                      [] mode = "conflicting-requests" -> Conflicting
                      [] mode = "auto" -> AllAllowed(k, e)
           calls == [i \in DOMAIN tools |-> Asked(tools[i])]
           requests == <<Asked(Plan)>> \o calls
           answer == [status |-> "SUCCESS", confident |-> sure, requests |-> requests]
<1>1. CASE mode = "unavailable"
  BY <1>1, NoAnswer DEF SimulatedAnswer
<1>2. CASE mode # "unavailable"
  <2>1. Repeated \in Seq(Tool) /\ Conflicting \in Seq(Tool) /\ <<>> \in Seq(Tool)
    BY EmptySeq DEF Repeated, Conflicting, Tool
  <2>2. tools \in Seq(Tool)
    BY <1>2, <2>1, AllAllowedTyped DEF FakeMode
  <2>3. SimulatedAnswer(mode, k, e) = answer
    BY <1>2 DEF SimulatedAnswer
  <2>4. sound \in BOOLEAN /\ sure \in BOOLEAN
    BY DEF IsBaseline, Evidence
  <2> HIDE DEF tools, sound, sure
  <2>5. \A t \in Tool \cup {Plan} : Asked(t) \in FunctionCall
    BY <2>4 DEF FunctionCall
  <2>6. calls \in Seq(FunctionCall)
    BY <2>2, <2>5
  <2>7. <<Asked(Plan)>> \in Seq(FunctionCall)
    BY <2>5
  <2>8. requests \in Seq(FunctionCall)
    BY <2>6, <2>7, ConcatProperties
  <2> HIDE DEF requests
  <2>9. AnswerTyped(answer)
    BY <2>4, <2>8 DEF AnswerTyped
  <2> QED
    BY <2>3, <2>9
<1> QED
  BY <1>1, <1>2

-----------------------------------------------------------------------------
(* The inductive invariant. *)

LEMMA InitInv == Init => WorkflowInv
<1> SUFFICES ASSUME Init PROVE WorkflowInv
  OBVIOUS
<1>1. TypeOK /\ AnswerShape
  BY NoAnswer DEF Init, TypeOK, AnswerShape, AnswerTyped
<1>2. EvidenceChecked /\ PlanFollowed
  BY DEF Init, EvidenceChecked, PlanFollowed, Accepting, Planning
<1> QED
  BY <1>1, <1>2 DEF WorkflowInv

\* Before the judgement a step changes the phase, the context and the answer at most.
LEMMA BeforeJudgement ==
  ASSUME WorkflowInv, pc \in {"delivered", "received", "contextual", "asking"},
         UNCHANGED <<input, plan, executed, failed>>,
         pc' \in {"refused", "received", "contextual", "asking", "analyzed"},
         pc' # "refused" => ValidEvidence(kind, evidence),
         analysis' = analysis \/ AnswerTyped(analysis')
  PROVE  WorkflowInv'
<1> USE DEF WorkflowInv, input
<1>1. TypeOK' /\ AnswerShape'
  BY DEF TypeOK, AnswerShape, AnswerTyped
<1>2. EvidenceChecked'
  BY DEF EvidenceChecked, Accepting, ValidEvidence, ConsistentControl
<1>3. plan' = {} /\ executed' = {} /\ failed' = {}
  BY DEF PlanFollowed
<1>4. PlanFollowed'
  BY <1>3 DEF PlanFollowed, Planning
<1> QED
  BY <1>1, <1>2, <1>4

\* A step that changes the phase alone.
LEMMA PhaseChanges ==
  ASSUME WorkflowInv, UNCHANGED <<input, analysis, plan, executed, failed>>,
         pc \in Accepting, pc' \in {"completed", "failed", "broken", "skipped"},
         pc' \in Planning => pc = "executing",
         pc' = "completed" => plan \subseteq executed
  PROVE  WorkflowInv'
<1> USE DEF WorkflowInv, input
<1>1. TypeOK' /\ AnswerShape'
  BY DEF TypeOK, AnswerShape
<1>2. EvidenceChecked'
  BY DEF EvidenceChecked, Accepting, ValidEvidence, ConsistentControl
<1>3. PlanFollowed'
  <2>1. ActionsToExecute(kind', evidence', analysis') = ActionsToExecute(kind, evidence, analysis)
    BY DEF TypeOK
  <2> QED
    BY <2>1 DEF PlanFollowed, Planning
<1> QED
  BY <1>1, <1>2, <1>3

LEMMA JudgeKeeps == ASSUME WorkflowInv, Judge PROVE WorkflowInv'
<1> USE DEF WorkflowInv, input, Judge
<1>1. ActionsToExecute(kind, evidence, analysis) \subseteq Tool
  BY DEF ActionsToExecute
<1>2. TypeOK' /\ AnswerShape'
  BY <1>1 DEF TypeOK, AnswerShape
<1>3. EvidenceChecked'
  BY DEF EvidenceChecked, Accepting, ValidEvidence, ConsistentControl
<1>4. executed' = {} /\ failed' = {} /\ plan' = ActionsToExecute(kind', evidence', analysis')
  BY DEF PlanFollowed
<1>5. PlanFollowed'
  BY <1>4 DEF PlanFollowed
<1> QED
  BY <1>2, <1>3, <1>5

LEMMA ExecuteKeeps == ASSUME WorkflowInv, NEW t \in Tool, Execute(t) PROVE WorkflowInv'
<1> USE DEF WorkflowInv, input
<1>1. /\ pc = "executing" /\ failed = {} /\ t \in plan \ executed
      /\ \A u \in plan \ executed : Rank[t] <= Rank[u]
      /\ UNCHANGED <<kind, evidence, analysis, plan, pc>>
      /\ \/ executed' = executed \cup {t} /\ failed' = {}
         \/ executed' = executed /\ failed' = {t}
  BY DEF Execute
<1>2. TypeOK' /\ AnswerShape'
  BY <1>1 DEF TypeOK, AnswerShape
<1>3. EvidenceChecked'
  BY <1>1 DEF EvidenceChecked, ValidEvidence, ConsistentControl
<1>4. ActionsToExecute(kind', evidence', analysis') = ActionsToExecute(kind, evidence, analysis)
  BY <1>1
<1>5. plan \subseteq Tool /\ executed \subseteq plan
  BY DEF TypeOK, PlanFollowed
<1>6. \A u \in plan \ executed : u # t => Rank[t] < Rank[u]
  BY <1>1, <1>5, Ranks
<1>7. \A v \in executed', u \in plan' \ executed' : Rank[v] < Rank[u]
  BY <1>1, <1>6 DEF PlanFollowed
<1>8. PlanFollowed'
  BY <1>1, <1>4, <1>5, <1>7 DEF PlanFollowed
<1> QED
  BY <1>2, <1>3, <1>8

\* The inductive invariant of a workflow (autonomous-workflow.ts).
THEOREM WorkflowInvariant == Spec => []WorkflowInv
<1>1. ASSUME WorkflowInv, Receive PROVE WorkflowInv'
  BY <1>1, BeforeJudgement DEF Receive
<1>2. WorkflowInv /\ pc \in Accepting => ValidEvidence(kind, evidence)
  BY DEF WorkflowInv, EvidenceChecked
<1>3. ASSUME WorkflowInv, BuildContext \/ ContextUnavailable \/ RequestAnalysis \/ AnalysisUnavailable
      PROVE  WorkflowInv'
  BY <1>2, <1>3, BeforeJudgement
     DEF BuildContext, ContextUnavailable, RequestAnalysis, AnalysisUnavailable, Accepting
<1>4. ASSUME WorkflowInv, Analyze \/ AnalyzeSimulated PROVE WorkflowInv'
  <2>1. kind \in ScenarioKind /\ evidence \in Evidence
    BY <1>4 DEF WorkflowInv, TypeOK
  <2>2. AnswerTyped(analysis')
    BY <1>4, <2>1, ParsedAnswer, SimulatedTyped DEF Analyze, AnalyzeSimulated
  <2> QED
    BY <1>2, <1>4, <2>2, BeforeJudgement DEF Analyze, AnalyzeSimulated, Accepting
<1>5. ASSUME WorkflowInv, Complete \/ Fail \/ Break \/ SkipDuplicate PROVE WorkflowInv'
  BY <1>5, PhaseChanges DEF Complete, Fail, Break, SkipDuplicate, Accepting, Planning
<1>6. ASSUME WorkflowInv, UNCHANGED vars PROVE WorkflowInv'
  BY <1>6 DEF vars, WorkflowInv, TypeOK, EvidenceChecked, AnswerShape, PlanFollowed,
     ValidEvidence, ConsistentControl
<1>7. WorkflowInv /\ [Next]_vars => WorkflowInv'
  BY <1>1, <1>3, <1>4, <1>5, <1>6, JudgeKeeps, ExecuteKeeps DEF Next
<1> QED
  BY <1>7, InitInv, PTL DEF Spec

-----------------------------------------------------------------------------
(* Theorems. *)

\* No answer of the model expands its authority (evaluateAutonomousPolicy).
THEOREM BoundedAuthority == Spec => []AuthorityIsBounded
<1>1. ASSUME WorkflowInv PROVE AuthorityIsBounded
  <2>1. kind \in ScenarioKind /\ evidence \in Evidence
    BY <1>1 DEF WorkflowInv, TypeOK
  <2>2. executed \subseteq ActionsToExecute(kind, evidence, analysis)
    BY <1>1 DEF WorkflowInv, PlanFollowed
  <2>3. \A t \in executed : actionForToolName[t] \notin Preset(kind).forbidden
    BY <2>1, <2>2, PlanIsOwned
  <2>4. \A t \in executed : ~IsBaseline(evidence)
    BY <2>1, <2>2, PlanIsOwned
  <2>5. executed \subseteq ToolsOf(Preset(kind).mandatory) \cup
          {t \in ToolsOf(Preset(kind).optional) : \E i \in DOMAIN analysis.requests :
             analysis.requests[i].tool = t /\ Accepted(kind, evidence, analysis, i)}
    BY <2>1, <2>2, PlanIsOwned DEF ToolsOf
  <2> QED
    BY <2>3, <2>4, <2>5 DEF AuthorityIsBounded, ToolsOf, IsBaseline
<1> QED
  BY <1>1, WorkflowInvariant, PTL

\* No answer of the model prevents the mandatory response (buildCanonicalActionPlans and
\* the loop over the plan in processEventEnvelope).
THEOREM MandatoryResponse == Spec => []MandatoryIsExecuted
<1>1. ASSUME WorkflowInv PROVE MandatoryIsExecuted
  <2>1. kind \in ScenarioKind /\ evidence \in Evidence
    BY <1>1 DEF WorkflowInv, TypeOK
  <2>2. ASSUME pc = "completed", ~evidence.control
        PROVE  ToolsOf(Preset(kind).mandatory) \subseteq executed
    <3>1. ~IsBaseline(evidence)
      BY <1>1, <2>1, <2>2 DEF WorkflowInv, EvidenceChecked, Accepting, ValidEvidence,
         ConsistentControl, IsBaseline, Evidence
    <3>2. ActionsToExecute(kind, evidence, analysis) \subseteq executed
      BY <1>1, <2>2 DEF WorkflowInv, PlanFollowed, Planning
    <3> QED
      BY <2>1, <3>1, <3>2, MandatoryIsPlanned
  <2>3. \A t \in executed, u \in failed : Rank[t] < Rank[u]
    BY <1>1 DEF WorkflowInv, PlanFollowed
  <2> QED
    BY <2>2, <2>3 DEF MandatoryIsExecuted
<1> QED
  BY <1>1, WorkflowInvariant, PTL

\* The record of the model's requests, the plan and the gateway's policy agree
\* (evaluateSingleModelRequest, buildCanonicalActionPlans, evaluateToolPolicy).
THEOREM AgreementOfPolicies == Spec => []PoliciesAgree
<1>1. ASSUME WorkflowInv PROVE PoliciesAgree
  <2>1. SUFFICES ASSUME pc = "executing" PROVE PoliciesAgree
    BY DEF PoliciesAgree
  <2>2. kind \in ScenarioKind /\ evidence \in Evidence /\ analysis.requests \in Seq(FunctionCall)
    BY <1>1 DEF WorkflowInv, TypeOK
  <2>3. plan = ActionsToExecute(kind, evidence, analysis)
    BY <1>1, <2>1 DEF WorkflowInv, PlanFollowed, Planning
  <2>4. ASSUME NEW i \in DOMAIN analysis.requests, Accepted(kind, evidence, analysis, i)
        PROVE  analysis.requests[i].tool \in plan \cup {Plan}
    <3>1. analysis.status = "SUCCESS"
      BY <1>1, <2>4 DEF WorkflowInv, AnswerShape, Unavailable
    <3>2. analysis.requests[i].tool \in Tool \cup {Plan}
      <4>1. analysis.requests[i] \in FunctionCall
        BY <2>2, <2>4, ElementOfSeq
      <4> QED
        BY <4>1 DEF FunctionCall
    <3> QED
      BY <2>2, <2>3, <2>4, <3>1, <3>2, AcceptedIsPlanned
  <2>5. \A t \in plan : ToolAuthorized(kind, evidence, t)
    BY <2>2, <2>3, PlanIsAuthorized
  <2> QED
    BY <2>4, <2>5 DEF PoliciesAgree
<1> QED
  BY <1>1, WorkflowInvariant, PTL

-----------------------------------------------------------------------------
(***************************************************************************)
(* The context.  Each other event of the incident is the signal of its     *)
(* first row in the feed, so the rows kept differ in their events and      *)
(* Precedes orders them strictly.  A row is then known by the number of    *)
(* those before it, which bounds how many are among the most recent.       *)
(***************************************************************************)
RowsBefore(R, r) == {s \in R : Precedes(s, r)}
Recent(R) == {r \in R : Cardinality(RowsBefore(R, r)) < MaxSignals - 1}

\* A set of numbers has a least one.
LEMMA LeastIndex ==
  ASSUME NEW S \in SUBSET Nat, S # {}
  PROVE  \E i \in S : \A j \in S : i <= j
<1>1. PICK i \in S : \A j \in S : <<j, i>> \notin OpToRel(<, Nat)
  BY NatLessThanWellFounded, WFMin
<1>2. \A j \in S : ~(j < i)
  BY <1>1 DEF OpToRel
<1> QED
  BY <1>2

LEMMA RelatedRows ==
  ASSUME NEW feed \in Seq(ActivityRow)
  PROVE  LET R == RelatedSignals(feed)
             incident == {feed[i].event : i \in {i \in DOMAIN feed : feed[i].related}}
         IN  /\ IsFiniteSet(R) /\ R \subseteq ActivityRow
             /\ {r.event : r \in R} = incident \ {Current}
             /\ \A r, s \in R : r.event = s.event => r = s
<1> DEFINE R == RelatedSignals(feed)
           First == {i \in DOMAIN feed :
                       /\ feed[i].related /\ feed[i].event # Current
                       /\ \A j \in DOMAIN feed : j < i /\ feed[j].related => feed[j].event # feed[i].event}
           incident == {feed[i].event : i \in {i \in DOMAIN feed : feed[i].related}}
<1>1. DOMAIN feed = 1..Len(feed) /\ Len(feed) \in Nat /\ \A i \in DOMAIN feed : feed[i] \in ActivityRow
  BY LenProperties, ElementOfSeq
<1>2. R = {feed[i] : i \in First} /\ First \subseteq DOMAIN feed
  BY DEF RelatedSignals
<1>3. IsFiniteSet(First)
  <2>1. IsFiniteSet(1..Len(feed))
    BY <1>1, FS_Interval
  <2>2. First \in SUBSET (1..Len(feed))
    BY <1>1, <1>2
  <2> HIDE DEF First
  <2> QED
    BY <2>1, <2>2, FS_Subset
<1>4. IsFiniteSet(R)
  <2> DEFINE f == [i \in First |-> feed[i]]
  <2>1. f \in Surjection(First, R)
    BY <1>2 DEF Surjection
  <2> QED
    BY <1>3, <2>1, FS_Surjection
<1>5. R \subseteq ActivityRow
  BY <1>1, <1>2
<1>6. {r.event : r \in R} \subseteq incident \ {Current}
  BY <1>2
<1>7. ASSUME NEW e \in incident \ {Current} PROVE \E r \in R : r.event = e
  <2> DEFINE S == {i \in DOMAIN feed : feed[i].related /\ feed[i].event = e}
  <2>1. S # {} /\ S \in SUBSET Nat
    BY <1>1
  <2>2. PICK i \in S : \A j \in S : i <= j
    BY <2>1, LeastIndex
  <2>3. \A j \in DOMAIN feed : j < i /\ feed[j].related => feed[j].event # e
    <3> SUFFICES ASSUME NEW j \in DOMAIN feed, j < i, feed[j].related, feed[j].event = e PROVE FALSE
      OBVIOUS
    <3>1. j \in S /\ i \in Nat /\ j \in Nat
      BY <1>1
    <3> QED
      BY <2>2, <3>1
  <2>4. i \in First
    BY <2>3
  <2> QED
    BY <1>2, <2>4
<1>8. ASSUME NEW r \in R, NEW s \in R, r.event = s.event PROVE r = s
  <2>1. PICK i \in First : r = feed[i]
    BY <1>2
  <2>2. PICK j \in First : s = feed[j]
    BY <1>2
  <2>3. ~(i < j) /\ ~(j < i)
    BY <1>8, <2>1, <2>2
  <2>4. i = j
    BY <1>1, <2>3
  <2> QED
    BY <2>1, <2>2, <2>4
<1>9. {r.event : r \in R} = incident \ {Current}
  <2> HIDE DEF R, incident
  <2> QED
    BY <1>6, <1>7
<1>10. \A r, s \in R : r.event = s.event => r = s
  BY <1>8
<1> HIDE DEF First
<1> QED
  BY <1>4, <1>5, <1>9, <1>10

\* The most recent rows are fewer than MaxSignals, and all of them if there are no more.
LEMMA RecentRows ==
  ASSUME NEW R \in SUBSET ActivityRow, IsFiniteSet(R), \A r, s \in R : r.event = s.event => r = s
  PROVE  /\ IsFiniteSet(Recent(R)) /\ Cardinality(Recent(R)) <= MaxSignals - 1
         /\ Cardinality(R) <= MaxSignals - 1 => Recent(R) = R
<1>0. MaxSignals \in Nat \ {0}
  BY ContextAssumption
<1>1. ASSUME NEW r \in R
      PROVE  /\ IsFiniteSet(RowsBefore(R, r)) /\ Cardinality(RowsBefore(R, r)) \in Nat
             /\ Cardinality(RowsBefore(R, r)) < Cardinality(R)
  <2>1. RowsBefore(R, r) \in SUBSET R /\ r \notin RowsBefore(R, r)
    BY DEF RowsBefore, Precedes, ActivityRow
  <2>2. /\ IsFiniteSet(RowsBefore(R, r))
        /\ Cardinality(RowsBefore(R, r)) <= Cardinality(R)
        /\ Cardinality(R) # Cardinality(RowsBefore(R, r))
    BY <2>1, FS_Subset
  <2> QED
    BY <2>2, FS_CardinalityType
<1>2. ASSUME NEW r \in R, NEW s \in R, Precedes(r, s)
      PROVE  Cardinality(RowsBefore(R, r)) < Cardinality(RowsBefore(R, s))
  <2>1. RowsBefore(R, r) \subseteq RowsBefore(R, s)
    BY <1>2 DEF RowsBefore, Precedes, ActivityRow
  <2>2. r \in RowsBefore(R, s) /\ r \notin RowsBefore(R, r)
    BY <1>2 DEF RowsBefore, Precedes, ActivityRow
  <2>3. /\ Cardinality(RowsBefore(R, r)) <= Cardinality(RowsBefore(R, s))
        /\ Cardinality(RowsBefore(R, r)) # Cardinality(RowsBefore(R, s))
    BY <1>1, <2>1, <2>2, FS_Subset
  <2> QED
    BY <1>1, <2>3
<1>3. \A r, s \in R : r = s \/ Precedes(r, s) \/ Precedes(s, r)
  <2> SUFFICES ASSUME NEW r \in R, NEW s \in R, r.event # s.event
               PROVE  Precedes(r, s) \/ Precedes(s, r)
    OBVIOUS
  <2>1. r.at \in Nat /\ s.at \in Nat /\ r.event \in Nat /\ s.event \in Nat
    BY DEF ActivityRow
  <2> QED
    BY <2>1 DEF Precedes
<1>4. IsFiniteSet(Recent(R)) /\ Cardinality(Recent(R)) <= MaxSignals - 1
  <2> DEFINE f == [r \in Recent(R) |-> Cardinality(RowsBefore(R, r))]
             T == 0..(MaxSignals - 2)
  <2>1. f \in [Recent(R) -> T]
    <3>1. \A r \in Recent(R) : Cardinality(RowsBefore(R, r)) \in T
      BY <1>0, <1>1 DEF Recent
    <3> QED
      BY <3>1
  <2>2. ASSUME NEW r \in Recent(R), NEW s \in Recent(R), f[r] = f[s] PROVE r = s
    <3>1. r \in R /\ s \in R /\ Cardinality(RowsBefore(R, r)) = Cardinality(RowsBefore(R, s))
      BY <2>2 DEF Recent
    <3> QED
      BY <1>1, <1>2, <1>3, <3>1
  <2>3. f \in Injection(Recent(R), T)
    BY <2>1, <2>2 DEF Injection, IsInjective
  <2>4. IsFiniteSet(T) /\ Cardinality(T) = MaxSignals - 1
    BY <1>0, FS_Interval
  <2> HIDE DEF f
  <2> QED
    BY <2>3, <2>4, FS_Injection
<1>5. ASSUME Cardinality(R) <= MaxSignals - 1 PROVE Recent(R) = R
  <2>1. Cardinality(R) \in Nat
    BY FS_CardinalityType
  <2>2. \A r \in R : Cardinality(RowsBefore(R, r)) < MaxSignals - 1
    BY <1>0, <1>1, <1>5, <2>1
  <2> QED
    BY <2>2 DEF Recent
<1> QED
  BY <1>4, <1>5

\* What ContextIsTruthful says of a context c.
Truthful(c) ==
  LET incident == {c.feed[i].event : i \in {i \in DOMAIN c.feed : c.feed[i].related}}
  IN c.status = "SUCCESS" =>
       /\ Current \in c.signals /\ c.signals \subseteq incident \cup {Current}
       /\ Cardinality(c.signals) <= MaxSignals
       /\ c.completeness = "COMPLETE" <=> incident \subseteq c.signals /\ incident \ {Current} # {}

LEMMA ContextsAreTruthful ==
  ASSUME NEW feed \in Seq(ActivityRow)
  PROVE  Truthful(ContextOf(feed))
<1> DEFINE R == RelatedSignals(feed)
           c == ContextOf(feed)
           incident == {feed[i].event : i \in {i \in DOMAIN feed : feed[i].related}}
           signals == {Current} \cup {r.event : r \in Recent(R)}
<1>1. /\ IsFiniteSet(R) /\ R \subseteq ActivityRow
      /\ {r.event : r \in R} = incident \ {Current}
      /\ \A r, s \in R : r.event = s.event => r = s
  BY RelatedRows
<1>2. /\ IsFiniteSet(Recent(R)) /\ Cardinality(Recent(R)) <= MaxSignals - 1
      /\ Cardinality(R) <= MaxSignals - 1 => Recent(R) = R
  BY <1>1, RecentRows
<1>3. c = IF \E r \in R : ~r.valid THEN NoContext
          ELSE [status |-> "SUCCESS", feed |-> feed, signals |-> signals,
                completeness |-> Completeness(R)]
  BY DEF ContextOf, Recent, RowsBefore
<1>4. Recent(R) \subseteq R
  BY DEF Recent
<1> HIDE DEF R, incident
<1>5. signals \subseteq incident \cup {Current} /\ Current \in signals
  BY <1>1, <1>4
<1>6. Cardinality(signals) <= MaxSignals
  <2> DEFINE E == {r.event : r \in Recent(R)}
             f == [r \in Recent(R) |-> r.event]
  <2>1. f \in Surjection(Recent(R), E)
    BY DEF Surjection
  <2>2. IsFiniteSet(E) /\ Cardinality(E) <= Cardinality(Recent(R))
    BY <1>2, <2>1, FS_Surjection
  <2>3. Current \notin E
    BY <1>1, <1>4
  <2>4. Cardinality(signals) = Cardinality(E) + 1
    <3>1. signals = E \cup {Current}
      OBVIOUS
    <3> HIDE DEF signals, E
    <3> QED
      BY <2>2, <2>3, <3>1, FS_AddElement
  <2>5. Cardinality(E) \in Nat /\ Cardinality(Recent(R)) \in Nat
    BY <1>2, <2>2, FS_CardinalityType
  <2> QED
    BY <1>2, <2>2, <2>4, <2>5, ContextAssumption
<1>7. Cardinality(R) \in Nat /\ Cardinality(Recent(R)) \in Nat /\ MaxSignals \in Nat \ {0}
  BY <1>1, <1>2, FS_CardinalityType, ContextAssumption
<1>8. Completeness(R) = "COMPLETE" <=> (incident \subseteq signals /\ incident \ {Current} # {})
  <2>1. CASE R = {}
    BY <1>1, <2>1 DEF Completeness
  <2>2. CASE R # {} /\ Cardinality(R) > MaxSignals - 1
    <3>1. Completeness(R) = "PARTIAL"
      BY <2>2 DEF Completeness
    <3>2. PICK r \in R : r \notin Recent(R)
      <4> SUFFICES ASSUME R \subseteq Recent(R) PROVE FALSE
        OBVIOUS
      <4>1. Recent(R) = R
        BY <1>4
      <4>2. Cardinality(R) <= MaxSignals - 1
        BY <1>2, <4>1
      <4> QED
        BY <1>7, <2>2, <4>2
    <3>3. r.event \in incident /\ r.event # Current
      BY <1>1, <3>2
    <3>4. r.event \notin signals
      BY <1>1, <1>4, <3>2, <3>3
    <3> QED
      BY <3>1, <3>3, <3>4
  <2>3. CASE R # {} /\ Cardinality(R) <= MaxSignals - 1
    <3>1. Completeness(R) = "COMPLETE"
      BY <1>7, <2>3 DEF Completeness
    <3>2. signals = {Current} \cup (incident \ {Current})
      BY <1>1, <1>2, <2>3
    <3>3. incident \ {Current} # {}
      BY <1>1, <2>3
    <3> QED
      BY <3>1, <3>2, <3>3
  <2> QED
    BY <1>7, <2>1, <2>2, <2>3
<1>9. CASE \E r \in R : ~r.valid
  <2>1. c.status # "SUCCESS"
    BY <1>3, <1>9 DEF NoContext
  <2> QED
    BY <2>1 DEF Truthful
<1>10. CASE ~\E r \in R : ~r.valid
  <2> HIDE DEF signals
  <2>1. c.feed = feed /\ c.signals = signals /\ c.completeness = Completeness(R)
    BY <1>3, <1>10
  <2> HIDE DEF c
  <2>2. Truthful(c)
    BY <1>5, <1>6, <1>8, <2>1 DEF Truthful, incident
  <2> QED
    BY <2>2 DEF c
<1> QED
  BY <1>9, <1>10

\* What a built context tells the model is true for every feed and every limit: the
\* event itself, nothing outside the incident, no more events than allowed, and COMPLETE
\* exactly if no related event of the feed was left out and there is one besides the
\* current event (IncidentContextService.build).  Of a DEGRADED context it says nothing.
THEOREM TruthfulContext == Spec => []ContextIsTruthful
<1> DEFINE Told == Truthful(context)
<1>1. Init => Told
  BY DEF Init, NoContext, Truthful
<1>2. Told /\ [Next]_vars => Told'
  <2> SUFFICES ASSUME Told, [Next]_vars PROVE Truthful(context')
    BY DEF Truthful
  <2>1. Truthful(NoContext)
    BY DEF Truthful, NoContext
  <2>2. CASE BuildContext
    BY <2>2, ContextsAreTruthful, ContextAssumption DEF BuildContext
  <2>3. CASE RequestAnalysis
    BY <2>1, <2>3 DEF RequestAnalysis
  <2>4. CASE ~BuildContext /\ ~RequestAnalysis
    BY <2>4 DEF Next, vars, Receive, ContextUnavailable, Analyze, AnalyzeSimulated,
                AnalysisUnavailable, Judge, Execute, Complete, Fail, Break, SkipDuplicate
  <2> QED
    BY <2>2, <2>3, <2>4
<1>3. Told => ContextIsTruthful
  BY DEF Truthful, ContextIsTruthful
<1> HIDE DEF Told
<1> QED
  BY <1>1, <1>2, <1>3, PTL DEF Spec

-----------------------------------------------------------------------------
(***************************************************************************)
(* The process.  SlotInv is about who holds a slot and who waits for one;  *)
(* it needs no bound on the callers, for those who hold a slot are         *)
(* finitely many at any time.  LifeInv says what the phases of the process *)
(* mean for its work.                                                      *)
(***************************************************************************)

CallPc == {"idle", "accepted", "queued", "entering", "gate", "dispatched", "sleeping", "ended"}
CallRecord == [pc : CallPc, attempt : 0..MaxRetries, aborted : BOOLEAN]

HoldsAt(c, at) == at \in {"entering", "gate", "dispatched"} \/ (at = "sleeping" /\ c \in Enrichment)

Own(a) == {c \in Call : AdapterOf(c) = a}
Holders(a) == {c \in Own(a) : Holding(c)}

CountInv(a) == IsFiniteSet(Holders(a)) /\ active[a] = Cardinality(Holders(a))

\* Nobody waits while a slot is free; who is in the queue waits, and who waits is in the
\* queue, in one place.
QueueInv(a) ==
  /\ Len(queue[a]) <= MaxQueueSize
  /\ queue[a] # <<>> => active[a] = MaxConcurrency
  /\ \A i \in DOMAIN queue[a] : queue[a][i] \in Own(a) /\ call[queue[a][i]].pc = "queued"
  /\ \A c \in Own(a) : call[c].pc = "queued" => \E i \in DOMAIN queue[a] : queue[a][i] = c
  /\ \A i, j \in DOMAIN queue[a] : queue[a][i] = queue[a][j] => i = j

SlotInv == \A a \in Adapter : CountInv(a) /\ QueueInv(a)

\* No work is taken before the server listens; after the stop began, only on connections
\* that are left; and the database is closed behind the last of these and of the loop.
LifeInv ==
  /\ phase = "starting" => Idle /\ connected = {}
  /\ phase \in {"starting", "draining", "drained", "stopped"} => ~listening /\ ~looping
  /\ phase = "drained" => connected = {} /\ (LoopIdle \/ forced)
  /\ database = "closed" => phase = "stopped" /\ connected = {} /\ (LoopIdle \/ forced)

ProcessInv == ProcessTypeOK /\ SlotInv /\ LifeInv

-----------------------------------------------------------------------------
(* What a step of a call does to its limiter. *)

\* It moves on without the limiter,
Local(c) == \E r \in CallRecord :
  /\ call' = [call EXCEPT ![c] = r] /\ UNCHANGED <<active, queue>>
  /\ HoldsAt(c, r.pc) <=> Holding(c)
  /\ call[c].pc # "queued" /\ r.pc # "queued"

\* asks for a slot,
Takes(c) == ~Holding(c) /\ call[c].pc # "queued" /\ Acquire(c)

\* or gives one up.
Gives(c) == \E r \in CallRecord :
  /\ Holding(c) /\ ~HoldsAt(c, r.pc) /\ r.pc # "queued"
  /\ ReleaseAs(c, r)

LEMMA Records ==
  ASSUME CallTypeOK, NEW c \in Call
  PROVE  /\ call \in [Call -> CallRecord]
         /\ call[c] \in CallRecord
         /\ IdleCall \in CallRecord
         /\ \A at \in CallPc : [call[c] EXCEPT !.pc = at] \in CallRecord
         /\ \A at \in CallPc : [call[c] EXCEPT !.pc = at].pc = at
         /\ [call[c] EXCEPT !.aborted = TRUE] \in CallRecord
         /\ TimedOut(c) \in CallRecord /\ TimedOut(c).pc = "ended"
         /\ GoOn(call[c], "ended") \in CallRecord /\ GoOn(call[c], "ended").pc = "ended"
         /\ call[c].attempt < MaxRetries =>
              [call[c] EXCEPT !.pc = "sleeping", !.attempt = @ + 1] \in CallRecord
<1>1. call \in [Call -> CallRecord]
  BY DEF CallTypeOK, CallRecord, CallPc
<1>2. call[c] \in CallRecord
  BY <1>1
<1>3. /\ \A at \in CallPc : [call[c] EXCEPT !.pc = at] \in CallRecord
      /\ \A at \in CallPc : [call[c] EXCEPT !.pc = at].pc = at
      /\ [call[c] EXCEPT !.aborted = TRUE] \in CallRecord
  BY <1>2 DEF CallRecord
<1>4. TimedOut(c) \in CallRecord /\ TimedOut(c).pc = "ended"
  BY <1>2 DEF CallRecord, TimedOut, CallPc
<1>5. GoOn(call[c], "ended") \in CallRecord /\ GoOn(call[c], "ended").pc = "ended"
  BY <1>2 DEF CallRecord, GoOn, CallPc
<1>6. IdleCall \in CallRecord
  BY LimitsAssumption DEF IdleCall, CallRecord, CallPc
<1>7. ASSUME call[c].attempt < MaxRetries
      PROVE  [call[c] EXCEPT !.pc = "sleeping", !.attempt = @ + 1] \in CallRecord
  <2>1. call[c].attempt + 1 \in 0..MaxRetries
    BY <1>2, <1>7, LimitsAssumption DEF CallRecord
  <2> QED
    BY <1>2, <2>1 DEF CallRecord, CallPc
<1> QED
  BY <1>1, <1>2, <1>3, <1>4, <1>5, <1>6, <1>7

\* The end of an attempt gives the slot back, except for an enrichment that sleeps.
LEMMA AttemptEnds ==
  ASSUME CallTypeOK, NEW c \in Call, Holding(c), call[c].pc # "queued"
  PROVE  /\ EndAttempt(c) => Gives(c)
         /\ Backoff(c) => Gives(c) \/ Local(c)
<1>1. EndAttempt(c) => Gives(c)
  BY Records DEF EndAttempt, Gives, HoldsAt
<1>2. ASSUME Backoff(c) PROVE Gives(c) \/ Local(c)
  <2> DEFINE asleep == [call[c] EXCEPT !.pc = "sleeping", !.attempt = @ + 1]
  <2>1. asleep \in CallRecord
    BY <1>2, Records DEF Backoff
  <2>2. asleep.pc = "sleeping"
    BY Records DEF CallRecord
  <2>3. CASE c \in Analysis
    <3>1. ReleaseAs(c, asleep)
      BY <1>2, <2>3 DEF Backoff
    <3>2. c \notin Enrichment
      BY <2>3, CallersAssumption
    <3> QED
      BY <2>1, <2>2, <3>1, <3>2 DEF Gives, HoldsAt
  <2>4. CASE c \notin Analysis
    <3>1. call' = [call EXCEPT ![c] = asleep] /\ UNCHANGED <<active, queue>>
      BY <1>2, <2>4 DEF Backoff
    <3>2. c \in Enrichment
      BY <2>4 DEF Call
    <3> QED
      BY <2>1, <2>2, <3>1, <3>2 DEF Local, HoldsAt
  <2> QED
    BY <2>3, <2>4
<1> QED
  BY <1>1, <1>2

LEMMA CallMoves ==
  ASSUME CallTypeOK, NEW c \in Call, CallStep(c)
  PROVE  \/ Local(c) \/ Takes(c) \/ Gives(c) \/ LeaveQueue(c)
         \/ UNCHANGED <<call, active, queue>>
<1>1. CASE BeginOperation(c)
  BY <1>1 DEF BeginOperation, Takes, Holding
<1>2. CASE EnterAttempt(c)
  <2>1. Holding(c) /\ call[c].pc = "entering"
    BY <1>2 DEF EnterAttempt, Holding
  <2>2. CASE call[c].aborted
    BY <1>2, <2>1, <2>2, Records DEF EnterAttempt, Gives, HoldsAt
  <2>3. CASE ~call[c].aborted
    <3> DEFINE at == IF call[c].attempt = 0 THEN "dispatched" ELSE "gate"
               r == [call[c] EXCEPT !.pc = at]
    <3>1. call' = [call EXCEPT ![c] = r] /\ UNCHANGED <<active, queue>>
      BY <1>2, <2>3, Records DEF EnterAttempt
    <3>2. at \in {"dispatched", "gate"}
      OBVIOUS
    <3>3. r \in CallRecord /\ r.pc = at
      BY <3>2, Records DEF CallPc
    <3> HIDE DEF at, r
    <3> QED
      BY <2>1, <3>1, <3>2, <3>3 DEF Local, HoldsAt
  <2> QED
    BY <2>2, <2>3
<1>3. CASE WakeUp(c)
  <2>1. CASE c \in Analysis
    BY <1>3, <2>1, CallersAssumption DEF WakeUp, Takes, Holding
  <2>2. CASE c \notin Analysis
    <3> DEFINE r == [call[c] EXCEPT !.pc = "entering"]
    <3>1. call' = [call EXCEPT ![c] = r] /\ UNCHANGED <<active, queue>>
      BY <1>3, <2>2, Records DEF WakeUp
    <3>2. r \in CallRecord /\ r.pc = "entering"
      BY Records DEF CallPc
    <3>3. Holding(c) /\ call[c].pc = "sleeping"
      BY <1>3, <2>2 DEF WakeUp, Holding, Call
    <3> HIDE DEF r
    <3> QED
      BY <3>1, <3>2, <3>3 DEF Local, HoldsAt
  <2> QED
    BY <2>1, <2>2
<1>4. CASE GateOpens(c)
  <2> DEFINE r == [call[c] EXCEPT !.pc = "dispatched"]
  <2>1. call' = [call EXCEPT ![c] = r] /\ UNCHANGED <<active, queue>>
    BY <1>4, Records DEF GateOpens
  <2>2. r \in CallRecord /\ r.pc = "dispatched"
    BY Records DEF CallPc
  <2>3. Holding(c) /\ call[c].pc = "gate"
    BY <1>4 DEF GateOpens, Holding
  <2> HIDE DEF r
  <2> QED
    BY <2>1, <2>2, <2>3 DEF Local, HoldsAt
<1>5. CASE GateRefuses(c)
  BY <1>5, AttemptEnds DEF GateRefuses, Holding
<1>6. CASE ProviderAnswers(c)
  BY <1>6, AttemptEnds DEF ProviderAnswers, Holding
<1>7. CASE \E error \in ErrorKind : ProviderFails(c, error)
  BY <1>7, AttemptEnds DEF ProviderFails, Holding
<1>8. CASE RequestTimeout(c)
  BY <1>8, AttemptEnds DEF RequestTimeout, RejectUnheard, Holding
<1>9. CASE Deadline(c)
  <2>1. CASE /\ call[c].pc = "entering"
             /\ call' = [call EXCEPT ![c].aborted = TRUE]
             /\ UNCHANGED <<active, queue, process>>
    <3> DEFINE r == [call[c] EXCEPT !.aborted = TRUE]
    <3>1. call' = [call EXCEPT ![c] = r]
      BY <2>1, Records
    <3>2. r \in CallRecord /\ r.pc = "entering"
      BY <2>1, Records DEF CallRecord
    <3> HIDE DEF r
    <3> QED
      BY <2>1, <3>1, <3>2 DEF Local, HoldsAt, Holding
  <2>2. CASE /\ call[c].pc \in {"dispatched", "sleeping"} /\ Holding(c)
             /\ ReleaseAs(c, TimedOut(c))
    BY <2>2, Records DEF Gives, HoldsAt
  <2>3. CASE /\ call[c].pc = "sleeping" /\ ~Holding(c)
             /\ call' = [call EXCEPT ![c] = TimedOut(c)]
             /\ UNCHANGED <<active, queue, process>>
    BY <2>3, Records DEF Local, HoldsAt
  <2> QED
    BY <1>9, <2>1, <2>2, <2>3 DEF Deadline, RejectUnheard
<1> QED
  BY <1>1, <1>2, <1>3, <1>4, <1>5, <1>6, <1>7, <1>8, <1>9 DEF CallStep

-----------------------------------------------------------------------------
(* What that does to slots and queues. *)

\* A limiter none of whose calls moves.
LEMMA Undisturbed ==
  ASSUME NEW b \in Adapter, CountInv(b), QueueInv(b),
         active'[b] = active[b], queue'[b] = queue[b],
         \A d \in Own(b) : call'[d].pc = call[d].pc
  PROVE  CountInv(b)' /\ QueueInv(b)'
<1>1. Own(b)' = Own(b)
  BY DEF Own, AdapterOf, Call
<1>2. \A d \in Own(b) : Holding(d)' <=> Holding(d)
  BY DEF Holding
<1>3. Holders(b)' = Holders(b)
  BY <1>1, <1>2 DEF Holders
<1> QED
  BY <1>1, <1>3 DEF CountInv, QueueInv

\* One call moves, and one that it hands its slot to: other limiters see nothing.
LEMMA OtherLimiters ==
  ASSUME SlotInv, NEW a \in Adapter, NEW b \in Adapter \ {a}, NEW moved \in SUBSET Own(a),
         call \in [Call -> CallRecord],
         active' = [active EXCEPT ![a] = active'[a]] \/ active' = active,
         queue' = [queue EXCEPT ![a] = queue'[a]] \/ queue' = queue,
         \A d \in Call \ moved : call'[d] = call[d],
         CallTypeOK
  PROVE  CountInv(b)' /\ QueueInv(b)'
<1>1. active'[b] = active[b] /\ queue'[b] = queue[b]
  BY DEF CallTypeOK
<1>2. \A d \in Own(b) : d \in Call \ moved
  BY DEF Own
<1>3. \A d \in Own(b) : call'[d].pc = call[d].pc
  BY <1>2
<1> QED
  BY <1>1, <1>3, Undisturbed DEF SlotInv

LEMMA LocalKeeps ==
  ASSUME CallTypeOK, SlotInv, NEW c \in Call, Local(c)
  PROVE  SlotInv' /\ call' \in [Call -> CallRecord]
<1> DEFINE a == AdapterOf(c)
<1>1. PICK r \in CallRecord :
        /\ call' = [call EXCEPT ![c] = r] /\ UNCHANGED <<active, queue>>
        /\ HoldsAt(c, r.pc) <=> Holding(c)
        /\ call[c].pc # "queued" /\ r.pc # "queued"
  BY DEF Local
<1>2. call \in [Call -> CallRecord]
  BY Records
<1>3. \A d \in Call : call'[d] = IF d = c THEN r ELSE call[d]
  BY <1>1, <1>2
<1>4. \A d \in Call : Holding(d)' <=> Holding(d)
  BY <1>1, <1>3 DEF Holding, HoldsAt
<1>5. ASSUME NEW b \in Adapter PROVE CountInv(b)' /\ QueueInv(b)'
  <2>1. Own(b)' = Own(b) /\ Own(b) \subseteq Call
    BY DEF Own, AdapterOf, Call
  <2>2. Holders(b)' = Holders(b)
    BY <2>1, <1>4 DEF Holders
  <2>3. CountInv(b)'
    BY <1>1, <2>2 DEF SlotInv, CountInv
  <2>4. \A d \in Own(b) : call'[d].pc = "queued" <=> call[d].pc = "queued"
    BY <1>1, <1>3, <2>1
  <2>5. QueueInv(b)'
    <3>1. QueueInv(b) /\ active' = active /\ queue' = queue
      BY <1>1 DEF SlotInv
    <3>2. \A i \in DOMAIN queue[b] : queue[b][i] \in Own(b) /\ call'[queue[b][i]].pc = "queued"
      BY <3>1, <2>4 DEF QueueInv
    <3> QED
      BY <3>1, <3>2, <2>1, <2>4 DEF QueueInv
  <2> QED
    BY <2>3, <2>5
<1>6. call' \in [Call -> CallRecord]
  BY <1>1, <1>2
<1> QED
  BY <1>5, <1>6 DEF SlotInv

LEMMA TakesKeeps ==
  ASSUME CallTypeOK, SlotInv, NEW c \in Call, Takes(c)
  PROVE  process' = process => SlotInv' /\ CallTypeOK'
<1> SUFFICES ASSUME process' = process PROVE SlotInv' /\ CallTypeOK'
  OBVIOUS
<1> DEFINE a == AdapterOf(c)
           q == queue[a]
<1>1. a \in Adapter /\ c \in Own(a) /\ Own(a) \subseteq Call
  BY DEF AdapterOf, Adapter, Own
<1>2. call \in [Call -> CallRecord]
  BY Records
<1>3. q \in Seq(Call) /\ active[a] \in 0..MaxConcurrency
  BY <1>1 DEF CallTypeOK
<1>4. CountInv(a) /\ QueueInv(a)
  BY <1>1 DEF SlotInv
<1>5. Own(a)' = Own(a)
  BY DEF Own, AdapterOf, Call
<1> HIDE DEF a
<1>6. CASE active[a] < MaxConcurrency /\ active' = [active EXCEPT ![a] = @ + 1]
           /\ call' = [call EXCEPT ![c].pc = "entering"] /\ UNCHANGED queue
  <2>1. \A d \in Call : call'[d] = IF d = c THEN [call[c] EXCEPT !.pc = "entering"] ELSE call[d]
    BY <1>2, <1>6
  <2>2. call'[c].pc = "entering"
    <3>1. [call[c] EXCEPT !.pc = "entering"].pc = "entering"
      BY <1>2 DEF CallRecord
    <3> QED
      BY <2>1, <3>1
  <2>3. call' \in [Call -> CallRecord]
    BY <1>2, <1>6, Records DEF CallPc
  <2>4. c \notin Holders(a) /\ call[c].pc # "queued"
    BY DEF Takes, Holders
  <2>5. Holders(a)' = Holders(a) \cup {c}
    BY <1>1, <1>5, <2>1, <2>2 DEF Holders, Holding
  <2>6. CountInv(a)'
    <3>1. active'[a] = active[a] + 1
      BY <1>1, <1>6 DEF CallTypeOK
    <3> QED
      BY <1>4, <2>4, <2>5, <3>1, FS_AddElement DEF CountInv
  <2>7. q = <<>>
    BY <1>3, <1>4, <1>6, LimitsAssumption DEF QueueInv
  <2>8. QueueInv(a)'
    <3>1. queue'[a] = <<>> /\ DOMAIN queue'[a] = {}
      BY <1>6, <2>7
    <3>2. \A d \in Own(a) : call[d].pc # "queued"
      BY <1>4, <2>7 DEF QueueInv
    <3>3. \A d \in Own(a) : call'[d].pc # "queued"
      BY <1>1, <2>1, <2>2, <3>2
    <3> QED
      BY <3>1, <3>3, <1>5, LimitsAssumption DEF QueueInv
  <2>9. active' \in [Adapter -> 0..MaxConcurrency]
    BY <1>1, <1>3, <1>6, LimitsAssumption DEF CallTypeOK
  <2>10. CallTypeOK'
    BY <1>6, <2>3, <2>9 DEF CallTypeOK, CallRecord, CallPc
  <2>11. ASSUME NEW b \in Adapter \ {a} PROVE CountInv(b)' /\ QueueInv(b)'
    <3>1. /\ active' = [active EXCEPT ![a] = active'[a]]
          /\ queue' = queue
          /\ \A d \in Call \ {c} : call'[d] = call[d]
          /\ {c} \in SUBSET Own(a)
      BY <1>1, <1>6, <2>1 DEF CallTypeOK
    <3> QED
      BY <1>1, <1>2, <3>1, OtherLimiters
  <2> QED
    BY <2>6, <2>8, <2>10, <2>11 DEF SlotInv
<1>7. CASE active[a] >= MaxConcurrency /\ Len(q) < MaxQueueSize
           /\ queue' = [queue EXCEPT ![a] = Append(@, c)]
           /\ call' = [call EXCEPT ![c].pc = "queued"] /\ UNCHANGED active
  <2>1. \A d \in Call : call'[d] = IF d = c THEN [call[c] EXCEPT !.pc = "queued"] ELSE call[d]
    BY <1>2, <1>7
  <2>2. call'[c].pc = "queued"
    <3>1. [call[c] EXCEPT !.pc = "queued"].pc = "queued"
      BY <1>2 DEF CallRecord
    <3> QED
      BY <2>1, <3>1
  <2>3. call' \in [Call -> CallRecord]
    BY <1>2, <1>7, Records DEF CallPc
  <2>4. queue'[a] = Append(q, c)
    BY <1>1, <1>7 DEF CallTypeOK
  <2>5. /\ Append(q, c) \in Seq(Call) /\ Len(Append(q, c)) = Len(q) + 1
        /\ \A i \in 1..Len(q) : Append(q, c)[i] = q[i]
        /\ Append(q, c)[Len(q) + 1] = c
        /\ DOMAIN Append(q, c) = 1..(Len(q) + 1) /\ DOMAIN q = 1..Len(q) /\ Len(q) \in Nat
    BY <1>3, AppendProperties, LenProperties
  <2>6. \A d \in Own(a) : Holding(d)' <=> Holding(d)
    BY <1>1, <2>1, <2>2 DEF Takes, Holding
  <2>7. CountInv(a)'
    <3>1. Holders(a)' = Holders(a)
      BY <1>5, <2>6 DEF Holders
    <3> QED
      BY <1>4, <1>7, <3>1 DEF CountInv
  <2>8. \A i \in 1..Len(q) : q[i] # c /\ q[i] \in Own(a) /\ call'[q[i]].pc = "queued"
    <3>1. \A i \in 1..Len(q) : q[i] \in Own(a) /\ call[q[i]].pc = "queued"
      BY <1>4, <2>5 DEF QueueInv
    <3>2. call[c].pc # "queued"
      BY DEF Takes
    <3> QED
      BY <1>1, <2>1, <3>1, <3>2
  <2>9. QueueInv(a)'
    <3>1. Len(queue'[a]) <= MaxQueueSize
      BY <1>7, <2>4, <2>5, LimitsAssumption
    <3>2. active'[a] = MaxConcurrency
      BY <1>3, <1>7, LimitsAssumption
    <3>3. \A i \in DOMAIN queue'[a] : queue'[a][i] \in Own(a) /\ call'[queue'[a][i]].pc = "queued"
      <4> SUFFICES ASSUME NEW i \in 1..(Len(q) + 1)
                   PROVE  queue'[a][i] \in Own(a) /\ call'[queue'[a][i]].pc = "queued"
        BY <2>4, <2>5
      <4>1. i \in 1..Len(q) \/ i = Len(q) + 1
        BY <2>5
      <4> QED
        BY <1>1, <2>2, <2>4, <2>5, <2>8, <4>1
    <3>4. ASSUME NEW d \in Own(a), call'[d].pc = "queued"
          PROVE  \E i \in DOMAIN queue'[a] : queue'[a][i] = d
      <4>1. CASE d = c
        BY <2>4, <2>5, <4>1
      <4>2. CASE d # c
        <5>1. PICK i \in DOMAIN q : q[i] = d
          BY <1>1, <1>4, <2>1, <3>4, <4>2 DEF QueueInv
        <5> QED
          BY <2>4, <2>5, <5>1
      <4> QED
        BY <4>1, <4>2
    <3>5. ASSUME NEW i \in DOMAIN queue'[a], NEW j \in DOMAIN queue'[a], queue'[a][i] = queue'[a][j]
          PROVE  i = j
      <4>1. \A k, l \in 1..Len(q) : q[k] = q[l] => k = l
        BY <1>4, <2>5 DEF QueueInv
      <4>2. i \in 1..Len(q) \/ i = Len(q) + 1
        BY <2>4, <2>5
      <4>3. j \in 1..Len(q) \/ j = Len(q) + 1
        BY <2>4, <2>5
      <4> QED
        BY <2>4, <2>5, <2>8, <3>5, <4>1, <4>2, <4>3
    <3> QED
      BY <1>5, <3>1, <3>2, <3>3, <3>4, <3>5 DEF QueueInv
  <2>10. queue' \in [Adapter -> Seq(Call)]
    BY <1>7, <2>5 DEF CallTypeOK
  <2>11. CallTypeOK'
    BY <1>7, <2>3, <2>10 DEF CallTypeOK, CallRecord, CallPc
  <2>12. ASSUME NEW b \in Adapter \ {a} PROVE CountInv(b)' /\ QueueInv(b)'
    <3>1. /\ queue' = [queue EXCEPT ![a] = queue'[a]]
          /\ active' = active
          /\ \A d \in Call \ {c} : call'[d] = call[d]
          /\ {c} \in SUBSET Own(a)
      BY <1>1, <1>7, <2>1 DEF CallTypeOK
    <3> QED
      BY <1>1, <1>2, <3>1, OtherLimiters
  <2> QED
    BY <2>7, <2>9, <2>11, <2>12 DEF SlotInv
<1>8. CASE call' = [call EXCEPT ![c].pc = "ended"] /\ UNCHANGED <<active, queue>>
  <2> DEFINE r == [call[c] EXCEPT !.pc = "ended"]
  <2>1. call' = [call EXCEPT ![c] = r]
    BY <1>2, <1>8
  <2>2. r \in CallRecord /\ r.pc = "ended"
    BY Records DEF CallPc
  <2> HIDE DEF r
  <2>3. Local(c)
    BY <1>8, <2>1, <2>2 DEF Local, Takes, HoldsAt
  <2> QED
    BY <1>8, <2>3, LocalKeeps DEF CallTypeOK, CallRecord, CallPc
<1> QED
  BY <1>6, <1>7, <1>8 DEF Takes, Acquire, a

LEMMA GivesKeeps ==
  ASSUME CallTypeOK, SlotInv, NEW c \in Call, Gives(c), process' = process
  PROVE  SlotInv' /\ CallTypeOK'
<1> DEFINE a == AdapterOf(c)
           q == queue[a]
<1>1. PICK r \in CallRecord : Holding(c) /\ ~HoldsAt(c, r.pc) /\ r.pc # "queued" /\ ReleaseAs(c, r)
  BY DEF Gives
<1>2. a \in Adapter /\ c \in Own(a) /\ Own(a) \subseteq Call
  BY DEF AdapterOf, Adapter, Own
<1>3. call \in [Call -> CallRecord]
  BY Records
<1>4. q \in Seq(Call) /\ active[a] \in 0..MaxConcurrency
  BY <1>2 DEF CallTypeOK
<1>5. CountInv(a) /\ QueueInv(a)
  BY <1>2 DEF SlotInv
<1>6. Own(a)' = Own(a)
  BY DEF Own, AdapterOf, Call
<1>7. c \in Holders(a) /\ call[c].pc # "queued"
  BY <1>1, <1>2 DEF Holders, Holding
<1>8. /\ IsFiniteSet(Holders(a) \ {c}) /\ Cardinality(Holders(a) \ {c}) \in Nat
      /\ Cardinality(Holders(a) \ {c}) = active[a] - 1
  BY <1>5, <1>7, FS_RemoveElement, FS_CardinalityType DEF CountInv
<1>9. ReleaseAs(c, r) =>
        IF q = <<>>
        THEN /\ active' = [active EXCEPT ![a] = @ - 1]
             /\ call' = [call EXCEPT ![c] = r]
             /\ UNCHANGED queue
        ELSE /\ queue' = [queue EXCEPT ![a] = Tail(@)]
             /\ call' = [call EXCEPT ![c] = r, ![Head(q)].pc = "entering"]
             /\ UNCHANGED active
  BY DEF ReleaseAs
<1> HIDE DEF a
<1>10. CASE q = <<>>
  <2>1. /\ active' = [active EXCEPT ![a] = @ - 1]
        /\ call' = [call EXCEPT ![c] = r]
        /\ queue' = queue
    BY <1>1, <1>9, <1>10
  <2>2. \A d \in Call : call'[d] = IF d = c THEN r ELSE call[d]
    BY <1>3, <2>1
  <2>3. call' \in [Call -> CallRecord]
    BY <1>3, <2>1
  <2>4. ~Holding(c)'
    BY <1>1, <2>2 DEF Holding, HoldsAt
  <2>5. \A d \in Own(a) : d # c => (Holding(d)' <=> Holding(d))
    BY <1>2, <2>2 DEF Holding
  <2>6. Holders(a)' = Holders(a) \ {c}
    BY <1>6, <2>4, <2>5 DEF Holders
  <2>7. active'[a] = active[a] - 1
    BY <1>2, <2>1 DEF CallTypeOK
  <2>8. CountInv(a)'
    BY <1>8, <2>6, <2>7 DEF CountInv
  <2>9. \A d \in Own(a) : call[d].pc # "queued"
    BY <1>5, <1>10 DEF QueueInv
  <2>10. \A d \in Own(a) : call'[d].pc # "queued"
    BY <1>1, <1>2, <2>2, <2>9
  <2>11. QueueInv(a)'
    <3>1. queue'[a] = <<>> /\ DOMAIN queue'[a] = {} /\ Len(queue'[a]) = 0
      BY <1>10, <2>1
    <3> QED
      BY <1>6, <2>10, <3>1, LimitsAssumption DEF QueueInv
  <2>12. active' \in [Adapter -> 0..MaxConcurrency]
    <3>1. active[a] - 1 \in 0..MaxConcurrency
      BY <1>4, <1>8, LimitsAssumption
    <3> QED
      BY <2>1, <3>1 DEF CallTypeOK
  <2>13. CallTypeOK'
    BY <2>1, <2>3, <2>12 DEF CallTypeOK, CallRecord, CallPc
  <2>14. ASSUME NEW b \in Adapter \ {a} PROVE CountInv(b)' /\ QueueInv(b)'
    <3>1. /\ active' = [active EXCEPT ![a] = active'[a]]
          /\ queue' = queue
          /\ \A d \in Call \ {c} : call'[d] = call[d]
          /\ {c} \in SUBSET Own(a)
      BY <1>2, <2>1, <2>2 DEF CallTypeOK
    <3> QED
      BY <1>2, <1>3, <3>1, OtherLimiters
  <2> QED
    BY <2>8, <2>11, <2>13, <2>14 DEF SlotInv
<1>11. CASE q # <<>>
  <2>2. /\ DOMAIN q = 1..Len(q) /\ Len(q) \in Nat \ {0} /\ Head(q) = q[1]
        /\ Tail(q) \in Seq(Call) /\ Len(Tail(q)) = Len(q) - 1
        /\ \A i \in 1..(Len(q) - 1) : Tail(q)[i] = q[i + 1]
        /\ DOMAIN Tail(q) = 1..(Len(q) - 1)
    BY <1>4, <1>11, EmptySeq, LenProperties, HeadTailProperties
  <2>20. Head(q) \in Own(a)
    BY <1>5, <2>2 DEF QueueInv
  <2>21. PICK h \in Own(a) : h = Head(q)
    BY <2>20
  <2>1. /\ queue' = [queue EXCEPT ![a] = Tail(@)]
        /\ call' = [call EXCEPT ![c] = r, ![h].pc = "entering"]
        /\ active' = active
    BY <1>1, <1>9, <1>11, <2>21
  <2>3. h = q[1] /\ call[h].pc = "queued" /\ h # c
    BY <1>5, <1>7, <2>2, <2>21 DEF QueueInv
  <2>4. [call[h] EXCEPT !.pc = "entering"] \in CallRecord
        /\ [call[h] EXCEPT !.pc = "entering"].pc = "entering"
    BY <1>2, <2>3, Records DEF CallPc
  <2>5. \A d \in Call : call'[d] = IF d = h THEN [call[h] EXCEPT !.pc = "entering"]
                                   ELSE IF d = c THEN r ELSE call[d]
    BY <1>2, <1>3, <2>1, <2>3
  <2>6. call' \in [Call -> CallRecord]
    BY <1>3, <2>1, <2>4, <2>5
  <2>7. call'[h].pc = "entering"
    <3>1. call'[h] = [call[h] EXCEPT !.pc = "entering"]
      BY <1>2, <2>3, <2>5
    <3> QED
      BY <2>4, <3>1
  <2>8. call'[c] = r
    BY <2>3, <2>5
  <2>9. ~Holding(c)'
    BY <1>1, <2>8 DEF Holding, HoldsAt
  <2>18. Holding(h)' /\ ~Holding(h)
    BY <2>3, <2>7 DEF Holding
  <2>19. \A d \in Own(a) : d # c /\ d # h => (Holding(d)' <=> Holding(d))
    BY <1>2, <2>5 DEF Holding
  <2>10. Holders(a)' = (Holders(a) \ {c}) \cup {h} /\ h \notin Holders(a) \ {c}
    <3>1. Holders(a)' = {d \in Own(a) : Holding(d)'}
      BY <1>6 DEF Holders
    <3>2. Holders(a) = {d \in Own(a) : Holding(d)}
      BY DEF Holders
    <3> QED
      BY <2>3, <2>9, <2>18, <2>19, <3>1, <3>2
  <2>11. CountInv(a)'
    <3>1. /\ IsFiniteSet((Holders(a) \ {c}) \cup {h})
          /\ Cardinality((Holders(a) \ {c}) \cup {h}) = Cardinality(Holders(a) \ {c}) + 1
      BY <1>8, <2>10, FS_AddElement
    <3> QED
      BY <1>4, <1>8, <2>1, <2>10, <3>1, LimitsAssumption DEF CountInv
  <2>12. queue'[a] = Tail(q)
    BY <1>2, <2>1 DEF CallTypeOK
  <2>13. \A i, j \in 1..Len(q) : q[i] = q[j] => i = j
    BY <1>5, <2>2 DEF QueueInv
  <2>14. QueueInv(a)'
    <3>1. Len(queue'[a]) <= MaxQueueSize
      BY <1>5, <2>2, <2>12, LimitsAssumption DEF QueueInv
    <3>2. active'[a] = MaxConcurrency
      BY <1>5, <1>11, <2>1 DEF QueueInv
    <3>3. ASSUME NEW i \in DOMAIN queue'[a]
          PROVE  queue'[a][i] \in Own(a) /\ call'[queue'[a][i]].pc = "queued"
      <4>1. i + 1 \in 1..Len(q) /\ queue'[a][i] = q[i + 1] /\ i + 1 # 1
        BY <2>2, <2>12
      <4>2. q[i + 1] \in Own(a) /\ call[q[i + 1]].pc = "queued" /\ q[i + 1] # h
        BY <1>5, <2>2, <2>3, <2>13, <4>1 DEF QueueInv
      <4> QED
        BY <1>2, <1>7, <2>5, <4>1, <4>2
    <3>4. ASSUME NEW d \in Own(a), call'[d].pc = "queued"
          PROVE  \E i \in DOMAIN queue'[a] : queue'[a][i] = d
      <4>1. d # c /\ d # h /\ call[d].pc = "queued"
        BY <1>1, <1>2, <2>5, <2>7, <2>8, <3>4
      <4>2. PICK i \in 1..Len(q) : q[i] = d
        BY <1>5, <2>2, <4>1 DEF QueueInv
      <4>4. i # 1
        BY <2>3, <4>1, <4>2
      <4>3. i - 1 \in 1..(Len(q) - 1) /\ q[(i - 1) + 1] = d
        BY <2>2, <4>2, <4>4
      <4> QED
        BY <2>2, <2>12, <4>3
    <3>5. ASSUME NEW i \in DOMAIN queue'[a], NEW j \in DOMAIN queue'[a], queue'[a][i] = queue'[a][j]
          PROVE  i = j
      <4>1. i + 1 \in 1..Len(q) /\ j + 1 \in 1..Len(q) /\ q[i + 1] = q[j + 1]
        BY <2>2, <2>12, <3>5
      <4>2. i + 1 = j + 1
        BY <2>13, <4>1
      <4> QED
        BY <2>2, <2>12, <4>2
    <3> QED
      BY <1>6, <3>1, <3>2, <3>3, <3>4, <3>5 DEF QueueInv
  <2>15. queue' \in [Adapter -> Seq(Call)]
    BY <2>1, <2>2 DEF CallTypeOK
  <2>16. CallTypeOK'
    BY <2>1, <2>6, <2>15 DEF CallTypeOK, CallRecord, CallPc
  <2>17. ASSUME NEW b \in Adapter \ {a} PROVE CountInv(b)' /\ QueueInv(b)'
    <3>1. /\ queue' = [queue EXCEPT ![a] = queue'[a]]
          /\ active' = active
          /\ \A d \in Call \ {c, h} : call'[d] = call[d]
          /\ {c, h} \in SUBSET Own(a)
      BY <1>2, <2>1, <2>3, <2>5, <2>12 DEF CallTypeOK
    <3> QED
      BY <1>2, <1>3, <3>1, OtherLimiters
  <2> QED
    BY <2>11, <2>14, <2>16, <2>17 DEF SlotInv
<1> QED
  BY <1>10, <1>11

\* A waiter that gives up leaves a gap that closes behind it.
LEMMA LeavingKeeps ==
  ASSUME CallTypeOK, SlotInv, NEW c \in Call, LeaveQueue(c)
  PROVE  SlotInv' /\ CallTypeOK'
<1> DEFINE a == AdapterOf(c)
           q == queue[a]
<1>1. a \in Adapter /\ c \in Own(a) /\ Own(a) \subseteq Call
  BY DEF AdapterOf, Adapter, Own
<1>2. q \in Seq(Call) /\ active[a] \in 0..MaxConcurrency
  BY <1>1 DEF CallTypeOK
<1>3. PICK n \in DOMAIN q : q[n] = c /\ queue' = [queue EXCEPT ![a] = RemoveAt(@, n)]
  BY DEF LeaveQueue
<1>4. call[c].pc = "queued" /\ call' = [call EXCEPT ![c] = TimedOut(c)] /\ UNCHANGED <<active, process>>
  BY DEF LeaveQueue
<1>5. call \in [Call -> CallRecord]
  BY Records
<1>6. CountInv(a) /\ QueueInv(a)
  BY <1>1 DEF SlotInv
<1>7. Own(a)' = Own(a)
  BY DEF Own, AdapterOf, Call
<1> DEFINE s == RemoveAt(q, n)
<1>8. DOMAIN q = 1..Len(q) /\ Len(q) \in Nat /\ n \in 1..Len(q)
  BY <1>2, LenProperties
<1>9. /\ s \in Seq(Call) /\ Len(s) = Len(q) - 1 /\ DOMAIN s = 1..(Len(q) - 1)
      /\ \A i \in 1..(Len(q) - 1) : s[i] = IF i < n THEN q[i] ELSE q[i + 1]
  <2> DEFINE front == SubSeq(q, 1, n - 1)
             back == SubSeq(q, n + 1, Len(q))
  <2>1. /\ front \in Seq(Call) /\ Len(front) = n - 1
        /\ \A i \in 1..(n - 1) : front[i] = q[i]
    BY <1>2, <1>8
  <2>2. /\ back \in Seq(Call) /\ Len(back) = Len(q) - n
        /\ \A i \in 1..(Len(q) - n) : back[i] = q[n + i]
    BY <1>2, <1>8
  <2>3. s = front \o back
    BY DEF RemoveAt
  <2> HIDE DEF front, back, s
  <2>4. /\ s \in Seq(Call) /\ Len(s) = Len(front) + Len(back)
        /\ \A i \in 1..(Len(front) + Len(back)) :
             s[i] = IF i <= Len(front) THEN front[i] ELSE back[i - Len(front)]
    BY <2>1, <2>2, <2>3, ConcatProperties
  <2>5. Len(s) = Len(q) - 1 /\ DOMAIN s = 1..(Len(q) - 1)
    BY <1>8, <2>1, <2>2, <2>4, LenProperties
  <2>6. ASSUME NEW i \in 1..(Len(q) - 1) PROVE s[i] = IF i < n THEN q[i] ELSE q[i + 1]
    <3>1. CASE i < n
      BY <1>8, <2>1, <2>2, <2>4, <3>1
    <3>2. CASE i >= n
      <4>3. /\ Len(front) + Len(back) = Len(q) - 1 /\ ~(i <= Len(front))
            /\ i - Len(front) = i - (n - 1) /\ i - (n - 1) \in 1..(Len(q) - n)
        <5>1. n \in Int /\ i \in Int /\ Len(q) \in Int /\ i >= n /\ i <= Len(q) - 1 /\ n <= Len(q) /\ n >= 1
          BY <1>8, <3>2
        <5>2. Len(front) = n - 1 /\ Len(back) = Len(q) - n
          BY <2>1, <2>2
        <5> HIDE DEF q
        <5>3. Len(front) + Len(back) = Len(q) - 1 /\ i - Len(front) = i - (n - 1)
          BY <5>1, <5>2
        <5>4. ~(i <= Len(front)) /\ i - (n - 1) \in 1..(Len(q) - n)
          BY <5>1, <5>2
        <5> QED
          BY <5>3, <5>4
      <4>1. s[i] = back[i - (n - 1)] /\ i - (n - 1) \in 1..(Len(q) - n)
        BY <2>4, <4>3
      <4>2. back[i - (n - 1)] = q[n + (i - (n - 1))]
        BY <2>2, <4>1
      <4> QED
        BY <1>8, <3>2, <4>1, <4>2
    <3> QED
      BY <1>8, <3>1, <3>2
  <2> QED
    BY <2>4, <2>5, <2>6
<1> HIDE DEF s, a
<1>10. queue'[a] = s
  BY <1>1, <1>3 DEF CallTypeOK, s
<1>11. \A d \in Call : call'[d] = IF d = c THEN TimedOut(c) ELSE call[d]
  BY <1>4, <1>5
<1>12. call' \in [Call -> CallRecord] /\ call'[c].pc = "ended"
  BY <1>4, <1>5, <1>11, Records
<1>13. \A d \in Own(a) : Holding(d)' <=> Holding(d)
  BY <1>1, <1>4, <1>11, <1>12 DEF Holding
<1>14. CountInv(a)'
  <2>1. Holders(a)' = Holders(a)
    BY <1>7, <1>13 DEF Holders
  <2> QED
    BY <1>4, <1>6, <2>1 DEF CountInv
<1>15. \A i, j \in 1..Len(q) : q[i] = q[j] => i = j
  BY <1>6, <1>8 DEF QueueInv
<1>16. QueueInv(a)'
  <2>1. Len(queue'[a]) <= MaxQueueSize
    BY <1>6, <1>8, <1>9, <1>10, LimitsAssumption DEF QueueInv
  <2>2. active'[a] = MaxConcurrency
    <3>1. q # <<>>
      BY <1>8
    <3> QED
      BY <1>4, <1>6, <3>1 DEF QueueInv
  <2>3. ASSUME NEW i \in DOMAIN queue'[a]
        PROVE  queue'[a][i] \in Own(a) /\ call'[queue'[a][i]].pc = "queued"
    <3>1. PICK k \in 1..Len(q) : queue'[a][i] = q[k] /\ k # n
      BY <1>8, <1>9, <1>10
    <3>2. q[k] \in Own(a) /\ call[q[k]].pc = "queued" /\ q[k] # c
      BY <1>3, <1>6, <1>8, <1>15, <3>1 DEF QueueInv
    <3> QED
      BY <1>1, <1>11, <3>1, <3>2
  <2>4. ASSUME NEW d \in Own(a), call'[d].pc = "queued"
        PROVE  \E i \in DOMAIN queue'[a] : queue'[a][i] = d
    <3>1. d # c /\ call[d].pc = "queued"
      BY <1>1, <1>11, <1>12, <2>4
    <3>2. PICK k \in 1..Len(q) : q[k] = d
      BY <1>6, <1>8, <3>1 DEF QueueInv
    <3>3. k # n
      BY <1>3, <3>1, <3>2
    <3>4. CASE k < n
      BY <1>8, <1>9, <1>10, <3>2, <3>4
    <3>5. CASE k > n
      <4>1. k - 1 \in 1..(Len(q) - 1) /\ ~(k - 1 < n) /\ (k - 1) + 1 = k
        BY <1>8, <3>5
      <4>2. s[k - 1] = d
        BY <1>9, <3>2, <4>1
      <4> QED
        BY <1>9, <1>10, <4>1, <4>2
    <3> QED
      BY <1>8, <3>3, <3>4, <3>5
  <2>5. ASSUME NEW i \in DOMAIN queue'[a], NEW j \in DOMAIN queue'[a], queue'[a][i] = queue'[a][j]
        PROVE  i = j
    <3> DEFINE at(k) == IF k < n THEN k ELSE k + 1
    <3>1. /\ at(i) \in 1..Len(q) /\ queue'[a][i] = q[at(i)]
          /\ at(j) \in 1..Len(q) /\ queue'[a][j] = q[at(j)]
      BY <1>8, <1>9, <1>10
    <3>2. at(i) = at(j)
      BY <1>15, <2>5, <3>1
    <3> QED
      BY <1>8, <1>9, <1>10, <3>2
  <2> QED
    BY <1>7, <2>1, <2>2, <2>3, <2>4, <2>5 DEF QueueInv
<1>17. queue' \in [Adapter -> Seq(Call)]
  BY <1>1, <1>3, <1>9 DEF CallTypeOK, s
<1>18. CallTypeOK'
  BY <1>4, <1>12, <1>17 DEF CallTypeOK, CallRecord, CallPc
<1>19. ASSUME NEW b \in Adapter \ {a} PROVE CountInv(b)' /\ QueueInv(b)'
  <2>1. /\ queue' = [queue EXCEPT ![a] = queue'[a]]
        /\ active' = active
        /\ \A d \in Call \ {c} : call'[d] = call[d]
        /\ {c} \in SUBSET Own(a)
    BY <1>1, <1>3, <1>4, <1>10, <1>11 DEF CallTypeOK, s
  <2> QED
    BY <1>1, <1>5, <2>1, OtherLimiters
<1> QED
  BY <1>14, <1>16, <1>18, <1>19 DEF SlotInv

-----------------------------------------------------------------------------
(* The steps of the process. *)

\* A call that steps is under way; it ends the process or leaves that alone.
LEMMA StepsOfCalls ==
  ASSUME NEW c \in Call, CallStep(c)
  PROVE  /\ call[c].pc # "idle"
         /\ process' = process \/ (process' = "crashed" /\ UNCHANGED <<call, active, queue>>)
<1>1. CASE BeginOperation(c)
  BY <1>1 DEF BeginOperation
<1>2. CASE EnterAttempt(c) \/ WakeUp(c) \/ GateOpens(c) \/ GateRefuses(c) \/ ProviderAnswers(c)
  BY <1>2 DEF EnterAttempt, WakeUp, GateOpens, GateRefuses, ProviderAnswers
<1>3. CASE \E error \in ErrorKind : ProviderFails(c, error)
  BY <1>3 DEF ProviderFails
<1>4. CASE RequestTimeout(c)
  BY <1>4 DEF RequestTimeout, RejectUnheard
<1>5. CASE Deadline(c)
  BY <1>5 DEF Deadline, LeaveQueue, RejectUnheard
<1> QED
  BY <1>1, <1>2, <1>3, <1>4, <1>5 DEF CallStep

LEMMA WorkKeeps ==
  ASSUME CallTypeOK, SlotInv, NEW c \in Call, CallStep(c)
  PROVE  SlotInv' /\ CallTypeOK'
<1>1. CASE UNCHANGED <<call, active, queue>>
  <2>1. process' \in {"up", "crashed", "exited"}
    BY StepsOfCalls DEF CallTypeOK
  <2>2. CallTypeOK'
    BY <1>1, <2>1 DEF CallTypeOK
  <2>3. ASSUME NEW b \in Adapter PROVE CountInv(b)' /\ QueueInv(b)'
    BY <1>1, Undisturbed DEF SlotInv
  <2> QED
    BY <2>2, <2>3 DEF SlotInv
<1>2. CASE process' = process
  <2>1. CASE Local(c)
    <3>1. SlotInv' /\ call' \in [Call -> CallRecord]
      BY <2>1, LocalKeeps
    <3> QED
      BY <1>2, <2>1, <3>1 DEF Local, CallTypeOK, CallRecord, CallPc
  <2>2. CASE Takes(c)
    BY <1>2, <2>2, TakesKeeps
  <2>3. CASE Gives(c)
    BY <1>2, <2>3, GivesKeeps
  <2>4. CASE LeaveQueue(c)
    BY <2>4, LeavingKeeps
  <2> QED
    BY <1>1, <2>1, <2>2, <2>3, <2>4, CallMoves
<1> QED
  BY <1>1, <1>2, StepsOfCalls

\* A call that is accepted or concluded is neither in a slot nor in the queue.
LEMMA EntersOrLeaves ==
  ASSUME CallTypeOK, SlotInv, NEW c \in Call, NEW r \in CallRecord,
         call[c].pc \in {"idle", "ended"}, r.pc \in {"idle", "accepted"},
         call' = [call EXCEPT ![c] = r], UNCHANGED <<active, queue, process>>
  PROVE  SlotInv' /\ CallTypeOK'
<1>1. Local(c)
  BY DEF Local, HoldsAt, Holding
<1>2. SlotInv' /\ call' \in [Call -> CallRecord]
  BY <1>1, LocalKeeps
<1> QED
  BY <1>2 DEF CallTypeOK, CallRecord, CallPc

\* Nobody is set to work by the step of another: a slot goes to one who waits for it.
LEMMA IdleStays ==
  ASSUME CallTypeOK, SlotInv, NEW c \in Call, CallStep(c), NEW d \in Call, call[d].pc = "idle"
  PROVE  call'[d].pc = "idle"
<1>1. c # d /\ call \in [Call -> CallRecord]
  BY StepsOfCalls, Records
<1>2. CASE UNCHANGED <<call, active, queue>>
  BY <1>2
<1>3. CASE Local(c)
  BY <1>1, <1>3 DEF Local
<1>4. CASE Takes(c)
  BY <1>1, <1>4 DEF Takes, Acquire
<1>5. CASE Gives(c)
  <2> DEFINE a == AdapterOf(c)
             h == Head(queue[a])
  <2>1. PICK r \in CallRecord : ReleaseAs(c, r)
    BY <1>5 DEF Gives
  <2>2. CASE queue[a] = <<>>
    BY <1>1, <2>1, <2>2 DEF ReleaseAs
  <2>3. CASE queue[a] # <<>>
    <3>1. a \in Adapter /\ queue[a] \in Seq(Call)
      BY DEF AdapterOf, Adapter, CallTypeOK
    <3>2. h = queue[a][1] /\ 1 \in DOMAIN queue[a]
      BY <2>3, <3>1
    <3>3. h \in Call /\ call[h].pc = "queued"
      BY <3>1, <3>2 DEF SlotInv, QueueInv, Own
    <3>4. call' = [call EXCEPT ![c] = r, ![h].pc = "entering"]
      BY <2>1, <2>3 DEF ReleaseAs
    <3> HIDE DEF h
    <3> QED
      BY <1>1, <3>3, <3>4
  <2> QED
    BY <2>2, <2>3
<1>6. CASE LeaveQueue(c)
  BY <1>1, <1>6 DEF LeaveQueue
<1> QED
  BY <1>2, <1>3, <1>4, <1>5, <1>6, CallMoves

LEMMA SameCalls ==
  ASSUME CallTypeOK, SlotInv, UNCHANGED <<call, active, queue>>,
         process' \in {"up", "crashed", "exited"}
  PROVE  SlotInv' /\ CallTypeOK' /\ (Idle' <=> Idle) /\ (LoopIdle' <=> LoopIdle)
<1>1. CallTypeOK'
  BY DEF CallTypeOK
<1>2. ASSUME NEW b \in Adapter PROVE CountInv(b)' /\ QueueInv(b)'
  BY Undisturbed DEF SlotInv
<1>3. (Idle' <=> Idle) /\ (LoopIdle' <=> LoopIdle)
  BY DEF Idle, LoopIdle, Call
<1> QED
  BY <1>1, <1>2, <1>3 DEF SlotInv

LEMMA InitProcess == ProcessInit => ProcessInv
<1> SUFFICES ASSUME ProcessInit PROVE ProcessInv
  OBVIOUS
<1>1. call = [c \in Call |-> IdleCall] /\ IdleCall \in CallRecord /\ IdleCall.pc = "idle"
  BY LimitsAssumption DEF ProcessInit, CallInit, IdleCall, CallRecord, CallPc
<1>2. \A c \in Call : call[c].pc = "idle"
  BY <1>1
<1>3. active = [a \in Adapter |-> 0] /\ queue = [a \in Adapter |-> <<>>] /\ process = "up"
  BY DEF ProcessInit, CallInit
<1>4. ProcessTypeOK
  <2>1. call \in [Call -> CallRecord]
    BY <1>1
  <2>2. active \in [Adapter -> 0..MaxConcurrency]
    BY <1>3, LimitsAssumption
  <2>3. queue \in [Adapter -> Seq(Call)]
    BY <1>3
  <2> QED
    BY <1>3, <2>1, <2>2, <2>3 DEF ProcessInit, ProcessTypeOK, CallTypeOK, CallRecord, CallPc
<1>5. ASSUME NEW a \in Adapter PROVE CountInv(a) /\ QueueInv(a)
  <2>1. Holders(a) = {}
    BY <1>2 DEF Holders, Own, Holding
  <2>2. CountInv(a)
    BY <1>3, <2>1, FS_EmptySet DEF CountInv
  <2>3. queue[a] = <<>> /\ DOMAIN queue[a] = {} /\ Len(queue[a]) = 0
    BY <1>3
  <2>4. QueueInv(a)
    BY <1>2, <2>3, LimitsAssumption DEF QueueInv, Own
  <2> QED
    BY <2>2, <2>4
<1>6. LifeInv
  BY <1>2 DEF ProcessInit, LifeInv, Idle
<1> QED
  BY <1>4, <1>5, <1>6 DEF ProcessInv, SlotInv

LEMMA NextProcess == ProcessInv /\ [ProcessNext]_processVars => ProcessInv'
<1> SUFFICES ASSUME ProcessInv, [ProcessNext]_processVars PROVE ProcessInv'
  OBVIOUS
<1>0. ProcessTypeOK /\ CallTypeOK /\ SlotInv /\ LifeInv
  BY DEF ProcessInv, ProcessTypeOK
<1>1. CASE Listen \/ StartupFails \/ BecomeReady \/ Stop \/ Drained \/ DrainTimeout \/ ShutdownTimeout
           \/ (\E done \in BOOLEAN : Disconnect(done)) \/ (\E c \in Call : CloseConnection(c))
  <2>1. UNCHANGED callVars
    BY <1>1 DEF Listen, StartupFails, BecomeReady, Stop, Drained, DrainTimeout, ShutdownTimeout,
                Disconnect, CloseConnection
  <2>2. SlotInv' /\ CallTypeOK' /\ (Idle' <=> Idle) /\ (LoopIdle' <=> LoopIdle)
    BY <1>0, <2>1, SameCalls DEF callVars, CallTypeOK
  <2>3. ProcessTypeOK'
    BY <1>0, <1>1, <2>2
       DEF ProcessTypeOK, Listen, StartupFails, BecomeReady, Stop, Drained, DrainTimeout,
           ShutdownTimeout, Disconnect, CloseConnection
  <2>4. LifeInv'
    <3>1. CASE Listen \/ StartupFails \/ BecomeReady
      <4>1. CASE Listen
        BY <1>0, <2>2, <4>1 DEF LifeInv, ProcessTypeOK, Listen
      <4>2. CASE StartupFails
        <5>1. Idle => LoopIdle
          BY DEF Idle, LoopIdle, Call
        <5> QED
          BY <1>0, <2>2, <4>2, <5>1 DEF LifeInv, ProcessTypeOK, StartupFails
      <4>3. CASE BecomeReady
        BY <1>0, <2>2, <4>3 DEF LifeInv, ProcessTypeOK, BecomeReady
      <4> QED
        BY <3>1, <4>1, <4>2, <4>3
    <3>2. CASE Stop \/ Drained \/ DrainTimeout
      BY <1>0, <2>2, <3>2 DEF LifeInv, ProcessTypeOK, Stop, Drained, DrainTimeout
    <3>3. CASE ShutdownTimeout \/ (\E done \in BOOLEAN : Disconnect(done))
      BY <1>0, <2>2, <3>3 DEF LifeInv, ProcessTypeOK, ShutdownTimeout, Disconnect
    <3>4. CASE \E c \in Call : CloseConnection(c)
      BY <1>0, <2>2, <3>4 DEF LifeInv, ProcessTypeOK, CloseConnection
    <3> QED
      BY <1>1, <3>1, <3>2, <3>3, <3>4
  <2> QED
    BY <2>2, <2>3, <2>4 DEF ProcessInv
<1>2. CASE Exit \/ UNCHANGED processVars
  <2>1. UNCHANGED <<call, active, queue, lifeVars>> /\ process' \in {"up", "crashed", "exited"}
    BY <1>0, <1>2 DEF Exit, processVars, callVars, CallTypeOK
  <2>2. SlotInv' /\ CallTypeOK' /\ (Idle' <=> Idle) /\ (LoopIdle' <=> LoopIdle)
    BY <1>0, <2>1, SameCalls
  <2> QED
    BY <1>0, <2>1, <2>2 DEF ProcessInv, ProcessTypeOK, LifeInv, lifeVars
<1>3. ASSUME NEW c \in Call, Accept(c) PROVE ProcessInv'
  <2> DEFINE r == [call[c] EXCEPT !.pc = "accepted"]
  <2>1. r \in CallRecord /\ r.pc = "accepted" /\ call' = [call EXCEPT ![c] = r]
    BY <1>0, <1>3, Records DEF CallPc, Accept
  <2> HIDE DEF r
  <2>2. SlotInv' /\ CallTypeOK'
    BY <1>0, <1>3, <2>1, EntersOrLeaves DEF Accept
  <2>3. listening \/ looping \/ connected # {}
    BY <1>3 DEF Accept
  <2>4. phase # "starting" /\ phase # "drained" /\ database # "closed"
    BY <1>0, <2>3 DEF LifeInv
  <2>5. connected' \subseteq Analysis
    BY <1>0, <1>3 DEF Accept, ProcessTypeOK
  <2> QED
    BY <1>0, <1>3, <2>2, <2>4, <2>5 DEF ProcessInv, Accept, ProcessTypeOK, LifeInv
<1>4. ASSUME NEW c \in Call, Work(c) PROVE ProcessInv'
  <2>1. SlotInv' /\ CallTypeOK'
    BY <1>0, <1>4, WorkKeeps DEF Work
  <2>2. ~Idle
    BY <1>4, StepsOfCalls DEF Work, Idle
  <2>3. LoopIdle => LoopIdle'
    BY <1>0, <1>4, IdleStays DEF Work, LoopIdle, Call
  <2> QED
    BY <1>0, <1>4, <2>1, <2>2, <2>3 DEF ProcessInv, Work, ProcessTypeOK, LifeInv, lifeVars
<1>5. ASSUME NEW c \in Call, Conclude(c) PROVE ProcessInv'
  <2>1. IdleCall \in CallRecord /\ IdleCall.pc = "idle"
    BY <1>0, Records DEF IdleCall
  <2>2. SlotInv' /\ CallTypeOK'
    BY <1>0, <1>5, <2>1, EntersOrLeaves DEF Conclude
  <2>3. ~Idle
    BY <1>5 DEF Conclude, Idle
  <2>4. LoopIdle => LoopIdle'
    BY <1>0, <1>5, <2>1 DEF Conclude, LoopIdle, Call, CallTypeOK
  <2> QED
    BY <1>0, <1>5, <2>2, <2>3, <2>4 DEF ProcessInv, Conclude, ProcessTypeOK, LifeInv, lifeVars
<1> QED
  BY <1>1, <1>2, <1>3, <1>4, <1>5 DEF ProcessNext, Shutdown

LEMMA AlwaysProcess == ProcessSpec => []ProcessInv
<1> QED
  BY InitProcess, NextProcess, PTL DEF ProcessSpec

-----------------------------------------------------------------------------
(* The theorems. *)

\* Every state of the worker process is a state of its types: no limiter counts below
\* zero or above its slots, and no call retries more often than it may.
THEOREM ProcessTypes == ProcessSpec => []ProcessTypeOK
<1>1. ProcessInv => ProcessTypeOK
  BY DEF ProcessInv
<1> QED
  BY <1>1, AlwaysProcess, PTL

\* A limiter's queue lists each of its waiters once.
LEMMA QueueListsWaiters ==
  ASSUME ProcessTypeOK, SlotInv, NEW a \in Adapter
  PROVE  /\ ToSet(queue[a]) = {c \in Own(a) : call[c].pc = "queued"}
         /\ Cardinality(ToSet(queue[a])) = Len(queue[a])
<1> DEFINE q == queue[a]
<1>1. q \in Seq(Call) /\ DOMAIN q = 1..Len(q) /\ Len(q) \in Nat
  BY LenProperties DEF ProcessTypeOK, CallTypeOK
<1>2. QueueInv(a)
  BY DEF SlotInv
<1>3. ToSet(q) = {q[i] : i \in DOMAIN q}
  BY DEF ToSet
<1>4. ToSet(q) = {c \in Own(a) : call[c].pc = "queued"}
  BY <1>2, <1>3 DEF QueueInv
<1>5. q \in Bijection(1..Len(q), ToSet(q))
  <2>1. q \in [1..Len(q) -> ToSet(q)]
    BY <1>1, <1>3
  <2>2. q \in Injection(1..Len(q), ToSet(q))
    BY <1>1, <1>2, <2>1 DEF Injection, IsInjective, QueueInv
  <2>3. q \in Surjection(1..Len(q), ToSet(q))
    BY <1>1, <1>3, <2>1 DEF Surjection
  <2> QED
    BY <2>2, <2>3 DEF Bijection
<1>6. ExistsBijection(1..Len(q), ToSet(q))
  BY <1>5, Fun_ExistsBij
<1> QED
  BY <1>1, <1>4, <1>6, FS_CountingElements

\* However calls end, time out or are aborted (the release of the limiter and the abort
\* listener of a waiter, concurrency-limiter.ts), a slot is counted exactly while a call
\* holds it, nobody waits while one is free, and who waits is in the queue once.
THEOREM SlotsTheorem == ProcessSpec => []SlotsConserved
<1>1. ASSUME ProcessInv, NEW a \in Adapter
      PROVE  LET own == {c \in Call : AdapterOf(c) = a} IN
             /\ active[a] = Cardinality({c \in own : Holding(c)})
             /\ active[a] <= MaxConcurrency /\ Len(queue[a]) <= MaxQueueSize
             /\ queue[a] # <<>> => active[a] = MaxConcurrency
             /\ ToSet(queue[a]) = {c \in own : call[c].pc = "queued"}
             /\ Cardinality(ToSet(queue[a])) = Len(queue[a])
  <2>1. ProcessTypeOK /\ CountInv(a) /\ QueueInv(a)
    BY <1>1 DEF ProcessInv, SlotInv
  <2>2. active[a] = Cardinality({c \in Own(a) : Holding(c)})
    BY <2>1 DEF CountInv, Holders
  <2>3. active[a] <= MaxConcurrency
    BY <2>1, LimitsAssumption DEF ProcessTypeOK, CallTypeOK
  <2>4. Len(queue[a]) <= MaxQueueSize /\ (queue[a] # <<>> => active[a] = MaxConcurrency)
    BY <2>1 DEF QueueInv
  <2>5. /\ ToSet(queue[a]) = {c \in Own(a) : call[c].pc = "queued"}
        /\ Cardinality(ToSet(queue[a])) = Len(queue[a])
    BY <1>1, QueueListsWaiters DEF ProcessInv
  <2> QED
    BY <2>2, <2>3, <2>4, <2>5 DEF Own
<1>2. ProcessInv => SlotsConserved
  BY <1>1 DEF SlotsConserved
<1> QED
  BY <1>2, AlwaysProcess, PTL

\* The stop of the worker (lifecycle.ts) closes the database only behind the last connection
\* and the last step of the loop, or when the drain timed out: what is left at work then is
\* a push request that nobody can answer any more.
THEOREM DatabaseTheorem == ProcessSpec => []DatabaseOutlivesAwaited
<1>1. ASSUME ProcessInv, database = "closed", ~forced, NEW c \in Call, call[c].pc # "idle"
      PROVE  c \in Analysis \ connected
  BY <1>1 DEF ProcessInv, LifeInv, LoopIdle, Call
<1>2. ProcessInv => DatabaseOutlivesAwaited
  BY <1>1 DEF DatabaseOutlivesAwaited
<1> QED
  BY <1>2, AlwaysProcess, PTL
===============================================================================
