---------------------------- MODULE ResponsePolicy ----------------------------
(***************************************************************************)
(* What the worker may do about a scenario: the catalog and its evidence,  *)
(* what becomes of a model's answer, the deterministic policy that turns   *)
(* both into a plan of tool calls, and the gateway's own policy, written   *)
(* apart from it.  Parameters of a tool call are reduced to whether they   *)
(* are the canonical ones.                                                 *)
(*                                                                         *)
(* Source: packages/contracts/src/scenario.ts, apps/worker/src/domain/     *)
(* autonomous-policy.ts, tools/tool-policy.ts and the end of               *)
(* adapters/autonomous-gemini-adapter.ts.                                  *)
(***************************************************************************)
EXTENDS Naturals, Sequences, FiniteSets

CONSTANT MaxToolRequests  \* 5 in the code

ASSUME RequestsAssumption == MaxToolRequests \in Nat

-----------------------------------------------------------------------------
(* SCENARIO_CATALOG. *)

Divert == {"DEPLOY_DECOY", "ASSIGN_FALSE_ROUTE"}

\* A probe of the web site: an alert, and a diversion if the model asks for it.
WebProbe ==
  [mandatory |-> {"ALERT_OPERATOR"}, optional |-> Divert,
   forbidden |-> {"QUARANTINE_SOURCE", "REJECT_ACCESS"}, fallback |-> {"ALERT_OPERATOR"},
   decoy |-> TRUE]

ENV_FILE_PROBE == WebProbe
WORDPRESS_CONFIG_PROBE == WebProbe
PATH_TRAVERSAL_PROBE == WebProbe
SQL_INJECTION_PROBE == WebProbe

SUSPICIOUS_IP_BURST_Diverting ==    \* mutant: an action the gateway refuses
  [mandatory |-> {"ALERT_OPERATOR"}, optional |-> {"QUARANTINE_SOURCE", "ASSIGN_FALSE_ROUTE"},
   forbidden |-> {"DEPLOY_DECOY", "REJECT_ACCESS"}, fallback |-> {"ALERT_OPERATOR"},
   decoy |-> FALSE]

SUSPICIOUS_IP_BURST ==
  [mandatory |-> {"ALERT_OPERATOR"}, optional |-> {"QUARANTINE_SOURCE"},
   forbidden |-> Divert \cup {"REJECT_ACCESS"}, fallback |-> {"ALERT_OPERATOR"},
   decoy |-> FALSE]

SIP_INVITE_FLOOD ==
  [mandatory |-> {"ALERT_OPERATOR"}, optional |-> {"QUARANTINE_SOURCE"},
   forbidden |-> Divert \cup {"REJECT_ACCESS"}, fallback |-> {"ALERT_OPERATOR"},
   decoy |-> FALSE]

TOKEN_TAMPER ==
  [mandatory |-> {"REJECT_ACCESS", "ALERT_OPERATOR"}, optional |-> {"QUARANTINE_SOURCE"},
   forbidden |-> Divert, fallback |-> {"REJECT_ACCESS", "ALERT_OPERATOR"},
   decoy |-> FALSE]

DECOY_CREDENTIAL_USE ==
  [mandatory |-> {"ASSIGN_FALSE_ROUTE", "ALERT_OPERATOR"}, optional |-> {},
   forbidden |-> {"DEPLOY_DECOY", "QUARANTINE_SOURCE", "REJECT_ACCESS"},
   fallback |-> {"ALERT_OPERATOR"},
   decoy |-> TRUE]

CLOUD_METADATA_SSRF_PROBE ==
  [mandatory |-> {"REJECT_ACCESS", "ALERT_OPERATOR"}, optional |-> {"QUARANTINE_SOURCE"},
   forbidden |-> Divert, fallback |-> {"REJECT_ACCESS", "ALERT_OPERATOR"},
   decoy |-> FALSE]

CREDENTIAL_STUFFING_BURST ==
  [mandatory |-> {"REJECT_ACCESS", "ALERT_OPERATOR"}, optional |-> {"QUARANTINE_SOURCE"},
   forbidden |-> {}, fallback |-> {"REJECT_ACCESS", "ALERT_OPERATOR"},
   decoy |-> FALSE]

ScenarioKind ==
  {"ENV_FILE_PROBE", "WORDPRESS_CONFIG_PROBE", "SUSPICIOUS_IP_BURST", "SIP_INVITE_FLOOD",
   "TOKEN_TAMPER", "PATH_TRAVERSAL_PROBE", "DECOY_CREDENTIAL_USE", "SQL_INJECTION_PROBE",
   "CLOUD_METADATA_SSRF_PROBE", "CREDENTIAL_STUFFING_BURST"}

Preset(kind) ==
  CASE kind = "ENV_FILE_PROBE" -> ENV_FILE_PROBE
    [] kind = "WORDPRESS_CONFIG_PROBE" -> WORDPRESS_CONFIG_PROBE
    [] kind = "SUSPICIOUS_IP_BURST" -> SUSPICIOUS_IP_BURST
    [] kind = "SIP_INVITE_FLOOD" -> SIP_INVITE_FLOOD
    [] kind = "TOKEN_TAMPER" -> TOKEN_TAMPER
    [] kind = "PATH_TRAVERSAL_PROBE" -> PATH_TRAVERSAL_PROBE
    [] kind = "DECOY_CREDENTIAL_USE" -> DECOY_CREDENTIAL_USE
    [] kind = "SQL_INJECTION_PROBE" -> SQL_INJECTION_PROBE
    [] kind = "CLOUD_METADATA_SSRF_PROBE" -> CLOUD_METADATA_SSRF_PROBE
    [] kind = "CREDENTIAL_STUFFING_BURST" -> CREDENTIAL_STUFFING_BURST

-----------------------------------------------------------------------------
(* Evidence. *)

\* bounded: within the limits on size and depth; shaped: of the schema of its kind, with
\* the envelope's source; positive and control are the two flags it carries.
Evidence == [bounded : BOOLEAN, shaped : BOOLEAN, positive : BOOLEAN, control : BOOLEAN]

ConsistentControl(e) == e.positive # e.control

\* The decoy credential has no negative control: its flags are literals.
ValidEvidence(kind, e) ==
  /\ e.bounded /\ e.shaped
  /\ ConsistentControl(e)
  /\ kind = "DECOY_CREDENTIAL_USE" => e.positive

IsBaseline(e) == e.control \/ ~e.positive

-----------------------------------------------------------------------------
(* The model's answer. *)

Tool == {"request_decoy_deployment", "request_false_route_assignment",
         "request_source_quarantine", "request_operator_alert"}

Plan == "recommend_response_plan"

actionForToolName == [t \in Tool |->
  CASE t = "request_decoy_deployment" -> "DEPLOY_DECOY"
    [] t = "request_false_route_assignment" -> "ASSIGN_FALSE_ROUTE"
    [] t = "request_source_quarantine" -> "QUARANTINE_SOURCE"
    [] t = "request_operator_alert" -> "ALERT_OPERATOR"]

\* A function call of an answer.  valid: its tool and parameters satisfy the schema;
\* sound: a plan recommends something the scenario allows; confident: its confidence is
\* at least 0.5.
FunctionCall == [tool : Tool \cup {Plan}, valid : BOOLEAN, confident : BOOLEAN, sound : BOOLEAN]

Unavailable == [status |-> "DEGRADED", confident |-> FALSE, requests |-> <<>>]

\* One call that the schema refuses, too many calls, or not exactly one plan, and the
\* whole answer is INVALID_OUTPUT.
ParseAnswer(calls) ==
  LET plans == {i \in DOMAIN calls : calls[i].tool = Plan}
      acceptable ==
        /\ Len(calls) <= MaxToolRequests
        /\ \A i \in DOMAIN calls : calls[i].valid
        /\ Cardinality(plans) = 1
  IN IF acceptable
     THEN [status |-> "SUCCESS", confident |-> \E i \in plans : calls[i].confident,
           requests |-> calls]
     ELSE Unavailable

\* FakeAutonomousGeminiAdapter, which answers when no model is configured; the modes that
\* simulate an error of the provider or an invalid answer are one.
FakeMode == {"auto", "low-confidence", "repeated-requests", "conflicting-requests",
             "unavailable"}

Repeated == <<"request_operator_alert", "request_operator_alert">>

Conflicting == <<"request_false_route_assignment", "request_source_quarantine">>

\* The automatic answer asks for all the scenario allows, together with its plan within
\* the limit.
AllAllowed(kind, e) ==
  LET Ask(t) == IF actionForToolName[t] \in Preset(kind).mandatory \cup Preset(kind).optional
                THEN <<t>> ELSE <<>>
      tools == Ask("request_decoy_deployment") \o Ask("request_false_route_assignment")
               \o Ask("request_source_quarantine") \o Ask("request_operator_alert")
      room == MaxToolRequests - 1
  IN IF IsBaseline(e) THEN <<>> ELSE SubSeq(tools, 1, IF Len(tools) < room THEN Len(tools) ELSE room)

SimulatedAnswer(mode, kind, e) ==
  LET Call(t) == [tool |-> t, valid |-> TRUE, confident |-> mode # "low-confidence",
                  sound |-> mode = "auto" => ~IsBaseline(e)]
      tools == CASE mode = "low-confidence" -> <<>>
                 [] mode = "repeated-requests" -> Repeated
                 [] mode = "conflicting-requests" -> Conflicting
                 [] mode = "auto" -> AllAllowed(kind, e)
  IN IF mode = "unavailable" THEN Unavailable
     ELSE [status |-> "SUCCESS", confident |-> mode # "low-confidence",
           requests |-> <<Call(Plan)>> \o [i \in DOMAIN tools |-> Call(tools[i])]]

-----------------------------------------------------------------------------
(* evaluateAutonomousPolicy. *)

\* buildCanonicalToolCall has a call to return.
Buildable(preset, t) ==
  LET action == actionForToolName[t] IN
  /\ action \notin preset.forbidden
  /\ action \in preset.optional \cup preset.mandatory \cup preset.fallback
  /\ t = "request_decoy_deployment" => preset.decoy

\* Of several requests for a tool the first counts, and of all the first MaxToolRequests.
Considered(requests, i) ==
  /\ i <= MaxToolRequests
  /\ \A j \in DOMAIN requests : j < i => requests[j].tool # requests[i].tool

ModelAnswered(analysis) == analysis.status = "SUCCESS"    \* mutant: confident or not

ModelAvailable(analysis) == analysis.status = "SUCCESS" /\ analysis.confident

\* evaluateSingleModelRequest: whether the i-th request of an answer is recorded as
\* AUTHORIZED or NARROWED (to the canonical call, which is what is executed either way).
Accepted(kind, e, analysis, i) ==
  LET request == analysis.requests[i] IN
  /\ ~IsBaseline(e) /\ analysis.confident
  /\ Considered(analysis.requests, i)
  /\ IF request.tool = Plan THEN request.sound ELSE Buildable(Preset(kind), request.tool)

\* modelActionMap: the optional actions the model asked for and may have.
ModelSelects(preset, analysis, t) ==
  /\ ModelAvailable(analysis)
  /\ \E i \in DOMAIN analysis.requests :
       analysis.requests[i].tool = t /\ Considered(analysis.requests, i)
  /\ Buildable(preset, t)
  /\ actionForToolName[t] \in preset.optional

PlannedIfAsked(preset, analysis, t) ==    \* mutant: a model that answers decides alone
  /\ Buildable(preset, t)
  /\ IF ModelAvailable(analysis)
     THEN \E i \in DOMAIN analysis.requests : analysis.requests[i].tool = t
     ELSE actionForToolName[t] \in preset.fallback

\* buildCanonicalActionPlans.
Planned(preset, analysis, t) ==
  LET action == actionForToolName[t] IN
  /\ Buildable(preset, t)
  /\ \/ ModelSelects(preset, analysis, t)
     \/ action \in preset.mandatory
     \/ ~ModelAvailable(analysis) /\ action \in preset.fallback

\* The tools of canonicalActionsToExecute.
ActionsToExecute(kind, e, analysis) ==
  IF IsBaseline(e) THEN {}
  ELSE {t \in Tool : Planned(Preset(kind), analysis, t)}

\* Their order is fixed, whatever order the model asked in.
Rank == [t \in Tool |->
  CASE t = "request_decoy_deployment" -> 1
    [] t = "request_false_route_assignment" -> 2
    [] t = "request_source_quarantine" -> 3
    [] t = "request_operator_alert" -> 4]

-----------------------------------------------------------------------------
(* evaluateToolPolicy, by which the gateway checks each call again. *)

ToolAuthorized(kind, e, t) ==
  /\ ~IsBaseline(e)
  /\ kind \in {"DECOY_CREDENTIAL_USE", "ENV_FILE_PROBE", "WORDPRESS_CONFIG_PROBE",
               "PATH_TRAVERSAL_PROBE"}
       => t # "request_source_quarantine"
  /\ kind \in {"SUSPICIOUS_IP_BURST", "SIP_INVITE_FLOOD", "TOKEN_TAMPER"}
       => t \notin {"request_decoy_deployment", "request_false_route_assignment"}
=============================================================================
