------------------------ MODULE LegacyClientContract ------------------------
(***************************************************************************)
(* The legacy-client result record: what the Pydantic model accepts, what  *)
(* the checked JSON Schema accepts, and the rows the adapters build.       *)
(* (scripts/legacy_client_contract.py, legacy_client_schema_rules.py and   *)
(* legacy_client_adapters.py.)  The declarations both sides take the field *)
(* types from are not modelled; the cross-field rules are.                 *)
(***************************************************************************)
EXTENDS Naturals, Sequences

SCENARIO_REGISTRY ==
  << "temporary_public_absence", "exact_retry", "lost_response_retry",
     "transaction_status_reconciliation", "mempool_observation",
     "server_switching", "direct_fallback", "node_restart",
     "pre_release_conflict", "release_deadline_preservation" >>
Scenario == {SCENARIO_REGISTRY[i] : i \in DOMAIN SCENARIO_REGISTRY}

EvidenceGrade == {"local_rust_unit", "local_flutter_unavailable",
                  "source_derived", "integrated_empirical", "unavailable"}
UnavailableReason ==
  {"vizor_checkout_unavailable", "vizor_revision_mismatch",
   "vizor_worktree_dirty", "vizor_origin_mismatch", "cargo_unavailable",
   "flutter_toolchain_unavailable",
   "managed_zcashd_unavailable_on_darwin_arm64"}
Execution == {"complete", "unavailable"}
RolloutClassification == {"ordinary_immediate_endpoint",
                          "private_endpoint_only", "inconclusive", "incompatible"}
CheckCode == {"client_behavior", "duplicate_release", "release_deadline",
              "direct_fallback", "status_polling"}
CheckStatus == {"pass", "fail", "not_run"}
TimelineEventCode ==
  {"submission_call", "server_acceptance", "client_visible_response",
   "client_retries_or_status_queries", "public_release", "client_final_state",
   "fallback_or_endpoint_change"}
CheckRecord == [code : CheckCode, status : CheckStatus]

\* A JSON document with well-typed fields.  The optional field may be null or
\* left out.
LegacyClientDocument ==
  [ scenario               : Scenario,
    evidence_grade         : EvidenceGrade,
    execution              : Execution,
    rollout_classification : RolloutClassification,
    checks                 : Seq(CheckRecord),
    timeline               : Seq(TimelineEventCode),
    unavailable_reason     : UnavailableReason \cup {"null", "absent"} ]

NotRun(checks) == \A i \in DOMAIN checks : checks[i].status = "not_run"

-----------------------------------------------------------------------------
(***************************************************************************)
(* The model: fields first, then the invariants, which stop at the first   *)
(* violation.                                                              *)
(***************************************************************************)
\* Mutant: the field has no default, and a missing one is not None.
DefaultedNever(document) == document

\* None is the default of unavailable_reason.
Defaulted(document) ==
  IF document.unavailable_reason = "absent"
  THEN [document EXCEPT !.unavailable_reason = "null"]
  ELSE document

ExecutionViolation(result) ==
  CASE result.execution = "complete" ->
         IF result.unavailable_reason = "null" THEN "none"
         ELSE "complete_reason_forbidden"
    [] result.execution = "unavailable" ->
         IF result.unavailable_reason = "null"
         THEN "unavailable_reason_required"
         ELSE IF ~NotRun(result.checks)
         THEN "unavailable_checks_must_be_not_run"
         ELSE IF result.timeline # <<>>
         THEN "unavailable_timeline_forbidden"
         ELSE IF result.rollout_classification # "inconclusive"
         THEN "unavailable_rollout_must_be_inconclusive"
         ELSE "none"

\* Mutant: the grades of local evidence authorise like any other.
EvidenceViolationUnavailableOnly(result) ==
  IF /\ result.evidence_grade \in {"local_flutter_unavailable", "unavailable"}
     /\ result.execution # "unavailable"
  THEN "unavailable_evidence_requires_unavailable_execution" ELSE "none"

EvidenceViolation(result) ==
  CASE result.evidence_grade \in {"local_flutter_unavailable", "unavailable"} ->
         IF result.execution = "unavailable" THEN "none"
         ELSE "unavailable_evidence_requires_unavailable_execution"
    [] result.evidence_grade \in {"local_rust_unit", "source_derived"} ->
         IF result.rollout_classification # "private_endpoint_only" THEN "none"
         ELSE "evidence_cannot_authorize_private_endpoint"
    [] OTHER -> "none"

Violation(result) ==
  IF ExecutionViolation(result) # "none" THEN ExecutionViolation(result)
  ELSE EvidenceViolation(result)

ModelAccepts(document) ==
  /\ document.checks # <<>>
  /\ Violation(Defaulted(document)) = "none"

-----------------------------------------------------------------------------
(***************************************************************************)
(* The schema: every rule is evaluated, on the document as it stands.      *)
(***************************************************************************)
UnavailableExecutionRule(document) ==
  document.execution = "unavailable" =>
    /\ document.unavailable_reason \notin {"absent", "null"}
    /\ NotRun(document.checks)
    /\ document.timeline = <<>>
    /\ document.rollout_classification = "inconclusive"

CompleteExecutionRule(document) ==
  document.execution = "complete" =>
    document.unavailable_reason \in {"absent", "null"}

UnavailableEvidenceRule(document) ==
  document.evidence_grade \in {"local_flutter_unavailable", "unavailable"} =>
    document.execution = "unavailable"

PrivateEndpointEvidenceRule(document) ==
  document.evidence_grade \in {"local_rust_unit", "source_derived"} =>
    document.rollout_classification # "private_endpoint_only"

SchemaAccepts(document) ==
  /\ document.checks # <<>>
  /\ UnavailableExecutionRule(document)
  /\ CompleteExecutionRule(document)
  /\ UnavailableEvidenceRule(document)
  /\ PrivateEndpointEvidenceRule(document)

-----------------------------------------------------------------------------
(***************************************************************************)
(* The rows the adapters build.                                            *)
(***************************************************************************)
CheckCodeOf(scenario) ==
  CASE scenario = "exact_retry" -> "duplicate_release"
    [] scenario \in {"transaction_status_reconciliation", "mempool_observation"}
         -> "status_polling"
    [] scenario = "direct_fallback" -> "direct_fallback"
    [] scenario = "release_deadline_preservation" -> "release_deadline"
    [] OTHER -> "client_behavior"

LocalTimeline(scenario) ==
  (IF scenario \in {"exact_retry", "lost_response_retry"}
   THEN <<"submission_call", "client_visible_response">> ELSE <<>>)
  \o <<"client_retries_or_status_queries", "client_final_state">>

CompleteVizor(scenario) ==
  [ scenario |-> scenario, evidence_grade |-> "local_rust_unit",
    execution |-> "complete",
    rollout_classification |-> "ordinary_immediate_endpoint",
    checks |-> << [code |-> CheckCodeOf(scenario), status |-> "pass"] >>,
    timeline |-> LocalTimeline(scenario), unavailable_reason |-> "null" ]

\* Mutant: the row forgets its reason.
UnavailableVizorNoReason(scenario, evidence, reason) ==
  [ scenario |-> scenario, evidence_grade |-> evidence,
    execution |-> "unavailable", rollout_classification |-> "inconclusive",
    checks |-> << [code |-> CheckCodeOf(scenario), status |-> "not_run"] >>,
    timeline |-> <<>>, unavailable_reason |-> "null" ]

UnavailableVizor(scenario, evidence, reason) ==
  [ scenario |-> scenario, evidence_grade |-> evidence,
    execution |-> "unavailable", rollout_classification |-> "inconclusive",
    checks |-> << [code |-> CheckCodeOf(scenario), status |-> "not_run"] >>,
    timeline |-> <<>>, unavailable_reason |-> reason ]

LocalRustScenario == {"exact_retry", "lost_response_retry",
                      "transaction_status_reconciliation", "mempool_observation"}

VizorResult(scenario) ==
  CASE scenario \in LocalRustScenario -> CompleteVizor(scenario)
    [] scenario \in {"server_switching", "direct_fallback"} ->
         UnavailableVizor(scenario, "local_flutter_unavailable",
                          "flutter_toolchain_unavailable")
    [] OTHER ->
         UnavailableVizor(scenario, "unavailable",
                          "managed_zcashd_unavailable_on_darwin_arm64")

\* ZODL_ANDROID_SOURCE_MAPPING and ZODL_IOS_SOURCE_MAPPING: the status of the
\* check of each scenario, in registry order.
SourceMapping ==
  [ android |-> <<"not_run", "not_run", "pass", "pass", "not_run",
                  "pass", "fail", "not_run", "not_run", "not_run">>,
    ios     |-> <<"not_run", "not_run", "pass", "not_run", "not_run",
                  "pass", "not_run", "not_run", "not_run", "not_run">> ]

ZodlResult(scenario, status) ==
  [ scenario |-> scenario, evidence_grade |-> "source_derived",
    execution |-> "complete", rollout_classification |-> "inconclusive",
    checks |-> << [code |-> CheckCodeOf(scenario), status |-> status] >>,
    timeline |-> <<>>, unavailable_reason |-> "null" ]

\* What the human format says of each stage of a row.
HumanTimeline(result) ==
  [code \in TimelineEventCode |->
     IF result.execution = "unavailable" THEN "not_run"
     ELSE IF \E i \in DOMAIN result.timeline : result.timeline[i] = code
     THEN "observed" ELSE "not_observed"]
=============================================================================
