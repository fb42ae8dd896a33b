--------------------- MODULE LegacyClientContractProofs ---------------------
(***************************************************************************)
(* The model and the schema of the legacy-client result agree on every     *)
(* document.                                                               *)
(***************************************************************************)
EXTENDS ContractReader, TLAPS

\* A missing reason and a null one are the same to both sides; nothing else
\* of the document changes.
LEMMA DefaultedKeeps ==
  ASSUME NEW d \in LegacyClientDocument
  PROVE  /\ Defaulted(d) \in LegacyClientDocument
         /\ Defaulted(d).unavailable_reason = "null"
              <=> d.unavailable_reason \in {"absent", "null"}
         /\ Defaulted(d).execution = d.execution
         /\ Defaulted(d).evidence_grade = d.evidence_grade
         /\ Defaulted(d).rollout_classification = d.rollout_classification
         /\ Defaulted(d).checks = d.checks
         /\ Defaulted(d).timeline = d.timeline
BY DEF Defaulted, LegacyClientDocument

\* The chain of checks of _validate_execution is the conjunction of the two
\* execution rules of the schema.
LEMMA ExecutionAgrees ==
  ASSUME NEW d \in LegacyClientDocument
  PROVE  ExecutionViolation(Defaulted(d)) = "none" <=>
           UnavailableExecutionRule(d) /\ CompleteExecutionRule(d)
<1> DEFINE r == Defaulted(d)
<1>1. /\ r.unavailable_reason = "null" <=> d.unavailable_reason \in {"absent", "null"}
      /\ r.execution = d.execution /\ r.checks = d.checks /\ r.timeline = d.timeline
      /\ r.rollout_classification = d.rollout_classification
  BY DefaultedKeeps
<1>2. d.execution \in {"complete", "unavailable"}
  BY DEF LegacyClientDocument, Execution
<1> HIDE DEF r
<1>3. CASE d.execution = "complete"
  BY <1>1, <1>3 DEF ExecutionViolation, UnavailableExecutionRule, CompleteExecutionRule, r
<1>4. CASE d.execution = "unavailable"
  BY <1>1, <1>4 DEF ExecutionViolation, UnavailableExecutionRule, CompleteExecutionRule, r
<1> QED BY <1>2, <1>3, <1>4

\* _validate_evidence is the conjunction of the two evidence rules.
LEMMA EvidenceAgrees ==
  ASSUME NEW d \in LegacyClientDocument
  PROVE  EvidenceViolation(Defaulted(d)) = "none" <=>
           UnavailableEvidenceRule(d) /\ PrivateEndpointEvidenceRule(d)
<1>1. /\ Defaulted(d).execution = d.execution
      /\ Defaulted(d).evidence_grade = d.evidence_grade
      /\ Defaulted(d).rollout_classification = d.rollout_classification
  BY DefaultedKeeps
<1> QED BY <1>1 DEF EvidenceViolation, UnavailableEvidenceRule, PrivateEndpointEvidenceRule

\* The model and the schema accept the same documents.
THEOREM Parity == \A d \in LegacyClientDocument : ModelAccepts(d) <=> SchemaAccepts(d)
<1> TAKE d \in LegacyClientDocument
<1>1. Violation(Defaulted(d)) = "none" <=>
        /\ ExecutionViolation(Defaulted(d)) = "none"
        /\ EvidenceViolation(Defaulted(d)) = "none"
  BY DEF Violation
<1> QED BY <1>1, ExecutionAgrees, EvidenceAgrees DEF ModelAccepts, SchemaAccepts

\* A reader's verdict tells what the model says of the document in hand.
ReaderInv ==
  /\ document \in LegacyClientDocument
  /\ verdict # "unread" => (verdict = "accepted" <=> ModelAccepts(document))

\* No violation is called "accepted".
LEMMA ViolationIsNoVerdict ==
  ASSUME NEW d \in LegacyClientDocument
  PROVE  Violation(Defaulted(d)) # "accepted"
<1>1. Defaulted(d).execution \in {"complete", "unavailable"}
  BY DefaultedKeeps DEF LegacyClientDocument, Execution
<1>2. ExecutionViolation(Defaulted(d)) # "accepted"
  BY <1>1 DEF ExecutionViolation
<1>3. EvidenceViolation(Defaulted(d)) # "accepted"
  BY DEF EvidenceViolation
<1> QED BY <1>2, <1>3 DEF Violation

LEMMA ReaderInvariance == Spec => []ReaderInv
<1>1. Init => ReaderInv
  BY DocumentsAssumption DEF Init, ReaderInv
<1>2. ReaderInv /\ [Next]_<<document, verdict>> => ReaderInv'
  <2> SUFFICES ASSUME ReaderInv, [Next]_<<document, verdict>> PROVE ReaderInv'
    OBVIOUS
  <2>1. CASE Accept
    BY <2>1 DEF Accept, ReaderInv
  <2>2. CASE Reject
    BY <2>2, ViolationIsNoVerdict DEF Reject, ReaderInv
  <2>3. CASE UNCHANGED <<document, verdict>>
    BY <2>3 DEF ReaderInv
  <2> QED BY <2>1, <2>2, <2>3 DEF Next
<1> QED BY <1>1, <1>2, PTL DEF Spec

\* For every set of documents: the verdict of the model is the one the checked
\* schema would give.
THEOREM SchemaMirrors == Spec => []SchemaMirrorsModel
<1>1. ReaderInv => SchemaMirrorsModel
  BY Parity DEF ReaderInv, SchemaMirrorsModel
<1> QED BY <1>1, ReaderInvariance, PTL

\* For every set of documents: an accepted one that names a private endpoint
\* carries integrated empirical evidence that was collected.
THEOREM PrivateEndpointIsEarned == Spec => []PrivateEndpointNeedsEmpirical
<1>1. ReaderInv => PrivateEndpointNeedsEmpirical
  <2> SUFFICES ASSUME ReaderInv, verdict = "accepted",
                      document.rollout_classification = "private_endpoint_only"
               PROVE  /\ document.evidence_grade = "integrated_empirical"
                      /\ document.execution = "complete"
    BY DEF PrivateEndpointNeedsEmpirical
  <2>1. SchemaAccepts(document) /\ document \in LegacyClientDocument
    BY Parity DEF ReaderInv
  <2>2. document.execution # "unavailable"
    BY <2>1 DEF SchemaAccepts, UnavailableExecutionRule
  <2>3. document.evidence_grade \notin {"local_flutter_unavailable", "unavailable",
                                        "local_rust_unit", "source_derived"}
    BY <2>1, <2>2 DEF SchemaAccepts, UnavailableEvidenceRule, PrivateEndpointEvidenceRule
  <2> QED BY <2>1, <2>2, <2>3 DEF LegacyClientDocument, Execution, EvidenceGrade
<1> QED BY <1>1, ReaderInvariance, PTL
=============================================================================
