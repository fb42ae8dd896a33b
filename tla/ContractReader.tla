--------------------------- MODULE ContractReader ---------------------------
(***************************************************************************)
(* A consumer of JSONL records: each line is validated against the         *)
(* Pydantic model, as render_jsonl does with its own lines; another reader *)
(* would take the checked schema.                                          *)
(***************************************************************************)
EXTENDS LegacyClientContract

CONSTANT Documents  \* the lines that may be read

ASSUME DocumentsAssumption == Documents \subseteq LegacyClientDocument

VARIABLES
  document, \* the line in hand
  verdict   \* what the model said of it

Accept ==
  /\ verdict = "unread"
  /\ ModelAccepts(document)
  /\ verdict' = "accepted"
  /\ UNCHANGED document

Reject ==
  /\ verdict = "unread"
  /\ ~ModelAccepts(document)
  /\ verdict' = IF document.checks = <<>> THEN "too_short"
                ELSE Violation(Defaulted(document))
  /\ UNCHANGED document

Init == document \in Documents /\ verdict = "unread"
Next == Accept \/ Reject
Spec == Init /\ [][Next]_<<document, verdict>>

\* The checked schema mirrors the invariants of the model: one rejects what
\* the other rejects, whichever fields are null or left out
\* (legacy_client_schema_rules.py against legacy_client_contract.py).
SchemaMirrorsModel ==
  verdict # "unread" => (verdict = "accepted" <=> SchemaAccepts(document))

\* Private endpoints are authorised by integrated empirical evidence that was
\* collected, and by nothing else (_validate_execution and
\* _validate_evidence together).
PrivateEndpointNeedsEmpirical ==
  verdict = "accepted" /\ document.rollout_classification = "private_endpoint_only"
    => document.evidence_grade = "integrated_empirical"
       /\ document.execution = "complete"
=============================================================================
