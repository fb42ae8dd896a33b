-------------------------- MODULE PrivacyContracts --------------------------
(***************************************************************************)
(* What validation says of a document: the normalisation of schema errors  *)
(* into issues (privacy_contract_schema.py) and the semantic rules on a    *)
(* document without any (privacy_contract_semantics.py).  The machine data *)
(* of an issue, beyond its code and its location, is left out.             *)
(***************************************************************************)
EXTENDS ContractSchemas

Issue(code, location) == [code |-> code, location |-> location]

-----------------------------------------------------------------------------
(***************************************************************************)
(* structural_issues                                                       *)
(***************************************************************************)
FieldIsTrue(document, section, field) ==
  /\ HasObject(document, <<section>>)
  /\ Has(document, <<section, field>>)
  /\ document[<<section, field>>] = True

\* Mutant: the issue of a conditional field is reported for every error.
RequiredIssuesUnfiltered(document, location, field) ==
  CASE location = <<"private_write">> /\ field = "epoch_ms" ->
         {Issue("policy.fixed_epoch.requires_epoch_ms", location)}
    [] location = <<>> /\ field = "attestation_bundle_url" ->
         {Issue("policy.attestation.requires_bundle_url", <<>>)}
    [] location = <<>> /\ field = "canonical_manifest_url" ->
         {Issue("policy.canonical_reads.requires_manifest_url", <<>>)}
    [] OTHER -> {Issue("schema.required", Append(location, field))}

\* Mutant: the error is dropped when the switch is on.
RequiredIssuesInverted(document, location, field) ==
  CASE location = <<"private_write">> /\ field = "epoch_ms" ->
         {Issue("policy.fixed_epoch.requires_epoch_ms", location)}
    [] location = <<>> /\ field = "attestation_bundle_url" ->
         {Issue("policy.attestation.requires_bundle_url", <<>>) :
            x \in {x \in {0} :
              ~FieldIsTrue(document, "private_write", "attestation_required")}}
    [] location = <<>> /\ field = "canonical_manifest_url" ->
         {Issue("policy.canonical_reads.requires_manifest_url", <<>>) :
            x \in {x \in {0} :
              FieldIsTrue(document, "read_privacy", "canonical_objects")}}
    [] OTHER -> {Issue("schema.required", Append(location, field))}

RequiredIssues(document, location, field) ==
  CASE location = <<"private_write">> /\ field = "epoch_ms" ->
         {Issue("policy.fixed_epoch.requires_epoch_ms", location)}
    [] location = <<>> /\ field = "attestation_bundle_url" ->
         IF FieldIsTrue(document, "private_write", "attestation_required")
         THEN {Issue("policy.attestation.requires_bundle_url", <<>>)} ELSE {}
    [] location = <<>> /\ field = "canonical_manifest_url" ->
         IF FieldIsTrue(document, "read_privacy", "canonical_objects")
         THEN {Issue("policy.canonical_reads.requires_manifest_url", <<>>)} ELSE {}
    [] OTHER -> {Issue("schema.required", Append(location, field))}

\* CONSTRAINT_ISSUES and the two keywords handled before it
IssueCode ==
  [ type |-> "schema.type", enum |-> "schema.enum", const |-> "schema.const",
    pattern |-> "schema.pattern", format |-> "schema.format",
    minLength |-> "schema.min_length", maxLength |-> "schema.max_length",
    minItems |-> "schema.min_items", minimum |-> "schema.minimum",
    maximum |-> "schema.maximum" ]

NormalizeError(document, error) ==
  IF error.keyword = "required"
  THEN RequiredIssues(document, error.location, error.field)
  ELSE {Issue(IssueCode[error.keyword], error.location)}

StructuralIssues(kind, document) ==
  UNION {NormalizeError(document, error) : error \in Errors(kind, document)}

-----------------------------------------------------------------------------
(***************************************************************************)
(* semantic_issues.  now is the instant freshness is judged at.            *)
(***************************************************************************)
\* What the schema lets pass and the Pydantic models do not take: an integer
\* too large to be one, and the date with a final newline.
HUGE == "huge"
IsTyped(leaf) ==
  /\ leaf.type = "string" => leaf.text # "date newline"
  /\ leaf.type = "integer" => leaf.text # HUGE

\* Mutant: the models declare only the dates.
TypedFieldsDates(kind) ==
  CASE kind \in {"privacy_policy", "privacy_capabilities"} ->
         {<<"valid_from">>, <<"valid_until">>}
    [] OTHER -> {}

\* The fields the models declare whose schema is wider than their type.
TypedFields(kind) ==
  CASE kind = "privacy_policy" ->
         { <<"valid_from">>, <<"valid_until">>,
           <<"private_write", "minimum_delay_ms">>,
           <<"private_write", "maximum_delay_ms">> }
    [] kind = "privacy_capabilities" -> {<<"valid_from">>, <<"valid_until">>}
    [] kind = "canonical_read_manifest" ->
         {<<"objects", i, end>> : i \in ItemNames, end \in {"start_height", "end_height"}}

PassesTypedBoundary(kind, document) ==
  \A location \in TypedFields(kind) :
    Has(document, location) => IsTyped(document[location])

SUPPORTED_MAJOR == 1
VersionField ==
  [ privacy_policy |-> "policy_version",
    privacy_capabilities |-> "capabilities_version",
    canonical_read_manifest |-> "format_version" ]

When(condition, code, location) ==
  IF condition THEN {Issue(code, location)} ELSE {}

VersionIssues(kind, document) ==
  When(document[<<VersionField[kind]>>].number # SUPPORTED_MAJOR,
       "version.unsupported", <<VersionField[kind]>>)

\* Mutant: the two codes are taken for each other.
ValidityIssuesSwapped(document, checkFreshness, now) ==
  LET from == document[<<"valid_from">>].number
      until == document[<<"valid_until">>].number
  IN When(until <= from, "validity.order", <<>>)
     \cup When(checkFreshness /\ now < from, "validity.expired", <<>>)
     \cup When(checkFreshness /\ now >= until, "validity.not_yet_valid", <<>>)

\* The window is [valid_from, valid_until); the codes carry the kind in front.
ValidityIssues(document, checkFreshness, now) ==
  LET from == document[<<"valid_from">>].number
      until == document[<<"valid_until">>].number
  IN When(until <= from, "validity.order", <<>>)
     \cup When(checkFreshness /\ now < from, "validity.not_yet_valid", <<>>)
     \cup When(checkFreshness /\ now >= until, "validity.expired", <<>>)

PolicyIssues(document) ==
  LET write(field) == document[<<"private_write", field>>]
      direct == /\ write("enabled") = True
                /\ write("submission_protocol").text = "development-direct-v1"
      development == /\ document[<<"network">>].text = "regtest"
                     /\ document[<<"node", "implementation">>].text = "development"
  IN When(write("minimum_delay_ms").number > write("maximum_delay_ms").number,
          "policy.delay.order", <<"private_write">>)
     \cup When(direct /\ ~development,
               "policy.development_direct.requires_development_node",
               <<"private_write", "submission_protocol">>)

ManifestIssues(document) ==
  UNION { When(/\ Has(document, <<"objects", i, "start_height">>)
               /\ Has(document, <<"objects", i, "end_height">>)
               /\ document[<<"objects", i, "start_height">>].number
                    > document[<<"objects", i, "end_height">>].number,
               "manifest.range.order", <<"objects", i>>) : i \in ItemNames }

SemanticIssues(kind, document, checkFreshness, now) ==
  IF ~PassesTypedBoundary(kind, document)
  THEN {Issue("document.typed_boundary", <<>>)}
  ELSE VersionIssues(kind, document) \cup
       CASE kind = "privacy_policy" ->
              ValidityIssues(document, checkFreshness, now) \cup PolicyIssues(document)
         [] kind = "privacy_capabilities" ->
              ValidityIssues(document, checkFreshness, now)
         [] kind = "canonical_read_manifest" -> ManifestIssues(document)
=============================================================================
