------------------------- MODULE ContractValidation -------------------------
(***************************************************************************)
(* validate_document as the policy-validate command and the tests use it,  *)
(* one run after another: the document file is read, then the schema file, *)
(* then the document in hand is checked against the schema, then its       *)
(* meaning, against a clock read at that moment.  Meanwhile files are      *)
(* edited and time passes.  (privacy_contract_validation.py,               *)
(* privacy_contract_schema.py, privacy_contract_json.py and the second     *)
(* half of privacy_contract_commands.py.)                                  *)
(***************************************************************************)
EXTENDS PrivacyContracts

CONSTANTS
  Requests,     \* the calls that may be made
  Files,        \* what an edit may put at the path
  InitialFiles, \* what may be there at first
  SchemaFiles,  \* what the schema file may be
  MaxEdits,     \* bound: edits of either file in a behaviour
  Horizon       \* bound: the last instant

\* "loop" is a symbolic link to itself.  A file that is not a JSON object has
\* no document: the empty function stands for it.
NoDocument == <<>>
FileStates == {"document", "missing", "loop", "not_object"}
SchemaStates == {"good", "missing", "not_object", "reference", "rejected"}

\* at is the instant of --at; it comes with check_freshness only.
NoInstant == -1

ASSUME ValidationAssumption ==
  /\ Requests # {}
  /\ \A request \in Requests :
       /\ request.kind \in ContractKind
       /\ request.check_freshness \in BOOLEAN
       /\ request.at \in Nat \cup {NoInstant}
       /\ request.at # NoInstant => request.check_freshness
  /\ \A content \in Files \cup InitialFiles :
       /\ content.state \in FileStates
       /\ IsDocument(content.document)
       /\ content.state # "document" => content.document = NoDocument
  /\ SchemaFiles \subseteq SchemaStates
  /\ MaxEdits \in Nat
  /\ Horizon \in Nat

VARIABLES
  file,     \* what is at the path
  schema,   \* the state of the schema file
  clock,    \* the instant
  pc,       \* the stage about to run
  request,  \* the call being served
  loaded,   \* the document in hand
  issues,   \* what was found
  outcome,  \* "none" | "valid" (exit 0) | "invalid" (exit 1) | "traceback"
  edits,    \* edits so far
  held,     \* history: what the file held from the start of the run to its reading
  schemas,  \* history: the same of the schema file
  started,  \* history: the instant the run started
  phase     \* history: what the last run against the clock said, and of what

environment == <<file, schema, clock, edits>>
run == <<pc, request, loaded, issues, outcome>>
history == <<held, schemas, started, phase>>
vars == <<environment, run, history>>

Stages == {"document", "schema", "structure", "semantics", "report"}

Found(found) == issues' = found /\ pc' = "report"
Continue(stage) == pc' = stage /\ UNCHANGED issues

-----------------------------------------------------------------------------
Begin(call) ==
  /\ pc = "idle"
  /\ pc' = "document"
  /\ request' = call
  /\ loaded' = NoDocument /\ issues' = {} /\ outcome' = "none"
  /\ held' = {file.document} /\ schemas' = {schema} /\ started' = clock
  /\ UNCHANGED <<environment, phase>>

\* path.resolve() raises on a loop, before load_json_document.
ResolveLoop ==
  /\ pc = "document" /\ file.state = "loop"
  /\ pc' = "idle" /\ outcome' = "traceback"
  /\ UNCHANGED <<environment, request, loaded, issues, history>>

\* Mutant: a failure to load is taken for what was loaded.
LoadDocumentAnything ==
  /\ pc = "document" /\ file.state # "loop"
  /\ Continue("schema")
  /\ loaded' = IF file.state = "document" THEN file.document
               ELSE [location \in {<<"reason">>} |-> Node("failure", "OSError", 0)]
  /\ UNCHANGED <<environment, request, outcome, history>>

LoadDocument ==
  /\ pc = "document" /\ file.state # "loop"
  /\ \/ file.state = "missing" /\ Found({Issue("document.read", <<>>)})
     \/ file.state = "not_object" /\ Found({Issue("document.invalid", <<>>)})
     \/ file.state = "document" /\ Continue("schema")
  /\ loaded' = file.document
  /\ UNCHANGED <<environment, request, outcome, history>>

\* A reference is looked for before the schema itself is checked.
LoadSchema ==
  /\ pc = "schema"
  /\ \/ schema = "missing" /\ Found({Issue("schema.read", <<>>)})
     \/ schema \in {"not_object", "rejected"} /\ Found({Issue("schema.invalid", <<>>)})
     \/ schema = "reference" /\ Found({Issue("schema.reference", <<>>)})
     \/ schema = "good" /\ Continue("structure")
  /\ UNCHANGED <<environment, request, loaded, outcome, history>>

CheckStructure ==
  /\ pc = "structure"
  /\ issues' = StructuralIssues(request.kind, loaded)
  /\ pc' = IF issues' = {} THEN "semantics" ELSE "report"
  /\ UNCHANGED <<environment, request, loaded, outcome, history>>

\* Mutant: the file is read again for the typed models.
CheckSemanticsReload ==
  /\ pc = "semantics"
  /\ Found(IF Errors(request.kind, file.document) # {}
           THEN {Issue("document.typed_boundary", <<>>)}
           ELSE SemanticIssues(request.kind, file.document, request.check_freshness,
                  IF request.at = NoInstant THEN clock ELSE request.at))
  /\ UNCHANGED <<environment, request, loaded, outcome, history>>

\* datetime.now(UTC) where no instant was given
CheckSemantics ==
  /\ pc = "semantics"
  /\ Found(SemanticIssues(request.kind, loaded, request.check_freshness,
             IF request.at = NoInstant THEN clock ELSE request.at))
  /\ UNCHANGED <<environment, request, loaded, outcome, history>>

\* The codes of a run that had no document or no schema to check it with.
FileCodes == {"document.read", "document.invalid", "schema.read",
              "schema.invalid", "schema.reference"}

Codes == {issue.code : issue \in issues}

\* What a run against the clock said of the window of its document.
Phase ==
  CASE "validity.not_yet_valid" \in Codes /\ "validity.expired" \notin Codes -> 0
    [] Codes \cap {"validity.not_yet_valid", "validity.expired"} = {} -> 1
    [] OTHER -> 2

JudgesWindow ==
  /\ request.check_freshness /\ request.at = NoInstant
  /\ issues # {} => Codes \cap {"validity.not_yet_valid", "validity.expired"} # {}

\* run_policy_validate: standard output and exit 0, or standard error and 1.
Report ==
  /\ pc = "report"
  /\ pc' = "idle"
  /\ outcome' = IF issues = {} THEN "valid" ELSE "invalid"
  /\ phase' = IF JudgesWindow
              THEN [kind |-> request.kind, document |-> loaded, at |-> Phase]
              ELSE phase
  /\ UNCHANGED <<environment, request, loaded, issues, held, schemas, started>>

-----------------------------------------------------------------------------
EditFile ==
  /\ edits < MaxEdits /\ edits' = edits + 1
  /\ file' \in Files \ {file}
  /\ held' = IF pc = "document" THEN held \cup {file'.document} ELSE held
  /\ UNCHANGED <<schema, clock, run, schemas, started, phase>>

EditSchema ==
  /\ edits < MaxEdits /\ edits' = edits + 1
  /\ schema' \in SchemaFiles \ {schema}
  /\ schemas' = IF pc \in {"document", "schema"} THEN schemas \cup {schema'}
                ELSE schemas
  /\ UNCHANGED <<file, clock, run, held, started, phase>>

Tick ==
  /\ clock < Horizon
  /\ clock' = clock + 1
  /\ UNCHANGED <<file, schema, edits, run, history>>

Validate ==
  \/ \E call \in Requests : Begin(call)
  \/ ResolveLoop \/ LoadDocument \/ LoadSchema
  \/ CheckStructure \/ CheckSemantics \/ Report

Init ==
  /\ file \in InitialFiles /\ schema \in SchemaFiles
  /\ clock = 0 /\ edits = 0
  /\ pc = "idle" /\ request = (CHOOSE call \in Requests : TRUE)
  /\ loaded = NoDocument /\ issues = {} /\ outcome = "none"
  /\ held = {} /\ schemas = {} /\ started = 0
  /\ phase = [kind |-> "none", document |-> NoDocument, at |-> 0]

Next == Validate \/ EditFile \/ EditSchema \/ Tick

Spec == Init /\ [][Next]_vars
-----------------------------------------------------------------------------
(***************************************************************************)
(* The contracts in their own words, without schema, errors or issues.     *)
(***************************************************************************)
FieldsHold(kind, document) ==
  \A section \in Sections(kind) :
    Has(document, section.at) \/ section.at = <<>> =>
      /\ \A field \in section.required : Has(document, Append(section.at, field))
      /\ \A field \in DOMAIN section.properties :
           Has(document, Append(section.at, field)) =>
             \A constraint \in Rule[section.properties[field]] :
               Holds(constraint, document[Append(section.at, field)])

\* Versions and digests are what the patterns describe and nothing more: not
\* even a newline follows (docs/INTERFACE_VERSIONING.md, canonical notation).
Written == [version |-> "semver", digest |-> "digest"]
PatternsMatchWhole(kind, document) ==
  \A section \in Sections(kind) : \A field \in DOMAIN section.properties :
    LET location == Append(section.at, field)
        rule == section.properties[field]
    IN Has(document, location) /\ rule \in DOMAIN Written =>
         document[location].text = Written[rule]

MajorIsSupported(kind, document) == document[<<VersionField[kind]>>].number = 1

\* A window that is empty, or does not hold the instant asked about, is no use.
IsCurrent(call, document, now) ==
  LET from == document[<<"valid_from">>]
      until == document[<<"valid_until">>]
  IN /\ from.text = "date" /\ until.text = "date"
     /\ from.number < until.number
     /\ call.check_freshness => from.number <= now /\ now < until.number

SwitchesHaveTheirFields(document) ==
  /\ document[<<"private_write", "release_mode">>].text = "fixed_epoch" =>
       Has(document, <<"private_write", "epoch_ms">>)
  /\ document[<<"private_write", "attestation_required">>] = True =>
       Has(document, <<"attestation_bundle_url">>)
  /\ document[<<"read_privacy", "canonical_objects">>] = True =>
       Has(document, <<"canonical_manifest_url">>)

DelaysAreOrdered(document) ==
  LET least == document[<<"private_write", "minimum_delay_ms">>]
      most == document[<<"private_write", "maximum_delay_ms">>]
  IN least.text # HUGE /\ most.text # HUGE /\ least.number <= most.number

DirectOnlyInDevelopment(document) ==
  \/ document[<<"private_write", "enabled">>] = False
  \/ document[<<"private_write", "submission_protocol">>].text = "ohttp-zcash-tx-v1"
  \/ /\ document[<<"network">>].text = "regtest"
     /\ document[<<"node", "implementation">>].text = "development"

RangesAreOrdered(document) ==
  \A i \in ItemNames :
    LET ends == {<<"objects", i, "start_height">>, <<"objects", i, "end_height">>}
    IN /\ \A end \in ends : Has(document, end) => document[end].text # HUGE
       /\ ends \subseteq DOMAIN document =>
            document[<<"objects", i, "start_height">>].number
              <= document[<<"objects", i, "end_height">>].number

Compatible(call, document, now) ==
  /\ FieldsHold(call.kind, document)
  /\ PatternsMatchWhole(call.kind, document)
  /\ MajorIsSupported(call.kind, document)
  /\ call.kind # "canonical_read_manifest" => IsCurrent(call, document, now)
  /\ call.kind = "privacy_policy" =>
       /\ SwitchesHaveTheirFields(document)
       /\ DelaysAreOrdered(document)
       /\ DirectOnlyInDevelopment(document)
  /\ call.kind = "canonical_read_manifest" => RangesAreOrdered(document)

\* "$" of Python's patterns overlooks a final newline: what the validation
\* makes of a document is what the contract says of it without them.
Chomp(leaf) ==
  CASE leaf.text = "semver newline" -> [leaf EXCEPT !.text = "semver"]
    [] leaf.text = "digest newline" -> [leaf EXCEPT !.text = "digest"]
    [] OTHER -> leaf
Chomped(document) == [location \in DOMAIN document |-> Chomp(document[location])]

-----------------------------------------------------------------------------
TypeOK ==
  /\ file.state \in FileStates /\ schema \in SchemaFiles
  /\ \A document \in {file.document, loaded} \cup held : IsDocument(document)
  /\ clock \in 0 .. Horizon /\ edits \in 0 .. MaxEdits
  /\ pc \in {"idle"} \cup Stages
  /\ request \in Requests
  /\ outcome \in {"none", "valid", "invalid", "traceback"}
  /\ started \in 0 .. clock

\* The semantic rules only see a document without a schema error: dropping the
\* errors of a conditional field (_required_issues) never empties the list of
\* a document that had any.
SuppressionHidesNothing ==
  pc = "semantics" => Errors(request.kind, loaded) = {}

\* The verdict is the one the contract gives a document the file held between
\* the start of the run and its reading, judged at the instant asked for or,
\* without one, at an instant of the run: neither an edit nor the clock can
\* make it a verdict on two documents at once.  A run that finds no document,
\* or no usable schema, never accepts (validate_document).  The one leniency is
\* Chomped: a final newline of a version or a digest counts for nothing, which
\* MalformedVersionsAreRejected contradicts.
VerdictIsOfOneReading ==
  LET instants == IF request.at = NoInstant THEN started .. clock ELSE {request.at}
      judged(good) == \E document \in held, now \in instants :
                        Compatible(request, Chomped(document), now) = good
  IN /\ outcome = "valid" => "good" \in schemas /\ judged(TRUE)
     /\ outcome = "invalid" => schemas # {"good"} \/ judged(FALSE)

\* An accepted document has no malformed version, neither its own nor one it
\* says it supports: "A consumer MUST reject a malformed version."
\* (docs/INTERFACE_VERSIONING.md).
MalformedVersionsAreRejected ==
  outcome = "valid" =>
    \A section \in Sections(request.kind) : \A field \in DOMAIN section.properties :
      LET location == Append(section.at, field)
      IN section.properties[field] = "version" /\ Has(loaded, location) =>
           loaded[location].text = "semver"

\* A field that only a switch asks for is reported missing exactly when the
\* switch is on and the field is not there, whatever else is wrong with the
\* document: the library reports it where the whole section is missing, too
\* (_required_issues).
ConditionalIssuesAreTrue ==
  LET asked(section, field, leaf) ==
        /\ HasObject(loaded, <<section>>)
        /\ Has(loaded, <<section, field>>) /\ loaded[<<section, field>>] = leaf
      fixed == Node("string", "fixed_epoch", 0)
  IN  outcome \in {"valid", "invalid"} /\ Codes \cap FileCodes = {}
      /\ request.kind = "privacy_policy" =>
        /\ "policy.fixed_epoch.requires_epoch_ms" \in Codes <=>
             asked("private_write", "release_mode", fixed)
             /\ ~Has(loaded, <<"private_write", "epoch_ms">>)
        /\ "policy.attestation.requires_bundle_url" \in Codes <=>
             asked("private_write", "attestation_required", True)
             /\ ~Has(loaded, <<"attestation_bundle_url">>)
        /\ "policy.canonical_reads.requires_manifest_url" \in Codes <=>
             asked("read_privacy", "canonical_objects", True)
             /\ ~Has(loaded, <<"canonical_manifest_url">>)

\* Against the clock, the same document is first too early, then current, then
\* expired, and never the other way (_validity_issues).
WindowsOnlyClose ==
  [][phase.kind = phase'.kind /\ phase.document = phase'.document
       => phase.at <= phase'.at]_vars
=============================================================================
