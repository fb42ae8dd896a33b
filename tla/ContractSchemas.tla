-------------------------- MODULE ContractSchemas --------------------------
(***************************************************************************)
(* The schemas of the three privacy contracts, as interfaces/ has them,     *)
(* and the errors a JSON Schema library reports against them.              *)
(*                                                                         *)
(* A document is a function from the locations it has to leaves; the root  *)
(* is not one of them.  A leaf of a string says what the string is, not    *)
(* how it is spelled: "semver", "date", a member of an enumeration; its    *)
(* number is the major version or the instant it denotes.                  *)
(***************************************************************************)
EXTENDS Integers, Sequences

CONSTANT ItemNames  \* the indices of the items a list may have

ContractKind == {"privacy_policy", "privacy_capabilities", "canonical_read_manifest"}

JsonType == {"object", "array", "string", "integer", "boolean", "null"}

Node(type, text, number) == [type |-> type, text |-> text, number |-> number]
True == Node("boolean", "true", 0)
False == Node("boolean", "false", 0)

\* The texts whose number is a major version or an instant.
Denoting == {"semver", "semver newline", "date", "date newline", "malformed"}
Leaf ==
  { leaf \in [type : JsonType, text : STRING, number : Int] :
      /\ leaf.type = "boolean" => leaf \in {True, False}
      /\ leaf.type = "string" /\ leaf.text \notin Denoting => leaf.number = 0 }

\* Only an object or an array has anything below it.
Above(location) == SubSeq(location, 1, Len(location) - 1)
IsDocument(document) ==
  \A location \in DOMAIN document :
    /\ location \in Seq(STRING) \ {<<>>}
    /\ document[location] \in Leaf
    /\ Len(location) > 1 =>
         /\ Above(location) \in DOMAIN document
         /\ document[Above(location)].type \in {"object", "array"}

Has(document, location) == location \in DOMAIN document
HasObject(document, location) ==
  location = <<>> \/ (Has(document, location) /\ document[location].type = "object")

-----------------------------------------------------------------------------
(***************************************************************************)
(* The vocabulary of the schemas: what each kind of field must satisfy.    *)
(***************************************************************************)
Typed(type) == [keyword |-> "type", type |-> type, texts |-> {}, bound |-> 0]
OneOf(keyword, type, texts) ==
  [keyword |-> keyword, type |-> type, texts |-> texts, bound |-> 0]
Bound(keyword, bound) ==
  [keyword |-> keyword, type |-> "integer", texts |-> {}, bound |-> bound]

\* The library's keywords: enum and const look at any value, the others only
\* at a value of the type they are about.
Holds(constraint, leaf) ==
  CASE constraint.keyword = "type" -> leaf.type = constraint.type
    [] constraint.keyword \in {"enum", "const"} ->
         leaf.type = constraint.type /\ leaf.text \in constraint.texts
    [] constraint.keyword = "minimum" ->
         leaf.type = "integer" => leaf.number >= constraint.bound
    [] constraint.keyword = "maximum" ->
         leaf.type = "integer" => leaf.number <= constraint.bound
    [] OTHER -> leaf.type = constraint.type => leaf.text \in constraint.texts

String(keyword, texts) == {Typed("string"), OneOf(keyword, "string", texts)}
Integer(least) == {Typed("integer"), Bound("minimum", least)}
Array == {Typed("array"), OneOf("minItems", "array", {"items"})}

\* "$" of a pattern also matches before a final newline, and the date-time
\* checker lets one pass.
Rule ==
  [ version        |-> String("pattern", {"semver", "semver newline"}),
    digest         |-> String("pattern", {"digest", "digest newline"}),
    instant        |-> String("format", {"date", "date newline"}),
    uri            |-> String("format", {"uri"}),
    uri_reference  |-> String("format", {"uri", "relative uri"}),
    name           |-> String("minLength", {"name", "long name"}),
    identifier     |-> String("minLength", {"name", "long name"})
                       \cup {OneOf("maxLength", "string", {"name", "short name"})},
    network        |-> String("enum", {"mainnet", "testnet", "regtest"}),
    implementation |-> String("enum", {"zakura", "zebra", "development"}),
    protocol       |-> String("enum", {"ohttp-zcash-tx-v1", "development-direct-v1"}),
    release_mode   |-> String("enum", {"immediate", "fixed_epoch", "rolling_pool"}),
    object_kind    |-> String("enum",
                         {"compact_block_range", "full_transaction_block",
                          "full_transaction_range", "subtree_roots",
                          "mempool_snapshot", "mempool_delta"}),
    text           |-> {Typed("string")},
    boolean        |-> {Typed("boolean")},
    always         |-> {OneOf("const", "boolean", {"true"})},
    never          |-> {OneOf("const", "boolean", {"false"})},
    natural        |-> Integer(0),
    positive       |-> Integer(1),
    padding        |-> Integer(1024) \cup {Bound("maximum", 1048576)},
    object         |-> {Typed("object")},
    list           |-> {Typed("array")},
    filled_list    |-> Array ]

Broken(rule, leaf) == {c.keyword : c \in {c \in Rule[rule] : ~Holds(c, leaf)}}

-----------------------------------------------------------------------------
(***************************************************************************)
(* The schemas, one section for each object or array in a document.  Array *)
(* items are named by their index.                                         *)
(***************************************************************************)

Object(at, optional, properties) ==
  [ at |-> at, type |-> "object", properties |-> properties,
    required |-> DOMAIN properties \ optional ]
Items(at, rule) ==
  [ at |-> at, type |-> "array", properties |-> [i \in ItemNames |-> rule],
    required |-> {} ]

PolicyRoot ==
  Object(<<>>, {"attestation_bundle_url", "canonical_manifest_url"},
    [ policy_version |-> "version", service_id |-> "identifier",
      network |-> "network", valid_from |-> "instant", valid_until |-> "instant",
      node |-> "object", private_write |-> "object", read_privacy |-> "object",
      attestation_bundle_url |-> "uri", canonical_manifest_url |-> "uri" ])

PolicySections ==
  { PolicyRoot,
    Object(<<"node">>, {"upstream_base"},
      [ implementation |-> "implementation", revision |-> "name",
        upstream_base |-> "text", fixed_logical_egress |-> "boolean" ]),
    Object(<<"private_write">>, {"epoch_ms"},
      [ enabled |-> "boolean", submission_protocol |-> "protocol",
        padding_bytes |-> "padding", minimum_delay_ms |-> "natural",
        maximum_delay_ms |-> "natural", epoch_ms |-> "positive",
        release_mode |-> "release_mode", relay_set_id |-> "name",
        gateway_key_id |-> "name", attestation_required |-> "boolean",
        direct_fallback_allowed |-> "never" ]),
    Object(<<"read_privacy">>, {},
      [ range_bucket_size |-> "positive", lookback_blocks |-> "natural",
        poll_interval_ms |-> "positive", mempool_epoch_ms |-> "positive",
        separate_write_session |-> "always", canonical_objects |-> "boolean",
        transaction_specific_queries_allowed |-> "never",
        transparent_local_scan |-> "boolean" ]) }

CapabilitiesSections ==
  { Object(<<>>, {"read_privacy"},
      [ capabilities_version |-> "version", service_id |-> "identifier",
        network |-> "network", node |-> "object",
        supported_policy_versions |-> "filled_list", private_write |-> "object",
        read_privacy |-> "object", valid_from |-> "instant",
        valid_until |-> "instant" ]),
    Object(<<"node">>, {},
      [implementation |-> "implementation", revision |-> "name"]),
    Items(<<"supported_policy_versions">>, "version"),
    Object(<<"private_write">>, {},
      [ enabled |-> "boolean", submission_protocols |-> "filled_list",
        release_modes |-> "filled_list", maximum_transaction_bytes |-> "positive",
        attestation |-> "object" ]),
    Items(<<"private_write", "submission_protocols">>, "name"),
    Items(<<"private_write", "release_modes">>, "name"),
    Object(<<"private_write", "attestation">>, {},
      [supported |-> "boolean", required |-> "boolean"]),
    Object(<<"read_privacy">>, {},
      [ range_bucketing |-> "object", canonical_objects |-> "object",
        mempool_epochs |-> "object", separate_write_session |-> "boolean",
        transparent_local_scan |-> "boolean" ]),
    Object(<<"read_privacy", "range_bucketing">>, {},
      [supported |-> "boolean", bucket_sizes |-> "filled_list"]),
    Items(<<"read_privacy", "range_bucketing", "bucket_sizes">>, "positive"),
    Object(<<"read_privacy", "canonical_objects">>, {}, [supported |-> "boolean"]),
    Object(<<"read_privacy", "mempool_epochs">>, {},
      [supported |-> "boolean", epoch_ms |-> "positive"]) }

ManifestRoot ==
  Object(<<>>, {"previous_manifest_hash"},
    [ format_version |-> "version", network |-> "network",
      generation |-> "natural", generated_at |-> "instant",
      chain_tip_height |-> "natural", chain_tip_hash |-> "digest",
      previous_manifest_hash |-> "digest", objects |-> "list" ])

ManifestObject(i) ==
  Object(<<"objects", i>>, {"start_height", "end_height", "epoch"},
    [ kind |-> "object_kind", id |-> "name", start_height |-> "natural",
      end_height |-> "natural", epoch |-> "natural", sha256 |-> "digest",
      bytes |-> "natural", url |-> "uri_reference" ])

ManifestSections ==
  {ManifestRoot, Items(<<"objects">>, "object")} \cup {ManifestObject(i) : i \in ItemNames}

Sections(kind) ==
  CASE kind = "privacy_policy" -> PolicySections
    [] kind = "privacy_capabilities" -> CapabilitiesSections
    [] kind = "canonical_read_manifest" -> ManifestSections

\* The "allOf" of the policy: where this field of this section is this, the
\* object at a location needs one field more.
Conditionals(kind) ==
  IF kind # "privacy_policy" THEN {}
  ELSE { [ section |-> "private_write", field |-> "release_mode",
           is |-> Node("string", "fixed_epoch", 0),
           at |-> <<"private_write">>, requires |-> "epoch_ms" ],
         [ section |-> "private_write", field |-> "attestation_required",
           is |-> True, at |-> <<>>, requires |-> "attestation_bundle_url" ],
         [ section |-> "read_privacy", field |-> "canonical_objects",
           is |-> True, at |-> <<>>, requires |-> "canonical_manifest_url" ] }

\* "if" constrains a property; it says nothing of a document without it.
HoldsIf(conditional, document) ==
  Has(document, <<conditional.section>>) =>
    /\ HasObject(document, <<conditional.section>>)
    /\ Has(document, <<conditional.section, conditional.field>>)
    /\ document[<<conditional.section, conditional.field>>] = conditional.is

-----------------------------------------------------------------------------
(***************************************************************************)
(* Draft202012Validator.iter_errors.                                       *)
(***************************************************************************)
Error(keyword, location, field) ==
  [keyword |-> keyword, location |-> location, field |-> field]

RequiredErrors(section, document) ==
  { Error("required", section.at, field) :
      field \in {f \in section.required : ~Has(document, Append(section.at, f))} }

PropertyErrors(section, document) ==
  UNION { { Error(keyword, Append(section.at, field), "") :
              keyword \in Broken(section.properties[field],
                                 document[Append(section.at, field)]) } :
          field \in {f \in DOMAIN section.properties :
                       Has(document, Append(section.at, f))} }

SectionErrors(section, document) ==
  IF HasObject(document, section.at) \/ section.type = "array"
  THEN RequiredErrors(section, document) \cup PropertyErrors(section, document)
  ELSE {}

ConditionalErrors(kind, document) ==
  { Error("required", c.at, c.requires) :
      c \in {c \in Conditionals(kind) :
               /\ HoldsIf(c, document)
               /\ HasObject(document, c.at)
               /\ ~Has(document, Append(c.at, c.requires))} }

FieldErrors(kind, document) ==
  UNION {SectionErrors(section, document) : section \in Sections(kind)}

Errors(kind, document) ==
  FieldErrors(kind, document) \cup ConditionalErrors(kind, document)
=============================================================================
