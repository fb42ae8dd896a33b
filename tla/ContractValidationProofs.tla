---------------------- MODULE ContractValidationProofs ----------------------
(***************************************************************************)
(* A verdict is what the contract says of one reading of the file, for     *)
(* every document, whatever it holds.                                      *)
(*                                                                         *)
(* The argument has three parts.  Of the operators: dropping the errors of *)
(* conditional fields never leaves a document without issues that had      *)
(* errors (SuppressionIsSafe), and a document without issues is one that   *)
(* the contract asks for, in its own words and up to the final newline     *)
(* that Python's patterns overlook (ValidationMeansCompatible).            *)
(* Of the runs: every issue rests on one reading of the file, a state of   *)
(* the schema and an instant of the run (Founded, an inductive invariant). *)
(* Of the clock: what a run says of a window belongs to an instant before  *)
(* the next run starts (PhaseIsOfThePast).                                 *)
(***************************************************************************)
EXTENDS ContractValidation, SequenceTheorems, TLAPS

\* The errors _required_issues may drop.
Droppable == {"attestation_bundle_url", "canonical_manifest_url"}

\* The root section of no schema requires a field whose error may be dropped.
LEMMA RootsDoNotRequireThem ==
  ASSUME NEW kind \in ContractKind, NEW section \in Sections(kind),
         section.at = <<>>
  PROVE  section.required \cap Droppable = {}
<1>1. CASE kind = "privacy_policy"
  BY <1>1 DEF Sections, PolicySections, PolicyRoot, Object, Droppable
<1>2. CASE kind = "privacy_capabilities"
  BY <1>2 DEF Sections, CapabilitiesSections, Object, Items, Droppable
<1>3. CASE kind = "canonical_read_manifest"
  BY <1>3 DEF Sections, ManifestSections, ManifestRoot, ManifestObject,
              Object, Items, Droppable
<1> QED BY <1>1, <1>2, <1>3 DEF ContractKind

\* The conditions are those of the policy, and each asks for its own field at
\* its own place.
LEMMA OnlyPoliciesHaveConditions ==
  ASSUME NEW kind \in ContractKind, NEW c \in Conditionals(kind)
  PROVE  /\ kind = "privacy_policy"
         /\ c.at = <<>> => /\ c.section \in {"private_write", "read_privacy"}
                           /\ c.is = True
         /\ c.requires = "attestation_bundle_url" =>
              c.section = "private_write" /\ c.field = "attestation_required"
         /\ c.requires = "canonical_manifest_url" =>
              c.section = "read_privacy" /\ c.field = "canonical_objects"
         /\ c.requires \in Droppable => c.at = <<>>
<1>1. kind = "privacy_policy"
  BY DEF Conditionals
<1>2. <<"private_write">> # <<>>
  OBVIOUS
<1>3. CASE c.requires = "epoch_ms"
  <2>1. c.at = <<"private_write">>
    BY <1>1, <1>3 DEF Conditionals
  <2> QED BY <1>1, <1>2, <1>3, <2>1 DEF Droppable
<1>4. CASE c.requires = "attestation_bundle_url"
  <2>1. /\ c.at = <<>> /\ c.section = "private_write"
        /\ c.is = True /\ c.field = "attestation_required"
    BY <1>1, <1>4 DEF Conditionals
  <2> QED BY <1>1, <1>4, <2>1
<1>5. CASE c.requires = "canonical_manifest_url"
  <2>1. /\ c.at = <<>> /\ c.section = "read_privacy"
        /\ c.is = True /\ c.field = "canonical_objects"
    BY <1>1, <1>5 DEF Conditionals
  <2> QED BY <1>1, <1>5, <2>1
<1> QED BY <1>1, <1>3, <1>4, <1>5 DEF Conditionals

\* A section that is not there is an error of its own, which is never dropped.
LEMMA MissingSectionIsReported ==
  ASSUME NEW document, NEW name \in {"private_write", "read_privacy"},
         ~Has(document, <<name>>)
  PROVE  StructuralIssues("privacy_policy", document) # {}
<1> DEFINE error == Error("required", <<>>, name)
<1>1. PolicyRoot \in Sections("privacy_policy")
  BY DEF Sections, PolicySections
<1>2. name \in PolicyRoot.required /\ PolicyRoot.at = <<>>
  BY DEF PolicyRoot, Object
<1>3. Append(<<>>, name) = <<name>>
  OBVIOUS
<1>4. error \in RequiredErrors(PolicyRoot, document)
  BY <1>2, <1>3 DEF RequiredErrors
<1>5. error \in SectionErrors(PolicyRoot, document)
  BY <1>2, <1>4 DEF SectionErrors, HasObject
<1>6. error \in Errors("privacy_policy", document)
  BY <1>1, <1>5 DEF Errors, FieldErrors
<1>7. /\ error.keyword = "required" /\ error.location = <<>> /\ error.field = name
  BY DEF Error
<1>8. RequiredIssues(document, <<>>, name) = {Issue("schema.required", <<name>>)}
  <2>1. <<>> # <<"private_write">>
    OBVIOUS
  <2> QED BY <1>3, <2>1 DEF RequiredIssues
<1>9. NormalizeError(document, error) # {}
  BY <1>7, <1>8 DEF NormalizeError
<1> QED BY <1>6, <1>9 DEF StructuralIssues

\* An error is dropped only where the switch is not known to be on.
LEMMA DroppedErrors ==
  ASSUME NEW document, NEW error, NormalizeError(document, error) = {}
  PROVE  /\ error.keyword = "required"
         /\ error.location = <<>>
         /\ \/ /\ error.field = "attestation_bundle_url"
               /\ ~FieldIsTrue(document, "private_write", "attestation_required")
            \/ /\ error.field = "canonical_manifest_url"
               /\ ~FieldIsTrue(document, "read_privacy", "canonical_objects")
BY DEF NormalizeError, RequiredIssues

\* Only a condition asks for a field whose error may be dropped.
LEMMA DroppedByCondition ==
  ASSUME NEW kind \in ContractKind, NEW document,
         NEW error \in Errors(kind, document), NormalizeError(document, error) = {}
  PROVE  \E c \in Conditionals(kind) :
           error.field = c.requires /\ HoldsIf(c, document)
<1>1. error.keyword = "required" /\ error.location = <<>> /\ error.field \in Droppable
  BY DroppedErrors DEF Droppable
<1>2. ASSUME NEW section \in Sections(kind), error \in SectionErrors(section, document)
      PROVE  FALSE
  <2>1. error \in RequiredErrors(section, document)
        \/ error \in PropertyErrors(section, document)
    BY <1>2 DEF SectionErrors
  <2>2. CASE error \in RequiredErrors(section, document)
    <3>1. section.at = <<>> /\ error.field \in section.required
      BY <1>1, <2>2 DEF RequiredErrors, Error
    <3> QED BY <1>1, <3>1, RootsDoNotRequireThem
  <2>3. CASE error \in PropertyErrors(section, document)
    <3>1. PICK field \in DOMAIN section.properties :
            error \in {Error(keyword, Append(section.at, field), "") :
                        keyword \in Broken(section.properties[field],
                                           document[Append(section.at, field)])}
      BY <2>3 DEF PropertyErrors
    <3>2. PICK keyword : error = Error(keyword, Append(section.at, field), "")
      BY <3>1
    <3>3. error.field = ""
      BY <3>2 DEF Error
    <3> QED BY <1>1, <3>3 DEF Droppable
  <2> QED BY <2>1, <2>2, <2>3
<1>3. error \in ConditionalErrors(kind, document)
  <2>1. CASE error \in FieldErrors(kind, document)
    <3>1. PICK section \in Sections(kind) : error \in SectionErrors(section, document)
      BY <2>1 DEF FieldErrors
    <3> QED BY <1>2, <3>1
  <2>2. error \in FieldErrors(kind, document)
        \/ error \in ConditionalErrors(kind, document)
    BY DEF Errors
  <2> QED BY <2>1, <2>2
<1> QED BY <1>3 DEF ConditionalErrors, Error

\* The structural issues of a document are none exactly when its errors are.
THEOREM SuppressionIsSafe ==
  ASSUME NEW kind \in ContractKind, NEW document,
         StructuralIssues(kind, document) = {}
  PROVE  Errors(kind, document) = {}
<1> SUFFICES ASSUME NEW error \in Errors(kind, document)
             PROVE  FALSE
  OBVIOUS
<1>1. NormalizeError(document, error) = {}
  BY DEF StructuralIssues
<1>2. PICK c \in Conditionals(kind) :
        error.field = c.requires /\ HoldsIf(c, document)
  BY <1>1, DroppedByCondition
<1>3. kind = "privacy_policy"
  BY OnlyPoliciesHaveConditions
<1>4. error.field \in Droppable
  BY <1>1, DroppedErrors DEF Droppable
<1>5. c.is = True /\ c.section \in {"private_write", "read_privacy"}
  BY <1>2, <1>4, OnlyPoliciesHaveConditions
<1>6. ~Has(document, <<c.section>>)
  <2> SUFFICES ASSUME Has(document, <<c.section>>) PROVE FALSE
    OBVIOUS
  <2>1. /\ HasObject(document, <<c.section>>)
        /\ Has(document, <<c.section, c.field>>)
        /\ document[<<c.section, c.field>>] = True
    BY <1>2, <1>5 DEF HoldsIf
  <2>2. CASE error.field = "attestation_bundle_url"
    <3>1. c.section = "private_write" /\ c.field = "attestation_required"
      BY <1>2, <2>2, OnlyPoliciesHaveConditions
    <3>2. FieldIsTrue(document, "private_write", "attestation_required")
      BY <2>1, <3>1 DEF FieldIsTrue
    <3> QED BY <1>1, <2>2, <3>2, DroppedErrors
  <2>3. CASE error.field = "canonical_manifest_url"
    <3>1. c.section = "read_privacy" /\ c.field = "canonical_objects"
      BY <1>2, <2>3, OnlyPoliciesHaveConditions
    <3>2. FieldIsTrue(document, "read_privacy", "canonical_objects")
      BY <2>1, <3>1 DEF FieldIsTrue
    <3> QED BY <1>1, <2>3, <3>2, DroppedErrors
  <2> QED BY <1>4, <2>2, <2>3 DEF Droppable
<1>7. StructuralIssues("privacy_policy", document) # {}
  BY <1>5, <1>6, MissingSectionIsReported
<1> QED BY <1>3, <1>7

-----------------------------------------------------------------------------
\* The vocabulary of the schemas: what a leaf is that satisfies a rule.
StringKeywords == {"pattern", "format", "minLength", "enum"}

LEMMA TypedHolds ==
  ASSUME NEW type, NEW leaf, Holds(Typed(type), leaf)
  PROVE  leaf.type = type
<1>1. Typed(type).keyword = "type" /\ Typed(type).type = type
  BY DEF Typed
<1> QED BY <1>1 DEF Holds

LEMMA OneOfHolds ==
  ASSUME NEW keyword \in StringKeywords, NEW type, NEW texts, NEW leaf,
         leaf.type = type, Holds(OneOf(keyword, type, texts), leaf)
  PROVE  leaf.text \in texts
<1> DEFINE c == OneOf(keyword, type, texts)
<1>1. c.keyword = keyword /\ c.type = type /\ c.texts = texts
  BY DEF OneOf
<1>2. c.keyword # "type" /\ c.keyword # "minimum" /\ c.keyword # "maximum"
  BY <1>1 DEF StringKeywords
<1> HIDE DEF c
<1>3. Holds(c, leaf)
  BY DEF c
<1> QED BY <1>1, <1>2, <1>3 DEF Holds

LEMMA StringHolds ==
  ASSUME NEW keyword \in StringKeywords, NEW texts, NEW leaf,
         \A c \in String(keyword, texts) : Holds(c, leaf)
  PROVE  leaf.type = "string" /\ leaf.text \in texts
<1>1. /\ Typed("string") \in String(keyword, texts)
      /\ OneOf(keyword, "string", texts) \in String(keyword, texts)
  BY DEF String
<1>2. leaf.type = "string"
  BY <1>1, TypedHolds
<1> QED BY <1>1, <1>2, OneOfHolds

LEMMA PatternRules ==
  /\ Rule["version"] = String("pattern", {"semver", "semver newline"})
  /\ Rule["digest"] = String("pattern", {"digest", "digest newline"})
BY SMT DEF Rule

LEMMA FormatRules ==
  /\ Rule["instant"] = String("format", {"date", "date newline"})
  /\ Rule["uri"] = String("format", {"uri"})
  /\ Rule["uri_reference"] = String("format", {"uri", "relative uri"})
BY SMT DEF Rule

LEMMA LengthRules ==
  /\ Rule["name"] = String("minLength", {"name", "long name"})
  /\ Rule["identifier"] = String("minLength", {"name", "long name"})
                            \cup {OneOf("maxLength", "string", {"name", "short name"})}
BY SMT DEF Rule

LEMMA EnumRules ==
  /\ Rule["network"] = String("enum", {"mainnet", "testnet", "regtest"})
  /\ Rule["implementation"] = String("enum", {"zakura", "zebra", "development"})
  /\ Rule["protocol"] =
       String("enum", {"ohttp-zcash-tx-v1", "development-direct-v1"})
  /\ Rule["release_mode"] = String("enum", {"immediate", "fixed_epoch", "rolling_pool"})
  /\ Rule["object_kind"] =
       String("enum", {"compact_block_range", "full_transaction_block",
                       "full_transaction_range", "subtree_roots",
                       "mempool_snapshot", "mempool_delta"})
BY SMT DEF Rule

LEMMA TypeRules ==
  /\ Typed("integer") \in Rule["natural"]
  /\ Typed("boolean") \in Rule["boolean"]
  /\ Typed("object") \in Rule["object"]
BY SMT DEF Rule, Integer

Satisfies(rule, leaf) == \A c \in Rule[rule] : Holds(c, leaf)

\* What the fields that the semantic rules read may hold.
LEMMA RulesMean ==
  ASSUME NEW leaf
  PROVE  /\ Satisfies("instant", leaf) =>
              leaf.type = "string" /\ leaf.text \in {"date", "date newline"}
         /\ Satisfies("protocol", leaf) =>
              leaf.text \in {"ohttp-zcash-tx-v1", "development-direct-v1"}
         /\ Satisfies("release_mode", leaf) => leaf.type = "string"
         /\ Satisfies("natural", leaf) => leaf.type = "integer"
         /\ Satisfies("boolean", leaf) => leaf.type = "boolean"
         /\ Satisfies("object", leaf) => leaf.type = "object"
<1>1. ASSUME Satisfies("instant", leaf)
      PROVE  leaf.type = "string" /\ leaf.text \in {"date", "date newline"}
  <2>1. "format" \in StringKeywords
    BY DEF StringKeywords
  <2> QED BY <1>1, <2>1, FormatRules, StringHolds DEF Satisfies
<1>2. ASSUME Satisfies("protocol", leaf)
      PROVE  leaf.text \in {"ohttp-zcash-tx-v1", "development-direct-v1"}
  <2>1. "enum" \in StringKeywords
    BY DEF StringKeywords
  <2> QED BY <1>2, <2>1, EnumRules, StringHolds DEF Satisfies
<1>3. ASSUME Satisfies("release_mode", leaf) PROVE leaf.type = "string"
  <2>1. "enum" \in StringKeywords
    BY DEF StringKeywords
  <2> QED BY <1>3, <2>1, EnumRules, StringHolds DEF Satisfies
<1>4. Satisfies("natural", leaf) => leaf.type = "integer"
  BY TypeRules, TypedHolds DEF Satisfies
<1>5. Satisfies("boolean", leaf) => leaf.type = "boolean"
  BY TypeRules, TypedHolds DEF Satisfies
<1>6. Satisfies("object", leaf) => leaf.type = "object"
  BY TypeRules, TypedHolds DEF Satisfies
<1> QED BY <1>1, <1>2, <1>3, <1>4, <1>5, <1>6

\* Every keyword of a rule has an issue code of its own.
Known(constraints) == \A c \in constraints : c.keyword \in DOMAIN IssueCode

LEMMA VocabularyIsKnown ==
  /\ \A type : Known({Typed(type)})
  /\ \A type, texts : Known({OneOf("const", type, texts)})
  /\ \A keyword \in StringKeywords : \A texts : Known(String(keyword, texts))
  /\ \A texts, more : Known(String("minLength", texts)
                              \cup {OneOf("maxLength", "string", more)})
  /\ \A least : Known(Integer(least))
  /\ \A least, most : Known(Integer(least) \cup {Bound("maximum", most)})
  /\ Known(Array)
<1>1. DOMAIN IssueCode = { "type", "enum", "const", "pattern", "format", "minLength",
                           "maxLength", "minItems", "minimum", "maximum" }
  BY SMT DEF IssueCode
<1> QED
  BY <1>1 DEF Known, StringKeywords, Typed, OneOf, String, Integer, Array, Bound

LEMMA OtherRulesAreKnown ==
  /\ Known(Rule["text"]) /\ Known(Rule["boolean"]) /\ Known(Rule["always"])
  /\ Known(Rule["never"]) /\ Known(Rule["natural"]) /\ Known(Rule["positive"])
  /\ Known(Rule["padding"]) /\ Known(Rule["object"]) /\ Known(Rule["list"])
  /\ Known(Rule["filled_list"])
BY SMT, VocabularyIsKnown DEF Rule

\* Every rule of the schemas has a keyword the normaliser knows.
LEMMA RulesAreKnown ==
  ASSUME NEW rule \in DOMAIN Rule
  PROVE  Known(Rule[rule])
<1>1. \A keyword \in {"pattern", "format", "minLength", "enum"} :
        \A texts : Known(String(keyword, texts))
  BY VocabularyIsKnown DEF StringKeywords
<1>2. Known(Rule["version"]) /\ Known(Rule["digest"])
  BY <1>1, PatternRules
<1>3. Known(Rule["instant"]) /\ Known(Rule["uri"]) /\ Known(Rule["uri_reference"])
  BY <1>1, FormatRules
<1>4. Known(Rule["name"]) /\ Known(Rule["identifier"])
  <2>1. Known(Rule["name"])
    BY <1>1, LengthRules
  <2>2. Known(String("minLength", {"name", "long name"})
                \cup {OneOf("maxLength", "string", {"name", "short name"})})
    BY VocabularyIsKnown
  <2> QED BY <2>1, <2>2, LengthRules
<1>5. /\ Known(Rule["network"]) /\ Known(Rule["implementation"])
      /\ Known(Rule["protocol"]) /\ Known(Rule["release_mode"])
      /\ Known(Rule["object_kind"])
  BY <1>1, EnumRules
<1>6. /\ Known(Rule["text"]) /\ Known(Rule["boolean"]) /\ Known(Rule["always"])
      /\ Known(Rule["never"]) /\ Known(Rule["natural"]) /\ Known(Rule["positive"])
      /\ Known(Rule["padding"]) /\ Known(Rule["object"]) /\ Known(Rule["list"])
      /\ Known(Rule["filled_list"])
  BY OtherRulesAreKnown
<1>7. rule \in
        { "version", "digest", "instant", "uri", "uri_reference", "name", "identifier",
          "network", "implementation", "protocol", "release_mode", "object_kind",
          "text", "boolean", "always", "never", "natural", "positive", "padding",
          "object", "list", "filled_list" }
  BY SMT DEF Rule
<1> QED BY <1>2, <1>3, <1>4, <1>5, <1>6, <1>7

-----------------------------------------------------------------------------
\* Locations: what stands directly above one.
LEMMA AppendToOne == \A s, f : Append(<<s>>, f) = <<s, f>>
<1> SUFFICES ASSUME NEW s, NEW f PROVE Append(<<s>>, f) = <<s, f>>
  OBVIOUS
<1> DEFINE S == {s, f}
<1>1. /\ <<s>> \in Seq(S) /\ Len(<<s>>) = 1 /\ <<s>>[1] = s
      /\ <<s, f>> \in Seq(S) /\ Len(<<s, f>>) = 2
      /\ <<s, f>>[1] = s /\ <<s, f>>[2] = f
  OBVIOUS
<1>2. /\ Append(<<s>>, f) \in Seq(S) /\ Len(Append(<<s>>, f)) = 2
      /\ Append(<<s>>, f)[1] = s /\ Append(<<s>>, f)[2] = f
  BY <1>1, AppendProperties
<1>3. \A n \in 1 .. 2 : n = 1 \/ n = 2
  OBVIOUS
<1> HIDE DEF S
<1>4. \A n \in 1 .. Len(Append(<<s>>, f)) : Append(<<s>>, f)[n] = <<s, f>>[n]
  BY <1>1, <1>2, <1>3
<1> QED BY <1>1, <1>2, <1>4, SeqEqual

LEMMA AppendToTwo == \A s, t, f : Append(<<s, t>>, f) = <<s, t, f>>
<1> SUFFICES ASSUME NEW s, NEW t, NEW f PROVE Append(<<s, t>>, f) = <<s, t, f>>
  OBVIOUS
<1> DEFINE S == {s, t, f}
<1>1. /\ <<s, t>> \in Seq(S) /\ Len(<<s, t>>) = 2
      /\ <<s, t>>[1] = s /\ <<s, t>>[2] = t
      /\ <<s, t, f>> \in Seq(S) /\ Len(<<s, t, f>>) = 3
      /\ <<s, t, f>>[1] = s /\ <<s, t, f>>[2] = t /\ <<s, t, f>>[3] = f
  OBVIOUS
<1>2. /\ Append(<<s, t>>, f) \in Seq(S) /\ Len(Append(<<s, t>>, f)) = 3
      /\ Append(<<s, t>>, f)[1] = s /\ Append(<<s, t>>, f)[2] = t
      /\ Append(<<s, t>>, f)[3] = f
  BY <1>1, AppendProperties
<1>3. \A n \in 1 .. 3 : n = 1 \/ n = 2 \/ n = 3
  OBVIOUS
<1> HIDE DEF S
<1>4. \A n \in 1 .. Len(Append(<<s, t>>, f)) : Append(<<s, t>>, f)[n] = <<s, t, f>>[n]
  BY <1>1, <1>2, <1>3
<1> QED BY <1>1, <1>2, <1>4, SeqEqual

\* The path of a field below a place has the place above it.
LEMMA AboveAppend ==
  ASSUME NEW S, NEW location \in Seq(S), NEW f
  PROVE  /\ Above(Append(location, f)) = location
         /\ location # <<>> => Len(Append(location, f)) > 1
<1> DEFINE T == S \cup {f}
<1>1. location \in Seq(T) /\ f \in T
  OBVIOUS
<1> HIDE DEF T
<1> QED BY <1>1 DEF Above

\* Sections are at most three levels deep.
LEMMA AboveSections ==
  ASSUME NEW kind \in ContractKind, NEW section \in Sections(kind), NEW f
  PROVE  /\ Above(Append(section.at, f)) = section.at
         /\ section.at # <<>> => Len(Append(section.at, f)) > 1
<1>1. \/ section.at = <<>> \/ \E s : section.at = <<s>>
      \/ \E s, t : section.at = <<s, t>> \/ \E u : section.at = <<s, t, u>>
  <2>1. CASE kind = "privacy_policy"
    BY SMT, <2>1 DEF Sections, PolicySections, PolicyRoot, Object
  <2>2. CASE kind = "privacy_capabilities"
    BY SMT, <2>2 DEF Sections, CapabilitiesSections, Object, Items
  <2>3. CASE kind = "canonical_read_manifest"
    BY SMT, <2>3 DEF Sections, ManifestSections, ManifestRoot, ManifestObject,
                     Object, Items
  <2> QED BY <2>1, <2>2, <2>3 DEF ContractKind
<1>2. \E S : section.at \in Seq(S)
  <2>1. CASE section.at = <<>>
    <3>1. section.at \in Seq({})
      BY <2>1
    <3> QED BY <3>1
  <2>2. ASSUME NEW s, section.at = <<s>> PROVE \E S : section.at \in Seq(S)
    <3>1. section.at \in Seq({s})
      BY <2>2
    <3> QED BY <3>1
  <2>3. ASSUME NEW s, NEW t, section.at = <<s, t>> PROVE \E S : section.at \in Seq(S)
    <3>1. section.at \in Seq({s, t})
      BY <2>3
    <3> QED BY <3>1
  <2>4. ASSUME NEW s, NEW t, NEW u, section.at = <<s, t, u>>
        PROVE  \E S : section.at \in Seq(S)
    <3>1. section.at \in Seq({s, t, u})
      BY <2>4
    <3> QED BY <3>1
  <2> QED BY <1>1, <2>1, <2>2, <2>3, <2>4
<1> QED BY <1>2, AboveAppend

LEMMA ClosedUpwards ==
  ASSUME NEW kind \in ContractKind, NEW section \in Sections(kind),
         NEW document, IsDocument(document), NEW field,
         Has(document, Append(section.at, field))
  PROVE  Has(document, section.at) \/ section.at = <<>>
BY AboveSections DEF IsDocument, Has

-----------------------------------------------------------------------------
\* The tables of the schemas.
LEMMA SectionsAreWellFormed ==
  ASSUME NEW kind \in ContractKind, NEW section \in Sections(kind)
  PROVE  /\ section.type \in {"object", "array"}
         /\ section.type = "array" => section.required = {}
         /\ section.required \subseteq DOMAIN section.properties
         /\ \A field \in DOMAIN section.properties :
              section.properties[field] \in DOMAIN Rule
<1>1. CASE kind = "privacy_policy"
  BY SMT, <1>1 DEF Sections, PolicySections, PolicyRoot, Object, Rule
<1>2. CASE kind = "privacy_capabilities"
  BY SMT, <1>2 DEF Sections, CapabilitiesSections, Object, Items, Rule
<1>3. CASE kind = "canonical_read_manifest"
  BY SMT, <1>3 DEF Sections, ManifestSections, ManifestRoot, ManifestObject,
                   Object, Items, Rule
<1> QED BY <1>1, <1>2, <1>3 DEF ContractKind

LEMMA CapabilitiesHaveParents ==
  ASSUME NEW section \in CapabilitiesSections, section.at # <<>>,
         section.type = "object"
  PROVE  \E parent \in CapabilitiesSections : \E field \in DOMAIN parent.properties :
           /\ section.at = Append(parent.at, field)
           /\ parent.properties[field] = "object"
           /\ \/ parent.at = <<>> \/ parent.type = "array"
              \/ \E name : parent.at = <<name>>
BY SMTT(30) DEF CapabilitiesSections, Object, Items

\* An object that is not the root is a field of an object at the root, of an
\* object of the root, or of an array.
LEMMA SectionsHaveParents ==
  ASSUME NEW kind \in ContractKind, NEW section \in Sections(kind),
         section.at # <<>>, section.type = "object"
  PROVE  \E parent \in Sections(kind) : \E field \in DOMAIN parent.properties :
           /\ section.at = Append(parent.at, field)
           /\ parent.properties[field] = "object"
           /\ \/ parent.at = <<>> \/ parent.type = "array"
              \/ \E name : parent.at = <<name>>
<1>1. CASE kind = "privacy_policy"
  <2>1. PolicyRoot \in PolicySections /\ PolicyRoot.at = <<>>
    BY SMT DEF PolicySections, PolicyRoot, Object
  <2>2. \E field \in DOMAIN PolicyRoot.properties :
          section.at = <<field>> /\ PolicyRoot.properties[field] = "object"
    BY SMT, <1>1 DEF Sections, PolicySections, PolicyRoot, Object
  <2>3. \A field : Append(<<>>, field) = <<field>>
    OBVIOUS
  <2> QED BY <1>1, <2>1, <2>2, <2>3 DEF Sections
<1>2. CASE kind = "privacy_capabilities"
  BY <1>2, CapabilitiesHaveParents DEF Sections
<1>3. CASE kind = "canonical_read_manifest"
  <2> DEFINE list == Items(<<"objects">>, "object")
  <2>1. list \in Sections(kind)
    BY <1>3 DEF Sections, ManifestSections
  <2>2. /\ list.at = <<"objects">> /\ list.type = "array"
        /\ DOMAIN list.properties = ItemNames
        /\ \A i \in ItemNames : list.properties[i] = "object"
    BY DEF Items
  <2>3. \E i \in ItemNames : section.at = <<"objects", i>>
    BY SMT, <1>3 DEF Sections, ManifestSections, ManifestRoot, ManifestObject,
                     Object, Items
  <2> HIDE DEF list
  <2> QED BY <2>1, <2>2, <2>3, AppendToOne
<1> QED BY <1>1, <1>2, <1>3 DEF ContractKind

\* What stands right below the root is a field of the root.
LEMMA CapabilitiesHaveRoot ==
  ASSUME NEW section \in CapabilitiesSections, NEW name, section.at = <<name>>,
         section.type = "object"
  PROVE  \E root \in CapabilitiesSections :
           /\ root.at = <<>> /\ name \in DOMAIN root.properties
           /\ root.properties[name] = "object"
BY SMTT(30) DEF CapabilitiesSections, Object, Items

LEMMA SectionsHaveRoot ==
  ASSUME NEW kind \in ContractKind, NEW section \in Sections(kind), NEW name,
         section.at = <<name>>, section.type = "object"
  PROVE  \E root \in Sections(kind) :
           /\ root.at = <<>> /\ name \in DOMAIN root.properties
           /\ root.properties[name] = "object"
<1>1. CASE kind = "privacy_policy"
  <2>1. PolicyRoot \in PolicySections /\ PolicyRoot.at = <<>>
    BY SMT DEF PolicySections, PolicyRoot, Object
  <2>2. name \in DOMAIN PolicyRoot.properties /\ PolicyRoot.properties[name] = "object"
    BY SMT, <1>1 DEF Sections, PolicySections, PolicyRoot, Object
  <2> QED BY <1>1, <2>1, <2>2 DEF Sections
<1>2. CASE kind = "privacy_capabilities"
  BY <1>2, CapabilitiesHaveRoot DEF Sections
<1>3. CASE kind = "canonical_read_manifest"
  BY SMT, <1>3 DEF Sections, ManifestSections, ManifestRoot, ManifestObject,
                   Object, Items
<1> QED BY <1>1, <1>2, <1>3 DEF ContractKind

-----------------------------------------------------------------------------
\* What a section without errors has.
Fulfilled(section, document) ==
  /\ \A field \in section.required : Has(document, Append(section.at, field))
  /\ \A field \in DOMAIN section.properties :
       Has(document, Append(section.at, field)) =>
         Satisfies(section.properties[field], document[Append(section.at, field)])

\* An error of a section stands for what it says about the document.
LEMMA SectionErrorsMean ==
  ASSUME NEW section, NEW document,
         HasObject(document, section.at) \/ section.type = "array"
  PROVE  SectionErrors(section, document) = {} <=> Fulfilled(section, document)
<1>1. RequiredErrors(section, document) = {}
      <=> \A field \in section.required : Has(document, Append(section.at, field))
  BY DEF RequiredErrors
<1>2. ASSUME NEW rule, NEW leaf
      PROVE  Broken(rule, leaf) = {} <=> Satisfies(rule, leaf)
  BY DEF Broken, Satisfies
<1>3. PropertyErrors(section, document) = {}
      <=> \A field \in DOMAIN section.properties :
            Has(document, Append(section.at, field)) =>
              Broken(section.properties[field], document[Append(section.at, field)]) = {}
  <2> DEFINE present == {f \in DOMAIN section.properties :
                           Has(document, Append(section.at, f))}
             broken(f) == Broken(section.properties[f], document[Append(section.at, f)])
             found(f) == {Error(keyword, Append(section.at, f), "") : keyword \in broken(f)}
  <2>1. PropertyErrors(section, document) = UNION {found(f) : f \in present}
    BY DEF PropertyErrors
  <2>2. \A f : found(f) = {} <=> broken(f) = {}
    OBVIOUS
  <2> HIDE DEF broken, found, present
  <2>3. UNION {found(f) : f \in present} = {} <=> \A f \in present : broken(f) = {}
    BY <2>2
  <2> QED BY <2>1, <2>3 DEF present, broken
<1>4. SectionErrors(section, document)
      = RequiredErrors(section, document) \cup PropertyErrors(section, document)
  BY DEF SectionErrors
<1> QED BY <1>1, <1>2, <1>3, <1>4 DEF Fulfilled

\* And so does an error of a field.
LEMMA FieldErrorsMean ==
  ASSUME NEW kind \in ContractKind, NEW document, IsDocument(document)
  PROVE  FieldErrors(kind, document) = {} <=> FieldsHold(kind, document)
<1>1. FieldErrors(kind, document) = {}
      <=> \A section \in Sections(kind) : SectionErrors(section, document) = {}
  BY DEF FieldErrors
<1>2. FieldsHold(kind, document)
      <=> \A section \in Sections(kind) :
            Has(document, section.at) \/ section.at = <<>> => Fulfilled(section, document)
  BY DEF FieldsHold, Fulfilled, Satisfies
<1>3. ASSUME FieldsHold(kind, document), NEW section \in Sections(kind)
      PROVE  SectionErrors(section, document) = {}
  <2>1. CASE HasObject(document, section.at)
    <3>1. Fulfilled(section, document)
      BY <1>2, <1>3, <2>1 DEF HasObject
    <3> QED BY <2>1, <3>1, SectionErrorsMean
  <2>2. CASE section.type = "array"
    <3>1. CASE Has(document, section.at) \/ section.at = <<>>
      <4>1. Fulfilled(section, document)
        BY <1>2, <1>3, <3>1
      <4> QED BY <2>2, <4>1, SectionErrorsMean
    <3>2. CASE ~(Has(document, section.at) \/ section.at = <<>>)
      <4>1. section.required = {}
        BY <2>2, SectionsAreWellFormed
      <4>2. \A field : ~Has(document, Append(section.at, field))
        BY <3>2, ClosedUpwards
      <4>3. Fulfilled(section, document)
        BY <4>1, <4>2 DEF Fulfilled
      <4> QED BY <2>2, <4>3, SectionErrorsMean
    <3> QED BY <3>1, <3>2
  <2>3. CASE ~HasObject(document, section.at) /\ section.type # "array"
    BY <2>3 DEF SectionErrors
  <2> QED BY <2>1, <2>2, <2>3
<1>4. ASSUME \A section \in Sections(kind) : SectionErrors(section, document) = {}
      PROVE  FieldsHold(kind, document)
  <2>1. ASSUME NEW parent \in Sections(kind), NEW field \in DOMAIN parent.properties,
               parent.properties[field] = "object",
               HasObject(document, parent.at) \/ parent.type = "array",
               Has(document, Append(parent.at, field))
        PROVE  HasObject(document, Append(parent.at, field))
    <3>1. Fulfilled(parent, document)
      BY <1>4, <2>1, SectionErrorsMean
    <3>2. Satisfies("object", document[Append(parent.at, field)])
      BY <2>1, <3>1 DEF Fulfilled
    <3>3. document[Append(parent.at, field)].type = "object"
      BY <3>2, RulesMean
    <3> QED BY <2>1, <3>3 DEF HasObject
  <2>2. HasObject(document, <<>>)
    BY DEF HasObject
  <2>3. ASSUME NEW section \in Sections(kind), NEW name, section.at = <<name>>,
               section.type = "object", Has(document, section.at)
        PROVE  HasObject(document, section.at)
    <3>1. PICK root \in Sections(kind) :
            /\ root.at = <<>> /\ name \in DOMAIN root.properties
            /\ root.properties[name] = "object"
      BY <2>3, SectionsHaveRoot
    <3>2. Append(root.at, name) = section.at
      BY <2>3, <3>1
    <3> QED BY <2>1, <2>2, <2>3, <3>1, <3>2
  <2>4. ASSUME NEW section \in Sections(kind), section.type = "object",
               Has(document, section.at) \/ section.at = <<>>
        PROVE  HasObject(document, section.at)
    <3>1. CASE section.at = <<>>
      BY <2>2, <3>1
    <3>2. CASE section.at # <<>>
      <4>1. PICK parent \in Sections(kind) : \E field \in DOMAIN parent.properties :
              /\ section.at = Append(parent.at, field)
              /\ parent.properties[field] = "object"
              /\ \/ parent.at = <<>> \/ parent.type = "array"
                 \/ \E name : parent.at = <<name>>
        BY <2>4, <3>2, SectionsHaveParents
      <4>2. PICK field \in DOMAIN parent.properties :
              section.at = Append(parent.at, field) /\ parent.properties[field] = "object"
        BY <4>1
      <4>3. Has(document, Append(parent.at, field))
        BY <2>4, <3>2, <4>2
      <4>4. Has(document, parent.at) \/ parent.at = <<>>
        BY <4>3, ClosedUpwards
      <4>5. HasObject(document, parent.at) \/ parent.type = "array"
        <5>1. CASE parent.at = <<>> \/ parent.type = "array"
          BY <2>2, <5>1
        <5>2. CASE parent.at # <<>> /\ parent.type # "array"
          <6>1. PICK name : parent.at = <<name>>
            BY <4>1, <5>2
          <6>2. parent.type = "object"
            BY <5>2, SectionsAreWellFormed
          <6> QED BY <2>3, <4>4, <5>2, <6>1, <6>2
        <5> QED BY <5>1, <5>2
      <4> QED BY <2>1, <4>2, <4>3, <4>5
    <3> QED BY <3>1, <3>2
  <2>5. ASSUME NEW section \in Sections(kind),
               Has(document, section.at) \/ section.at = <<>>
        PROVE  Fulfilled(section, document)
    <3>1. HasObject(document, section.at) \/ section.type = "array"
      BY <2>4, <2>5, SectionsAreWellFormed
    <3> QED BY <1>4, <3>1, SectionErrorsMean
  <2> QED BY <1>2, <2>5
<1> QED BY <1>1, <1>3, <1>4

-----------------------------------------------------------------------------
\* What a document that fulfils its sections has where the semantic rules look.
LEMMA RequiredField ==
  ASSUME NEW kind \in ContractKind, NEW document, FieldsHold(kind, document),
         NEW section \in Sections(kind),
         Has(document, section.at) \/ section.at = <<>>,
         NEW field \in section.required
  PROVE  /\ Has(document, Append(section.at, field))
         /\ Satisfies(section.properties[field], document[Append(section.at, field)])
<1>1. field \in DOMAIN section.properties
  BY SectionsAreWellFormed
<1> QED BY <1>1 DEF FieldsHold, Satisfies

LEMMA PolicyRootFields ==
  ASSUME NEW document, FieldsHold("privacy_policy", document)
  PROVE  /\ \A field \in {"policy_version", "valid_from", "valid_until", "network",
                          "node", "private_write", "read_privacy"} :
              Has(document, <<field>>)
         /\ Satisfies("instant", document[<<"valid_from">>])
         /\ Satisfies("instant", document[<<"valid_until">>])
         /\ Satisfies("object", document[<<"private_write">>])
         /\ Satisfies("object", document[<<"read_privacy">>])
<1>1. /\ PolicyRoot.at = <<>>
      /\ \A field \in {"policy_version", "valid_from", "valid_until", "network",
                       "node", "private_write", "read_privacy"} :
           field \in PolicyRoot.required
      /\ PolicyRoot.properties["valid_from"] = "instant"
      /\ PolicyRoot.properties["valid_until"] = "instant"
      /\ PolicyRoot.properties["private_write"] = "object"
      /\ PolicyRoot.properties["read_privacy"] = "object"
  BY SMT DEF PolicyRoot, Object
<1>2. PolicyRoot \in Sections("privacy_policy") /\ "privacy_policy" \in ContractKind
  BY DEF Sections, PolicySections, ContractKind
<1>3. \A field : Append(<<>>, field) = <<field>>
  OBVIOUS
<1>4. \A field \in PolicyRoot.required :
        /\ Has(document, <<field>>)
        /\ Satisfies(PolicyRoot.properties[field], document[<<field>>])
  BY <1>1, <1>2, <1>3, RequiredField
<1> QED BY <1>1, <1>4

LEMMA PolicyWriteFields ==
  ASSUME NEW document, FieldsHold("privacy_policy", document)
  PROVE  /\ \A field \in {"enabled", "submission_protocol", "minimum_delay_ms",
                          "maximum_delay_ms", "release_mode", "attestation_required"} :
              Has(document, <<"private_write", field>>)
         /\ Satisfies("boolean", document[<<"private_write", "enabled">>])
         /\ Satisfies("protocol", document[<<"private_write", "submission_protocol">>])
         /\ Satisfies("natural", document[<<"private_write", "minimum_delay_ms">>])
         /\ Satisfies("natural", document[<<"private_write", "maximum_delay_ms">>])
         /\ Satisfies("release_mode", document[<<"private_write", "release_mode">>])
<1>1. PICK section \in PolicySections :
        /\ section.at = <<"private_write">>
        /\ \A field \in {"enabled", "submission_protocol", "minimum_delay_ms",
                         "maximum_delay_ms", "release_mode", "attestation_required"} :
             field \in section.required
        /\ section.properties["enabled"] = "boolean"
        /\ section.properties["submission_protocol"] = "protocol"
        /\ section.properties["minimum_delay_ms"] = "natural"
        /\ section.properties["maximum_delay_ms"] = "natural"
        /\ section.properties["release_mode"] = "release_mode"
  BY SMTT(30) DEF PolicySections, Object
<1>2. section \in Sections("privacy_policy") /\ "privacy_policy" \in ContractKind
  BY DEF Sections, ContractKind
<1>3. Has(document, section.at)
  BY <1>1, PolicyRootFields
<1>4. \A field \in section.required :
        /\ Has(document, <<"private_write", field>>)
        /\ Satisfies(section.properties[field], document[<<"private_write", field>>])
  BY <1>1, <1>2, <1>3, AppendToOne, RequiredField
<1> QED BY <1>1, <1>4

LEMMA PolicyOtherFields ==
  ASSUME NEW document, FieldsHold("privacy_policy", document)
  PROVE  /\ Has(document, <<"read_privacy", "canonical_objects">>)
         /\ Has(document, <<"node", "implementation">>)
<1>1. PICK section \in PolicySections :
        section.at = <<"read_privacy">> /\ "canonical_objects" \in section.required
  BY SMTT(30) DEF PolicySections, Object
<1>2. PICK other \in PolicySections :
        other.at = <<"node">> /\ "implementation" \in other.required
  BY SMTT(30) DEF PolicySections, Object
<1>3. /\ section \in Sections("privacy_policy") /\ other \in Sections("privacy_policy")
      /\ "privacy_policy" \in ContractKind
  BY DEF Sections, ContractKind
<1>4. Has(document, section.at) /\ Has(document, other.at)
  BY <1>1, <1>2, PolicyRootFields
<1> QED BY <1>1, <1>2, <1>3, <1>4, AppendToOne, RequiredField

LEMMA CapabilitiesFields ==
  ASSUME NEW document, FieldsHold("privacy_capabilities", document)
  PROVE  /\ \A field \in {"capabilities_version", "valid_from", "valid_until", "network"} :
              Has(document, <<field>>)
         /\ Satisfies("instant", document[<<"valid_from">>])
         /\ Satisfies("instant", document[<<"valid_until">>])
<1>1. PICK section \in CapabilitiesSections :
        /\ section.at = <<>>
        /\ \A field \in {"capabilities_version", "valid_from", "valid_until", "network"} :
             field \in section.required
        /\ section.properties["valid_from"] = "instant"
        /\ section.properties["valid_until"] = "instant"
  BY SMTT(30) DEF CapabilitiesSections, Object
<1>2. section \in Sections("privacy_capabilities") /\ "privacy_capabilities" \in ContractKind
  BY DEF Sections, ContractKind
<1>3. \A field : Append(<<>>, field) = <<field>>
  OBVIOUS
<1>4. \A field \in section.required :
        /\ Has(document, <<field>>)
        /\ Satisfies(section.properties[field], document[<<field>>])
  BY <1>1, <1>2, <1>3, RequiredField
<1> QED BY <1>1, <1>4

LEMMA ManifestFields ==
  ASSUME NEW document, FieldsHold("canonical_read_manifest", document)
  PROVE  Has(document, <<"format_version">>) /\ Has(document, <<"network">>)
<1>1. /\ ManifestRoot.at = <<>>
      /\ "format_version" \in ManifestRoot.required /\ "network" \in ManifestRoot.required
  BY SMT DEF ManifestRoot, Object
<1>2. /\ ManifestRoot \in Sections("canonical_read_manifest")
      /\ "canonical_read_manifest" \in ContractKind
  BY DEF Sections, ManifestSections, ContractKind
<1>3. \A field : Append(<<>>, field) = <<field>>
  OBVIOUS
<1> QED BY <1>1, <1>2, <1>3, RequiredField

\* A height that is there is a natural number, as long as it is not huge.
LEMMA ManifestHeights ==
  ASSUME NEW document, IsDocument(document),
         FieldsHold("canonical_read_manifest", document),
         NEW i \in ItemNames, NEW end \in {"start_height", "end_height"},
         Has(document, <<"objects", i, end>>)
  PROVE  Satisfies("natural", document[<<"objects", i, end>>])
<1> DEFINE section == ManifestObject(i)
<1>1. /\ section.at = <<"objects", i>>
      /\ end \in DOMAIN section.properties
      /\ section.properties[end] = "natural"
  BY SMT DEF ManifestObject, Object
<1>2. /\ section \in Sections("canonical_read_manifest")
      /\ "canonical_read_manifest" \in ContractKind
  BY DEF Sections, ManifestSections, ContractKind
<1> HIDE DEF section
<1>3. Append(section.at, end) = <<"objects", i, end>>
  BY <1>1, AppendToTwo
<1>4. Has(document, section.at) \/ section.at = <<>>
  BY <1>2, <1>3, ClosedUpwards
<1> QED BY <1>1, <1>2, <1>3, <1>4 DEF FieldsHold, Satisfies

-----------------------------------------------------------------------------
\* The conditions of the schema, one by one.
LEMMA PolicyConditions ==
  Conditionals("privacy_policy") =
    { [ section |-> "private_write", field |-> "release_mode",
        is |-> Node("string", "fixed_epoch", 0),
        at |-> <<"private_write">>, requires |-> "epoch_ms" ],
      [ section |-> "private_write", field |-> "attestation_required",
        is |-> True, at |-> <<>>, requires |-> "attestation_bundle_url" ],
      [ section |-> "read_privacy", field |-> "canonical_objects",
        is |-> True, at |-> <<>>, requires |-> "canonical_manifest_url" ] }
BY DEF Conditionals

\* The conditional rules are those of the policy schema.
LEMMA OnlyPoliciesAreConditional ==
  ASSUME NEW kind \in ContractKind \ {"privacy_policy"}, NEW document
  PROVE  ConditionalErrors(kind, document) = {}
BY DEF ConditionalErrors, Conditionals

\* A condition asks for a field that is not there.
AsksInVain(section, field, leaf, at, requires, document) ==
  /\ Has(document, <<section>>) =>
       /\ HasObject(document, <<section>>)
       /\ Has(document, <<section, field>>) /\ document[<<section, field>>] = leaf
  /\ HasObject(document, at)
  /\ ~Has(document, Append(at, requires))

\* Their errors stand for what the rules say.
LEMMA ConditionalErrorsMean ==
  ASSUME NEW document
  PROVE  LET asked == ConditionalErrors("privacy_policy", document)
             fixed == Node("string", "fixed_epoch", 0)
         IN /\ \A error \in asked :
                 \/ /\ error = Error("required", <<"private_write">>, "epoch_ms")
                    /\ AsksInVain("private_write", "release_mode", fixed,
                                  <<"private_write">>, "epoch_ms", document)
                 \/ /\ error = Error("required", <<>>, "attestation_bundle_url")
                    /\ AsksInVain("private_write", "attestation_required", True,
                                  <<>>, "attestation_bundle_url", document)
                 \/ /\ error = Error("required", <<>>, "canonical_manifest_url")
                    /\ AsksInVain("read_privacy", "canonical_objects", True,
                                  <<>>, "canonical_manifest_url", document)
            /\ AsksInVain("private_write", "release_mode", fixed,
                          <<"private_write">>, "epoch_ms", document)
                 => Error("required", <<"private_write">>, "epoch_ms") \in asked
            /\ AsksInVain("private_write", "attestation_required", True,
                          <<>>, "attestation_bundle_url", document)
                 => Error("required", <<>>, "attestation_bundle_url") \in asked
            /\ AsksInVain("read_privacy", "canonical_objects", True,
                          <<>>, "canonical_manifest_url", document)
                 => Error("required", <<>>, "canonical_manifest_url") \in asked
<1> DEFINE asked == ConditionalErrors("privacy_policy", document)
           fixed == Node("string", "fixed_epoch", 0)
           epoch == [ section |-> "private_write", field |-> "release_mode",
                      is |-> fixed, at |-> <<"private_write">>, requires |-> "epoch_ms" ]
           bundle == [ section |-> "private_write", field |-> "attestation_required",
                       is |-> True, at |-> <<>>, requires |-> "attestation_bundle_url" ]
           url == [ section |-> "read_privacy", field |-> "canonical_objects",
                    is |-> True, at |-> <<>>, requires |-> "canonical_manifest_url" ]
           vain(c) == AsksInVain(c.section, c.field, c.is, c.at, c.requires, document)
           error(c) == Error("required", c.at, c.requires)
<1>1. Conditionals("privacy_policy") = {epoch, bundle, url}
  BY PolicyConditions
<1>2. asked = {error(c) : c \in {c \in Conditionals("privacy_policy") : vain(c)}}
  BY DEF ConditionalErrors, HoldsIf, AsksInVain
<1>3. /\ error(epoch) = Error("required", <<"private_write">>, "epoch_ms")
      /\ error(bundle) = Error("required", <<>>, "attestation_bundle_url")
      /\ error(url) = Error("required", <<>>, "canonical_manifest_url")
  OBVIOUS
<1>4. /\ vain(epoch) = AsksInVain("private_write", "release_mode", fixed,
                                  <<"private_write">>, "epoch_ms", document)
      /\ vain(bundle) = AsksInVain("private_write", "attestation_required", True,
                                   <<>>, "attestation_bundle_url", document)
      /\ vain(url) = AsksInVain("read_privacy", "canonical_objects", True,
                                <<>>, "canonical_manifest_url", document)
  OBVIOUS
<1> HIDE DEF asked, epoch, bundle, url, vain, error
<1>5. /\ \A e \in asked : \/ e = error(epoch) /\ vain(epoch)
                          \/ e = error(bundle) /\ vain(bundle)
                          \/ e = error(url) /\ vain(url)
      /\ vain(epoch) => error(epoch) \in asked
      /\ vain(bundle) => error(bundle) \in asked
      /\ vain(url) => error(url) \in asked
  BY <1>1, <1>2
<1> QED BY <1>3, <1>4, <1>5 DEF asked

-----------------------------------------------------------------------------
\* What the semantic rules say, rule by rule.
LEMMA TypedLeaves ==
  ASSUME NEW leaf
  PROVE  /\ Satisfies("instant", leaf) => (IsTyped(leaf) <=> leaf.text = "date")
         /\ Satisfies("natural", leaf) => (IsTyped(leaf) <=> leaf.text # HUGE)
<1>1. ASSUME Satisfies("instant", leaf) PROVE IsTyped(leaf) <=> leaf.text = "date"
  <2>1. leaf.type = "string" /\ leaf.text \in {"date", "date newline"}
    BY <1>1, RulesMean
  <2> QED BY <2>1 DEF IsTyped
<1>2. ASSUME Satisfies("natural", leaf) PROVE IsTyped(leaf) <=> leaf.text # HUGE
  <2>1. leaf.type = "integer"
    BY <1>2, RulesMean
  <2> QED BY <2>1 DEF IsTyped
<1> QED BY <1>1, <1>2

LEMMA NumbersAreIntegers ==
  ASSUME NEW document, IsDocument(document), NEW location, Has(document, location)
  PROVE  /\ document[location] \in Leaf
         /\ document[location].number \in Int
BY DEF IsDocument, Has, Leaf

\* The validity rules find nothing in a window that holds the instant.
InWindow(document, freshness, now) ==
  LET from == document[<<"valid_from">>].number
      until == document[<<"valid_until">>].number
  IN from < until /\ (freshness => from <= now /\ now < until)

LEMMA ValidityMeans ==
  ASSUME NEW document, NEW freshness \in BOOLEAN, NEW now \in Int,
         document[<<"valid_from">>].number \in Int,
         document[<<"valid_until">>].number \in Int
  PROVE  ValidityIssues(document, freshness, now) = {}
         <=> InWindow(document, freshness, now)
<1> DEFINE from == document[<<"valid_from">>].number
           until == document[<<"valid_until">>].number
<1>1. (~(until <= from) <=> from < until) /\ (~(now < from) <=> from <= now)
      /\ (~(now >= until) <=> now < until)
  OBVIOUS
<1>2. ValidityIssues(document, freshness, now) = {}
      <=> ~(until <= from) /\ ~(freshness /\ now < from) /\ ~(freshness /\ now >= until)
  BY DEF ValidityIssues, When
<1> QED BY <1>1, <1>2 DEF InWindow

LEMMA VersionMeans ==
  ASSUME NEW kind, NEW document
  PROVE  VersionIssues(kind, document) = {} <=> MajorIsSupported(kind, document)
BY DEF VersionIssues, MajorIsSupported, When, SUPPORTED_MAJOR

LEMMA DelaysMean ==
  ASSUME NEW document, IsDocument(document), FieldsHold("privacy_policy", document)
  PROVE  LET least == document[<<"private_write", "minimum_delay_ms">>]
             most == document[<<"private_write", "maximum_delay_ms">>]
         IN /\ least.number \in Int /\ most.number \in Int
            /\ IsTyped(least) <=> least.text # HUGE
            /\ IsTyped(most) <=> most.text # HUGE
            /\ ~(least.number > most.number) <=> least.number <= most.number
<1> DEFINE least == document[<<"private_write", "minimum_delay_ms">>]
           most == document[<<"private_write", "maximum_delay_ms">>]
<1>1. least.number \in Int /\ most.number \in Int
  BY PolicyWriteFields, NumbersAreIntegers
<1>2. Satisfies("natural", least) /\ Satisfies("natural", most)
  BY PolicyWriteFields
<1>3. /\ IsTyped(least) <=> least.text # HUGE
      /\ IsTyped(most) <=> most.text # HUGE
  BY <1>2, TypedLeaves
<1>4. ~(least.number > most.number) <=> least.number <= most.number
  BY <1>1
<1> QED BY <1>1, <1>3, <1>4

\* The two rules on the write path say what the contract says of it.
LEMMA DirectMeans ==
  ASSUME NEW document, IsDocument(document), FieldsHold("privacy_policy", document)
  PROVE  LET enabled == document[<<"private_write", "enabled">>]
             protocol == document[<<"private_write", "submission_protocol">>].text
             development == /\ document[<<"network">>].text = "regtest"
                            /\ document[<<"node", "implementation">>].text = "development"
         IN ~(enabled = True /\ protocol = "development-direct-v1" /\ ~development)
            <=> DirectOnlyInDevelopment(document)
<1> DEFINE enabled == document[<<"private_write", "enabled">>]
           protocol == document[<<"private_write", "submission_protocol">>].text
<1>1. enabled = True <=> enabled # False
  <2>1. enabled \in Leaf
    BY PolicyWriteFields, NumbersAreIntegers
  <2>2. enabled.type = "boolean"
    BY PolicyWriteFields, RulesMean
  <2>3. enabled \in {True, False}
    BY <2>1, <2>2 DEF Leaf
  <2>4. True.text = "true" /\ False.text = "false"
    BY DEF True, False, Node
  <2>5. True # False
    BY <2>4
  <2> QED BY <2>3, <2>5
<1>2. protocol = "development-direct-v1" <=> protocol # "ohttp-zcash-tx-v1"
  <2>1. protocol \in {"ohttp-zcash-tx-v1", "development-direct-v1"}
    BY PolicyWriteFields, RulesMean
  <2> QED BY <2>1
<1> QED BY <1>1, <1>2 DEF DirectOnlyInDevelopment

\* The semantic rules, from their issues back to the fields.
LEMMA PolicyIssuesMean ==
  ASSUME NEW document, IsDocument(document), FieldsHold("privacy_policy", document)
  PROVE  PolicyIssues(document) = {}
         <=> /\ document[<<"private_write", "minimum_delay_ms">>].number
                  <= document[<<"private_write", "maximum_delay_ms">>].number
             /\ DirectOnlyInDevelopment(document)
<1> DEFINE least == document[<<"private_write", "minimum_delay_ms">>].number
           most == document[<<"private_write", "maximum_delay_ms">>].number
           enabled == document[<<"private_write", "enabled">>]
           protocol == document[<<"private_write", "submission_protocol">>].text
           development == /\ document[<<"network">>].text = "regtest"
                          /\ document[<<"node", "implementation">>].text = "development"
<1>1. PolicyIssues(document) = {}
      <=> /\ ~(least > most)
          /\ ~(enabled = True /\ protocol = "development-direct-v1" /\ ~development)
  BY DEF PolicyIssues, When
<1>2. ~(least > most) <=> least <= most
  BY DelaysMean
<1>3. ~(enabled = True /\ protocol = "development-direct-v1" /\ ~development)
      <=> DirectOnlyInDevelopment(document)
  BY DirectMeans
<1> QED BY <1>1, <1>2, <1>3

LEMMA SwitchesMean ==
  ASSUME NEW document, IsDocument(document), FieldsHold("privacy_policy", document)
  PROVE  ConditionalErrors("privacy_policy", document) = {}
         <=> SwitchesHaveTheirFields(document)
<1> DEFINE mode == document[<<"private_write", "release_mode">>]
           fixed == Node("string", "fixed_epoch", 0)
<1>1. mode = fixed <=> mode.text = "fixed_epoch"
  <2>1. mode \in Leaf
    BY PolicyWriteFields, NumbersAreIntegers
  <2>2. mode.type = "string"
    BY PolicyWriteFields, RulesMean
  <2>3. ASSUME mode.text = "fixed_epoch" PROVE mode = fixed
    <3>1. mode.number = 0 /\ mode \in [type : JsonType, text : STRING, number : Int]
      BY <2>1, <2>2, <2>3 DEF Leaf, Denoting
    <3>2. mode = [type |-> mode.type, text |-> mode.text, number |-> mode.number]
      BY <3>1
    <3> QED BY <2>2, <2>3, <3>1, <3>2 DEF Node
  <2>4. fixed.text = "fixed_epoch"
    BY DEF Node
  <2> QED BY <2>3, <2>4
<1>2. /\ Has(document, <<"private_write">>) /\ Has(document, <<"read_privacy">>)
      /\ HasObject(document, <<"private_write">>)
      /\ HasObject(document, <<"read_privacy">>)
      /\ HasObject(document, <<>>)
  BY PolicyRootFields, RulesMean DEF HasObject
<1>3. /\ Has(document, <<"private_write", "release_mode">>)
      /\ Has(document, <<"private_write", "attestation_required">>)
      /\ Has(document, <<"read_privacy", "canonical_objects">>)
  BY PolicyWriteFields, PolicyOtherFields
<1>4. /\ Append(<<"private_write">>, "epoch_ms") = <<"private_write", "epoch_ms">>
      /\ Append(<<>>, "attestation_bundle_url") = <<"attestation_bundle_url">>
      /\ Append(<<>>, "canonical_manifest_url") = <<"canonical_manifest_url">>
  BY AppendToOne
<1>5. AsksInVain("private_write", "release_mode", fixed, <<"private_write">>,
                 "epoch_ms", document)
      <=> mode.text = "fixed_epoch" /\ ~Has(document, <<"private_write", "epoch_ms">>)
  BY <1>1, <1>2, <1>3, <1>4 DEF AsksInVain
<1>6. AsksInVain("private_write", "attestation_required", True, <<>>,
                 "attestation_bundle_url", document)
      <=> /\ document[<<"private_write", "attestation_required">>] = True
          /\ ~Has(document, <<"attestation_bundle_url">>)
  BY <1>2, <1>3, <1>4 DEF AsksInVain
<1>7. AsksInVain("read_privacy", "canonical_objects", True, <<>>,
                 "canonical_manifest_url", document)
      <=> /\ document[<<"read_privacy", "canonical_objects">>] = True
          /\ ~Has(document, <<"canonical_manifest_url">>)
  BY <1>2, <1>3, <1>4 DEF AsksInVain
<1>8. ConditionalErrors("privacy_policy", document) = {}
      <=> /\ ~AsksInVain("private_write", "release_mode", fixed, <<"private_write">>,
                         "epoch_ms", document)
          /\ ~AsksInVain("private_write", "attestation_required", True, <<>>,
                         "attestation_bundle_url", document)
          /\ ~AsksInVain("read_privacy", "canonical_objects", True, <<>>,
                         "canonical_manifest_url", document)
  BY ConditionalErrorsMean
<1> QED BY <1>5, <1>6, <1>7, <1>8 DEF SwitchesHaveTheirFields

LEMMA RangesMean ==
  ASSUME NEW document, IsDocument(document),
         FieldsHold("canonical_read_manifest", document)
  PROVE  RangesAreOrdered(document)
         <=> /\ PassesTypedBoundary("canonical_read_manifest", document)
             /\ ManifestIssues(document) = {}
<1> DEFINE at(i, end) == <<"objects", i, end>>
           least(i) == document[at(i, "start_height")]
           most(i) == document[at(i, "end_height")]
           both(i) == Has(document, at(i, "start_height")) /\ Has(document, at(i, "end_height"))
<1>1. PassesTypedBoundary("canonical_read_manifest", document)
      <=> \A i \in ItemNames : \A end \in {"start_height", "end_height"} :
            Has(document, at(i, end)) => document[at(i, end)].text # HUGE
  <2>1. PassesTypedBoundary("canonical_read_manifest", document)
        <=> \A i \in ItemNames : \A end \in {"start_height", "end_height"} :
              Has(document, at(i, end)) => IsTyped(document[at(i, end)])
    <3>1. TypedFields("canonical_read_manifest")
          = {at(i, end) : i \in ItemNames, end \in {"start_height", "end_height"}}
      BY DEF TypedFields
    <3> HIDE DEF at
    <3> QED BY <3>1 DEF PassesTypedBoundary
  <2>2. \A i \in ItemNames : \A end \in {"start_height", "end_height"} :
          Has(document, at(i, end)) =>
            (IsTyped(document[at(i, end)]) <=> document[at(i, end)].text # HUGE)
    BY ManifestHeights, TypedLeaves
  <2> QED BY <2>1, <2>2
<1>2. ManifestIssues(document) = {}
      <=> \A i \in ItemNames : both(i) => ~(least(i).number > most(i).number)
  BY DEF ManifestIssues, When
<1>3. \A i \in ItemNames : both(i) =>
        (~(least(i).number > most(i).number) <=> least(i).number <= most(i).number)
  <2> SUFFICES ASSUME NEW i \in ItemNames, both(i)
               PROVE  ~(least(i).number > most(i).number)
                      <=> least(i).number <= most(i).number
    OBVIOUS
  <2>1. least(i).number \in Int /\ most(i).number \in Int
    BY NumbersAreIntegers
  <2> QED BY <2>1
<1>4. RangesAreOrdered(document)
      <=> \A i \in ItemNames :
            /\ \A end \in {"start_height", "end_height"} :
                 Has(document, at(i, end)) => document[at(i, end)].text # HUGE
            /\ both(i) => least(i).number <= most(i).number
  BY DEF RangesAreOrdered, Has
<1> HIDE DEF at, least, most, both
<1> QED BY <1>1, <1>2, <1>3, <1>4

\* The dates of a document that has them.
LEMMA DatesMean ==
  ASSUME NEW document, IsDocument(document),
         Has(document, <<"valid_from">>), Has(document, <<"valid_until">>),
         Satisfies("instant", document[<<"valid_from">>]),
         Satisfies("instant", document[<<"valid_until">>]),
         NEW call, call.check_freshness \in BOOLEAN, NEW now \in Int
  PROVE  IsCurrent(call, document, now)
         <=> /\ IsTyped(document[<<"valid_from">>])
             /\ IsTyped(document[<<"valid_until">>])
             /\ ValidityIssues(document, call.check_freshness, now) = {}
<1>1. /\ document[<<"valid_from">>].number \in Int
      /\ document[<<"valid_until">>].number \in Int
  BY NumbersAreIntegers
<1>2. ValidityIssues(document, call.check_freshness, now) = {}
      <=> InWindow(document, call.check_freshness, now)
  BY <1>1, ValidityMeans
<1>3. /\ IsTyped(document[<<"valid_from">>]) <=> document[<<"valid_from">>].text = "date"
      /\ IsTyped(document[<<"valid_until">>]) <=> document[<<"valid_until">>].text = "date"
  BY TypedLeaves
<1> QED BY <1>2, <1>3 DEF IsCurrent, InWindow

\* What the validation accepts, said as Compatible is, but with the patterns as
\* Python reads them.
Readable(call, document, now) ==
  /\ FieldsHold(call.kind, document)
  /\ MajorIsSupported(call.kind, document)
  /\ call.kind # "canonical_read_manifest" => IsCurrent(call, document, now)
  /\ call.kind = "privacy_policy" =>
       /\ SwitchesHaveTheirFields(document)
       /\ DelaysAreOrdered(document)
       /\ DirectOnlyInDevelopment(document)
  /\ call.kind = "canonical_read_manifest" => RangesAreOrdered(document)

\* The schema, the conditions, the typed boundary and the semantic rules
\* together find nothing just where a document is readable.
LEMMA SilenceMeansReadable ==
  ASSUME NEW document, IsDocument(document), NEW call, call.kind \in ContractKind,
         call.check_freshness \in BOOLEAN, NEW now \in Int
  PROVE  Readable(call, document, now)
         <=> /\ Errors(call.kind, document) = {}
             /\ SemanticIssues(call.kind, document, call.check_freshness, now) = {}
<1> DEFINE kind == call.kind
           fresh == call.check_freshness
<1>1. Errors(kind, document) = {}
      <=> FieldsHold(kind, document) /\ ConditionalErrors(kind, document) = {}
  BY FieldErrorsMean DEF Errors
<1>2. SemanticIssues(kind, document, fresh, now) = {}
      => PassesTypedBoundary(kind, document)
  BY DEF SemanticIssues
<1>3. VersionIssues(kind, document) = {} <=> MajorIsSupported(kind, document)
  BY VersionMeans
<1>4. ASSUME FieldsHold(kind, document), kind = "privacy_policy"
      PROVE  Readable(call, document, now)
             <=> /\ ConditionalErrors(kind, document) = {}
                 /\ SemanticIssues(kind, document, fresh, now) = {}
  <2> DEFINE least == document[<<"private_write", "minimum_delay_ms">>]
             most == document[<<"private_write", "maximum_delay_ms">>]
             from == document[<<"valid_from">>]
             until == document[<<"valid_until">>]
  <2>1. IsCurrent(call, document, now)
        <=> IsTyped(from) /\ IsTyped(until) /\ ValidityIssues(document, fresh, now) = {}
    BY <1>4, PolicyRootFields, DatesMean
  <2>2. PassesTypedBoundary(kind, document)
        <=> IsTyped(from) /\ IsTyped(until) /\ IsTyped(least) /\ IsTyped(most)
    <3>1. /\ Has(document, <<"valid_from">>) /\ Has(document, <<"valid_until">>)
          /\ Has(document, <<"private_write", "minimum_delay_ms">>)
          /\ Has(document, <<"private_write", "maximum_delay_ms">>)
      BY <1>4, PolicyRootFields, PolicyWriteFields
    <3>2. TypedFields(kind) = { <<"valid_from">>, <<"valid_until">>,
                                <<"private_write", "minimum_delay_ms">>,
                                <<"private_write", "maximum_delay_ms">> }
      BY <1>4 DEF TypedFields
    <3> QED BY <3>1, <3>2 DEF PassesTypedBoundary
  <2>3. DelaysAreOrdered(document)
        <=> IsTyped(least) /\ IsTyped(most) /\ least.number <= most.number
    BY <1>4, DelaysMean DEF DelaysAreOrdered
  <2>4. PolicyIssues(document) = {}
        <=> least.number <= most.number /\ DirectOnlyInDevelopment(document)
    BY <1>4, PolicyIssuesMean
  <2>5. ConditionalErrors(kind, document) = {} <=> SwitchesHaveTheirFields(document)
    BY <1>4, SwitchesMean
  <2>6. PassesTypedBoundary(kind, document) =>
          (SemanticIssues(kind, document, fresh, now) = {}
           <=> /\ VersionIssues(kind, document) = {}
               /\ ValidityIssues(document, fresh, now) = {}
               /\ PolicyIssues(document) = {})
    BY <1>4 DEF SemanticIssues
  <2>7. Readable(call, document, now)
        <=> /\ MajorIsSupported(kind, document)
            /\ IsCurrent(call, document, now)
            /\ SwitchesHaveTheirFields(document)
            /\ DelaysAreOrdered(document)
            /\ DirectOnlyInDevelopment(document)
    BY <1>4 DEF Readable
  <2> HIDE DEF kind, fresh, least, most, from, until
  <2> QED BY <1>2, <1>3, <2>1, <2>2, <2>3, <2>4, <2>5, <2>6, <2>7
<1>5. ASSUME FieldsHold(kind, document), kind = "privacy_capabilities"
      PROVE  Readable(call, document, now)
             <=> /\ ConditionalErrors(kind, document) = {}
                 /\ SemanticIssues(kind, document, fresh, now) = {}
  <2> DEFINE from == document[<<"valid_from">>]
             until == document[<<"valid_until">>]
  <2>1. IsCurrent(call, document, now)
        <=> IsTyped(from) /\ IsTyped(until) /\ ValidityIssues(document, fresh, now) = {}
    BY <1>5, CapabilitiesFields, DatesMean
  <2>2. PassesTypedBoundary(kind, document) <=> IsTyped(from) /\ IsTyped(until)
    <3>1. Has(document, <<"valid_from">>) /\ Has(document, <<"valid_until">>)
      BY <1>5, CapabilitiesFields
    <3>2. TypedFields(kind) = {<<"valid_from">>, <<"valid_until">>}
      BY <1>5 DEF TypedFields
    <3> QED BY <3>1, <3>2 DEF PassesTypedBoundary
  <2>3. ConditionalErrors(kind, document) = {}
    BY <1>5, OnlyPoliciesAreConditional
  <2>4. PassesTypedBoundary(kind, document) =>
          (SemanticIssues(kind, document, fresh, now) = {}
           <=> /\ VersionIssues(kind, document) = {}
               /\ ValidityIssues(document, fresh, now) = {})
    BY <1>5 DEF SemanticIssues
  <2>5. Readable(call, document, now)
        <=> MajorIsSupported(kind, document) /\ IsCurrent(call, document, now)
    BY <1>5 DEF Readable
  <2> HIDE DEF kind, fresh, from, until
  <2> QED BY <1>2, <1>3, <2>1, <2>2, <2>3, <2>4, <2>5
<1>6. ASSUME FieldsHold(kind, document), kind = "canonical_read_manifest"
      PROVE  Readable(call, document, now)
             <=> /\ ConditionalErrors(kind, document) = {}
                 /\ SemanticIssues(kind, document, fresh, now) = {}
  <2>1. RangesAreOrdered(document)
        <=> PassesTypedBoundary(kind, document) /\ ManifestIssues(document) = {}
    BY <1>6, RangesMean
  <2>2. ConditionalErrors(kind, document) = {}
    BY <1>6, OnlyPoliciesAreConditional
  <2>3. PassesTypedBoundary(kind, document) =>
          (SemanticIssues(kind, document, fresh, now) = {}
           <=> VersionIssues(kind, document) = {} /\ ManifestIssues(document) = {})
    BY <1>6 DEF SemanticIssues
  <2>4. Readable(call, document, now)
        <=> MajorIsSupported(kind, document) /\ RangesAreOrdered(document)
    BY <1>6 DEF Readable
  <2> HIDE DEF kind, fresh
  <2> QED BY <1>2, <1>3, <2>1, <2>2, <2>3, <2>4
<1>7. Readable(call, document, now) => FieldsHold(kind, document)
  BY DEF Readable
<1> HIDE DEF fresh
<1> QED BY <1>1, <1>4, <1>5, <1>6, <1>7 DEF ContractKind, fresh

-----------------------------------------------------------------------------
\* No rule tells a text from the same text with a final newline.
Even(texts) ==
  /\ "semver newline" \in texts <=> "semver" \in texts
  /\ "digest newline" \in texts <=> "digest" \in texts
Blind(constraints) == \A c \in constraints : Even(c.texts)

LEMMA VocabularyIsBlind ==
  /\ \A type : Blind({Typed(type)})
  /\ \A keyword, type, texts : Even(texts) => Blind({OneOf(keyword, type, texts)})
  /\ \A keyword, texts : Even(texts) => Blind(String(keyword, texts))
  /\ \A least : Blind(Integer(least))
  /\ \A least, most : Blind(Integer(least) \cup {Bound("maximum", most)})
  /\ Blind(Array)
<1>1. Even({}) /\ Even({"items"})
  BY DEF Even
<1> QED BY <1>1 DEF Blind, Typed, OneOf, String, Integer, Array, Bound

LEMMA OtherRulesAreBlind ==
  /\ Blind(Rule["text"]) /\ Blind(Rule["boolean"]) /\ Blind(Rule["always"])
  /\ Blind(Rule["never"]) /\ Blind(Rule["natural"]) /\ Blind(Rule["positive"])
  /\ Blind(Rule["padding"]) /\ Blind(Rule["object"]) /\ Blind(Rule["list"])
  /\ Blind(Rule["filled_list"])
<1>1. Even({"true"}) /\ Even({"false"})
  BY DEF Even
<1> QED BY SMT, <1>1, VocabularyIsBlind DEF Rule

LEMMA RulesAreBlind ==
  ASSUME NEW rule \in DOMAIN Rule
  PROVE  Blind(Rule[rule])
<1>1. \A keyword, texts : Even(texts) => Blind(String(keyword, texts))
  BY VocabularyIsBlind
<1>2. Blind(Rule["version"]) /\ Blind(Rule["digest"])
  <2>1. Even({"semver", "semver newline"}) /\ Even({"digest", "digest newline"})
    BY DEF Even
  <2> QED BY <1>1, <2>1, PatternRules
<1>3. Blind(Rule["instant"]) /\ Blind(Rule["uri"]) /\ Blind(Rule["uri_reference"])
  <2>1. Even({"date", "date newline"}) /\ Even({"uri"}) /\ Even({"uri", "relative uri"})
    BY DEF Even
  <2> QED BY <1>1, <2>1, FormatRules
<1>4. Blind(Rule["name"]) /\ Blind(Rule["identifier"])
  <2>1. Even({"name", "long name"}) /\ Even({"name", "short name"})
    BY DEF Even
  <2>2. Blind({OneOf("maxLength", "string", {"name", "short name"})})
    BY <2>1, VocabularyIsBlind
  <2> QED BY <1>1, <2>1, <2>2, LengthRules DEF Blind
<1>5. /\ Blind(Rule["network"]) /\ Blind(Rule["implementation"])
      /\ Blind(Rule["protocol"]) /\ Blind(Rule["release_mode"])
      /\ Blind(Rule["object_kind"])
  <2>1. /\ Even({"mainnet", "testnet", "regtest"})
        /\ Even({"zakura", "zebra", "development"})
        /\ Even({"ohttp-zcash-tx-v1", "development-direct-v1"})
        /\ Even({"immediate", "fixed_epoch", "rolling_pool"})
        /\ Even({"compact_block_range", "full_transaction_block",
                 "full_transaction_range", "subtree_roots",
                 "mempool_snapshot", "mempool_delta"})
    BY DEF Even
  <2> QED BY <1>1, <2>1, EnumRules
<1>6. rule \in
        { "version", "digest", "instant", "uri", "uri_reference", "name", "identifier",
          "network", "implementation", "protocol", "release_mode", "object_kind",
          "text", "boolean", "always", "never", "natural", "positive", "padding",
          "object", "list", "filled_list" }
  BY SMT DEF Rule
<1> QED BY <1>2, <1>3, <1>4, <1>5, <1>6, OtherRulesAreBlind

\* What dropping the newline does to a leaf.
LEMMA ChompKeeps ==
  ASSUME NEW leaf \in Leaf
  PROVE  /\ Chomp(leaf).type = leaf.type /\ Chomp(leaf).number = leaf.number
         /\ \A text : text \notin {"semver", "semver newline", "digest", "digest newline"}
              => (Chomp(leaf).text = text <=> leaf.text = text)
         /\ \A texts : Even(texts) =>
              (Chomp(leaf).text \in texts <=> leaf.text \in texts)
         /\ leaf.text \in {"semver", "semver newline"} => Chomp(leaf).text = "semver"
         /\ leaf.text \in {"digest", "digest newline"} => Chomp(leaf).text = "digest"
         /\ \A other \in {True, False} : Chomp(leaf) = other <=> leaf = other
<1>1. leaf \in [type : JsonType, text : STRING, number : Int]
  BY DEF Leaf
<1>2. \/ leaf.text = "semver newline" /\ Chomp(leaf) = [leaf EXCEPT !.text = "semver"]
      \/ leaf.text = "digest newline" /\ Chomp(leaf) = [leaf EXCEPT !.text = "digest"]
      \/ leaf.text \notin {"semver newline", "digest newline"} /\ Chomp(leaf) = leaf
  BY DEF Chomp
<1>3. \/ /\ leaf.text = "semver newline" /\ Chomp(leaf).text = "semver"
         /\ Chomp(leaf).type = leaf.type /\ Chomp(leaf).number = leaf.number
      \/ /\ leaf.text = "digest newline" /\ Chomp(leaf).text = "digest"
         /\ Chomp(leaf).type = leaf.type /\ Chomp(leaf).number = leaf.number
      \/ leaf.text \notin {"semver newline", "digest newline"} /\ Chomp(leaf) = leaf
  BY <1>1, <1>2
<1>4. True.text = "true" /\ False.text = "false"
  BY DEF True, False, Node
<1>5. \A other \in {True, False} : Chomp(leaf) = other <=> leaf = other
  BY <1>3, <1>4
<1>6. \A texts : Even(texts) => (Chomp(leaf).text \in texts <=> leaf.text \in texts)
  BY <1>3 DEF Even
<1> QED BY <1>3, <1>5, <1>6

LEMMA ChompSatisfies ==
  ASSUME NEW rule \in DOMAIN Rule, NEW leaf \in Leaf
  PROVE  /\ Satisfies(rule, Chomp(leaf)) <=> Satisfies(rule, leaf)
         /\ rule \in DOMAIN Written /\ Satisfies(rule, leaf) =>
              Chomp(leaf).text = Written[rule]
<1>1. ASSUME NEW c \in Rule[rule] PROVE Holds(c, Chomp(leaf)) <=> Holds(c, leaf)
  <2>1. Even(c.texts)
    BY RulesAreBlind DEF Blind
  <2>2. /\ Chomp(leaf).type = leaf.type /\ Chomp(leaf).number = leaf.number
        /\ Chomp(leaf).text \in c.texts <=> leaf.text \in c.texts
    BY <2>1, ChompKeeps
  <2> QED BY <2>2 DEF Holds
<1>2. ASSUME rule \in DOMAIN Written, Satisfies(rule, leaf)
      PROVE  Chomp(leaf).text = Written[rule]
  <2>1. rule \in {"version", "digest"}
    BY <1>2 DEF Written
  <2>2. "pattern" \in StringKeywords
    BY DEF StringKeywords
  <2>3. CASE rule = "version"
    <3>1. leaf.text \in {"semver", "semver newline"}
      BY <1>2, <2>2, <2>3, PatternRules, StringHolds DEF Satisfies
    <3> QED BY <2>3, <3>1, ChompKeeps DEF Written
  <2>4. CASE rule = "digest"
    <3>1. leaf.text \in {"digest", "digest newline"}
      BY <1>2, <2>2, <2>4, PatternRules, StringHolds DEF Satisfies
    <3> QED BY <2>4, <3>1, ChompKeeps DEF Written
  <2> QED BY <2>1, <2>3, <2>4
<1> QED BY <1>1, <1>2 DEF Satisfies

\* The parts of a document without its final newlines.
LEMMA ChompedLeaves ==
  ASSUME NEW document, IsDocument(document)
  PROVE  /\ \A location : Has(Chomped(document), location) <=> Has(document, location)
         /\ \A location : Has(document, location) =>
              /\ document[location] \in Leaf
              /\ Chomped(document)[location] = Chomp(document[location])
BY DEF Has, Chomped, IsDocument

LEMMA ChompedFields ==
  ASSUME NEW kind \in ContractKind, NEW document, IsDocument(document)
  PROVE  /\ FieldsHold(kind, Chomped(document)) <=> FieldsHold(kind, document)
         /\ FieldsHold(kind, document) => PatternsMatchWhole(kind, Chomped(document))
<1> DEFINE chomped == Chomped(document)
<1>1. ASSUME NEW section \in Sections(kind), NEW field \in DOMAIN section.properties,
             Has(document, Append(section.at, field))
      PROVE  LET rule == section.properties[field]
                 location == Append(section.at, field)
             IN /\ Satisfies(rule, chomped[location]) <=> Satisfies(rule, document[location])
                /\ rule \in DOMAIN Written /\ Satisfies(rule, document[location]) =>
                     chomped[location].text = Written[rule]
  BY <1>1, SectionsAreWellFormed, ChompedLeaves, ChompSatisfies
<1>2. FieldsHold(kind, document)
      <=> \A section \in Sections(kind) :
            Has(document, section.at) \/ section.at = <<>> => Fulfilled(section, document)
  BY DEF FieldsHold, Fulfilled, Satisfies
<1>3. FieldsHold(kind, chomped)
      <=> \A section \in Sections(kind) :
            Has(chomped, section.at) \/ section.at = <<>> => Fulfilled(section, chomped)
  BY DEF FieldsHold, Fulfilled, Satisfies
<1>4. ASSUME NEW section \in Sections(kind)
      PROVE  Fulfilled(section, chomped) <=> Fulfilled(section, document)
  BY <1>1, ChompedLeaves DEF Fulfilled
<1>5. ASSUME FieldsHold(kind, document) PROVE PatternsMatchWhole(kind, chomped)
  <2> SUFFICES ASSUME NEW section \in Sections(kind),
                      NEW field \in DOMAIN section.properties,
                      Has(chomped, Append(section.at, field)),
                      section.properties[field] \in DOMAIN Written
               PROVE  chomped[Append(section.at, field)].text
                        = Written[section.properties[field]]
    BY DEF PatternsMatchWhole
  <2>1. Has(document, Append(section.at, field))
    BY ChompedLeaves
  <2>2. Has(document, section.at) \/ section.at = <<>>
    BY <2>1, ClosedUpwards
  <2>3. Satisfies(section.properties[field], document[Append(section.at, field)])
    BY <1>2, <1>5, <2>1, <2>2 DEF Fulfilled
  <2> QED BY <1>1, <2>1, <2>3
<1> HIDE DEF chomped
<1>6. \A location : Has(chomped, location) <=> Has(document, location)
  BY ChompedLeaves DEF chomped
<1> QED BY <1>2, <1>3, <1>4, <1>5, <1>6 DEF chomped

\* What the rules across fields read is the same with and without them.
LEMMA ChompedRules ==
  ASSUME NEW document, IsDocument(document), NEW call, call.kind \in ContractKind,
         FieldsHold(call.kind, document), NEW now
  PROVE  LET chomped == Chomped(document)
         IN /\ MajorIsSupported(call.kind, chomped)
               <=> MajorIsSupported(call.kind, document)
            /\ call.kind # "canonical_read_manifest" =>
                 (IsCurrent(call, chomped, now) <=> IsCurrent(call, document, now))
            /\ call.kind = "privacy_policy" =>
                 /\ SwitchesHaveTheirFields(chomped) <=> SwitchesHaveTheirFields(document)
                 /\ DelaysAreOrdered(chomped) <=> DelaysAreOrdered(document)
                 /\ DirectOnlyInDevelopment(chomped) <=> DirectOnlyInDevelopment(document)
            /\ RangesAreOrdered(chomped) <=> RangesAreOrdered(document)
<1> DEFINE chomped == Chomped(document)
<1>1. \A location : Has(chomped, location) <=> Has(document, location)
  BY ChompedLeaves
<1>2. ASSUME NEW location, Has(document, location)
      PROVE  /\ chomped[location].number = document[location].number
             /\ \A text \in {"date", HUGE, "fixed_epoch", "ohttp-zcash-tx-v1", "regtest",
                             "development"} :
                  chomped[location].text = text <=> document[location].text = text
             /\ \A other \in {True, False} :
                  chomped[location] = other <=> document[location] = other
  <2>1. document[location] \in Leaf /\ chomped[location] = Chomp(document[location])
    BY <1>2, ChompedLeaves
  <2>2. \A text \in {"date", HUGE, "fixed_epoch", "ohttp-zcash-tx-v1", "regtest",
                   "development"} :
          text \notin {"semver", "semver newline", "digest", "digest newline"}
    BY DEF HUGE
  <2> HIDE DEF chomped
  <2> QED BY <2>1, <2>2, ChompKeeps
<1> HIDE DEF chomped
<1>3. MajorIsSupported(call.kind, chomped) <=> MajorIsSupported(call.kind, document)
  <2>1. Has(document, <<VersionField[call.kind]>>)
    BY PolicyRootFields, CapabilitiesFields, ManifestFields DEF ContractKind, VersionField
  <2> QED BY <1>2, <2>1 DEF MajorIsSupported
<1>4. ASSUME call.kind # "canonical_read_manifest"
      PROVE  IsCurrent(call, chomped, now) <=> IsCurrent(call, document, now)
  <2>1. Has(document, <<"valid_from">>) /\ Has(document, <<"valid_until">>)
    BY <1>4, PolicyRootFields, CapabilitiesFields DEF ContractKind
  <2> QED BY <1>2, <2>1 DEF IsCurrent
<1>5. ASSUME call.kind = "privacy_policy"
      PROVE  /\ SwitchesHaveTheirFields(chomped) <=> SwitchesHaveTheirFields(document)
             /\ DelaysAreOrdered(chomped) <=> DelaysAreOrdered(document)
             /\ DirectOnlyInDevelopment(chomped) <=> DirectOnlyInDevelopment(document)
  <2>1. /\ Has(document, <<"network">>)
        /\ \A field \in {"enabled", "submission_protocol", "minimum_delay_ms",
                         "maximum_delay_ms", "release_mode", "attestation_required"} :
             Has(document, <<"private_write", field>>)
        /\ Has(document, <<"read_privacy", "canonical_objects">>)
        /\ Has(document, <<"node", "implementation">>)
    BY <1>5, PolicyRootFields, PolicyWriteFields, PolicyOtherFields
  <2>2. SwitchesHaveTheirFields(chomped) <=> SwitchesHaveTheirFields(document)
    BY <1>1, <1>2, <2>1 DEF SwitchesHaveTheirFields
  <2>3. DelaysAreOrdered(chomped) <=> DelaysAreOrdered(document)
    BY <1>2, <2>1 DEF DelaysAreOrdered
  <2>4. DirectOnlyInDevelopment(chomped) <=> DirectOnlyInDevelopment(document)
    BY <1>2, <2>1 DEF DirectOnlyInDevelopment
  <2> QED BY <2>2, <2>3, <2>4
<1>6. RangesAreOrdered(chomped) <=> RangesAreOrdered(document)
  <2> DEFINE ends(i) == {<<"objects", i, "start_height">>, <<"objects", i, "end_height">>}
             ordered(d, i) ==
               /\ \A end \in ends(i) : Has(d, end) => d[end].text # HUGE
               /\ (\A end \in ends(i) : Has(d, end)) =>
                    d[<<"objects", i, "start_height">>].number
                      <= d[<<"objects", i, "end_height">>].number
  <2>1. ASSUME NEW d PROVE RangesAreOrdered(d) <=> \A i \in ItemNames : ordered(d, i)
    BY DEF RangesAreOrdered, Has
  <2>2. ASSUME NEW i \in ItemNames PROVE ordered(chomped, i) <=> ordered(document, i)
    BY <1>1, <1>2
  <2> HIDE DEF ordered
  <2> QED BY <2>1, <2>2
<1> QED BY <1>3, <1>4, <1>5, <1>6 DEF chomped

\* For every document that can be, what validation finds nothing in is what
\* the contract asks for, once the final newlines of versions and digests are
\* gone, and nothing else: the schema, the conditions, the typed boundary and
\* the semantic rules together say no more and no less than the contracts in
\* their own words (structural_issues, semantic_issues).
THEOREM ValidationMeansCompatible ==
  ASSUME NEW document, IsDocument(document), NEW call, call.kind \in ContractKind,
         call.check_freshness \in BOOLEAN, NEW now \in Int
  PROVE  Compatible(call, Chomped(document), now)
         <=> /\ Errors(call.kind, document) = {}
             /\ SemanticIssues(call.kind, document, call.check_freshness, now) = {}
<1>1. Compatible(call, Chomped(document), now) <=> Readable(call, document, now)
  <2>1. CASE FieldsHold(call.kind, document)
    BY <2>1, ChompedFields, ChompedRules DEF Compatible, Readable
  <2>2. CASE ~FieldsHold(call.kind, document)
    BY <2>2, ChompedFields DEF Compatible, Readable
  <2> QED BY <2>1, <2>2
<1> QED BY <1>1, SilenceMeansReadable

-----------------------------------------------------------------------------
\* The codes of the issues.
ConditionalCodes ==
  { "policy.fixed_epoch.requires_epoch_ms", "policy.attestation.requires_bundle_url",
    "policy.canonical_reads.requires_manifest_url" }
WindowCodes == {"validity.not_yet_valid", "validity.expired"}
CodesOf(found) == {issue.code : issue \in found}

\* Which codes the schema stage prints, and which the semantic one.
LEMMA KeywordCodes ==
  ASSUME NEW keyword \in DOMAIN IssueCode
  PROVE  /\ keyword # "required"
         /\ IssueCode[keyword] \notin ConditionalCodes
         /\ IssueCode[keyword] \notin WindowCodes
<1>1. keyword \in { "type", "enum", "const", "pattern", "format", "minLength",
                    "maxLength", "minItems", "minimum", "maximum" }
  BY SMT DEF IssueCode
<1>2. /\ IssueCode["type"] = "schema.type" /\ IssueCode["enum"] = "schema.enum"
      /\ IssueCode["const"] = "schema.const" /\ IssueCode["pattern"] = "schema.pattern"
      /\ IssueCode["format"] = "schema.format"
      /\ IssueCode["minLength"] = "schema.min_length"
      /\ IssueCode["maxLength"] = "schema.max_length"
      /\ IssueCode["minItems"] = "schema.min_items"
      /\ IssueCode["minimum"] = "schema.minimum" /\ IssueCode["maximum"] = "schema.maximum"
  BY SMT DEF IssueCode
<1> QED BY <1>1, <1>2 DEF ConditionalCodes, WindowCodes

\* What the library reports of a field: it is missing, or breaks a keyword.
LEMMA FieldErrorsAre ==
  ASSUME NEW kind \in ContractKind, NEW document, NEW error \in FieldErrors(kind, document)
  PROVE  \/ error.keyword \in DOMAIN IssueCode
         \/ \E section \in Sections(kind) :
              /\ error.keyword = "required" /\ error.location = section.at
              /\ error.field \in section.required
<1>1. PICK section \in Sections(kind) : error \in SectionErrors(section, document)
  BY DEF FieldErrors
<1>2. CASE error \in RequiredErrors(section, document)
  <2>1. PICK field \in section.required : error = Error("required", section.at, field)
    BY <1>2 DEF RequiredErrors
  <2> QED BY <2>1 DEF Error
<1>3. CASE error \in PropertyErrors(section, document)
  <2>1. PICK field \in DOMAIN section.properties :
          error \in {Error(keyword, Append(section.at, field), "") :
                      keyword \in Broken(section.properties[field],
                                         document[Append(section.at, field)])}
    BY <1>3 DEF PropertyErrors
  <2>2. PICK keyword \in Broken(section.properties[field],
                                document[Append(section.at, field)]) :
          error = Error(keyword, Append(section.at, field), "")
    BY <2>1
  <2>3. error.keyword = keyword
    BY <2>2 DEF Error
  <2>4. PICK c \in Rule[section.properties[field]] : keyword = c.keyword
    BY <2>2 DEF Broken
  <2>5. Known(Rule[section.properties[field]])
    BY SectionsAreWellFormed, RulesAreKnown
  <2> QED BY <2>3, <2>4, <2>5 DEF Known
<1> QED BY <1>1, <1>2, <1>3 DEF SectionErrors

\* No section requires what a condition may ask for.
LEMMA ConditionalFieldsAreOptional ==
  ASSUME NEW section \in Sections("privacy_policy")
  PROVE  /\ section.at = <<"private_write">> => "epoch_ms" \notin section.required
         /\ section.at = <<>> => /\ "attestation_bundle_url" \notin section.required
                                 /\ "canonical_manifest_url" \notin section.required
BY SMT DEF Sections, PolicySections, PolicyRoot, Object

\* An issue with the code of a condition comes from the error of that condition.
LEMMA ConditionalCodesAre ==
  ASSUME NEW document, NEW error \in Errors("privacy_policy", document),
         NEW issue \in NormalizeError(document, error), issue.code \in ConditionalCodes
  PROVE  /\ error \in ConditionalErrors("privacy_policy", document)
         /\ issue.code = "policy.fixed_epoch.requires_epoch_ms" =>
              error = Error("required", <<"private_write">>, "epoch_ms")
         /\ issue.code = "policy.attestation.requires_bundle_url" =>
              /\ error = Error("required", <<>>, "attestation_bundle_url")
              /\ FieldIsTrue(document, "private_write", "attestation_required")
         /\ issue.code = "policy.canonical_reads.requires_manifest_url" =>
              /\ error = Error("required", <<>>, "canonical_manifest_url")
              /\ FieldIsTrue(document, "read_privacy", "canonical_objects")
<1>1. "privacy_policy" \in ContractKind
  BY DEF ContractKind
<1>2. error.keyword \notin DOMAIN IssueCode
  <2> SUFFICES ASSUME error.keyword \in DOMAIN IssueCode PROVE FALSE
    OBVIOUS
  <2>1. error.keyword # "required" /\ IssueCode[error.keyword] \notin ConditionalCodes
    BY KeywordCodes
  <2>2. issue = Issue(IssueCode[error.keyword], error.location)
    BY <2>1 DEF NormalizeError
  <2>3. issue.code = IssueCode[error.keyword]
    BY <2>2 DEF Issue
  <2> QED BY <2>1, <2>3
<1>3. error \in FieldErrors("privacy_policy", document) =>
        \E section \in Sections("privacy_policy") :
          /\ error.keyword = "required" /\ error.location = section.at
          /\ error.field \in section.required
  BY <1>1, <1>2, FieldErrorsAre
<1>4. error \in ConditionalErrors("privacy_policy", document) =>
        /\ error.keyword = "required"
        /\ error = Error("required", error.location, error.field)
  BY ConditionalErrorsMean DEF Error
<1>5. error.keyword = "required"
  BY <1>3, <1>4 DEF Errors
<1>6. issue \in RequiredIssues(document, error.location, error.field)
  BY <1>5 DEF NormalizeError
<1>7. /\ issue.code = "policy.fixed_epoch.requires_epoch_ms" =>
           error.location = <<"private_write">> /\ error.field = "epoch_ms"
      /\ issue.code = "policy.attestation.requires_bundle_url" =>
           /\ error.location = <<>> /\ error.field = "attestation_bundle_url"
           /\ FieldIsTrue(document, "private_write", "attestation_required")
      /\ issue.code = "policy.canonical_reads.requires_manifest_url" =>
           /\ error.location = <<>> /\ error.field = "canonical_manifest_url"
           /\ FieldIsTrue(document, "read_privacy", "canonical_objects")
  BY <1>6 DEF RequiredIssues, Issue
<1>8. error \notin FieldErrors("privacy_policy", document)
  <2>1. \/ error.location = <<"private_write">> /\ error.field = "epoch_ms"
        \/ /\ error.location = <<>>
           /\ error.field \in {"attestation_bundle_url", "canonical_manifest_url"}
    BY <1>7 DEF ConditionalCodes
  <2> QED BY <1>3, <2>1, ConditionalFieldsAreOptional
<1>9. error \in ConditionalErrors("privacy_policy", document)
  BY <1>8 DEF Errors
<1> QED BY <1>4, <1>7, <1>9

\* The field is there with the value that switches on what it asks for.
Asked(document, section, field, leaf) ==
  /\ HasObject(document, <<section>>)
  /\ Has(document, <<section, field>>) /\ document[<<section, field>>] = leaf

\* A field that only a switch asks for is reported missing exactly when the
\* switch is on and the field is not there (_required_issues).
LEMMA ConditionalIssuesMean ==
  ASSUME NEW document
  PROVE  LET codes == CodesOf(StructuralIssues("privacy_policy", document))
             fixed == Node("string", "fixed_epoch", 0)
         IN /\ "policy.fixed_epoch.requires_epoch_ms" \in codes
               <=> /\ Asked(document, "private_write", "release_mode", fixed)
                   /\ ~Has(document, <<"private_write", "epoch_ms">>)
            /\ "policy.attestation.requires_bundle_url" \in codes
               <=> /\ Asked(document, "private_write", "attestation_required", True)
                   /\ ~Has(document, <<"attestation_bundle_url">>)
            /\ "policy.canonical_reads.requires_manifest_url" \in codes
               <=> /\ Asked(document, "read_privacy", "canonical_objects", True)
                   /\ ~Has(document, <<"canonical_manifest_url">>)
<1> DEFINE kind == "privacy_policy"
           codes == CodesOf(StructuralIssues(kind, document))
           fixed == Node("string", "fixed_epoch", 0)
           epoch == AsksInVain("private_write", "release_mode", fixed,
                               <<"private_write">>, "epoch_ms", document)
           bundle == AsksInVain("private_write", "attestation_required", True,
                                <<>>, "attestation_bundle_url", document)
           url == AsksInVain("read_privacy", "canonical_objects", True,
                             <<>>, "canonical_manifest_url", document)
<1>1. /\ Append(<<"private_write">>, "epoch_ms") = <<"private_write", "epoch_ms">>
      /\ Append(<<>>, "attestation_bundle_url") = <<"attestation_bundle_url">>
      /\ Append(<<>>, "canonical_manifest_url") = <<"canonical_manifest_url">>
  BY AppendToOne
<1>2. /\ \A name : HasObject(document, <<name>>) => Has(document, <<name>>)
      /\ HasObject(document, <<>>)
  <2>1. \A name : <<name>> # <<>>
    OBVIOUS
  <2> QED BY <2>1 DEF HasObject
<1>3. epoch <=> /\ Asked(document, "private_write", "release_mode", fixed)
                /\ ~Has(document, <<"private_write", "epoch_ms">>)
  BY <1>1, <1>2 DEF AsksInVain, Asked
<1>4. /\ FieldIsTrue(document, "private_write", "attestation_required")
         <=> Asked(document, "private_write", "attestation_required", True)
      /\ FieldIsTrue(document, "read_privacy", "canonical_objects")
         <=> Asked(document, "read_privacy", "canonical_objects", True)
  BY DEF FieldIsTrue, Asked
<1>5. /\ Asked(document, "private_write", "attestation_required", True)
           /\ ~Has(document, <<"attestation_bundle_url">>) => bundle
      /\ bundle => ~Has(document, <<"attestation_bundle_url">>)
      /\ Asked(document, "read_privacy", "canonical_objects", True)
           /\ ~Has(document, <<"canonical_manifest_url">>) => url
      /\ url => ~Has(document, <<"canonical_manifest_url">>)
  BY <1>1, <1>2 DEF AsksInVain, Asked
<1>6. ASSUME NEW code \in codes \cap ConditionalCodes
      PROVE  \E error \in ConditionalErrors(kind, document) :
               /\ code = "policy.fixed_epoch.requires_epoch_ms" =>
                    error = Error("required", <<"private_write">>, "epoch_ms")
               /\ code = "policy.attestation.requires_bundle_url" =>
                    /\ error = Error("required", <<>>, "attestation_bundle_url")
                    /\ FieldIsTrue(document, "private_write", "attestation_required")
               /\ code = "policy.canonical_reads.requires_manifest_url" =>
                    /\ error = Error("required", <<>>, "canonical_manifest_url")
                    /\ FieldIsTrue(document, "read_privacy", "canonical_objects")
  <2>1. PICK issue \in StructuralIssues(kind, document) : code = issue.code
    BY DEF CodesOf
  <2>2. PICK error \in Errors(kind, document) : issue \in NormalizeError(document, error)
    BY DEF StructuralIssues
  <2> QED BY <2>1, <2>2, ConditionalCodesAre
<1>7. ASSUME NEW error \in ConditionalErrors(kind, document),
             NEW issue \in NormalizeError(document, error)
      PROVE  issue.code \in codes
  <2>1. issue \in StructuralIssues(kind, document)
    BY <1>7 DEF StructuralIssues, Errors
  <2> QED BY <2>1 DEF CodesOf
<1>8. \A location, field :
        NormalizeError(document, Error("required", location, field))
        = RequiredIssues(document, location, field)
  BY DEF NormalizeError, Error
<1>9. /\ Error("required", <<"private_write">>, "epoch_ms").field = "epoch_ms"
      /\ Error("required", <<>>, "attestation_bundle_url").field = "attestation_bundle_url"
      /\ Error("required", <<>>, "canonical_manifest_url").field = "canonical_manifest_url"
  BY DEF Error
<1>10. "policy.fixed_epoch.requires_epoch_ms" \in codes <=> epoch
  <2> DEFINE code == "policy.fixed_epoch.requires_epoch_ms"
             error == Error("required", <<"private_write">>, "epoch_ms")
  <2>1. ASSUME code \in codes PROVE epoch
    <3>1. code \in ConditionalCodes
      BY DEF ConditionalCodes
    <3>2. error \in ConditionalErrors(kind, document)
      BY <1>6, <2>1, <3>1
    <3> QED BY <1>9, <3>2, ConditionalErrorsMean
  <2>2. ASSUME epoch PROVE code \in codes
    <3>1. error \in ConditionalErrors(kind, document)
      BY <2>2, ConditionalErrorsMean
    <3>2. Issue(code, <<"private_write">>) \in NormalizeError(document, error)
      BY <1>8 DEF RequiredIssues
    <3>3. Issue(code, <<"private_write">>).code = code
      BY DEF Issue
    <3> QED BY <1>7, <3>1, <3>2, <3>3
  <2> QED BY <2>1, <2>2
<1>11. "policy.attestation.requires_bundle_url" \in codes
       <=> /\ Asked(document, "private_write", "attestation_required", True)
           /\ ~Has(document, <<"attestation_bundle_url">>)
  <2> DEFINE code == "policy.attestation.requires_bundle_url"
             error == Error("required", <<>>, "attestation_bundle_url")
  <2>1. ASSUME code \in codes
        PROVE  bundle /\ FieldIsTrue(document, "private_write", "attestation_required")
    <3>1. code \in ConditionalCodes
      BY DEF ConditionalCodes
    <3>2. /\ error \in ConditionalErrors(kind, document)
          /\ FieldIsTrue(document, "private_write", "attestation_required")
      BY <1>6, <2>1, <3>1
    <3> QED BY <1>9, <3>2, ConditionalErrorsMean
  <2>2. ASSUME bundle, FieldIsTrue(document, "private_write", "attestation_required")
        PROVE  code \in codes
    <3>1. error \in ConditionalErrors(kind, document)
      BY <2>2, ConditionalErrorsMean
    <3>2. <<>> # <<"private_write">>
      OBVIOUS
    <3>3. Issue(code, <<>>) \in NormalizeError(document, error)
      BY <1>8, <2>2, <3>2 DEF RequiredIssues
    <3>4. Issue(code, <<>>).code = code
      BY DEF Issue
    <3> QED BY <1>7, <3>1, <3>3, <3>4
  <2> QED BY <1>4, <1>5, <2>1, <2>2
<1>12. "policy.canonical_reads.requires_manifest_url" \in codes
       <=> /\ Asked(document, "read_privacy", "canonical_objects", True)
           /\ ~Has(document, <<"canonical_manifest_url">>)
  <2> DEFINE code == "policy.canonical_reads.requires_manifest_url"
             error == Error("required", <<>>, "canonical_manifest_url")
  <2>1. ASSUME code \in codes
        PROVE  url /\ FieldIsTrue(document, "read_privacy", "canonical_objects")
    <3>1. code \in ConditionalCodes
      BY DEF ConditionalCodes
    <3>2. /\ error \in ConditionalErrors(kind, document)
          /\ FieldIsTrue(document, "read_privacy", "canonical_objects")
      BY <1>6, <2>1, <3>1
    <3> QED BY <1>9, <3>2, ConditionalErrorsMean
  <2>2. ASSUME url, FieldIsTrue(document, "read_privacy", "canonical_objects")
        PROVE  code \in codes
    <3>1. error \in ConditionalErrors(kind, document)
      BY <2>2, ConditionalErrorsMean
    <3>2. <<>> # <<"private_write">>
      OBVIOUS
    <3>3. Issue(code, <<>>) \in NormalizeError(document, error)
      BY <1>8, <2>2, <3>2 DEF RequiredIssues
    <3>4. Issue(code, <<>>).code = code
      BY DEF Issue
    <3> QED BY <1>7, <3>1, <3>3, <3>4
  <2> QED BY <1>4, <1>5, <2>1, <2>2
<1> QED BY <1>3, <1>10, <1>11, <1>12

\* The schema says nothing of a window, and the rules nothing of a switch.
LEMMA StructuralCodesAre ==
  ASSUME NEW kind \in ContractKind, NEW document
  PROVE  CodesOf(StructuralIssues(kind, document)) \cap WindowCodes = {}
<1> SUFFICES ASSUME NEW issue \in StructuralIssues(kind, document),
                    issue.code \in WindowCodes
             PROVE  FALSE
  BY DEF CodesOf
<1>1. PICK error \in Errors(kind, document) : issue \in NormalizeError(document, error)
  BY DEF StructuralIssues
<1>2. CASE error.keyword = "required"
  <2>1. issue \in RequiredIssues(document, error.location, error.field)
    BY <1>1, <1>2 DEF NormalizeError
  <2>2. issue.code \in ConditionalCodes \cup {"schema.required"}
    BY <2>1 DEF RequiredIssues, Issue, ConditionalCodes
  <2> QED BY <2>2 DEF ConditionalCodes, WindowCodes
<1>3. CASE error.keyword # "required"
  <2>1. issue = Issue(IssueCode[error.keyword], error.location)
    BY <1>1, <1>3 DEF NormalizeError
  <2>2. issue.code = IssueCode[error.keyword]
    BY <2>1 DEF Issue
  <2>3. error \in FieldErrors(kind, document)
    <3>1. error \notin ConditionalErrors(kind, document)
      BY <1>3 DEF ConditionalErrors, Error
    <3> QED BY <3>1 DEF Errors
  <2>4. error.keyword \in DOMAIN IssueCode
    BY <1>3, <2>3, FieldErrorsAre
  <2> QED BY <2>2, <2>4, KeywordCodes
<1> QED BY <1>2, <1>3

LEMMA SemanticCodesAre ==
  ASSUME NEW kind \in ContractKind, NEW document, NEW freshness, NEW now
  PROVE  CodesOf(SemanticIssues(kind, document, freshness, now)) \cap ConditionalCodes = {}
<1> SUFFICES ASSUME NEW issue \in SemanticIssues(kind, document, freshness, now)
             PROVE  issue.code \notin ConditionalCodes
  BY DEF CodesOf
<1>1. issue.code \in
        { "document.typed_boundary", "version.unsupported", "validity.order",
          "validity.not_yet_valid", "validity.expired", "policy.delay.order",
          "policy.development_direct.requires_development_node", "manifest.range.order" }
  <2>1. \/ issue = Issue("document.typed_boundary", <<>>)
        \/ issue \in VersionIssues(kind, document)
        \/ issue \in ValidityIssues(document, freshness, now)
        \/ issue \in PolicyIssues(document)
        \/ issue \in ManifestIssues(document)
    BY DEF SemanticIssues, ContractKind
  <2>2. ASSUME NEW condition, NEW code, NEW location,
               issue \in When(condition, code, location)
        PROVE  issue.code = code
    BY <2>2 DEF When, Issue
  <2>3. CASE issue = Issue("document.typed_boundary", <<>>)
    BY <2>3 DEF Issue
  <2>4. CASE issue \in VersionIssues(kind, document)
    BY <2>2, <2>4 DEF VersionIssues
  <2>5. CASE issue \in ValidityIssues(document, freshness, now)
    BY <2>2, <2>5 DEF ValidityIssues
  <2>6. CASE issue \in PolicyIssues(document)
    BY <2>2, <2>6 DEF PolicyIssues
  <2>7. CASE issue \in ManifestIssues(document)
    <3>1. \E i \in ItemNames : \E condition :
            issue \in When(condition, "manifest.range.order", <<"objects", i>>)
      BY <2>7 DEF ManifestIssues
    <3> QED BY <2>2, <3>1
  <2> QED BY <2>1, <2>3, <2>4, <2>5, <2>6, <2>7
<1> QED BY <1>1 DEF ConditionalCodes

-----------------------------------------------------------------------------
\* Nothing is at no location.
LEMMA NothingIsADocument == IsDocument(NoDocument) /\ \A location : ~Has(NoDocument, location)
<1>1. DOMAIN NoDocument = {}
  BY DEF NoDocument
<1> QED BY <1>1 DEF IsDocument, Has

\* What is at the path has a state and a document, and only a document has one.
LEMMA FilesAreWellFormed ==
  ASSUME NEW content \in Files \cup InitialFiles
  PROVE  /\ content.state \in FileStates /\ IsDocument(content.document)
         /\ content.state # "document" => content.document = NoDocument
BY ValidationAssumption

\* For every set of requests, files and schema states and any edits: the
\* document in hand is always one that a file may hold, and no file content is
\* ever taken for something else (load_json_document).
THEOREM TypeCorrect == Spec => []TypeOK
<1>1. Init => TypeOK
  <2> SUFFICES ASSUME Init PROVE TypeOK
    OBVIOUS
  <2>1. /\ file \in InitialFiles /\ schema \in SchemaFiles
        /\ clock = 0 /\ edits = 0 /\ pc = "idle"
        /\ loaded = NoDocument /\ outcome = "none" /\ held = {} /\ started = 0
    BY DEF Init
  <2>2. request \in Requests
    BY ValidationAssumption DEF Init
  <2>3. clock \in 0 .. Horizon /\ edits \in 0 .. MaxEdits /\ started \in 0 .. clock
    BY <2>1, ValidationAssumption
  <2>4. IsDocument(loaded)
    BY <2>1, NothingIsADocument
  <2> QED BY <2>1, <2>2, <2>3, <2>4, FilesAreWellFormed DEF TypeOK
<1>2. TypeOK /\ [Next]_vars => TypeOK'
  <2> SUFFICES ASSUME TypeOK, [Next]_vars PROVE TypeOK'
    OBVIOUS
  <2> USE DEF TypeOK
  <2>1. ASSUME NEW call \in Requests, Begin(call) PROVE TypeOK'
    <3>1. started' \in 0 .. clock'
      BY <2>1 DEF Begin, environment
    <3>2. IsDocument(loaded')
      BY <2>1, NothingIsADocument DEF Begin
    <3> QED BY <2>1, <3>1, <3>2 DEF Begin, environment, Stages
  <2>2. CASE ResolveLoop
    BY <2>2 DEF ResolveLoop, environment, history
  <2>3. CASE LoadDocument
    BY <2>3 DEF LoadDocument, Found, Continue, environment, history, Stages
  <2>4. CASE LoadSchema
    BY <2>4 DEF LoadSchema, Found, Continue, environment, history, Stages
  <2>5. CASE CheckStructure
    BY <2>5 DEF CheckStructure, environment, history, Stages
  <2>6. CASE CheckSemantics
    BY <2>6 DEF CheckSemantics, Found, environment, history, Stages
  <2>7. CASE Report
    BY <2>7 DEF Report, environment
  <2>8. CASE EditFile
    <3>1. file' \in Files
      BY <2>8 DEF EditFile
    <3>2. file'.state \in FileStates /\ IsDocument(file'.document)
      BY <3>1, FilesAreWellFormed
    <3>3. \A document \in held' : IsDocument(document)
      BY <2>8, <3>2 DEF EditFile
    <3>4. edits' \in 0 .. MaxEdits
      BY <2>8, ValidationAssumption DEF EditFile
    <3> QED BY <2>8, <3>2, <3>3, <3>4 DEF EditFile, run
  <2>9. CASE EditSchema
    <3>1. edits' \in 0 .. MaxEdits
      BY <2>9, ValidationAssumption DEF EditSchema
    <3> QED BY <2>9, <3>1 DEF EditSchema, run
  <2>10. CASE Tick
    <3>1. clock' \in 0 .. Horizon /\ started' \in 0 .. clock'
      BY <2>10, ValidationAssumption DEF Tick, history
    <3> QED BY <2>10, <3>1 DEF Tick, run, history
  <2>11. CASE UNCHANGED vars
    BY <2>11 DEF vars, environment, run, history
  <2> QED
    BY <2>1, <2>2, <2>3, <2>4, <2>5, <2>6, <2>7, <2>8, <2>9, <2>10, <2>11
       DEF Next, Validate
<1> QED BY <1>1, <1>2, PTL DEF Spec

-----------------------------------------------------------------------------
(***************************************************************************)
(* What the issues of a run rest on, stage by stage.                       *)
(***************************************************************************)
Instants == IF request.at = NoInstant THEN started .. clock ELSE {request.at}

\* There was no document or no usable schema.
NotLoaded ==
  /\ issues # {} /\ Codes \subseteq FileCodes
  /\ NoDocument \in held \/ schemas # {"good"}

\* The document has schema errors.
Rejected ==
  /\ loaded \in held /\ "good" \in schemas /\ issues # {}
  /\ issues = StructuralIssues(request.kind, loaded)

\* The document has none, and was judged at an instant.
Weighed ==
  /\ loaded \in held /\ "good" \in schemas
  /\ StructuralIssues(request.kind, loaded) = {}
  /\ \E now \in Instants :
       issues = SemanticIssues(request.kind, loaded, request.check_freshness, now)

Judged == NotLoaded \/ Rejected \/ Weighed

Stage ==
  /\ file \in Files \cup InitialFiles
  /\ pc = "document" => file.document \in held
  /\ pc \in {"document", "schema"} => schema \in schemas
  /\ pc \in {"schema", "structure", "semantics"} => loaded \in held
  /\ pc \in {"structure", "semantics"} => "good" \in schemas
  /\ pc = "semantics" => StructuralIssues(request.kind, loaded) = {}
  /\ outcome # "none" => pc = "idle"
  /\ outcome = "valid" => issues = {}
  /\ outcome = "invalid" => issues # {}

Founded ==
  /\ Stage
  /\ pc = "report" \/ outcome \in {"valid", "invalid"} => Judged

\* What was found of a run stays what it rests on while time passes.
LEMMA JudgedStays ==
  ASSUME TypeOK, Judged, clock' \in Int, clock <= clock',
         UNCHANGED <<request, loaded, issues, held, schemas, started>>
  PROVE  Judged'
<1>1. NotLoaded => NotLoaded'
  BY DEF NotLoaded, Codes
<1>2. Rejected => Rejected'
  BY DEF Rejected
<1>3. Weighed => Weighed'
  <2>1. Instants \subseteq Instants'
    <3>1. /\ started \in Int /\ clock \in Int
      BY DEF TypeOK
    <3>2. started .. clock \subseteq started .. clock'
      BY <3>1
    <3> QED BY <3>2 DEF Instants
  <2> QED BY <2>1 DEF Weighed
<1> QED BY <1>1, <1>2, <1>3 DEF Judged

\* The steps that find something.
LEMMA LoadDocumentIsFounded ==
  ASSUME TypeOK, Founded, LoadDocument
  PROVE  Founded'
<1> USE DEF LoadDocument, Found, Continue, environment, history
<1>1. file.document \in held /\ loaded' \in held'
  BY DEF Founded, Stage
<1>2. outcome' = "none"
  BY DEF Founded, Stage, TypeOK
<1>3. Stage'
  BY <1>1, <1>2 DEF Founded, Stage
<1>4. ASSUME pc' = "report" PROVE Judged'
  <2>1. \/ file.state = "missing" /\ issues' = {Issue("document.read", <<>>)}
        \/ file.state = "not_object" /\ issues' = {Issue("document.invalid", <<>>)}
    BY <1>4
  <2>2. /\ Issue("document.read", <<>>).code = "document.read"
        /\ Issue("document.invalid", <<>>).code = "document.invalid"
    BY DEF Issue
  <2>3. issues' # {} /\ Codes' \subseteq FileCodes
    BY <2>1, <2>2 DEF Codes, FileCodes
  <2>4. file.document = NoDocument
    BY <2>1, FilesAreWellFormed DEF Founded, Stage
  <2> QED BY <1>1, <2>3, <2>4 DEF Judged, NotLoaded
<1> QED BY <1>2, <1>3, <1>4 DEF Founded

\* The stages, one by one.
LEMMA LoadSchemaIsFounded ==
  ASSUME TypeOK, Founded, LoadSchema
  PROVE  Founded'
<1> USE DEF LoadSchema, Found, Continue, environment, history
<1>1. schema \in schemas /\ loaded \in held
  BY DEF Founded, Stage
<1>2. outcome' = "none"
  BY DEF Founded, Stage, TypeOK
<1>3. Stage'
  BY <1>1, <1>2 DEF Founded, Stage
<1>4. ASSUME pc' = "report" PROVE Judged'
  <2>1. /\ schema # "good"
        /\ \/ issues' = {Issue("schema.read", <<>>)}
           \/ issues' = {Issue("schema.invalid", <<>>)}
           \/ issues' = {Issue("schema.reference", <<>>)}
    BY <1>4
  <2>2. /\ Issue("schema.read", <<>>).code = "schema.read"
        /\ Issue("schema.invalid", <<>>).code = "schema.invalid"
        /\ Issue("schema.reference", <<>>).code = "schema.reference"
    BY DEF Issue
  <2>3. issues' # {} /\ Codes' \subseteq FileCodes
    BY <2>1, <2>2 DEF Codes, FileCodes
  <2> QED BY <1>1, <2>1, <2>3 DEF Judged, NotLoaded
<1> QED BY <1>2, <1>3, <1>4 DEF Founded

LEMMA CheckStructureIsFounded ==
  ASSUME TypeOK, Founded, CheckStructure
  PROVE  Founded'
<1> USE DEF CheckStructure, environment, history
<1>1. loaded \in held /\ "good" \in schemas
  BY DEF Founded, Stage
<1>2. outcome' = "none"
  BY DEF Founded, Stage, TypeOK
<1>3. Stage'
  BY <1>1, <1>2 DEF Founded, Stage
<1>4. ASSUME pc' = "report" PROVE Judged'
  BY <1>1, <1>4 DEF Judged, Rejected
<1> QED BY <1>2, <1>3, <1>4 DEF Founded

LEMMA CheckSemanticsIsFounded ==
  ASSUME TypeOK, Founded, CheckSemantics
  PROVE  Founded'
<1> USE DEF CheckSemantics, Found, environment, history
<1>1. /\ loaded \in held /\ "good" \in schemas
      /\ StructuralIssues(request.kind, loaded) = {}
  BY DEF Founded, Stage
<1>2. outcome' = "none"
  BY DEF Founded, Stage, TypeOK
<1>3. Stage'
  BY <1>1, <1>2 DEF Founded, Stage
<1>4. (IF request.at = NoInstant THEN clock ELSE request.at) \in Instants'
  BY DEF Instants, TypeOK
<1>5. Judged'
  BY <1>1, <1>4 DEF Judged, Weighed
<1> QED BY <1>3, <1>5 DEF Founded

\* Every issue of a run rests on one reading of the file, a state of the
\* schema, and an instant of the run.
LEMMA FoundedCorrect == Spec => []Founded
<1>1. Init => Founded
  BY DEF Init, Founded, Stage
<1>2. TypeOK /\ Founded /\ [Next]_vars => Founded'
  <2> SUFFICES ASSUME TypeOK, Founded, [Next]_vars PROVE Founded'
    OBVIOUS
  <2>1. clock \in Int
    BY DEF TypeOK
  <2>2. ASSUME NEW call \in Requests, Begin(call) PROVE Founded'
    BY <2>2 DEF Begin, environment, Founded, Stage
  <2>3. CASE ResolveLoop
    BY <2>3 DEF ResolveLoop, environment, history, Founded, Stage
  <2>4. CASE Report
    <3>1. Stage'
      BY <2>4 DEF Report, environment, Founded, Stage
    <3>2. Judged
      BY <2>4 DEF Report, Founded
    <3>3. Judged'
      BY <2>1, <2>4, <3>2, JudgedStays DEF Report, environment
    <3> QED BY <3>1, <3>3 DEF Founded
  <2>5. CASE EditFile
    <3>1. Stage'
      BY <2>5 DEF EditFile, run, Founded, Stage
    <3>2. ASSUME pc' = "report" \/ outcome' \in {"valid", "invalid"} PROVE Judged'
      <4>1. pc # "document" /\ Judged
        BY <2>5, <3>2 DEF EditFile, run, Founded, Stage
      <4>2. held' = held
        BY <2>5, <4>1 DEF EditFile
      <4> QED BY <2>1, <2>5, <4>1, <4>2, JudgedStays DEF EditFile, run
    <3> QED BY <3>1, <3>2 DEF Founded
  <2>6. CASE EditSchema
    <3>1. Stage'
      BY <2>6 DEF EditSchema, run, Founded, Stage
    <3>2. ASSUME pc' = "report" \/ outcome' \in {"valid", "invalid"} PROVE Judged'
      <4>1. pc \notin {"document", "schema"} /\ Judged
        BY <2>6, <3>2 DEF EditSchema, run, Founded, Stage
      <4>2. schemas' = schemas
        BY <2>6, <4>1 DEF EditSchema
      <4> QED BY <2>1, <2>6, <4>1, <4>2, JudgedStays DEF EditSchema, run
    <3> QED BY <3>1, <3>2 DEF Founded
  <2>7. CASE Tick
    <3>1. Stage'
      BY <2>7 DEF Tick, run, history, Founded, Stage
    <3>2. ASSUME pc' = "report" \/ outcome' \in {"valid", "invalid"} PROVE Judged'
      <4>1. Judged
        BY <2>7, <3>2 DEF Tick, run, Founded
      <4>2. clock' \in Int /\ clock <= clock'
        BY <2>1, <2>7 DEF Tick
      <4> QED BY <2>7, <4>1, <4>2, JudgedStays DEF Tick, run, history
    <3> QED BY <3>1, <3>2 DEF Founded
  <2>8. CASE UNCHANGED vars
    <3>1. Stage'
      BY <2>8 DEF vars, environment, run, history, Founded, Stage
    <3>2. ASSUME pc' = "report" \/ outcome' \in {"valid", "invalid"} PROVE Judged'
      BY <2>1, <2>8, <3>2, JudgedStays DEF vars, environment, run, history, Founded
    <3> QED BY <3>1, <3>2 DEF Founded
  <2> QED
    BY <2>2, <2>3, <2>4, <2>5, <2>6, <2>7, <2>8, LoadDocumentIsFounded,
       LoadSchemaIsFounded, CheckStructureIsFounded, CheckSemanticsIsFounded
       DEF Next, Validate
<1> QED BY <1>1, <1>2, TypeCorrect, PTL DEF Spec

-----------------------------------------------------------------------------
\* A document that is none is compatible with nothing.
LEMMA NothingIsIncompatible ==
  ASSUME NEW call, call.kind \in ContractKind, NEW now
  PROVE  ~Compatible(call, Chomped(NoDocument), now)
<1>1. \A location : ~Has(Chomped(NoDocument), location)
  BY NothingIsADocument DEF Has, Chomped
<1>2. ~FieldsHold(call.kind, Chomped(NoDocument))
  BY <1>1, PolicyRootFields, CapabilitiesFields, ManifestFields DEF ContractKind
<1> QED BY <1>2 DEF Compatible

\* What the request of a run is.
LEMMA RequestsAre ==
  ASSUME TypeOK
  PROVE  /\ request.kind \in ContractKind /\ request.check_freshness \in BOOLEAN
         /\ \A now \in Instants : now \in Int
         /\ \E now \in Instants : TRUE
<1>1. /\ request.kind \in ContractKind /\ request.check_freshness \in BOOLEAN
      /\ request.at \in Nat \cup {NoInstant}
  BY ValidationAssumption DEF TypeOK
<1>2. started \in Int /\ clock \in Int /\ started <= clock
  BY DEF TypeOK
<1>3. \A now \in Instants : now \in Int
  BY <1>1, <1>2 DEF Instants, NoInstant
<1>4. started \in Instants \/ request.at \in Instants
  BY <1>2 DEF Instants
<1> QED BY <1>1, <1>3, <1>4

\* For every set of requests, files and schema states, any edits and any
\* passing of time: an accepted document was at the path, whole, at one moment
\* between the start of the run and its reading, and is what the contract asks
\* for at an instant of the run, up to a final newline of its versions and
\* digests; a rejected one is not, unless the schema was not there to check it
\* with (validate_document, run_policy_validate).
THEOREM VerdictCorrect == Spec => []VerdictIsOfOneReading
<1>1. TypeOK /\ Founded => VerdictIsOfOneReading
  <2> SUFFICES ASSUME TypeOK, Founded PROVE VerdictIsOfOneReading
    OBVIOUS
  <2> DEFINE judged(good) == \E document \in held, now \in Instants :
                               Compatible(request, Chomped(document), now) = good
             fresh == request.check_freshness
  <2>1. ASSUME NEW document \in held, NEW now \in Instants
        PROVE  Compatible(request, Chomped(document), now)
               <=> /\ Errors(request.kind, document) = {}
                   /\ SemanticIssues(request.kind, document, fresh, now) = {}
    <3>1. IsDocument(document)
      BY DEF TypeOK
    <3> QED BY <3>1, RequestsAre, ValidationMeansCompatible
  <2>2. ASSUME NEW document \in held, NEW now \in Instants
        PROVE  Compatible(request, Chomped(document), now) \in BOOLEAN
    BY DEF Compatible
  <2>3. ASSUME outcome = "valid" PROVE "good" \in schemas /\ judged(TRUE)
    <3>1. Judged /\ issues = {}
      BY <2>3 DEF Founded, Stage
    <3>2. Weighed
      BY <3>1 DEF Judged, NotLoaded, Rejected
    <3>3. PICK now \in Instants :
            issues = SemanticIssues(request.kind, loaded, fresh, now)
      BY <3>2 DEF Weighed
    <3>4. /\ loaded \in held /\ "good" \in schemas
          /\ Errors(request.kind, loaded) = {}
      BY <3>2, RequestsAre, SuppressionIsSafe DEF Weighed
    <3>5. Compatible(request, Chomped(loaded), now)
      BY <2>1, <3>1, <3>3, <3>4
    <3>6. Compatible(request, Chomped(loaded), now) = TRUE
      BY <2>2, <3>4, <3>5
    <3> QED BY <3>4, <3>6
  <2>4. ASSUME outcome = "invalid" PROVE schemas # {"good"} \/ judged(FALSE)
    <3>1. Judged /\ issues # {}
      BY <2>4 DEF Founded, Stage
    <3>2. CASE NotLoaded
      <4>1. CASE NoDocument \in held
        <5>1. PICK now \in Instants : TRUE
          BY RequestsAre
        <5>2. ~Compatible(request, Chomped(NoDocument), now)
          BY RequestsAre, NothingIsIncompatible
        <5>3. Compatible(request, Chomped(NoDocument), now) = FALSE
          BY <2>2, <4>1, <5>2
        <5> QED BY <4>1, <5>3
      <4> QED BY <3>2, <4>1 DEF NotLoaded
    <3>3. CASE Rejected
      <4>1. loaded \in held /\ StructuralIssues(request.kind, loaded) # {}
        BY <3>3 DEF Rejected
      <4>2. Errors(request.kind, loaded) # {}
        BY <4>1 DEF StructuralIssues
      <4>3. PICK now \in Instants : TRUE
        BY RequestsAre
      <4>4. ~Compatible(request, Chomped(loaded), now)
        BY <2>1, <4>1, <4>2
      <4>5. Compatible(request, Chomped(loaded), now) = FALSE
        BY <2>2, <4>1, <4>4
      <4> QED BY <4>1, <4>5
    <3>4. CASE Weighed
      <4>1. PICK now \in Instants :
              issues = SemanticIssues(request.kind, loaded, fresh, now)
        BY <3>4 DEF Weighed
      <4>2. loaded \in held
        BY <3>4 DEF Weighed
      <4>3. ~Compatible(request, Chomped(loaded), now)
        BY <2>1, <3>1, <4>1, <4>2
      <4>4. Compatible(request, Chomped(loaded), now) = FALSE
        BY <2>2, <4>2, <4>3
      <4> QED BY <4>2, <4>4
    <3> QED BY <3>1, <3>2, <3>3, <3>4 DEF Judged
  <2> QED BY <2>3, <2>4 DEF VerdictIsOfOneReading, Instants
<1> QED BY <1>1, TypeCorrect, FoundedCorrect, PTL

\* For every document, whatever else is wrong with it: the field that a switch
\* asks for is reported missing when the switch is on and the field is not
\* there, and only then (_required_issues).
THEOREM ConditionalCorrect == Spec => []ConditionalIssuesAreTrue
<1>1. TypeOK /\ Founded => ConditionalIssuesAreTrue
  <2> SUFFICES ASSUME TypeOK, Founded, outcome \in {"valid", "invalid"},
                      Codes \cap FileCodes = {}, request.kind = "privacy_policy"
               PROVE  /\ "policy.fixed_epoch.requires_epoch_ms" \in Codes
                         <=> /\ Asked(loaded, "private_write", "release_mode",
                                      Node("string", "fixed_epoch", 0))
                             /\ ~Has(loaded, <<"private_write", "epoch_ms">>)
                      /\ "policy.attestation.requires_bundle_url" \in Codes
                         <=> /\ Asked(loaded, "private_write", "attestation_required", True)
                             /\ ~Has(loaded, <<"attestation_bundle_url">>)
                      /\ "policy.canonical_reads.requires_manifest_url" \in Codes
                         <=> /\ Asked(loaded, "read_privacy", "canonical_objects", True)
                             /\ ~Has(loaded, <<"canonical_manifest_url">>)
    BY DEF ConditionalIssuesAreTrue, Asked
  <2>1. Codes = CodesOf(issues)
    BY DEF Codes, CodesOf
  <2>2. ~NotLoaded
    BY DEF NotLoaded, Codes
  <2>3. CASE Rejected
    <3>1. Codes = CodesOf(StructuralIssues("privacy_policy", loaded))
      BY <2>1, <2>3 DEF Rejected
    <3> QED BY <3>1, ConditionalIssuesMean
  <2>4. CASE Weighed
    <3>1. CodesOf(StructuralIssues("privacy_policy", loaded)) = {}
      BY <2>4 DEF Weighed, CodesOf
    <3>2. Codes \cap ConditionalCodes = {}
      BY <2>1, <2>4, RequestsAre, SemanticCodesAre DEF Weighed
    <3>3. /\ "policy.fixed_epoch.requires_epoch_ms" \notin Codes
          /\ "policy.attestation.requires_bundle_url" \notin Codes
          /\ "policy.canonical_reads.requires_manifest_url" \notin Codes
      BY <3>2 DEF ConditionalCodes
    <3> QED BY <3>1, <3>3, ConditionalIssuesMean
  <2> QED BY <2>2, <2>3, <2>4 DEF Founded, Judged
<1> QED BY <1>1, TypeCorrect, FoundedCorrect, PTL

-----------------------------------------------------------------------------
(***************************************************************************)
(* Against the clock, the verdict on one document follows the order of its *)
(* window.                                                                 *)
(***************************************************************************)
WindowPhase(kind, document, now) ==
  IF kind = "canonical_read_manifest" THEN 1
  ELSE IF now >= document[<<"valid_until">>].number THEN 2
  ELSE IF now < document[<<"valid_from">>].number THEN 0 ELSE 1

HasWindow(kind, document) ==
  kind # "canonical_read_manifest" =>
    /\ document[<<"valid_from">>].number \in Int
    /\ document[<<"valid_until">>].number \in Int

\* The last run against the clock judged at an instant before the run that is
\* under way, if there is one.
PhaseIsOfThePast ==
  /\ phase.at \in 0 .. 2
  /\ phase.kind # "none" =>
       /\ HasWindow(phase.kind, phase.document)
       /\ \E then \in Int : /\ then <= (IF pc = "idle" THEN clock ELSE started)
                            /\ phase.at = WindowPhase(phase.kind, phase.document, then)

\* Time closes windows and opens none.
LEMMA WindowsCloseInTime ==
  ASSUME NEW kind, NEW document, HasWindow(kind, document),
         NEW then \in Int, NEW now \in Int, then <= now
  PROVE  WindowPhase(kind, document, then) <= WindowPhase(kind, document, now)
<1> DEFINE from == document[<<"valid_from">>].number
           until == document[<<"valid_until">>].number
<1>1. CASE kind = "canonical_read_manifest"
  BY <1>1 DEF WindowPhase
<1>2. CASE kind # "canonical_read_manifest"
  <2>1. from \in Int /\ until \in Int
    BY <1>2 DEF HasWindow
  <2>2. \A t : WindowPhase(kind, document, t)
               = IF t >= until THEN 2 ELSE IF t < from THEN 0 ELSE 1
    BY <1>2 DEF WindowPhase
  <2> HIDE DEF from, until
  <2> QED BY <2>1, <2>2
<1> QED BY <1>1, <1>2

\* The window codes among the issues are those of the window.
LEMMA WindowCodesAre ==
  ASSUME NEW kind \in {"privacy_policy", "privacy_capabilities"}, NEW document,
         NEW now, PassesTypedBoundary(kind, document)
  PROVE  LET codes == CodesOf(SemanticIssues(kind, document, TRUE, now))
         IN /\ "validity.not_yet_valid" \in codes <=> now < document[<<"valid_from">>].number
            /\ "validity.expired" \in codes <=> now >= document[<<"valid_until">>].number
<1> DEFINE found == SemanticIssues(kind, document, TRUE, now)
           early == now < document[<<"valid_from">>].number
           late == now >= document[<<"valid_until">>].number
<1>1. ASSUME NEW condition, NEW code, NEW location,
             NEW issue \in When(condition, code, location)
      PROVE  issue.code = code /\ condition
  BY <1>1 DEF When, Issue
<1>2. ValidityIssues(document, TRUE, now) \subseteq found
  BY DEF SemanticIssues
<1>3. ASSUME NEW issue \in found
      PROVE  /\ issue.code = "validity.not_yet_valid" => early
             /\ issue.code = "validity.expired" => late
  <2>1. \/ issue \in VersionIssues(kind, document)
        \/ issue \in ValidityIssues(document, TRUE, now)
        \/ issue \in PolicyIssues(document)
    BY <1>3 DEF SemanticIssues
  <2>2. CASE issue \in VersionIssues(kind, document)
    <3>1. issue.code = "version.unsupported"
      BY <1>1, <2>2 DEF VersionIssues
    <3> QED BY <3>1
  <2>3. CASE issue \in PolicyIssues(document)
    <3>1. issue.code \in {"policy.delay.order",
                          "policy.development_direct.requires_development_node"}
      BY <1>1, <2>3 DEF PolicyIssues
    <3> QED BY <3>1
  <2>4. CASE issue \in ValidityIssues(document, TRUE, now)
    <3>1. \/ issue.code = "validity.order"
          \/ issue.code = "validity.not_yet_valid" /\ early
          \/ issue.code = "validity.expired" /\ late
      BY <1>1, <2>4 DEF ValidityIssues
    <3> QED BY <3>1
  <2> QED BY <2>1, <2>2, <2>3, <2>4
<1>4. ASSUME early PROVE "validity.not_yet_valid" \in CodesOf(found)
  <2>1. Issue("validity.not_yet_valid", <<>>) \in ValidityIssues(document, TRUE, now)
    BY <1>4 DEF ValidityIssues, When
  <2>2. Issue("validity.not_yet_valid", <<>>).code = "validity.not_yet_valid"
    BY DEF Issue
  <2> QED BY <1>2, <2>1, <2>2 DEF CodesOf
<1>5. ASSUME late PROVE "validity.expired" \in CodesOf(found)
  <2>1. Issue("validity.expired", <<>>) \in ValidityIssues(document, TRUE, now)
    BY <1>5 DEF ValidityIssues, When
  <2>2. Issue("validity.expired", <<>>).code = "validity.expired"
    BY DEF Issue
  <2> QED BY <1>2, <2>1, <2>2 DEF CodesOf
<1> HIDE DEF found, early, late
<1>6. /\ "validity.not_yet_valid" \in CodesOf(found) <=> early
      /\ "validity.expired" \in CodesOf(found) <=> late
  BY <1>3, <1>4, <1>5 DEF CodesOf
<1> QED BY <1>6 DEF found, early, late

\* What a run against the clock reports of a window, it reports of an instant
\* of the run.
LEMMA ReportsJudgeInstants ==
  ASSUME TypeOK, Founded, pc = "report", JudgesWindow
  PROVE  /\ HasWindow(request.kind, loaded)
         /\ \E now \in started .. clock : Phase = WindowPhase(request.kind, loaded, now)
<1> DEFINE kind == request.kind
<1>1. Codes = CodesOf(issues)
  BY DEF Codes, CodesOf
<1>2. issues # {} => Codes \cap WindowCodes # {}
  BY DEF JudgesWindow, WindowCodes
<1>3. ~NotLoaded
  <2>1. FileCodes \cap WindowCodes = {}
    BY DEF FileCodes, WindowCodes
  <2> QED BY <1>2, <2>1 DEF NotLoaded
<1>4. ~Rejected
  <2>1. CodesOf(StructuralIssues(kind, loaded)) \cap WindowCodes = {}
    BY RequestsAre, StructuralCodesAre
  <2> QED BY <1>1, <1>2, <2>1 DEF Rejected
<1>5. Weighed
  BY <1>3, <1>4 DEF Founded, Judged
<1>6. request.check_freshness = TRUE /\ request.at = NoInstant
  BY RequestsAre DEF JudgesWindow
<1>7. PICK now \in started .. clock : issues = SemanticIssues(kind, loaded, TRUE, now)
  BY <1>5, <1>6 DEF Weighed, Instants
<1>8. FieldsHold(kind, loaded) /\ IsDocument(loaded)
  <2>1. Errors(kind, loaded) = {}
    BY <1>5, RequestsAre, SuppressionIsSafe DEF Weighed
  <2>2. IsDocument(loaded)
    BY DEF TypeOK
  <2> QED BY <2>1, <2>2, RequestsAre, FieldErrorsMean DEF Errors
<1>9. HasWindow(kind, loaded)
  <2> SUFFICES ASSUME kind # "canonical_read_manifest"
               PROVE  /\ loaded[<<"valid_from">>].number \in Int
                      /\ loaded[<<"valid_until">>].number \in Int
    BY DEF HasWindow
  <2>1. Has(loaded, <<"valid_from">>) /\ Has(loaded, <<"valid_until">>)
    BY <1>8, RequestsAre, PolicyRootFields, CapabilitiesFields DEF ContractKind
  <2> QED BY <1>8, <2>1, NumbersAreIntegers
<1>10. PassesTypedBoundary(kind, loaded)
  <2> SUFFICES ASSUME ~PassesTypedBoundary(kind, loaded) PROVE FALSE
    OBVIOUS
  <2>1. issues = {Issue("document.typed_boundary", <<>>)}
    BY <1>7 DEF SemanticIssues
  <2>2. Codes = {"document.typed_boundary"}
    BY <2>1 DEF Codes, Issue
  <2> QED BY <1>2, <2>1, <2>2 DEF WindowCodes
<1>11. CASE kind = "canonical_read_manifest"
  <2>1. issues = VersionIssues(kind, loaded) \cup ManifestIssues(loaded)
    BY <1>7, <1>10, <1>11 DEF SemanticIssues
  <2>2. ASSUME NEW issue \in issues
        PROVE  issue.code \in {"version.unsupported", "manifest.range.order"}
    <3>1. \E condition, location :
            \/ issue \in When(condition, "version.unsupported", location)
            \/ issue \in When(condition, "manifest.range.order", location)
      <4>1. CASE issue \in VersionIssues(kind, loaded)
        BY <4>1 DEF VersionIssues
      <4>2. CASE issue \in ManifestIssues(loaded)
        BY <4>2 DEF ManifestIssues
      <4> QED BY <2>1, <4>1, <4>2
    <3> QED BY <3>1 DEF When, Issue
  <2>3. Codes \cap {"validity.not_yet_valid", "validity.expired"} = {}
    BY <2>2 DEF Codes
  <2>4. Phase = 1
    BY <2>3 DEF Phase
  <2>5. WindowPhase(kind, loaded, now) = 1
    BY <1>11 DEF WindowPhase
  <2> QED BY <1>9, <2>4, <2>5
<1>12. CASE kind # "canonical_read_manifest"
  <2> DEFINE early == now < loaded[<<"valid_from">>].number
             late == now >= loaded[<<"valid_until">>].number
  <2>1. kind \in {"privacy_policy", "privacy_capabilities"}
    BY <1>12, RequestsAre DEF ContractKind
  <2>2. /\ "validity.not_yet_valid" \in Codes <=> early
        /\ "validity.expired" \in Codes <=> late
    BY <1>1, <1>7, <1>10, <2>1, WindowCodesAre
  <2>3. WindowPhase(kind, loaded, now) = IF late THEN 2 ELSE IF early THEN 0 ELSE 1
    BY <1>12 DEF WindowPhase
  <2> HIDE DEF early, late
  <2>4. Phase = IF late THEN 2 ELSE IF early THEN 0 ELSE 1
    BY <2>2 DEF Phase
  <2> QED BY <1>9, <2>3, <2>4
<1> QED BY <1>11, <1>12

LEMMA PhaseStays ==
  ASSUME TypeOK, PhaseIsOfThePast, UNCHANGED <<phase, started>>,
         clock' \in Int, clock <= clock', (pc' = "idle") = (pc = "idle")
  PROVE  PhaseIsOfThePast'
<1>1. started \in Int /\ clock \in Int
  BY DEF TypeOK
<1> SUFFICES ASSUME phase.kind # "none"
             PROVE  \E then \in Int :
                      /\ then <= (IF pc' = "idle" THEN clock' ELSE started)
                      /\ phase.at = WindowPhase(phase.kind, phase.document, then)
  BY DEF PhaseIsOfThePast
<1>2. PICK then \in Int : /\ then <= (IF pc = "idle" THEN clock ELSE started)
                          /\ phase.at = WindowPhase(phase.kind, phase.document, then)
  BY DEF PhaseIsOfThePast
<1>3. then <= (IF pc' = "idle" THEN clock' ELSE started)
  BY <1>1, <1>2
<1> QED BY <1>2, <1>3

\* A run that ends leaves the past where it is, or becomes the past.
LEMMA PhaseAfterRun ==
  ASSUME TypeOK, Founded, PhaseIsOfThePast, Report
  PROVE  PhaseIsOfThePast'
         /\ (phase.kind = phase'.kind /\ phase.document = phase'.document
               => phase.at <= phase'.at)
<1>1. /\ started \in Int /\ clock \in Int /\ started <= clock
      /\ pc = "report" /\ pc' = "idle" /\ clock' = clock /\ started' = started
  BY DEF Report, TypeOK, environment
<1>2. CASE ~JudgesWindow
  <2>1. phase' = phase
    BY <1>2 DEF Report
  <2>2. phase.kind # "none" =>
          \E then \in Int : /\ then <= clock
                            /\ phase.at = WindowPhase(phase.kind, phase.document, then)
    <3> SUFFICES ASSUME phase.kind # "none"
                 PROVE  \E then \in Int :
                          /\ then <= clock
                          /\ phase.at = WindowPhase(phase.kind, phase.document, then)
      OBVIOUS
    <3>1. PICK then \in Int : /\ then <= started
                              /\ phase.at = WindowPhase(phase.kind, phase.document, then)
      BY <1>1 DEF PhaseIsOfThePast
    <3>2. then <= clock
      BY <1>1, <3>1
    <3> QED BY <3>1, <3>2
  <2> QED BY <1>1, <2>1, <2>2 DEF PhaseIsOfThePast
<1>3. CASE JudgesWindow
  <2>1. PICK now \in started .. clock :
          Phase = WindowPhase(request.kind, loaded, now)
    BY <1>1, <1>3, ReportsJudgeInstants
  <2>2. HasWindow(request.kind, loaded) /\ Phase \in 0 .. 2
    BY <1>1, <1>3, ReportsJudgeInstants DEF Phase
  <2>3. /\ phase'.kind = request.kind /\ phase'.document = loaded /\ phase'.at = Phase
    BY <1>3 DEF Report
  <2>4. now \in Int /\ now <= clock /\ started <= now
    BY <1>1
  <2>5. PhaseIsOfThePast'
    BY <1>1, <2>1, <2>2, <2>3, <2>4 DEF PhaseIsOfThePast
  <2>6. ASSUME phase.kind = phase'.kind, phase.document = phase'.document
        PROVE  phase.at <= phase'.at
    <3>1. phase.kind # "none"
      BY <2>3, <2>6, RequestsAre DEF ContractKind
    <3>2. PICK then \in Int : /\ then <= started
                              /\ phase.at = WindowPhase(phase.kind, phase.document, then)
      BY <1>1, <3>1 DEF PhaseIsOfThePast
    <3>3. then <= now
      BY <1>1, <2>4, <3>2
    <3> QED BY <2>1, <2>2, <2>3, <2>4, <2>6, <3>2, <3>3, WindowsCloseInTime
  <2> QED BY <2>5, <2>6
<1> QED BY <1>2, <1>3

LEMMA PhaseCorrect == Spec => []PhaseIsOfThePast
<1>1. Init => PhaseIsOfThePast
  BY DEF Init, PhaseIsOfThePast
<1>2. TypeOK /\ Founded /\ PhaseIsOfThePast /\ [Next]_vars => PhaseIsOfThePast'
  <2> SUFFICES ASSUME TypeOK, Founded, PhaseIsOfThePast, [Next]_vars
               PROVE  PhaseIsOfThePast'
    OBVIOUS
  <2>1. clock \in Int /\ started \in Int
    BY DEF TypeOK
  <2>2. ASSUME NEW call \in Requests, Begin(call) PROVE PhaseIsOfThePast'
    BY <2>2 DEF Begin, PhaseIsOfThePast
  <2>3. CASE ResolveLoop
    <3>1. /\ pc = "document" /\ pc' = "idle" /\ started <= clock
          /\ clock' = clock /\ phase' = phase /\ started' = started
      BY <2>3 DEF ResolveLoop, environment, history, TypeOK
    <3>2. ASSUME phase.kind # "none"
          PROVE  \E then \in Int :
                   /\ then <= clock
                   /\ phase.at = WindowPhase(phase.kind, phase.document, then)
      <4>1. PICK then \in Int : /\ then <= started
                                /\ phase.at = WindowPhase(phase.kind, phase.document, then)
        BY <3>1, <3>2 DEF PhaseIsOfThePast
      <4>2. then <= clock
        BY <2>1, <3>1, <4>1
      <4> QED BY <4>1, <4>2
    <3> QED BY <3>1, <3>2 DEF PhaseIsOfThePast
  <2>4. CASE LoadDocument \/ LoadSchema
    <3>1. /\ UNCHANGED <<phase, started, clock>> /\ pc # "idle" /\ pc' # "idle"
      BY <2>4 DEF LoadDocument, LoadSchema, Found, Continue, environment, history
    <3> QED BY <2>1, <3>1, PhaseStays
  <2>5. CASE CheckStructure \/ CheckSemantics
    <3>1. /\ UNCHANGED <<phase, started, clock>> /\ pc # "idle" /\ pc' # "idle"
      BY <2>5 DEF CheckStructure, CheckSemantics, Found, environment, history
    <3> QED BY <2>1, <3>1, PhaseStays
  <2>6. CASE EditFile \/ EditSchema
    <3>1. UNCHANGED <<phase, started, clock, pc>>
      BY <2>6 DEF EditFile, EditSchema, run
    <3> QED BY <2>1, <3>1, PhaseStays
  <2>7. CASE Tick
    <3>1. UNCHANGED <<phase, started, pc>> /\ clock' \in Int /\ clock <= clock'
      BY <2>1, <2>7 DEF Tick, run, history
    <3> QED BY <3>1, PhaseStays
  <2>8. CASE UNCHANGED vars
    <3>1. UNCHANGED <<phase, started, clock, pc>>
      BY <2>8 DEF vars, environment, run, history
    <3> QED BY <2>1, <3>1, PhaseStays
  <2> QED
    BY <2>2, <2>3, <2>4, <2>5, <2>6, <2>7, <2>8, PhaseAfterRun DEF Next, Validate
<1> QED BY <1>1, <1>2, TypeCorrect, FoundedCorrect, PTL DEF Spec

\* For every document and every pace of the clock: against the clock the same
\* document is first too early, then current, then expired, and never the
\* other way, whatever else happens between the runs (_validity_issues).
THEOREM WindowsCorrect == Spec => WindowsOnlyClose
<1>1. TypeOK /\ Founded /\ PhaseIsOfThePast /\ [Next]_vars
      => [phase.kind = phase'.kind /\ phase.document = phase'.document
            => phase.at <= phase'.at]_vars
  <2> SUFFICES ASSUME TypeOK, Founded, PhaseIsOfThePast, [Next]_vars
               PROVE  phase.kind = phase'.kind /\ phase.document = phase'.document
                        => phase.at <= phase'.at
    OBVIOUS
  <2>1. CASE Report
    BY <2>1, PhaseAfterRun
  <2>2. CASE ~Report
    <3>1. phase' = phase
      BY <2>2 DEF Next, Validate, Begin, ResolveLoop, LoadDocument, LoadSchema,
                  CheckStructure, CheckSemantics, EditFile, EditSchema, Tick,
                  history, vars
    <3>2. phase.at \in Int
      BY DEF PhaseIsOfThePast
    <3> QED BY <3>1, <3>2
  <2> QED BY <2>1, <2>2
<1> QED
  BY <1>1, TypeCorrect, FoundedCorrect, PhaseCorrect, PTL DEF Spec, WindowsOnlyClose

-----------------------------------------------------------------------------
\* For every document a file may hold and every request: what reaches the
\* semantic rules has no schema error.
THEOREM SemanticsSeeNoErrors == Spec => []SuppressionHidesNothing
<1>1. TypeOK /\ Founded => SuppressionHidesNothing
  <2> SUFFICES ASSUME TypeOK, Founded, pc = "semantics"
               PROVE  Errors(request.kind, loaded) = {}
    BY DEF SuppressionHidesNothing
  <2>1. StructuralIssues(request.kind, loaded) = {}
    BY DEF Founded, Stage
  <2> QED BY <2>1, RequestsAre, SuppressionIsSafe
<1> QED BY <1>1, TypeCorrect, FoundedCorrect, PTL
=============================================================================
