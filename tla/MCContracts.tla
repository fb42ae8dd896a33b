---------------------------- MODULE MCContracts ----------------------------
(***************************************************************************)
(* Documents: the shipped examples and what one or two edits make of them. *)
(***************************************************************************)
EXTENDS ContractValidation, FiniteSets

Text(text) == Node("string", text, 0)
Number(n) == Node("integer", "", n)
Huge == Node("integer", HUGE, 9)
Version(text, major) == Node("string", text, major)
Date(instant) == Node("string", "date", instant)
Container(type) == Node(type, IF type = "array" THEN "items" ELSE "", 0)

\* A leaf that satisfies the rule.
Sample ==
  [ version |-> Version("semver", 1), digest |-> Text("digest"), instant |-> Date(1),
    uri |-> Text("uri"), uri_reference |-> Text("relative uri"),
    name |-> Text("name"), identifier |-> Text("name"), network |-> Text("testnet"),
    implementation |-> Text("development"), protocol |-> Text("ohttp-zcash-tx-v1"),
    release_mode |-> Text("fixed_epoch"), object_kind |-> Text("mempool_snapshot"),
    text |-> Text("name"), boolean |-> True, always |-> True, never |-> False,
    natural |-> Number(2), positive |-> Number(1), padding |-> Number(4096),
    object |-> Container("object"), list |-> Container("array"),
    filled_list |-> Container("array") ]

\* What an edit may put where the rule applies.
Edits ==
  [ version |-> {Version("semver", 1), Version("semver", 2), Version("semver", 10),
                 Version("semver newline", 1), Version("malformed", 1)},
    digest |-> {Text("digest newline"), Text("malformed")},
    instant |-> {Date(1), Date(3), Node("string", "date newline", 2), Text("malformed")},
    uri |-> {Text("malformed")}, uri_reference |-> {Text("malformed")},
    name |-> {Text("short name")},
    identifier |-> {Text("short name"), Text("long name"), Text("endless name")},
    network |-> {Text("regtest"), Text("name")},
    implementation |-> {Text("zakura"), Text("name")},
    protocol |-> {Text("development-direct-v1"), Text("name")},
    release_mode |-> {Text("immediate"), Text("name")},
    object_kind |-> {Text("compact_block_range"), Text("name")}, text |-> {Text("name")},
    boolean |-> {True, False}, always |-> {True, False}, never |-> {True, False},
    natural |-> {Number(-1), Number(0), Number(3), Huge},
    positive |-> {Number(0), Number(2)},
    padding |-> {Number(1023), Number(1024), Number(1048576), Number(1048577)},
    object |-> {}, list |-> {Node("array", "empty", 0)},
    filled_list |-> {Node("array", "empty", 0)} ]

Null == Node("null", "", 0)

\* The locations a document of the kind may have, and the rule of each.
AllLocations ==
  [ kind \in ContractKind |->
      UNION { {Append(section.at, f) : f \in DOMAIN section.properties} :
              section \in Sections(kind) } ]
RuleOf ==
  [ kind \in ContractKind |-> [ location \in AllLocations[kind] |->
      LET above == SubSeq(location, 1, Len(location) - 1)
          section == CHOOSE s \in Sections(kind) : s.at = above
      IN section.properties[location[Len(location)]] ] ]

Late == {<<"valid_until">>, <<"private_write", "maximum_delay_ms">>,
         <<"objects", "0", "end_height">>, <<"objects", "1", "end_height">>}

\* The example of the kind: everything it may have, and the later end of each
\* range later.
Example ==
 [ kind \in ContractKind |-> [ location \in AllLocations[kind] |->
      LET sample == Sample[RuleOf[kind][location]]
      IN IF location \in Late THEN [sample EXCEPT !.number = 3] ELSE sample ] ]

Below(location, other) ==
  Len(other) > Len(location) /\ SubSeq(other, 1, Len(location)) = location

Without(document, location) ==
  [ other \in {l \in DOMAIN document : l # location /\ ~Below(location, l)} |->
      document[other] ]
With(document, location, leaf) ==
  [ other \in DOMAIN Without(document, location) \cup {location} |->
      IF other = location THEN leaf ELSE document[other] ]

\* An array loses its last item only; the containers are not edited in place.
MayLose(document, location) ==
  location[Len(location)] = "0" =>
    [location EXCEPT ![Len(location)] = "1"] \notin DOMAIN document

Changed(kind, document, locations) ==
  UNION { {With(document, l, leaf) : leaf \in Edits[RuleOf[kind][l]] \cup {Null}}
          \cup (IF MayLose(document, l) THEN {Without(document, l)} ELSE {}) :
          l \in locations \cap DOMAIN document }

\* The locations the cross-field rules read.
Related ==
  { <<"valid_from">>, <<"valid_until">>, <<"network">>, <<"private_write">>,
    <<"read_privacy">>, <<"attestation_bundle_url">>, <<"canonical_manifest_url">>,
    <<"node", "implementation">>, <<"private_write", "enabled">>,
    <<"private_write", "submission_protocol">>, <<"private_write", "minimum_delay_ms">>,
    <<"private_write", "maximum_delay_ms">>, <<"private_write", "release_mode">>,
    <<"private_write", "epoch_ms">>, <<"private_write", "attestation_required">>,
    <<"read_privacy", "canonical_objects">>, <<"objects", "0", "start_height">>,
    <<"objects", "0", "end_height">>, <<"objects", "1">>,
    <<"objects", "1", "start_height">>, <<"objects", "1", "end_height">> }

EditedOnce(kind) ==
  {Example[kind]} \cup Changed(kind, Example[kind], AllLocations[kind])
EditedTwice(kind) ==
  UNION {Changed(kind, document, Related) :
           document \in Changed(kind, Example[kind], Related)}

File(document) == [state |-> "document", document |-> document]
NoFile(state) == [state |-> state, document |-> NoDocument]

Request(kind, check_freshness, at) ==
  [kind |-> kind, check_freshness |-> check_freshness, at |-> at]

-----------------------------------------------------------------------------
\* Few documents to edit while they are checked, and a clock that passes
\* through the window.
Policy == Example["privacy_policy"]
FewFiles ==
  { File(Policy), File(Example["privacy_capabilities"]),
    File(With(Policy, <<"policy_version">>, Version("semver", 2))),
    File(With(Policy, <<"valid_until">>, Date(1))),
    NoFile("missing"), NoFile("loop"), NoFile("not_object") }

\* Every document, on files that stay as they are.
AllFiles ==
  FewFiles \cup
  {File(document) : document \in UNION {EditedOnce(k) \cup EditedTwice(k) : k \in ContractKind}}

MCRequests ==
  { Request("privacy_policy", FALSE, NoInstant),
    Request("privacy_policy", TRUE, NoInstant),
    Request("privacy_policy", TRUE, 1), Request("privacy_policy", TRUE, 3),
    Request("privacy_capabilities", TRUE, 3),
    Request("canonical_read_manifest", FALSE, NoInstant) }

\* A document that is not one of the few is checked once, with a good schema
\* and not against the clock, and nothing moves meanwhile.
OnlyFewMove ==
  \/ file \in Files
  \/ /\ UNCHANGED environment /\ schema = "good" /\ outcome = "none"
     /\ request'.check_freshness => request'.at # NoInstant
=============================================================================
