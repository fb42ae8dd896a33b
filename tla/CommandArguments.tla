-------------------------- MODULE CommandArguments --------------------------
(***************************************************************************)
(* The two argument parsers, one option per step: policy-validate          *)
(* (privacy_contract_commands.py) takes its words in any order and each    *)
(* once, the client inspection (inspect_legacy_client.py) takes pairs of   *)
(* an option and a value, the last of each counting.  What a parsed        *)
(* request does next is ContractValidation's Begin, and                    *)
(* LegacyClientInspection's Start.                                         *)
(***************************************************************************)
EXTENDS Naturals, Sequences

CONSTANTS
  Words,        \* arguments that are no option, no instant, no NAME=value
  Instants,     \* arguments that end in Z, have a T, and fromisoformat takes
  Unknown,      \* arguments that start with two dashes and are no option here
  PolicyLines,  \* what may be typed after policy-validate
  LegacyLines   \* what may be typed after inspect-legacy-client

FRESHNESS == "--check-freshness"
AT == "--at"
PolicyArgument == {FRESHNESS, AT} \cup Unknown \cup Words \cup Instants

Client == {"vizor", "zodl-android", "zodl-ios"}
OutputFormat == {"human", "jsonl"}
Options == {"--client", "--format", "--vizor-checkout"}

\* The recipes of the justfile may be given NAME=value arguments and hand them
\* on as values: these, and what removeprefix leaves of each.
Prefixed ==
  { [text |-> "CLIENT=vizor", name |-> "CLIENT", rest |-> "vizor"],
    [text |-> "CLIENT=CLIENT=vizor", name |-> "CLIENT", rest |-> "CLIENT=vizor"],
    [text |-> "FORMAT=vizor", name |-> "FORMAT", rest |-> "vizor"],
    [text |-> "FORMAT=jsonl", name |-> "FORMAT", rest |-> "jsonl"] }
LegacyArgument ==
  Options \cup Client \cup OutputFormat \cup Words \cup {p.text : p \in Prefixed}

None == "none"

ASSUME ArgumentsAssumption ==
  /\ PolicyLines \subseteq Seq(PolicyArgument)
  /\ LegacyLines \subseteq Seq(LegacyArgument)
  /\ None \notin PolicyArgument \cup LegacyArgument
  /\ Unknown \cap {FRESHNESS, AT} = {}
  /\ ({FRESHNESS, AT} \cup Unknown) \cap (Words \cup Instants) = {}

VARIABLES
  command,   \* "policy" or "legacy"
  typed,     \* the command line
  remaining, \* the arguments not yet parsed
  request,   \* _ParseState, or the three locals of parse_request
  outcome    \* "parsing", "parsed", or the code of the failure

vars == <<command, typed, remaining, request, outcome>>

-----------------------------------------------------------------------------
Parsing(of, argument) ==
  command = of /\ outcome = "parsing" /\ remaining # <<>> /\ Head(remaining) = argument

\* The argument after the one at hand, if there is one.
Value == IF Len(remaining) > 1 THEN remaining[2] ELSE None

Fail(code) ==
  /\ outcome' = code
  /\ UNCHANGED <<command, typed, remaining, request>>

\* Mutant: the arguments are taken from the other end.
ConsumeLast(count, field, value) ==
  /\ remaining' = SubSeq(remaining, 1, Len(remaining) - count)
  /\ request' = [request EXCEPT ![field] = value]
  /\ UNCHANGED <<command, typed, outcome>>

Consume(count, field, value) ==
  /\ remaining' = SubSeq(remaining, count + 1, Len(remaining))
  /\ request' = [request EXCEPT ![field] = value]
  /\ UNCHANGED <<command, typed, outcome>>

-----------------------------------------------------------------------------
(***************************************************************************)
(* policy-validate                                                         *)
(***************************************************************************)
ParseFreshness ==
  /\ Parsing("policy", FRESHNESS)
  /\ IF request.check_freshness THEN Fail("argument.duplicate_option")
     ELSE Consume(1, "check_freshness", TRUE)

\* Mutant: a second instant replaces the first.
ParseAtLastWins ==
  /\ Parsing("policy", AT)
  /\ IF Value = None THEN Fail("argument.missing_value")
     ELSE IF Value \notin Instants THEN Fail("argument.at_format")
     ELSE Consume(2, "at", Value)

\* The form of the instant is judged before its repetition.
ParseAt ==
  /\ Parsing("policy", AT)
  /\ IF Value = None THEN Fail("argument.missing_value")
     ELSE IF Value \notin Instants THEN Fail("argument.at_format")
     ELSE IF request.at # None THEN Fail("argument.duplicate_option")
     ELSE Consume(2, "at", Value)

ParseUnknown ==
  /\ \E argument \in Unknown : Parsing("policy", argument)
  /\ Fail("argument.unknown_option")

\* Anything else is the path, an instant included.
ParsePath ==
  /\ \E argument \in Words \cup Instants : Parsing("policy", argument)
  /\ IF request.path # None THEN Fail("argument.unexpected_value")
     ELSE Consume(1, "path", Head(remaining))

\* parse_policy_validate
FinishPolicy ==
  /\ command = "policy" /\ outcome = "parsing" /\ remaining = <<>>
  /\ outcome' = IF request.path = None THEN "argument.path_required"
                ELSE IF ~request.check_freshness /\ request.at # None
                THEN "argument.at_requires_freshness" ELSE "parsed"
  /\ UNCHANGED <<command, typed, remaining, request>>

-----------------------------------------------------------------------------
(***************************************************************************)
(* inspect-legacy-client                                                   *)
(***************************************************************************)
\* Mutant: whatever name is removed.
RemoveAnyPrefix(name, value) ==
  IF \E p \in Prefixed : p.text = value
  THEN (CHOOSE p \in Prefixed : p.text = value).rest ELSE value

RemovePrefix(name, value) ==
  IF \E p \in Prefixed : p.text = value /\ p.name = name
  THEN (CHOOSE p \in Prefixed : p.text = value).rest ELSE value

Take(field, value, values) ==
  IF value \in values THEN Consume(2, field, value) ELSE Fail("invalid_arguments")

TakeClient ==
  /\ Parsing("legacy", "--client")
  /\ Take("client", RemovePrefix("CLIENT", Value), Client)

TakeFormat ==
  /\ Parsing("legacy", "--format")
  /\ Take("output_format", RemovePrefix("FORMAT", Value), OutputFormat)

\* Any argument is a path, an option included.
TakeCheckout ==
  /\ Parsing("legacy", "--vizor-checkout")
  /\ Take("vizor_checkout", Value, LegacyArgument)

RefuseArgument ==
  /\ \E argument \in LegacyArgument \ Options : Parsing("legacy", argument)
  /\ Fail("invalid_arguments")

FinishLegacy ==
  /\ command = "legacy" /\ outcome = "parsing" /\ remaining = <<>>
  /\ outcome' = IF request.client = None THEN "invalid_arguments" ELSE "parsed"
  /\ UNCHANGED <<command, typed, remaining, request>>

-----------------------------------------------------------------------------
InitPolicy ==
  /\ command = "policy" /\ typed \in PolicyLines
  /\ request = [path |-> None, check_freshness |-> FALSE, at |-> None]

InitLegacy ==
  /\ command = "legacy" /\ typed \in LegacyLines
  /\ request = [client |-> None, output_format |-> "human", vizor_checkout |-> None]

Init == (InitPolicy \/ InitLegacy) /\ remaining = typed /\ outcome = "parsing"

Next ==
  \/ ParseFreshness \/ ParseAt \/ ParseUnknown \/ ParsePath \/ FinishPolicy
  \/ TakeClient \/ TakeFormat \/ TakeCheckout \/ RefuseArgument \/ FinishLegacy

Spec == Init /\ [][Next]_vars

-----------------------------------------------------------------------------
(***************************************************************************)
(* The two grammars, without a parser.                                     *)
(***************************************************************************)
Reading ==
  [path : Words \cup Instants, check_freshness : BOOLEAN, at : Instants \cup {None}]

\* An instant is of use to a freshness check only.
Meanings == {reading \in Reading : reading.at # None => reading.check_freshness}

\* The path, the flag and the option with its value have each a place of the
\* line, in whatever order, and there is nothing else on it.
Spells(line, reading) ==
  \E path, flag, at \in DOMAIN line :
    LET places == {path}
                  \cup (IF reading.check_freshness THEN {flag} ELSE {})
                  \cup (IF reading.at # None THEN {at, at + 1} ELSE {})
    IN /\ line[path] = reading.path
       /\ reading.check_freshness => line[flag] = FRESHNESS
       /\ places = DOMAIN line
       /\ reading.at # None => line[at] = AT /\ line[at + 1] = reading.at /\ path # at + 1

Pairs == 1 .. (Len(typed) \div 2)
Uses(option) == {i \in Pairs : typed[2 * i - 1] = option}
LastUse(option) == typed[2 * (CHOOSE i \in Uses(option) :
                                  \A j \in Uses(option) : j <= i)]

\* The values an option has, and what each of them names.
ClientOf == [ value \in Client \cup {"CLIENT=vizor"} |->
                IF value = "CLIENT=vizor" THEN "vizor" ELSE value ]
FormatOf == [ value \in OutputFormat \cup {"FORMAT=jsonl"} |->
                IF value = "FORMAT=jsonl" THEN "jsonl" ELSE value ]

IsPair(option, value) ==
  \/ option = "--client" /\ value \in DOMAIN ClientOf
  \/ option = "--format" /\ value \in DOMAIN FormatOf
  \/ option = "--vizor-checkout"

IsWellFormed ==
  /\ Len(typed) % 2 = 0
  /\ \A i \in Pairs : IsPair(typed[2 * i - 1], typed[2 * i])
  /\ Uses("--client") # {}

Meant ==
  [ client |-> ClientOf[LastUse("--client")],
    output_format |-> IF Uses("--format") = {} THEN "human"
                      ELSE FormatOf[LastUse("--format")],
    vizor_checkout |-> IF Uses("--vizor-checkout") = {} THEN None
                       ELSE LastUse("--vizor-checkout") ]

-----------------------------------------------------------------------------
\* What is left is always the end of what was typed, and the request has the
\* shape of its command (_parse_policy_arguments, parse_request).
TypeOK ==
  /\ \E n \in 0 .. Len(typed) : remaining = SubSeq(typed, n + 1, Len(typed))
  /\ command = "policy" =>
       /\ typed \in Seq(PolicyArgument)
       /\ request \in [ path : Words \cup Instants \cup {None},
                        check_freshness : BOOLEAN, at : Instants \cup {None} ]
  /\ command = "legacy" =>
       /\ typed \in Seq(LegacyArgument)
       /\ request \in [ client : Client \cup {None}, output_format : OutputFormat,
                        vizor_checkout : LegacyArgument \cup {None} ]

\* A command line of policy-validate is accepted when and only when it spells
\* a request, in some order of its words, and then as that request: no order
\* changes the meaning, no option takes another's word, and nothing that was
\* typed is dropped (parse_policy_validate).
AcceptsTheGrammar ==
  command = "policy" /\ outcome # "parsing" =>
    {reading \in Meanings : Spells(typed, reading)}
      = IF outcome = "parsed" THEN {request} ELSE {}

\* A command line of the inspection is accepted when and only when it is a
\* sequence of options with a value each, a client among them; the last of
\* each option counts, and a value that looks like an option is a value
\* (parse_request).
LastOptionWins ==
  command = "legacy" =>
    /\ outcome = "parsed" => IsWellFormed /\ request = Meant
    /\ outcome = "invalid_arguments" => ~IsWellFormed
=============================================================================
