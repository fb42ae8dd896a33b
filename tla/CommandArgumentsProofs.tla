----------------------- MODULE CommandArgumentsProofs -----------------------
(***************************************************************************)
(* The two parsers accept their grammars, and nothing else, on command     *)
(* lines of any length over any arguments.                                 *)
(***************************************************************************)
EXTENDS CommandArguments, SequenceTheorems, TLAPS

\* How much of the line has been parsed.
Parsed == Len(typed) - Len(remaining)

PolicyRequest ==
  [path : Words \cup Instants \cup {None}, check_freshness : BOOLEAN, at : Instants \cup {None}]
LegacyRequest ==
  [ client : Client \cup {None}, output_format : OutputFormat,
    vizor_checkout : LegacyArgument \cup {None} ]

\* A reading accounts for the first n arguments of a line: its path, its flag
\* and its instant are at these places and nothing else is there.
Accounts(line, n, reading, path, flag, at) ==
  /\ reading.path # None =>
       path \in 1 .. n /\ line[path] = reading.path /\ (reading.at # None => path # at + 1)
  /\ reading.check_freshness => flag \in 1 .. n
  /\ reading.at # None =>
       at \in 1 .. n /\ at + 1 \in 1 .. n /\ line[at + 1] = reading.at
  /\ \A i \in 1 .. n :
       /\ line[i] = FRESHNESS <=> reading.check_freshness /\ i = flag
       /\ line[i] = AT <=> reading.at # None /\ i = at
       /\ line[i] \in Words \cup Instants <=>
            (reading.path # None /\ i = path) \/ (reading.at # None /\ i = at + 1)
       /\ line[i] \notin Unknown

\* A line that spells a reading is accounted for, whole, by that reading.
LEMMA SpelledAccounts ==
  ASSUME NEW line \in Seq(PolicyArgument), NEW reading \in Meanings, Spells(line, reading)
  PROVE  \E path, flag, at \in DOMAIN line :
           Accounts(line, Len(line), reading, path, flag, at)
<1> PICK path \in DOMAIN line, flag \in DOMAIN line, at \in DOMAIN line :
      /\ line[path] = reading.path
      /\ reading.check_freshness => line[flag] = FRESHNESS
      /\ {path} \cup (IF reading.check_freshness THEN {flag} ELSE {})
                \cup (IF reading.at # None THEN {at, at + 1} ELSE {}) = DOMAIN line
      /\ reading.at # None => line[at] = AT /\ line[at + 1] = reading.at /\ path # at + 1
  BY DEF Spells
<1>1. DOMAIN line = 1 .. Len(line)
  OBVIOUS
<1>2. /\ reading.path \in Words \cup Instants /\ reading.path # None
      /\ reading.at # None => reading.at \in Instants
  BY ArgumentsAssumption DEF Meanings, Reading, PolicyArgument
<1>3. ASSUME NEW i \in 1 .. Len(line)
      PROVE  \/ i = path
             \/ reading.check_freshness /\ i = flag
             \/ reading.at # None /\ (i = at \/ i = at + 1)
  BY <1>1
<1>4. FRESHNESS # AT
  BY DEF FRESHNESS, AT
<1>5. reading.at # None => at + 1 \in 1 .. Len(line)
  BY <1>1
<1>6. /\ line[path] \notin {FRESHNESS, AT} \cup Unknown
      /\ reading.check_freshness => line[flag] = FRESHNESS
      /\ reading.at # None => line[at] = AT /\ line[at + 1] \in Instants
      /\ {FRESHNESS, AT} \cap (Words \cup Instants \cup Unknown) = {}
      /\ Unknown \cap Instants = {}
  BY <1>2, ArgumentsAssumption
<1>7. ASSUME NEW i \in 1 .. Len(line)
      PROVE  /\ line[i] = FRESHNESS <=> reading.check_freshness /\ i = flag
             /\ line[i] = AT <=> reading.at # None /\ i = at
             /\ line[i] \in Words \cup Instants <=>
                  (reading.path # None /\ i = path) \/ (reading.at # None /\ i = at + 1)
             /\ line[i] \notin Unknown
  <2>1. CASE i = path
    BY <1>2, <1>4, <1>6, <2>1
  <2>2. CASE reading.check_freshness /\ i = flag
    BY <1>2, <1>4, <1>6, <2>2
  <2>3. CASE reading.at # None /\ i = at
    BY <1>1, <1>2, <1>4, <1>6, <2>3
  <2>4. CASE reading.at # None /\ i = at + 1
    BY <1>1, <1>2, <1>4, <1>6, <2>4
  <2> QED BY <1>3, <2>1, <2>2, <2>3, <2>4
<1>8. Accounts(line, Len(line), reading, path, flag, at)
  BY <1>1, <1>2, <1>5, <1>7 DEF Accounts
<1> QED BY <1>8

\* And a reading that accounts for the whole line is spelled by it.
LEMMA AccountSpells ==
  ASSUME NEW line \in Seq(PolicyArgument), NEW reading \in Meanings,
         NEW path, NEW flag, NEW at,
         Accounts(line, Len(line), reading, path, flag, at)
  PROVE  Spells(line, reading)
<1>1. DOMAIN line = 1 .. Len(line)
  OBVIOUS
<1>2. reading.path # None /\ path \in DOMAIN line
  BY <1>1, ArgumentsAssumption DEF Accounts, Meanings, Reading, PolicyArgument
<1>3. \A i \in DOMAIN line : line[i] \in {FRESHNESS, AT} \cup Words \cup Instants
  BY <1>1 DEF Accounts, PolicyArgument
<1> DEFINE f == IF reading.check_freshness THEN flag ELSE path
           a == IF reading.at # None THEN at ELSE path
<1>4. f \in DOMAIN line /\ a \in DOMAIN line
  BY <1>1, <1>2 DEF Accounts
<1>5. {path} \cup (IF reading.check_freshness THEN {f} ELSE {})
             \cup (IF reading.at # None THEN {a, a + 1} ELSE {}) = DOMAIN line
  BY <1>1, <1>2, <1>3 DEF Accounts
<1> QED BY <1>1, <1>2, <1>4, <1>5 DEF Accounts, Spells

\* No line has two readings.
LEMMA OneReading ==
  ASSUME NEW line, NEW n \in Nat, NEW one \in PolicyRequest, NEW two \in PolicyRequest,
         NEW path, NEW flag, NEW at, Accounts(line, n, one, path, flag, at),
         NEW path2, NEW flag2, NEW at2, Accounts(line, n, two, path2, flag2, at2)
  PROVE  one = two
<1>1. one.check_freshness = two.check_freshness
  BY DEF Accounts, PolicyRequest
<1>2. (one.at # None <=> two.at # None) /\ (one.at # None => at = at2)
  BY DEF Accounts, PolicyRequest
<1>3. one.at = two.at
  BY <1>2 DEF Accounts, PolicyRequest
<1>4. one.path # None => two.path # None /\ path = path2
  BY <1>2, <1>3 DEF Accounts
<1>5. two.path # None => one.path # None /\ path = path2
  BY <1>2, <1>3 DEF Accounts
<1>6. one.path = two.path
  BY <1>4, <1>5 DEF Accounts
<1> QED BY <1>1, <1>3, <1>6 DEF PolicyRequest

-----------------------------------------------------------------------------
\* The flag is accounted for when it is read,
LEMMA FlagAccounted ==
  ASSUME NEW line, NEW n \in Nat, NEW reading \in PolicyRequest,
         NEW path, NEW flag, NEW at, Accounts(line, n, reading, path, flag, at),
         line[n + 1] = FRESHNESS, ~reading.check_freshness
  PROVE  Accounts(line, n + 1, [reading EXCEPT !.check_freshness = TRUE], path, n + 1, at)
<1> DEFINE new == [reading EXCEPT !.check_freshness = TRUE]
<1>1. new.path = reading.path /\ new.at = reading.at /\ new.check_freshness
  BY DEF PolicyRequest
<1>2. FRESHNESS # AT /\ FRESHNESS \notin Words \cup Instants \cup Unknown
  BY ArgumentsAssumption DEF FRESHNESS, AT
<1>3. \A i \in 1 .. (n + 1) : i \in 1 .. n \/ i = n + 1
  OBVIOUS
<1> HIDE DEF new
<1> SUFFICES Accounts(line, n + 1, new, path, n + 1, at)
  BY DEF new
<1> QED BY <1>1, <1>2, <1>3 DEF Accounts

\* So is the path, where there was none,
LEMMA PathAccounted ==
  ASSUME NEW line, NEW n \in Nat, NEW reading \in PolicyRequest,
         NEW path, NEW flag, NEW at, Accounts(line, n, reading, path, flag, at),
         line[n + 1] \in Words \cup Instants, reading.path = None
  PROVE  Accounts(line, n + 1, [reading EXCEPT !.path = line[n + 1]], n + 1, flag, at)
<1> DEFINE new == [reading EXCEPT !.path = line[n + 1]]
<1>1. /\ new.path = line[n + 1] /\ new.at = reading.at
      /\ new.check_freshness = reading.check_freshness
  BY DEF PolicyRequest
<1>2. line[n + 1] \notin {FRESHNESS, AT} \cup Unknown /\ line[n + 1] # None
  BY ArgumentsAssumption DEF PolicyArgument
<1>3. \A i \in 1 .. (n + 1) : i \in 1 .. n \/ i = n + 1
  OBVIOUS
<1> HIDE DEF new
<1> SUFFICES Accounts(line, n + 1, new, n + 1, flag, at)
  BY DEF new
<1> QED BY <1>1, <1>2, <1>3 DEF Accounts

\* and the option of the instant with its value.
LEMMA InstantAccounted ==
  ASSUME NEW line, NEW n \in Nat, NEW reading \in PolicyRequest,
         NEW path, NEW flag, NEW at, Accounts(line, n, reading, path, flag, at),
         line[n + 1] = AT, line[n + 2] \in Instants, reading.at = None
  PROVE  Accounts(line, n + 2, [reading EXCEPT !.at = line[n + 2]], path, flag, n + 1)
<1> DEFINE new == [reading EXCEPT !.at = line[n + 2]]
<1>1. /\ new.path = reading.path /\ new.at = line[n + 2]
      /\ new.check_freshness = reading.check_freshness
  BY DEF PolicyRequest
<1>2. /\ line[n + 2] \notin {FRESHNESS, AT} \cup Unknown /\ line[n + 2] # None
      /\ AT # FRESHNESS /\ AT \notin Words \cup Instants \cup Unknown
  BY ArgumentsAssumption DEF PolicyArgument, AT, FRESHNESS
<1>3. \A i \in 1 .. (n + 2) : i \in 1 .. n \/ i = n + 1 \/ i = n + 2
  OBVIOUS
<1> HIDE DEF new
<1> SUFFICES Accounts(line, n + 2, new, path, flag, n + 1)
  BY DEF new
<1> QED BY <1>1, <1>2, <1>3 DEF Accounts

\* What no reading accounts for.  The first part of the line has been read, and
\* the parser refuses the next argument or the end of it.
LEMMA Refusals ==
  ASSUME NEW line \in Seq(PolicyArgument), NEW n \in 0 .. Len(line),
         NEW reading \in PolicyRequest, NEW path, NEW flag, NEW at,
         Accounts(line, n, reading, path, flag, at),
         NEW meant \in Meanings, Spells(line, meant)
  PROVE  /\ n < Len(line) /\ line[n + 1] = FRESHNESS => ~reading.check_freshness
         /\ n < Len(line) /\ line[n + 1] = AT =>
              /\ n + 1 < Len(line)
              /\ line[n + 2] \in Instants
              /\ reading.at = None
         /\ n < Len(line) => line[n + 1] \notin Unknown
         /\ n < Len(line) /\ line[n + 1] \in Words \cup Instants => reading.path = None
         /\ n = Len(line) => reading.path # None
                               /\ (reading.at # None => reading.check_freshness)
<1> PICK path2, flag2, at2 : Accounts(line, Len(line), meant, path2, flag2, at2)
  BY SpelledAccounts
<1>1. /\ Len(line) \in Nat /\ n \in Nat /\ n <= Len(line)
      /\ \A i \in 1 .. n : i \in 1 .. Len(line)
  OBVIOUS
<1>2. /\ meant.path # None /\ (meant.at # None => meant.check_freshness /\ meant.at \in Instants)
      /\ reading.at # None => reading.at \in Instants
  BY ArgumentsAssumption DEF Meanings, Reading, PolicyArgument, PolicyRequest
<1>3. n < Len(line) => n + 1 \in 1 .. Len(line) /\ n + 1 \notin 1 .. n
  BY <1>1
<1>4. n < Len(line) /\ line[n + 1] = FRESHNESS => ~reading.check_freshness
  BY <1>1, <1>3 DEF Accounts
<1>5. ASSUME n < Len(line), line[n + 1] = AT
      PROVE  n + 1 < Len(line) /\ line[n + 2] \in Instants /\ reading.at = None
  <2>1. meant.at # None /\ at2 = n + 1
    BY <1>3, <1>5 DEF Accounts
  <2>2. n + 2 \in 1 .. Len(line) /\ line[n + 2] = meant.at
    BY <1>1, <2>1 DEF Accounts
  <2>3. reading.at # None => line[at] = AT /\ at \in 1 .. n
    BY DEF Accounts
  <2>4. reading.at = None
    BY <1>1, <1>3, <2>1, <2>3 DEF Accounts
  <2> QED BY <1>1, <1>2, <2>1, <2>2, <2>4
<1>6. n < Len(line) => line[n + 1] \notin Unknown
  BY <1>3 DEF Accounts
<1>7. n < Len(line) /\ line[n + 1] \in Words \cup Instants => reading.path = None
  <2> SUFFICES ASSUME n < Len(line), line[n + 1] \in Words \cup Instants, reading.path # None
               PROVE  FALSE
    OBVIOUS
  <2>1. path \in 1 .. n /\ line[path] \in Words \cup Instants
    BY DEF Accounts
  <2>2. path = path2 \/ (meant.at # None /\ path = at2 + 1)
    BY <1>1, <2>1 DEF Accounts
  <2>3. n + 1 = path2 \/ (meant.at # None /\ n + 1 = at2 + 1)
    BY <1>3 DEF Accounts
  <2>4. CASE meant.at # None /\ path = at2 + 1
    <3>1. at2 \in 1 .. n /\ line[at2] = AT
      BY <1>1, <2>1, <2>4 DEF Accounts
    <3>2. reading.at # None /\ at2 = at
      BY <3>1 DEF Accounts
    <3> QED BY <2>4, <3>2 DEF Accounts
  <2>5. CASE meant.at # None /\ n + 1 = at2 + 1
    <3>1. at2 = n /\ line[n] = AT /\ n \in 1 .. n
      BY <1>1, <2>5 DEF Accounts
    <3>2. reading.at # None /\ at = n /\ at + 1 \in 1 .. n
      BY <3>1 DEF Accounts
    <3> QED BY <1>1, <3>2
  <2> QED BY <1>3, <2>1, <2>2, <2>3, <2>4, <2>5
<1>8. ASSUME n = Len(line)
      PROVE  reading.path # None /\ (reading.at # None => reading.check_freshness)
  <2>1. (reading.at # None <=> meant.at # None) /\ (reading.at # None => at = at2)
    BY <1>8 DEF Accounts
  <2>2. reading.check_freshness <=> meant.check_freshness
    BY <1>8 DEF Accounts, PolicyRequest, Meanings, Reading
  <2>3. reading.path # None
    BY <1>2, <1>8, <2>1 DEF Accounts
  <2> QED BY <1>2, <2>1, <2>2, <2>3
<1> QED BY <1>4, <1>5, <1>6, <1>7, <1>8

-----------------------------------------------------------------------------
(***************************************************************************)
(* policy-validate.                                                        *)
(***************************************************************************)
\* Where the parser is in the line.
Position ==
  /\ typed \in Seq(PolicyArgument \cup LegacyArgument)
  /\ Parsed \in 0 .. Len(typed)
  /\ remaining = SubSeq(typed, Parsed + 1, Len(typed))

\* What an argument parser knows of the part it has read: the request accounts
\* for it, and a line it refused spells no request.
PolicyKnows ==
  command = "policy" =>
    /\ typed \in Seq(PolicyArgument) /\ request \in PolicyRequest
    /\ outcome = "parsing" =>
         \E path, flag, at : Accounts(typed, Parsed, request, path, flag, at)
    /\ outcome = "parsed" =>
         /\ request \in Meanings
         /\ \E path, flag, at : Accounts(typed, Len(typed), request, path, flag, at)
    /\ outcome \notin {"parsing", "parsed"} => \A reading \in Meanings : ~Spells(typed, reading)

\* The rest of the line, argument by argument.
LEMMA Rest ==
  ASSUME Position
  PROVE  /\ remaining \in Seq(PolicyArgument \cup LegacyArgument)
         /\ Len(remaining) = Len(typed) - Parsed
         /\ Parsed \in Nat /\ Len(typed) \in Nat
         /\ remaining = <<>> <=> Parsed = Len(typed)
         /\ remaining # <<>> => Parsed < Len(typed) /\ Head(remaining) = typed[Parsed + 1]
         /\ Len(remaining) > 1 <=> Parsed + 1 < Len(typed)
         /\ Len(remaining) > 1 => remaining[2] = typed[Parsed + 2]
<1> PICK n \in 0 .. Len(typed) : n = Parsed
  BY DEF Position
<1>1. /\ typed \in Seq(PolicyArgument \cup LegacyArgument) /\ Len(typed) \in Nat
      /\ remaining = SubSeq(typed, n + 1, Len(typed))
  BY DEF Position
<1>2. /\ remaining \in Seq(PolicyArgument \cup LegacyArgument)
      /\ Len(remaining) = Len(typed) - n
      /\ \A i \in 1 .. (Len(typed) - n) : remaining[i] = typed[n + i]
  BY <1>1
<1>3. Len(remaining) > 1 => remaining[2] = typed[n + 2]
  BY <1>1, <1>2
<1>4. remaining # <<>> => n < Len(typed) /\ Head(remaining) = typed[n + 1]
  BY <1>1, <1>2
<1>5. remaining = <<>> <=> n = Len(typed)
  <2>1. remaining # <<>> => Len(remaining) > 0
    BY <1>2, EmptySeq
  <2>2. remaining = <<>> => Len(remaining) = 0
    BY EmptySeq
  <2> QED BY <1>1, <1>2, <2>1, <2>2
<1> QED BY <1>1, <1>2, <1>3, <1>4, <1>5

\* Arguments are taken from the front.
LEMMA Advances ==
  ASSUME Position, NEW count \in 1 .. Len(remaining), NEW field, NEW value,
         Consume(count, field, value)
  PROVE  Position' /\ Parsed' = Parsed + count
<1>1. remaining' = SubSeq(typed, Parsed + count + 1, Len(typed))
  BY Rest DEF Position, Consume
<1>2. Len(remaining') = Len(typed) - (Parsed + count)
  BY Rest, <1>1 DEF Position
<1>3. UNCHANGED typed
  BY DEF Consume
<1>4. Parsed' = Parsed + count
  BY Rest, <1>2, <1>3 DEF Parsed
<1> QED BY Rest, <1>1, <1>3, <1>4 DEF Position

\* A parser that stops stays where it is.
LEMMA Halts ==
  ASSUME Position, UNCHANGED <<typed, remaining>>
  PROVE  Position' /\ Parsed' = Parsed
BY DEF Position, Parsed

\* A line that spells nothing is refused.
LEMMA Refuses ==
  ASSUME Position, PolicyKnows, command = "policy",
         NEW code, code \notin {"parsing", "parsed"}, Fail(code),
         \A reading \in Meanings : ~Spells(typed, reading)
  PROVE  Position' /\ PolicyKnows'
<1>1. outcome' = code /\ UNCHANGED <<command, typed, remaining, request>>
  BY DEF Fail
<1>2. Position'
  BY <1>1, Halts
<1>3. typed' \in Seq(PolicyArgument) /\ request' \in PolicyRequest
  BY <1>1 DEF PolicyKnows
<1>4. \A reading \in Meanings : ~Spells(typed', reading)
  BY <1>1
<1> QED BY <1>1, <1>2, <1>3, <1>4 DEF PolicyKnows

\* A part of the line that the new request accounts for is taken.
LEMMA Takes ==
  ASSUME Position, PolicyKnows, command = "policy", outcome = "parsing",
         NEW count \in {1, 2}, count <= Len(remaining), NEW field, NEW value,
         Consume(count, field, value),
         [request EXCEPT ![field] = value] \in PolicyRequest,
         NEW path, NEW flag, NEW at,
         Accounts(typed, Parsed + count, [request EXCEPT ![field] = value], path, flag, at)
  PROVE  Position' /\ PolicyKnows'
<1>1. count \in 1 .. Len(remaining)
  BY Rest
<1>2. Position' /\ Parsed' = Parsed + count
  BY <1>1, Advances
<1>3. UNCHANGED <<command, typed, outcome>> /\ request' = [request EXCEPT ![field] = value]
  BY DEF Consume
<1>4. typed' \in Seq(PolicyArgument) /\ request' \in PolicyRequest
  BY <1>3 DEF PolicyKnows
<1>5. Accounts(typed', Parsed', request', path, flag, at)
  BY <1>2, <1>3
<1> QED BY <1>2, <1>3, <1>4, <1>5 DEF PolicyKnows

\* The state in which the parser looks at an argument of policy-validate.
LEMMA PolicyArgumentAhead ==
  ASSUME Position, PolicyKnows, NEW argument, Parsing("policy", argument)
  PROVE  /\ command = "policy" /\ outcome = "parsing"
         /\ typed \in Seq(PolicyArgument) /\ request \in PolicyRequest
         /\ Parsed \in 0 .. Len(typed) /\ Parsed \in Nat /\ Parsed < Len(typed)
         /\ typed[Parsed + 1] = argument /\ 1 <= Len(remaining)
         /\ \E path, flag, at : Accounts(typed, Parsed, request, path, flag, at)
<1>1. /\ command = "policy" /\ outcome = "parsing"
      /\ remaining # <<>> /\ Head(remaining) = argument
  BY DEF Parsing
<1>2. /\ typed \in Seq(PolicyArgument) /\ request \in PolicyRequest
      /\ \E path, flag, at : Accounts(typed, Parsed, request, path, flag, at)
  BY <1>1 DEF PolicyKnows
<1>3. /\ Parsed \in 0 .. Len(typed) /\ Parsed \in Nat /\ Parsed < Len(typed)
      /\ typed[Parsed + 1] = argument /\ Len(remaining) = Len(typed) - Parsed
      /\ Len(typed) \in Nat
  BY <1>1, Rest DEF Position
<1> QED BY <1>1, <1>2, <1>3

\* One lemma per step of the parser.
LEMMA FlagKeeps ==
  ASSUME Position, PolicyKnows, ParseFreshness
  PROVE  Position' /\ PolicyKnows'
<1>1. Parsing("policy", FRESHNESS)
  BY DEF ParseFreshness
<1> PICK path, flag, at : Accounts(typed, Parsed, request, path, flag, at)
  BY <1>1, PolicyArgumentAhead
<1>2. CASE request.check_freshness
  <2>1. Fail("argument.duplicate_option")
    BY <1>2 DEF ParseFreshness
  <2>2. \A reading \in Meanings : ~Spells(typed, reading)
    BY <1>1, <1>2, PolicyArgumentAhead, Refusals
  <2> QED BY <1>1, <2>1, <2>2, PolicyArgumentAhead, Refuses
<1>3. CASE ~request.check_freshness
  <2>1. Consume(1, "check_freshness", TRUE)
    BY <1>3 DEF ParseFreshness
  <2>2. Accounts(typed, Parsed + 1, [request EXCEPT !.check_freshness = TRUE],
                 path, Parsed + 1, at)
    BY <1>1, <1>3, PolicyArgumentAhead, FlagAccounted
  <2>3. [request EXCEPT !.check_freshness = TRUE] \in PolicyRequest
    BY <1>1, PolicyArgumentAhead DEF PolicyRequest
  <2> QED BY <1>1, <2>1, <2>2, <2>3, PolicyArgumentAhead, Takes
<1> QED BY <1>2, <1>3

\* The value of --at may be missing, malformed, a repetition or the instant.
LEMMA AtKeeps ==
  ASSUME Position, PolicyKnows, ParseAt
  PROVE  Position' /\ PolicyKnows'
<1>1. Parsing("policy", AT)
  BY DEF ParseAt
<1> PICK path, flag, at : Accounts(typed, Parsed, request, path, flag, at)
  BY <1>1, PolicyArgumentAhead
<1>2. /\ Value = None <=> Len(remaining) <= 1
      /\ Value # None => Value = typed[Parsed + 2] /\ Parsed + 1 < Len(typed)
                           /\ 2 <= Len(remaining)
  <2>1. Len(remaining) > 1 => remaining[2] \in PolicyArgument \cup LegacyArgument
    BY Rest
  <2> QED BY <2>1, Rest, ArgumentsAssumption DEF Value
<1>3. CASE Value = None \/ Value \notin Instants \/ request.at # None
  <2>1. \E code : code \notin {"parsing", "parsed"} /\ Fail(code)
    BY <1>3 DEF ParseAt
  <2>2. \A reading \in Meanings : ~Spells(typed, reading)
    BY <1>1, <1>2, <1>3, PolicyArgumentAhead, Refusals, Rest
  <2> QED BY <1>1, <2>1, <2>2, PolicyArgumentAhead, Refuses
<1>4. CASE Value # None /\ Value \in Instants /\ request.at = None
  <2>1. Consume(2, "at", Value)
    BY <1>4 DEF ParseAt
  <2>2. Accounts(typed, Parsed + 2, [request EXCEPT !.at = Value], path, flag, Parsed + 1)
    BY <1>1, <1>2, <1>4, PolicyArgumentAhead, InstantAccounted
  <2>3. [request EXCEPT !.at = Value] \in PolicyRequest
    BY <1>1, <1>4, PolicyArgumentAhead DEF PolicyRequest
  <2> QED BY <1>1, <1>2, <1>4, <2>1, <2>2, <2>3, PolicyArgumentAhead, Takes
<1> QED BY <1>3, <1>4

\* No reading has an unknown option.
LEMMA UnknownKeeps ==
  ASSUME Position, PolicyKnows, ParseUnknown
  PROVE  Position' /\ PolicyKnows'
<1> PICK argument \in Unknown : Parsing("policy", argument)
  BY DEF ParseUnknown
<1> PICK path, flag, at : Accounts(typed, Parsed, request, path, flag, at)
  BY PolicyArgumentAhead
<1>1. \A reading \in Meanings : ~Spells(typed, reading)
  BY PolicyArgumentAhead, Refusals
<1> QED BY <1>1, PolicyArgumentAhead, Refuses DEF ParseUnknown

\* A second path is one too many, and the first is the path.
LEMMA PathKeeps ==
  ASSUME Position, PolicyKnows, ParsePath
  PROVE  Position' /\ PolicyKnows'
<1> PICK argument \in Words \cup Instants : Parsing("policy", argument)
  BY DEF ParsePath
<1> PICK path, flag, at : Accounts(typed, Parsed, request, path, flag, at)
  BY PolicyArgumentAhead
<1>1. CASE request.path # None
  <2>1. \A reading \in Meanings : ~Spells(typed, reading)
    BY <1>1, PolicyArgumentAhead, Refusals
  <2>2. Fail("argument.unexpected_value")
    BY <1>1 DEF ParsePath
  <2> QED BY <2>1, <2>2, PolicyArgumentAhead, Refuses
<1>2. CASE request.path = None
  <2>1. Consume(1, "path", argument)
    BY <1>2 DEF ParsePath, Parsing
  <2>2. Accounts(typed, Parsed + 1, [request EXCEPT !.path = argument], Parsed + 1, flag, at)
    BY <1>2, PolicyArgumentAhead, PathAccounted
  <2>3. [request EXCEPT !.path = argument] \in PolicyRequest
    BY PolicyArgumentAhead DEF PolicyRequest
  <2> QED BY <2>1, <2>2, <2>3, PolicyArgumentAhead, Takes
<1> QED BY <1>1, <1>2

\* At the end the request must have a path, and a use for its instant.
LEMMA PolicyFinishes ==
  ASSUME Position, PolicyKnows, FinishPolicy
  PROVE  Position' /\ PolicyKnows'
<1>1. /\ command = "policy" /\ outcome = "parsing" /\ remaining = <<>>
      /\ UNCHANGED <<command, typed, remaining, request>>
  BY DEF FinishPolicy
<1>2. typed \in Seq(PolicyArgument) /\ request \in PolicyRequest /\ Parsed = Len(typed)
  BY <1>1, Rest DEF PolicyKnows
<1> PICK path, flag, at : Accounts(typed, Parsed, request, path, flag, at)
  BY <1>1 DEF PolicyKnows
<1>3. CASE request.path # None /\ (request.at # None => request.check_freshness)
  <2>1. outcome' = "parsed"
    BY <1>2, <1>3 DEF FinishPolicy, PolicyRequest
  <2>2. request \in Meanings
    BY <1>2, <1>3 DEF Meanings, Reading, PolicyRequest
  <2>3. Position'
    BY <1>1, Halts
  <2>4. typed' = typed /\ request' = request
    BY <1>1
  <2> QED BY <1>2, <2>1, <2>2, <2>3, <2>4 DEF PolicyKnows
<1>4. CASE ~(request.path # None /\ (request.at # None => request.check_freshness))
  <2>1. \E code : code \notin {"parsing", "parsed"} /\ Fail(code)
    BY <1>1, <1>2, <1>4 DEF FinishPolicy, Fail, PolicyRequest
  <2>2. \A reading \in Meanings : ~Spells(typed, reading)
    BY <1>2, <1>4, Refusals DEF Position
  <2> QED BY <1>1, <2>1, <2>2, Refuses
<1> QED BY <1>3, <1>4

-----------------------------------------------------------------------------
(***************************************************************************)
(* inspect-legacy-client.                                                  *)
(***************************************************************************)
\* The value of an option after k pairs: what its last use names, or the default.
Counts(option, k, value, default, of) ==
  \/ value = default /\ \A i \in 1 .. k : typed[2 * i - 1] # option
  \/ \E i \in 1 .. k :
       /\ typed[2 * i - 1] = option /\ value = of[typed[2 * i]]
       /\ \A j \in 1 .. k : typed[2 * j - 1] = option => j <= i

Itself == [argument \in LegacyArgument |-> argument]

\* A request says what the first k pairs say.
Says(asked, k) ==
  /\ \A i \in 1 .. k : IsPair(typed[2 * i - 1], typed[2 * i])
  /\ Counts("--client", k, asked.client, None, ClientOf)
  /\ Counts("--format", k, asked.output_format, "human", FormatOf)
  /\ Counts("--vizor-checkout", k, asked.vizor_checkout, None, Itself)

LegacyKnows ==
  command = "legacy" =>
    /\ typed \in Seq(LegacyArgument) /\ request \in LegacyRequest
    /\ outcome \in {"parsing", "parsed", "invalid_arguments"}
    /\ outcome = "parsing" => \E k \in Nat : Parsed = 2 * k /\ Says(request, k)
    /\ outcome = "parsed" => IsWellFormed /\ request = Meant
    /\ outcome = "invalid_arguments" => ~IsWellFormed

\* The pairs of a line.
LEMMA Halves ==
  ASSUME NEW n \in Nat
  PROVE  /\ n \div 2 \in Nat
         /\ 2 * (n \div 2) <= n /\ n <= 2 * (n \div 2) + 1
         /\ n % 2 = 0 <=> n = 2 * (n \div 2)
OBVIOUS

\* What removeprefix leaves is a client just when the argument names one.
LEMMA ClientNames ==
  ASSUME NEW value \in LegacyArgument \cup {None}
  PROVE  /\ RemovePrefix("CLIENT", value) \in Client <=> value \in DOMAIN ClientOf
         /\ value \in DOMAIN ClientOf => RemovePrefix("CLIENT", value) = ClientOf[value]
<1> DEFINE chosen == CHOOSE p \in Prefixed : p.text = value
<1>1. ASSUME \E p \in Prefixed : p.text = value /\ p.name = "CLIENT"
      PROVE  /\ value \in {"CLIENT=vizor", "CLIENT=CLIENT=vizor"}
             /\ chosen.rest = IF value = "CLIENT=vizor" THEN "vizor" ELSE "CLIENT=vizor"
  <2>1. chosen \in Prefixed /\ chosen.text = value
    BY <1>1
  <2> HIDE DEF chosen
  <2>2. value \in {"CLIENT=vizor", "CLIENT=CLIENT=vizor"}
    BY <1>1 DEF Prefixed
  <2> QED BY <2>1, <2>2 DEF Prefixed
<1>2. ASSUME ~ \E p \in Prefixed : p.text = value /\ p.name = "CLIENT"
      PROVE  value \notin {"CLIENT=vizor", "CLIENT=CLIENT=vizor"}
  BY <1>2 DEF Prefixed
<1>3. RemovePrefix("CLIENT", value) =
        IF \E p \in Prefixed : p.text = value /\ p.name = "CLIENT"
        THEN chosen.rest ELSE value
  BY DEF RemovePrefix
<1> HIDE DEF chosen
<1> QED BY <1>1, <1>2, <1>3 DEF ClientOf, Client

\* The same for an output format.
LEMMA FormatNames ==
  ASSUME NEW value \in LegacyArgument \cup {None}
  PROVE  /\ RemovePrefix("FORMAT", value) \in OutputFormat <=> value \in DOMAIN FormatOf
         /\ value \in DOMAIN FormatOf => RemovePrefix("FORMAT", value) = FormatOf[value]
<1> DEFINE chosen == CHOOSE p \in Prefixed : p.text = value
<1>1. ASSUME \E p \in Prefixed : p.text = value /\ p.name = "FORMAT"
      PROVE  /\ value \in {"FORMAT=jsonl", "FORMAT=vizor"}
             /\ chosen.rest = IF value = "FORMAT=jsonl" THEN "jsonl" ELSE "vizor"
  <2>1. chosen \in Prefixed /\ chosen.text = value
    BY <1>1
  <2> HIDE DEF chosen
  <2>2. value \in {"FORMAT=jsonl", "FORMAT=vizor"}
    BY <1>1 DEF Prefixed
  <2> QED BY <2>1, <2>2 DEF Prefixed
<1>2. ASSUME ~ \E p \in Prefixed : p.text = value /\ p.name = "FORMAT"
      PROVE  value \notin {"FORMAT=jsonl", "FORMAT=vizor"}
  BY <1>2 DEF Prefixed
<1>3. RemovePrefix("FORMAT", value) =
        IF \E p \in Prefixed : p.text = value /\ p.name = "FORMAT"
        THEN chosen.rest ELSE value
  BY DEF RemovePrefix
<1> HIDE DEF chosen
<1> QED BY <1>1, <1>2, <1>3 DEF FormatOf, OutputFormat

\* The last use of an option, once it is known to have one.
LEMMA LastUseIs ==
  ASSUME Len(typed) \in Nat, NEW option, NEW i \in Pairs, typed[2 * i - 1] = option,
         \A j \in Pairs : typed[2 * j - 1] = option => j <= i
  PROVE  LastUse(option) = typed[2 * i] /\ Uses(option) # {}
<1>1. Pairs \subseteq Nat
  BY Halves DEF Pairs
<1>2. i \in Uses(option) /\ \A j \in Uses(option) : j <= i
  BY DEF Uses
<1>3. \A j \in Uses(option) : (\A m \in Uses(option) : m <= j) => j = i
  BY <1>1, <1>2 DEF Uses
<1>4. i = CHOOSE m \in Uses(option) : \A j \in Uses(option) : j <= m
  BY <1>2, <1>3
<1> QED BY <1>2, <1>4 DEF LastUse

\* What counts after all pairs is what the reference takes.
LEMMA LastCounts ==
  ASSUME NEW option, NEW default, NEW of, NEW value,
         Counts(option, Len(typed) \div 2, value, default, of), Len(typed) \in Nat
  PROVE  value = IF Uses(option) = {} THEN default ELSE of[LastUse(option)]
<1>1. CASE value = default /\ \A i \in Pairs : typed[2 * i - 1] # option
  BY <1>1 DEF Uses
<1>2. ASSUME NEW i \in Pairs, typed[2 * i - 1] = option, value = of[typed[2 * i]],
             \A j \in Pairs : typed[2 * j - 1] = option => j <= i
      PROVE  value = IF Uses(option) = {} THEN default ELSE of[LastUse(option)]
  BY <1>2, LastUseIs
<1> QED BY <1>1, <1>2 DEF Counts, Pairs

\* One more pair is the last use of its option, and of no other.
LEMMA CountsNow ==
  ASSUME NEW k \in Nat, NEW option, NEW default, NEW of, typed[2 * k + 1] = option
  PROVE  Counts(option, k + 1, of[typed[2 * k + 2]], default, of)
<1>1. 2 * (k + 1) - 1 = 2 * k + 1 /\ 2 * (k + 1) = 2 * k + 2 /\ k + 1 \in 1 .. (k + 1)
  OBVIOUS
<1>2. \A j \in 1 .. (k + 1) : j <= k + 1
  OBVIOUS
<1> QED BY <1>1, <1>2 DEF Counts

\* The pairs of another option change nothing.
LEMMA CountsStill ==
  ASSUME NEW k \in Nat, NEW option, NEW default, NEW of, NEW value,
         Counts(option, k, value, default, of), typed[2 * k + 1] # option
  PROVE  Counts(option, k + 1, value, default, of)
<1>1. 2 * (k + 1) - 1 = 2 * k + 1
  OBVIOUS
<1>2. \A j \in 1 .. (k + 1) : j \in 1 .. k \/ j = k + 1
  OBVIOUS
<1>3. \A j \in 1 .. k : j \in 1 .. (k + 1)
  OBVIOUS
<1> QED BY <1>1, <1>2, <1>3 DEF Counts

\* The state in which the parser looks at an option of the inspection.
LEMMA OptionAhead ==
  ASSUME Position, LegacyKnows, NEW option, Parsing("legacy", option)
  PROVE  /\ command = "legacy" /\ outcome = "parsing"
         /\ typed \in Seq(LegacyArgument) /\ request \in LegacyRequest
         /\ Len(typed) \in Nat /\ Value \in LegacyArgument \cup {None}
         /\ \E k \in Nat :
              /\ Parsed = 2 * k /\ Says(request, k)
              /\ 2 * k + 1 <= Len(typed) /\ typed[2 * k + 1] = option
              /\ Value # None <=> 2 * k + 2 <= Len(typed)
              /\ Value # None => Value = typed[2 * k + 2] /\ 2 <= Len(remaining)
<1>1. /\ command = "legacy" /\ outcome = "parsing"
      /\ remaining # <<>> /\ Head(remaining) = option
  BY DEF Parsing
<1>2. typed \in Seq(LegacyArgument) /\ request \in LegacyRequest
  BY <1>1 DEF LegacyKnows
<1>3. PICK k \in Nat : Parsed = 2 * k /\ Says(request, k)
  BY <1>1 DEF LegacyKnows
<1>4. /\ Len(typed) \in Nat /\ Len(remaining) = Len(typed) - 2 * k
      /\ 2 * k + 1 <= Len(typed) /\ typed[2 * k + 1] = option
      /\ Len(remaining) > 1 <=> 2 * k + 1 < Len(typed)
      /\ Len(remaining) > 1 => remaining[2] = typed[2 * k + 2]
  BY <1>1, <1>3, Rest
<1>5. 2 * k + 1 < Len(typed) => typed[2 * k + 2] \in LegacyArgument
  BY <1>2, <1>4
<1>6. /\ Value # None <=> 2 * k + 2 <= Len(typed)
      /\ Value # None => Value = typed[2 * k + 2] /\ 2 <= Len(remaining)
      /\ Value \in LegacyArgument \cup {None}
  BY <1>4, <1>5, ArgumentsAssumption DEF Value
<1> QED BY <1>1, <1>2, <1>3, <1>4, <1>6

\* An option without a value, or with one it cannot have, is not well-formed.
LEMMA BadPair ==
  ASSUME Position, LegacyKnows, NEW option, Parsing("legacy", option),
         Value = None \/ ~IsPair(option, Value)
  PROVE  ~IsWellFormed
<1> PICK k \in Nat :
      /\ Parsed = 2 * k /\ Says(request, k)
      /\ 2 * k + 1 <= Len(typed) /\ typed[2 * k + 1] = option
      /\ Value # None <=> 2 * k + 2 <= Len(typed)
      /\ Value # None => Value = typed[2 * k + 2] /\ 2 <= Len(remaining)
  BY OptionAhead
<1>1. Len(typed) \in Nat
  BY OptionAhead
<1>2. CASE Value = None
  <2>1. Len(typed) = 2 * k + 1
    BY <1>1, <1>2
  <2>2. Len(typed) % 2 # 0
    BY <1>1, <2>1, Halves
  <2> QED BY <2>2 DEF IsWellFormed
<1>3. CASE Value # None
  <2>1. k + 1 \in Pairs
    BY <1>1, <1>3, Halves DEF Pairs
  <2>2. 2 * (k + 1) - 1 = 2 * k + 1 /\ 2 * (k + 1) = 2 * k + 2
    OBVIOUS
  <2>3. ~IsPair(typed[2 * (k + 1) - 1], typed[2 * (k + 1)])
    BY <1>3, <2>2
  <2> QED BY <2>1, <2>3 DEF IsWellFormed
<1> QED BY <1>2, <1>3

\* A line that is not well-formed is refused.
LEMMA LegacyRefuses ==
  ASSUME Position, LegacyKnows, command = "legacy", Fail("invalid_arguments"), ~IsWellFormed
  PROVE  Position' /\ LegacyKnows'
<1>1. /\ outcome' = "invalid_arguments"
      /\ UNCHANGED <<command, typed, remaining, request>>
  BY DEF Fail
<1>2. Position'
  BY <1>1, Halts
<1>3. ~IsWellFormed'
  BY <1>1 DEF IsWellFormed, Pairs, Uses
<1>4. typed' \in Seq(LegacyArgument) /\ request' \in LegacyRequest
  BY <1>1 DEF LegacyKnows
<1> QED BY <1>1, <1>2, <1>3, <1>4 DEF LegacyKnows

\* A pair is taken, and the request says what the pairs so far say.
LEMMA LegacyTakes ==
  ASSUME Position, LegacyKnows, NEW option, Parsing("legacy", option),
         NEW k \in Nat, Parsed = 2 * k, 2 <= Len(remaining),
         NEW field, NEW value, Consume(2, field, value),
         [request EXCEPT ![field] = value] \in LegacyRequest,
         Says([request EXCEPT ![field] = value], k + 1)
  PROVE  Position' /\ LegacyKnows'
<1>1. command = "legacy" /\ outcome = "parsing" /\ typed \in Seq(LegacyArgument)
  BY OptionAhead
<1>2. 2 \in 1 .. Len(remaining)
  BY Rest
<1>3. Position' /\ Parsed' = 2 * (k + 1)
  BY <1>2, Advances
<1>4. UNCHANGED <<command, typed, outcome>> /\ request' = [request EXCEPT ![field] = value]
  BY DEF Consume
<1>5. PICK asked : asked = [request EXCEPT ![field] = value]
  OBVIOUS
<1>6. Says(asked, k + 1)'
  BY <1>4, <1>5 DEF Says, Counts
<1>7. \E n \in Nat : Parsed' = 2 * n /\ Says(request, n)'
  <2>1. Says(request, k + 1)'
    BY <1>4, <1>5, <1>6 DEF Says, Counts
  <2>2. k + 1 \in Nat
    OBVIOUS
  <2> QED BY <1>3, <2>1, <2>2
<1>8. typed' \in Seq(LegacyArgument) /\ request' \in LegacyRequest
  BY <1>1, <1>4
<1> QED BY <1>1, <1>3, <1>4, <1>7, <1>8 DEF LegacyKnows

\* One lemma per step of the parser.
LEMMA ClientKeeps ==
  ASSUME Position, LegacyKnows, TakeClient
  PROVE  Position' /\ LegacyKnows'
<1>1. Parsing("legacy", "--client")
  BY DEF TakeClient
<1> PICK k \in Nat :
      /\ Parsed = 2 * k /\ Says(request, k)
      /\ 2 * k + 1 <= Len(typed) /\ typed[2 * k + 1] = "--client"
      /\ Value # None <=> 2 * k + 2 <= Len(typed)
      /\ Value # None => Value = typed[2 * k + 2] /\ 2 <= Len(remaining)
  BY <1>1, OptionAhead
<1>2. /\ Value \in LegacyArgument \cup {None} /\ request \in LegacyRequest
      /\ command = "legacy"
  BY <1>1, OptionAhead
<1>3. /\ RemovePrefix("CLIENT", Value) \in Client <=> Value \in DOMAIN ClientOf
      /\ Value \in DOMAIN ClientOf => RemovePrefix("CLIENT", Value) = ClientOf[Value]
  BY <1>2, ClientNames
<1>4. CASE ~(Value \in DOMAIN ClientOf)
  <2>1. Fail("invalid_arguments")
    BY <1>3, <1>4 DEF TakeClient, Take
  <2>2. Value = None \/ ~IsPair("--client", Value)
    BY <1>2, <1>4 DEF IsPair
  <2> QED BY <1>1, <1>2, <2>1, <2>2, BadPair, LegacyRefuses
<1>5. CASE Value \in DOMAIN ClientOf
  <2>1. Consume(2, "client", ClientOf[Value])
    BY <1>3, <1>5 DEF TakeClient, Take
  <2>2. Value # None /\ IsPair("--client", Value) /\ ClientOf[Value] \in Client
    BY <1>3, <1>5, ArgumentsAssumption DEF IsPair, LegacyArgument, Client,
      OutputFormat, ClientOf, FormatOf, Prefixed, Itself
  <2> DEFINE asked == [request EXCEPT !.client = ClientOf[Value]]
  <2>3. /\ asked \in LegacyRequest /\ asked.client = ClientOf[Value]
        /\ asked.output_format = request.output_format
        /\ asked.vizor_checkout = request.vizor_checkout
    BY <1>2, <2>2 DEF LegacyRequest
  <2>4. Says(asked, k + 1)
    <3> HIDE DEF asked
    <3>1. \A i \in 1 .. (k + 1) : IsPair(typed[2 * i - 1], typed[2 * i])
      <4>1. \A i \in 1 .. (k + 1) : i \in 1 .. k \/ i = k + 1
        OBVIOUS
      <4>2. 2 * (k + 1) - 1 = 2 * k + 1 /\ 2 * (k + 1) = 2 * k + 2
        OBVIOUS
      <4> QED BY <2>2, <4>1, <4>2 DEF Says
    <3>2. Counts("--client", k + 1, asked.client, None, ClientOf)
      BY <2>2, <2>3, CountsNow DEF Says
    <3>3. Counts("--format", k + 1, asked.output_format, "human", FormatOf)
      BY <2>2, <2>3, CountsStill DEF Says
    <3>4. Counts("--vizor-checkout", k + 1, asked.vizor_checkout, None, Itself)
      BY <2>2, <2>3, CountsStill DEF Says
    <3> QED BY <3>1, <3>2, <3>3, <3>4 DEF Says
  <2> QED BY <1>1, <2>1, <2>2, <2>3, <2>4, LegacyTakes
<1> QED BY <1>4, <1>5

\* --format, likewise.
LEMMA FormatKeeps ==
  ASSUME Position, LegacyKnows, TakeFormat
  PROVE  Position' /\ LegacyKnows'
<1>1. Parsing("legacy", "--format")
  BY DEF TakeFormat
<1> PICK k \in Nat :
      /\ Parsed = 2 * k /\ Says(request, k)
      /\ 2 * k + 1 <= Len(typed) /\ typed[2 * k + 1] = "--format"
      /\ Value # None <=> 2 * k + 2 <= Len(typed)
      /\ Value # None => Value = typed[2 * k + 2] /\ 2 <= Len(remaining)
  BY <1>1, OptionAhead
<1>2. /\ Value \in LegacyArgument \cup {None} /\ request \in LegacyRequest
      /\ command = "legacy"
  BY <1>1, OptionAhead
<1>3. /\ RemovePrefix("FORMAT", Value) \in OutputFormat <=> Value \in DOMAIN FormatOf
      /\ Value \in DOMAIN FormatOf => RemovePrefix("FORMAT", Value) = FormatOf[Value]
  BY <1>2, FormatNames
<1>4. CASE ~(Value \in DOMAIN FormatOf)
  <2>1. Fail("invalid_arguments")
    BY <1>3, <1>4 DEF TakeFormat, Take
  <2>2. Value = None \/ ~IsPair("--format", Value)
    BY <1>2, <1>4 DEF IsPair
  <2> QED BY <1>1, <1>2, <2>1, <2>2, BadPair, LegacyRefuses
<1>5. CASE Value \in DOMAIN FormatOf
  <2>1. Consume(2, "output_format", FormatOf[Value])
    BY <1>3, <1>5 DEF TakeFormat, Take
  <2>2. Value # None /\ IsPair("--format", Value) /\ FormatOf[Value] \in OutputFormat
    BY <1>3, <1>5, ArgumentsAssumption DEF IsPair, LegacyArgument, Client,
      OutputFormat, ClientOf, FormatOf, Prefixed, Itself
  <2> DEFINE asked == [request EXCEPT !.output_format = FormatOf[Value]]
  <2>3. /\ asked \in LegacyRequest /\ asked.output_format = FormatOf[Value]
        /\ asked.client = request.client
        /\ asked.vizor_checkout = request.vizor_checkout
    BY <1>2, <2>2 DEF LegacyRequest
  <2>4. Says(asked, k + 1)
    <3> HIDE DEF asked
    <3>1. \A i \in 1 .. (k + 1) : IsPair(typed[2 * i - 1], typed[2 * i])
      <4>1. \A i \in 1 .. (k + 1) : i \in 1 .. k \/ i = k + 1
        OBVIOUS
      <4>2. 2 * (k + 1) - 1 = 2 * k + 1 /\ 2 * (k + 1) = 2 * k + 2
        OBVIOUS
      <4> QED BY <2>2, <4>1, <4>2 DEF Says
    <3>2. Counts("--client", k + 1, asked.client, None, ClientOf)
      BY <2>2, <2>3, CountsStill DEF Says
    <3>3. Counts("--format", k + 1, asked.output_format, "human", FormatOf)
      BY <2>2, <2>3, CountsNow DEF Says
    <3>4. Counts("--vizor-checkout", k + 1, asked.vizor_checkout, None, Itself)
      BY <2>2, <2>3, CountsStill DEF Says
    <3> QED BY <3>1, <3>2, <3>3, <3>4 DEF Says
  <2> QED BY <1>1, <2>1, <2>2, <2>3, <2>4, LegacyTakes
<1> QED BY <1>4, <1>5

\* --vizor-checkout takes any argument there is.
LEMMA CheckoutKeeps ==
  ASSUME Position, LegacyKnows, TakeCheckout
  PROVE  Position' /\ LegacyKnows'
<1>1. Parsing("legacy", "--vizor-checkout")
  BY DEF TakeCheckout
<1> PICK k \in Nat :
      /\ Parsed = 2 * k /\ Says(request, k)
      /\ 2 * k + 1 <= Len(typed) /\ typed[2 * k + 1] = "--vizor-checkout"
      /\ Value # None <=> 2 * k + 2 <= Len(typed)
      /\ Value # None => Value = typed[2 * k + 2] /\ 2 <= Len(remaining)
  BY <1>1, OptionAhead
<1>2. /\ Value \in LegacyArgument \cup {None} /\ request \in LegacyRequest
      /\ command = "legacy"
  BY <1>1, OptionAhead
<1>3. /\ Value \in LegacyArgument <=> Value \in DOMAIN Itself
      /\ Value \in DOMAIN Itself => Value = Itself[Value]
  BY <1>2, ArgumentsAssumption DEF Itself
<1>4. CASE ~(Value \in DOMAIN Itself)
  <2>1. Fail("invalid_arguments")
    BY <1>3, <1>4 DEF TakeCheckout, Take
  <2>2. Value = None \/ ~IsPair("--vizor-checkout", Value)
    BY <1>2, <1>4 DEF IsPair, Itself
  <2> QED BY <1>1, <1>2, <2>1, <2>2, BadPair, LegacyRefuses
<1>5. CASE Value \in DOMAIN Itself
  <2>1. Consume(2, "vizor_checkout", Itself[Value])
    BY <1>3, <1>5 DEF TakeCheckout, Take
  <2>2. Value # None /\ IsPair("--vizor-checkout", Value) /\ Itself[Value] \in LegacyArgument
    BY <1>3, <1>5, ArgumentsAssumption DEF IsPair, LegacyArgument, Client,
      OutputFormat, ClientOf, FormatOf, Prefixed, Itself
  <2> DEFINE asked == [request EXCEPT !.vizor_checkout = Itself[Value]]
  <2>3. /\ asked \in LegacyRequest /\ asked.vizor_checkout = Itself[Value]
        /\ asked.client = request.client
        /\ asked.output_format = request.output_format
    BY <1>2, <2>2 DEF LegacyRequest
  <2>4. Says(asked, k + 1)
    <3> HIDE DEF asked
    <3>1. \A i \in 1 .. (k + 1) : IsPair(typed[2 * i - 1], typed[2 * i])
      <4>1. \A i \in 1 .. (k + 1) : i \in 1 .. k \/ i = k + 1
        OBVIOUS
      <4>2. 2 * (k + 1) - 1 = 2 * k + 1 /\ 2 * (k + 1) = 2 * k + 2
        OBVIOUS
      <4> QED BY <2>2, <4>1, <4>2 DEF Says
    <3>2. Counts("--client", k + 1, asked.client, None, ClientOf)
      BY <2>2, <2>3, CountsStill DEF Says
    <3>3. Counts("--format", k + 1, asked.output_format, "human", FormatOf)
      BY <2>2, <2>3, CountsStill DEF Says
    <3>4. Counts("--vizor-checkout", k + 1, asked.vizor_checkout, None, Itself)
      BY <2>2, <2>3, CountsNow DEF Says
    <3> QED BY <3>1, <3>2, <3>3, <3>4 DEF Says
  <2> QED BY <1>1, <2>1, <2>2, <2>3, <2>4, LegacyTakes
<1> QED BY <1>4, <1>5

\* Nothing else starts a pair.
LEMMA OtherKeeps ==
  ASSUME Position, LegacyKnows, RefuseArgument
  PROVE  Position' /\ LegacyKnows'
<1> PICK option \in LegacyArgument \ Options : Parsing("legacy", option)
  BY DEF RefuseArgument
<1>1. ~IsPair(option, Value)
  BY DEF IsPair, Options
<1> QED BY <1>1, OptionAhead, BadPair, LegacyRefuses DEF RefuseArgument

\* At the end of the line the request is what its pairs mean, with a client.
LEMMA LegacyFinishes ==
  ASSUME Position, LegacyKnows, FinishLegacy
  PROVE  Position' /\ LegacyKnows'
<1>1. /\ command = "legacy" /\ outcome = "parsing" /\ remaining = <<>>
      /\ UNCHANGED <<command, typed, remaining, request>>
  BY DEF FinishLegacy
<1>2. typed \in Seq(LegacyArgument) /\ request \in LegacyRequest
  BY <1>1 DEF LegacyKnows
<1> PICK k \in Nat : Parsed = 2 * k /\ Says(request, k)
  BY <1>1 DEF LegacyKnows
<1>3. Len(typed) = 2 * k /\ Len(typed) \in Nat
  BY <1>1, Rest
<1>4. Len(typed) \div 2 = k /\ Len(typed) % 2 = 0
  BY <1>3, Halves
<1>5. \A i \in Pairs : IsPair(typed[2 * i - 1], typed[2 * i])
  BY <1>4 DEF Pairs, Says
<1>6. /\ request.client = IF Uses("--client") = {} THEN None
                          ELSE ClientOf[LastUse("--client")]
      /\ request.output_format = IF Uses("--format") = {} THEN "human"
                                 ELSE FormatOf[LastUse("--format")]
      /\ request.vizor_checkout = IF Uses("--vizor-checkout") = {} THEN None
                                  ELSE Itself[LastUse("--vizor-checkout")]
  BY <1>3, <1>4, LastCounts DEF Says
<1>7. request.client = None <=> Uses("--client") = {}
  <2>1. CASE request.client = None /\ \A i \in Pairs : typed[2 * i - 1] # "--client"
    BY <2>1 DEF Uses
  <2>2. ASSUME NEW i \in Pairs, typed[2 * i - 1] = "--client",
               request.client = ClientOf[typed[2 * i]]
        PROVE  request.client # None /\ Uses("--client") # {}
    <3>1. typed[2 * i] \in DOMAIN ClientOf
      BY <1>5, <2>2 DEF IsPair
    <3>2. request.client \in Client
      BY <2>2, <3>1 DEF ClientOf, Client
    <3> QED BY <2>2, <3>2, ArgumentsAssumption DEF Uses, LegacyArgument
  <2> QED BY <1>4, <2>1, <2>2 DEF Says, Counts, Pairs
<1>8. Uses("--vizor-checkout") # {} => request.vizor_checkout = LastUse("--vizor-checkout")
  <2>1. CASE \A i \in Pairs : typed[2 * i - 1] # "--vizor-checkout"
    BY <2>1 DEF Uses
  <2>2. ASSUME NEW i \in Pairs, typed[2 * i - 1] = "--vizor-checkout",
               request.vizor_checkout = Itself[typed[2 * i]],
               \A j \in Pairs : typed[2 * j - 1] = "--vizor-checkout" => j <= i
        PROVE  request.vizor_checkout = LastUse("--vizor-checkout")
    <3>1. LastUse("--vizor-checkout") = typed[2 * i]
      BY <1>3, <2>2, LastUseIs
    <3>2. 2 * i \in 1 .. Len(typed)
      BY <1>3, <1>4 DEF Pairs
    <3>3. typed[2 * i] \in LegacyArgument
      BY <1>2, <3>2
    <3> QED BY <2>2, <3>1, <3>3 DEF Itself
  <2> QED BY <1>4, <2>1, <2>2 DEF Says, Counts, Pairs
<1>9. request = [client |-> request.client, output_format |-> request.output_format,
                 vizor_checkout |-> request.vizor_checkout]
  BY <1>2 DEF LegacyRequest
<1>10. Position'
  BY <1>1, Halts
<1>11. CASE request.client = None
  <2>1. Fail("invalid_arguments")
    BY <1>1, <1>11 DEF FinishLegacy, Fail
  <2>2. ~IsWellFormed
    BY <1>7, <1>11 DEF IsWellFormed
  <2> QED BY <1>1, <2>1, <2>2, LegacyRefuses
<1>12. CASE request.client # None
  <2>1. IsWellFormed
    BY <1>4, <1>5, <1>7, <1>12 DEF IsWellFormed
  <2>2. request = Meant
    <3>1. request.client = ClientOf[LastUse("--client")]
      BY <1>6, <1>7, <1>12
    <3>2. request.vizor_checkout = IF Uses("--vizor-checkout") = {} THEN None
                                   ELSE LastUse("--vizor-checkout")
      BY <1>6, <1>8
    <3> QED BY <1>6, <1>9, <3>1, <3>2 DEF Meant
  <2>3. IsWellFormed' /\ request' = Meant'
    BY <1>1, <2>1, <2>2 DEF IsWellFormed, Meant, LastUse, Uses, Pairs
  <2>4. outcome' = "parsed"
    BY <1>12 DEF FinishLegacy
  <2> QED BY <1>1, <1>2, <1>10, <2>3, <2>4 DEF LegacyKnows
<1> QED BY <1>11, <1>12

-----------------------------------------------------------------------------
(***************************************************************************)
(* The theorems.                                                           *)
(***************************************************************************)
ParserKnows == command \in {"policy", "legacy"} /\ Position /\ PolicyKnows /\ LegacyKnows

\* Nothing has been read at first.
LEMMA ParserBegins == Init => ParserKnows
<1> SUFFICES ASSUME Init PROVE ParserKnows
  OBVIOUS
<1>1. /\ typed \in Seq(PolicyArgument \cup LegacyArgument) /\ Len(typed) \in Nat
      /\ command = "policy" => typed \in Seq(PolicyArgument)
      /\ command = "legacy" => typed \in Seq(LegacyArgument)
  <2>1. CASE InitPolicy
    BY <2>1, ArgumentsAssumption DEF InitPolicy
  <2>2. CASE InitLegacy
    BY <2>2, ArgumentsAssumption DEF InitLegacy
  <2> QED BY <2>1, <2>2 DEF Init
<1>2. remaining = typed /\ Parsed = 0 /\ outcome = "parsing"
  BY <1>1 DEF Init, Parsed
<1>3. Position
  BY <1>1, <1>2 DEF Position
<1>4. PolicyKnows
  <2> SUFFICES ASSUME command = "policy" PROVE PolicyKnows
    BY DEF PolicyKnows
  <2>1. request = [path |-> None, check_freshness |-> FALSE, at |-> None]
    BY DEF Init, InitPolicy, InitLegacy
  <2>2. Accounts(typed, 0, request, 0, 0, 0)
    BY <2>1 DEF Accounts
  <2> QED BY <1>1, <1>2, <2>1, <2>2 DEF PolicyKnows, PolicyRequest
<1>5. LegacyKnows
  <2> SUFFICES ASSUME command = "legacy" PROVE LegacyKnows
    BY DEF LegacyKnows
  <2>1. request = [client |-> None, output_format |-> "human", vizor_checkout |-> None]
    BY DEF Init, InitPolicy, InitLegacy
  <2>2. Says(request, 0)
    BY <2>1 DEF Says, Counts
  <2>3. request \in LegacyRequest
    BY <2>1 DEF LegacyRequest, OutputFormat
  <2> QED BY <1>1, <1>2, <2>2, <2>3 DEF LegacyKnows
<1> QED BY <1>3, <1>4, <1>5 DEF ParserKnows, Init, InitPolicy, InitLegacy

\* A parser keeps to its command.
LEMMA CommandFixed ==
  ASSUME Next
  PROVE  /\ UNCHANGED command
         /\ \/ command = "policy" /\ (ParseFreshness \/ ParseAt \/ ParseUnknown \/ ParsePath
                                        \/ FinishPolicy)
            \/ command = "legacy" /\ (TakeClient \/ TakeFormat \/ TakeCheckout \/ RefuseArgument
                                        \/ FinishLegacy)
BY DEF Next, ParseFreshness, ParseAt, ParseUnknown, ParsePath, FinishPolicy,
  TakeClient, TakeFormat, TakeCheckout, RefuseArgument, FinishLegacy, Take,
  Parsing, Consume, Fail

\* Every step, or none, keeps what the parsers know.
LEMMA ParserSteps == ParserKnows /\ [Next]_vars => ParserKnows'
<1> SUFFICES ASSUME ParserKnows, [Next]_vars PROVE ParserKnows'
  OBVIOUS
<1> USE DEF ParserKnows
<1>1. CASE UNCHANGED vars
  <2>1. UNCHANGED <<command, typed, remaining, request, outcome>>
    BY <1>1 DEF vars
  <2>2. Position' /\ Parsed' = Parsed
    BY <2>1, Halts
  <2>3. PolicyKnows'
    BY <2>1, <2>2 DEF PolicyKnows
  <2>4. /\ IsWellFormed' <=> IsWellFormed
        /\ Meant' = Meant
        /\ \A k \in Nat : Says(request, k)' <=> Says(request, k)
    BY <2>1 DEF IsWellFormed, Meant, LastUse, Uses, Pairs, Says, Counts
  <2>5. LegacyKnows'
    BY <2>1, <2>2, <2>4 DEF LegacyKnows
  <2> QED BY <2>1, <2>2, <2>3, <2>5
<1>2. CASE Next /\ command = "policy"
  <2>1. Position' /\ PolicyKnows'
    BY <1>2, CommandFixed, FlagKeeps, AtKeeps, UnknownKeeps, PathKeeps,
      PolicyFinishes
  <2>2. LegacyKnows'
    BY <1>2, CommandFixed DEF LegacyKnows
  <2> QED BY <1>2, <2>1, <2>2, CommandFixed
<1>3. CASE Next /\ command = "legacy"
  <2>1. Position' /\ LegacyKnows'
    BY <1>3, CommandFixed, ClientKeeps, FormatKeeps, CheckoutKeeps, OtherKeeps,
      LegacyFinishes
  <2>2. PolicyKnows'
    BY <1>3, CommandFixed DEF PolicyKnows
  <2> QED BY <1>3, <2>1, <2>2, CommandFixed
<1> QED BY <1>1, <1>2, <1>3

\* At every step both parsers know what the part they have read says.
THEOREM ParsersKnow == Spec => []ParserKnows
BY ParserBegins, ParserSteps, PTL DEF Spec

\* What is left is the end of what was typed, on lines of any length.
THEOREM TypeCorrect == Spec => []TypeOK
<1>1. ParserKnows => TypeOK
  BY DEF ParserKnows, Position, PolicyKnows, LegacyKnows, PolicyRequest,
    LegacyRequest, TypeOK
<1> QED BY <1>1, ParsersKnow, PTL

\* policy-validate accepts a line just when it spells a request, and as that
\* one: for any sets of words, instants and unknown options, on lines of any length.
THEOREM PolicyGrammar == Spec => []AcceptsTheGrammar
<1>1. ParserKnows => AcceptsTheGrammar
  <2> SUFFICES ASSUME ParserKnows, command = "policy", outcome # "parsing"
               PROVE  {reading \in Meanings : Spells(typed, reading)}
                        = IF outcome = "parsed" THEN {request} ELSE {}
    BY DEF AcceptsTheGrammar
  <2>1. typed \in Seq(PolicyArgument) /\ Len(typed) \in Nat
    BY DEF ParserKnows, PolicyKnows
  <2>2. Meanings \subseteq PolicyRequest
    BY DEF Meanings, Reading, PolicyRequest
  <2>3. CASE outcome = "parsed"
    <3>1. PICK path, flag, at : Accounts(typed, Len(typed), request, path, flag, at)
      BY <2>3 DEF ParserKnows, PolicyKnows
    <3>2. request \in Meanings
      BY <2>3 DEF ParserKnows, PolicyKnows
    <3>3. Spells(typed, request)
      BY <2>1, <3>1, <3>2, AccountSpells
    <3>4. ASSUME NEW reading \in Meanings, Spells(typed, reading)
          PROVE  reading = request
      BY <2>1, <2>2, <3>1, <3>2, <3>4, SpelledAccounts, OneReading
    <3> QED BY <2>3, <3>2, <3>3, <3>4
  <2>4. CASE outcome # "parsed"
    BY <2>4 DEF ParserKnows, PolicyKnows
  <2> QED BY <2>3, <2>4
<1> QED BY <1>1, ParsersKnow, PTL

\* The inspection accepts a line just when it consists of pairs with a client
\* among them, and the last use of each option counts.
THEOREM LegacyGrammar == Spec => []LastOptionWins
<1>1. ParserKnows => LastOptionWins
  BY DEF ParserKnows, LegacyKnows, LastOptionWins
<1> QED BY <1>1, ParsersKnow, PTL
=============================================================================
