-------------------- MODULE LegacyClientInspectionProofs --------------------
(***************************************************************************)
(* What an inspection prints, it has grounds for, on every machine and     *)
(* under any number of edits of the checkout.                              *)
(***************************************************************************)
EXTENDS LegacyClientInspection, TLAPS

Stages == {"is_dir", "head", "origin", "status", "cargo", "list", "run"}

\* Every registered test up to the n-th passed at the pin.
Proven(n) ==
  \A k \in DOMAIN Registry :
    k <= n => [test |-> Registry[k].test, head |-> VizorRevision] \in proven

\* The checkout is the pinned one, as far as the preflight has looked.
AtPin == checkout.kind = "worktree" /\ checkout.head = VizorRevision
AtOrigin == AtPin /\ checkout.origin = VizorRepository
Clean == AtOrigin /\ checkout.tree = "clean"

\* What the commands so far have established, unless the operator edited the
\* checkout meanwhile.
Preflight ==
  ~touched =>
    /\ pc = "origin" => AtPin
    /\ pc = "status" => AtOrigin
    /\ pc \in {"cargo", "list", "run"} => Clean
    /\ pc = "run" => suite[VizorRevision][Registry[next].test] # "missing"
    /\ pc \in {"list", "run"} => Proven(next - 1)
    /\ pc = "print" /\ client = "vizor" => Clean /\ Proven(Len(Registry))

\* What has been printed is the whole matrix, and had its grounds.
Output ==
  \/ printed = <<>> /\ (pc = "done" => exit = "one")
  \/ /\ pc = "done" /\ exit = "zero" /\ printed = Rows
     /\ client = "vizor" /\ ~touched => Clean /\ Proven(Len(Registry))

Shape ==
  /\ client \in {"vizor"} \cup DOMAIN SourceMapping
  /\ pc \in {"start", "print", "done"} \cup Stages
  /\ pc \in Stages => client = "vizor"
  /\ pc \in {"list", "run"} => next \in DOMAIN Registry
  /\ pc \in Stages \ {"list", "run"} => next = 1

IInv == Shape /\ Preflight /\ Output

-----------------------------------------------------------------------------
\* The registry has five tests.
LEMMA RegistryHasFive ==
  /\ Len(Registry) = 5
  /\ DOMAIN Registry = 1 .. 5
BY DEF Registry

\* The contract refuses no row the adapters build, for every scenario and
\* whatever the source review found: no inspection ends with an error of its
\* own rows (build_vizor_results, _zodl_results).
THEOREM RowsAreAccepted ==
  \A s \in Scenario :
    /\ ModelAccepts(VizorResult(s))
    /\ \A status \in CheckStatus : ModelAccepts(ZodlResult(s, status))
<1> TAKE s \in Scenario
<1>1. ModelAccepts(CompleteVizor(s))
  BY DEF ModelAccepts, Violation, ExecutionViolation, EvidenceViolation, Defaulted,
         CompleteVizor
<1>2. ASSUME NEW e \in {"local_flutter_unavailable", "unavailable"},
             NEW reason \in UnavailableReason
      PROVE  ModelAccepts(UnavailableVizor(s, e, reason))
  BY DEF ModelAccepts, Violation, ExecutionViolation, EvidenceViolation, Defaulted,
         UnavailableVizor, NotRun, UnavailableReason
<1>3. ModelAccepts(VizorResult(s))
  BY <1>1, <1>2 DEF VizorResult, LocalRustScenario, UnavailableReason
<1>4. \A status \in CheckStatus : ModelAccepts(ZodlResult(s, status))
  BY DEF ModelAccepts, Violation, ExecutionViolation, EvidenceViolation, Defaulted,
         ZodlResult
<1> QED BY <1>3, <1>4

\* The review has a status for every scenario of both clients.
LEMMA ReviewsAreComplete ==
  \A c \in DOMAIN SourceMapping, i \in DOMAIN SCENARIO_REGISTRY :
    SourceMapping[c][i] \in CheckStatus
BY DEF SourceMapping, SCENARIO_REGISTRY, CheckStatus

\* So PrintRows has only one outcome.
LEMMA EveryRowIsAccepted ==
  ASSUME client \in {"vizor"} \cup DOMAIN SourceMapping
  PROVE  \A i \in DOMAIN Rows : ModelAccepts(Rows[i])
<1>1. \A i \in DOMAIN SCENARIO_REGISTRY : SCENARIO_REGISTRY[i] \in Scenario
  BY DEF Scenario
<1> QED BY <1>1, RowsAreAccepted, ReviewsAreComplete DEF Rows

-----------------------------------------------------------------------------
\* A failure prints nothing, and nothing was printed before.
LEMMA FailKeeps ==
  ASSUME IInv, pc # "done", Fail
  PROVE  IInv'
BY DEF IInv, Shape, Preflight, Output, Fail, Stages

LEMMA StartKeeps ==
  ASSUME Start
  PROVE  IInv'
<1>1. Shape'
  BY DEF Start, Shape, Stages
<1>2. Preflight'
  BY DEF Start, Preflight, SourceMapping
<1>3. Output'
  BY DEF Start, Output
<1> QED BY <1>1, <1>2, <1>3 DEF IInv

LEMMA PreflightKeeps ==
  ASSUME IInv, RequireDirectory \/ RequireRevision \/ RequireOrigin
               \/ RequireCleanTree \/ FindCargo
  PROVE  IInv'
<1>0. CASE Fail /\ pc # "done"
  BY <1>0, FailKeeps
<1>1. CASE ~Fail
  <2>1. Shape'
    BY <1>1, RegistryHasFive DEF IInv, Shape, Stages, Require, GoTo, RequireDirectory,
       RequireRevision, RequireOrigin, RequireCleanTree, FindCargo
  <2>2. Output'
    BY <1>1 DEF IInv, Output, Require, GoTo, RequireDirectory,
       RequireRevision, RequireOrigin, RequireCleanTree, FindCargo
  <2>3. Preflight'
    <3>1. CASE RequireDirectory
      BY <1>1, <3>1 DEF Preflight, RequireDirectory, Require, GoTo
    <3>2. CASE RequireRevision
      BY <1>1, <3>2 DEF Preflight, RequireRevision, Require, GoTo, AtPin
    <3>3. CASE RequireOrigin
      BY <1>1, <3>3 DEF IInv, Preflight, RequireOrigin, Require, GoTo, AtPin, AtOrigin
    <3>4. CASE RequireCleanTree
      BY <1>1, <3>4 DEF IInv, Preflight, RequireCleanTree, Require, GoTo, AtPin,
         AtOrigin, Clean, StatusIsEmpty
    <3>5. CASE FindCargo
      BY <1>1, <3>5, RegistryHasFive DEF IInv, Shape, Stages, Preflight, FindCargo, GoTo,
         AtPin, AtOrigin, Clean, Proven
    <3> QED BY <3>1, <3>2, <3>3, <3>4, <3>5
  <2> QED BY <2>1, <2>2, <2>3 DEF IInv
<1>2. pc # "done"
  BY DEF RequireDirectory, RequireRevision, RequireOrigin, RequireCleanTree,
     FindCargo, Require
<1> QED BY <1>0, <1>1, <1>2

\* In a clean checkout of the pin a test that is listed is not missing.
LEMMA ListTestKeeps ==
  ASSUME IInv, ListTest
  PROVE  IInv'
<1>1. CASE Fail
  BY <1>1, FailKeeps DEF ListTest
<1>2. CASE MayList(Registry[next].test) /\ GoTo("run")
  <2>1. Shape'
    BY <1>2 DEF IInv, Shape, Stages, ListTest, GoTo
  <2>2. Output'
    BY <1>2 DEF IInv, Output, ListTest, GoTo
  <2>3. ~touched => Clean /\ Proven(next - 1)
    BY DEF IInv, Preflight, ListTest
  <2>4. ~touched => suite[VizorRevision][Registry[next].test] # "missing"
    BY <1>2, <2>3 DEF MayList, StatesOf, Clean, AtOrigin, AtPin
  <2>5. Preflight'
    BY <1>2, <2>3, <2>4 DEF Preflight, GoTo, Clean, AtOrigin, AtPin, Proven
  <2> QED BY <2>1, <2>2, <2>5 DEF IInv
<1> QED BY <1>1, <1>2 DEF ListTest

\* So a run of it that exits 0 has really run it.
LEMMA RunTestKeeps ==
  ASSUME IInv, RunTest
  PROVE  IInv'
<1>1. CASE Fail
  BY <1>1, FailKeeps DEF RunTest
<1>2. CASE Advance
  <2>0. next \in 1 .. 5 /\ client = "vizor" /\ pc = "run"
    BY RegistryHasFive DEF IInv, Shape, Stages, RunTest
  <2>1. Shape'
    BY <1>2, <2>0, RegistryHasFive DEF IInv, Shape, Stages, Advance
  <2>2. Output'
    BY <1>2, <2>0 DEF IInv, Output, Advance
  <2>3. ASSUME ~touched
        PROVE  Clean /\ Proven(next - 1)
               /\ suite[VizorRevision][Registry[next].test] # "missing"
    BY <2>0, <2>3 DEF IInv, Preflight
  <2>4. ASSUME ~touched
        PROVE  \A k \in DOMAIN Registry : k <= next =>
                 [test |-> Registry[k].test, head |-> VizorRevision] \in proven'
    <3>1. proven' = proven \cup {[test |-> Registry[next].test, head |-> VizorRevision]}
      BY <1>2, <2>3, <2>4 DEF RunTest, MayRunNothing, StatesOf, Clean, AtOrigin, AtPin,
         Fail, Advance
    <3> QED BY <3>1, <2>3, <2>4, <2>0, RegistryHasFive DEF Proven
  <2>5. ASSUME ~touched PROVE Clean' /\ Proven(next - 1)'
    BY <1>2, <2>0, <2>3, <2>4, <2>5 DEF Advance, Clean, AtOrigin, AtPin, Proven
  <2>6. pc' \in {"print", "list"} /\ (pc' = "print" => next = 5) /\ next' = next + 1
        /\ touched' = touched
    BY <1>2, RegistryHasFive DEF Advance
  <2>7. ASSUME ~touched, pc' = "print" PROVE Proven(Len(Registry))'
    BY <2>4, <2>6, <2>7, RegistryHasFive DEF Proven
  <2>8. Preflight'
    BY <2>5, <2>6, <2>7 DEF Preflight
  <2> QED BY <2>1, <2>2, <2>8 DEF IInv
<1> QED BY <1>1, <1>2 DEF RunTest

LEMMA PrintRowsKeeps ==
  ASSUME IInv, PrintRows
  PROVE  IInv'
<1>1. exit' = "zero" /\ printed' = Rows /\ pc' = "done"
  BY EveryRowIsAccepted DEF IInv, Shape, PrintRows
<1>2. Shape'
  BY <1>1 DEF IInv, Shape, Stages, PrintRows
<1>3. Preflight'
  BY <1>1 DEF Preflight
<1>4. Rows' = Rows
  BY DEF Rows, PrintRows
<1>5. client = "vizor" /\ ~touched => Clean /\ Proven(Len(Registry))
  BY DEF IInv, Preflight, PrintRows
<1>6. Output'
  BY <1>1, <1>4, <1>5 DEF Output, PrintRows, Clean, AtOrigin, AtPin, Proven
<1> QED BY <1>2, <1>3, <1>6 DEF IInv

LEMMA EditKeeps ==
  ASSUME IInv, Edit
  PROVE  IInv'
<1>1. Rows' = Rows
  BY DEF Rows, Edit
<1> QED BY <1>1 DEF IInv, Shape, Stages, Preflight, Output, Edit

\* Each command of the preflight and each passed test adds to what is
\* established, and only the end of the loop reaches the rows.
THEOREM Invariance == Spec => []IInv
<1>1. Init => IInv
  BY DEF Init, IInv, Shape, Stages, Preflight, Output
<1>2. IInv /\ [Next]_vars => IInv'
  <2> SUFFICES ASSUME IInv, [Next]_vars PROVE IInv'
    OBVIOUS
  <2>1. CASE Start
    BY <2>1, StartKeeps
  <2>2. CASE RequireDirectory \/ RequireRevision \/ RequireOrigin
             \/ RequireCleanTree \/ FindCargo
    BY <2>2, PreflightKeeps
  <2>3. CASE ListTest
    BY <2>3, ListTestKeeps
  <2>4. CASE RunTest
    BY <2>4, RunTestKeeps
  <2>5. CASE PrintRows
    BY <2>5, PrintRowsKeeps
  <2>6. CASE Edit
    BY <2>6, EditKeeps
  <2>7. CASE UNCHANGED vars
    <3>1. Rows' = Rows
      BY <2>7 DEF vars, Rows
    <3> QED BY <2>7, <3>1 DEF vars, IInv, Shape, Stages, Preflight, Output, Proven,
               Clean, AtOrigin, AtPin
  <2> QED BY <2>1, <2>2, <2>3, <2>4, <2>5, <2>6, <2>7 DEF Next, Inspect
<1> QED BY <1>1, <1>2, PTL DEF Spec

-----------------------------------------------------------------------------
\* Only a local Rust scenario of Vizor claims to have been executed, and each
\* of those has a registered test.
LEMMA ClaimsAreLocalRust ==
  ASSUME client \in {"vizor"} \cup DOMAIN SourceMapping,
         NEW i \in DOMAIN Rows, Claims(Rows[i])
  PROVE  /\ client = "vizor"
         /\ \E k \in DOMAIN Registry : Registry[k].scenario = Rows[i].scenario
<1>0. i \in DOMAIN SCENARIO_REGISTRY
  BY DEF Rows
<1> DEFINE s == SCENARIO_REGISTRY[i]
<1>1. \A x, e, r : ~Claims(UnavailableVizor(x, e, r)) \/ e = "local_rust_unit"
  BY DEF Claims, UnavailableVizor, HumanTimeline
<1>2. \A x, t : ~Claims(ZodlResult(x, t))
  BY DEF Claims, ZodlResult, HumanTimeline
<1>3. client = "vizor"
  BY <1>0, <1>2 DEF Rows
<1>4. Rows[i] = VizorResult(s)
  BY <1>0, <1>3 DEF Rows
<1>5. s \in LocalRustScenario /\ Rows[i].scenario = s
  BY <1>1, <1>4 DEF VizorResult, CompleteVizor
<1>6. \A x \in LocalRustScenario : \E k \in DOMAIN Registry : Registry[k].scenario = x
  BY DEF LocalRustScenario, Registry
<1> QED BY <1>3, <1>5, <1>6

\* For every machine, checkout and number of edits: a printed row that claims
\* execution has every test of its scenario behind it, run at the pin in a
\* clean checkout, unless the checkout was edited during the run.
THEOREM PrintedClaimsAreGrounded == Spec => []ClaimsAreGrounded
<1>1. IInv => ClaimsAreGrounded
  <2> SUFFICES ASSUME IInv, ~touched, NEW i \in DOMAIN printed, Claims(printed[i])
      PROVE LET grounds == {k \in DOMAIN Registry :
                              Registry[k].scenario = printed[i].scenario}
            IN /\ grounds # {}
               /\ \A k \in grounds :
                    [test |-> Registry[k].test, head |-> VizorRevision] \in proven
               /\ checkout.origin = VizorRepository /\ checkout.tree = "clean"
    BY DEF ClaimsAreGrounded
  <2>1. printed # <<>>
    OBVIOUS
  <2>2. printed = Rows /\ (client = "vizor" => Clean /\ Proven(Len(Registry)))
    BY <2>1 DEF IInv, Output
  <2>3. /\ client = "vizor"
        /\ \E k \in DOMAIN Registry : Registry[k].scenario = printed[i].scenario
    BY <2>2, ClaimsAreLocalRust DEF IInv, Shape
  <2>4. \A k \in DOMAIN Registry :
          [test |-> Registry[k].test, head |-> VizorRevision] \in proven
    BY <2>2, <2>3, RegistryHasFive DEF Proven
  <2> QED BY <2>2, <2>3, <2>4 DEF Clean, AtOrigin
<1> QED BY <1>1, Invariance, PTL

\* For every machine and number of edits: a run that ends has printed the ten
\* scenarios in order, or nothing.
THEOREM MatrixIsWhole == Spec => []AllOrNothing
<1>1. Len(SCENARIO_REGISTRY) = 10 /\ DOMAIN SCENARIO_REGISTRY = 1 .. 10
  BY DEF SCENARIO_REGISTRY
<1>2. Len(Rows) = 10 /\ DOMAIN Rows = 1 .. 10
  BY <1>1 DEF Rows
<1>3. ASSUME client \in {"vizor"} \cup DOMAIN SourceMapping
      PROVE  \A i \in DOMAIN Rows : Rows[i].scenario = SCENARIO_REGISTRY[i]
  <2>1. \A s : VizorResult(s).scenario = s
    BY DEF VizorResult, CompleteVizor, UnavailableVizor
  <2>2. \A s, t : ZodlResult(s, t).scenario = s
    BY DEF ZodlResult
  <2> QED BY <2>1, <2>2 DEF Rows
<1>4. IInv => AllOrNothing
  BY <1>1, <1>2, <1>3 DEF IInv, Shape, Output, AllOrNothing
<1> QED BY <1>4, Invariance, PTL

-----------------------------------------------------------------------------
\* The types the shape of a run does not give.
Typed ==
  /\ suite \in Suites
  /\ checkout \in Checkout
  /\ edits \in Nat
  /\ next \in 1 .. Len(Registry) + 1
  /\ exit \in {"none", "zero", "one", "traceback"}
  /\ touched \in BOOLEAN
  /\ proven \subseteq [test : Tests, head : Commits]

\* Every row of every client is a well-typed document.
LEMMA RowsAreDocuments ==
  ASSUME client \in {"vizor"} \cup DOMAIN SourceMapping
  PROVE  \A i \in DOMAIN Rows : Rows[i] \in LegacyClientDocument
<1>1. \A s : CheckCodeOf(s) \in CheckCode
  BY DEF CheckCodeOf, CheckCode
<1>2. \A s : \A t \in CheckStatus :
        << [code |-> CheckCodeOf(s), status |-> t] >> \in Seq(CheckRecord)
  BY <1>1 DEF CheckRecord
<1>3. \A s : LocalTimeline(s) \in Seq(TimelineEventCode)
  <2> TAKE s
  <2>1. /\ <<"submission_call", "client_visible_response">> \in Seq(TimelineEventCode)
        /\ <<"client_retries_or_status_queries", "client_final_state">>
             \in Seq(TimelineEventCode)
        /\ <<>> \in Seq(TimelineEventCode)
    BY DEF TimelineEventCode
  <2> QED BY <2>1 DEF LocalTimeline
<1>e. <<>> \in Seq(TimelineEventCode)
  OBVIOUS
<1>4. ASSUME NEW s \in Scenario PROVE CompleteVizor(s) \in LegacyClientDocument
  <2> DEFINE c == << [code |-> CheckCodeOf(s), status |-> "pass"] >>
             l == LocalTimeline(s)
  <2>1. c \in Seq(CheckRecord) /\ l \in Seq(TimelineEventCode)
    BY <1>2, <1>3 DEF CheckStatus
  <2>2. CompleteVizor(s) =
          [ scenario |-> s, evidence_grade |-> "local_rust_unit",
            execution |-> "complete",
            rollout_classification |-> "ordinary_immediate_endpoint",
            checks |-> c, timeline |-> l, unavailable_reason |-> "null" ]
    BY DEF CompleteVizor
  <2> HIDE DEF c, l
  <2> QED BY <2>1, <2>2 DEF LegacyClientDocument, EvidenceGrade, Execution,
             RolloutClassification
<1>5. ASSUME NEW s \in Scenario, NEW e \in EvidenceGrade, NEW r \in UnavailableReason
      PROVE  UnavailableVizor(s, e, r) \in LegacyClientDocument
  <2> DEFINE c == << [code |-> CheckCodeOf(s), status |-> "not_run"] >>
  <2>1. c \in Seq(CheckRecord)
    BY <1>2 DEF CheckStatus
  <2>2. UnavailableVizor(s, e, r) =
          [ scenario |-> s, evidence_grade |-> e, execution |-> "unavailable",
            rollout_classification |-> "inconclusive", checks |-> c,
            timeline |-> <<>>, unavailable_reason |-> r ]
    BY DEF UnavailableVizor
  <2> HIDE DEF c
  <2> QED BY <2>1, <2>2, <1>e DEF LegacyClientDocument, Execution, RolloutClassification
<1>6. ASSUME NEW s \in Scenario, NEW t \in CheckStatus
      PROVE  ZodlResult(s, t) \in LegacyClientDocument
  <2> DEFINE c == << [code |-> CheckCodeOf(s), status |-> t] >>
  <2>1. c \in Seq(CheckRecord)
    BY <1>2
  <2>2. ZodlResult(s, t) =
          [ scenario |-> s, evidence_grade |-> "source_derived",
            execution |-> "complete", rollout_classification |-> "inconclusive",
            checks |-> c, timeline |-> <<>>, unavailable_reason |-> "null" ]
    BY DEF ZodlResult
  <2> HIDE DEF c
  <2> QED BY <2>1, <2>2, <1>e DEF LegacyClientDocument, EvidenceGrade, Execution,
             RolloutClassification
<1>7. \A s \in Scenario : VizorResult(s) \in LegacyClientDocument
  BY <1>4, <1>5 DEF VizorResult, EvidenceGrade, UnavailableReason
<1>8. \A i \in DOMAIN SCENARIO_REGISTRY : SCENARIO_REGISTRY[i] \in Scenario
  BY DEF Scenario
<1> QED BY <1>6, <1>7, <1>8, ReviewsAreComplete DEF Rows

\* A passed test ran at a commit: an unborn HEAD has no tests.
LEMMA RunTestKeepsTypes ==
  ASSUME Shape, Typed, RunTest
  PROVE  Typed'
<1>1. next \in DOMAIN Registry /\ Registry[next].test \in Tests
  BY DEF Shape, RunTest, Stages, Tests
<1>2. next' \in 1 .. Len(Registry) + 1
  BY <1>1, RegistryHasFive DEF RunTest, Advance, Fail, Typed
<1>3. MayPass(Registry[next].test) => checkout.head \in Commits
  BY DEF MayPass, StatesOf
<1>4. proven' \subseteq [test : Tests, head : Commits]
  BY <1>1, <1>3 DEF RunTest, Advance, Fail, Typed
<1> QED BY <1>2, <1>4 DEF Typed, RunTest, Advance, Fail

\* Whatever the operator does to a checkout by hand, it stays one.
LEMMA EditsKeepType ==
  ASSUME NEW before \in Checkout, NEW edited \in Edited(before)
  PROVE  edited \in Checkout
<1>1. CASE edited \in {Absent, NotARepository("file"), NotARepository("plain")}
  <2>1. \A kind \in {"absent", "file", "plain"} : NotARepository(kind) \in Checkout
    BY DEF NotARepository, Checkout
  <2> QED BY <1>1, <2>1 DEF Absent
<1>2. CASE \E tree \in {"clean", "dirty", "unreadable"} :
             edited = [before EXCEPT !.tree = tree]
  BY <1>2 DEF Checkout
<1>3. CASE \E head \in before.objects \cap Commits :
             edited = [before EXCEPT !.head = head, !.attached = TRUE]
  BY <1>3 DEF Checkout
<1>4. CASE \E url \in URLs : edited = [before EXCEPT !.origin = url]
  BY <1>4 DEF Checkout
<1>5. CASE \E url \in URLs : edited = [before EXCEPT !.upstream = url]
  BY <1>5 DEF Checkout
<1> QED BY <1>1, <1>2, <1>3, <1>4, <1>5 DEF Edited

LEMMA EditKeepsTypes ==
  ASSUME Typed, Edit
  PROVE  Typed'
<1>1. checkout' \in Checkout
  BY EditsKeepType DEF Typed, Edit
<1> QED BY <1>1 DEF Typed, Edit

\* Every variable keeps its type, and what is printed is always a sequence of
\* well-typed documents.
THEOREM TypeCorrect == Spec => []TypeOK
<1>1. Init => Typed
  <2> SUFFICES ASSUME Init PROVE Typed
    OBVIOUS
  <2>1. next \in 1 .. Len(Registry) + 1
    BY RegistryHasFive DEF Init
  <2>2. suite \in Suites /\ checkout \in Checkout
    BY VizorAssumption DEF Init
  <2>3. proven \subseteq [test : Tests, head : Commits]
    BY DEF Init
  <2> QED BY <2>1, <2>2, <2>3 DEF Init, Typed
<1>2. IInv /\ Typed /\ [Next]_vars => Typed'
  <2> SUFFICES ASSUME IInv, Typed, [Next]_vars PROVE Typed'
    OBVIOUS
  <2>1. CASE Start
    <3>1. 1 \in 1 .. Len(Registry) + 1
      BY RegistryHasFive
    <3> QED BY <2>1, <3>1 DEF Start, Typed
  <2>2. CASE RequireDirectory \/ RequireRevision \/ RequireOrigin
             \/ RequireCleanTree \/ FindCargo \/ ListTest
    <3>1. Fail => Typed'
      BY DEF Fail, Typed
    <3>2. \A label : GoTo(label) => Typed'
      BY DEF GoTo, Typed
    <3> QED BY <2>2, <3>1, <3>2 DEF RequireDirectory, RequireRevision, RequireOrigin,
               RequireCleanTree, FindCargo, ListTest, Require
  <2>3. CASE RunTest
    BY <2>3, RunTestKeepsTypes DEF IInv
  <2>4. CASE PrintRows
    BY <2>4 DEF PrintRows, Typed
  <2>5. CASE Edit
    BY <2>5, EditKeepsTypes
  <2>6. CASE UNCHANGED vars
    BY <2>6 DEF vars, Typed
  <2> QED BY <2>1, <2>2, <2>3, <2>4, <2>5, <2>6 DEF Next, Inspect
<1>3. IInv /\ Typed => TypeOK
  <2> SUFFICES ASSUME IInv, Typed PROVE TypeOK
    OBVIOUS
  <2>1. \A i \in DOMAIN printed : printed[i] \in LegacyClientDocument
    BY RowsAreDocuments DEF IInv, Shape, Output
  <2> QED BY <2>1 DEF IInv, Shape, Stages, Typed, TypeOK
<1> QED BY <1>1, <1>2, <1>3, Invariance, PTL DEF Spec
=============================================================================
