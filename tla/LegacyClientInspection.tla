----------------------- MODULE LegacyClientInspection -----------------------
(***************************************************************************)
(* inspect_legacy_client.py: for Vizor the preflight of the checkout, then *)
(* each registered Rust test listed and run, then every row built, checked *)
(* against the contract and printed at once; for Zodl the rows alone.  The *)
(* operator works in the checkout meanwhile.                               *)
(* (scripts/legacy_client_adapter_runtime.py, vizor_evidence.py,           *)
(* legacy_client_adapters.py.)                                             *)
(***************************************************************************)
EXTENDS Checkouts, LegacyClientContract

CONSTANTS
  VizorRevision,   \* VIZOR_PIN.revision
  VizorRepository, \* VIZOR_PIN.repository
  Suites,          \* sets of [Commits -> [tests -> state]]: what tests may do
  InitialCheckouts,\* what may be at the Vizor path
  MaxEdits         \* bound: edits of the checkout by the operator

\* VIZOR_RUST_EVIDENCE_REGISTRY: the claim names the test.
Registry ==
  << [test |-> "raw_bytes_preserved", scenario |-> "lost_response_retry"],
     [test |-> "duplicate_acceptance", scenario |-> "exact_retry"],
     [test |-> "lost_response_state_preserved", scenario |-> "lost_response_retry"],
     [test |-> "status_retry_classification",
      scenario |-> "transaction_status_reconciliation"],
     [test |-> "mempool_observation", scenario |-> "mempool_observation"] >>
Tests == {Registry[i].test : i \in DOMAIN Registry}
TestState == {"missing", "failing", "passing"}

ASSUME VizorAssumption ==
  /\ VizorRevision \in Commits
  /\ VizorRepository \in URLs
  /\ Suites \subseteq [Commits -> [Tests -> TestState]]
  /\ InitialCheckouts \subseteq Checkout
  /\ MaxEdits \in Nat

VARIABLES
  suite,    \* what the tests of each commit do on this machine; fixed
  checkout, \* the Vizor checkout
  edits,    \* the operator's edits so far
  client,   \* --client
  pc,       \* the next command
  next,     \* index of the registered test in hand
  exit,     \* "none", "zero", "one" or "traceback"
  printed,  \* the rows written to stdout
  touched,  \* history: the operator edited the checkout during this run
  proven    \* history: [test, head] of the tests that really ran and passed

vars == <<suite, checkout, edits, client, pc, next, exit, printed, touched, proven>>

-----------------------------------------------------------------------------
(***************************************************************************)
(* Cargo, as the adapter uses it.  A clean tree behaves as its commit, any *)
(* other as it likes; and cargo may fail for its own reasons (a dependency *)
(* is not in the offline cache, a build breaks).                           *)
(***************************************************************************)
StatesOf(test) ==
  IF checkout.kind # "worktree" \/ checkout.head \notin Commits THEN {}
  ELSE IF checkout.tree = "clean" THEN {suite[checkout.head][test]}
  ELSE TestState

\* cargo test <name> -- --exact --list exits 0 and lists the name.
MayList(test) == \E state \in StatesOf(test) : state # "missing"

\* cargo test <name> -- --exact exits 0: the test passed, or there was none.
MayPass(test) == "passing" \in StatesOf(test)
MayRunNothing(test) == "missing" \in StatesOf(test)

-----------------------------------------------------------------------------
Fail ==
  /\ exit' = "one"
  /\ pc' = "done"
  /\ UNCHANGED <<suite, checkout, edits, client, next, printed, touched, proven>>

GoTo(label) ==
  /\ pc' = label
  /\ UNCHANGED <<suite, checkout, edits, client, next, exit, printed, touched, proven>>

\* One command of the preflight: go on, or raise AdapterError.
Require(label, condition, following) ==
  /\ pc = label
  /\ IF condition THEN GoTo(following) ELSE Fail

Start ==
  /\ pc \in {"start", "done"}
  /\ client' \in {"vizor"} \cup DOMAIN SourceMapping
  /\ pc' = IF client' = "vizor" THEN "is_dir" ELSE "print"
  /\ next' = 1 /\ exit' = "none" /\ printed' = <<>>
  /\ touched' = FALSE /\ proven' = {}
  /\ UNCHANGED <<suite, checkout, edits>>

RequireDirectory == Require("is_dir", IsDirectory(checkout), "head")

\* A path that vanished answers 127; an unborn HEAD fails.
RequireRevision ==
  Require("head", checkout.kind = "worktree" /\ checkout.head = VizorRevision,
          "origin")

RequireOrigin ==
  Require("origin", checkout.kind = "worktree" /\ checkout.origin = VizorRepository,
          "status")

RequireCleanTree == Require("status", StatusIsEmpty(checkout), "cargo")

\* shutil.which("cargo").
FindCargo == pc = "cargo" /\ (GoTo("list") \/ Fail)

\* Mutant: a run that exits 0 is enough.
ListTestUnchecked ==
  /\ pc = "list"
  /\ GoTo("run")

ListTest ==
  /\ pc = "list"
  /\ \/ MayList(Registry[next].test) /\ GoTo("run")
     \/ Fail

\* Mutant: the loop does not end with the registry.
AdvanceNoEnd ==
  /\ next' = next + 1
  /\ pc' = "list"
  /\ UNCHANGED <<suite, checkout, edits, client, exit, printed, touched>>

Advance ==
  /\ next' = next + 1
  /\ pc' = IF next = Len(Registry) THEN "print" ELSE "list"
  /\ UNCHANGED <<suite, checkout, edits, client, exit, printed, touched>>

RunTest ==
  /\ pc = "run"
  /\ \/ /\ MayPass(Registry[next].test)
        /\ Advance
        /\ proven' = proven \cup {[test |-> Registry[next].test, head |-> checkout.head]}
     \/ /\ MayRunNothing(Registry[next].test)
        /\ Advance
        /\ UNCHANGED proven
     \/ Fail

Rows ==
  IF client = "vizor"
  THEN [i \in DOMAIN SCENARIO_REGISTRY |-> VizorResult(SCENARIO_REGISTRY[i])]
  ELSE [i \in DOMAIN SCENARIO_REGISTRY |->
          ZodlResult(SCENARIO_REGISTRY[i], SourceMapping[client][i])]

\* Every row is constructed, and so validated, before anything is written; a
\* row the contract refuses raises what nothing catches.
PrintRows ==
  /\ pc = "print"
  /\ pc' = "done"
  /\ IF \A i \in DOMAIN Rows : ModelAccepts(Rows[i])
     THEN exit' = "zero" /\ printed' = Rows
     ELSE exit' = "traceback" /\ UNCHANGED printed
  /\ UNCHANGED <<suite, checkout, edits, client, next, touched, proven>>

\* The operator edits the checkout.
Edit ==
  /\ edits < MaxEdits
  /\ edits' = edits + 1
  /\ checkout' \in Edited(checkout)
  /\ touched' = TRUE
  /\ UNCHANGED <<suite, client, pc, next, exit, printed, proven>>

Inspect == \/ RequireDirectory \/ RequireRevision \/ RequireOrigin
           \/ RequireCleanTree \/ FindCargo \/ ListTest \/ RunTest \/ PrintRows

Init ==
  /\ suite \in Suites
  /\ checkout \in InitialCheckouts
  /\ edits = 0 /\ client = "vizor" /\ pc = "start" /\ next = 1
  /\ exit = "none" /\ printed = <<>> /\ touched = FALSE /\ proven = {}

Next == Start \/ Inspect \/ Edit
Spec == Init /\ [][Next]_vars

-----------------------------------------------------------------------------
TypeOK ==
  /\ suite \in Suites
  /\ checkout \in Checkout
  /\ edits \in Nat
  /\ client \in {"vizor"} \cup DOMAIN SourceMapping
  /\ pc \in {"start", "is_dir", "head", "origin", "status", "cargo", "list",
             "run", "print", "done"}
  /\ next \in 1 .. Len(Registry) + 1
  /\ pc \in {"list", "run"} => next \in DOMAIN Registry
  /\ exit \in {"none", "zero", "one", "traceback"}
  /\ \A i \in DOMAIN printed : printed[i] \in LegacyClientDocument
  /\ touched \in BOOLEAN
  /\ proven \subseteq [test : Tests, head : Commits]

\* What a row says was executed: its grade, or a stage shown as observed.
Claims(row) ==
  \/ row.evidence_grade = "local_rust_unit"
  \/ \E code \in TimelineEventCode : HumanTimeline(row)[code] = "observed"

\* A printed row that claims execution is grounded: every test registered for
\* its scenario, and at least one, really ran and passed at the pin, in a clean
\* checkout of the pinned repository, unless the operator edited the checkout
\* during the run.  A filtered run of no test is never evidence
\* (run_vizor_cargo_evidence and the registry against _vizor_result).
ClaimsAreGrounded ==
  ~touched =>
    \A i \in DOMAIN printed : Claims(printed[i]) =>
      LET grounds == {k \in DOMAIN Registry : Registry[k].scenario = printed[i].scenario}
      IN /\ grounds # {}
         /\ \A k \in grounds : [test |-> Registry[k].test, head |-> VizorRevision] \in proven
         /\ checkout.origin = VizorRepository /\ checkout.tree = "clean"

\* A run prints the ten scenarios in registry order and exits 0, or prints
\* nothing and exits 1: no row an adapter builds is one the contract refuses,
\* and no failure leaves half a matrix (run_inspection).
AllOrNothing ==
  pc = "done" =>
    \/ /\ exit = "zero"
       /\ Len(printed) = Len(SCENARIO_REGISTRY)
       /\ \A i \in DOMAIN printed : printed[i].scenario = SCENARIO_REGISTRY[i]
    \/ exit = "one" /\ printed = <<>>
=============================================================================
