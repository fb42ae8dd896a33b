# Verification of the Zcash Privacy Stack scripts

This directory holds TLA+ models of the Python scripts in `scripts/`, the TLC
configurations that check them on small instances, and TLAPS proofs of what
matters most for every instance. The source is the reference: each definition
is translated from the lines that `PROJECT.json` ("map") gives for it.

    tlc -workers 2 -config BootstrapSafety.cfg MCBootstrap.tla
    tlapm ComponentBootstrapProofs.tla

## 1. Inventory

The repository keeps no service and no database. It is a set of short-lived
command-line programs. What makes them hard is that they share, without any
lock, state that they do not own: Git checkouts that an operator edits, remotes
that publish, and a lock file that changes between runs.

| Component | Source | State it keeps | Operations |
|---|---|---|---|
| component lock | `component_lock.py` | none; a parsed tuple of components | `load_component_lock` |
| git commands | `component_git.py` | none; the checkouts are on disk | `run_git`, `query_git`, `is_git_repository` |
| bootstrap | `component_bootstrap.py` | the checkouts, by way of Git | one process, up to a dozen Git commands per component |
| component status | `component_status_inspect.py`, `component_status_model.py` | none; reads | five queries per component, a fold, an exit status |
| zakura observer | `inspect_zakura.py` | none; reads, then runs a child | two queries, three preconditions, the child |
| legacy client contract | `legacy_client_contract.py`, `legacy_client_schema_rules.py` | none; a record type | validation, twice: as code and as JSON Schema |
| vizor cargo evidence | `legacy_client_adapter_runtime.py`, `vizor_evidence.py` | none; reads a checkout, runs tests | preflight, then list and run for five tests |
| legacy client adapters | `legacy_client_adapters.py`, `zodl_source_evidence.py` | none | ten rows per client |
| legacy client command | `inspect_legacy_client.py` | none | build everything, then print |
| delayed admission runner | `delayed_admission_runner.py` | an immutable value per call | `admit`, `retry`, `release`, `poll_status` |
| privacy contract validation | `privacy_contract_validation.py`, `_semantics.py`, `_schema.py`, `_types.py`, `_json.py` | none; reads a document, a schema and the clock | load both, structure, typed boundary, meaning, freshness, in this order |
| interface schemas | `interfaces/*.schema.json` of the policy, the capabilities and the canonical-read manifest | none; read by the validation | sections, fields, rules, conditions |
| privacy contract commands | `privacy_contract_commands.py` and two emitters | none | argument parser, exit status, two constant outputs |
| protocol, packaging, tests | `interfaces/private-admission.proto`, `Dockerfile`, `justfile`, `tests/` | none | not programs of their own |

**How they interact.** Bootstrap, status and the observer each parse
`components.lock.toml` on their own, at their own moment, and then run Git in
the same sibling directories. Status is meant to describe what bootstrap did
and the observer is meant to run only on what bootstrap prepared; nothing but
the directories connects them. The legacy command runs Cargo in another sibling
checkout (Vizor), which bootstrap does not manage; its rows go through the contract, whose
checked JSON Schema other readers use instead of the code. `policy-validate`
reads a policy file that people edit, a shipped schema and the clock, each at
its own moment.

**What is hard.**
- A process dies, or a Git command fails, between any two of bootstrap's
  commands; the next run has to make sense of what is left (an empty clone, a
  half-written tree, a remote already added).
- Bootstrap acts on what it read: the status it read before a fetch, the HEAD
  it read before a checkout; what an operator has put there since, no command
  looks at again.
- The pin may not be published yet; fetch happens once.
- Five queries of status are not one snapshot; two queries of the observer
  are followed by a child that runs for minutes.
- The lock file is edited between, and during, runs.
- A filtered `cargo test` that matches nothing succeeds.
- Two independent encodings of the same rules must accept the same records.
- An immutable value may be used after a later one was made from it.
- Nothing keeps two terminals from running bootstrap at once.
- A schema library reports a missing conditional field in places where it was
  not asked for, and the validation drops what it takes for such a report: it
  must never drop the only one.
- Document, schema and clock are read one after the other, and each may have
  moved; two boundaries (schema, typed models) and a set of rules behind them
  must accept what the contract describes.

`PROJECT.json` ("hazards") gives each at its line, with the properties that
would catch it, or the reason why none does.

**What makes each correct.**
- lock: what loads has distinct canonical paths and complete components.
- bootstrap: success means healthy; it never destroys what an operator has;
  it finishes what an earlier run left; its printed actions are true.
- status: agrees with bootstrap; exit 0 is true when it is printed; a path it
  finds missing, or not a repository, is a record and not a crash.
- observer: what is inspected is the pin that the preamble names.
- contract: model and schema agree; a private endpoint needs evidence.
- evidence: a row that claims execution is backed by a test that ran.
- legacy command: ten rows or none.
- delayed admission: each value tells its own history.
- privacy contracts: valid means what the contract says, of one document and
  one instant; no schema error is dropped to nothing; a window closes once.
- arguments: an accepted command line has one meaning, whatever its order.

## 2. Modules

| Module | Models | Extends |
|---|---|---|
| `Checkouts` | a checkout, and what each Git command answers and does to it (external) | |
| `ComponentLock` | the document as tomllib returns it, what loads, what it parses to | `Checkouts` |
| `World` | disk, remotes, lock editions, the operator, failures | `ComponentLock` |
| `ComponentStatusModel` | the fold of five answers into a state, the states into an exit status; `Healthy`, the README's condition | `ComponentLock` |
| `ComponentBootstrap` | one action per Git command of bootstrap, kill, traceback; its properties | `World`, `ComponentStatusModel` |
| `ConservativeBootstrap` | abstract specification: what bootstrap may do to a checkout | `ComponentLock` |
| `ComponentStatus` | status, one action per query | `World`, `ComponentStatusModel` |
| `ZakuraInspection` | the observer, one action per check, and its child | `World` |
| `Workspace` | composition: the three scripts interleave over one world | the three above |
| `LegacyClientContract` | record type, both rule sets, the rows of the adapters, the human timeline | |
| `ContractReader` | a reader that validates records | `LegacyClientContract` |
| `LegacyClientInspection` | preflight, list, run, print, with the operator editing | `Checkouts`, `LegacyClientContract` |
| `DelayedAdmission` | the four methods on every value still alive | |
| `TwoBootstraps` | composition: two bootstraps interleave over one world | `ComponentBootstrap`, twice |
| `ContractSchemas` | the three schemas as tables, and the errors the library (external) finds | |
| `PrivacyContracts` | the normalisation of those errors, the typed boundary, the semantic rules | `ContractSchemas` |
| `ContractValidation` | one validation after another, one action per stage, with edits and a clock | `PrivacyContracts` |
| `CommandArguments` | the two argument parsers, one option per step | |
| `WorkspaceProofs` | theorems of the composition | `Workspace`, `ComponentBootstrapProofs` |
| `TwoBootstrapsProofs` | two at once: the lemmas of a single run, and their instance for the second process | `TwoBootstraps`, `ComponentBootstrapProofs` |
| `ComponentBootstrapProofs` (the refinement included), `LegacyClientContractProofs`, `LegacyClientInspectionProofs`, `DelayedAdmissionProofs`, `ContractValidationProofs`, `CommandArgumentsProofs` | theorems | the module of the name |
| `MCWorld`, `MCBootstrap`, `MCTwoBootstraps`, `MCWorkspace`, `MCContract`, `MCLegacyClient`, `MCDelayedAdmission`, `MCContracts`, `MCCommandArguments` | instances for TLC | |

### Bootstrap

`pc` names the Git command about to run. A command of the source is one
action, its guard and outcome those of the `if` around it: `CheckWorktree`,
`CheckStatus`, `CheckOrigin`, `CheckUpstream` and `AddUpstream`, `Resolve1`,
`FetchOrigin`, `Resolve2`, `ReadHead`, `ReadAttachment`, `CheckoutPin`. Cloning
is two steps, `BeginClone` and `EndClone`, because a clone that dies leaves
something behind. `label` and `atPin` are the local variables
`changed_action` and `head.output == component.revision`: they are read at one
step and used at a later one, when the world may have moved. Between any two
steps `Publish`, `Intervene` and `EditLock` of `World` may happen, and `Kill`.
`Traceback` is the uncaught `OSError` of `subprocess.run` when the working
directory is gone.

History variables, which the code does not have: `since` and `before`
(interventions and disk when the run started; `ssince` and `zsince` for the
readers), `crossed` in `Workspace` (readers under which bootstrap has written
for another lock), `touched` and `proven` in `LegacyClientInspection`, `calls`
in `DelayedAdmission`. Properties about "the operator left it alone" compare
`interventions` with `since`.

`EndClone` fails where `HEAD` is no longer the unborn one that `BeginClone`
left: somebody else has checked out in the directory meanwhile, and Git
refuses to write over what it finds there.

### Two bootstraps

The first process has the variables of `ComponentBootstrap`; the second is an
INSTANCE of the same module with variables of its own over the same disk,
remotes and lock file. `OnlyClonesInterfere` says what one process can do to
what the other has finished. Health once reached is kept: a bootstrap of the
same lock finds everything done. The exception it names is a behaviour of the
code: a process that finds the repository the other is *still cloning into*
takes it for a checkout, fetches, detaches it at the pin and exits 0; the
clone then fails over the files it finds, with a dirty tree and an exit 1. Both
are repaired, or refused for the dirty tree, by a later run (`Converges`).

### Privacy contracts

A JSON document is a function from locations (paths of field names) to leaves;
a leaf has a type, the class of its text and a number. `ContractSchemas` has a
record per section of a schema with its required fields and the rule of each
field, and the list of `if`/`then` conditions; `Errors` is what the library
reports. `PrivacyContracts` follows the source from there: `NormalizeError`
and `RequiredIssues` turn errors into issues and drop the conditional ones whose
switch is not on; `PassesTypedBoundary` is the second reading, by the typed
models, which refuses some of what the schema accepts (an integer of thousands
of digits, a date with a final newline); the remaining operators are the
semantic rules, one for one.

`ContractValidation` is `validate_document` with a stage per action:
`LoadDocument`, `LoadSchema`, `CheckStructure`, `CheckSemantics` (where the
clock is read) and `Report`; `EditFile`, `EditSchema` and `Tick` come between
any two. `held`, `schemas`, `started` and `phase` are history variables.
`Compatible` is the contract in its own words, without errors and issues: its
versions and digests are what the patterns describe, with nothing after them
(`PatternsMatchWhole`). `VerdictIsOfOneReading` compares every verdict with it,
of the document `Chomped`: Python's `$` overlooks a final newline, and so far
the verdict is lenient. Where the documents forbid it, for versions,
`MalformedVersionsAreRejected` says so and is violated (finding 3).

### Abstractions

- A raw path is known by what it resolves to and a raw revision by the object
  it names after `lower()`; `MCWorld` has two spellings of one path and an
  upper-case revision.
- A document carries the facts the parser tells apart (it parses, its keys,
  its version, each table's set of fields and their kinds). The text of errors
  is left out: any error is exit 1.
- A tree is clean, dirty or unreadable; `plain` stands for a directory that is
  not a repository and not empty.
- The lock files that Git may leave when it is killed (`index.lock`,
  `config.lock`) are not part of a checkout here. A command that meets one is
  refused again and again until somebody removes the file; a failure by
  `Answers` is one of at most `MaxFaults`. The safety theorems hold for every
  `MaxFaults` and so of such a checkout, too. `Converges` does not: it is about
  kills that leave no lock file.
- A refusal of `git checkout` because edits are in the way is a choice.
- Rows of the legacy contract keep the fields that the rules constrain; free
  text, the release string and the format version are left out. Human and
  JSONL output differ in text only: rendering follows construction, and every
  row has been validated then.
- What a Rust test of a commit does is a constant of the machine (`suite`),
  what an edited tree's test does is a choice.

## 3. Runs

`MCWorld` has two paths, two commits and a tag, three URLs and four initial
clones of interest. Its locks exercise the two kinds of component, a change of
pin, a component that becomes configured, and a duplicate path.

| Run | Question | Result |
|---|---|---|
| `BootstrapSafety` | Is exit 0 true? Are the printed actions? Does status agree? Is every write one that the README allows? Does work that came after the checks survive? | `TypeOK`, `HealthyAfterSuccess`, `StatusAgrees`, `ResultsTellWhatChanged` hold; `IsConservative` holds: refinement of `ConservativeBootstrap`; `WorkSurvives` holds: nothing an operator puts at a path, at any moment of a run, is taken away |
| `BootstrapLiveness` | Does it end, and do repeated runs repair? | `RunsEnd`, `Converges` hold |
| `TwoBootstraps` | What do two at once do to each other, and do they still finish? | `BothTypeOK`, `OnlyClonesInterfere`, `Converges` hold |
| `ReadersBesideBootstrap` | Is status's exit 0 true beside a working bootstrap? When does status print no record? Is the observer's child at the pin, and what exits 0? | `WorkspaceTypeOK`, `StatusZeroIsTrue`, `TracebackOnlyOverAFile`, `ObservesThePin` hold |
| `LegacyClient` | Is printed evidence grounded, the matrix whole? | `TypeOK`, `ClaimsAreGrounded`, `AllOrNothing` hold |
| `ContractParity` | Do the two rule sets agree? | `SchemaMirrorsModel`, `PrivateEndpointNeedsEmpirical` hold |
| `DelayedAdmission` | Does every value tell its own history? | `ValuesTellTheirHistory` holds |
| `Contracts` | Is a verdict what the contract says, of one reading? Is anything dropped? | `TypeOK`, `SuppressionHidesNothing`, `VerdictIsOfOneReading`, `ConditionalIssuesAreTrue`, `WindowsOnlyClose` hold |
| `CommandArguments` | Which command lines are accepted, and as what? | `TypeOK`, `AcceptsTheGrammar`, `LastOptionWins` hold |
| `BootstrapTag` | README.md:15, the pin is what HEAD is at | violated, finding 1 |
| `StatusZero` | component_status_model.py:100, zero only when every required component is healthy | violated, finding 2 |
| `VersionNewline` | docs/INTERFACE_VERSIONING.md:24, a malformed version is rejected | violated, finding 3 |

**Bounds.** `Editions` (two or three successive lock documents), `MaxFaults`
(failures and kills in a behaviour), `MaxInterventions` (changes the operator
makes of each checkout), `MaxEdits`, `MaxValues`.
- Two components are enough for bootstrap: it treats them one after the other
  and they interact only by one failing before the other and by the duplicate
  path. Both happen.
- One fault and one intervention per path reach every window; two faults reach
  a retry that fails again and a kill during repair (`BootstrapLiveness`,
  without interventions).
- `MaxInterventions` is 0 in the composed runs: there bootstrap is the
  writer that moves under the readers, and its kills leave half-written trees.
- `Teams` says which scripts of `Workspace` run in one behaviour (`running`):
  bootstrap with status, or bootstrap with the observer. The two readers write
  nothing, so what one sees does not depend on the other.
- `TwoBootstraps` has one component, with an upstream and a pin published
  late, and one failure or kill: what two processes do to each other they do in
  one directory. For safety the theorem of section 4 covers every number of
  components, failures, kills and interventions; for liveness the bound stands.
- `Contracts`: every single edit of every field of each example, to every
  value its rule or a rule of another field tells apart, and every pair of
  edits of the fields the cross-field rules read. Each of these documents is
  checked once in a still world; eight files are also edited (`MaxEdits`) and
  checked again and again while the clock passes (`Horizon`) from before the
  window to after it. `OnlyFewMove` is the ACTION_CONSTRAINT that separates the
  two. It is an action constraint of the search, not of the model.
- `CommandArguments`: the longest request of `policy-validate` has four
  arguments, lines of six repeat any option; four arguments make two pairs of
  the inspection, so an option can be given twice and a value can be an option.
- `MaxEdits = 2` allows a checkout to leave the pin and to return.
- Four values make chains of three calls and stale branches.
- `Flaky` names the commands that may fail without cause. Four reads are not
  among them: `head` and `symref` of bootstrap (the source reads a failing
  `symbolic-ref` as a detached HEAD; on a repository whose other queries
  answered it fails only then), `probe_dirty` and `probe_attached` of status
  for the same reason. An index that cannot be read is a state of the tree and
  is covered, by finding 2.

**Fairness.** `FairSpec` states `WF_vars(Bootstrap)`, and `FairBothSpec` the
same of each of two terminals; no other specification states any. Git commands
return and the operator starts bootstrap again after it ended. There is no
timeout in the code, so a Git command that hangs hangs bootstrap; the model
does not claim otherwise. Publication, edits, kills and failures are never
obliged to happen. `Converges` says what repeated runs reach in the state the
world finally stays in, and names what bootstrap refuses (`Refused`); the
`HalfWritten` tree of a killed checkout is refused too, which is the code's
choice: only the operator can tell it from edits.

`DelayedAdmission`, `ContractParity` and `CommandArguments` switch deadlock
checking off: the bounded number of values is used up, a reader stops at its
verdict and a parser at its outcome. So does `Contracts`, for documents that
`OnlyFewMove` has checked once.

### Findings

1. **An annotated tag as pin** (`BootstrapTag`). `component_bootstrap.py:83`
   only asks whether the pin resolves through `^{commit}`; the id of a tag
   object does. Bootstrap exits 0, HEAD is another id than the lock's
   `revision`, and every later status says `revision_mismatch` and exits 1.
   The other properties of bootstrap are stated for pins that are commits.
2. **A failing `git status` is clean** (`StatusZero`).
   `component_status_inspect.py:173` looks at the output only. A checkout with
   a damaged index is reported healthy with exit 0, while bootstrap and the
   observer refuse it, and `DirtyState` has `UNKNOWN` for the case.
3. **A version that ends in a newline** (`VersionNewline`). The pattern of the
   schemas ends in `$`, which in Python also matches before a final newline, and
   `_version_issues` looks at what stands before the first dot: `"1.0.0\n"` is
   accepted. `docs/INTERFACE_VERSIONING.md:24` has a malformed version rejected,
   and its line 22 says what a version looks like.

### Observed, without a run

Three behaviours are in the model that a reader may not expect, and no run
refutes a document with them.
- A regular file at a component path makes `subprocess.run` raise
  `NotADirectoryError`, which nobody catches: status prints no record of any
  component. `TracebackOnlyOverAFile` says that nothing else has this effect, as
  long as the operator leaves the path alone and no clone is taken back.
- `path.resolve()` stands before the guarded read (`ResolveLoop`). On Python
  3.11 and 3.12 it raises `RuntimeError` for a symbolic link to itself, which
  ends `policy-validate` with a traceback and no report.
- `--at 20260601T00Z` is taken for an instant; `README.md:52` says RFC 3339.

## 4. Proofs

All proofs are checked by TLAPS to the last leaf; they assume only the named
assumptions on the constants: `ObjectsAssumption`, `RawAssumption`,
`WorldAssumption`, `AttachmentAssumption`, `DocumentsAssumption`, `MaxValuesAssumption`,
`ValidationAssumption`, `VizorAssumption`, `ArgumentsAssumption`. Each is
evaluated by TLC in the runs. `AttachmentAssumption`, that `symbolic-ref` of
bootstrap does not fail by itself, stands behind `IInv` and so behind every
theorem about bootstrap, alone, twice or beside readers. Two theorems name
commands that must not be `Flaky`, in their statement.

**Bootstrap** (`ComponentBootstrapProofs`). `HealthyAfterSuccess` is not
inductive: it says nothing of a run in progress. `IInv` adds four parts.
- `Shape`: what the parsed lock guarantees and how `pc`, `index` and `outcome`
  hang together. Distinct paths come from `UniquePaths` (lemma `LockParses`);
  without them a later component could undo an earlier one, the reason for
  the duplicate check in `component_lock.py`.
- `Evidence(ours, spoilt)`: what the commands so far have established of the
  checkout in hand, command by command.
- `Done(ours, spoilt)`: the components already passed are `Settled`, which for a
  commit as pin is healthy (`SettledIsHealthy`).
- `FreshClone(ours)`: until `git clone` has fetched there is an empty repository.

All but `Shape` speak of a set `ours` of paths, those nobody else interfered
with, and say whether files there may be `spoilt`, left half-written by a
command that failed. So the lemmas of a step (`LoadKeeps` ... `KillKeeps`, put
together in `CommandKeeps`) are proved once and serve a run beside an operator
(`IInv`, where `ours` is `Alone` and nothing is spoilt), a run beside readers
and each of two runs at once. The helper lemmas (`GotoKeeps`, `ReturnKeeps`,
`QueryIsOnlyHere`, `WriteIsOnlyHere`) reduce each to the current path.

`Invariance` proves `Spec => []IInv`; `TypeCorrect` and `SuccessIsHealthy` follow.
`BootstrapAndStatusAgree` adds `HealthyIsReported`: a healthy checkout is
classified healthy by the fold of status. These hold for every number of
components, documents, failures, kills and interventions. TLC checks `IInv` and
the `RInv` of the next paragraph on the instance of `BootstrapSafety` (1,862,616
states) and `BothKnow` below on that of `TwoBootstraps` (264,956 states); the
configurations keep the properties they stand for.

`PrintedActionsAreTrue` needs an invariant of its own, `RInv`: `Told` says that
the results so far are true of what the run found (`before`) and what there is
now, `Known` what `label` and `atPin` say of the checkout in hand. Its
hypothesis is that `rev-parse HEAD` is not `Flaky`: where it fails at the pin,
bootstrap detaches what was detached and prints `updated`.

`WorkIsKept` proves `WorkSurvives`, for every path and moment, those the
operator works in included: the abstract specification leaves a path free once
somebody has touched it, `WorkSurvives` does not. It is a fact about single
commands (`CommandSpares`, from `BootstrapWrites`): what is written is a clone,
where nothing was, or a repair, and a repair that dies half-way makes a tree
dirty only where it could be read.

`BootstrapIsConservative` is the refinement:
under `IInv` a step writes one checkout as `WritingStep` allows, repairs it, ends
a clone, or leaves the disk alone. `Evidence` supplies the abstract guard
`Safe`: every command that writes an existing checkout comes after the status
and the origin have been read (`CheckedIsSafe`).

**Two bootstraps** (`TwoBootstrapsProofs`). `BootstrapsDoNotInterfere` proves
`OnlyClonesInterfere`, and `BothTypeCorrect` the types. The invariant `BothKnow`
says of each process what it `Knows` of its `Ours`, the paths that no operator
edited and that it did not find half-cloned, and relates the two:
- `SameLock`: in the first edition both have loaded the same components.
- `NoCloneUnder`: neither is cloning where the other vouches for what is there
  (`Vouched`: the checkout in hand once it has been found, and those passed).

What one process does to the other is a single fact: a command, unless it clones,
only mends the checkout in hand (`CommandMends`, from `BootstrapWrites`). A
`Mended` checkout keeps its kind, origin and, where no command failed, its tree;
its upstream stays or becomes the component's; its HEAD stays or is detached at
the pin. Mending takes no knowledge away (`OthersKeep`), so every step of one
process keeps what the other knows (`FirstStepKeeps`, `SecondStepKeeps`). What
is left is the clone in flight, and there `NoCloneUnder` says that the path is a
crossed one, the exception the property names. The lemmas for the second process are `ComponentBootstrapProofs` instantiated with
its variables; the `Same...` lemmas say that this instance and the one that
`TwoBootstraps` runs have the same meaning, which the provers do not see
through INSTANCE on their own.

**The scripts together** (`WorkspaceProofs`). `BootstrapWrites`
(`ComponentBootstrapProofs`) splits what bootstrap can write into clones and
repairs. Clones begin where nothing is and
end where HEAD was unborn (`CloneIsEmpty`: until git clone has fetched, the
operator has nothing to check out there). So `PinStays`: where HEAD is at
the pin, no command of a bootstrap of the same lock changes kind, head, origin,
tree or an upstream that is there, nor attaches HEAD. This is what both readers
live on, since both read HEAD first:
- `ObserverRunsAtThePin`, from `ZEvidence`: what `_require_checkout` has
  established, check by check, still holds until the observer exits 0.
- `ZeroIsTrue`, from `SEvidence`: once the revision read is the pin, each answer
  in `probe` stays true of the checkout (`Supported`), hence each record
  "healthy" already in `report` does (`Held`). It assumes that `probe_attached`
  and `probe_dirty` are not `Flaky`, because the source reads their failure
  as a good answer.

`TypesHold` gives the types of all variables, without that hypothesis, and so
does `TracebackNeedsAFile` (`TracebackOnlyOverAFile`), from `Present`: what
status has found at a path stays there, since only a clone that fails takes
something away (`OnlyAFailureRemoves`).

**Contract** (`LegacyClientContractProofs`). `Parity`: on every well-typed
document the code's rules and the schema's accept the same; it is split into
the execution rules and the evidence rules, after `DefaultedKeeps` (a missing
`unavailable_reason` counts as null). `SchemaMirrors` and
`PrivateEndpointIsEarned` carry it to the reader.

**Inspection** (`LegacyClientInspectionProofs`). `ClaimsAreGrounded` speaks of
what is printed; `IInv` adds what stands behind it before. `Shape` says how
`pc`, `client` and `next` hang together. `Preflight` says what the commands so
far have established unless the operator edited the checkout: it is at the pin,
of the pinned origin, clean, and every test before `next` has passed at the pin.
`Output` carries this over `PrintRows`. `Invariance` has a lemma per group of
actions; `PrintedClaimsAreGrounded` and `MatrixIsWhole` follow for every suite,
machine and number of edits. `RowsAreAccepted`: the contract refuses no row an
adapter can build, so no inspection fails on its own rows.

**Delayed admission** (`DelayedAdmissionProofs`). `HistoriesAreTold`: the
invariant is inductive with the type; one lemma per method says that the value
it returns tells the extended call history.

**Privacy contracts** (`ContractValidationProofs`). `SuppressionIsSafe`: for
every document, with any leaves at any locations, the normalised issues are
none only where there is no schema error. An error is dropped only
where the switch is not known to be on (`DroppedErrors`); only a condition asks
for such a field (`DroppedByCondition`), and it holds of what is absent, too:
so the section of the switch is missing or ill-typed, or the switch is, and that
is an error of its own, which is never dropped (`MissingSectionIsReported`).
`SemanticsSeeNoErrors` carries it to every run: at the stage of the
semantic rules `loaded` has no schema errors (`SuppressionHidesNothing`).

`VerdictCorrect` (`VerdictIsOfOneReading`) has two layers.
- The operators: `ValidationMeansCompatible` says that errors, typed boundary
  and semantic rules together leave no issue exactly where the document,
  `Chomped`, is `Compatible`, the contract in its own words. No rule tells a
  version or a digest from the same with a final newline (`RulesAreBlind`,
  `ChompSatisfies`). It goes section by section
  (`SectionErrorsMean`), field by field (`FieldErrorsMean`, `RulesMean`) and
  condition by condition (`ConditionalErrorsMean`), then through the semantic
  rules (`VersionMeans`, `DelaysMean`, `PolicyIssuesMean`, `DatesMean` ...).
- The runs: `Founded` is the inductive invariant, one lemma per stage. `Stage`
  says that document and schema are ones the files have held since the run
  began, `Judged` that the issues are those of one such document at one
  instant: it was not loaded, it was refused by its structure, or its meaning
  was weighed when the clock was read. Time may go on after that (`JudgedStays`).

`ConditionalCorrect` (`ConditionalIssuesAreTrue`): a conditional field is reported
missing exactly where the document's own switch is on and the field is absent. `WindowsCorrect` (`WindowsOnlyClose`, an action
property) needs `PhaseIsOfThePast`: the phase last reported was that of an
instant no later than the one at hand, and windows only close as time passes
(`WindowsCloseInTime`). All hold for documents with any leaves at any locations,
any number of items in a list and any undeclared fields; the run has a few.

**Argument parsers** (`CommandArgumentsProofs`). The invariant `ParserKnows`
compares the request with the part of the line that has been parsed (`Position`).
- `policy-validate`: while parsing, the request `Accounts` for that part: its
  path, flag and instant have each a place there, and nothing else is there. A
  line that is refused spells no request (`Refusals`), for no line accounts for
  two (`OneReading`). `PolicyGrammar` states `AcceptsTheGrammar`.
- The inspection: after k pairs the request `Says` what the last use of each
  option among them says (`Counts`); one bad pair spoils the line (`BadPair`).
  `LegacyGrammar` states `LastOptionWins`.

Lines may have any length and any arguments.

**Only model-checked:** liveness (`RunsEnd`, `Converges`), which TLAPS here does
not reach: fairness is stated with ENABLED. Every invariant and action property of
a passing run, and the refinement, has a theorem. No module
has a RECURSIVE operator, and no proof needed an induction over data: command
lines and matrices are described by places and quantifiers.

## 5. Not modelled

- `policy-example` and `interface-summary`: the first prints a shipped file
  with constants, the second constants; they keep no state.
- The order and the data of the rendered issues, the wording of errors, the
  text of the human format.
- The instant in which a second clone finds the directory the first is just
  creating: `mkdir` decides it within Git.
- The rejection of ill-typed fields of a legacy record, its format version and
  its free text.
- The private admission protocol, node, gateway and wallet: documents and code
  of other repositories.
- `Dockerfile`, `justfile` (but for the recipes' use of the scripts),
  packaging: no control of their own.

## 6. Plan

The order followed so far: the shared world and lock, bootstrap with its
invariant and the abstract specification, status and observer, their
composition, the legacy contract, the evidence and the delayed admission; then
the privacy contracts, the argument parsers, and two bootstraps at once.

Every safety property has its proof. What could still be added, in order:

1. `ResultsTellWhatChanged` for two bootstraps at once: which exceptions the
   printed actions need when the other process repairs first.
2. The composition of a validation with the arguments it was asked by, so that
   `policy-validate` is one behaviour from command line to exit status.
3. The ill-typed fields of a legacy record, which both encodings reject first.
