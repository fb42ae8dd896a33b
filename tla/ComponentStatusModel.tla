------------------------ MODULE ComponentStatusModel ------------------------
(***************************************************************************)
(* scripts/component_status_inspect.py and component_status_model.py, the  *)
(* part that computes: the five Git answers of a probe are folded into one *)
(* component state, and the states into an exit status.                    *)
(***************************************************************************)
EXTENDS ComponentLock

\* The state names of ComponentState that a configured component can get.
ConfiguredStates ==
  { "healthy", "absent", "invalid_repository", "revision_mismatch", "dirty",
    "upstream_absent", "upstream_mismatch", "origin_absent",
    "origin_mismatch", "attached_head", "unknown" }

ComponentStates == ConfiguredStates \cup {"unconfigured"}

\* A remote that is not configured is reported ABSENT (NoUrl here), a HEAD
\* that does not resolve UNKNOWN (Unborn here).
Probe ==
  [ revision : Commits \cup {Unborn},
    head     : {"detached", "attached", "unknown"},
    origin   : URLs \cup {NoUrl},
    dirty    : {"clean", "dirty"},
    upstream : URLs \cup {NoUrl} ]

HeadState(attached, revision) ==
  IF attached THEN "attached"
  ELSE IF revision # Unborn THEN "detached" ELSE "unknown"

\* Only the output of git status is looked at: a command that failed printed
\* nothing and counts as clean.
DirtyState(checkout) ==
  IF StatusSucceeds(checkout) /\ checkout.tree = "dirty"
  THEN "dirty" ELSE "clean"

\* What the five queries of _probe answer when nothing moves between them.
ProbeOf(checkout) ==
  [ revision |-> checkout.head,
    head     |-> HeadState(checkout.attached, checkout.head),
    origin   |-> checkout.origin,
    dirty    |-> DirtyState(checkout),
    upstream |-> checkout.upstream ]

-----------------------------------------------------------------------------
CheckoutState(component, probe) ==
  CASE probe.revision = Unborn -> "unknown"
    [] probe.revision # Unborn /\ probe.revision # component.revision ->
         "revision_mismatch"
    [] probe.revision = component.revision /\ probe.revision # Unborn ->
         IF probe.dirty = "dirty" THEN "dirty" ELSE "healthy"

OriginState(component, probe) ==
  IF probe.origin = NoUrl THEN "origin_absent"
  ELSE IF probe.origin # component.repository THEN "origin_mismatch"
  ELSE "healthy"

\* Mutant: a component without an upstream may have none on disk.
UpstreamStateOfAll(component, probe) ==
  IF probe.upstream = component.upstream THEN "healthy"
  ELSE IF probe.upstream = NoUrl THEN "upstream_absent"
  ELSE "upstream_mismatch"

UpstreamState(component, probe) ==
  IF component.upstream = NoUrl \/ probe.upstream = component.upstream
  THEN "healthy"
  ELSE IF probe.upstream = NoUrl THEN "upstream_absent"
  ELSE "upstream_mismatch"

\* Mutant: an attached HEAD passes.
StateOfAnyHead(component, probe) ==
  IF CheckoutState(component, probe) # "healthy"
  THEN CheckoutState(component, probe)
  ELSE IF OriginState(component, probe) # "healthy"
  THEN OriginState(component, probe)
  ELSE UpstreamState(component, probe)

StateOf(component, probe) ==
  IF CheckoutState(component, probe) # "healthy"
  THEN CheckoutState(component, probe)
  ELSE IF OriginState(component, probe) # "healthy"
  THEN OriginState(component, probe)
  ELSE IF probe.head = "attached" THEN "attached_head"
  ELSE UpstreamState(component, probe)

\* _configured on a checkout that stands still (a regular file raises).
ConfiguredState(component, checkout) ==
  IF checkout.kind = "absent" THEN "absent"
  ELSE IF checkout.kind # "worktree" THEN "invalid_repository"
  ELSE StateOf(component, ProbeOf(checkout))

\* is_acceptable.
Acceptable(component, state) ==
  IF component.required THEN state = "healthy"
  ELSE state \in {"absent", "healthy", "unconfigured"}

-----------------------------------------------------------------------------
(***************************************************************************)
(* The condition the README gives for a bootstrapped component, said       *)
(* without the code: a clean checkout of the locked repository, detached   *)
(* at the locked commit, with the locked upstream.                         *)
(***************************************************************************)
Healthy(component, checkout) ==
  /\ checkout.kind = "worktree"
  /\ checkout.head = component.revision
  /\ ~checkout.attached
  /\ checkout.tree = "clean"
  /\ checkout.origin = component.repository
  /\ component.upstream # NoUrl => checkout.upstream = component.upstream
=============================================================================
