-------------------------- MODULE ComponentStatus --------------------------
(***************************************************************************)
(* scripts/check-components (and scripts/inspect, the same with three      *)
(* constant lines): one process that reads every component of the lock,    *)
(* five Git queries apart, while the world and bootstrap may move.         *)
(***************************************************************************)
EXTENDS World, ComponentStatusModel

VARIABLES
  spc,     \* the query about to run
  slock,   \* the components parsed when the inspection started
  sindex,  \* the component being inspected
  probe,   \* the answers read so far of the current component
  report,  \* the states of the components already inspected
  exit,    \* how the last inspection ended
  ssince   \* history: interventions when the inspection started

inspection == <<spc, slock, sindex, probe, report, exit, ssince>>

ProbeLabels ==
  {"worktree", "revision", "attached", "origin", "dirty", "upstream"}

Inspected == slock[sindex]
Seen == disk[Inspected.path]

NoProbe ==
  [ revision |-> Unborn, head |-> "unknown", origin |-> NoUrl,
    dirty |-> "clean", upstream |-> NoUrl ]

SGoto(next) == spc' = next /\ UNCHANGED <<slock, sindex, report, exit, ssince>>

SReport(state) ==
  /\ spc' = "next"
  /\ sindex' = sindex + 1
  /\ report' = Append(report, state)
  /\ probe' = NoProbe
  /\ UNCHANGED <<slock, exit, ssince>>

\* A query starts in a directory; it may fail, and then tells nothing.
Reads(command) == spc = command /\ IsDirectory(Seen)
Reading == UNCHANGED <<disk, served, edition, interventions>>

-----------------------------------------------------------------------------
LoadLock ==
  /\ spc = "idle"
  /\ sindex' = 1 /\ report' = <<>> /\ ssince' = interventions
  /\ IF Loads(Editions[edition])
     THEN spc' = "next" /\ exit' = "running" /\ slock' = Parse(Editions[edition])
     ELSE spc' = "idle" /\ exit' = "lock_error" /\ slock' = <<>>
  /\ UNCHANGED <<world, probe>>

\* Mutant: whether the path exists is left to Git.
ProbePathAnyway ==
  /\ spc = "next" /\ sindex \in DOMAIN slock
  /\ SGoto("worktree") /\ UNCHANGED probe
  /\ UNCHANGED world

\* component.path.exists()
ProbePath ==
  /\ spc = "next" /\ sindex \in DOMAIN slock
  /\ IF Seen.kind = "absent"
     THEN SReport("absent")
     ELSE SGoto("worktree") /\ UNCHANGED probe
  /\ UNCHANGED world

ProbeWorktree ==
  /\ Reads("worktree")
  /\ \E ok \in Answers("probe_worktree") :
       /\ Count(ok)
       /\ IF ok /\ Seen.kind = "worktree"
          THEN SGoto("revision") /\ UNCHANGED probe
          ELSE SReport(IF IsConfigured(Inspected)
                       THEN "invalid_repository" ELSE "unconfigured")
  /\ Reading

ProbeRevision ==
  /\ Reads("revision")
  /\ \E ok \in Answers("probe_revision") :
       /\ Count(ok)
       /\ probe' = [probe EXCEPT !.revision = IF ok THEN Seen.head ELSE Unborn]
  /\ SGoto("attached") /\ Reading

ProbeAttached ==
  /\ Reads("attached")
  /\ \E ok \in Answers("probe_attached") :
       /\ Count(ok)
       /\ probe' = [probe EXCEPT
                      !.head = HeadState(ok /\ Seen.attached, probe.revision)]
  /\ SGoto("origin") /\ Reading

\* Mutant: the fallback of a failed query is the wrong word.
ProbeOriginUnknown ==
  /\ Reads("origin")
  /\ \E ok \in Answers("probe_origin") :
       /\ Count(ok)
       /\ probe' = [probe EXCEPT !.origin = IF ok THEN Seen.origin ELSE Unborn]
  /\ SGoto("dirty") /\ Reading

ProbeOrigin ==
  /\ Reads("origin")
  /\ \E ok \in Answers("probe_origin") :
       /\ Count(ok)
       /\ probe' = [probe EXCEPT !.origin = IF ok THEN Seen.origin ELSE NoUrl]
  /\ SGoto("dirty") /\ Reading

ProbeDirty ==
  /\ Reads("dirty")
  /\ \E ok \in Answers("probe_dirty") :
       /\ Count(ok)
       /\ probe' = [probe EXCEPT !.dirty = IF ok THEN DirtyState(Seen) ELSE "clean"]
  /\ SGoto("upstream") /\ Reading

\* The last query, then _state.
ProbeUpstream ==
  /\ Reads("upstream")
  /\ \E ok \in Answers("probe_upstream") :
       /\ Count(ok)
       /\ LET last == [probe EXCEPT !.upstream = IF ok THEN Seen.upstream ELSE NoUrl]
          IN SReport(IF IsConfigured(Inspected)
                     THEN StateOf(Inspected, last) ELSE "unconfigured")
  /\ Reading

\* subprocess.run cannot start in a missing path or in a regular file; main()
\* does not catch the OSError and prints no record at all.
ProbeTraceback ==
  /\ spc \in ProbeLabels /\ ~IsDirectory(Seen)
  /\ spc' = "idle" /\ exit' = "traceback" /\ report' = <<>> /\ probe' = NoProbe
  /\ UNCHANGED <<world, slock, sindex, ssince>>

\* StatusReport.exit_code
Report ==
  /\ spc = "next" /\ sindex \notin DOMAIN slock
  /\ spc' = "idle"
  /\ exit' = IF \A i \in DOMAIN slock : Acceptable(slock[i], report[i])
             THEN "zero" ELSE "one"
  /\ UNCHANGED <<world, slock, sindex, probe, report, ssince>>

Inspect ==
  \/ LoadLock \/ ProbePath \/ ProbeWorktree \/ ProbeRevision \/ ProbeAttached
  \/ ProbeOrigin \/ ProbeDirty \/ ProbeUpstream \/ ProbeTraceback \/ Report

InspectionInit ==
  /\ spc = "idle"
  /\ slock = <<>>
  /\ sindex = 1
  /\ probe = NoProbe
  /\ report = <<>>
  /\ exit = "none"
  /\ ssince = interventions

InspectionTypeOK ==
  /\ spc \in {"idle", "next"} \cup ProbeLabels
  /\ sindex \in Nat \ {0}
  /\ probe \in Probe
  /\ report \in Seq(ComponentStates)
  /\ exit \in {"none", "running", "zero", "one", "lock_error", "traceback"}
  /\ ssince \in [Paths -> Nat]
=============================================================================
