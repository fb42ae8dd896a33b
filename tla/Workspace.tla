----------------------------- MODULE Workspace -----------------------------
(***************************************************************************)
(* The scripts at work together.  bootstrap, status and the Zakura         *)
(* observer share the checkouts and the lock file and nothing keeps them   *)
(* apart: each takes its own copy of the lock, and their Git commands      *)
(* interleave with one another and with the operator.                      *)
(***************************************************************************)
EXTENDS ComponentBootstrap, ComponentStatus, ZakuraInspection

CONSTANT Teams  \* the sets of scripts that may be in use at the same time

ASSUME TeamsAssumption == Teams \subseteq SUBSET {"bootstrap", "status", "observer"}

VARIABLES
  running,  \* the scripts in use: bootstrap, status, observer
  crossed   \* history: the readers that bootstrap has written under,
            \* since they started, on behalf of another lock

workspace == <<world, run, inspection, observer, running, crossed>>

\* The lock each reader took.
ReaderLock == [reader \in {"status", "observer"} |->
                 IF reader = "status" THEN slock ELSE zlock]

BootstrapStep ==
  /\ "bootstrap" \in running
  /\ Bootstrap \/ Kill
  /\ crossed' = crossed \cup
       {reader \in {"status", "observer"} :
          disk' # disk /\ lock # ReaderLock[reader]}
  /\ UNCHANGED <<inspection, observer, running>>

StatusStep ==
  /\ "status" \in running
  /\ Inspect
  /\ crossed' = IF spc = "idle" THEN crossed \ {"status"} ELSE crossed
  /\ UNCHANGED <<run, observer, running>>

ObserverStep ==
  /\ "observer" \in running
  /\ Observe
  /\ crossed' = IF zpc = "idle" THEN crossed \ {"observer"} ELSE crossed
  /\ UNCHANGED <<run, inspection, running>>

EnvironmentStep ==
  /\ Environment
  /\ UNCHANGED <<run, inspection, observer, running, crossed>>

WorkspaceInit ==
  /\ WorldInit /\ RunInit /\ InspectionInit /\ ObserverInit
  /\ running \in Teams
  /\ crossed = {}

WorkspaceNext == BootstrapStep \/ StatusStep \/ ObserverStep \/ EnvironmentStep

WorkspaceSpec == WorkspaceInit /\ [][WorkspaceNext]_workspace

-----------------------------------------------------------------------------
WorkspaceTypeOK ==
  /\ WorldTypeOK /\ RunTypeOK /\ InspectionTypeOK /\ ObserverTypeOK
  /\ running \in Teams
  /\ crossed \subseteq {"status", "observer"}

\* The five answers of a probe are read at five moments, and the records of a
\* report at as many more.  Still, when status exits 0 beside a bootstrap that
\* works from the same lock, every required checkout the operator left alone
\* is at that moment a checkout of the locked repository, detached at the pin,
\* with its upstream and no edits (_probe, _state, exit_code).  An index that
\* cannot be read is not noticed: see StatusZeroIsHealthy.
StatusZeroIsTrue ==
  spc = "idle" /\ exit = "zero" /\ "status" \notin crossed =>
    \A i \in Configured(slock) :
      LET checkout == disk[slock[i].path]
      IN slock[i].required /\ interventions[slock[i].path] = ssince[slock[i].path] =>
           /\ checkout.tree # "dirty"
           /\ Healthy(slock[i], [checkout EXCEPT !.tree = "clean"])

\* component_status_model.py:100: "Return zero only when every required
\* component is healthy.", where dirty is "The working-tree state returned by
\* Git." (line 45).  When status exits 0 every required checkout is healthy.
StatusZeroIsHealthy ==
  spc = "idle" /\ exit = "zero" =>
    \A i \in Configured(slock) :
      slock[i].required => Healthy(slock[i], disk[slock[i].path])

\* status prints its records or none of them: a query that cannot start ends
\* it with a traceback.  That happens only over a regular file, or where a
\* clone or a query has failed since: a path that status has seen does not
\* vanish beside a bootstrap whose clones succeed, and a missing path or a
\* plain directory is a record like another (_probe, inspect_components).
TracebackOnlyOverAFile ==
  spc = "idle" /\ exit = "traceback" =>
    LET path == slock[sindex].path
    IN interventions[path] = ssince[path] => disk[path].kind = "file" \/ faults > 0

\* The preamble with its node_commit is on standard output before anything is
\* checked; it is exit 0 that makes it a result.  While the observer's child
\* runs, and when the observer has exited 0, be it with "execution=complete" or
\* with "unavailable", the checkout the operator left alone is at that commit
\* and clean, even beside a bootstrap of the same lock: the checks of
\* _require_checkout still hold after the window in which nothing is checked.
ObservesThePin ==
  /\ "observer" \notin crossed
  /\ zpc \in {"run", "child"} \/ (zpc = "idle" /\ status = "zero")
  /\ interventions[Node.path] = zsince[Node.path]
  => Tree.head = Node.revision /\ Tree.tree = "clean"
=============================================================================
