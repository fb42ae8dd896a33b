---------------------------- MODULE MCWorkspace ----------------------------
(***************************************************************************)
(* The scripts together in the small world.                                *)
(***************************************************************************)
EXTENDS MCWorld, Workspace

LinuxHost == [unavailable |-> FALSE, override |-> "unset", just |-> TRUE]
MacHost == [unavailable |-> TRUE, override |-> "unset", just |-> TRUE]
OverriddenHost == [MacHost EXCEPT !.override = "executable"]
BrokenHost == [MacHost EXCEPT !.override = "broken"]
BareHost == [LinuxHost EXCEPT !.just = FALSE]
AllHosts == {LinuxHost, MacHost, OverriddenHost, BrokenHost, BareHost}

OneHost == {LinuxHost}

\* bootstrap beside one of its readers; a host matters to the observer only.
BesideBootstrap == {{"bootstrap", "status"}, {"bootstrap", "observer"}}
StatusAlone == {{"status"}}
MCInit == WorkspaceInit /\ ("observer" \in running \/ host = LinuxHost)
MCSpec == MCInit /\ [][WorkspaceNext]_workspace

\* A pinned checkout, and the same with an index that has been damaged.
PinnedClone ==
  [OldClone EXCEPT !.head = c2, !.attached = FALSE, !.upstream = up,
                   !.objects = {c1, c2}]
\* The same still on its branch.
BranchClone == [PinnedClone EXCEPT !.attached = TRUE]
StatusStart == FileOrPlain \cup {BranchClone}
DamagedClones == {PinnedClone, [PinnedClone EXCEPT !.tree = "unreadable"]}
=============================================================================
