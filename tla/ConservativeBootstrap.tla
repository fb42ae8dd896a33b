------------------------ MODULE ConservativeBootstrap ------------------------
(***************************************************************************)
(* What README.md promises of bootstrap: it clones missing configured      *)
(* siblings and detaches them at their pins; it refuses dirty trees and    *)
(* mismatched remotes rather than resetting, cleaning or force-checking    *)
(* out.  Nothing here says how, in which order or in how many commands.    *)
(***************************************************************************)
EXTENDS ComponentLock

CONSTANT InitialCheckouts

VARIABLES
  disk,    \* [Paths -> Checkout]
  lock,    \* the components bootstrap works from
  free,    \* paths changed by others since it took the lock
  cloning  \* the paths it has created and not filled yet: at most one

vars == <<disk, lock, free, cloning>>

Init ==
  /\ disk \in [Paths -> InitialCheckouts]
  /\ lock = <<>>
  /\ free = {}
  /\ cloning = {}

\* A checkout of the locked repository with nothing in it to lose.
Safe(component, checkout) ==
  /\ checkout.kind = "worktree"
  /\ checkout.tree = "clean"
  /\ checkout.origin = component.repository

\* The remotes keep what they have; a missing upstream may be added.
RemotesKept(component, before, after) ==
  /\ after.origin = before.origin
  /\ \/ after.upstream = before.upstream
     \/ before.upstream = NoUrl /\ after.upstream = component.upstream

\* HEAD stays, or goes to the pin, detached.
HeadKeptOrPinned(component, before, after) ==
  \/ after.head = before.head /\ after.attached = before.attached
  \/ after.head = Peel(component.revision) /\ ~after.attached

\* Only a safe checkout is changed, and no object is lost.
Repair(component) ==
  LET before == disk[component.path]
      after  == disk'[component.path]
  IN /\ Safe(component, before)
     /\ after.kind = "worktree"
     /\ RemotesKept(component, before, after)
     /\ HeadKeptOrPinned(component, before, after)
     /\ before.objects \subseteq after.objects
     /\ UNCHANGED cloning

BeginClone(component) ==
  /\ disk[component.path].kind = "absent"
  /\ disk'[component.path] = EmptyClone(component.repository)
  /\ cloning' = {component.path}

\* A clone ends with nothing at the path or a checkout of the repository.
EndClone(component) ==
  /\ component.path \in cloning
  /\ disk'[component.path] = Absent \/ disk'[component.path].origin = component.repository
  /\ cloning' = {}

Advance ==
  \E i \in DOMAIN lock :
    /\ IsConfigured(lock[i])
    /\ \A path \in Paths \ {lock[i].path} : disk'[path] = disk[path]
    /\ \/ lock[i].path \in free
       \/ Repair(lock[i])
       \/ BeginClone(lock[i])
       \/ EndClone(lock[i])
    /\ UNCHANGED <<lock, free>>

TakeLock ==
  /\ cloning = {}
  /\ free' = {}
  /\ UNCHANGED <<disk, cloning>>

\* The run stops, or a clone it had begun turns out to be complete.
Stop == cloning' = {} /\ UNCHANGED <<disk, lock, free>>

Others ==
  \E path \in Paths :
    /\ \A other \in Paths \ {path} : disk'[other] = disk[other]
    /\ free' \in {free, free \cup {path}}
    /\ disk'[path] # disk[path] => path \in free'
    /\ UNCHANGED <<lock, cloning>>

Next == Advance \/ TakeLock \/ Stop \/ Others

Spec == Init /\ [][Next]_vars
=============================================================================
