------------------------ MODULE ComponentBootstrap ------------------------
(***************************************************************************)
(* scripts/bootstrap and component_bootstrap.py: one process that takes    *)
(* the lock's components in order and brings each configured checkout to   *)
(* its pin, one Git command per step.  Around it the world moves: remotes  *)
(* publish, the operator works in the checkouts and edits the lock,        *)
(* commands fail and the process is killed and run again.                  *)
(***************************************************************************)
EXTENDS World, ComponentStatusModel

VARIABLES
  pc,      \* the command about to run
  lock,    \* the components parsed when the run started
  index,   \* the component being bootstrapped
  label,   \* changed_action: "cloned" or "updated"
  atPin,   \* head.output == component.revision, as read
  results, \* the actions of the components already done
  outcome, \* how the last run ended
  since,   \* history: interventions when the run started
  before   \* history: disk when the run started

\* rev-parse and symbolic-ref on a repository that answers other queries do
\* not fail for want of a process: a failing symbolic-ref is read as detached.
ASSUME AttachmentAssumption == "symref" \notin Flaky

run == <<pc, lock, index, label, atPin, results, outcome, since, before>>
vars == <<world, run>>

InCheckout ==  \* labels whose command runs with cwd = component.path
  { "worktree", "status", "origin", "upstream", "add_upstream", "resolve",
    "fetch", "resolve_again", "head", "symref", "checkout" }

Labels == {"idle", "next", "clone", "cloning"} \cup InCheckout

Current == lock[index]
Here == disk[Current.path]

-----------------------------------------------------------------------------
(***************************************************************************)
(* How a step ends.                                                        *)
(***************************************************************************)
Goto(next) == pc' = next /\ UNCHANGED <<index, results, outcome>>

\* An error leaves main() before anything is printed.
Stop(how) ==
  /\ pc' = "idle"
  /\ outcome' = how
  /\ results' = <<>>
  /\ UNCHANGED index

Raise == Stop("failed")

Proceed(good, next) == IF good THEN Goto(next) ELSE Raise

\* Mutant: the result replaces the earlier ones instead of joining them.
ReturnOnlyLast(action) ==
  /\ pc' = "next"
  /\ index' = index + 1
  /\ results' = action
  /\ UNCHANGED outcome

Return(action) ==
  /\ pc' = "next"
  /\ index' = index + 1
  /\ results' = Append(results, action)
  /\ UNCHANGED outcome

Write(checkout) == disk' = [disk EXCEPT ![Current.path] = checkout]

\* The command can be started: the path is a directory.
At(command) == pc = command /\ IsDirectory(Here)

Rest == UNCHANGED <<served, edition, interventions, lock, since, before>>
Query == Rest /\ UNCHANGED <<disk, label>>

-----------------------------------------------------------------------------
Load ==
  /\ pc = "idle"
  /\ index' = 1
  /\ results' = <<>>
  /\ since' = interventions
  /\ before' = disk
  /\ IF Loads(Editions[edition])
     THEN pc' = "next" /\ outcome' = "running" /\ lock' = Parse(Editions[edition])
     ELSE pc' = "idle" /\ outcome' = "failed" /\ lock' = <<>>
  /\ UNCHANGED <<world, label, atPin>>

Skip ==
  /\ pc = "next" /\ index \in DOMAIN lock
  /\ ~IsConfigured(Current)
  /\ Return("skipped")
  /\ Query /\ UNCHANGED <<faults, atPin>>

\* Mutant: a missing checkout is not told from one that exists.
FindCheckoutUpdated ==
  /\ pc = "next" /\ index \in DOMAIN lock
  /\ IsConfigured(Current)
  /\ label' = "updated"
  /\ Goto(IF Here.kind = "absent" THEN "clone" ELSE "worktree")
  /\ Rest /\ UNCHANGED <<disk, faults, atPin>>

\* component.path.exists()
FindCheckout ==
  /\ pc = "next" /\ index \in DOMAIN lock
  /\ IsConfigured(Current)
  /\ label' = IF Here.kind = "absent" THEN "cloned" ELSE "updated"
  /\ Goto(IF Here.kind = "absent" THEN "clone" ELSE "worktree")
  /\ Rest /\ UNCHANGED <<disk, faults, atPin>>

\* Mutant: what has appeared at the destination since is replaced.
BeginCloneOver ==
  /\ pc = "clone"
  /\ Write(EmptyClone(Current.repository)) /\ Goto("cloning")
  /\ Rest /\ UNCHANGED <<label, faults, atPin>>

\* git clone refuses a destination that has appeared since.
BeginClone ==
  /\ pc = "clone"
  /\ IF Here.kind = "absent"
     THEN Write(EmptyClone(Current.repository)) /\ Goto("cloning")
     ELSE UNCHANGED disk /\ Raise
  /\ Rest /\ UNCHANGED <<label, faults, atPin>>

\* git clone removes what it made when the transfer fails, and leaves it when
\* only the checkout of the files fails: as it does over files that somebody
\* has checked out since in the repository it is filling.
Cloned == FullClone(Here, served[Here.origin])

EndClone ==
  /\ pc = "cloning"
  /\ \E ok \in Answers("clone") :
       /\ Count(ok)
       /\ IF Here.kind # "worktree" \/ Here.origin = NoUrl
          THEN UNCHANGED disk /\ Raise
          ELSE IF ok /\ Here.head = Unborn
          THEN Write(Cloned) /\ Goto("worktree")
          ELSE /\ \E left \in {Absent, HalfWritten(Cloned)} :
                    (ok => left # Absent) /\ Write(left)
               /\ Raise
  /\ Rest /\ UNCHANGED <<label, atPin>>

\* rev-parse --is-inside-work-tree
CheckWorktree ==
  /\ At("worktree")
  /\ \E ok \in Answers("worktree") :
       Count(ok) /\ Proceed(ok /\ Here.kind = "worktree", "status")
  /\ Query /\ UNCHANGED atPin

\* Mutant: the output of git status is not looked at.
CheckStatusExitOnly ==
  /\ At("status")
  /\ \E ok \in Answers("status") :
       Count(ok) /\ Proceed(ok /\ StatusSucceeds(Here), "origin")
  /\ Query /\ UNCHANGED atPin

CheckStatus ==
  /\ At("status")
  /\ \E ok \in Answers("status") :
       Count(ok) /\ Proceed(ok /\ StatusIsEmpty(Here), "origin")
  /\ Query /\ UNCHANGED atPin

CheckOrigin ==
  /\ At("origin")
  /\ \E ok \in Answers("origin") :
       /\ Count(ok)
       /\ Proceed(ok /\ Here.origin = Current.repository,
                  IF Current.upstream = NoUrl THEN "resolve" ELSE "upstream")
  /\ Query /\ UNCHANGED atPin

\* A query that fails is taken for a remote that is not there.
CheckUpstream ==
  /\ At("upstream")
  /\ \E ok \in Answers("upstream") :
       /\ Count(ok)
       /\ IF ok /\ Here.upstream # NoUrl
          THEN Proceed(Here.upstream = Current.upstream, "resolve")
          ELSE Goto("add_upstream")
  /\ Query /\ UNCHANGED atPin

AddUpstream ==
  /\ At("add_upstream")
  /\ \E ok \in Answers("add_upstream") :
       /\ Count(ok)
       /\ IF ok /\ Here.kind = "worktree" /\ Here.upstream = NoUrl
          THEN /\ Write([Here EXCEPT !.upstream = Current.upstream])
               /\ Goto("resolve")
          ELSE UNCHANGED disk /\ Raise
  /\ Rest /\ UNCHANGED <<label, atPin>>

\* Mutant: the pin is never fetched.
ResolveWithoutFetch ==
  /\ At("resolve")
  /\ \E ok \in Answers("resolve") : Count(ok) /\ Goto("resolve_again")
  /\ Query /\ UNCHANGED atPin

\* rev-parse --verify <revision>^{commit}
Resolve1 ==
  /\ At("resolve")
  /\ \E ok \in Answers("resolve") :
       /\ Count(ok)
       /\ Goto(IF ok /\ Current.revision \in Here.objects
               THEN "resolve_again" ELSE "fetch")
  /\ Query /\ UNCHANGED atPin

FetchOrigin ==
  /\ At("fetch")
  /\ \E ok \in Answers("fetch") :
       /\ Count(ok)
       /\ IF ok /\ Here.kind = "worktree" /\ Here.origin # NoUrl
          THEN /\ Write(Fetched(Here, served[Here.origin]))
               /\ Goto("resolve_again")
          ELSE UNCHANGED disk /\ Raise
  /\ Rest /\ UNCHANGED <<label, atPin>>

\* Mutant: fetch again until the pin resolves.
ResolveOrFetchAgain ==
  /\ At("resolve_again")
  /\ \E ok \in Answers("resolve") :
       /\ Count(ok)
       /\ Goto(IF ok /\ Current.revision \in Here.objects THEN "head" ELSE "fetch")
  /\ Query /\ UNCHANGED atPin

Resolve2 ==
  /\ At("resolve_again")
  /\ \E ok \in Answers("resolve") :
       Count(ok) /\ Proceed(ok /\ Current.revision \in Here.objects, "head")
  /\ Query /\ UNCHANGED atPin

ReadHead ==
  /\ At("head")
  /\ \E ok \in Answers("head") :
       Count(ok) /\ atPin' = (ok /\ Here.head = Current.revision)
  /\ Goto("symref")
  /\ Query

\* Mutant: an attached HEAD at the pin is left attached.
ReadHeadOnly ==
  /\ At("symref")
  /\ \E ok \in Answers("symref") :
       /\ Count(ok)
       /\ IF atPin THEN Return("current") ELSE Goto("checkout")
  /\ Query /\ UNCHANGED atPin

\* symbolic-ref -q HEAD: a failure of any kind is read as a detached HEAD.
ReadAttachment ==
  /\ At("symref")
  /\ \E ok \in Answers("symref") :
       /\ Count(ok)
       /\ IF atPin /\ ~(ok /\ Here.attached)
          THEN Return("current") ELSE Goto("checkout")
  /\ Query /\ UNCHANGED atPin

\* Moving to the commit that is checked out already writes no file.
RewritesFiles ==
  CanDetach(Here, Current.revision) /\ Here.head # Peel(Current.revision)

\* Mutant: checkout --detach --force.
CheckoutPinForce ==
  /\ At("checkout")
  /\ \E ok \in Answers("checkout") :
       /\ Count(ok)
       /\ IF ok /\ CanDetach(Here, Current.revision)
          THEN /\ Write([Detached(Here, Current.revision) EXCEPT !.tree = "clean"])
               /\ Return(label)
          ELSE UNCHANGED disk /\ Raise
  /\ Rest /\ UNCHANGED <<label, atPin>>

\* checkout --detach <revision>: refused, or it may be when edits are in the
\* way, or done, or it dies and leaves some files written.
CheckoutPin ==
  /\ At("checkout")
  /\ \E ok \in Answers("checkout") :
       /\ Count(ok)
       /\ \/ /\ ok /\ CanDetach(Here, Current.revision)
             /\ Write(Detached(Here, Current.revision))
             /\ Return(label)
          \/ /\ ok => ~CanDetach(Here, Current.revision) \/ Here.tree = "dirty"
             /\ UNCHANGED disk /\ Raise
          \/ /\ ~ok /\ RewritesFiles
             /\ Write(HalfWritten(Here)) /\ Raise
  /\ Rest /\ UNCHANGED <<label, atPin>>

\* The operator removed the directory, or a file is at the path: the OSError
\* of subprocess.run is not caught by main().
Traceback ==
  /\ pc \in InCheckout /\ ~IsDirectory(Here)
  /\ Stop("traceback")
  /\ Query /\ UNCHANGED <<faults, atPin>>

Finish ==
  /\ pc = "next" /\ index \notin DOMAIN lock
  /\ pc' = "idle" /\ outcome' = "succeeded"
  /\ Query /\ UNCHANGED <<faults, atPin, index, results>>

\* The process and its Git child die.  A clone leaves nothing, an empty
\* repository or half of the files; a checkout may leave half of the files.
Kill ==
  /\ pc # "idle" /\ faults < MaxFaults
  /\ faults' = faults + 1
  /\ \/ UNCHANGED disk
     \/ pc = "cloning" /\ Here.kind = "worktree" /\ Here.origin # NoUrl
        /\ \E left \in {Absent, HalfWritten(Cloned)} : Write(left)
     \/ pc = "checkout" /\ RewritesFiles /\ Write(HalfWritten(Here))
  /\ Stop("killed")
  /\ Rest /\ UNCHANGED <<label, atPin>>

Bootstrap ==
  \/ Load \/ Skip \/ FindCheckout \/ BeginClone \/ EndClone \/ CheckWorktree
  \/ CheckStatus \/ CheckOrigin \/ CheckUpstream \/ AddUpstream \/ Resolve1
  \/ FetchOrigin \/ Resolve2 \/ ReadHead \/ ReadAttachment \/ CheckoutPin
  \/ Traceback \/ Finish

-----------------------------------------------------------------------------
RunInit ==
  /\ pc = "idle"
  /\ lock = <<>>
  /\ index = 1
  /\ label = "updated"
  /\ atPin = FALSE
  /\ results = <<>>
  /\ outcome = "none"
  /\ since = interventions
  /\ before = disk

Init == WorldInit /\ RunInit

Next == Bootstrap \/ Kill \/ (Environment /\ UNCHANGED run)

Spec == Init /\ [][Next]_vars

\* Git commands return and the operator keeps running bootstrap.  Nothing
\* obliges the world to publish, to intervene or to kill.
FairSpec == Spec /\ WF_vars(Bootstrap)

-----------------------------------------------------------------------------
RunTypeOK ==
  /\ pc \in Labels
  /\ lock \in Seq(ParsedComponent)
  /\ index \in Nat \ {0}
  /\ label \in {"cloned", "updated"}
  /\ atPin \in BOOLEAN
  /\ results \in Seq({"skipped", "current", "cloned", "updated"})
  /\ outcome \in {"none", "running", "succeeded", "failed", "traceback", "killed"}
  /\ since \in [Paths -> Nat]
  /\ before \in [Paths -> Checkout]

\* Every variable has its type.
TypeOK == WorldTypeOK /\ RunTypeOK

\* The operator has left the path alone since the run started.
Untouched(path) == interventions[path] = since[path]

Configured(components) ==
  {i \in DOMAIN components : IsConfigured(components[i])}

\* After a run that exits 0, every configured component whose pin is a commit
\* and whose checkout the operator left alone is healthy: cloned or moved,
\* clean, detached at the pin, with both remotes of the lock
\* (component_bootstrap.py, bootstrap_lock; README, "bootstrap").
HealthyAfterSuccess ==
  outcome = "succeeded" =>
    \A i \in Configured(lock) :
      Untouched(lock[i].path) /\ lock[i].revision \in Commits =>
        Healthy(lock[i], disk[lock[i].path])

\* The two scripts agree: what bootstrap took for done, one remote and one HEAD
\* at a time, the five probes and the classification of status call healthy
\* (component_bootstrap.py against _configured, _state of
\* component_status_inspect.py).
StatusAgrees ==
  outcome = "succeeded" =>
    \A i \in Configured(lock) :
      Untouched(lock[i].path) /\ lock[i].revision \in Commits =>
        ConfiguredState(lock[i], disk[lock[i].path]) = "healthy"

\* What a printed action says of the checkout before and after the run.
Tells(action, component, old, new) ==
  CASE action = "cloned" -> old.kind = "absent"
    [] action = "updated" ->
         old.kind = "worktree" /\ (old.attached \/ old.head # component.revision)
    [] action = "current" ->
         /\ old.kind = "worktree" /\ old.tree = "clean"
         /\ <<old.head, old.attached>> = <<new.head, new.attached>>
    [] action = "skipped" -> old = new

\* The actions a successful run prints are true of every checkout the
\* operator left alone, relative to the disk the run started from: "cloned"
\* was missing, "updated" was there and HEAD moved or was detached, "current"
\* was clean and detached at the pin before, and "skipped" was not looked at
\* (bootstrap_lock, render_bootstrap).
ResultsTellWhatChanged ==
  outcome = "succeeded" =>
    /\ Len(results) = Len(lock)
    /\ \A i \in DOMAIN lock :
         Untouched(lock[i].path) =>
           Tells(results[i], lock[i], before[lock[i].path], disk[lock[i].path])

-----------------------------------------------------------------------------
(***************************************************************************)
(* Why HealthyAfterSuccess holds: an inductive invariant in four parts,    *)
(* three of which hold beside other processes too.                         *)
(***************************************************************************)
\* The run's own state hangs together.
Shape ==
  /\ \A i, j \in DOMAIN lock : i # j => lock[i].path # lock[j].path
  /\ \A i \in Configured(lock) :
       lock[i].repository \in URLs /\ lock[i].revision \in Objects
  /\ pc \notin {"idle", "next"} => index \in Configured(lock)
  /\ pc \in {"upstream", "add_upstream"} => Current.upstream # NoUrl
  /\ pc # "idle" => outcome = "running"
  /\ outcome = "succeeded" => index \notin DOMAIN lock
  /\ \A path \in Paths : since[path] <= interventions[path]

AfterStatus == InCheckout \ {"worktree", "status"}
AfterOrigin == AfterStatus \ {"origin"}
AfterUpstream == AfterOrigin \ {"upstream", "add_upstream"}

\* What the commands so far have established of the current checkout, if its
\* path is one of "ours"; files may be half-written where it is "spoilt".
Evidence(ours, spoilt) ==
  pc \in InCheckout /\ Current.path \in ours =>
    /\ Here.kind # "absent"
    /\ pc # "worktree" => Here.kind = "worktree"
    /\ pc \in AfterStatus => Here.tree = "clean" \/ spoilt
    /\ pc \in AfterOrigin => Here.origin = Current.repository
    /\ pc \in AfterUpstream =>
         Here.upstream = Current.upstream \/ Current.upstream = NoUrl
    /\ pc = "symref" /\ atPin => Here.head = Current.revision

\* A checkout that bootstrap is done with; where the pin is a commit and
\* nothing is spoilt, it is healthy.
Settled(component, checkout, spoilt) ==
  /\ checkout.kind = "worktree"
  /\ checkout.head = Peel(component.revision)
  /\ ~checkout.attached
  /\ checkout.tree = "clean" \/ spoilt
  /\ checkout.origin = component.repository
  /\ component.upstream # NoUrl => checkout.upstream = component.upstream

\* The components already done are settled.
Done(ours, spoilt) ==
  pc # "idle" \/ outcome = "succeeded" =>
    \A i \in Configured(lock) :
      i < index /\ lock[i].path \in ours =>
        Settled(lock[i], disk[lock[i].path], spoilt)

\* Until git clone has fetched, there is an empty repository.
FreshClone(ours) ==
  pc = "cloning" /\ Current.path \in ours => Here = EmptyClone(Current.repository)

Sane == TypeOK /\ Shape
Knows(ours, spoilt) == Sane /\ Evidence(ours, spoilt) /\ Done(ours, spoilt)

\* The paths the operator has left alone since the run started.
Alone == {path \in Paths : Untouched(path)}

IInv ==
  /\ TypeOK /\ Shape
  /\ Evidence(Alone, FALSE) /\ Done(Alone, FALSE) /\ FreshClone(Alone)

\* The paths whose checkouts the run has looked into and not refused.
Vouched ==
  { lock[i].path : i \in
      { j \in Configured(lock) :
          \/ pc \in InCheckout /\ j = index
          \/ (pc # "idle" \/ outcome = "succeeded") /\ j < index } }

(***************************************************************************)
(* Why ResultsTellWhatChanged holds: two more parts.                       *)
(***************************************************************************)
\* The results of the components passed are true, and the ones to come are
\* as the run found them.
Told ==
  pc # "idle" \/ outcome = "succeeded" =>
    /\ index <= Len(lock) + 1
    /\ Len(results) = index - 1
    /\ \A i \in DOMAIN lock : Untouched(lock[i].path) =>
         /\ i < index =>
              Tells(results[i], lock[i], before[lock[i].path], disk[lock[i].path])
         /\ i > index \/ (i = index /\ pc = "next") =>
              disk[lock[i].path] = before[lock[i].path]

\* What the run remembers of the checkout in hand.
Known ==
  pc \notin {"idle", "next"} /\ Untouched(Current.path) =>
    LET old == before[Current.path] IN
    /\ pc \in {"clone", "cloning"} => label = "cloned"
    /\ label = "cloned" => old.kind = "absent" /\ (pc \in InCheckout => Here.attached)
    /\ label = "updated" =>
         /\ old.kind = Here.kind /\ old.tree = Here.tree
         /\ old.head = Here.head /\ old.attached = Here.attached
    /\ pc = "symref" => (atPin <=> Here.head = Current.revision)
    /\ pc = "checkout" => Here.attached \/ Here.head # Current.revision

RInv == IInv /\ Told /\ Known

-----------------------------------------------------------------------------
\* README.md:15: "revision is the exact project commit to detach at".  After a
\* run that exits 0 every configured checkout the operator left alone has the
\* lock's revision as its detached HEAD, whatever object the pin names.
PinnedAfterSuccess ==
  outcome = "succeeded" =>
    \A i \in Configured(lock) :
      Untouched(lock[i].path) =>
        /\ disk[lock[i].path].head = lock[i].revision
        /\ ~disk[lock[i].path].attached

Conservative == INSTANCE ConservativeBootstrap WITH
  free    <- {path \in Paths : ~Untouched(path)},
  cloning <- IF pc = "cloning" THEN {Current.path} ELSE {}

\* Every step is one the README allows: a checkout that has edits, a broken
\* index or a foreign origin is left as it is, HEAD moves to the pin and
\* nowhere else, remotes and objects are kept (README.md:34).
IsConservative == Conservative!Spec

\* What anybody has put at a path survives every command of bootstrap and every
\* kill, also when it came after the tree was found clean and the remotes were
\* looked at: edits and a broken index stay as they are, a remote that is set
\* stays, no object is lost, and a file or a directory that is no repository is
\* not touched.  Only a clone in flight may be taken away.  (README.md:34: "It
\* refuses dirty trees and mismatched remotes rather than resetting, cleaning,
\* or force-checking out."  Nothing looks again before checkout --detach.)
WorkSurvives ==
  [][ interventions' = interventions =>
        \A path \in Paths :
          LET old == disk[path]
              new == disk'[path]
          IN /\ old.kind \in {"file", "plain"} => new = old
             /\ old.kind = "worktree" /\ (pc = "cloning" => path # Current.path) =>
                  /\ new.kind = "worktree"
                  /\ old.tree # "clean" => new.tree = old.tree
                  /\ new.origin = old.origin
                  /\ old.upstream # NoUrl => new.upstream = old.upstream
                  /\ old.objects \subseteq new.objects ]_vars

\* A run always comes to an end: exit 0, exit 1 or death.
RunsEnd == (pc # "idle") ~> (pc = "idle")

\* What bootstrap refuses to repair by itself.
Refused(component, checkout) ==
  \/ checkout.kind \in {"file", "plain"}
  \/ /\ checkout.kind = "worktree"
     /\ \/ checkout.tree # "clean"
        \/ checkout.origin # component.repository
        \/ /\ component.upstream # NoUrl
           /\ checkout.upstream \notin {NoUrl, component.upstream}
  \/ component.revision \notin checkout.objects \cup served[component.repository]

\* Run again and again, once failures and changes have stopped, bootstrap
\* brings to health every component that no refused component precedes in
\* the lock, whatever earlier runs left half done.  (But for Git's own lock
\* files: a command that finds an index.lock of a killed one is refused until
\* somebody removes it.  A failure here is one of MaxFaults, it does not last.)
Converges ==
  LET target == Parse(Editions[edition])
      Reached(i) == \A j \in Configured(target) :
                      j <= i => ~Refused(target[j], disk[target[j].path])
  IN <>[]( Loads(Editions[edition]) =>
             \A i \in Configured(target) :
               Reached(i) => Healthy(target[i], disk[target[i].path]) )
=============================================================================
