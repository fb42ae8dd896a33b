-------------------------- MODULE WorkspaceProofs --------------------------
(***************************************************************************)
(* What the two readers say stays true while bootstrap works under them,   *)
(* for any lock, world and bounds: HEAD at the pin is the fact that every  *)
(* later answer leans on, and no command of bootstrap takes it away.       *)
(***************************************************************************)
EXTENDS Workspace, ComponentBootstrapProofs

-----------------------------------------------------------------------------
(***************************************************************************)
(* What bootstrap writes.                                                  *)
(***************************************************************************)
\* Until git clone has fetched, there is nothing in the repository to check
\* out, for the operator neither.
CloneIsEmpty ==
  pc = "cloning" /\ Here.kind = "worktree" => Here.head = Unborn /\ Here.objects = {}

\* What a repair leaves of a checkout that is at the pin.
Keeps(old, new) ==
  /\ new.kind = old.kind /\ new.head = old.head /\ new.origin = old.origin
  /\ new.tree = old.tree
  /\ new.upstream = old.upstream \/ old.upstream = NoUrl
  /\ new.attached => old.attached

LEMMA RepairKeepsThePin ==
  ASSUME NEW after, Repairs(after), Here \in Checkout, Current.revision \in Objects,
         Here.head = Current.revision
  PROVE  Keeps(Here, after)
<1>1. Peel(Current.revision) = Current.revision
  BY ObjectsAssumption DEF Checkout, Objects, Peel
<1> QED BY <1>1 DEF Repairs, Keeps, Checkout, Fetched, Detached

\* A checkout at the pin of bootstrap's own lock stays there, with its
\* remotes and its files.
LEMMA PinStays ==
  ASSUME IInv, CloneIsEmpty, Bootstrap \/ Kill, NEW i \in Configured(lock),
         IsDirectory(disk[lock[i].path]), disk[lock[i].path].head = lock[i].revision
  PROVE  Keeps(disk[lock[i].path], disk'[lock[i].path])
<1>1. lock[i] \in ParsedComponent /\ lock[i].path \in Paths /\ i \in DOMAIN lock
      /\ lock[i].revision \in Objects
  <2>1. lock[i] \in ParsedComponent /\ i \in DOMAIN lock
    BY DEF IInv, TypeOK, RunTypeOK, Configured
  <2> QED BY <2>1 DEF ParsedComponent, IInv, Shape
<1>2. disk \in [Paths -> Checkout]
  BY DEF IInv, TypeOK, WorldTypeOK
<1>3. CASE UNCHANGED disk
  BY <1>3 DEF Keeps
<1>4. ASSUME index \in DOMAIN lock, NEW after, Write(after), Clones(after) \/ Repairs(after)
      PROVE  Keeps(disk[lock[i].path], disk'[lock[i].path])
  <2>1. Current \in ParsedComponent /\ Current.path \in Paths
    BY <1>4, CurrentFacts, RunIsSane
  <2>2. CASE i # index
    <3>1. lock[i].path # Current.path
      BY <1>1, <1>4, <2>2 DEF IInv, Shape, Current
    <3> QED BY <1>1, <1>2, <1>4, <3>1 DEF Write, Keeps
  <2>3. CASE i = index
    <3>1. Here = disk[lock[i].path] /\ Here.head = Current.revision /\ Here \in Checkout
          /\ Current.revision \in Objects /\ IsDirectory(Here)
      BY <1>1, <1>2, <2>3 DEF Here, Current
    <3>2. ~Clones(after)
      BY <3>1, ObjectsAssumption DEF Clones, CloneIsEmpty, IsDirectory
    <3>3. Keeps(Here, after)
      BY <1>4, <3>1, <3>2, RepairKeepsThePin
    <3>4. disk'[lock[i].path] = after
      BY <1>2, <1>4, <2>1, <2>3 DEF Write, Current
    <3> QED BY <3>1, <3>3, <3>4
  <2> QED BY <2>2, <2>3
<1> QED BY <1>3, <1>4, BootstrapWrites, RunIsSane DEF Mends

\* What is a repository, or nothing, does not become anything else.
LEMMA RepositoriesStay ==
  ASSUME IInv, Bootstrap \/ Kill, NEW path \in Paths,
         disk[path].kind \in {"worktree", "absent"}
  PROVE  disk'[path].kind \in {"worktree", "absent"}
<1>1. CASE UNCHANGED disk
  BY <1>1
<1>2. ASSUME index \in DOMAIN lock, NEW after, Write(after), Clones(after) \/ Repairs(after)
      PROVE  disk'[path].kind \in {"worktree", "absent"}
  <2>1. Here \in Checkout /\ Current.path \in Paths /\ disk \in [Paths -> Checkout]
    BY <1>2, CurrentFacts, RunIsSane DEF IInv, TypeOK, WorldTypeOK
  <2>2. ASSUME Clones(after) PROVE after.kind \in {"worktree", "absent"}
    <3>1. Cloned.kind = Here.kind
      BY <2>1 DEF Cloned, FullClone, Checkout
    <3>2. HalfWritten(Cloned).kind = Cloned.kind
      BY <2>1 DEF HalfWritten, Cloned, FullClone, Checkout
    <3>3. Absent.kind = "absent" /\ EmptyClone(Current.repository).kind = "worktree"
      BY DEF Absent, NotARepository, EmptyClone
    <3> QED BY <2>2, <3>1, <3>2, <3>3 DEF Clones
  <2>3. ASSUME Repairs(after) PROVE after.kind \in {"worktree", "absent"}
    BY <2>1, <2>3 DEF Repairs, HalfWritten, Fetched, Detached, Checkout
  <2>4. after.kind \in {"worktree", "absent"}
    BY <1>2, <2>2, <2>3
  <2> QED BY <1>2, <2>1, <2>4 DEF Write
<1> QED BY <1>1, <1>2, BootstrapWrites, RunIsSane DEF Mends

-----------------------------------------------------------------------------
(***************************************************************************)
(* Bootstrap's own invariant, among the readers.                           *)
(***************************************************************************)
Base == IInv /\ CloneIsEmpty

\* A reader counts failures and writes nothing.
LEMMA ReadersKeepBase ==
  ASSUME Base, UNCHANGED <<disk, served, edition, interventions, run>>, faults' \in Nat
  PROVE  Base'
BY UnseenKeeps DEF Base, run, Current, Here, CloneIsEmpty

LEMMA BootstrapKeepsBase ==
  ASSUME Base, Bootstrap \/ Kill
  PROVE  Base'
<1>1. IInv'
  BY StepKeeps DEF Base, Next
<1>2. CloneIsEmpty'
  <2> SUFFICES ASSUME pc' = "cloning" PROVE Here'.head = Unborn /\ Here'.objects = {}
    BY DEF CloneIsEmpty
  <2>1. /\ index \in DOMAIN lock /\ UNCHANGED <<lock, index>>
        /\ Write(EmptyClone(Current.repository))
    BY BootstrapWrites, RunIsSane DEF Base, Clones, Mends
  <2>2. Current.path \in Paths /\ disk \in [Paths -> Checkout]
    BY <2>1, CurrentFacts, RunIsSane DEF Base, IInv, TypeOK, WorldTypeOK
  <2>3. Here' = EmptyClone(Current.repository)
    BY <2>1, <2>2 DEF Write, Here, Current
  <2> QED BY <2>3 DEF EmptyClone
<1> QED BY <1>1, <1>2 DEF Base

LEMMA EnvironmentKeepsBase ==
  ASSUME Base, Environment, UNCHANGED run
  PROVE  Base'
<1>1. IInv'
  BY EnvironmentKeeps DEF Base
<1>2. CASE UNCHANGED disk
  BY <1>1, <1>2 DEF Base, CloneIsEmpty, Here, Current, run
<1>3. CASE Intervene
  <2> SUFFICES ASSUME pc = "cloning", Here'.kind = "worktree"
               PROVE  Here'.head = Unborn /\ Here'.objects = {}
    BY <1>1 DEF Base, CloneIsEmpty, run
  <2>1. index \in DOMAIN lock /\ Here \in Checkout /\ Current.path \in Paths
        /\ disk \in [Paths -> Checkout] /\ Current' = Current
    BY InRun, CurrentFacts, RunIsSane DEF Base, run, Current, IInv, TypeOK, WorldTypeOK
  <2>2. CASE Here' = Here
    BY <2>2 DEF Base, CloneIsEmpty
  <2>3. CASE Here' \in Edited(Here)
    <3>3. Here' \notin {Absent, NotARepository("file"), NotARepository("plain")}
      BY DEF Absent, NotARepository
    <3>1. Here.kind = "worktree"
      BY <2>3, <3>3 DEF Edited
    <3>2. Here.head = Unborn /\ Here.objects = {}
      BY <3>1 DEF Base, CloneIsEmpty
    <3>4. CASE \E tree \in {"clean", "dirty", "unreadable"} :
                 Here' = [Here EXCEPT !.tree = tree]
      BY <2>1, <3>2, <3>4 DEF Checkout
    <3>5. CASE \E url \in URLs : Here' = [Here EXCEPT !.origin = url]
                                \/ Here' = [Here EXCEPT !.upstream = url]
      BY <2>1, <3>2, <3>5 DEF Checkout
    <3> QED BY <2>3, <3>1, <3>2, <3>3, <3>4, <3>5 DEF Edited
  <2>4. Here' = Here \/ Here' \in Edited(Here)
    <3>1. PICK path \in Paths : \E checkout \in Edited(disk[path]) :
            disk' = [disk EXCEPT ![path] = checkout]
      BY <1>3 DEF Intervene
    <3> QED BY <2>1, <3>1 DEF Here
  <2> QED BY <2>2, <2>3, <2>4
<1> QED BY <1>2, <1>3 DEF Environment, Publish, EditLock

\* An intervention is counted, and changes only the path it is counted for.
LEMMA InterventionsCount ==
  ASSUME Base, Environment, NEW count \in [Paths -> Nat],
         \A path \in Paths : count[path] <= interventions[path]
  PROVE  /\ \A path \in Paths : count[path] <= interventions'[path]
         /\ \A path \in Paths : interventions'[path] = count[path] =>
              interventions[path] = count[path] /\ disk'[path] = disk[path]
<1>1. disk \in [Paths -> Checkout] /\ interventions \in [Paths -> Nat]
  BY DEF Base, IInv, TypeOK, WorldTypeOK
<1>2. CASE Intervene
  <2>1. PICK path \in Paths :
          /\ interventions' = [interventions EXCEPT ![path] = @ + 1]
          /\ \E checkout \in Edited(disk[path]) :
               disk' = [disk EXCEPT ![path] = checkout]
    BY <1>2 DEF Intervene
  <2> QED BY <1>1, <2>1
<1>3. CASE UNCHANGED <<disk, interventions>>
  BY <1>3
<1> QED BY <1>2, <1>3 DEF Environment, Publish, EditLock

-----------------------------------------------------------------------------
(***************************************************************************)
(* The observer.                                                           *)
(***************************************************************************)
\* What the lock guarantees a reader.
LockOK(components) ==
  /\ components \in Seq(ParsedComponent)
  /\ \A i \in Configured(components) :
       components[i].repository \in URLs /\ components[i].revision \in Objects

LEMMA LoadedLockIsOK ==
  ASSUME Base, Loads(Editions[edition])
  PROVE  LockOK(Parse(Editions[edition]))
<1>1. Editions[edition] \in Document
  BY WorldAssumption DEF Base, IInv, TypeOK, WorldTypeOK
<1> QED BY <1>1, LockParses DEF LockOK

LEMMA EmptyLockIsOK == LockOK(<<>>)
BY DEF LockOK, Configured

Completed == zpc = "idle" /\ status = "zero"

ZShape ==
  /\ LockOK(zlock)
  /\ zsince \in [Paths -> Nat]
  /\ \A path \in Paths : zsince[path] <= interventions[path]
  /\ zpc # "idle" \/ Completed => Observable(zlock)

\* What the checks so far have established, and still holds.
ZEvidence ==
  "observer" \notin crossed /\ interventions[Node.path] = zsince[Node.path] =>
    /\ zpc \in {"status", "tools", "run", "child"} \/ Completed =>
         IsDirectory(Tree) /\ Tree.head = Node.revision
    /\ zpc \in {"tools", "run", "child"} \/ Completed => Tree.tree = "clean"

ZInv == Base /\ ZShape /\ ZEvidence

\* The component observed is a configured one of the lock.
LEMMA NodeIsConfigured ==
  ASSUME LockOK(zlock), Observable(zlock)
  PROVE  \E i \in Configured(zlock) : Node = zlock[i] /\ Node.path \in Paths
<1>1. PICK i \in DOMAIN zlock :
        /\ zlock[i].name = Zakura
        /\ \A j \in 1 .. i - 1 : zlock[j].name # Zakura
        /\ IsConfigured(zlock[i])
  BY DEF Observable
<1>2. i \in ZakuraIndexes /\ \A j \in ZakuraIndexes : i <= j
  BY <1>1 DEF ZakuraIndexes, LockOK
<1> DEFINE least == CHOOSE k \in ZakuraIndexes : \A j \in ZakuraIndexes : k <= j
<1>3. least \in ZakuraIndexes /\ \A j \in ZakuraIndexes : least <= j
  BY <1>2
<1>4. least = i
  BY <1>2, <1>3 DEF ZakuraIndexes, LockOK
<1>5. i \in Configured(zlock) /\ zlock[i] \in ParsedComponent
  BY <1>1 DEF Configured, LockOK
<1> QED BY <1>4, <1>5 DEF Node, ParsedComponent

\* A step of the observer counts a failure at most, and writes nothing.
LEMMA ObserveReads ==
  ASSUME Base, Observe
  PROVE  UNCHANGED <<disk, served, edition, interventions>> /\ faults' \in Nat
<1>1. faults \in Nat
  BY DEF Base, IInv, TypeOK, WorldTypeOK
<1> QED BY <1>1 DEF Observe, LoadZakura, RequireHead, RequireClean, RequireTools,
      StartChild, ChildExits, ZakuraTraceback, Keep, Count, world

\* Nor does a step of status.
LEMMA InspectReads ==
  ASSUME Base, Inspect
  PROVE  UNCHANGED <<disk, served, edition, interventions>> /\ faults' \in Nat
<1>1. faults \in Nat
  BY DEF Base, IInv, TypeOK, WorldTypeOK
<1>2. CASE UNCHANGED world
  BY <1>1, <1>2 DEF world
<1>3. ASSUME Reading, NEW ok, Count(ok)
      PROVE  UNCHANGED <<disk, served, edition, interventions>> /\ faults' \in Nat
  BY <1>1, <1>3 DEF Reading, Count
<1>4. CASE LoadLock \/ ProbePath \/ ProbeTraceback \/ Report
  BY <1>2, <1>4 DEF LoadLock, ProbePath, ProbeTraceback, Report
<1>5. CASE ProbeWorktree
  BY <1>3, <1>5, Zenon DEF ProbeWorktree
<1>6. CASE ProbeRevision
  BY <1>3, <1>6, Zenon DEF ProbeRevision
<1>7. CASE ProbeAttached
  BY <1>3, <1>7, Zenon DEF ProbeAttached
<1>8. CASE ProbeOrigin
  BY <1>3, <1>8, Zenon DEF ProbeOrigin
<1>9. CASE ProbeDirty
  BY <1>3, <1>9, Zenon DEF ProbeDirty
<1>10. CASE ProbeUpstream
  BY <1>3, <1>10, Zenon DEF ProbeUpstream
<1> QED BY <1>4, <1>5, <1>6, <1>7, <1>8, <1>9, <1>10 DEF Inspect

LEMMA ObserverKeeps ==
  ASSUME ZInv, ObserverStep
  PROVE  ZShape' /\ ZEvidence'
<1>1. Observe
  BY DEF ObserverStep
<1>2. UNCHANGED <<disk, served, edition, interventions>>
  BY <1>1, ObserveReads DEF ZInv
<1>3. CASE LoadZakura
  <2>1. LockOK(zlock')
    <3>1. CASE Loads(Editions[edition])
      <4>1. zlock' \in {Parse(Editions[edition]), <<>>}
        BY <1>3 DEF LoadZakura
      <4> QED BY <3>1, <4>1, LoadedLockIsOK, EmptyLockIsOK DEF ZInv
    <3>2. CASE ~Loads(Editions[edition])
      BY <1>3, <3>2, EmptyLockIsOK DEF LoadZakura
    <3> QED BY <3>1, <3>2
  <2>2. interventions \in [Paths -> Nat]
    BY DEF ZInv, Base, IInv, TypeOK, WorldTypeOK
  <2>3. ZShape'
    <3>1. \A path \in Paths : zsince'[path] <= interventions'[path]
      BY <1>2, <1>3, <2>2 DEF LoadZakura
    <3>2. (zpc' # "idle" => Observable(zlock')) /\ ~Completed'
      BY <1>3 DEF LoadZakura, Completed
    <3>3. LockOK(zlock)' /\ zsince' \in [Paths -> Nat]
      BY <1>3, <2>1, <2>2 DEF LoadZakura, LockOK, Configured
    <3> QED BY <3>1, <3>2, <3>3 DEF ZShape, Observable
  <2>4. ZEvidence'
    BY <1>3 DEF LoadZakura, ZEvidence, Completed
  <2> QED BY <2>3, <2>4
<1>4. CASE ~LoadZakura
  <2>1. zpc # "idle" /\ UNCHANGED <<zlock, zsince, crossed>>
    BY <1>1, <1>4 DEF ObserverStep, Observe, RequireHead, RequireClean, RequireTools,
       StartChild, ChildExits, ZakuraTraceback, Keep
  <2>2. Node' = Node /\ Tree' = Tree
    BY <1>2, <2>1 DEF Node, Tree, ZakuraIndexes
  <2>3. Observable(zlock)
    BY <2>1 DEF ZInv, ZShape
  <2>4. ZShape'
    BY <1>2, <2>1, <2>3 DEF ZInv, ZShape, LockOK, Observable, Configured
  <2>5. ~Completed
    BY <2>1 DEF Completed
  <2>6. CASE RequireHead
    BY <2>4, <1>2, <2>1, <2>2, <2>3, <2>6 DEF RequireHead, ZProceed, ZGoto, Ends,
       ZEvidence, Completed
  <2>7. CASE RequireClean
    BY <2>4, <1>2, <2>1, <2>2, <2>3, <2>7 DEF RequireClean, ZProceed, ZGoto, Ends, ZInv, ZEvidence,
       Completed, StatusIsEmpty
  <2>8. CASE RequireTools
    BY <2>4, <1>2, <2>1, <2>2, <2>3, <2>8 DEF RequireTools, ZProceed, ZGoto, Ends, ZInv, ZEvidence,
       Completed
  <2>9. CASE StartChild
    BY <2>4, <1>2, <2>1, <2>2, <2>9 DEF StartChild, ZGoto, ZInv, ZEvidence, Completed
  <2>10. CASE ChildExits
    BY <2>4, <1>2, <2>1, <2>2, <2>10 DEF ChildExits, ZInv, ZEvidence, Completed
  <2>11. CASE ZakuraTraceback
    BY <2>4, <2>3, <2>11 DEF ZakuraTraceback, Ends, ZEvidence, Completed
  <2> QED BY <1>1, <1>4, <2>4, <2>6, <2>7, <2>8, <2>9, <2>10, <2>11 DEF Observe
<1> QED BY <1>3, <1>4

\* Bootstrap of the same lock keeps the checkout where the observer found it.
LEMMA BootstrapKeepsObserver ==
  ASSUME ZInv, BootstrapStep
  PROVE  ZShape' /\ ZEvidence'
<1>1. (Bootstrap \/ Kill) /\ UNCHANGED observer /\ UNCHANGED interventions
  BY DEF BootstrapStep, Bootstrap, Kill, Load, Skip, FindCheckout, BeginClone, EndClone,
     CheckWorktree, CheckStatus, CheckOrigin, CheckUpstream, AddUpstream, Resolve1,
     FetchOrigin, Resolve2, ReadHead, ReadAttachment, CheckoutPin, Traceback, Finish,
     Query, Rest, world
<1>2. Node' = Node /\ (Completed' <=> Completed)
  BY <1>1 DEF observer, Node, ZakuraIndexes, Completed
<1>3. ZShape'
  BY <1>1, <1>2 DEF ZInv, ZShape, observer, LockOK, Observable, Configured, Completed
<1>4. ZEvidence'
  <2> SUFFICES ASSUME "observer" \notin crossed', interventions[Node.path] = zsince[Node.path],
                      zpc # "idle" \/ Completed, IsDirectory(Tree), Tree.head = Node.revision
               PROVE  IsDirectory(Tree') /\ Tree'.head = Node.revision
                      /\ Tree'.tree = Tree.tree
    BY <1>1, <1>2 DEF ZInv, ZEvidence, observer, BootstrapStep
  <2>1. UNCHANGED disk \/ lock = zlock
    BY DEF BootstrapStep, ReaderLock
  <2>2. CASE UNCHANGED disk
    BY <1>2, <2>2 DEF Tree
  <2>3. CASE lock = zlock
    <3>1. PICK i \in Configured(lock) : Node = lock[i]
      BY <2>3, NodeIsConfigured DEF ZInv, ZShape
    <3>2. Keeps(disk[Node.path], disk'[Node.path])
      BY <1>1, <3>1, PinStays DEF ZInv, Base, Tree
    <3> QED BY <1>2, <3>2 DEF Keeps, Tree, IsDirectory
  <2> QED BY <2>1, <2>2, <2>3
<1> QED BY <1>3, <1>4

LEMMA EnvironmentKeepsObserver ==
  ASSUME ZInv, EnvironmentStep
  PROVE  ZShape' /\ ZEvidence'
<1>1. Environment /\ UNCHANGED <<observer, crossed>>
  BY DEF EnvironmentStep
<1>2. Node' = Node /\ (Completed' <=> Completed)
  BY <1>1 DEF observer, Node, ZakuraIndexes, Completed
<1>3. /\ \A path \in Paths : zsince[path] <= interventions'[path]
      /\ \A path \in Paths : interventions'[path] = zsince[path] =>
           interventions[path] = zsince[path] /\ disk'[path] = disk[path]
  BY <1>1, InterventionsCount DEF ZInv, ZShape
<1>4. ZShape'
  BY <1>1, <1>2, <1>3 DEF ZInv, ZShape, observer, LockOK, Observable, Configured, Completed
<1>5. ZEvidence'
  <2>1. CASE zpc # "idle" \/ Completed
    <3>1. Node.path \in Paths
      BY <2>1, NodeIsConfigured DEF ZInv, ZShape
    <3> QED BY <1>1, <1>2, <1>3, <3>1 DEF ZInv, ZEvidence, observer, Tree
  <2>2. CASE ~(zpc # "idle" \/ Completed)
    BY <1>1, <1>2, <2>2 DEF ZEvidence, observer
  <2> QED BY <2>1, <2>2
<1> QED BY <1>4, <1>5
LEMMA StatusKeepsObserver ==
  ASSUME ZInv, StatusStep
  PROVE  ZInv'
<1>1. Inspect /\ UNCHANGED <<run, observer>>
  BY DEF StatusStep
<1>2. UNCHANGED <<disk, served, edition, interventions>> /\ faults' \in Nat
  BY <1>1, InspectReads DEF ZInv
<1>3. Base'
  BY <1>1, <1>2, ReadersKeepBase DEF ZInv
<1>4. "observer" \notin crossed' => "observer" \notin crossed
  BY DEF StatusStep
<1>5. Node' = Node /\ (Completed' <=> Completed) /\ Tree' = Tree
  BY <1>1, <1>2 DEF observer, Node, Tree, ZakuraIndexes, Completed
<1>6. ZShape'
  BY <1>1, <1>2, <1>5 DEF ZInv, ZShape, observer, LockOK, Observable, Configured
<1>7. ZEvidence'
  BY <1>1, <1>2, <1>4, <1>5 DEF ZInv, ZEvidence, observer
<1> QED BY <1>3, <1>6, <1>7 DEF ZInv

LEMMA ObserverInitially == WorkspaceInit => ZInv
<1> SUFFICES ASSUME WorkspaceInit PROVE ZInv
  OBVIOUS
<1>1. IInv
  BY InitEstablishes DEF WorkspaceInit, Init
<1>2. CloneIsEmpty
  BY DEF WorkspaceInit, RunInit, CloneIsEmpty
<1>3. ZShape
  BY <1>1, EmptyLockIsOK DEF WorkspaceInit, ObserverInit, ZShape, Completed, IInv, TypeOK,
     WorldTypeOK
<1>4. ZEvidence
  BY DEF WorkspaceInit, ObserverInit, ZEvidence, Completed
<1> QED BY <1>1, <1>2, <1>3, <1>4 DEF ZInv, Base

LEMMA ObserverStutters == ZInv /\ UNCHANGED workspace => ZInv'
<1> SUFFICES ASSUME ZInv, UNCHANGED workspace PROVE ZInv'
  OBVIOUS
<1>1. Base'
  BY ReadersKeepBase DEF ZInv, workspace, world, Base, IInv, TypeOK, WorldTypeOK
<1>2. Node' = Node /\ (Completed' <=> Completed) /\ Tree' = Tree
  BY DEF workspace, world, observer, Node, Tree, ZakuraIndexes, Completed
<1>3. ZShape'
  BY <1>2 DEF ZInv, ZShape, workspace, world, observer, LockOK, Observable, Configured
<1>4. ZEvidence'
  BY <1>2 DEF ZInv, ZEvidence, workspace, world, observer
<1> QED BY <1>1, <1>3, <1>4 DEF ZInv

LEMMA ObserverInvariant == WorkspaceSpec => []ZInv
<1>1. ZInv /\ [WorkspaceNext]_workspace => ZInv'
  <2> SUFFICES ASSUME ZInv, [WorkspaceNext]_workspace PROVE ZInv'
    OBVIOUS
  <2>1. CASE BootstrapStep
    BY <2>1, BootstrapKeepsBase, BootstrapKeepsObserver DEF ZInv, BootstrapStep
  <2>2. CASE StatusStep
    BY <2>2, StatusKeepsObserver
  <2>3. CASE ObserverStep
    BY <2>3, ObserveReads, ReadersKeepBase, ObserverKeeps DEF ZInv, ObserverStep
  <2>4. CASE EnvironmentStep
    BY <2>4, EnvironmentKeepsBase, EnvironmentKeepsObserver DEF ZInv, EnvironmentStep
  <2>5. CASE UNCHANGED workspace
    BY <2>5, ObserverStutters
  <2> QED BY <2>1, <2>2, <2>3, <2>4, <2>5 DEF WorkspaceNext
<1> QED BY <1>1, ObserverInitially, PTL DEF WorkspaceSpec

\* What the observer prints is true of the checkout while it runs the child
\* and when it exits 0, with "complete" or "unavailable", whatever bootstrap of
\* the same lock and status do beside it (_require_checkout, main).
THEOREM ObserverRunsAtThePin == WorkspaceSpec => []ObservesThePin
<1>1. ZInv => ObservesThePin
  BY DEF ZInv, ZEvidence, ObservesThePin, Completed
<1> QED BY <1>1, ObserverInvariant, PTL

-----------------------------------------------------------------------------
(***************************************************************************)
(* status.                                                                 *)
(***************************************************************************)
\* The operator has left component i alone since the inspection started.
Left(i) == interventions[slock[i].path] = ssince[slock[i].path]

\* What the answers read before a query say of the checkout, as long as the
\* first of them was the pin.
Supported(at, answers, component, checkout) ==
  /\ at = "revision" => checkout.kind \in {"worktree", "absent"}
  /\ /\ at \in {"attached", "origin", "dirty", "upstream"}
     /\ answers.revision = component.revision
     => /\ checkout.kind = "worktree" /\ checkout.head = component.revision
        /\ at # "attached" /\ answers.head # "attached" => ~checkout.attached
        /\ at \in {"dirty", "upstream"} /\ answers.origin = component.repository =>
             checkout.origin = component.repository
        /\ at = "upstream" /\ answers.dirty = "clean" => checkout.tree # "dirty"

\* What the record "healthy" says.
Held(component, checkout) ==
  /\ checkout.kind = "worktree" /\ checkout.head = component.revision
  /\ ~checkout.attached /\ checkout.origin = component.repository
  /\ checkout.tree # "dirty"
  /\ component.upstream # NoUrl => checkout.upstream = component.upstream

SShape ==
  /\ LockOK(slock)
  /\ InspectionTypeOK
  /\ \A path \in Paths : ssince[path] <= interventions[path]
  /\ spc \in ProbeLabels => sindex \in DOMAIN slock
  /\ spc # "idle" => Len(report) = sindex - 1
  /\ spc = "idle" /\ exit = "zero" =>
       /\ Len(slock) <= Len(report)
       /\ \A i \in DOMAIN slock : Acceptable(slock[i], report[i])

SEvidence ==
  "status" \notin crossed =>
    /\ spc \in ProbeLabels /\ sindex \in Configured(slock) /\ Left(sindex) =>
         Supported(spc, probe, Inspected, Seen)
    /\ \A i \in Configured(slock) :
         i \in DOMAIN report /\ report[i] = "healthy" /\ Left(i) =>
           Held(slock[i], disk[slock[i].path])

SInv == Base /\ SShape /\ SEvidence

LEMMA KeepsIsEnough ==
  ASSUME NEW component, NEW old, NEW new, Keeps(old, new),
         old.head = component.revision
  PROVE  /\ Held(component, old) => Held(component, new)
         /\ \A at, answers :
              at # "revision" /\ Supported(at, answers, component, old) =>
                Supported(at, answers, component, new)
BY DEF Keeps, Held, Supported

LEMMA ReportKeeps ==
  ASSUME SInv, NEW state \in ComponentStates, SReport(state),
         sindex \in DOMAIN slock, spc # "idle",
         UNCHANGED <<disk, interventions, crossed>>,
         state = "healthy" /\ sindex \in Configured(slock) /\ Left(sindex)
           /\ "status" \notin crossed => Held(Inspected, Seen)
  PROVE  SShape' /\ SEvidence'
<1>1. /\ report' = Append(report, state) /\ sindex' = sindex + 1 /\ spc' = "next"
      /\ UNCHANGED <<slock, exit, ssince>> /\ probe' = NoProbe
  BY DEF SReport
<1>2. report \in Seq(ComponentStates) /\ Len(report) = sindex - 1 /\ sindex \in Nat \ {0}
  BY DEF SInv, SShape, InspectionTypeOK
<1>3. /\ report' \in Seq(ComponentStates) /\ Len(report') = sindex
      /\ DOMAIN report' = 1 .. sindex /\ report'[sindex] = state
      /\ \A i \in 1 .. sindex - 1 : report'[i] = report[i] /\ i \in DOMAIN report
  BY <1>1, <1>2
<1>4. SShape'
  <2>1. NoProbe \in Probe
    BY DEF NoProbe, Probe
  <2>2. InspectionTypeOK'
    BY <1>1, <1>2, <1>3, <2>1 DEF SInv, SShape, InspectionTypeOK
  <2>3. LockOK(slock)'
    BY <1>1 DEF SInv, SShape, LockOK, Configured
  <2> QED BY <1>1, <1>2, <1>3, <2>2, <2>3 DEF SInv, SShape, ProbeLabels
<1>5. SEvidence'
  <2> SUFFICES ASSUME "status" \notin crossed, NEW i \in Configured(slock),
                      i \in DOMAIN report', report'[i] = "healthy", Left(i)
               PROVE  Held(slock[i], disk[slock[i].path])
    BY <1>1 DEF SEvidence, ProbeLabels, Configured, Left
  <2>1. CASE i = sindex
    BY <1>3, <2>1 DEF Inspected, Seen
  <2>2. CASE i # sindex
    BY <1>3, <2>2 DEF SInv, SEvidence
  <2> QED BY <2>1, <2>2
<1> QED BY <1>4, <1>5

LEMMA GotoKeepsStatus ==
  ASSUME SInv, NEW next \in ProbeLabels, SGoto(next), probe' \in Probe,
         sindex \in DOMAIN slock, spc # "idle",
         UNCHANGED <<disk, interventions, crossed>>,
         sindex \in Configured(slock) /\ Left(sindex) /\ "status" \notin crossed =>
           Supported(next, probe', Inspected, Seen)
  PROVE  SShape' /\ SEvidence'
<1>1. spc' = next /\ UNCHANGED <<slock, sindex, report, exit, ssince>>
  BY DEF SGoto
<1>2. SShape'
  <2>1. InspectionTypeOK'
    BY <1>1 DEF SInv, SShape, InspectionTypeOK
  <2>2. LockOK(slock)'
    BY <1>1 DEF SInv, SShape, LockOK, Configured
  <2> QED BY <1>1, <2>1, <2>2 DEF SInv, SShape, ProbeLabels
<1>3. SEvidence'
  BY <1>1 DEF SInv, SEvidence, Configured, Left, Inspected, Seen
<1> QED BY <1>2, <1>3

\* What a query may lean on.
LEMMA AtQuery ==
  ASSUME SInv, spc \in ProbeLabels
  PROVE  /\ sindex \in DOMAIN slock /\ Inspected \in ParsedComponent
         /\ Seen \in Checkout /\ probe \in Probe /\ spc # "idle"
         /\ sindex \in Configured(slock) =>
              Inspected.revision \in Objects /\ Inspected.repository \in URLs
<1>1. sindex \in DOMAIN slock /\ Inspected \in ParsedComponent
  BY DEF SInv, SShape, LockOK, Inspected
<1>2. Seen \in Checkout
  BY <1>1 DEF Seen, ParsedComponent, SInv, Base, IInv, TypeOK, WorldTypeOK
<1> QED BY <1>1, <1>2 DEF SInv, SShape, InspectionTypeOK, LockOK, Inspected, ProbeLabels,
      Configured

LEMMA LoadLockKeeps ==
  ASSUME SInv, LoadLock
  PROVE  SShape' /\ SEvidence'
<1>1. interventions \in [Paths -> Nat]
  BY DEF SInv, Base, IInv, TypeOK, WorldTypeOK
<1>2. LockOK(slock')
  <2>1. CASE Loads(Editions[edition])
    BY <2>1, LoadedLockIsOK DEF LoadLock, SInv
  <2>2. CASE ~Loads(Editions[edition])
    BY <2>2, EmptyLockIsOK DEF LoadLock
  <2> QED BY <2>1, <2>2
<1>3. /\ report' = <<>> /\ sindex' = 1 /\ ssince' = interventions /\ probe' = probe
      /\ interventions' = interventions
      /\ (spc' = "next" /\ exit' = "running") \/ (spc' = "idle" /\ exit' = "lock_error")
  BY DEF LoadLock, world
<1>4. InspectionTypeOK'
  BY <1>1, <1>3 DEF SInv, SShape, InspectionTypeOK
<1>5. LockOK(slock)'
  BY <1>2 DEF LockOK, Configured
<1>6. SShape'
  BY <1>1, <1>3, <1>4, <1>5 DEF SShape, ProbeLabels
<1>7. SEvidence'
  BY <1>3 DEF SEvidence, ProbeLabels
<1> QED BY <1>6, <1>7

LEMMA ProbePathKeeps ==
  ASSUME SInv, ProbePath, UNCHANGED crossed
  PROVE  SShape' /\ SEvidence'
<1>1. spc = "next" /\ sindex \in DOMAIN slock /\ UNCHANGED <<disk, interventions>>
  BY DEF ProbePath, world
<1>2. CASE SReport("absent")
  BY <1>1, <1>2, ReportKeeps DEF ComponentStates, ConfiguredStates
<1>3. CASE SGoto("worktree") /\ UNCHANGED probe
  <2>1. "worktree" \in ProbeLabels /\ probe' \in Probe
    BY <1>3 DEF ProbeLabels, SInv, SShape, InspectionTypeOK
  <2>2. Supported("worktree", probe', Inspected, Seen)
    BY DEF Supported
  <2> QED BY <1>1, <1>3, <2>1, <2>2, GotoKeepsStatus
<1> QED BY <1>2, <1>3 DEF ProbePath

LEMMA ProbeWorktreeKeeps ==
  ASSUME SInv, ProbeWorktree, UNCHANGED crossed
  PROVE  SShape' /\ SEvidence'
<1>1. spc \in ProbeLabels /\ UNCHANGED <<disk, interventions>>
  BY DEF ProbeWorktree, Reads, Reading, ProbeLabels
<1>2. ASSUME NEW state \in {"invalid_repository", "unconfigured"}, SReport(state)
      PROVE  SShape' /\ SEvidence'
  <2>1. state \in ComponentStates /\ state # "healthy"
    BY <1>2 DEF ComponentStates, ConfiguredStates
  <2> QED BY <1>1, <1>2, <2>1, AtQuery, ReportKeeps
<1>3. CASE Seen.kind = "worktree" /\ SGoto("revision") /\ UNCHANGED probe
  <2>1. "revision" \in ProbeLabels
    BY DEF ProbeLabels
  <2>2. Supported("revision", probe', Inspected, Seen)
    BY <1>3 DEF Supported
  <2> QED BY <1>1, <1>3, <2>1, <2>2, AtQuery, GotoKeepsStatus
<1> QED BY <1>2, <1>3 DEF ProbeWorktree

\* The queries between the first and the last.
LEMMA QueryKeeps ==
  ASSUME SInv, NEW next \in ProbeLabels, SGoto(next), spc \in ProbeLabels,
         IsDirectory(Seen), Reading, UNCHANGED crossed, probe' \in Probe,
         Supported(spc, probe, Inspected, Seen) =>
           (sindex \in Configured(slock) => Supported(next, probe', Inspected, Seen))
  PROVE  SShape' /\ SEvidence'
<1>1. sindex \in DOMAIN slock /\ spc # "idle" /\ UNCHANGED <<disk, interventions>>
  BY AtQuery DEF Reading
<1>2. ASSUME sindex \in Configured(slock), Left(sindex), "status" \notin crossed
      PROVE  Supported(next, probe', Inspected, Seen)
  BY <1>2 DEF SInv, SEvidence
<1> QED BY <1>1, <1>2, GotoKeepsStatus

LEMMA ProbeRevisionKeeps ==
  ASSUME SInv, ProbeRevision, UNCHANGED crossed
  PROVE  SShape' /\ SEvidence'
<1>1. /\ spc = "revision" /\ IsDirectory(Seen) /\ Reading /\ SGoto("attached")
      /\ probe' \in {[probe EXCEPT !.revision = Seen.head],
                     [probe EXCEPT !.revision = Unborn]}
  BY DEF ProbeRevision, Reads
<1>2. spc \in ProbeLabels /\ "attached" \in ProbeLabels
  BY <1>1 DEF ProbeLabels
<1>3. probe \in Probe /\ Seen \in Checkout
  BY <1>2, AtQuery
<1>4. probe' \in Probe /\ probe'.revision \in {Seen.head, Unborn}
  BY <1>1, <1>3 DEF Probe, Checkout
<1>5. Supported(spc, probe, Inspected, Seen) =>
        (sindex \in Configured(slock) => Supported("attached", probe', Inspected, Seen))
  BY <1>1, <1>2, <1>4, AtQuery, ObjectsAssumption DEF Supported, IsDirectory
<1> QED BY <1>1, <1>2, <1>4, <1>5, QueryKeeps

LEMMA ProbeAttachedKeeps ==
  ASSUME SInv, ProbeAttached, UNCHANGED crossed, "probe_attached" \notin Flaky
  PROVE  SShape' /\ SEvidence'
<1>1. /\ spc = "attached" /\ IsDirectory(Seen) /\ Reading /\ SGoto("origin")
      /\ probe' = [probe EXCEPT !.head = HeadState(TRUE /\ Seen.attached, probe.revision)]
  <2>1. Answers("probe_attached") = {TRUE}
    BY DEF Answers
  <2>2. PICK ok \in {TRUE} :
          probe' = [probe EXCEPT !.head = HeadState(ok /\ Seen.attached, probe.revision)]
    BY <2>1, Zenon DEF ProbeAttached
  <2> QED BY <2>2, Zenon DEF ProbeAttached, Reads
<1>2. spc \in ProbeLabels /\ "origin" \in ProbeLabels
  BY <1>1 DEF ProbeLabels
<1>3. probe \in Probe /\ Seen \in Checkout
  BY <1>2, AtQuery
<1>4. /\ probe' \in Probe /\ probe'.revision = probe.revision
      /\ Seen.attached => probe'.head = "attached"
  <2>1. /\ HeadState(TRUE /\ Seen.attached, probe.revision) \in {"detached", "attached", "unknown"}
        /\ Seen.attached => HeadState(TRUE /\ Seen.attached, probe.revision) = "attached"
    BY DEF HeadState
  <2> QED BY <1>1, <1>3, <2>1 DEF Probe
<1>5. Supported(spc, probe, Inspected, Seen) =>
        (sindex \in Configured(slock) => Supported("origin", probe', Inspected, Seen))
  BY <1>1, <1>4 DEF Supported
<1> QED BY <1>1, <1>2, <1>4, <1>5, QueryKeeps

LEMMA ProbeOriginKeeps ==
  ASSUME SInv, ProbeOrigin, UNCHANGED crossed
  PROVE  SShape' /\ SEvidence'
<1>1. /\ spc = "origin" /\ IsDirectory(Seen) /\ Reading /\ SGoto("dirty")
      /\ probe' \in {[probe EXCEPT !.origin = Seen.origin],
                     [probe EXCEPT !.origin = NoUrl]}
  BY DEF ProbeOrigin, Reads
<1>2. spc \in ProbeLabels /\ "dirty" \in ProbeLabels
  BY <1>1 DEF ProbeLabels
<1>3. probe \in Probe /\ Seen \in Checkout
  BY <1>2, AtQuery
<1>4. /\ probe' \in Probe /\ probe'.revision = probe.revision /\ probe'.head = probe.head
      /\ probe'.origin \in {Seen.origin, NoUrl}
  BY <1>1, <1>3 DEF Probe, Checkout
<1>5. Supported(spc, probe, Inspected, Seen) =>
        (sindex \in Configured(slock) => Supported("dirty", probe', Inspected, Seen))
  BY <1>1, <1>2, <1>4, AtQuery, ObjectsAssumption DEF Supported
<1> QED BY <1>1, <1>2, <1>4, <1>5, QueryKeeps

LEMMA ProbeDirtyKeeps ==
  ASSUME SInv, ProbeDirty, UNCHANGED crossed, "probe_dirty" \notin Flaky
  PROVE  SShape' /\ SEvidence'
<1>1. /\ spc = "dirty" /\ IsDirectory(Seen) /\ Reading /\ SGoto("upstream")
      /\ probe' = [probe EXCEPT !.dirty = DirtyState(Seen)]
  BY DEF ProbeDirty, Reads, Answers
<1>2. spc \in ProbeLabels /\ "upstream" \in ProbeLabels
  BY <1>1 DEF ProbeLabels
<1>3. probe \in Probe /\ DirtyState(Seen) \in {"clean", "dirty"}
  BY <1>2, AtQuery DEF DirtyState
<1>4. /\ probe' \in Probe /\ probe'.revision = probe.revision /\ probe'.head = probe.head
      /\ probe'.origin = probe.origin /\ probe'.dirty = DirtyState(Seen)
  BY <1>1, <1>3 DEF Probe
<1>5. Supported(spc, probe, Inspected, Seen) =>
        (sindex \in Configured(slock) => Supported("upstream", probe', Inspected, Seen))
  BY <1>1, <1>4 DEF Supported, DirtyState, StatusSucceeds
<1> QED BY <1>1, <1>2, <1>4, <1>5, QueryKeeps

LEMMA ProbeUpstreamKeeps ==
  ASSUME SInv, ProbeUpstream, UNCHANGED crossed
  PROVE  SShape' /\ SEvidence'
<1> DEFINE last(answer) == [probe EXCEPT !.upstream = answer]
           verdict(answer) == IF IsConfigured(Inspected)
                              THEN StateOf(Inspected, last(answer)) ELSE "unconfigured"
<1>1. /\ spc = "upstream" /\ Reading
      /\ \E answer \in {Seen.upstream, NoUrl} : SReport(verdict(answer))
  BY DEF ProbeUpstream, Reads
<1>2. PICK answer \in {Seen.upstream, NoUrl} : SReport(verdict(answer))
  BY <1>1
<1>3. spc \in ProbeLabels /\ UNCHANGED <<disk, interventions>>
  BY <1>1 DEF ProbeLabels, Reading
<1>4. /\ last(answer).revision = probe.revision /\ last(answer).head = probe.head
      /\ last(answer).origin = probe.origin /\ last(answer).dirty = probe.dirty
      /\ last(answer).upstream = answer /\ probe.dirty \in {"clean", "dirty"}
  BY <1>3, AtQuery DEF Probe
<1> HIDE DEF last
<1>5. verdict(answer) \in ComponentStates
  BY DEF StateOf, CheckoutState, OriginState, UpstreamState, ComponentStates, ConfiguredStates
<1>6. ASSUME verdict(answer) = "healthy", sindex \in Configured(slock), Left(sindex),
             "status" \notin crossed
      PROVE  Held(Inspected, Seen)
  <2>1. Supported("upstream", probe, Inspected, Seen)
    BY <1>1, <1>3, <1>6 DEF SInv, SEvidence
  <2>2. StateOf(Inspected, last(answer)) = "healthy"
    BY <1>6
  <2>3. /\ CheckoutState(Inspected, last(answer)) = "healthy"
        /\ OriginState(Inspected, last(answer)) = "healthy"
        /\ probe.head # "attached" /\ UpstreamState(Inspected, last(answer)) = "healthy"
    BY <1>4, <2>2 DEF StateOf
  <2>4. Inspected.revision # Unborn /\ Inspected.repository # NoUrl
    BY <1>3, <1>6, AtQuery, ObjectsAssumption
  <2>5. probe.revision = Inspected.revision /\ probe.dirty = "clean"
    BY <1>4, <2>3, <2>4 DEF CheckoutState
  <2>6. probe.origin = Inspected.repository
    BY <1>4, <2>3, <2>4 DEF OriginState
  <2>7. Inspected.upstream # NoUrl => Seen.upstream = Inspected.upstream
    BY <1>2, <1>4, <2>3 DEF UpstreamState
  <2> QED BY <2>1, <2>3, <2>5, <2>6, <2>7 DEF Supported, Held
<1> HIDE DEF verdict
<1> QED BY <1>2, <1>3, <1>5, <1>6, AtQuery, ReportKeeps

\* A run that ends otherwise promises nothing; exit 0 is read off the report.
LEMMA EndingsKeep ==
  ASSUME SInv, ProbeTraceback \/ Report, UNCHANGED crossed
  PROVE  SShape' /\ SEvidence'
<1>1. UNCHANGED <<disk, interventions, slock, sindex, ssince>> /\ spc' = "idle"
  BY DEF ProbeTraceback, Report, world
<1>2. LockOK(slock)'
  BY <1>1 DEF SInv, SShape, LockOK, Configured
<1>3. CASE ProbeTraceback
  <2>1. report' = <<>> /\ exit' = "traceback" /\ probe' \in Probe
    BY <1>3 DEF ProbeTraceback, NoProbe, Probe
  <2>2. InspectionTypeOK'
    BY <1>1, <2>1 DEF SInv, SShape, InspectionTypeOK
  <2> QED BY <1>1, <1>2, <2>1, <2>2 DEF SInv, SShape, SEvidence, ProbeLabels
<1>4. CASE Report
  <2>1. /\ sindex \notin DOMAIN slock /\ Len(report) = sindex - 1
        /\ UNCHANGED <<probe, report>> /\ exit' \in {"zero", "one"}
        /\ exit' = "zero" => \A i \in DOMAIN slock : Acceptable(slock[i], report[i])
    BY <1>4 DEF Report, SInv, SShape
  <2>2. InspectionTypeOK'
    BY <1>1, <2>1 DEF SInv, SShape, InspectionTypeOK
  <2>3. SShape'
    <3>1. Len(slock) <= Len(report)
      BY <2>1 DEF SInv, SShape, InspectionTypeOK, LockOK
    <3> QED BY <1>1, <1>2, <2>1, <2>2, <3>1 DEF SInv, SShape, ProbeLabels
  <2>4. SEvidence'
    BY <1>1, <2>1 DEF SInv, SEvidence, ProbeLabels, Configured, Left
  <2> QED BY <2>3, <2>4
<1> QED BY <1>3, <1>4

LEMMA InspectionKeeps ==
  ASSUME SInv, StatusStep, "probe_attached" \notin Flaky, "probe_dirty" \notin Flaky
  PROVE  SInv'
<1>1. Inspect /\ UNCHANGED run
  BY DEF StatusStep
<1>2. Base'
  BY <1>1, InspectReads, ReadersKeepBase DEF SInv
<1>3. CASE LoadLock
  BY <1>2, <1>3, LoadLockKeeps DEF SInv
<1>4. CASE ~LoadLock
  <2>1. UNCHANGED crossed
    BY <1>1, <1>4 DEF StatusStep, Inspect, ProbePath, ProbeWorktree, ProbeRevision,
       ProbeAttached, ProbeOrigin, ProbeDirty, ProbeUpstream, ProbeTraceback, Report,
       Reads, ProbeLabels
  <2> QED BY <1>1, <1>2, <1>4, <2>1, ProbePathKeeps, ProbeWorktreeKeeps, ProbeRevisionKeeps,
        ProbeAttachedKeeps, ProbeOriginKeeps, ProbeDirtyKeeps, ProbeUpstreamKeeps,
        EndingsKeep DEF Inspect, SInv
<1> QED BY <1>3, <1>4

\* Steps that leave status and the checkouts alone.
LEMMA ElsewhereKeepsStatus ==
  ASSUME SInv, UNCHANGED <<inspection, disk, interventions>>,
         "status" \notin crossed' => "status" \notin crossed
  PROVE  SShape' /\ SEvidence'
BY DEF inspection, SInv, SShape, SEvidence, InspectionTypeOK, LockOK, Configured, Left,
   Inspected, Seen

LEMMA BootstrapKeepsStatus ==
  ASSUME SInv, BootstrapStep
  PROVE  SInv'
<1>1. /\ Bootstrap \/ Kill
      /\ UNCHANGED inspection /\ UNCHANGED interventions
  BY DEF BootstrapStep, Bootstrap, Kill, Load, Skip, FindCheckout, BeginClone, EndClone,
     CheckWorktree, CheckStatus, CheckOrigin, CheckUpstream, AddUpstream, Resolve1,
     FetchOrigin, Resolve2, ReadHead, ReadAttachment, CheckoutPin, Traceback, Finish,
     Query, Rest, world
<1>2. Base'
  BY <1>1, BootstrapKeepsBase DEF SInv
<1>3. "status" \notin crossed' => "status" \notin crossed /\ (UNCHANGED disk \/ lock = slock)
  BY DEF BootstrapStep, ReaderLock
<1>4. CASE UNCHANGED disk
  BY <1>1, <1>2, <1>3, <1>4, ElsewhereKeepsStatus DEF SInv
<1>5. CASE ~UNCHANGED disk
  <2>1. SShape'
    BY <1>1 DEF inspection, SInv, SShape, InspectionTypeOK, LockOK, Configured
  <2>2. ASSUME "status" \notin crossed', NEW i \in Configured(slock), Left(i),
               disk[slock[i].path].kind = "worktree",
               disk[slock[i].path].head = slock[i].revision
        PROVE  Keeps(disk[slock[i].path], disk'[slock[i].path])
    BY <1>1, <1>3, <1>5, <2>2, PinStays DEF SInv, Base, IsDirectory
  <2>3. ASSUME "status" \notin crossed', spc \in ProbeLabels, sindex \in Configured(slock),
               Left(sindex)
        PROVE  Supported(spc, probe, Inspected, Seen')
    <3>1. Supported(spc, probe, Inspected, Seen)
      BY <1>3, <2>3 DEF SInv, SEvidence
    <3>2. Inspected' = Inspected /\ Seen' = disk'[Inspected.path] /\ Inspected.path \in Paths
      BY <1>1, <2>3, AtQuery DEF inspection, Inspected, Seen, ParsedComponent
    <3>3. CASE spc = "worktree"
      BY <3>3 DEF Supported
    <3>4. CASE spc = "revision"
      BY <1>1, <3>1, <3>2, <3>4, RepositoriesStay DEF Supported, Seen, SInv, Base
    <3>5. CASE spc \notin {"worktree", "revision"} /\ probe.revision = Inspected.revision
      <4>1. Seen.kind = "worktree" /\ Seen.head = Inspected.revision
        BY <2>3, <3>1, <3>5 DEF Supported, ProbeLabels
      <4>2. Keeps(Seen, Seen')
        BY <2>2, <2>3, <3>2, <4>1 DEF Seen, Inspected
      <4> QED BY <3>1, <3>5, <4>1, <4>2, KeepsIsEnough
    <3>6. CASE spc \notin {"worktree", "revision"} /\ probe.revision # Inspected.revision
      BY <3>6 DEF Supported
    <3> QED BY <3>3, <3>4, <3>5, <3>6
  <2>4. ASSUME "status" \notin crossed', NEW i \in Configured(slock), Left(i),
               i \in DOMAIN report, report[i] = "healthy"
        PROVE  Held(slock[i], disk'[slock[i].path])
    <3>1. Held(slock[i], disk[slock[i].path])
      BY <1>3, <2>4 DEF SInv, SEvidence
    <3>2. Keeps(disk[slock[i].path], disk'[slock[i].path])
      BY <2>2, <2>4, <3>1 DEF Held
    <3> QED BY <3>1, <3>2, KeepsIsEnough DEF Held
  <2>5. SEvidence'
    BY <1>1, <2>3, <2>4 DEF SEvidence, inspection, Configured, Left, Inspected
  <2> QED BY <1>2, <2>1, <2>5 DEF SInv
<1> QED BY <1>4, <1>5

LEMMA EnvironmentKeepsStatus ==
  ASSUME SInv, EnvironmentStep
  PROVE  SInv'
<1>1. Environment /\ UNCHANGED <<run, inspection, crossed>>
  BY DEF EnvironmentStep
<1>2. Base'
  BY <1>1, EnvironmentKeepsBase DEF SInv
<1>3. /\ \A path \in Paths : ssince[path] <= interventions'[path]
      /\ \A path \in Paths : interventions'[path] = ssince[path] =>
           interventions[path] = ssince[path] /\ disk'[path] = disk[path]
  BY <1>1, InterventionsCount DEF SInv, SShape, InspectionTypeOK
<1>4. SShape'
  BY <1>1, <1>3 DEF SInv, SShape, inspection, InspectionTypeOK, LockOK, Configured
<1>5. ASSUME NEW i \in Configured(slock), Left(i)'
      PROVE  Left(i) /\ disk'[slock[i].path] = disk[slock[i].path]
  <2>1. slock[i].path \in Paths
    <3>1. slock[i] \in ParsedComponent
      BY DEF SInv, SShape, LockOK, Configured
    <3> QED BY <3>1 DEF ParsedComponent
  <2> QED BY <1>1, <1>3, <1>5, <2>1 DEF Left, inspection
<1>6. SEvidence'
  BY <1>1, <1>5 DEF SInv, SEvidence, inspection, Configured, Inspected, Seen
<1> QED BY <1>2, <1>4, <1>6 DEF SInv

LEMMA StatusInitially == WorkspaceInit => SInv
<1> SUFFICES ASSUME WorkspaceInit PROVE SInv
  OBVIOUS
<1>1. Base
  BY ObserverInitially DEF ZInv
<1>2. interventions \in [Paths -> Nat] /\ NoProbe \in Probe
  BY <1>1 DEF Base, IInv, TypeOK, WorldTypeOK, NoProbe, Probe
<1>3. InspectionTypeOK
  BY <1>2 DEF WorkspaceInit, InspectionInit, InspectionTypeOK
<1>4. SShape
  BY <1>2, <1>3, EmptyLockIsOK DEF WorkspaceInit, InspectionInit, SShape, ProbeLabels
<1>5. SEvidence
  BY DEF WorkspaceInit, InspectionInit, SEvidence, ProbeLabels
<1> QED BY <1>1, <1>4, <1>5 DEF SInv

LEMMA StatusInvariant ==
  ASSUME "probe_attached" \notin Flaky, "probe_dirty" \notin Flaky
  PROVE  WorkspaceSpec => []SInv
<1>1. SInv /\ [WorkspaceNext]_workspace => SInv'
  <2> SUFFICES ASSUME SInv, [WorkspaceNext]_workspace PROVE SInv'
    OBVIOUS
  <2>1. CASE BootstrapStep
    BY <2>1, BootstrapKeepsStatus
  <2>2. CASE StatusStep
    BY <2>2, InspectionKeeps
  <2>3. CASE ObserverStep
    BY <2>3, ObserveReads, ReadersKeepBase, ElsewhereKeepsStatus DEF SInv, ObserverStep
  <2>4. CASE EnvironmentStep
    BY <2>4, EnvironmentKeepsStatus
  <2>5. CASE UNCHANGED workspace
    <3>1. Base'
      BY <2>5, ReadersKeepBase DEF SInv, workspace, world, Base, IInv, TypeOK, WorldTypeOK
    <3> QED BY <2>5, <3>1, ElsewhereKeepsStatus DEF SInv, workspace, world
  <2> QED BY <2>1, <2>2, <2>3, <2>4, <2>5 DEF WorkspaceNext
<1> QED BY <1>1, StatusInitially, PTL DEF WorkspaceSpec

\* When status exits 0, what it says of every required checkout the operator
\* left alone is true at that moment, although its answers were read at as many
\* moments as there are queries and bootstrap of the same lock was writing
\* (_probe, _state, exit_code): HEAD is read first, and once it is at the pin
\* nothing bootstrap does undoes an answer.  The two queries whose failure is
\* read as a good answer, symbolic-ref and git status, are assumed to answer.
THEOREM ZeroIsTrue ==
  ASSUME "probe_attached" \notin Flaky, "probe_dirty" \notin Flaky
  PROVE  WorkspaceSpec => []StatusZeroIsTrue
<1>1. SInv => StatusZeroIsTrue
  <2> SUFFICES ASSUME SInv, spc = "idle", exit = "zero", "status" \notin crossed,
                      NEW i \in Configured(slock), slock[i].required, Left(i)
               PROVE  LET checkout == disk[slock[i].path]
                      IN  /\ checkout.tree # "dirty"
                          /\ Healthy(slock[i], [checkout EXCEPT !.tree = "clean"])
    BY DEF StatusZeroIsTrue, Left
  <2>1. i \in DOMAIN slock /\ i \in DOMAIN report /\ disk[slock[i].path] \in Checkout
    <3>1. /\ i \in DOMAIN slock /\ slock \in Seq(ParsedComponent)
          /\ Len(slock) <= Len(report) /\ report \in Seq(ComponentStates)
      BY DEF SInv, SShape, InspectionTypeOK, LockOK, Configured
    <3>2. slock[i] \in ParsedComponent
      BY <3>1
    <3>3. disk[slock[i].path] \in Checkout
      BY <3>2 DEF ParsedComponent, SInv, Base, IInv, TypeOK, WorldTypeOK
    <3> QED BY <3>1, <3>3
  <2>2. report[i] = "healthy"
    BY <2>1 DEF SInv, SShape, Acceptable
  <2>3. Held(slock[i], disk[slock[i].path])
    BY <2>1, <2>2 DEF SInv, SEvidence
  <2> QED BY <2>1, <2>3 DEF Held, Healthy, Checkout
<1> QED BY <1>1, StatusInvariant, PTL

-----------------------------------------------------------------------------
(***************************************************************************)
(* Types.                                                                  *)
(***************************************************************************)
TInv ==
  /\ Base /\ InspectionTypeOK /\ ObserverTypeOK
  /\ LockOK(slock)
  /\ spc \in ProbeLabels => sindex \in DOMAIN slock
  /\ running \in Teams /\ crossed \subseteq {"status", "observer"}

LEMMA ObserverKeepsTypes ==
  ASSUME TInv, Observe
  PROVE  ObserverTypeOK'
<1> DEFINE records == {"preamble", "unavailable", "complete"}
           ends == {"none", "zero", "error", "traceback", "child"}
<1>1. printed \in Seq(records) /\ status \in ends
  BY DEF TInv, ObserverTypeOK
<1>2. host' \in Hosts /\ zsince' \in [Paths -> Nat]
  BY DEF TInv, Base, IInv, TypeOK, WorldTypeOK, ObserverTypeOK, Observe, LoadZakura,
     RequireHead, RequireClean, RequireTools, StartChild, ChildExits, ZakuraTraceback, Keep
<1>3. CASE LoadZakura
  <2>1. printed' \in {<<"preamble">>, <<>>} /\ status' \in ends /\ zpc' \in {"head", "idle"}
    BY <1>3 DEF LoadZakura
  <2>2. <<"preamble">> \in Seq(records) /\ <<>> \in Seq(records)
    OBVIOUS
  <2>3. printed' \in Seq(records)
    BY <2>1, <2>2
  <2> QED BY <1>2, <2>1, <2>3 DEF ObserverTypeOK
<1>4. CASE RequireHead \/ RequireClean \/ StartChild \/ ZakuraTraceback
  <2>1. UNCHANGED printed /\ status' \in ends
        /\ zpc' \in {"idle", "status", "tools", "child"}
    BY <1>1, <1>4 DEF RequireHead, RequireClean, StartChild, ZakuraTraceback, ZProceed,
       ZGoto, Ends
  <2> QED BY <1>1, <1>2, <2>1 DEF ObserverTypeOK
<1>5. CASE RequireTools \/ ChildExits
  <2>1. /\ printed' \in {printed, Append(printed, "unavailable"), Append(printed, "complete")}
        /\ status' \in ends /\ zpc' \in {"idle", "run"}
    BY <1>1, <1>5 DEF RequireTools, ChildExits, ZProceed, ZGoto, Ends
  <2>2. printed' \in Seq(records)
    BY <1>1, <2>1
  <2> QED BY <1>2, <2>1, <2>2 DEF ObserverTypeOK
<1> QED BY <1>3, <1>4, <1>5 DEF Observe

LEMMA ReportKeepsTypes ==
  ASSUME TInv, NEW state \in ComponentStates, SReport(state)
  PROVE  InspectionTypeOK' /\ spc' \notin ProbeLabels
<1>1. NoProbe \in Probe
  BY DEF NoProbe, Probe
<1> QED BY <1>1 DEF TInv, InspectionTypeOK, SReport, ProbeLabels

LEMMA GotoKeepsTypes ==
  ASSUME TInv, NEW next \in ProbeLabels, SGoto(next), probe' \in Probe
  PROVE  InspectionTypeOK' /\ UNCHANGED sindex
BY DEF TInv, InspectionTypeOK, SGoto

LEMMA InspectKeepsTypes ==
  ASSUME TInv, Inspect
  PROVE  /\ InspectionTypeOK' /\ LockOK(slock')
         /\ spc' \in ProbeLabels => sindex' \in DOMAIN slock'
<1> DEFINE Goal == /\ InspectionTypeOK' /\ LockOK(slock')
                   /\ spc' \in ProbeLabels => sindex' \in DOMAIN slock'
<1> SUFFICES Goal
  OBVIOUS
<1>1. CASE LoadLock
  <2>1. LockOK(slock')
    <3>1. CASE Loads(Editions[edition])
      BY <1>1, <3>1, LoadedLockIsOK DEF LoadLock, TInv
    <3>2. CASE ~Loads(Editions[edition])
      BY <1>1, <3>2, EmptyLockIsOK DEF LoadLock
    <3> QED BY <3>1, <3>2
  <2>2. /\ report' = <<>> /\ sindex' = 1 /\ probe' = probe
        /\ ssince' \in [Paths -> Nat] /\ spc' \in {"idle", "next"}
        /\ exit' \in {"running", "lock_error"}
    BY <1>1 DEF LoadLock, TInv, Base, IInv, TypeOK, WorldTypeOK
  <2> QED BY <2>1, <2>2 DEF TInv, InspectionTypeOK, ProbeLabels
<1>2. ASSUME NEW state \in ComponentStates, SReport(state) PROVE Goal
  BY <1>2, ReportKeepsTypes DEF SReport, TInv
<1>3. ASSUME NEW next \in ProbeLabels, SGoto(next), probe' \in Probe,
             sindex \in DOMAIN slock
      PROVE  Goal
  BY <1>3, GotoKeepsTypes DEF SGoto, TInv
<1> HIDE DEF Goal
<1>4. {"absent", "invalid_repository", "unconfigured"} \subseteq ComponentStates
      /\ ProbeLabels = {"worktree", "revision", "attached", "origin", "dirty", "upstream"}
      /\ probe \in Probe
  BY DEF ComponentStates, ConfiguredStates, ProbeLabels, TInv, InspectionTypeOK
<1>5. CASE ProbePath
  BY <1>2, <1>3, <1>4, <1>5 DEF ProbePath
<1>6. CASE ProbeTraceback \/ Report
  <2>1. /\ spc' = "idle" /\ UNCHANGED <<slock, sindex, ssince>>
        /\ exit' \in {"zero", "one", "traceback"}
        /\ report' \in {report, <<>>} /\ probe' \in {probe, NoProbe} /\ NoProbe \in Probe
    BY <1>6 DEF ProbeTraceback, Report, NoProbe, Probe
  <2>2. InspectionTypeOK'
    <3>1. report \in Seq(ComponentStates) /\ <<>> \in Seq(ComponentStates)
      BY DEF TInv, InspectionTypeOK
    <3>2. report' \in Seq(ComponentStates)
      BY <2>1, <3>1
    <3> QED BY <2>1, <3>2 DEF TInv, InspectionTypeOK
  <2>3. LockOK(slock') /\ spc' \notin ProbeLabels
    BY <2>1 DEF TInv, ProbeLabels
  <2> QED BY <2>2, <2>3 DEF Goal
<1>7. CASE spc \in ProbeLabels /\ IsDirectory(Seen)
  <2>1. sindex \in DOMAIN slock
    BY <1>7 DEF TInv
  <2>2. Seen \in Checkout
    <3>1. Inspected \in ParsedComponent
      BY <2>1 DEF TInv, LockOK, Inspected
    <3> QED BY <3>1 DEF Seen, ParsedComponent, TInv, Base, IInv, TypeOK, WorldTypeOK
  <2>3. CASE ProbeWorktree
    BY <1>2, <1>3, <1>4, <2>1, <2>3 DEF ProbeWorktree
  <2>4. CASE ProbeRevision
    <3>1. probe' \in {[probe EXCEPT !.revision = Seen.head],
                      [probe EXCEPT !.revision = Unborn]} /\ SGoto("attached")
      BY <2>4 DEF ProbeRevision
    <3>2. probe' \in Probe
      BY <1>4, <2>2, <3>1 DEF Probe, Checkout
    <3> QED BY <1>3, <1>4, <2>1, <3>1, <3>2
  <2>5. CASE ProbeAttached
    <3>1. SGoto("origin")
          /\ \E ok : probe' = [probe EXCEPT !.head = HeadState(ok /\ Seen.attached,
                                                               probe.revision)]
      BY <2>5, Zenon DEF ProbeAttached
    <3>2. PICK ok : probe' = [probe EXCEPT !.head = HeadState(ok /\ Seen.attached,
                                                              probe.revision)]
      BY <3>1
    <3>3. HeadState(ok /\ Seen.attached, probe.revision)
            \in {"detached", "attached", "unknown"}
      BY DEF HeadState
    <3>4. probe' \in Probe
      BY <1>4, <3>2, <3>3 DEF Probe
    <3> QED BY <1>3, <1>4, <2>1, <3>1, <3>4
  <2>6. CASE ProbeOrigin
    <3>1. probe' \in {[probe EXCEPT !.origin = Seen.origin],
                      [probe EXCEPT !.origin = NoUrl]} /\ SGoto("dirty")
      BY <2>6 DEF ProbeOrigin
    <3>2. probe' \in Probe
      BY <1>4, <2>2, <3>1 DEF Probe, Checkout
    <3> QED BY <1>3, <1>4, <2>1, <3>1, <3>2
  <2>7. CASE ProbeDirty
    <3>1. probe' \in {[probe EXCEPT !.dirty = DirtyState(Seen)],
                      [probe EXCEPT !.dirty = "clean"]} /\ SGoto("upstream")
      BY <2>7 DEF ProbeDirty
    <3>2. probe' \in Probe
      BY <1>4, <3>1 DEF Probe, DirtyState
    <3> QED BY <1>3, <1>4, <2>1, <3>1, <3>2
  <2>8. CASE ProbeUpstream
    <3>1. \E last : SReport(IF IsConfigured(Inspected)
                            THEN StateOf(Inspected, last) ELSE "unconfigured")
      BY <2>8, Zenon DEF ProbeUpstream
    <3>2. PICK last : SReport(IF IsConfigured(Inspected)
                              THEN StateOf(Inspected, last) ELSE "unconfigured")
      BY <3>1
    <3>3. StateOf(Inspected, last) \in ComponentStates
      BY DEF StateOf, CheckoutState, OriginState, UpstreamState, ComponentStates,
         ConfiguredStates
    <3> QED BY <1>2, <1>4, <3>2, <3>3
  <2> QED BY <1>1, <1>5, <1>6, <1>7, <2>3, <2>4, <2>5, <2>6, <2>7, <2>8 DEF Inspect, Goal
<1> QED BY <1>1, <1>5, <1>6, <1>7 DEF Inspect, ProbeWorktree, ProbeRevision, ProbeAttached,
      ProbeOrigin, ProbeDirty, ProbeUpstream, Reads, ProbeLabels, Goal

LEMMA TypeInvariant == WorkspaceSpec => []TInv
<1>1. WorkspaceInit => TInv
  <2> SUFFICES ASSUME WorkspaceInit PROVE TInv
    OBVIOUS
  <2>1. Base
    BY ObserverInitially DEF ZInv
  <2>2. interventions \in [Paths -> Nat] /\ NoProbe \in Probe
    BY <2>1 DEF Base, IInv, TypeOK, WorldTypeOK, NoProbe, Probe
  <2>3. InspectionTypeOK
    BY <2>2 DEF WorkspaceInit, InspectionInit, InspectionTypeOK
  <2>4. ObserverTypeOK
    BY <2>2 DEF WorkspaceInit, ObserverInit, ObserverTypeOK
  <2> QED BY <2>1, <2>3, <2>4, EmptyLockIsOK DEF WorkspaceInit, InspectionInit, TInv,
        ProbeLabels
<1>2. TInv /\ [WorkspaceNext]_workspace => TInv'
  <2> SUFFICES ASSUME TInv, [WorkspaceNext]_workspace PROVE TInv'
    OBVIOUS
  <2>1. UNCHANGED inspection => /\ InspectionTypeOK' /\ LockOK(slock)'
                                /\ (spc \in ProbeLabels => sindex \in DOMAIN slock)'
    BY DEF TInv, inspection, InspectionTypeOK, LockOK, Configured
  <2>2. UNCHANGED observer => ObserverTypeOK'
    BY DEF TInv, observer, ObserverTypeOK
  <2>3. CASE BootstrapStep
    BY <2>1, <2>2, <2>3, BootstrapKeepsBase DEF TInv, BootstrapStep
  <2>4. CASE StatusStep
    <3>1. Base'
      BY <2>4, InspectReads, ReadersKeepBase DEF TInv, StatusStep
    <3>2. /\ InspectionTypeOK' /\ LockOK(slock)'
          /\ (spc \in ProbeLabels => sindex \in DOMAIN slock)'
      BY <2>4, InspectKeepsTypes DEF StatusStep, LockOK, Configured
    <3> QED BY <2>2, <2>4, <3>1, <3>2 DEF TInv, StatusStep
  <2>5. CASE ObserverStep
    <3>1. Base'
      BY <2>5, ObserveReads, ReadersKeepBase DEF TInv, ObserverStep
    <3> QED BY <2>1, <2>5, <3>1, ObserverKeepsTypes DEF TInv, ObserverStep
  <2>6. CASE EnvironmentStep
    BY <2>1, <2>2, <2>6, EnvironmentKeepsBase DEF TInv, EnvironmentStep
  <2>7. CASE UNCHANGED workspace
    <3>1. Base'
      BY <2>7, ReadersKeepBase DEF TInv, workspace, world, Base, IInv, TypeOK, WorldTypeOK
    <3> QED BY <2>1, <2>2, <2>7, <3>1 DEF TInv, workspace
  <2> QED BY <2>3, <2>4, <2>5, <2>6, <2>7 DEF WorkspaceNext
<1> QED BY <1>1, <1>2, PTL DEF WorkspaceSpec

\* Every variable of the scripts that work together keeps its type, and the
\* lock a script took is a sequence of parsed components.
THEOREM TypesHold == WorkspaceSpec => []WorkspaceTypeOK
<1>1. TInv => WorkspaceTypeOK
  BY DEF TInv, WorkspaceTypeOK, Base, IInv, TypeOK
<1> QED BY <1>1, TypeInvariant, PTL

-----------------------------------------------------------------------------
(***************************************************************************)
(* The traceback of status.                                                *)
(***************************************************************************)
Died == spc = "idle" /\ exit = "traceback"

\* What status has found at the current path is still there, unless a clone
\* was taken back, which is a failure.
Present ==
  /\ \A path \in Paths : ssince[path] <= interventions[path]
  /\ spc \in ProbeLabels \/ Died =>
       /\ sindex \in DOMAIN slock
       /\ interventions[Inspected.path] = ssince[Inspected.path] =>
            \/ Seen.kind # "absent" /\ (Died => Seen.kind = "file")
            \/ faults > 0

LEMMA InspectedIsAPath ==
  ASSUME TInv, sindex \in DOMAIN slock
  PROVE  Inspected.path \in Paths /\ Seen.kind \in {"absent", "file", "plain", "worktree"}
<1>1. Inspected \in ParsedComponent
  BY DEF TInv, LockOK, Inspected
<1> QED BY <1>1 DEF Seen, ParsedComponent, TInv, Base, IInv, TypeOK, WorldTypeOK, Checkout

LEMMA CountGrows ==
  ASSUME TInv, NEW ok, Count(ok)
  PROVE  faults' >= faults
BY DEF TInv, Base, IInv, TypeOK, WorldTypeOK, Count

\* Failures are counted.
LEMMA ReadersCount ==
  ASSUME TInv, Inspect \/ Observe
  PROVE  faults \in Nat /\ faults' \in Nat /\ faults' >= faults
<1>1. faults \in Nat
  BY DEF TInv, Base, IInv, TypeOK, WorldTypeOK
<1>2. faults' \in Nat
  BY InspectReads, ObserveReads DEF TInv
<1>3. CASE faults' = faults
  BY <1>1, <1>3
<1>4. CASE faults' # faults
  <2>1. \E ok : Count(ok)
    BY <1>4 DEF Inspect, LoadLock, ProbePath, ProbeWorktree, ProbeRevision, ProbeAttached,
       ProbeOrigin, ProbeDirty, ProbeUpstream, ProbeTraceback, Report, Observe, LoadZakura,
       RequireHead, RequireClean, RequireTools, StartChild, ChildExits, ZakuraTraceback, world
  <2> QED BY <1>1, <1>2, <2>1, CountGrows
<1> QED BY <1>1, <1>2, <1>3, <1>4

LEMMA InspectionFindsPresent ==
  ASSUME TInv, Present, StatusStep
  PROVE  Present'
<1>1. Inspect
  BY DEF StatusStep
<1>2. UNCHANGED <<disk, interventions>> /\ interventions \in [Paths -> Nat]
  BY <1>1, InspectReads DEF TInv, Base, IInv, TypeOK, WorldTypeOK
<1>3. faults \in Nat /\ faults' \in Nat /\ faults' >= faults
  BY <1>1, ReadersCount
<1>4. CASE LoadLock
  BY <1>2, <1>4 DEF LoadLock, Present, ProbeLabels, Died
<1>5. CASE Report
  BY <1>2, <1>5 DEF Report, Present, ProbeLabels, Died
<1>6. ASSUME NEW state, SReport(state)
      PROVE  Present'
  BY <1>2, <1>6 DEF SReport, Present, ProbeLabels, Died
<1>7. ASSUME NEW next \in ProbeLabels, SGoto(next), sindex \in DOMAIN slock,
             spc \in ProbeLabels \/ Seen.kind # "absent"
      PROVE  Present'
  <2>1. UNCHANGED <<sindex, slock, ssince>> /\ spc' = next /\ Inspected' = Inspected
        /\ Seen' = Seen /\ ~Died'
    BY <1>2, <1>7 DEF SGoto, Inspected, Seen, Died, ProbeLabels
  <2> QED BY <1>2, <1>3, <1>7, <2>1 DEF Present
<1>8. CASE ProbePath
  BY <1>6, <1>7, <1>8 DEF ProbePath, ProbeLabels
<1>9. CASE ProbeTraceback
  <2>1. /\ UNCHANGED <<sindex, slock, ssince, faults>> /\ Inspected' = Inspected
        /\ Seen' = Seen /\ spc \in ProbeLabels /\ Seen.kind \notin {"plain", "worktree"}
    BY <1>2, <1>9 DEF ProbeTraceback, world, Inspected, Seen, IsDirectory
  <2> QED BY <1>2, <2>1, InspectedIsAPath DEF Present
<1>10. CASE spc \in ProbeLabels /\ ~ProbeTraceback
  <2>1. sindex \in DOMAIN slock
    BY <1>10 DEF Present
  <2>2. (\E state : SReport(state)) \/ (\E next \in ProbeLabels : SGoto(next))
    BY <1>1, <1>10 DEF Inspect, LoadLock, ProbePath, ProbeWorktree, ProbeRevision,
       ProbeAttached, ProbeOrigin, ProbeDirty, ProbeUpstream, Report, ProbeLabels
  <2> QED BY <1>6, <1>7, <1>10, <2>1, <2>2
<1> QED BY <1>1, <1>4, <1>5, <1>8, <1>9, <1>10 DEF Inspect, ProbeWorktree, ProbeRevision,
      ProbeAttached, ProbeOrigin, ProbeDirty, ProbeUpstream, Reads, ProbeLabels

\* What is there stays, but for a clone that fails or is killed.
LEMMA OnlyAFailureRemoves ==
  ASSUME Sane, Bootstrap \/ Kill, NEW path \in Paths, disk[path].kind # "absent"
  PROVE  /\ disk'[path].kind # "absent" \/ faults' > 0
         /\ disk[path].kind = "file" => disk'[path].kind = "file"
<1>1. disk[path].kind = "file" => disk'[path].kind = "file"
  BY CommandSpares DEF Survives
<1>2. CASE disk'[path] = disk[path]
  BY <1>1, <1>2
<1>3. CASE disk'[path] # disk[path]
  <2>1. PICK after : /\ index \in DOMAIN lock /\ Write(after)
                     /\ Clones(after) \/ Repairs(after)
    BY <1>3, BootstrapWrites DEF Mends
  <2>2. /\ Current.path \in Paths /\ Here \in Checkout /\ disk \in [Paths -> Checkout]
        /\ faults \in Nat
    BY <2>1, CurrentFacts DEF Sane, TypeOK, WorldTypeOK
  <2>3. disk[path] = Here /\ disk'[path] = after
    BY <1>3, <2>1, <2>2 DEF Write, Here
  <2>4. Here.kind # "absent"
    BY <2>3
  <2>5. CASE after = Absent /\ faults' = faults + 1
    BY <1>1, <2>2, <2>5
  <2>6. CASE after \in {Cloned, HalfWritten(Cloned)}
    BY <1>1, <2>2, <2>3, <2>4, <2>6 DEF Cloned, FullClone, HalfWritten, Checkout
  <2>7. CASE Repairs(after)
    BY <1>1, <2>2, <2>3, <2>7 DEF Repairs, Fetched, Detached, HalfWritten, Checkout
  <2> QED BY <2>1, <2>4, <2>5, <2>6, <2>7 DEF Clones
<1> QED BY <1>2, <1>3

LEMMA BootstrapLeavesPresent ==
  ASSUME TInv, Present, BootstrapStep
  PROVE  Present'
<1>1. (Bootstrap \/ Kill) /\ UNCHANGED inspection
  BY DEF BootstrapStep
<1>2. Sane /\ faults \in Nat
  BY RunIsSane DEF TInv, Base, IInv, TypeOK, WorldTypeOK
<1>3. UNCHANGED interventions /\ faults' \in Nat /\ faults' >= faults
  BY <1>1, <1>2, CommandFrame
<1>4. CASE ~(spc \in ProbeLabels \/ Died)
  BY <1>1, <1>3, <1>4 DEF inspection, Present, Died
<1>5. CASE spc \in ProbeLabels \/ Died
  <2>1. /\ sindex \in DOMAIN slock /\ Inspected.path \in Paths
        /\ Inspected' = Inspected /\ Seen' = disk'[Inspected.path]
    BY <1>1, <1>5, InspectedIsAPath DEF inspection, Present, Inspected, Seen
  <2>2. Seen.kind # "absent" => /\ Seen'.kind # "absent" \/ faults' > 0
                                /\ Seen.kind = "file" => Seen'.kind = "file"
    BY <1>1, <1>2, <2>1, OnlyAFailureRemoves DEF Seen
  <2> QED BY <1>1, <1>2, <1>3, <2>1, <2>2 DEF inspection, Present, Died
<1> QED BY <1>4, <1>5

LEMMA EnvironmentLeavesPresent ==
  ASSUME TInv, Present, EnvironmentStep
  PROVE  Present'
<1>1. Environment /\ UNCHANGED inspection
  BY DEF EnvironmentStep
<1>2. UNCHANGED faults
  BY <1>1 DEF Environment, Publish, Intervene, EditLock
<1>3. /\ \A path \in Paths : ssince[path] <= interventions'[path]
      /\ \A path \in Paths : interventions'[path] = ssince[path] =>
           interventions[path] = ssince[path] /\ disk'[path] = disk[path]
  BY <1>1, InterventionsCount DEF TInv, Present, InspectionTypeOK
<1>4. CASE ~(spc \in ProbeLabels \/ Died)
  BY <1>1, <1>3, <1>4 DEF inspection, Present, Died
<1>5. CASE spc \in ProbeLabels \/ Died
  <2>1. sindex \in DOMAIN slock /\ Inspected.path \in Paths
    BY <1>5, InspectedIsAPath DEF Present
  <2> QED BY <1>1, <1>2, <1>3, <2>1 DEF inspection, Present, Died, Inspected, Seen
<1> QED BY <1>4, <1>5

LEMMA OthersLeavePresent ==
  ASSUME TInv, Present, UNCHANGED <<inspection, disk, interventions>>,
         faults' \in Nat, faults' >= faults
  PROVE  Present'
<1>1. faults \in Nat
  BY DEF TInv, Base, IInv, TypeOK, WorldTypeOK
<1> QED BY <1>1 DEF inspection, Present, Died, Inspected, Seen

\* status ends in a traceback, with no record printed, only over a regular
\* file, or where a clone or a query has failed: a checkout it has seen does not
\* vanish beside a bootstrap whose clones succeed (_probe, inspect_components).
THEOREM TracebackNeedsAFile == WorkspaceSpec => []TracebackOnlyOverAFile
<1>1. WorkspaceInit => Present
  <2> SUFFICES ASSUME WorkspaceInit PROVE Present
    OBVIOUS
  <2>1. interventions \in [Paths -> Nat]
    BY ObserverInitially DEF ZInv, Base, IInv, TypeOK, WorldTypeOK
  <2> QED BY <2>1 DEF WorkspaceInit, InspectionInit, Present, ProbeLabels, Died
<1>2. TInv /\ Present /\ [WorkspaceNext]_workspace => Present'
  <2> SUFFICES ASSUME TInv, Present, [WorkspaceNext]_workspace PROVE Present'
    OBVIOUS
  <2>1. CASE BootstrapStep
    BY <2>1, BootstrapLeavesPresent
  <2>2. CASE StatusStep
    BY <2>2, InspectionFindsPresent
  <2>3. CASE ObserverStep
    BY <2>3, ObserveReads, ReadersCount, OthersLeavePresent DEF TInv, ObserverStep
  <2>4. CASE EnvironmentStep
    BY <2>4, EnvironmentLeavesPresent
  <2>5. CASE UNCHANGED workspace
    <3>1. faults \in Nat /\ UNCHANGED <<inspection, disk, interventions, faults>>
      BY <2>5 DEF workspace, world, TInv, Base, IInv, TypeOK, WorldTypeOK
    <3>2. faults' \in Nat /\ faults' >= faults
      BY <3>1
    <3> QED BY <3>1, <3>2, OthersLeavePresent
  <2> QED BY <2>1, <2>2, <2>3, <2>4, <2>5 DEF WorkspaceNext
<1>3. Present => TracebackOnlyOverAFile
  BY DEF Present, TracebackOnlyOverAFile, Died, Inspected, Seen
<1> QED BY <1>1, <1>2, <1>3, TypeInvariant, PTL DEF WorkspaceSpec
=============================================================================
