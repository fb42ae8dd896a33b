------------------------ MODULE TwoBootstrapsProofs ------------------------
(***************************************************************************)
(* Two bootstraps at once keep OnlyClonesInterfere, for every lock, every  *)
(* initial workspace and every bound.                                      *)
(*                                                                         *)
(* Each process alone knows what its commands showed it (Knows, proved     *)
(* step by step in ComponentBootstrapProofs).  A command of the other      *)
(* process only mends the checkouts it did not just clone (CommandBeside), *)
(* and mending takes no knowledge away (OthersKeep).  What remains is the  *)
(* clone in flight: NoCloneUnder says that nobody vouches for its path.    *)
(***************************************************************************)
EXTENDS TwoBootstraps, ComponentBootstrapProofs

\* The lemmas of a single run, read of the second process.
SP == INSTANCE ComponentBootstrapProofs WITH
  pc <- pc2, lock <- lock2, index <- index2, label <- label2, atPin <- atPin2,
  results <- results2, outcome <- outcome2, since <- since2, before <- before2

-----------------------------------------------------------------------------
(***************************************************************************)
(* The two instances of ComponentBootstrap for the second process, the one *)
(* TwoBootstraps runs and the one the lemmas are about, say the same.      *)
(***************************************************************************)
LEMMA SameConstants ==
  /\ SP!Objects = Objects
  /\ SP!Checkout = Checkout
  /\ SP!ParsedComponent = ParsedComponent
  /\ SP!Document = Document
BY DEF SP!Objects, Objects, SP!Checkout, Checkout, SP!ParsedComponent,
  ParsedComponent, SP!Document, Document, SP!RawTable, RawTable, SP!BaseFields,
  BaseFields, SP!PairedFields, PairedFields, SP!OptionalFields, OptionalFields

\* What an operator of the lock and of checkouts means does not depend on the run.
LEMMA SameOperators ==
  /\ \A components : SP!Configured(components) = Configured(components)
  /\ \A components : Second!Configured(components) = Configured(components)
  /\ \A component, old, new, spoilt :
       SP!Mended(component, old, new, spoilt) = Mended(component, old, new, spoilt)
  /\ \A component, checkout, spoilt :
       SP!Settled(component, checkout, spoilt) = Settled(component, checkout, spoilt)
BY DEF SP!Configured, Configured, Second!Configured, SP!IsConfigured,
  IsConfigured, Second!IsConfigured, SP!Mended, Mended, SP!Peel, Peel, SP!Settled,
  Settled

\* The types of a run.
LEMMA SameTypes ==
  /\ SP!TypeOK <=> WorldTypeOK /\ Second!RunTypeOK
  /\ SP!TypeOK' <=> WorldTypeOK' /\ Second!RunTypeOK'
BY SameConstants DEF SP!TypeOK, SP!WorldTypeOK, WorldTypeOK, SP!RunTypeOK,
  Second!RunTypeOK, SP!Checkout, Second!Checkout, SP!Objects, Second!Objects,
  SP!ParsedComponent, Second!ParsedComponent, SP!Labels, Second!Labels,
  SP!InCheckout, Second!InCheckout

\* The types and the initial values of a run.
LEMMA SameRunTypes ==
  /\ SP!RunTypeOK <=> Second!RunTypeOK
  /\ SP!RunInit <=> Second!RunInit
BY DEF SP!RunTypeOK, Second!RunTypeOK, SP!RunInit, Second!RunInit, SP!Checkout,
  Second!Checkout, SP!Objects, Second!Objects, SP!ParsedComponent,
  Second!ParsedComponent, SP!Labels, Second!Labels, SP!InCheckout,
  Second!InCheckout

\* The lock and the position of a run.
LEMMA SameShape ==
  /\ SP!Shape <=> Second!Shape
  /\ SP!Shape' <=> Second!Shape'
  /\ SP!Vouched = Second!Vouched
  /\ SP!Vouched' = Second!Vouched'
  /\ SP!Current = Second!Current
  /\ SP!Current' = Second!Current'
BY DEF SP!Shape, Second!Shape, SP!Configured, Second!Configured, SP!IsConfigured,
  Second!IsConfigured, SP!Objects, Second!Objects, SP!Current, Second!Current,
  SP!Vouched, Second!Vouched, SP!InCheckout, Second!InCheckout

\* What a run knows.
LEMMA SameKnowledge ==
  ASSUME NEW ours, NEW spoilt
  PROVE  /\ SP!Evidence(ours, spoilt) <=> Second!Evidence(ours, spoilt)
         /\ SP!Evidence(ours, spoilt)' <=> Second!Evidence(ours, spoilt)'
         /\ SP!Done(ours, spoilt) <=> Second!Done(ours, spoilt)
         /\ SP!Done(ours, spoilt)' <=> Second!Done(ours, spoilt)'
BY DEF SP!Evidence, Second!Evidence, SP!Done, Second!Done, SP!Settled,
  Second!Settled, SP!Peel, Second!Peel, SP!Configured, Second!Configured,
  SP!IsConfigured, Second!IsConfigured, SP!Current, Second!Current, SP!Here,
  Second!Here, SP!InCheckout, Second!InCheckout, SP!AfterStatus,
  Second!AfterStatus, SP!AfterOrigin, Second!AfterOrigin, SP!AfterUpstream,
  Second!AfterUpstream

\* The helpers of the actions, one by one.
LEMMA SameHelpers ==
  /\ SP!Current = Second!Current
  /\ SP!Here = Second!Here
  /\ SP!Rest <=> Second!Rest
  /\ SP!Query <=> Second!Query
  /\ SP!Raise <=> Second!Raise
  /\ SP!Cloned = Second!Cloned
  /\ SP!Absent = Second!Absent
  /\ SP!RewritesFiles <=> Second!RewritesFiles
  /\ SP!InCheckout = Second!InCheckout
  /\ \A checkout : SP!Write(checkout) <=> Second!Write(checkout)
  /\ \A checkout : SP!HalfWritten(checkout) = Second!HalfWritten(checkout)
  /\ \A how : SP!Stop(how) <=> Second!Stop(how)
  /\ \A next : SP!Goto(next) <=> Second!Goto(next)
  /\ \A next, good : SP!Proceed(good, next) <=> Second!Proceed(good, next)
  /\ \A action : SP!Return(action) <=> Second!Return(action)
  /\ \A command : SP!At(command) <=> Second!At(command)
  /\ \A command : SP!Answers(command) = Second!Answers(command)
  /\ \A ok : SP!Count(ok) <=> Second!Count(ok)
BY DEF SP!Current, Second!Current, SP!Here, Second!Here, SP!Rest, Second!Rest,
  SP!Query, Second!Query, SP!Raise, Second!Raise, SP!Stop, Second!Stop, SP!Cloned,
  Second!Cloned, SP!FullClone, Second!FullClone, SP!Absent, Second!Absent,
  SP!NotARepository, Second!NotARepository, SP!RewritesFiles,
  Second!RewritesFiles, SP!CanDetach, Second!CanDetach, SP!Peel, Second!Peel,
  SP!InCheckout, Second!InCheckout, SP!Write, Second!Write, SP!HalfWritten,
  Second!HalfWritten, SP!Goto, Second!Goto, SP!Proceed, Second!Proceed, SP!Return,
  Second!Return, SP!At, Second!At, SP!IsDirectory, Second!IsDirectory, SP!Answers,
  Second!Answers, SP!Count, Second!Count

\* Both instances read a lock document alike.
LEMMA SameLoads ==
  /\ \A document : SP!Loads(document) <=> Second!Loads(document)
  /\ \A document : SP!Parse(document) = Second!Parse(document)
BY DEF SP!Loads, Second!Loads, SP!UniquePaths, Second!UniquePaths,
  SP!AcceptsTable, Second!AcceptsTable, SP!AcceptsOptional,
  Second!AcceptsOptional, SP!AcceptsConfigured, Second!AcceptsConfigured,
  SP!IsSibling, Second!IsSibling, SP!IsRevision, Second!IsRevision,
  SP!OptionalFields, Second!OptionalFields, SP!BaseFields, Second!BaseFields,
  SP!PairedFields, Second!PairedFields, SP!Parse, Second!Parse, SP!ParseTable,
  Second!ParseTable

\* The actions, one by one.
LEMMA SameLoad == SP!Load <=> Second!Load
BY SameHelpers, SameLoads DEF SP!Load, Second!Load, SP!world, Second!world

LEMMA SameSkip == SP!Skip <=> Second!Skip
BY SameHelpers DEF SP!Skip, Second!Skip, SP!IsConfigured, Second!IsConfigured

LEMMA SameFindCheckout == SP!FindCheckout <=> Second!FindCheckout
BY SameHelpers DEF SP!FindCheckout, Second!FindCheckout, SP!IsConfigured,
  Second!IsConfigured

LEMMA SameBeginClone == SP!BeginClone <=> Second!BeginClone
BY SameHelpers DEF SP!BeginClone, Second!BeginClone, SP!EmptyClone,
  Second!EmptyClone

LEMMA SameEndClone == SP!EndClone <=> Second!EndClone
BY SameHelpers DEF SP!EndClone, Second!EndClone

LEMMA SameCheckWorktree == SP!CheckWorktree <=> Second!CheckWorktree
BY SameHelpers DEF SP!CheckWorktree, Second!CheckWorktree

LEMMA SameCheckStatus == SP!CheckStatus <=> Second!CheckStatus
BY SameHelpers DEF SP!CheckStatus, Second!CheckStatus, SP!StatusIsEmpty,
  Second!StatusIsEmpty, SP!StatusSucceeds, Second!StatusSucceeds

LEMMA SameCheckOrigin == SP!CheckOrigin <=> Second!CheckOrigin
BY SameHelpers DEF SP!CheckOrigin, Second!CheckOrigin

LEMMA SameCheckUpstream == SP!CheckUpstream <=> Second!CheckUpstream
BY SameHelpers DEF SP!CheckUpstream, Second!CheckUpstream

LEMMA SameAddUpstream == SP!AddUpstream <=> Second!AddUpstream
BY SameHelpers DEF SP!AddUpstream, Second!AddUpstream

LEMMA SameResolve1 == SP!Resolve1 <=> Second!Resolve1
BY SameHelpers DEF SP!Resolve1, Second!Resolve1

LEMMA SameFetchOrigin == SP!FetchOrigin <=> Second!FetchOrigin
BY SameHelpers DEF SP!FetchOrigin, Second!FetchOrigin, SP!Fetched, Second!Fetched

LEMMA SameResolve2 == SP!Resolve2 <=> Second!Resolve2
BY SameHelpers DEF SP!Resolve2, Second!Resolve2

LEMMA SameReadHead == SP!ReadHead <=> Second!ReadHead
BY SameHelpers DEF SP!ReadHead, Second!ReadHead

LEMMA SameReadAttachment == SP!ReadAttachment <=> Second!ReadAttachment
BY SameHelpers DEF SP!ReadAttachment, Second!ReadAttachment

LEMMA SameCheckoutPin == SP!CheckoutPin <=> Second!CheckoutPin
BY SameHelpers DEF SP!CheckoutPin, Second!CheckoutPin, SP!CanDetach,
  Second!CanDetach, SP!Detached, Second!Detached, SP!Peel, Second!Peel

LEMMA SameTraceback == SP!Traceback <=> Second!Traceback
BY SameHelpers DEF SP!Traceback, Second!Traceback, SP!IsDirectory,
  Second!IsDirectory

LEMMA SameFinish == SP!Finish <=> Second!Finish
BY SameHelpers DEF SP!Finish, Second!Finish

LEMMA SameKill == SP!Kill <=> Second!Kill
BY SameHelpers DEF SP!Kill, Second!Kill

\* So every command of the second process is one the lemmas speak of.
LEMMA SameBootstrap == SP!Bootstrap <=> Second!Bootstrap
BY SameLoad, SameSkip, SameFindCheckout, SameBeginClone, SameEndClone,
  SameCheckWorktree, SameCheckStatus, SameCheckOrigin, SameCheckUpstream,
  SameAddUpstream, SameResolve1, SameFetchOrigin, SameResolve2, SameReadHead,
  SameReadAttachment, SameCheckoutPin, SameTraceback, SameFinish DEF SP!Bootstrap,
  Second!Bootstrap

\* What the two instances make of the state.
LEMMA SameSanity ==
  /\ SP!Sane <=> Second!Sane
  /\ SP!Sane' <=> Second!Sane'
  /\ Second!Sane <=> WorldTypeOK /\ Second!RunTypeOK /\ Second!Shape
  /\ Second!Sane' <=> WorldTypeOK' /\ Second!RunTypeOK' /\ Second!Shape'
<1>1. Second!WorldTypeOK <=> WorldTypeOK
  BY DEF Second!WorldTypeOK, WorldTypeOK, Second!Checkout, Checkout,
    Second!Objects, Objects
<1>2. Second!WorldTypeOK' <=> WorldTypeOK'
  BY DEF Second!WorldTypeOK, WorldTypeOK, Second!Checkout, Checkout,
    Second!Objects, Objects
<1> QED BY <1>1, <1>2, SameTypes, SameShape DEF SP!Sane, Second!Sane,
  Second!TypeOK

\* The world around the processes is one.
LEMMA SameEnvironment == SP!Environment <=> Environment
BY DEF SP!Environment, Environment, SP!Publish, Publish, SP!Intervene, Intervene,
  SP!EditLock, EditLock, SP!Edited, Edited, SP!Absent, Absent, SP!NotARepository,
  NotARepository

\* All of it together.
LEMMA SameKnows ==
  ASSUME NEW ours, NEW spoilt
  PROVE  /\ SP!Knows(ours, spoilt) <=> Second!Knows(ours, spoilt)
         /\ SP!Knows(ours, spoilt)' <=> Second!Knows(ours, spoilt)'
BY SameSanity, SameKnowledge DEF SP!Knows, Second!Knows

-----------------------------------------------------------------------------
(***************************************************************************)
(* What ComponentBootstrapProofs says of the second process.               *)
(***************************************************************************)
\* A command keeps the types and the shape of the process that takes it.
LEMMA SecondKeepsSanity ==
  ASSUME Second!Sane, Second!Bootstrap \/ Second!Kill
  PROVE  Second!Sane'
BY SP!CommandKeepsSanity, ObjectsAssumption, RawAssumption, WorldAssumption,
  AttachmentAssumption, SameConstants, SameSanity, SameBootstrap, SameKill DEF
  SP!CommandKeepsSanity

\* A run starts knowing nothing it could be wrong about.
LEMMA SecondLoads ==
  ASSUME NEW ours, NEW spoilt, Second!Sane, Second!Load
  PROVE  Second!Knows(ours, spoilt)'
BY SP!LoadKeeps, ObjectsAssumption, RawAssumption, WorldAssumption,
  AttachmentAssumption, SameConstants, SameSanity, SameKnows, SameLoad DEF
  SP!LoadKeeps

\* A command leaves its process with the knowledge its answer gives.
LEMMA SecondKeeps ==
  ASSUME NEW ours, NEW spoilt, Second!Knows(ours, spoilt),
         Second!Bootstrap \/ Second!Kill
  PROVE  Second!Knows(ours, spoilt)'
BY SP!CommandKeeps, ObjectsAssumption, RawAssumption, WorldAssumption,
  AttachmentAssumption, SameConstants, SameKnows, SameBootstrap, SameKill DEF
  SP!CommandKeeps

\* What a command may touch besides the checkouts.
LEMMA SecondFrame ==
  ASSUME Second!Sane, Second!Bootstrap \/ Second!Kill
  PROVE  /\ UNCHANGED <<served, edition, interventions>>
         /\ Second!Load \/ (pc2 # "idle" /\ UNCHANGED <<lock2, since2, before2>>)
         /\ faults' \in Nat /\ faults' >= faults
BY SP!CommandFrame, ObjectsAssumption, RawAssumption, WorldAssumption,
  AttachmentAssumption, SameConstants, SameSanity, SameBootstrap, SameKill,
  SameLoad DEF SP!CommandFrame

\* A checkout is only inspected under a component of the lock.
LEMMA SecondEntered ==
  ASSUME Second!Sane, Second!Bootstrap \/ Second!Kill, pc2' = "worktree", pc2 # "idle"
  PROVE  index2 \in DOMAIN lock2
BY SP!WorktreeEntered, ObjectsAssumption, RawAssumption, WorldAssumption,
  AttachmentAssumption, SameConstants, SameSanity, SameBootstrap, SameKill DEF
  SP!WorktreeEntered

\* The path a step begins to vouch for is that of the component it inspects.
LEMMA SecondVouchedGrows ==
  ASSUME Second!Sane, Second!Bootstrap \/ Second!Kill, NEW path \in Second!Vouched'
  PROVE  /\ pc2 # "idle" /\ UNCHANGED lock2
         /\ path \in Second!Vouched \/ (pc2' = "worktree"
              /\ index2 \in Configured(lock2) /\ path = Second!Current.path)
BY SP!VouchedGrows, ObjectsAssumption, RawAssumption, WorldAssumption,
  AttachmentAssumption, SameConstants, SameSanity, SameBootstrap, SameKill,
  SameShape, SameOperators DEF SP!VouchedGrows

\* Nobody vouches for a path where nothing is.
LEMMA SecondVouchedExists ==
  ASSUME NEW ours, NEW spoilt, Second!Knows(ours, spoilt),
         NEW path \in Second!Vouched \cap ours
  PROVE  disk[path].kind # "absent"
BY SP!VouchedExists, ObjectsAssumption, RawAssumption, WorldAssumption,
  AttachmentAssumption, SameConstants, SameKnows, SameShape DEF SP!VouchedExists

\* Knowledge of fewer paths, or after more faults, is less.
LEMMA SecondKnowsLess ==
  ASSUME NEW ours, NEW theirs, theirs \subseteq ours,
         NEW spoilt, NEW worse, spoilt => worse, Second!Knows(ours, spoilt)
  PROVE  Second!Knows(theirs, worse)
BY SP!KnowsLess, ObjectsAssumption, RawAssumption, WorldAssumption,
  AttachmentAssumption, SameConstants, SameKnows DEF SP!KnowsLess

\* Mending what a process vouches for takes none of its knowledge away.
LEMMA SecondSurvives ==
  ASSUME NEW ours, NEW spoilt, NEW worse, spoilt => worse,
         Second!Knows(ours, spoilt), UNCHANGED run2, WorldTypeOK',
         \A path \in Paths : since2[path] <= interventions'[path],
         \A i \in Configured(lock2) : lock2[i].path \in ours \cap Second!Vouched =>
           Mended(lock2[i], disk[lock2[i].path], disk'[lock2[i].path], worse)
  PROVE  Second!Knows(ours, worse)'
<1>1. SP!run' = SP!run
  BY DEF SP!run, run2
<1>2. Second!RunTypeOK'
  BY SameSanity DEF Second!Knows, Second!RunTypeOK, run2
<1>3. SP!TypeOK'
  BY <1>2, SameTypes
<1> QED BY <1>1, <1>3, SP!OthersKeep, ObjectsAssumption, RawAssumption,
  WorldAssumption, AttachmentAssumption, SameConstants, SameKnows, SameShape,
  SameOperators, SameTypes DEF SP!OthersKeep

\* A command mends the checkout of any component but one it is cloning.
LEMMA SecondBeside ==
  ASSUME Second!Sane, Second!Bootstrap \/ Second!Kill,
         NEW component, component.path \in Paths,
         index2 \in Configured(lock2) /\ component.path = Second!Current.path =>
           component = Second!Current /\ pc2 # "cloning",
         disk[component.path].kind # "absent"
  PROVE  Mended(component, disk[component.path], disk'[component.path], faults' > 0)
BY SP!CommandBeside, ObjectsAssumption, RawAssumption, WorldAssumption,
  AttachmentAssumption, SameConstants, SameSanity, SameBootstrap, SameKill,
  SameShape, SameOperators DEF SP!CommandBeside

\* A clone begins where nothing is.
LEMMA SecondCloneBegins ==
  ASSUME Second!Sane, Second!Bootstrap \/ Second!Kill, pc2' = "cloning"
  PROVE  Second!Here.kind = "absent" /\ UNCHANGED <<lock2, index2>>
BY SP!CloneBegins, ObjectsAssumption, RawAssumption, WorldAssumption,
  AttachmentAssumption, SameConstants, SameSanity, SameBootstrap, SameKill,
  SameHelpers DEF SP!CloneBegins

\* Releases, lock edits and interventions elsewhere leave knowledge alone.
LEMMA SecondWorldKeeps ==
  ASSUME NEW ours, NEW theirs, theirs \subseteq ours, NEW spoilt,
         Second!Knows(ours, spoilt), Environment, UNCHANGED run2,
         \A path \in Paths \cap theirs : disk'[path] = disk[path]
  PROVE  Second!Knows(theirs, spoilt)'
<1>1. SP!run' = SP!run
  BY DEF SP!run, run2
<1> QED BY <1>1, SP!WorldKeeps, ObjectsAssumption, RawAssumption, WorldAssumption,
  AttachmentAssumption, SameConstants, SameKnows, SameEnvironment DEF
  SP!WorldKeeps

\* A run that succeeded vouches for every component.
LEMMA SecondSettled ==
  ASSUME NEW ours, NEW spoilt, Second!Knows(ours, spoilt), outcome2 = "succeeded",
         NEW i \in Configured(lock2), lock2[i].path \in ours
  PROVE  Settled(lock2[i], disk[lock2[i].path], spoilt)
BY SP!AllSettled, ObjectsAssumption, RawAssumption, WorldAssumption,
  AttachmentAssumption, SameConstants, SameKnows, SameOperators DEF SP!AllSettled

\* Between idle and next a process is at a configured component.
LEMMA SecondInRun ==
  ASSUME Second!Sane, pc2 \notin {"idle", "next"}
  PROVE  index2 \in Configured(lock2)
BY SP!InRun, ObjectsAssumption, RawAssumption, WorldAssumption,
  AttachmentAssumption, SameConstants, SameSanity, SameOperators DEF SP!InRun

\* Components have paths.
LEMMA SecondLockedPaths ==
  ASSUME Second!Sane, NEW i \in DOMAIN lock2
  PROVE  lock2[i] \in ParsedComponent /\ lock2[i].path \in Paths
BY SP!LockedPaths, ObjectsAssumption, RawAssumption, WorldAssumption,
  AttachmentAssumption, SameConstants, SameSanity DEF SP!LockedPaths

\* Both processes parse a document alike.
LEMMA SameParse == \A document : Second!Parse(document) = Parse(document)
BY DEF Second!Parse, Parse, Second!ParseTable, ParseTable, Second!OptionalFields,
  OptionalFields, Second!PairedFields, PairedFields, Second!BaseFields, BaseFields

\* The same as SecondSurvives, for the first process.
LEMMA FirstSurvives ==
  ASSUME NEW ours, NEW spoilt, NEW worse, spoilt => worse,
         Knows(ours, spoilt), UNCHANGED run, WorldTypeOK',
         \A path \in Paths : since[path] <= interventions'[path],
         \A i \in Configured(lock) : lock[i].path \in ours \cap Vouched =>
           Mended(lock[i], disk[lock[i].path], disk'[lock[i].path], worse)
  PROVE  Knows(ours, worse)'
<1>1. TypeOK'
  BY DEF Knows, Sane, TypeOK, RunTypeOK, run
<1> QED BY <1>1, OthersKeep

-----------------------------------------------------------------------------
(***************************************************************************)
(* The two together.                                                       *)
(***************************************************************************)
\* Both processes have their types and shapes, whatever the edition.
LEMMA BothSane ==
  ASSUME BothKnow
  PROVE  Sane /\ Second!Sane
BY SameSanity DEF BothKnow, BothTypeOK, Sane, TypeOK

\* Of the lock's first edition, both know what they have seen.
LEMMA BothInformed ==
  ASSUME BothKnow, edition = 1
  PROVE  /\ Knows(Ours("first"), faults > 0)
         /\ Second!Knows(Ours("second"), faults > 0)
BY BothSane DEF BothKnow, Knows, Second!Knows

\* Processes of one lock have one component at a path.
LEMMA OneComponent ==
  ASSUME BothKnow, edition = 1, NEW i \in Configured(lock), NEW j \in Configured(lock2),
         lock[i].path = lock2[j].path
  PROVE  lock[i] = lock2[j] /\ i = j
<1>1. i \in DOMAIN lock /\ j \in DOMAIN lock2
  BY DEF Configured
<1>2. lock = lock2
  BY <1>1 DEF BothKnow, SameLock
<1> QED BY <1>1, <1>2 DEF BothKnow, Shape

\* Healthy, but for files that a failed command left half-written.
Fine(component, checkout) ==
  /\ Healthy(component, [checkout EXCEPT !.tree = "clean"])
  /\ faults = 0 => checkout.tree = "clean"

\* A checkout a run vouches for is one OnlyClonesInterfere accepts.
LEMMA SettledIsFine ==
  ASSUME NEW component, NEW checkout \in Checkout, faults \in Nat,
         Settled(component, checkout, faults > 0), component.revision \in Commits
  PROVE  Fine(component, checkout)
<1> DEFINE tidied == [checkout EXCEPT !.tree = "clean"]
<1>1. /\ tidied.kind = checkout.kind /\ tidied.head = checkout.head
      /\ tidied.attached = checkout.attached /\ tidied.origin = checkout.origin
      /\ tidied.upstream = checkout.upstream /\ tidied.tree = "clean"
  BY DEF Checkout
<1>2. Settled(component, tidied, FALSE)
  BY <1>1 DEF Settled
<1>3. Healthy(component, tidied)
  BY <1>2, SettledIsHealthy
<1>4. faults = 0 => checkout.tree = "clean"
  BY DEF Settled
<1> QED BY <1>3, <1>4 DEF Fine

\* A stutter changes nothing.
LEMMA NothingKeeps == ASSUME BothKnow, UNCHANGED both PROVE BothKnow'
<1>1. UNCHANGED <<run, run2, crossed, disk, served, edition, interventions, faults>>
  BY DEF both, world
<1>2. UNCHANGED <<pc, lock, index, label, atPin, results, outcome, since, before,
                  pc2, lock2, index2, label2, atPin2, results2, outcome2,
                    since2, before2>>
  BY <1>1 DEF run, run2
<1>3. BothTypeOK'
  BY <1>1, <1>2 DEF BothKnow, BothTypeOK, TypeOK, WorldTypeOK, RunTypeOK,
    Second!RunTypeOK
<1>4. Shape' /\ Second!Shape'
  BY <1>1, <1>2 DEF BothKnow, Shape, Second!Shape, Configured, Current,
    Second!Configured, Second!Current
<1>5. /\ Current' = Current /\ Here' = Here /\ Vouched' = Vouched
      /\ Second!Current' = Second!Current /\ Second!Here' = Second!Here
      /\ Second!Vouched' = Second!Vouched
      /\ Ours("first")' = Ours("first") /\ Ours("second")' = Ours("second")
      /\ SameLock' = SameLock
  BY <1>1, <1>2 DEF Current, Here, Vouched, InCheckout, Configured,
    Second!Current, Second!Here, Second!Vouched, Second!InCheckout,
    Second!Configured, Ours, SameLock
<1>6. edition = 1 =>
        /\ NoCloneUnder'
        /\ Evidence(Ours("first"), faults > 0)' /\ Done(Ours("first"), faults > 0)'
        /\ Second!Evidence(Ours("second"), faults > 0)'
        /\ Second!Done(Ours("second"), faults > 0)'
  BY <1>1, <1>2, <1>5 DEF BothKnow, NoCloneUnder, Evidence, Done, Second!Evidence,
    Second!Done, Configured, Second!Configured
<1> QED BY <1>1, <1>3, <1>4, <1>5, <1>6 DEF BothKnow

\* The second process starts with its types.
LEMMA SecondBeginsTyped ==
  ASSUME Second!RunInit, disk \in [Paths -> Checkout], interventions \in [Paths -> Nat]
  PROVE  Second!RunTypeOK
BY SP!RunsBeginTyped, ObjectsAssumption, RawAssumption, WorldAssumption,
  AttachmentAssumption, SameConstants, SameRunTypes DEF SP!RunsBeginTyped

\* The first process takes a step, and both know what they knew.
LEMMA FirstStepKeeps ==
  ASSUME BothKnow, FirstStep
  PROVE  BothKnow'
<1>1. Sane /\ Second!Sane
  BY BothSane
<1>2. Bootstrap \/ Kill
  BY DEF FirstStep
<1>3. Sane'
  BY <1>1, <1>2, CommandKeepsSanity
<1>4. UNCHANGED <<pc2, lock2, index2, label2, atPin2, results2, outcome2, since2, before2>>
  BY DEF FirstStep, run2
<1>5. /\ UNCHANGED <<served, edition, interventions>>
      /\ Load \/ (pc # "idle" /\ UNCHANGED <<lock, since, before>>)
      /\ faults' \in Nat /\ faults' >= faults /\ faults \in Nat
  BY <1>1, <1>2, CommandFrame DEF Sane, TypeOK, WorldTypeOK
<1>6. \A path \in Paths : since2[path] <= interventions'[path]
  BY <1>1, <1>5 DEF BothKnow, Second!Shape
<1>7. Second!Sane'
  <2>1. Second!Knows({}, TRUE)
    BY <1>1 DEF Second!Knows, Second!Evidence, Second!Done
  <2>2. WorldTypeOK' /\ UNCHANGED run2
    BY <1>3, <1>4 DEF Sane, TypeOK, run2
  <2>3. Second!Knows({}, TRUE)'
    BY <1>6, <2>1, <2>2, SecondSurvives
  <2> QED BY <2>3 DEF Second!Knows
<1>8. pc' = "worktree" => Current.path \in Paths \/ pc = "idle"
  <2>1. pc' = "worktree" /\ pc # "idle" => index \in DOMAIN lock
    BY <1>1, <1>2, WorktreeEntered
  <2> QED BY <1>1, <2>1, LockedPaths DEF Current
<1>9. crossed' \subseteq {"first", "second"} \X Paths
  <2>1. crossed \subseteq {"first", "second"} \X Paths
    BY DEF BothKnow, BothTypeOK
  <2>2. OfOther("first") \subseteq crossed
    BY DEF OfOther
  <2>3. CASE pc = "idle"
    BY <2>1, <2>2, <2>3 DEF FirstStep
  <2>4. CASE pc # "idle"
    BY <1>8, <2>1, <2>2, <2>4 DEF FirstStep, Found
  <2> QED BY <2>3, <2>4
<1>10. BothTypeOK' /\ Shape' /\ Second!Shape'
  BY <1>3, <1>7, <1>9, SameSanity DEF Sane, BothTypeOK
<1>11. ASSUME edition' = 1
       PROVE  /\ SameLock' /\ NoCloneUnder'
              /\ Evidence(Ours("first"), faults > 0)' /\ Done(Ours("first"), faults > 0)'
              /\ Second!Evidence(Ours("second"), faults > 0)'
              /\ Second!Done(Ours("second"), faults > 0)'
  <2> PICK mine : mine = Ours("first")'
    OBVIOUS
  <2> PICK theirs : theirs = Ours("second")
    OBVIOUS
  <2> PICK was : was = (faults > 0)
    OBVIOUS
  <2> PICK spoilt : spoilt = (faults' > 0)
    OBVIOUS
  <2>1. edition = 1 /\ SameLock /\ NoCloneUnder /\ (was => spoilt)
    <3>1. edition = 1
      BY <1>5, <1>11
    <3>2. faults > 0 => faults' > 0
      BY <1>5
    <3> QED BY <3>1, <3>2 DEF BothKnow
  <2>2. Knows(Ours("first"), was) /\ Second!Knows(theirs, was)
    BY <2>1, BothInformed
  <2>3. theirs = Ours("second")'
    <3>1. \A path : <<"second", path>> \in crossed' <=> <<"second", path>> \in crossed
      BY DEF FirstStep, OfOther, Found
    <3> QED BY <1>5, <3>1 DEF Ours
  <2>4. pc # "idle" =>
          /\ mine \subseteq Ours("first")
          /\ pc' = "worktree" /\ pc2 = "cloning" /\ Current.path = Second!Current.path
             => Current.path \notin mine
    BY <1>5 DEF FirstStep, OfOther, Found, Ours
  <2>5. Knows(mine, spoilt)'
    <3>1. CASE Load
      BY <1>1, <3>1, LoadKeeps
    <3>2. CASE pc # "idle"
      <4>1. PICK ours : ours = Ours("first")
        OBVIOUS
      <4>2. Knows(mine, spoilt)
        BY <2>1, <2>2, <2>4, <3>2, <4>1, KnowsLess
      <4> QED BY <1>2, <4>2, CommandKeeps
    <3> QED BY <1>5, <3>1, <3>2
  <2>6. ASSUME NEW j \in Configured(lock2), lock2[j].path \in theirs \cap Second!Vouched
        PROVE  Mended(lock2[j], disk[lock2[j].path], disk'[lock2[j].path], spoilt)
    <3>1. lock2[j].path \in Paths
      BY <1>1, SecondLockedPaths DEF Configured
    <3>2. disk[lock2[j].path].kind # "absent"
      BY <2>2, <2>6, SecondVouchedExists
    <3>3. index \in Configured(lock) /\ lock2[j].path = Current.path =>
            lock2[j] = Current /\ pc # "cloning"
      BY <2>1, <2>6, OneComponent DEF Current, NoCloneUnder
    <3> QED BY <1>1, <1>2, <3>1, <3>2, <3>3, CommandBeside
  <2>7. Second!Knows(theirs, spoilt)'
    <3>1. WorldTypeOK' /\ UNCHANGED run2
      BY <1>3, <1>4 DEF Sane, TypeOK, run2
    <3> QED BY <1>6, <2>1, <2>2, <2>6, <3>1, SecondSurvives
  <2>8. SameLock'
    BY <1>4, <1>5, <2>1 DEF SameLock, Load
  <2>9. NoCloneUnder'
    <3>1. Second!Current' = Second!Current /\ Second!Vouched' = Second!Vouched
      BY <1>4 DEF Second!Current, Second!Vouched, Second!InCheckout,
        Second!Configured
    <3>2. ASSUME pc2 = "cloning", Second!Current.path \in mine \cap Vouched'
          PROVE  FALSE
      <4>1. pc # "idle"
        BY <1>1, <1>2, <3>2, VouchedGrows
      <4>2. Second!Current.path \in Ours("first")
        BY <2>4, <3>2, <4>1
      <4>3. Second!Current.path \notin Vouched
        BY <2>1, <3>2, <4>2 DEF NoCloneUnder
      <4>4. pc' = "worktree" /\ Second!Current.path = Current.path
        BY <1>1, <1>2, <3>2, <4>3, VouchedGrows
      <4> QED BY <2>4, <3>2, <4>1, <4>4
    <3>3. ASSUME pc' = "cloning", Current'.path \in theirs \cap Second!Vouched
          PROVE  FALSE
      <4>1. Here.kind = "absent" /\ Current' = Current
        BY <1>1, <1>2, <3>3, CloneBegins DEF Current
      <4> QED BY <2>2, <3>3, <4>1, SecondVouchedExists DEF Here
    <3> QED BY <1>4, <2>3, <3>1, <3>2, <3>3 DEF NoCloneUnder
  <2> QED BY <2>3, <2>5, <2>7, <2>8, <2>9 DEF Knows, Second!Knows, Evidence, Done,
        Second!Evidence, Second!Done
<1> QED BY <1>10, <1>11 DEF BothKnow

\* The second process takes a step, and both know what they knew.
LEMMA SecondStepKeeps ==
  ASSUME BothKnow, SecondStep
  PROVE  BothKnow'
<1>1. Second!Sane /\ Sane
  BY BothSane
<1>2. Second!Bootstrap \/ Second!Kill
  BY DEF SecondStep
<1>3. Second!Sane'
  BY <1>1, <1>2, SecondKeepsSanity
<1>4. UNCHANGED <<pc, lock, index, label, atPin, results, outcome, since, before>>
  BY DEF SecondStep, run
<1>5. /\ UNCHANGED <<served, edition, interventions>>
      /\ Second!Load \/ (pc2 # "idle" /\ UNCHANGED <<lock2, since2, before2>>)
      /\ faults' \in Nat /\ faults' >= faults /\ faults \in Nat
  BY <1>1, <1>2, SecondFrame, SameSanity DEF WorldTypeOK
<1>6. \A path \in Paths : since[path] <= interventions'[path]
  BY <1>1, <1>5 DEF BothKnow, Shape
<1>7. Sane'
  <2>1. Knows({}, TRUE)
    BY <1>1 DEF Knows, Evidence, Done
  <2>2. WorldTypeOK' /\ UNCHANGED run
    BY <1>3, <1>4, SameSanity DEF run
  <2>3. Knows({}, TRUE)'
    BY <1>6, <2>1, <2>2, FirstSurvives
  <2> QED BY <2>3 DEF Knows
<1>8. pc2' = "worktree" => Second!Current.path \in Paths \/ pc2 = "idle"
  <2>1. pc2' = "worktree" /\ pc2 # "idle" => index2 \in DOMAIN lock2
    BY <1>1, <1>2, SecondEntered
  <2> QED BY <1>1, <2>1, SecondLockedPaths DEF Second!Current
<1>9. crossed' \subseteq {"first", "second"} \X Paths
  <2>1. crossed \subseteq {"first", "second"} \X Paths
    BY DEF BothKnow, BothTypeOK
  <2>2. OfOther("second") \subseteq crossed
    BY DEF OfOther
  <2>3. CASE pc2 = "idle"
    BY <2>1, <2>2, <2>3 DEF SecondStep
  <2>4. CASE pc2 # "idle"
    BY <1>8, <2>1, <2>2, <2>4 DEF SecondStep, Found
  <2> QED BY <2>3, <2>4
<1>10. BothTypeOK' /\ Second!Shape' /\ Shape'
  BY <1>3, <1>7, <1>9, SameSanity DEF Sane, BothTypeOK
<1>11. ASSUME edition' = 1
       PROVE  /\ SameLock' /\ NoCloneUnder'
              /\ Second!Evidence(Ours("second"), faults > 0)' /\ Second!Done(Ours("second"), faults > 0)'
              /\ Evidence(Ours("first"), faults > 0)'
              /\ Done(Ours("first"), faults > 0)'
  <2> PICK mine : mine = Ours("second")'
    OBVIOUS
  <2> PICK theirs : theirs = Ours("first")
    OBVIOUS
  <2> PICK was : was = (faults > 0)
    OBVIOUS
  <2> PICK spoilt : spoilt = (faults' > 0)
    OBVIOUS
  <2>1. edition = 1 /\ SameLock /\ NoCloneUnder /\ (was => spoilt)
    <3>1. edition = 1
      BY <1>5, <1>11
    <3>2. faults > 0 => faults' > 0
      BY <1>5
    <3> QED BY <3>1, <3>2 DEF BothKnow
  <2>2. Second!Knows(Ours("second"), was) /\ Knows(theirs, was)
    BY <2>1, BothInformed
  <2>3. theirs = Ours("first")'
    <3>1. \A path : <<"first", path>> \in crossed' <=> <<"first", path>> \in crossed
      BY DEF SecondStep, OfOther, Found
    <3> QED BY <1>5, <3>1 DEF Ours
  <2>4. pc2 # "idle" =>
          /\ mine \subseteq Ours("second")
          /\ pc2' = "worktree" /\ pc = "cloning" /\ Second!Current.path = Current.path
             => Second!Current.path \notin mine
    BY <1>5 DEF SecondStep, OfOther, Found, Ours
  <2>5. Second!Knows(mine, spoilt)'
    <3>1. CASE Second!Load
      BY <1>1, <3>1, SecondLoads
    <3>2. CASE pc2 # "idle"
      <4>1. PICK ours : ours = Ours("second")
        OBVIOUS
      <4>2. Second!Knows(mine, spoilt)
        BY <2>1, <2>2, <2>4, <3>2, <4>1, SecondKnowsLess
      <4> QED BY <1>2, <4>2, SecondKeeps
    <3> QED BY <1>5, <3>1, <3>2
  <2>6. ASSUME NEW j \in Configured(lock), lock[j].path \in theirs \cap Vouched
        PROVE  Mended(lock[j], disk[lock[j].path], disk'[lock[j].path], spoilt)
    <3>1. lock[j].path \in Paths
      BY <1>1, LockedPaths DEF Configured
    <3>2. disk[lock[j].path].kind # "absent"
      BY <2>2, <2>6, VouchedExists
    <3>3. index2 \in Configured(lock2) /\ lock[j].path = Second!Current.path =>
            lock[j] = Second!Current /\ pc2 # "cloning"
      BY <2>1, <2>6, OneComponent DEF Second!Current, NoCloneUnder
    <3> QED BY <1>1, <1>2, <3>1, <3>2, <3>3, SecondBeside
  <2>7. Knows(theirs, spoilt)'
    <3>1. WorldTypeOK' /\ UNCHANGED run
      BY <1>3, <1>4, SameSanity DEF run
    <3> QED BY <1>6, <2>1, <2>2, <2>6, <3>1, FirstSurvives
  <2>8. SameLock'
    BY <1>4, <1>5, <2>1, SameParse DEF SameLock, Second!Load
  <2>9. NoCloneUnder'
    <3>1. Current' = Current /\ Vouched' = Vouched
      BY <1>4 DEF Current, Vouched, InCheckout, Configured
    <3>2. ASSUME pc = "cloning", Current.path \in mine \cap Second!Vouched'
          PROVE  FALSE
      <4>1. pc2 # "idle"
        BY <1>1, <1>2, <3>2, SecondVouchedGrows
      <4>2. Current.path \in Ours("second")
        BY <2>4, <3>2, <4>1
      <4>3. Current.path \notin Second!Vouched
        BY <2>1, <3>2, <4>2 DEF NoCloneUnder
      <4>4. pc2' = "worktree" /\ Current.path = Second!Current.path
        BY <1>1, <1>2, <3>2, <4>3, SecondVouchedGrows
      <4> QED BY <2>4, <3>2, <4>1, <4>4
    <3>3. ASSUME pc2' = "cloning", Second!Current'.path \in theirs \cap Vouched
          PROVE  FALSE
      <4>1. Second!Here.kind = "absent" /\ Second!Current' = Second!Current
        BY <1>1, <1>2, <3>3, SecondCloneBegins DEF Second!Current
      <4> QED BY <2>2, <3>3, <4>1, VouchedExists DEF Second!Here
    <3> QED BY <1>4, <2>3, <3>1, <3>2, <3>3 DEF NoCloneUnder
  <2> QED BY <2>3, <2>5, <2>7, <2>8, <2>9 DEF Second!Knows, Knows,
    Second!Evidence, Second!Done, Evidence, Done
<1> QED BY <1>10, <1>11 DEF BothKnow

\* An intervention takes the path it touches away from both.
LEMMA WorldStepKeeps ==
  ASSUME BothKnow, Environment, UNCHANGED <<run, run2, crossed>>
  PROVE  BothKnow'
<1>1. Sane /\ Second!Sane
  BY BothSane
<1>2. /\ UNCHANGED <<pc, lock, index, label, atPin, results, outcome, since, before>>
      /\ UNCHANGED <<pc2, lock2, index2, label2, atPin2, results2, outcome2, since2, before2>>
  BY DEF run, run2
<1>3. /\ WorldTypeOK /\ interventions \in [Paths -> Nat] /\ interventions' \in [Paths -> Nat]
      /\ WorldTypeOK' /\ edition' >= edition /\ faults' = faults
      /\ \A path \in Paths :
           /\ interventions'[path] >= interventions[path]
           /\ interventions'[path] = interventions[path] => disk'[path] = disk[path]
  BY <1>1, EnvironmentFrame DEF Sane, TypeOK, WorldTypeOK
<1>4. Sane' /\ Second!Sane'
  <2>1. Knows({}, TRUE) /\ Second!Knows({}, TRUE)
    BY <1>1 DEF Knows, Evidence, Done, Second!Knows, Second!Evidence, Second!Done
  <2>2. UNCHANGED run /\ UNCHANGED run2
    OBVIOUS
  <2>3. {} \subseteq {} /\ \A path \in Paths \cap {} : disk'[path] = disk[path]
    OBVIOUS
  <2>4. Knows({}, TRUE)'
    BY <2>1, <2>2, <2>3, WorldKeeps
  <2>5. Second!Knows({}, TRUE)'
    BY <2>1, <2>2, <2>3, SecondWorldKeeps
  <2> QED BY <2>4, <2>5 DEF Knows, Second!Knows
<1>5. BothTypeOK' /\ Shape' /\ Second!Shape'
  BY <1>4, SameSanity DEF Sane, BothTypeOK, BothKnow
<1>6. ASSUME edition' = 1
      PROVE  /\ SameLock' /\ NoCloneUnder'
             /\ Evidence(Ours("first"), faults > 0)' /\ Done(Ours("first"), faults > 0)'
             /\ Second!Evidence(Ours("second"), faults > 0)'
             /\ Second!Done(Ours("second"), faults > 0)'
  <2> PICK one : one = Ours("first")'
    OBVIOUS
  <2> PICK two : two = Ours("second")'
    OBVIOUS
  <2> PICK spoilt : spoilt = (faults > 0)
    OBVIOUS
  <2>1. edition = 1
    <3>1. edition \in Nat \ {0}
      BY <1>1, WorldAssumption DEF Sane, TypeOK, WorldTypeOK
    <3> QED BY <1>3, <1>6, <3>1
  <2>2. Knows(Ours("first"), spoilt) /\ Second!Knows(Ours("second"), spoilt)
    BY <2>1, BothInformed
  <2>3. \A path \in Paths : interventions'[path] = 0 =>
          interventions[path] = 0 /\ disk'[path] = disk[path]
    BY <1>3
  <2>4. /\ one \subseteq Ours("first") /\ two \subseteq Ours("second")
        /\ \A path \in one \cup two : disk'[path] = disk[path]
    BY <2>3 DEF Ours
  <2>5. Knows(one, spoilt)'
    <3>1. PICK ours : ours = Ours("first")
      OBVIOUS
    <3> QED BY <2>2, <2>4, <3>1, WorldKeeps
  <2>6. Second!Knows(two, spoilt)'
    <3>1. PICK ours : ours = Ours("second")
      OBVIOUS
    <3> QED BY <2>2, <2>4, <3>1, SecondWorldKeeps
  <2>7. SameLock'
    BY <1>2, <2>1 DEF BothKnow, SameLock
  <2>8. NoCloneUnder'
    <3>1. /\ Current' = Current /\ Vouched' = Vouched
          /\ Second!Current' = Second!Current /\ Second!Vouched' = Second!Vouched
      BY <1>2 DEF Current, Vouched, InCheckout, Configured, Second!Current,
        Second!Vouched, Second!InCheckout, Second!Configured
    <3> QED BY <1>2, <2>1, <2>4, <3>1 DEF BothKnow, NoCloneUnder
  <2> QED BY <1>3, <2>5, <2>6, <2>7, <2>8 DEF Knows, Second!Knows, Evidence, Done,
        Second!Evidence, Second!Done
<1> QED BY <1>5, <1>6 DEF BothKnow

\* Initially nobody has seen anything.
LEMMA BothBegin == BothInit => BothKnow
<1> SUFFICES ASSUME BothInit PROVE BothKnow
  OBVIOUS
<1>1. IInv
  BY InitEstablishes DEF BothInit
<1>2. TypeOK /\ Shape
  BY <1>1 DEF IInv
<1>3. Second!RunTypeOK
  BY <1>2, SecondBeginsTyped DEF BothInit, TypeOK, WorldTypeOK
<1>4. Second!Shape
  <2>1. interventions \in [Paths -> Nat]
    BY <1>2 DEF TypeOK, WorldTypeOK
  <2> QED BY <2>1 DEF BothInit, Second!RunInit, Second!Shape, Second!Configured
<1>5. Evidence(Ours("first"), faults > 0) /\ Done(Ours("first"), faults > 0)
  BY DEF BothInit, Init, RunInit, Evidence, Done, InCheckout
<1>6. Second!Evidence(Ours("second"), faults > 0) /\ Second!Done(Ours("second"), faults > 0)
  BY DEF BothInit, Second!RunInit, Second!Evidence, Second!Done, Second!InCheckout
<1>7. SameLock /\ NoCloneUnder /\ crossed = {}
  BY DEF BothInit, Init, RunInit, Second!RunInit, SameLock, NoCloneUnder
<1> QED BY <1>2, <1>3, <1>4, <1>5, <1>6, <1>7 DEF BothKnow, BothTypeOK

\* One step of anybody.
LEMMA BothStepKeeps == BothKnow /\ [BothNext]_both => BothKnow'
<1> SUFFICES ASSUME BothKnow, [BothNext]_both PROVE BothKnow'
  OBVIOUS
<1>1. CASE UNCHANGED both
  BY <1>1, NothingKeeps
<1> QED BY <1>1, FirstStepKeeps, SecondStepKeeps, WorldStepKeeps DEF BothNext

\* What each of two concurrent runs knows stays true under the other's commands.
THEOREM BothInvariance == BothSpec => []BothKnow
BY BothBegin, BothStepKeeps, PTL DEF BothSpec

\* Every variable of both processes keeps its type.
THEOREM BothTypeCorrect == BothSpec => []BothTypeOK
<1>1. BothKnow => BothTypeOK
  BY DEF BothKnow
<1> QED BY <1>1, BothInvariance, PTL

\* What a bootstrap left healthy stays healthy under another bootstrap of the
\* same lock, whatever commands of either fail and wherever either is killed,
\* unless it took over a clone the other had not finished: for every lock,
\* world, number of components and bounds.
THEOREM BootstrapsDoNotInterfere == BothSpec => []OnlyClonesInterfere
<1>1. BothKnow => OnlyClonesInterfere
  <2> SUFFICES ASSUME BothKnow, edition = 1 PROVE OnlyClonesInterfere
    BY DEF OnlyClonesInterfere
  <2>1. Sane /\ Second!Sane /\ faults \in Nat /\ interventions \in [Paths -> Nat]
    BY BothSane DEF Sane, TypeOK, WorldTypeOK
  <2>2. Knows(Ours("first"), faults > 0) /\ Second!Knows(Ours("second"), faults > 0)
    BY BothInformed
  <2>3. ASSUME NEW i \in Configured(lock), outcome = "succeeded",
               interventions[lock[i].path] = 0, lock[i].revision \in Commits,
               <<"first", lock[i].path>> \notin crossed
        PROVE  Fine(lock[i], disk[lock[i].path])
    <3>1. lock[i].path \in Ours("first")
      BY <2>1, <2>3, LockedPaths DEF Configured, Ours
    <3>2. Settled(lock[i], disk[lock[i].path], faults > 0)
      BY <2>2, <2>3, <3>1, AllSettled
    <3> QED BY <2>1, <2>3, <3>2, SettledIsFine, LockedPaths DEF Configured, Sane,
      TypeOK, WorldTypeOK
  <2>4. ASSUME NEW i \in Configured(lock2), outcome2 = "succeeded",
               interventions[lock2[i].path] = 0, lock2[i].revision \in Commits,
               <<"second", lock2[i].path>> \notin crossed
        PROVE  Fine(lock2[i], disk[lock2[i].path])
    <3>1. lock2[i].path \in Ours("second")
      BY <2>1, <2>4, SecondLockedPaths DEF Configured, Ours
    <3>2. Settled(lock2[i], disk[lock2[i].path], faults > 0)
      BY <2>2, <2>4, <3>1, SecondSettled
    <3> QED BY <2>1, <2>4, <3>2, SettledIsFine, SecondLockedPaths DEF Configured,
      Sane, TypeOK, WorldTypeOK
  <2>5. /\ \A i \in Configured(lock) : lock[i].path \in Paths
        /\ \A i \in Configured(lock2) : lock2[i].path \in Paths
    BY <2>1, LockedPaths, SecondLockedPaths DEF Configured
  <2>6. \A path \in Paths : interventions[path] > 0 \/ interventions[path] = 0
    BY <2>1
  <2> QED BY <2>3, <2>4, <2>5, <2>6 DEF OnlyClonesInterfere, Fine
<1> QED BY <1>1, BothInvariance, PTL
=============================================================================
