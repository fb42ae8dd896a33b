---------------------------- MODULE TwoBootstraps ----------------------------
(***************************************************************************)
(* Two bootstraps at once, in two terminals of one workspace: nothing      *)
(* locks a checkout, so their Git commands interleave over the same        *)
(* disk.  The first process has the variables of ComponentBootstrap, the   *)
(* second its own copies of them.                                          *)
(***************************************************************************)
EXTENDS ComponentBootstrap

VARIABLES
  pc2, lock2, index2, label2, atPin2, results2, outcome2, since2, before2,
  crossed  \* history: <<process, path>> where the process found the path
           \* while the other was still cloning into it

run2 == <<pc2, lock2, index2, label2, atPin2, results2, outcome2, since2, before2>>
both == <<world, run, run2, crossed>>

Second == INSTANCE ComponentBootstrap WITH
  pc <- pc2, lock <- lock2, index <- index2, label <- label2, atPin <- atPin2,
  results <- results2, outcome <- outcome2, since <- since2, before <- before2

OfOther(process) == {entry \in crossed : entry[1] # process}
Found(process, yes, path) == IF yes THEN {<<process, path>>} ELSE {}

FirstStep ==
  /\ Bootstrap \/ Kill
  /\ crossed' = OfOther("first") \cup
       IF pc = "idle" THEN {}
       ELSE crossed \cup
            Found("first", pc' = "worktree" /\ pc2 = "cloning"
                             /\ Current.path = Second!Current.path, Current.path)
  /\ UNCHANGED run2

SecondStep ==
  /\ Second!Bootstrap \/ Second!Kill
  /\ crossed' = OfOther("second") \cup
       IF pc2 = "idle" THEN {}
       ELSE crossed \cup
            Found("second", pc2' = "worktree" /\ pc = "cloning"
                              /\ Current.path = Second!Current.path, Second!Current.path)
  /\ UNCHANGED run

BothInit == Init /\ Second!RunInit /\ crossed = {}

BothNext ==
  \/ FirstStep \/ SecondStep
  \/ Environment /\ UNCHANGED <<run, run2, crossed>>

BothSpec == BothInit /\ [][BothNext]_both

\* In both terminals Git commands return and bootstrap is run again; a process
\* that is killed has taken a step, and is killed MaxFaults times at most.
FairBothSpec == BothSpec /\ WF_both(FirstStep) /\ WF_both(SecondStep)
-----------------------------------------------------------------------------
BothTypeOK ==
  /\ TypeOK /\ Second!RunTypeOK
  /\ crossed \subseteq {"first", "second"} \X Paths

\* What a bootstrap that exits 0 leaves healthy stays healthy under another
\* one of the same lock, whatever command either of them is at, is refused or
\* killed at (_bootstrap_existing finds everything done).  A clone still in
\* flight is the exception: the process that finds it takes it for a checkout,
\* detaches it and exits 0, and the clone then fails over the files it finds.
\* A tree can have been left half-written only where a command failed.
OnlyClonesInterfere ==
  LET Keeps(process, components, how) ==
        how = "succeeded" =>
          \A i \in Configured(components) :
            LET checkout == disk[components[i].path]
            IN \/ interventions[components[i].path] > 0
               \/ components[i].revision \notin Commits
               \/ <<process, components[i].path>> \in crossed
               \/ /\ Healthy(components[i], [checkout EXCEPT !.tree = "clean"])
                  /\ faults = 0 => checkout.tree = "clean"
  IN edition = 1 => Keeps("first", lock, outcome) /\ Keeps("second", lock2, outcome2)

-----------------------------------------------------------------------------
(***************************************************************************)
(* Why OnlyClonesInterfere holds.                                          *)
(***************************************************************************)
\* The paths that nobody edited and the process did not find half-cloned.
Ours(process) ==
  {path \in Paths : interventions[path] = 0 /\ <<process, path>> \notin crossed}

SameLock == {lock, lock2} \subseteq {<<>>, Parse(Editions[1])}

\* No process clones where the other vouches for what is there.
NoCloneUnder ==
  /\ pc2 = "cloning" => Second!Current.path \notin Ours("first") \cap Vouched
  /\ pc = "cloning" => Current.path \notin Ours("second") \cap Second!Vouched

BothKnow ==
  /\ BothTypeOK /\ Shape /\ Second!Shape
  /\ edition = 1 =>
       /\ SameLock /\ NoCloneUnder
       /\ Evidence(Ours("first"), faults > 0) /\ Done(Ours("first"), faults > 0)
       /\ Second!Evidence(Ours("second"), faults > 0) /\ Second!Done(Ours("second"), faults > 0)
=============================================================================
