------------------------------- MODULE World -------------------------------
(***************************************************************************)
(* What the scripts share and none of them owns: the checkouts on disk,    *)
(* the remotes, the lock file, and the people and machines that change     *)
(* them.  None of it is code of this repository.                           *)
(***************************************************************************)
EXTENDS ComponentLock

CONSTANTS
  Editions,         \* the successive contents of components.lock.toml
  InitialCheckouts, \* what may be at a path before the first run
  InitialObjects,   \* [URLs -> SUBSET Objects]: what remotes serve at first
  FinalObjects,     \* the same, once all that will be published is
  Flaky,            \* the commands that may fail for no reason of their own
  MaxFaults,        \* bound: failures and kills in a behaviour
  MaxInterventions  \* bound: times the operator changes one checkout

ASSUME WorldAssumption ==
  /\ Editions \in Seq(Document)
  /\ Editions # <<>>
  /\ InitialCheckouts \subseteq Checkout
  /\ InitialObjects \in [URLs -> SUBSET Objects]
  /\ FinalObjects \in [URLs -> SUBSET Objects]
  /\ MaxFaults \in Nat
  /\ MaxInterventions \in Nat

VARIABLES
  disk,          \* [Paths -> Checkout]
  served,        \* [URLs -> SUBSET Objects], only grows
  edition,       \* index of the current lock document
  interventions, \* [Paths -> Nat]: the operator's changes of each checkout
  faults         \* failures and kills so far

world == <<disk, served, edition, interventions, faults>>

-----------------------------------------------------------------------------
(***************************************************************************)
(* A command answers, or it fails for a reason the model does not know.    *)
(***************************************************************************)
Answers(command) ==
  IF command \in Flaky /\ faults < MaxFaults THEN BOOLEAN ELSE {TRUE}

Count(ok) == faults' = IF ok THEN faults ELSE faults + 1

-----------------------------------------------------------------------------
(***************************************************************************)
(* The world moves by itself.                                              *)
(***************************************************************************)
Publish ==
  /\ \E url \in URLs : \E object \in FinalObjects[url] \ served[url] :
       served' = [served EXCEPT ![url] = @ \cup {object}]
  /\ UNCHANGED <<disk, edition, interventions, faults>>

Intervene ==
  /\ \E path \in Paths :
       /\ interventions[path] < MaxInterventions
       /\ interventions' = [interventions EXCEPT ![path] = @ + 1]
       /\ \E checkout \in Edited(disk[path]) :
            disk' = [disk EXCEPT ![path] = checkout]
  /\ UNCHANGED <<served, edition, faults>>

EditLock ==
  /\ edition + 1 \in DOMAIN Editions
  /\ edition' = edition + 1
  /\ UNCHANGED <<disk, served, interventions, faults>>

Environment == Publish \/ Intervene \/ EditLock

WorldInit ==
  /\ disk \in [Paths -> InitialCheckouts]
  /\ served = InitialObjects
  /\ edition = 1
  /\ interventions = [path \in Paths |-> 0]
  /\ faults = 0

WorldTypeOK ==
  /\ disk \in [Paths -> Checkout]
  /\ served \in [URLs -> SUBSET Objects]
  /\ edition \in DOMAIN Editions
  /\ interventions \in [Paths -> Nat]
  /\ faults \in Nat
=============================================================================
