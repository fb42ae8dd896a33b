-------------------------- MODULE ZakuraInspection --------------------------
(***************************************************************************)
(* scripts/inspect_zakura.py: the acceptance observer.  It checks that the *)
(* Zakura checkout is at its pin and clean, prints what it inspects, and   *)
(* runs Zakura's own recipe in the checkout.                               *)
(***************************************************************************)
EXTENDS World

CONSTANTS
  Zakura,   \* the component name "zakura"
  Hosts     \* [unavailable, override, just] records: see HostType

HostType ==
  [ unavailable : BOOLEAN,   \* managed zcashd is not released for this host
    override    : {"unset", "executable", "broken"}, \* TEST_ZCASHD_PATH
    just        : BOOLEAN ]  \* a just executable is on the PATH

ASSUME HostsAssumption == Hosts \subseteq HostType

VARIABLES
  zpc,      \* the step about to run
  zlock,    \* the lock document's components, as read
  host,     \* the runtime this inspection found
  printed,  \* the records on its standard output
  status,   \* its exit status: "none" until it ends
  zsince    \* history: interventions when the inspection started

observer == <<zpc, zlock, host, printed, status, zsince>>

\* next(component named "zakura"), the first in the lock if there is one.
ZakuraIndexes == {i \in DOMAIN zlock : zlock[i].name = Zakura}
Node == zlock[CHOOSE i \in ZakuraIndexes : \A j \in ZakuraIndexes : i <= j]
Tree == disk[Node.path]

\* Configured with an upstream_base, or _load_zakura raises.
Observable(components) ==
  \E i \in DOMAIN components :
    /\ components[i].name = Zakura
    /\ \A j \in 1 .. i - 1 : components[j].name # Zakura
    /\ IsConfigured(components[i]) /\ components[i].upstream_base # Unborn

Keep == UNCHANGED <<disk, served, edition, interventions, zlock, host, zsince>>

ZGoto(next) == zpc' = next /\ UNCHANGED <<printed, status>>

Ends(how) == zpc' = "idle" /\ status' = how /\ UNCHANGED printed

ZProceed(good, next) == IF good THEN ZGoto(next) ELSE Ends("error")

-----------------------------------------------------------------------------
\* _load_zakura, then the preamble: printed before anything is checked.
LoadZakura ==
  /\ zpc = "idle"
  /\ host' \in Hosts
  /\ zsince' = interventions
  /\ IF Loads(Editions[edition]) /\ Observable(Parse(Editions[edition]))
     THEN /\ zlock' = Parse(Editions[edition])
          /\ printed' = <<"preamble">>
          /\ zpc' = "head" /\ status' = "none"
     ELSE /\ zlock' = <<>> /\ printed' = <<>>
          /\ zpc' = "idle" /\ status' = "error"
  /\ UNCHANGED world

\* Mutant: any commit will do.
RequireAnyHead ==
  /\ zpc = "head" /\ IsDirectory(Tree)
  /\ \E ok \in Answers("zakura_head") :
       Count(ok) /\ ZProceed(ok /\ Tree.head # Unborn, "status")
  /\ Keep

\* rev-parse HEAD succeeds and is the pin.
RequireHead ==
  /\ zpc = "head" /\ IsDirectory(Tree)
  /\ \E ok \in Answers("zakura_head") :
       Count(ok) /\ ZProceed(ok /\ Tree.head = Node.revision, "status")
  /\ Keep

\* status --porcelain succeeds and is empty.
RequireClean ==
  /\ zpc = "status" /\ IsDirectory(Tree)
  /\ \E ok \in Answers("zakura_status") :
       Count(ok) /\ ZProceed(ok /\ StatusIsEmpty(Tree), "tools")
  /\ Keep

\* The override, the host, and just.
RequireTools ==
  /\ zpc = "tools"
  /\ IF host.override = "unset" /\ host.unavailable
     THEN /\ printed' = Append(printed, "unavailable")
          /\ zpc' = "idle" /\ status' = "zero"
     ELSE ZProceed(host.override # "broken" /\ host.just, "run")
  /\ Keep /\ UNCHANGED faults

\* runner.run: the child starts in the checkout.
StartChild ==
  /\ zpc = "run" /\ IsDirectory(Tree)
  /\ ZGoto("child")
  /\ Keep /\ UNCHANGED faults

\* The child's exit status is the observer's.
ChildExits ==
  /\ zpc = "child"
  /\ \E ok \in Answers("child") :
       /\ Count(ok)
       /\ printed' = IF ok THEN Append(printed, "complete") ELSE printed
       /\ status' = IF ok THEN "zero" ELSE "child"
  /\ zpc' = "idle"
  /\ Keep

\* A missing checkout or a regular file: OSError, not caught.
ZakuraTraceback ==
  /\ zpc \in {"head", "status", "run"} /\ ~IsDirectory(Tree)
  /\ Ends("traceback")
  /\ Keep /\ UNCHANGED faults

Observe ==
  \/ LoadZakura \/ RequireHead \/ RequireClean \/ RequireTools \/ StartChild
  \/ ChildExits \/ ZakuraTraceback

ObserverInit ==
  /\ zpc = "idle"
  /\ zlock = <<>>
  /\ host \in Hosts
  /\ printed = <<>>
  /\ status = "none"
  /\ zsince = interventions

ObserverTypeOK ==
  /\ zpc \in {"idle", "head", "status", "tools", "run", "child"}
  /\ host \in Hosts
  /\ printed \in Seq({"preamble", "unavailable", "complete"})
  /\ status \in {"none", "zero", "error", "traceback", "child"}
  /\ zsince \in [Paths -> Nat]
=============================================================================
