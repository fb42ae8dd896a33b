---------------------- MODULE ComponentBootstrapProofs ----------------------
(***************************************************************************)
(* TLAPS proofs about ComponentBootstrap: a lock that loads parses to      *)
(* components at distinct paths, a run that exits 0 leaves every           *)
(* configured checkout healthy and prints what it did, and no step does    *)
(* more to a checkout than README.md allows, for any lock, world and       *)
(* bounds.  The lemmas about a run speak of what it knows of the paths     *)
(* that nobody else writes to, so that they serve a run alone, a run       *)
(* beside readers and two runs at once.                                    *)
(***************************************************************************)
EXTENDS ComponentBootstrap, TLAPS

-----------------------------------------------------------------------------
(***************************************************************************)
(* The lock.                                                               *)
(***************************************************************************)
\* An accepted table parses to a component; a configured one has a repository
\* and a revision.
LEMMA TableParses ==
  ASSUME NEW table \in RawTable, AcceptsTable(table)
  PROVE  /\ ParseTable(table) \in ParsedComponent
         /\ ParseTable(table).path = Resolve[table.path]
         /\ IsConfigured(ParseTable(table)) =>
              /\ ParseTable(table).repository \in URLs
              /\ ParseTable(table).revision \in Objects
<1>1. table.name \in Names /\ Resolve[table.path] \in Paths
  BY RawAssumption DEF RawTable, AcceptsTable, AcceptsOptional, AcceptsConfigured, IsSibling
<1>2. CASE table.fields = OptionalFields
  <2>1. ParseTable(table) =
          [ name |-> table.name, kind |-> "optional", required |-> FALSE,
            repository |-> NoUrl, upstream |-> NoUrl, revision |-> Unborn,
            upstream_base |-> Unborn, path |-> Resolve[table.path] ]
    BY <1>2 DEF ParseTable
  <2> QED BY <1>1, <2>1 DEF ParsedComponent, IsConfigured
<1>3. CASE table.fields # OptionalFields
  <2>1. AcceptsConfigured(table)
    BY <1>3 DEF AcceptsTable, AcceptsOptional
  <2>2. /\ table.repository \in URLs
        /\ Lower[table.revision] \in Objects
        /\ table.fields = PairedFields =>
             table.upstream \in URLs /\ Lower[table.upstream_base] \in Objects
    BY <2>1, RawAssumption DEF AcceptsConfigured, RawTable, IsRevision
  <2>3. ParseTable(table) =
          [ name |-> table.name, kind |-> "configured",
            required |-> (table.required = "true"),
            repository |-> table.repository,
            upstream |-> IF table.fields = PairedFields
                         THEN table.upstream ELSE NoUrl,
            revision |-> Lower[table.revision],
            upstream_base |-> IF table.fields = PairedFields
                              THEN Lower[table.upstream_base] ELSE Unborn,
            path |-> Resolve[table.path] ]
    BY <1>3 DEF ParseTable
  <2> DEFINE u == IF table.fields = PairedFields THEN table.upstream ELSE NoUrl
             b == IF table.fields = PairedFields
                  THEN Lower[table.upstream_base] ELSE Unborn
             q == (table.required = "true")
  <2>4. u \in URLs \cup {NoUrl} /\ b \in Objects \cup {Unborn} /\ q \in BOOLEAN
    BY <2>2
  <2>5. ParseTable(table) =
          [ name |-> table.name, kind |-> "configured", required |-> q,
            repository |-> table.repository, upstream |-> u,
            revision |-> Lower[table.revision], upstream_base |-> b,
            path |-> Resolve[table.path] ]
    BY <2>3
  <2> HIDE DEF u, b, q
  <2> QED BY <1>1, <2>2, <2>4, <2>5 DEF ParsedComponent, IsConfigured
<1> QED BY <1>2, <1>3

\* A document that loads parses to components at distinct canonical paths.
LEMMA LockParses ==
  ASSUME NEW document \in Document, Loads(document)
  PROVE  /\ Parse(document) \in Seq(ParsedComponent)
         /\ \A i, j \in DOMAIN Parse(document) :
              i # j => Parse(document)[i].path # Parse(document)[j].path
         /\ \A i \in Configured(Parse(document)) :
              /\ Parse(document)[i].repository \in URLs
              /\ Parse(document)[i].revision \in Objects
<1> DEFINE tables == document.components
<1>1. tables \in Seq(RawTable)
  BY DEF Document
<1>2. DOMAIN Parse(document) = DOMAIN tables
  BY DEF Parse
<1>3. \A i \in DOMAIN tables : tables[i] \in RawTable
  BY <1>1
<1>4. \A i \in DOMAIN tables :
        /\ Parse(document)[i] = ParseTable(tables[i])
        /\ AcceptsTable(tables[i])
  BY DEF Parse, Loads
<1>5. \A i \in DOMAIN tables : Parse(document)[i] \in ParsedComponent
  BY <1>3, <1>4, TableParses
<1>6. Parse(document) \in Seq(ParsedComponent)
  <2>1. DOMAIN tables = 1 .. Len(tables) /\ Len(tables) \in Nat
    BY <1>1
  <2>2. Parse(document) \in [1 .. Len(tables) -> ParsedComponent]
    BY <1>5, <2>1 DEF Parse
  <2> QED BY <2>1, <2>2, SMT
<1>7. \A i, j \in DOMAIN tables :
        i # j => Parse(document)[i].path # Parse(document)[j].path
  BY <1>3, <1>4, TableParses DEF Loads, UniquePaths
<1>8. \A i \in Configured(Parse(document)) :
        /\ Parse(document)[i].repository \in URLs
        /\ Parse(document)[i].revision \in Objects
  BY <1>2, <1>3, <1>4, TableParses DEF Configured
<1> QED BY <1>2, <1>6, <1>7, <1>8

-----------------------------------------------------------------------------
(***************************************************************************)
(* Checkouts and health.                                                   *)
(***************************************************************************)
\* What the commands make of a checkout is a checkout.
LEMMA CommandsKeepType ==
  ASSUME NEW checkout \in Checkout
  PROVE  /\ Absent \in Checkout
         /\ \A url \in URLs : EmptyClone(url) \in Checkout
         /\ \A objects \in SUBSET Objects :
              Fetched(checkout, objects) \in Checkout
         /\ \A objects \in SUBSET Objects :
              checkout.origin \in URLs => FullClone(checkout, objects) \in Checkout
         /\ \A object \in Objects : Detached(checkout, object) \in Checkout
         /\ \A url \in URLs : [checkout EXCEPT !.upstream = url] \in Checkout
         /\ HalfWritten(checkout) \in Checkout
<1>1. Absent \in Checkout
  BY DEF Absent, NotARepository, Checkout
<1>2. \A url \in URLs : EmptyClone(url) \in Checkout
  BY DEF EmptyClone, Checkout
<1>3. \A objects \in SUBSET Objects : Fetched(checkout, objects) \in Checkout
  BY DEF Fetched, Checkout
<1>4. \A objects \in SUBSET Objects :
        checkout.origin \in URLs => FullClone(checkout, objects) \in Checkout
  <2> SUFFICES ASSUME NEW objects \in SUBSET Objects, checkout.origin \in URLs
               PROVE  FullClone(checkout, objects) \in Checkout
    OBVIOUS
  <2>1. Tip[checkout.origin] \in Commits
    BY ObjectsAssumption
  <2>2. objects \cup {Tip[checkout.origin]} \in SUBSET Objects
    BY <2>1 DEF Objects
  <2>3. checkout.objects \cup objects \cup {Tip[checkout.origin]} \in SUBSET Objects
    BY <2>2 DEF Checkout
  <2> QED BY <2>1, <2>3 DEF FullClone, Checkout
<1>5. \A object \in Objects : Detached(checkout, object) \in Checkout
  BY ObjectsAssumption DEF Detached, Checkout, Objects, Peel
<1>6. \A url \in URLs : [checkout EXCEPT !.upstream = url] \in Checkout
  BY DEF Checkout
<1>7. HalfWritten(checkout) \in Checkout
  BY DEF HalfWritten, Checkout
<1> QED BY <1>1, <1>2, <1>3, <1>4, <1>5, <1>6, <1>7

\* Whatever the operator does to a checkout by hand, it stays one.
LEMMA EditsKeepType ==
  ASSUME NEW checkout \in Checkout, NEW edited \in Edited(checkout)
  PROVE  edited \in Checkout
<1>1. CASE edited \in {Absent, NotARepository("file"), NotARepository("plain")}
  <2>1. \A kind \in {"absent", "file", "plain"} : NotARepository(kind) \in Checkout
    BY DEF NotARepository, Checkout
  <2> QED BY <1>1, <2>1 DEF Absent
<1>2. CASE \E tree \in {"clean", "dirty", "unreadable"} :
             edited = [checkout EXCEPT !.tree = tree]
  BY <1>2 DEF Checkout
<1>3. CASE \E head \in checkout.objects \cap Commits :
             edited = [checkout EXCEPT !.head = head, !.attached = TRUE]
  BY <1>3 DEF Checkout
<1>4. CASE \E url \in URLs : edited = [checkout EXCEPT !.origin = url]
  BY <1>4 DEF Checkout
<1>5. CASE \E url \in URLs : edited = [checkout EXCEPT !.upstream = url]
  BY <1>5 DEF Checkout
<1> QED BY <1>1, <1>2, <1>3, <1>4, <1>5 DEF Edited

\* A safe checkout with the right upstream is settled once it is detached at
\* the pin.
LEMMA DetachingSettles ==
  ASSUME NEW component, NEW checkout \in Checkout, NEW spoilt,
         checkout.kind = "worktree", checkout.tree = "clean" \/ spoilt,
         checkout.origin = component.repository,
         checkout.upstream = component.upstream \/ component.upstream = NoUrl
  PROVE  Settled(component, Detached(checkout, component.revision), spoilt)
BY DEF Settled, Detached, Checkout

\* A settled checkout is healthy, where the pin is a commit and no command has
\* died.
LEMMA SettledIsHealthy ==
  ASSUME NEW component, NEW checkout, Settled(component, checkout, FALSE),
         component.revision \in Commits
  PROVE  Healthy(component, checkout)
BY ObjectsAssumption DEF Settled, Healthy, Peel

-----------------------------------------------------------------------------
(***************************************************************************)
(* How a step ends.                                                        *)
(***************************************************************************)
\* A step writes at most the current checkout, and leaves the run's snapshot.
OnlyHere ==
  /\ disk' \in [Paths -> Checkout]
  /\ \A path \in Paths : path # Current.path => disk'[path] = disk[path]
  /\ Rest
  /\ faults' \in Nat
  /\ label' \in {"cloned", "updated"}
  /\ atPin' \in BOOLEAN

\* Facts about the component being bootstrapped.
LEMMA CurrentFacts ==
  ASSUME Sane, index \in DOMAIN lock
  PROVE  /\ Current \in ParsedComponent
         /\ Current.path \in Paths
         /\ Here \in Checkout
         /\ IsConfigured(Current) =>
              Current.repository \in URLs /\ Current.revision \in Objects
<1>1. Current \in ParsedComponent
  BY DEF Sane, TypeOK, RunTypeOK, Current
<1>2. Current.path \in Paths
  BY <1>1 DEF ParsedComponent
<1>3. Here \in Checkout
  BY <1>2 DEF Sane, TypeOK, WorldTypeOK, Here
<1> QED BY <1>1, <1>2, <1>3 DEF Sane, Shape, Configured, Current

\* The components before the current one are elsewhere, and stay as they are.
LEMMA OthersStay ==
  ASSUME Sane, index \in DOMAIN lock, OnlyHere,
         NEW i \in Configured(lock), i < index
  PROVE  disk'[lock[i].path] = disk[lock[i].path]
<1>1. lock[i] \in ParsedComponent
  BY DEF Sane, TypeOK, RunTypeOK, Configured
<1>2. lock[i].path \in Paths
  BY <1>1 DEF ParsedComponent
<1>3. i \in DOMAIN lock /\ i # index
  BY DEF Configured, Sane, TypeOK, RunTypeOK
<1>4. lock[i].path # Current.path
  BY <1>3 DEF Sane, Shape, Current
<1> QED BY <1>2, <1>4 DEF OnlyHere

\* A run that stops leaves the invariant, whatever it wrote.
LEMMA StopKeeps ==
  ASSUME NEW ours, NEW spoilt, Knows(ours, spoilt), OnlyHere,
         NEW how \in {"failed", "traceback", "killed"}, Stop(how)
  PROVE  Knows(ours, spoilt)'
<1>1. TypeOK'
  BY DEF Knows, Sane, TypeOK, WorldTypeOK, RunTypeOK, OnlyHere, Rest, Stop, Labels
<1>2. Shape'
  BY DEF Knows, Sane, Shape, OnlyHere, Rest, Stop, Configured
<1>3. Evidence(ours, spoilt)'
  BY DEF Evidence, Stop, InCheckout
<1>4. Done(ours, spoilt)'
  BY DEF Done, Stop
<1> QED BY <1>1, <1>2, <1>3, <1>4 DEF Knows, Sane

\* A command that answers leads to another: only the evidence is new.
LEMMA GotoKeeps ==
  ASSUME NEW ours, NEW spoilt, Knows(ours, spoilt), OnlyHere,
         pc # "idle", index \in Configured(lock),
         NEW next \in Labels \ {"idle", "next"}, Goto(next),
         next \in {"upstream", "add_upstream"} => Current.upstream # NoUrl,
         Evidence(ours, spoilt)'
  PROVE  Knows(ours, spoilt)'
<1>1. TypeOK'
  BY DEF Knows, Sane, TypeOK, WorldTypeOK, RunTypeOK, OnlyHere, Rest, Goto
<1>2. Shape'
  BY DEF Knows, Sane, Shape, OnlyHere, Rest, Goto, Configured, Current
<1>3. Done(ours, spoilt)'
  <2>1. \A i \in Configured(lock) :
          i < index => disk'[lock[i].path] = disk[lock[i].path]
    BY OthersStay DEF Knows, Configured
  <2> QED BY <2>1 DEF Knows, Done, OnlyHere, Rest, Goto, Configured
<1> QED BY <1>1, <1>2, <1>3 DEF Knows, Sane

\* A component is done once it is settled, or not ours.
LEMMA ReturnKeeps ==
  ASSUME NEW ours, NEW spoilt, Knows(ours, spoilt), OnlyHere,
         pc # "idle", index \in DOMAIN lock,
         NEW action \in {"skipped", "current", "cloned", "updated"},
         Return(action),
         IsConfigured(Current) /\ Current.path \in ours =>
           Settled(Current, disk'[Current.path], spoilt)
  PROVE  Knows(ours, spoilt)'
<1>1. TypeOK'
  <2>1. results' \in Seq({"skipped", "current", "cloned", "updated"})
    BY DEF Knows, Sane, TypeOK, RunTypeOK, Return
  <2>2. index' \in Nat \ {0} /\ pc' \in Labels /\ outcome' = outcome
    BY DEF Knows, Sane, TypeOK, RunTypeOK, Return, Labels
  <2> QED BY <2>1, <2>2 DEF Knows, Sane, TypeOK, WorldTypeOK, RunTypeOK, OnlyHere, Rest
<1>2. Shape'
  BY DEF Knows, Sane, Shape, OnlyHere, Rest, Return, Configured
<1>3. Evidence(ours, spoilt)'
  BY DEF Evidence, Return, InCheckout
<1>4. Done(ours, spoilt)'
  <2>1. \A i \in Configured(lock) :
          i < index => disk'[lock[i].path] = disk[lock[i].path]
    BY OthersStay DEF Knows
  <2>2. \A i \in Configured(lock) : i < index' => i < index \/ i = index
    BY DEF Return, Configured, Knows, Sane, TypeOK, RunTypeOK
  <2>3. lock' = lock
    BY DEF OnlyHere, Rest
  <2> SUFFICES ASSUME NEW i \in Configured(lock), i < index', lock[i].path \in ours
               PROVE  Settled(lock[i], disk'[lock[i].path], spoilt)
    BY <2>3 DEF Done, Configured
  <2>4. CASE i < index
    BY <2>1, <2>4 DEF Knows, Done
  <2>5. CASE i = index
    BY <2>5 DEF Configured, Current
  <2> QED BY <2>2, <2>4, <2>5
<1> QED BY <1>1, <1>2, <1>3, <1>4 DEF Knows, Sane

\* A query writes nothing.
LEMMA QueryIsOnlyHere ==
  ASSUME Sane, Query, atPin' \in BOOLEAN,
         faults' = faults \/ \E ok \in BOOLEAN : Count(ok)
  PROVE  OnlyHere
<1>1. faults' \in Nat
  BY DEF Count, Sane, TypeOK, WorldTypeOK
<1> QED BY <1>1 DEF OnlyHere, Query, Sane, TypeOK, WorldTypeOK, RunTypeOK

\* A command that writes a checkout writes the current one.
LEMMA WriteIsOnlyHere ==
  ASSUME Sane, index \in DOMAIN lock, Rest, UNCHANGED <<label, atPin>>,
         faults' = faults \/ \E ok \in BOOLEAN : Count(ok),
         NEW checkout \in Checkout, Write(checkout)
  PROVE  OnlyHere /\ disk'[Current.path] = checkout
<1>1. faults' \in Nat
  BY DEF Count, Sane, TypeOK, WorldTypeOK
<1>2. Current.path \in Paths
  BY CurrentFacts
<1>3. disk \in [Paths -> Checkout]
  BY DEF Sane, TypeOK, WorldTypeOK
<1> QED BY <1>1, <1>2, <1>3 DEF OnlyHere, Write, Sane, TypeOK, RunTypeOK

\* A step that leaves the disk alone.
LEMMA NoWriteIsOnlyHere ==
  ASSUME Sane, Rest, UNCHANGED <<disk, label, atPin>>,
         faults' = faults \/ \E ok \in BOOLEAN : Count(ok)
  PROVE  OnlyHere
BY QueryIsOnlyHere DEF Query, Sane, TypeOK, RunTypeOK

LEMMA AnswersAreBoolean ==
  ASSUME NEW command
  PROVE  Answers(command) \subseteq BOOLEAN
BY DEF Answers

\* Labels of a run under way have a configured component.
LEMMA InRun ==
  ASSUME Sane, pc \notin {"idle", "next"}
  PROVE  index \in Configured(lock) /\ index \in DOMAIN lock /\ IsConfigured(Current)
BY DEF Sane, Shape, Configured, Current

-----------------------------------------------------------------------------
(***************************************************************************)
(* One lemma per action.                                                   *)
(***************************************************************************)
LEMMA LoadKeeps ==
  ASSUME NEW ours, NEW spoilt, Sane, Load
  PROVE  Knows(ours, spoilt)'
<1>1. disk \in [Paths -> Checkout] /\ interventions \in [Paths -> Nat]
      /\ edition \in DOMAIN Editions
  BY DEF Sane, TypeOK, WorldTypeOK
<1>2. Editions[edition] \in Document
  BY <1>1, WorldAssumption
<1>3. CASE Loads(Editions[edition])
  <2> DEFINE parsed == Parse(Editions[edition])
  <2>1. /\ parsed \in Seq(ParsedComponent)
        /\ \A i, j \in DOMAIN parsed : i # j => parsed[i].path # parsed[j].path
        /\ \A i \in Configured(parsed) :
             parsed[i].repository \in URLs /\ parsed[i].revision \in Objects
    BY <1>2, <1>3, LockParses
  <2>2. lock' = parsed /\ pc' = "next" /\ outcome' = "running" /\ index' = 1
    BY <1>3 DEF Load
  <2> HIDE DEF parsed
  <2>3. TypeOK'
    BY <1>1, <2>1, <2>2 DEF Load, Sane, TypeOK, WorldTypeOK, RunTypeOK, world, Labels
  <2>4. Shape'
    BY <1>1, <2>1, <2>2 DEF Load, Shape, Configured, world
  <2>5. Evidence(ours, spoilt)'
    BY <2>2 DEF Evidence, InCheckout
  <2>6. Done(ours, spoilt)'
    BY <2>1, <2>2 DEF Done, Configured
  <2> QED BY <2>3, <2>4, <2>5, <2>6 DEF Knows, Sane
<1>4. CASE ~Loads(Editions[edition])
  <2>1. TypeOK'
    BY <1>1, <1>4 DEF Load, Sane, TypeOK, WorldTypeOK, RunTypeOK, world, Labels
  <2>2. Shape'
    BY <1>1, <1>4 DEF Load, Shape, Configured, world
  <2>3. Evidence(ours, spoilt)' /\ Done(ours, spoilt)'
    BY <1>4 DEF Load, Evidence, Done, InCheckout
  <2> QED BY <2>1, <2>2, <2>3 DEF Knows, Sane
<1> QED BY <1>3, <1>4

\* The commands, one by one: each keeps the types and the shape, and leaves the run
\* with the knowledge its answer gives.
LEMMA SkipKeeps ==
  ASSUME NEW ours, NEW spoilt, Knows(ours, spoilt), Skip
  PROVE  Knows(ours, spoilt)'
<1>1. OnlyHere
  BY QueryIsOnlyHere DEF Skip, Knows, Sane, TypeOK, RunTypeOK
<1> QED BY <1>1, ReturnKeeps DEF Skip

LEMMA FindCheckoutKeeps ==
  ASSUME NEW ours, NEW spoilt, Knows(ours, spoilt), FindCheckout
  PROVE  Knows(ours, spoilt)'
<1>1. OnlyHere
  BY DEF FindCheckout, OnlyHere, Knows, Sane, TypeOK, WorldTypeOK, RunTypeOK
<1>2. index \in Configured(lock)
  BY DEF FindCheckout, Configured, Current
<1>3. Evidence(ours, spoilt)'
  BY DEF FindCheckout, Goto, Rest, Evidence, InCheckout, AfterStatus, AfterOrigin,
    AfterUpstream, Current, Here
<1> QED BY <1>1, <1>2, <1>3, GotoKeeps DEF FindCheckout, Labels, InCheckout

LEMMA BeginCloneKeeps ==
  ASSUME NEW ours, NEW spoilt, Knows(ours, spoilt), BeginClone
  PROVE  Knows(ours, spoilt)'
<1>1. pc = "clone" /\ index \in Configured(lock) /\ index \in DOMAIN lock
  BY InRun DEF Knows, BeginClone
<1>2. EmptyClone(Current.repository) \in Checkout
  BY <1>1, CurrentFacts, CommandsKeepType, InRun DEF Knows
<1>3. CASE Here.kind = "absent"
  <2>1. OnlyHere /\ disk'[Current.path] = EmptyClone(Current.repository)
    BY <1>1, <1>2, <1>3, WriteIsOnlyHere DEF Knows, BeginClone
  <2>2. Evidence(ours, spoilt)'
    BY <1>3, <2>1 DEF BeginClone, Goto, Rest, Evidence, InCheckout, AfterStatus,
      AfterOrigin, AfterUpstream, Current, Here
  <2> QED BY <1>1, <1>3, <2>1, <2>2, GotoKeeps DEF BeginClone, Labels
<1>4. CASE Here.kind # "absent"
  BY <1>4, NoWriteIsOnlyHere, StopKeeps DEF Knows, BeginClone, Raise
<1> QED BY <1>3, <1>4

LEMMA EndCloneKeeps ==
  ASSUME NEW ours, NEW spoilt, Knows(ours, spoilt), EndClone
  PROVE  Knows(ours, spoilt)'
<1>1. pc = "cloning" /\ index \in Configured(lock) /\ index \in DOMAIN lock
  BY InRun DEF Knows, EndClone
<1> PICK ok \in Answers("clone") :
      /\ Count(ok)
      /\ IF Here.kind # "worktree" \/ Here.origin = NoUrl
         THEN UNCHANGED disk /\ Raise
         ELSE IF ok /\ Here.head = Unborn
         THEN Write(Cloned) /\ Goto("worktree")
         ELSE /\ \E left \in {Absent, HalfWritten(Cloned)} :
                   (ok => left # Absent) /\ Write(left)
              /\ Raise
  BY DEF EndClone
<1>2. ok \in BOOLEAN
  BY AnswersAreBoolean
<1>3. Rest /\ UNCHANGED <<label, atPin>>
  BY DEF EndClone
<1>4. CASE Here.kind # "worktree" \/ Here.origin = NoUrl
  BY <1>2, <1>3, <1>4, NoWriteIsOnlyHere, StopKeeps DEF Knows, Raise
<1>5. CASE ~(Here.kind # "worktree" \/ Here.origin = NoUrl)
  <2>1. Here \in Checkout /\ Here.origin \in URLs
    BY <1>1, <1>5, CurrentFacts DEF Knows, Checkout
  <2>2. served[Here.origin] \in SUBSET Objects
    BY <2>1 DEF Knows, Sane, TypeOK, WorldTypeOK
  <2>3. Cloned \in Checkout
    BY <2>1, <2>2, CommandsKeepType DEF Cloned
  <2>4. Absent \in Checkout /\ HalfWritten(Cloned) \in Checkout
    BY <2>3, CommandsKeepType
  <2>5. CASE ok /\ Here.head = Unborn
    <3>1. OnlyHere
      BY <1>1, <1>2, <1>3, <1>5, <2>3, <2>5, WriteIsOnlyHere DEF Knows
    <3>2. disk'[Current.path] = Cloned
      BY <1>1, <1>2, <1>3, <1>5, <2>3, <2>5, WriteIsOnlyHere DEF Knows
    <3>3. Cloned.kind = "worktree"
      BY <1>5, <2>1 DEF Cloned, FullClone, Checkout
    <3>4. pc' = "worktree" /\ Current' = Current /\ Here' = Cloned
      BY <1>3, <1>5, <2>5, <3>2 DEF Goto, Rest, Current, Here
    <3>5. Evidence(ours, spoilt)'
      BY <3>3, <3>4 DEF Evidence, AfterStatus, AfterOrigin, AfterUpstream
    <3> QED BY <1>1, <1>5, <2>5, <3>1, <3>5, GotoKeeps DEF Labels, InCheckout
  <2>6. CASE ~(ok /\ Here.head = Unborn)
    <3>1. OnlyHere
      BY <1>1, <1>2, <1>3, <1>5, <2>4, <2>6, WriteIsOnlyHere DEF Knows
    <3> QED BY <1>5, <2>6, <3>1, StopKeeps DEF Raise
  <2> QED BY <2>5, <2>6
<1> QED BY <1>4, <1>5

\* A query that keeps what the run knows of the current checkout, and adds
\* something to it.
LEMMA EvidenceGrows ==
  ASSUME Query, index' = index
  PROVE  Current' = Current /\ Here' = Here
BY DEF Query, Rest, Current, Here

LEMMA CheckWorktreeKeeps ==
  ASSUME NEW ours, NEW spoilt, Knows(ours, spoilt), CheckWorktree
  PROVE  Knows(ours, spoilt)'
<1>1. pc = "worktree" /\ index \in Configured(lock)
  BY InRun DEF Knows, CheckWorktree, At
<1> PICK ok \in Answers("worktree") :
      Count(ok) /\ Proceed(ok /\ Here.kind = "worktree", "status")
  BY DEF CheckWorktree
<1>2. OnlyHere
  BY AnswersAreBoolean, QueryIsOnlyHere DEF CheckWorktree, Knows, Sane, TypeOK, RunTypeOK
<1>3. CASE ok /\ Here.kind = "worktree"
  <2>1. Goto("status")
    BY <1>3 DEF Proceed
  <2>2. Evidence(ours, spoilt)'
    BY <1>3, <2>1, EvidenceGrows DEF CheckWorktree, Goto, Evidence, AfterStatus,
      AfterOrigin, AfterUpstream
  <2> QED BY <1>1, <1>2, <2>1, <2>2, GotoKeeps DEF Labels, InCheckout
<1>4. CASE ~(ok /\ Here.kind = "worktree")
  BY <1>2, <1>4, StopKeeps DEF Proceed, Raise
<1> QED BY <1>3, <1>4

LEMMA CheckStatusKeeps ==
  ASSUME NEW ours, NEW spoilt, Knows(ours, spoilt), CheckStatus
  PROVE  Knows(ours, spoilt)'
<1>1. pc = "status" /\ index \in Configured(lock)
  BY InRun DEF Knows, CheckStatus, At
<1> PICK ok \in Answers("status") :
      Count(ok) /\ Proceed(ok /\ StatusIsEmpty(Here), "origin")
  BY DEF CheckStatus
<1>2. OnlyHere
  BY AnswersAreBoolean, QueryIsOnlyHere DEF CheckStatus, Knows, Sane, TypeOK, RunTypeOK
<1>3. CASE ok /\ StatusIsEmpty(Here)
  <2>1. Goto("origin")
    BY <1>3 DEF Proceed
  <2>2. Here.kind = "worktree" /\ Here.tree = "clean"
    BY <1>3 DEF StatusIsEmpty, StatusSucceeds
  <2>3. Evidence(ours, spoilt)'
    BY <2>1, <2>2, EvidenceGrows DEF CheckStatus, Goto, Evidence, InCheckout,
      AfterStatus, AfterOrigin, AfterUpstream
  <2> QED BY <1>1, <1>2, <2>1, <2>3, GotoKeeps DEF Labels, InCheckout
<1>4. CASE ~(ok /\ StatusIsEmpty(Here))
  BY <1>2, <1>4, StopKeeps DEF Proceed, Raise
<1> QED BY <1>3, <1>4

LEMMA CheckOriginKeeps ==
  ASSUME NEW ours, NEW spoilt, Knows(ours, spoilt), CheckOrigin
  PROVE  Knows(ours, spoilt)'
<1> DEFINE next == IF Current.upstream = NoUrl THEN "resolve" ELSE "upstream"
<1>1. pc = "origin" /\ index \in Configured(lock)
  BY InRun DEF Knows, CheckOrigin, At
<1> PICK ok \in Answers("origin") :
      Count(ok) /\ Proceed(ok /\ Here.origin = Current.repository, next)
  BY DEF CheckOrigin
<1>2. OnlyHere
  BY AnswersAreBoolean, QueryIsOnlyHere DEF CheckOrigin, Knows, Sane, TypeOK, RunTypeOK
<1>3. CASE ok /\ Here.origin = Current.repository
  <2>1. Goto(next)
    BY <1>3 DEF Proceed
  <2>2. Evidence(ours, spoilt)'
    BY <1>1, <1>3, <2>1, EvidenceGrows DEF CheckOrigin, Goto, Knows, Evidence, InCheckout,
      AfterStatus, AfterOrigin, AfterUpstream
  <2> QED BY <1>1, <1>2, <2>1, <2>2, GotoKeeps DEF Labels, InCheckout
<1>4. CASE ~(ok /\ Here.origin = Current.repository)
  BY <1>2, <1>4, StopKeeps DEF Proceed, Raise
<1> QED BY <1>3, <1>4

LEMMA CheckUpstreamKeeps ==
  ASSUME NEW ours, NEW spoilt, Knows(ours, spoilt), CheckUpstream
  PROVE  Knows(ours, spoilt)'
<1>1. pc = "upstream" /\ index \in Configured(lock)
  BY InRun DEF Knows, CheckUpstream, At
<1> PICK ok \in Answers("upstream") :
      /\ Count(ok)
      /\ IF ok /\ Here.upstream # NoUrl
         THEN Proceed(Here.upstream = Current.upstream, "resolve")
         ELSE Goto("add_upstream")
  BY DEF CheckUpstream
<1>0. Current.upstream # NoUrl
  BY <1>1 DEF Knows, Sane, Shape
<1>2. OnlyHere
  BY AnswersAreBoolean, QueryIsOnlyHere DEF CheckUpstream, Knows, Sane, TypeOK, RunTypeOK
<1>3. CASE ~(ok /\ Here.upstream # NoUrl)
  <2>1. Goto("add_upstream")
    BY <1>3
  <2>2. Evidence(ours, spoilt)'
    BY <1>1, <2>1, EvidenceGrows DEF CheckUpstream, Goto, Knows, Evidence, InCheckout,
      AfterStatus, AfterOrigin, AfterUpstream
  <2> QED BY <1>0, <1>1, <1>2, <2>1, <2>2, GotoKeeps DEF Labels, InCheckout
<1>4. CASE ok /\ Here.upstream # NoUrl /\ Here.upstream = Current.upstream
  <2>1. Goto("resolve")
    BY <1>4 DEF Proceed
  <2>2. Evidence(ours, spoilt)'
    BY <1>1, <1>4, <2>1, EvidenceGrows DEF CheckUpstream, Goto, Knows, Evidence, InCheckout,
      AfterStatus, AfterOrigin, AfterUpstream
  <2> QED BY <1>0, <1>1, <1>2, <2>1, <2>2, GotoKeeps DEF Labels, InCheckout
<1>5. CASE ok /\ Here.upstream # NoUrl /\ Here.upstream # Current.upstream
  BY <1>2, <1>5, StopKeeps DEF Proceed, Raise
<1> QED BY <1>3, <1>4, <1>5

LEMMA AddUpstreamKeeps ==
  ASSUME NEW ours, NEW spoilt, Knows(ours, spoilt), AddUpstream
  PROVE  Knows(ours, spoilt)'
<1>1. pc = "add_upstream" /\ index \in Configured(lock) /\ index \in DOMAIN lock
  BY InRun DEF Knows, AddUpstream, At
<1> DEFINE added == [Here EXCEPT !.upstream = Current.upstream]
<1> PICK ok \in Answers("add_upstream") :
      /\ Count(ok)
      /\ IF ok /\ Here.kind = "worktree" /\ Here.upstream = NoUrl
         THEN Write(added) /\ Goto("resolve")
         ELSE UNCHANGED disk /\ Raise
  BY DEF AddUpstream
<1>2. ok \in BOOLEAN /\ Rest /\ UNCHANGED <<label, atPin>>
  BY AnswersAreBoolean DEF AddUpstream
<1>3. CASE ok /\ Here.kind = "worktree" /\ Here.upstream = NoUrl
  <2>1. Here \in Checkout /\ Current \in ParsedComponent
    BY <1>1, CurrentFacts DEF Knows
  <2>2. Current.upstream \in URLs
    BY <1>1, <2>1 DEF ParsedComponent, Knows, Sane, Shape
  <2>3. added \in Checkout
    BY <2>1, <2>2, CommandsKeepType
  <2>4. OnlyHere /\ disk'[Current.path] = added
    BY <1>1, <1>2, <1>3, <2>3, WriteIsOnlyHere DEF Knows
  <2>5. Current' = Current /\ Here' = added
    BY <1>2, <1>3, <2>4 DEF Goto, Rest, Current, Here
  <2>6. /\ added.kind = Here.kind /\ added.tree = Here.tree
        /\ added.origin = Here.origin /\ added.upstream = Current.upstream
    BY <2>1 DEF Checkout
  <2> HIDE DEF added
  <2>7. Evidence(ours, spoilt)'
    BY <1>1, <1>3, <2>5, <2>6 DEF Goto, Knows, Evidence, InCheckout,
      AfterStatus, AfterOrigin, AfterUpstream
  <2> QED BY <1>1, <1>3, <2>4, <2>7, GotoKeeps DEF Labels, InCheckout
<1>4. CASE ~(ok /\ Here.kind = "worktree" /\ Here.upstream = NoUrl)
  BY <1>2, <1>4, NoWriteIsOnlyHere, StopKeeps DEF Knows, Raise
<1> QED BY <1>3, <1>4

LEMMA Resolve1Keeps ==
  ASSUME NEW ours, NEW spoilt, Knows(ours, spoilt), Resolve1
  PROVE  Knows(ours, spoilt)'
<1>1. pc = "resolve" /\ index \in Configured(lock)
  BY InRun DEF Knows, Resolve1, At
<1> PICK ok \in Answers("resolve") :
      /\ Count(ok)
      /\ Goto(IF ok /\ Current.revision \in Here.objects
              THEN "resolve_again" ELSE "fetch")
  BY DEF Resolve1
<1>2. OnlyHere
  BY AnswersAreBoolean, QueryIsOnlyHere DEF Resolve1, Knows, Sane, TypeOK, RunTypeOK
<1>3. PICK next \in {"resolve_again", "fetch"} : Goto(next)
  OBVIOUS
<1>4. Evidence(ours, spoilt)'
  BY <1>1, <1>3, EvidenceGrows DEF Resolve1, Goto, Knows, Evidence, InCheckout,
    AfterStatus, AfterOrigin, AfterUpstream
<1> QED BY <1>1, <1>2, <1>3, <1>4, GotoKeeps DEF Labels, InCheckout

LEMMA FetchOriginKeeps ==
  ASSUME NEW ours, NEW spoilt, Knows(ours, spoilt), FetchOrigin
  PROVE  Knows(ours, spoilt)'
<1>1. pc = "fetch" /\ index \in Configured(lock) /\ index \in DOMAIN lock
  BY InRun DEF Knows, FetchOrigin, At
<1> DEFINE fetched == Fetched(Here, served[Here.origin])
<1> PICK ok \in Answers("fetch") :
      /\ Count(ok)
      /\ IF ok /\ Here.kind = "worktree" /\ Here.origin # NoUrl
         THEN Write(fetched) /\ Goto("resolve_again")
         ELSE UNCHANGED disk /\ Raise
  BY DEF FetchOrigin
<1>2. ok \in BOOLEAN /\ Rest /\ UNCHANGED <<label, atPin>>
  BY AnswersAreBoolean DEF FetchOrigin
<1>3. CASE ok /\ Here.kind = "worktree" /\ Here.origin # NoUrl
  <2>1. Here \in Checkout /\ Here.origin \in URLs
    BY <1>1, <1>3, CurrentFacts DEF Knows, Checkout
  <2>2. served[Here.origin] \in SUBSET Objects
    BY <2>1 DEF Knows, Sane, TypeOK, WorldTypeOK
  <2>3. fetched \in Checkout
    BY <2>1, <2>2, CommandsKeepType
  <2>4. OnlyHere /\ disk'[Current.path] = fetched
    BY <1>1, <1>2, <1>3, <2>3, WriteIsOnlyHere DEF Knows
  <2>5. Current' = Current /\ Here' = fetched
    BY <1>2, <1>3, <2>4 DEF Goto, Rest, Current, Here
  <2>6. /\ fetched.kind = Here.kind /\ fetched.tree = Here.tree
        /\ fetched.origin = Here.origin /\ fetched.upstream = Here.upstream
    BY <2>1 DEF Checkout, Fetched
  <2> HIDE DEF fetched
  <2>7. Evidence(ours, spoilt)'
    BY <1>1, <1>3, <2>5, <2>6 DEF Goto, Knows, Evidence, InCheckout,
      AfterStatus, AfterOrigin, AfterUpstream
  <2> QED BY <1>1, <1>3, <2>4, <2>7, GotoKeeps DEF Labels, InCheckout
<1>4. CASE ~(ok /\ Here.kind = "worktree" /\ Here.origin # NoUrl)
  BY <1>2, <1>4, NoWriteIsOnlyHere, StopKeeps DEF Knows, Raise
<1> QED BY <1>3, <1>4

LEMMA Resolve2Keeps ==
  ASSUME NEW ours, NEW spoilt, Knows(ours, spoilt), Resolve2
  PROVE  Knows(ours, spoilt)'
<1>1. pc = "resolve_again" /\ index \in Configured(lock)
  BY InRun DEF Knows, Resolve2, At
<1> PICK ok \in Answers("resolve") :
      Count(ok) /\ Proceed(ok /\ Current.revision \in Here.objects, "head")
  BY DEF Resolve2
<1>2. OnlyHere
  BY AnswersAreBoolean, QueryIsOnlyHere DEF Resolve2, Knows, Sane, TypeOK, RunTypeOK
<1>3. CASE ok /\ Current.revision \in Here.objects
  <2>1. Goto("head")
    BY <1>3 DEF Proceed
  <2>2. Evidence(ours, spoilt)'
    BY <1>1, <2>1, EvidenceGrows DEF Resolve2, Goto, Knows, Evidence, InCheckout,
      AfterStatus, AfterOrigin, AfterUpstream
  <2> QED BY <1>1, <1>2, <2>1, <2>2, GotoKeeps DEF Labels, InCheckout
<1>4. CASE ~(ok /\ Current.revision \in Here.objects)
  BY <1>2, <1>4, StopKeeps DEF Proceed, Raise
<1> QED BY <1>3, <1>4

LEMMA ReadHeadKeeps ==
  ASSUME NEW ours, NEW spoilt, Knows(ours, spoilt), ReadHead
  PROVE  Knows(ours, spoilt)'
<1>1. pc = "head" /\ index \in Configured(lock) /\ Goto("symref")
  BY InRun DEF Knows, ReadHead, At
<1> PICK ok \in Answers("head") :
      Count(ok) /\ atPin' = (ok /\ Here.head = Current.revision)
  BY DEF ReadHead
<1>2. OnlyHere
  BY AnswersAreBoolean, QueryIsOnlyHere DEF Knows, ReadHead
<1>3. Evidence(ours, spoilt)'
  BY <1>1, EvidenceGrows DEF ReadHead, Goto, Knows, Evidence, InCheckout,
    AfterStatus, AfterOrigin, AfterUpstream
<1> QED BY <1>1, <1>2, <1>3, GotoKeeps DEF Labels, InCheckout

LEMMA ReadAttachmentKeeps ==
  ASSUME NEW ours, NEW spoilt, Knows(ours, spoilt), ReadAttachment
  PROVE  Knows(ours, spoilt)'
<1>1. pc = "symref" /\ index \in Configured(lock) /\ index \in DOMAIN lock
  BY InRun DEF Knows, ReadAttachment, At
<1> PICK ok \in Answers("symref") :
      /\ Count(ok)
      /\ IF atPin /\ ~(ok /\ Here.attached)
         THEN Return("current") ELSE Goto("checkout")
  BY DEF ReadAttachment
<1>2. ok = TRUE
  BY AttachmentAssumption DEF Answers
<1>3. OnlyHere
  BY AnswersAreBoolean, QueryIsOnlyHere DEF ReadAttachment, Knows, Sane, TypeOK, RunTypeOK
<1>4. CASE atPin /\ ~Here.attached
  <2>1. disk' = disk
    BY DEF ReadAttachment, Query
  <2>2. ASSUME Current.path \in ours PROVE Settled(Current, Here, spoilt)
    <3>1. /\ Here.kind = "worktree" /\ Here.head = Current.revision
          /\ Here.tree = "clean" \/ spoilt
          /\ Here.origin = Current.repository
          /\ Here.upstream = Current.upstream \/ Current.upstream = NoUrl
      BY <1>1, <1>4, <2>2 DEF Knows, Evidence, InCheckout, AfterStatus,
        AfterOrigin, AfterUpstream
    <3>2. Here \in Checkout /\ Current.revision \in Objects
      BY <1>1, CurrentFacts, InRun DEF Knows
    <3>3. Current.revision \in Commits
      BY <3>1, <3>2, ObjectsAssumption DEF Checkout, Objects
    <3>4. Peel(Current.revision) = Current.revision
      BY <3>3, ObjectsAssumption DEF Peel
    <3> QED BY <1>4, <3>1, <3>4 DEF Settled
  <2>3. Return("current")
    BY <1>2, <1>4
  <2> QED BY <1>1, <1>3, <2>1, <2>2, <2>3, ReturnKeeps DEF Here
<1>5. CASE ~(atPin /\ ~Here.attached)
  <2>1. Goto("checkout")
    BY <1>2, <1>5
  <2>2. Evidence(ours, spoilt)'
    BY <1>1, <2>1, EvidenceGrows DEF ReadAttachment, Goto, Knows, Evidence, InCheckout,
      AfterStatus, AfterOrigin, AfterUpstream
  <2> QED BY <1>1, <1>3, <2>1, <2>2, GotoKeeps DEF Labels, InCheckout
<1> QED BY <1>4, <1>5

LEMMA CheckoutPinKeeps ==
  ASSUME NEW ours, NEW spoilt, Knows(ours, spoilt), CheckoutPin
  PROVE  Knows(ours, spoilt)'
<1>1. pc = "checkout" /\ index \in Configured(lock) /\ index \in DOMAIN lock
  BY InRun DEF Knows, CheckoutPin, At
<1>2. /\ Here \in Checkout /\ Current \in ParsedComponent
      /\ Current.revision \in Objects
  BY <1>1, CurrentFacts, InRun DEF Knows
<1>3. Detached(Here, Current.revision) \in Checkout /\ HalfWritten(Here) \in Checkout
  BY <1>2, CommandsKeepType
<1> PICK ok \in Answers("checkout") :
      /\ Count(ok)
      /\ \/ /\ ok /\ CanDetach(Here, Current.revision)
            /\ Write(Detached(Here, Current.revision))
            /\ Return(label)
         \/ /\ ok => ~CanDetach(Here, Current.revision) \/ Here.tree = "dirty"
            /\ UNCHANGED disk /\ Raise
         \/ /\ ~ok /\ RewritesFiles
            /\ Write(HalfWritten(Here)) /\ Raise
  BY DEF CheckoutPin
<1>4. ok \in BOOLEAN /\ Rest /\ UNCHANGED <<label, atPin>>
  BY AnswersAreBoolean DEF CheckoutPin
<1>5. CASE Write(Detached(Here, Current.revision)) /\ Return(label)
  <2>1. OnlyHere /\ disk'[Current.path] = Detached(Here, Current.revision)
    BY <1>1, <1>3, <1>4, <1>5, WriteIsOnlyHere DEF Knows
  <2>2. Current.path \in ours => Settled(Current, disk'[Current.path], spoilt)
    BY <1>1, <1>2, <2>1, DetachingSettles DEF Knows, Evidence, InCheckout,
      AfterStatus, AfterOrigin, AfterUpstream
  <2>3. label \in {"skipped", "current", "cloned", "updated"}
    BY DEF Knows, Sane, TypeOK, RunTypeOK
  <2> QED BY <1>1, <1>5, <2>1, <2>2, <2>3, ReturnKeeps
<1>6. CASE UNCHANGED disk /\ Raise
  BY <1>4, <1>6, NoWriteIsOnlyHere, StopKeeps DEF Knows, Raise
<1>7. CASE Write(HalfWritten(Here)) /\ Raise
  <2>1. OnlyHere
    BY <1>1, <1>3, <1>4, <1>7, WriteIsOnlyHere DEF Knows
  <2> QED BY <1>7, <2>1, StopKeeps DEF Raise
<1> QED BY <1>5, <1>6, <1>7

LEMMA TracebackKeeps ==
  ASSUME NEW ours, NEW spoilt, Knows(ours, spoilt), Traceback
  PROVE  Knows(ours, spoilt)'
<1>1. OnlyHere
  BY QueryIsOnlyHere DEF Traceback, Knows, Sane, TypeOK, RunTypeOK
<1> QED BY <1>1, StopKeeps DEF Traceback

\* The end of the lock: every component is before the index.
LEMMA FinishKeeps ==
  ASSUME NEW ours, NEW spoilt, Knows(ours, spoilt), Finish
  PROVE  Knows(ours, spoilt)'
<1>1. disk' = disk /\ Rest /\ label' = label /\ atPin' = atPin /\ faults' = faults
      /\ index' = index /\ results' = results /\ pc' = "idle"
      /\ outcome' = "succeeded" /\ pc = "next" /\ index \notin DOMAIN lock
  BY DEF Finish, Query
<1>2. TypeOK'
  BY <1>1 DEF Knows, Sane, TypeOK, WorldTypeOK, RunTypeOK, Rest, Labels
<1>3. Shape'
  BY <1>1 DEF Knows, Sane, Shape, Rest, Configured
<1>4. Evidence(ours, spoilt)'
  BY <1>1 DEF Evidence, InCheckout
<1>5. Done(ours, spoilt)'
  BY <1>1 DEF Knows, Done, Rest, Configured
<1> QED BY <1>2, <1>3, <1>4, <1>5 DEF Knows, Sane

LEMMA KillKeeps ==
  ASSUME NEW ours, NEW spoilt, Knows(ours, spoilt), Kill
  PROVE  Knows(ours, spoilt)'
<1>1. /\ faults' = faults + 1 /\ Stop("killed") /\ Rest
      /\ UNCHANGED <<label, atPin>>
  BY DEF Kill
<1>2. \E ok \in BOOLEAN : Count(ok)
  BY <1>1 DEF Count
<1>3. CASE UNCHANGED disk
  BY <1>1, <1>2, <1>3, NoWriteIsOnlyHere, StopKeeps DEF Knows
<1>4. CASE pc = "cloning" /\ Here.kind = "worktree" /\ Here.origin # NoUrl
           /\ \E left \in {Absent, HalfWritten(Cloned)} : Write(left)
  <2>1. index \in DOMAIN lock
    BY <1>4, InRun DEF Knows
  <2>2. Here \in Checkout /\ Here.origin \in URLs
    BY <1>4, <2>1, CurrentFacts DEF Knows, Checkout
  <2>3. served[Here.origin] \in SUBSET Objects
    BY <2>2 DEF Knows, Sane, TypeOK, WorldTypeOK
  <2>4. Cloned \in Checkout
    BY <2>2, <2>3, CommandsKeepType DEF Cloned
  <2>5. Absent \in Checkout /\ HalfWritten(Cloned) \in Checkout
    BY <2>4, CommandsKeepType
  <2>6. OnlyHere
    BY <1>1, <1>2, <1>4, <2>1, <2>5, WriteIsOnlyHere DEF Knows
  <2> QED BY <1>1, <2>6, StopKeeps
<1>5. CASE pc = "checkout" /\ RewritesFiles /\ Write(HalfWritten(Here))
  <2>1. index \in DOMAIN lock
    BY <1>5, InRun DEF Knows
  <2>2. HalfWritten(Here) \in Checkout
    BY <2>1, CurrentFacts, CommandsKeepType DEF Knows
  <2>3. OnlyHere
    BY <1>1, <1>2, <1>5, <2>1, <2>2, WriteIsOnlyHere DEF Knows
  <2> QED BY <1>1, <2>3, StopKeeps
<1> QED BY <1>3, <1>4, <1>5 DEF Kill


\* Whoever trusts less, or allows for half-written files, knows it too.
LEMMA KnowsLess ==
  ASSUME NEW ours, NEW theirs, theirs \subseteq ours,
         NEW spoilt, NEW worse, spoilt => worse, Knows(ours, spoilt)
  PROVE  Knows(theirs, worse)
BY DEF Knows, Evidence, Done, Settled

\* Any command leaves the run with the knowledge its answer gives.
LEMMA CommandKeeps ==
  ASSUME NEW ours, NEW spoilt, Knows(ours, spoilt), Bootstrap \/ Kill
  PROVE  Knows(ours, spoilt)'
<1>1. CASE Kill
  BY <1>1, KillKeeps
<1>2. CASE Load
  BY <1>2, LoadKeeps DEF Knows
<1> QED BY <1>1, <1>2, SkipKeeps, FindCheckoutKeeps, BeginCloneKeeps, EndCloneKeeps,
     CheckWorktreeKeeps, CheckStatusKeeps, CheckOriginKeeps, CheckUpstreamKeeps,
     AddUpstreamKeeps, Resolve1Keeps, FetchOriginKeeps, Resolve2Keeps, ReadHeadKeeps,
     ReadAttachmentKeeps, CheckoutPinKeeps, TracebackKeeps, FinishKeeps DEF Bootstrap

\* And with its types, whatever others do to the disk.
LEMMA CommandKeepsSanity ==
  ASSUME Sane, Bootstrap \/ Kill
  PROVE  Sane'
<1>1. Knows({}, TRUE)
  BY DEF Knows, Evidence, Done
<1>2. Knows({}, TRUE)'
  BY <1>1, CommandKeeps
<1> QED BY <1>2 DEF Knows

-----------------------------------------------------------------------------
(***************************************************************************)
(* What bootstrap writes.                                                  *)
(***************************************************************************)
\* A repair keeps what a clone has not made.
Repairs(after) ==
  /\ Here.kind = "worktree"
  /\ \/ after = [Here EXCEPT !.upstream = Current.upstream] /\ Here.upstream = NoUrl
     \/ after = Fetched(Here, served[Here.origin])
     \/ after = Detached(Here, Current.revision)
     \/ after = HalfWritten(Here) /\ Here.head # Peel(Current.revision)
        /\ Here.tree # "unreadable" /\ faults' = faults + 1

Mends(after) == Repairs(after) /\ pc' # "cloning"

Clones(after) ==
  \/ /\ after = EmptyClone(Current.repository)
     /\ Here.kind = "absent" /\ pc' = "cloning" /\ UNCHANGED <<lock, index>>
  \/ /\ \/ after = Absent /\ faults' = faults + 1
        \/ after \in {Cloned, HalfWritten(Cloned)}
     /\ Here.kind = "worktree" /\ pc = "cloning" /\ pc' # "cloning"

\* Bootstrap writes at most the checkout in hand, by a clone or a repair.
LEMMA BootstrapWrites ==
  ASSUME Sane, Bootstrap \/ Kill
  PROVE  \/ UNCHANGED disk /\ pc' # "cloning"
         \/ /\ index \in DOMAIN lock
            /\ \E after : Write(after) /\ (Clones(after) \/ Mends(after))
<1> DEFINE Goal == \/ UNCHANGED disk /\ pc' # "cloning"
                   \/ /\ index \in DOMAIN lock
                      /\ \E after : Write(after) /\ (Clones(after) \/ Mends(after))
<1>a. ASSUME index \in DOMAIN lock, NEW after, Write(after), Clones(after)
      PROVE  Goal
  BY <1>a
<1>b. CASE UNCHANGED disk /\ Raise
  BY <1>b DEF Raise, Stop
<1>1. CASE Load \/ Skip \/ FindCheckout \/ CheckWorktree \/ CheckStatus \/ CheckOrigin
           \/ CheckUpstream \/ Resolve1 \/ Resolve2 \/ ReadHead \/ ReadAttachment
           \/ Traceback \/ Finish
  <2>1. UNCHANGED disk
    BY <1>1 DEF Load, Skip, FindCheckout, CheckWorktree, CheckStatus, CheckOrigin,
       CheckUpstream, Resolve1, Resolve2, ReadHead, ReadAttachment, Traceback, Finish,
       Query, world
  <2>2. pc' # "cloning"
    BY <1>1 DEF Load, Skip, FindCheckout, CheckWorktree, CheckStatus, CheckOrigin,
       CheckUpstream, Resolve1, Resolve2, ReadHead, ReadAttachment, Traceback, Finish,
       Goto, Proceed, Raise, Stop, Return
  <2> QED BY <2>1, <2>2
<1>2. CASE BeginClone
  <2>1. index \in DOMAIN lock
    BY <1>2, InRun DEF BeginClone
  <2>2. CASE Here.kind = "absent"
    <3>1. Write(EmptyClone(Current.repository)) /\ Clones(EmptyClone(Current.repository))
      BY <1>2, <2>2 DEF BeginClone, Goto, Rest, Clones
    <3> QED BY <1>a, <2>1, <3>1
  <2> QED BY <1>2, <1>b, <2>2 DEF BeginClone
<1>3. CASE EndClone
  <2>1. index \in DOMAIN lock /\ pc = "cloning"
    BY <1>3, InRun DEF EndClone
  <2>2. CASE ~(UNCHANGED disk /\ Raise)
    <3>1. Here.kind = "worktree" /\ pc' # "cloning"
      BY <1>3, <2>2 DEF EndClone, Raise, Stop, Goto
    <3>2. PICK after \in {Absent, Cloned, HalfWritten(Cloned)} :
            Write(after) /\ (after = Absent => faults' = faults + 1 \/ after = Cloned)
      BY <1>3, <2>2 DEF EndClone, Count
    <3>3. Clones(after)
      BY <2>1, <3>1, <3>2 DEF Clones
    <3> QED BY <1>a, <2>1, <3>2, <3>3
  <2> QED BY <1>b, <2>2
<1>4. CASE AddUpstream
  <2>1. index \in DOMAIN lock
    BY <1>4, InRun DEF AddUpstream, At
  <2> QED BY <1>4, <2>1 DEF AddUpstream, Mends, Repairs, Raise, Stop, Goto
<1>5. CASE FetchOrigin
  <2>1. index \in DOMAIN lock
    BY <1>5, InRun DEF FetchOrigin, At
  <2> QED BY <1>5, <2>1 DEF FetchOrigin, Mends, Repairs, Raise, Stop, Goto
<1>6. CASE CheckoutPin
  <2>1. index \in DOMAIN lock
    BY <1>6, InRun DEF CheckoutPin, At
  <2> QED BY <1>6, <2>1 DEF CheckoutPin, Count, Mends, Repairs, Raise, Stop, Return, RewritesFiles,
        CanDetach
<1>7. CASE Kill
  <2>1. pc' # "cloning"
    BY <1>7 DEF Kill, Stop
  <2>2. pc \in {"cloning", "checkout"} => index \in DOMAIN lock
    BY InRun
  <2> QED BY <1>7, <2>1, <2>2 DEF Kill, Clones, Mends, Repairs, RewritesFiles, CanDetach
<1> QED BY <1>1, <1>2, <1>3, <1>4, <1>5, <1>6, <1>7 DEF Bootstrap

\* Nobody else's state moves, and the lock is taken once per run.
LEMMA CommandFrame ==
  ASSUME Sane, Bootstrap \/ Kill
  PROVE  /\ UNCHANGED <<served, edition, interventions>>
         /\ Load \/ (pc # "idle" /\ UNCHANGED <<lock, since, before>>)
         /\ faults' \in Nat /\ faults' >= faults
<1>1. faults \in Nat
  BY DEF Sane, TypeOK, WorldTypeOK
<1>2. CASE Load
  BY <1>1, <1>2 DEF Load, world
<1>3. CASE ~Load
  <2>1. Rest
    BY <1>3 DEF Bootstrap, Skip, FindCheckout, BeginClone, EndClone, CheckWorktree,
      CheckStatus, CheckOrigin, CheckUpstream, AddUpstream, Resolve1, FetchOrigin,
      Resolve2, ReadHead, ReadAttachment, CheckoutPin, Traceback, Finish, Kill, Query
  <2>2. faults' \in {faults, faults + 1}
    BY <1>3 DEF Bootstrap, Skip, FindCheckout, BeginClone, EndClone, CheckWorktree,
      CheckStatus, CheckOrigin, CheckUpstream, AddUpstream, Resolve1, FetchOrigin,
      Resolve2, ReadHead, ReadAttachment, CheckoutPin, Traceback, Finish, Kill, Count
  <2>3. pc # "idle"
    BY <1>3 DEF Bootstrap, Skip, FindCheckout, BeginClone, EndClone, CheckWorktree,
      CheckStatus, CheckOrigin, CheckUpstream, AddUpstream, Resolve1, FetchOrigin,
      Resolve2, ReadHead, ReadAttachment, CheckoutPin, Traceback, Finish, Kill, At, InCheckout
  <2> QED BY <1>1, <2>1, <2>2, <2>3 DEF Rest
<1> QED BY <1>2, <1>3

\* A component is entered by "worktree", left by a result, and a run that
\* stops has nothing more to say.
LEMMA CommandEnds ==
  ASSUME Sane, Bootstrap \/ Kill, ~Load
  PROVE  \/ \E how \in {"failed", "traceback", "killed"} : Stop(how)
         \/ /\ index \in Configured(lock)
            /\ pc \in InCheckout \/ pc' \in {"clone", "cloning", "worktree"}
            /\ pc' \in Labels \ {"idle", "next"} /\ Goto(pc') /\ pc # "idle"
         \/ /\ index \in Configured(lock) => pc \in InCheckout
            /\ \E action : Return(action)
            /\ pc # "idle"
         \/ Finish
<1> DEFINE Stops == \E how \in {"failed", "traceback", "killed"} : Stop(how)
           Goes == /\ index \in Configured(lock)
                   /\ pc \in InCheckout \/ pc' \in {"clone", "cloning", "worktree"}
                   /\ pc' \in Labels \ {"idle", "next"} /\ Goto(pc') /\ pc # "idle"
           Returns == /\ index \in Configured(lock) => pc \in InCheckout
                      /\ \E action : Return(action)
                      /\ pc # "idle"
<1>1. CASE Raise \/ Kill \/ Traceback
  BY <1>1 DEF Raise, Kill, Traceback
<1>2. CASE Skip
  BY <1>2 DEF Skip, Configured, Current
<1>3. CASE FindCheckout
  <2>1. index \in Configured(lock) /\ pc = "next"
    BY <1>3 DEF FindCheckout, Configured, Current
  <2>2. Goto(pc') /\ pc' \in {"clone", "worktree"}
    BY <1>3 DEF FindCheckout, Goto
  <2>3. Goes
    BY <2>1, <2>2 DEF Labels, InCheckout
  <2> QED BY <2>3
<1>4. CASE (BeginClone \/ EndClone) /\ ~Raise
  <2>1. index \in Configured(lock) /\ pc \in {"clone", "cloning"}
    BY <1>4, InRun DEF BeginClone, EndClone
  <2>2. Goto(pc') /\ pc' \in {"cloning", "worktree"}
    BY <1>4 DEF BeginClone, EndClone, Goto
  <2>3. Goes
    BY <2>1, <2>2 DEF Labels, InCheckout
  <2> QED BY <2>3
<1>5. CASE /\ \/ CheckWorktree \/ CheckStatus \/ CheckOrigin \/ CheckUpstream
              \/ AddUpstream \/ Resolve1 \/ FetchOrigin \/ Resolve2 \/ ReadHead
           /\ ~Raise
  <2>1. pc \in InCheckout
    BY <1>5 DEF CheckWorktree, CheckStatus, CheckOrigin, CheckUpstream, AddUpstream,
      Resolve1, FetchOrigin, Resolve2, ReadHead, At, InCheckout
  <2>2. Goto(pc') /\ pc' \in InCheckout
    BY <1>5 DEF CheckWorktree, CheckStatus, CheckOrigin, CheckUpstream, AddUpstream,
      Resolve1, FetchOrigin, Resolve2, ReadHead, Goto, Proceed, InCheckout
  <2>3. index \in Configured(lock) /\ InCheckout \subseteq Labels \ {"idle", "next"}
    BY <2>1, InRun DEF InCheckout, Labels
  <2>4. Goes
    BY <2>1, <2>2, <2>3 DEF InCheckout
  <2> QED BY <2>4
<1>6. CASE (ReadAttachment \/ CheckoutPin) /\ ~Raise
  <2>1. pc \in InCheckout /\ pc # "idle"
    BY <1>6 DEF ReadAttachment, CheckoutPin, At, InCheckout
  <2>2. Goto("checkout") \/ Return("current") \/ Return(label)
    BY <1>6 DEF ReadAttachment, CheckoutPin
  <2>3. index \in Configured(lock)
    BY <2>1, InRun DEF InCheckout
  <2>4. Goes \/ Returns
    BY <2>1, <2>2, <2>3 DEF Goto, Labels, InCheckout
  <2> QED BY <2>4
<1> QED BY <1>1, <1>2, <1>3, <1>4, <1>5, <1>6 DEF Bootstrap

\* A checkout is inspected under a component of the lock only.
LEMMA WorktreeEntered ==
  ASSUME Sane, Bootstrap \/ Kill, pc' = "worktree", pc # "idle"
  PROVE  index \in DOMAIN lock
<1>1. ~Load
  BY DEF Load
<1>2. CASE Finish \/ \E how \in {"failed", "traceback", "killed"} : Stop(how)
  BY <1>2 DEF Finish, Stop
<1>3. CASE \E action : Return(action)
  BY <1>3 DEF Return
<1>4. CASE index \in Configured(lock)
  BY <1>4 DEF Configured
<1> QED BY <1>1, <1>2, <1>3, <1>4, CommandEnds

\* A run vouches for no more than it did, and for what it has just found.
LEMMA VouchedGrows ==
  ASSUME Sane, Bootstrap \/ Kill, NEW path \in Vouched'
  PROVE  /\ pc # "idle" /\ UNCHANGED lock
         /\ path \in Vouched \/ (pc' = "worktree" /\ index \in Configured(lock)
                                   /\ path = Current.path)
<1>1. index \in Nat \ {0} /\ lock \in Seq(ParsedComponent)
      /\ lock' \in Seq(ParsedComponent) /\ pc \in Labels
  BY CommandKeepsSanity DEF Sane, TypeOK, RunTypeOK
<1>2. PICK i \in Configured(lock)' :
        /\ path = lock'[i].path
        /\ \/ pc' \in InCheckout /\ i = index'
           \/ (pc' # "idle" \/ outcome' = "succeeded") /\ i < index'
  BY DEF Vouched
<1>3. i \in Nat \ {0}
  BY <1>1, <1>2 DEF Configured
<1>4. CASE Load
  BY <1>2, <1>3, <1>4 DEF Load, InCheckout
<1>5. CASE \E how \in {"failed", "traceback", "killed"} : Stop(how)
  BY <1>2, <1>5 DEF Stop, InCheckout
<1>6. CASE ~Load /\ ~\E how \in {"failed", "traceback", "killed"} : Stop(how)
  <2>1. lock' = lock /\ i \in Configured(lock) /\ path = lock[i].path
    BY <1>2, <1>6, CommandFrame DEF Configured
  <2>2. CASE /\ index \in Configured(lock)
             /\ pc \in InCheckout \/ pc' \in {"clone", "cloning", "worktree"}
             /\ pc' \in Labels \ {"idle", "next"} /\ Goto(pc') /\ pc # "idle"
    <3>1. index' = index
      BY <2>2 DEF Goto
    <3>2. CASE i < index
      BY <2>1, <2>2, <3>2 DEF Vouched
    <3>3. CASE ~(i < index)
      <4>1. pc' \in InCheckout /\ i = index
        BY <1>2, <3>1, <3>3
      <4>2. CASE pc \in InCheckout
        BY <2>1, <2>2, <4>1, <4>2 DEF Vouched
      <4>3. CASE pc \notin InCheckout
        BY <2>1, <2>2, <4>1, <4>3 DEF Current, InCheckout
      <4> QED BY <4>2, <4>3
    <3> QED BY <3>2, <3>3
  <2>3. CASE /\ index \in Configured(lock) => pc \in InCheckout
             /\ \E action : Return(action)
             /\ pc # "idle"
    <3>1. index' = index + 1 /\ pc' = "next"
      BY <2>3 DEF Return
    <3>2. i < index \/ i = index
      BY <1>1, <1>2, <1>3, <3>1 DEF InCheckout
    <3> QED BY <2>1, <2>3, <3>2 DEF Vouched
  <2>4. CASE Finish
    <3>1. index' = index /\ pc' = "idle" /\ pc = "next"
      BY <2>4 DEF Finish
    <3> QED BY <1>2, <2>1, <3>1 DEF Vouched, InCheckout
  <2> QED BY <1>6, <2>2, <2>3, <2>4, CommandEnds
<1> QED BY <1>4, <1>5, <1>6

\* Something is there, where a run vouches for it.
LEMMA VouchedExists ==
  ASSUME NEW ours, NEW spoilt, Knows(ours, spoilt), NEW path \in Vouched \cap ours
  PROVE  disk[path].kind # "absent"
BY DEF Vouched, Knows, Evidence, Done, Settled, Current, Here

-----------------------------------------------------------------------------
(***************************************************************************)
(* What a run knows, while others are at work.                             *)
(***************************************************************************)
\* What another run of the same lock may do to a checkout under this one.
Mended(component, old, new, spoilt) ==
  /\ new.kind = old.kind /\ new.origin = old.origin
  /\ new.tree = old.tree \/ spoilt
  /\ new.upstream \in {old.upstream, component.upstream}
  /\ \/ new.head = old.head /\ new.attached = old.attached
     \/ new.head = Peel(component.revision) /\ ~new.attached

\* A run keeps what it knows while the checkouts it vouches for are mended.
LEMMA OthersKeep ==
  ASSUME NEW ours, NEW spoilt, NEW worse, spoilt => worse, Knows(ours, spoilt),
         UNCHANGED run, TypeOK',
         \A path \in Paths : since[path] <= interventions'[path],
         \A i \in Configured(lock) : lock[i].path \in ours \cap Vouched =>
           Mended(lock[i], disk[lock[i].path], disk'[lock[i].path], worse)
  PROVE  Knows(ours, worse)'
<1>1. UNCHANGED <<pc, lock, index, outcome, atPin, since>>
  BY DEF run
<1>2. Shape'
  BY <1>1 DEF Knows, Sane, Shape, Configured, Current
<1>3. ASSUME NEW i \in Configured(lock)
      PROVE  /\ lock[i].revision \in Objects /\ lock[i].path \in Paths
             /\ disk[lock[i].path] \in Checkout
  <2>1. i \in DOMAIN lock /\ lock \in Seq(ParsedComponent)
    BY DEF Configured, Knows, Sane, TypeOK, RunTypeOK
  <2>2. lock[i] \in ParsedComponent
    BY <2>1
  <2> QED BY <2>2 DEF ParsedComponent, Knows, Sane, Shape, TypeOK, WorldTypeOK
<1>4. ASSUME NEW i \in Configured(lock), disk[lock[i].path].head = lock[i].revision
      PROVE  Peel(lock[i].revision) = lock[i].revision
  BY <1>3, <1>4, ObjectsAssumption DEF Peel, Objects, Checkout
<1>5. Evidence(ours, worse)'
  <2> SUFFICES ASSUME pc \in InCheckout, Current.path \in ours
               PROVE  /\ Here'.kind # "absent"
                      /\ pc # "worktree" => Here'.kind = "worktree"
                      /\ pc \in AfterStatus => Here'.tree = "clean" \/ worse
                      /\ pc \in AfterOrigin => Here'.origin = Current.repository
                      /\ pc \in AfterUpstream =>
                           Here'.upstream = Current.upstream \/ Current.upstream = NoUrl
                      /\ pc = "symref" /\ atPin => Here'.head = Current.revision
    BY <1>1 DEF Evidence, Current, Here
  <2>1. index \in Configured(lock) /\ Current = lock[index]
    BY InRun DEF Knows, InCheckout, Current
  <2>2. Current.path \in Vouched
    BY <2>1 DEF Vouched
  <2>3. Mended(Current, Here, Here', worse)
    BY <1>1, <2>1, <2>2 DEF Here, Current
  <2>4. Here.head = Current.revision => Peel(Current.revision) = Current.revision
    BY <1>4, <2>1 DEF Here
  <2>5. /\ Here.kind # "absent"
        /\ pc # "worktree" => Here.kind = "worktree"
        /\ pc \in AfterStatus => Here.tree = "clean" \/ spoilt
        /\ pc \in AfterOrigin => Here.origin = Current.repository
        /\ pc \in AfterUpstream =>
             Here.upstream = Current.upstream \/ Current.upstream = NoUrl
        /\ pc = "symref" /\ atPin => Here.head = Current.revision
    BY DEF Knows, Evidence
  <2> HIDE DEF Here, Current
  <2> QED BY <2>3, <2>4, <2>5 DEF Mended
<1>6. Done(ours, worse)'
  <2> SUFFICES ASSUME pc # "idle" \/ outcome = "succeeded",
                      NEW i \in Configured(lock), i < index, lock[i].path \in ours
               PROVE  Settled(lock[i], disk'[lock[i].path], worse)
    BY <1>1 DEF Done, Configured
  <2>1. lock[i].path \in Vouched
    BY DEF Vouched
  <2>2. Mended(lock[i], disk[lock[i].path], disk'[lock[i].path], worse)
    BY <2>1
  <2>3. Settled(lock[i], disk[lock[i].path], spoilt)
    BY DEF Knows, Done
  <2> QED BY <2>2, <2>3 DEF Mended, Settled
<1> QED BY <1>2, <1>5, <1>6 DEF Knows, Sane

\* Between two components, and between two runs, nothing is written.
LEMMA IdleWritesNothing ==
  ASSUME Bootstrap \/ Kill, pc \in {"idle", "next"}
  PROVE  disk' = disk
BY DEF Bootstrap, Load, Skip, FindCheckout, BeginClone, EndClone, CheckWorktree,
  CheckStatus, CheckOrigin, CheckUpstream, AddUpstream, Resolve1, FetchOrigin,
  Resolve2, ReadHead, ReadAttachment, CheckoutPin, Traceback, Finish, Kill, At,
  InCheckout, Query, world

\* A command mends the checkout in hand, unless it clones.
LEMMA CommandMends ==
  ASSUME Sane, Bootstrap \/ Kill, disk' # disk
  PROVE  /\ index \in DOMAIN lock
         /\ \A path \in Paths : path # Current.path => disk'[path] = disk[path]
         /\ \/ Here.kind = "absent" /\ pc' = "cloning"
            \/ pc = "cloning"
            \/ Mended(Current, Here, disk'[Current.path], faults' > 0)
<1>1. PICK after : /\ index \in DOMAIN lock /\ Write(after)
                   /\ Clones(after) \/ Mends(after)
  BY BootstrapWrites
<1>2. Current.path \in Paths /\ Here \in Checkout
  BY <1>1, CurrentFacts
<1>3. disk \in [Paths -> Checkout] /\ faults \in Nat
  BY DEF Sane, TypeOK, WorldTypeOK
<1>4. /\ disk'[Current.path] = after
      /\ \A path \in Paths : path # Current.path => disk'[path] = disk[path]
  BY <1>1, <1>2, <1>3 DEF Write
<1>5. ASSUME Repairs(after) PROVE Mended(Current, Here, after, faults' > 0)
  <2>1. ASSUME after = [Here EXCEPT !.upstream = Current.upstream]
        PROVE  Mended(Current, Here, after, faults' > 0)
    <3>1. /\ after.kind = Here.kind /\ after.origin = Here.origin
          /\ after.tree = Here.tree /\ after.upstream = Current.upstream
          /\ after.head = Here.head /\ after.attached = Here.attached
      BY <1>2, <2>1 DEF Checkout
    <3> QED BY <3>1 DEF Mended
  <2>2. ASSUME after = Fetched(Here, served[Here.origin])
        PROVE  Mended(Current, Here, after, faults' > 0)
    <3>1. /\ after.kind = Here.kind /\ after.origin = Here.origin
          /\ after.tree = Here.tree /\ after.upstream = Here.upstream
          /\ after.head = Here.head /\ after.attached = Here.attached
      BY <1>2, <2>2 DEF Checkout, Fetched
    <3> QED BY <3>1 DEF Mended
  <2>3. ASSUME after = Detached(Here, Current.revision)
        PROVE  Mended(Current, Here, after, faults' > 0)
    <3>1. /\ after.kind = Here.kind /\ after.origin = Here.origin
          /\ after.tree = Here.tree /\ after.upstream = Here.upstream
          /\ after.head = Peel(Current.revision) /\ after.attached = FALSE
      BY <1>2, <2>3 DEF Checkout, Detached
    <3> QED BY <3>1 DEF Mended
  <2>4. ASSUME after = HalfWritten(Here) /\ faults' = faults + 1
        PROVE  Mended(Current, Here, after, faults' > 0)
    <3>1. /\ after.kind = Here.kind /\ after.origin = Here.origin
          /\ after.tree = "dirty" /\ after.upstream = Here.upstream
          /\ after.head = Here.head /\ after.attached = Here.attached
      BY <1>2, <2>4 DEF Checkout, HalfWritten
    <3>2. faults' > 0
      BY <1>3, <2>4
    <3> QED BY <3>1, <3>2 DEF Mended
  <2> QED BY <1>5, <2>1, <2>2, <2>3, <2>4 DEF Repairs
<1> QED BY <1>1, <1>4, <1>5 DEF Clones, Mends

\* What a command does to a checkout that another run of the same lock vouches
\* for: a repair, if the other does not vouch for an unfinished clone.
LEMMA CommandBeside ==
  ASSUME Sane, Bootstrap \/ Kill, NEW component, component.path \in Paths,
         index \in Configured(lock) /\ component.path = Current.path =>
           component = Current /\ pc # "cloning",
         disk[component.path].kind # "absent"
  PROVE  Mended(component, disk[component.path], disk'[component.path], faults' > 0)
<1>1. CASE disk'[component.path] = disk[component.path]
  BY <1>1 DEF Mended
<1>2. CASE disk'[component.path] # disk[component.path]
  <2>1. component.path = Current.path /\ index \in DOMAIN lock
    BY <1>2, CommandMends
  <2>2. index \in Configured(lock)
    <3>1. CASE pc \in {"idle", "next"}
      BY <1>2, <3>1, IdleWritesNothing
    <3> QED BY <3>1, InRun
  <2>3. Here.kind # "absent" /\ pc # "cloning" /\ component = Current
    BY <2>1, <2>2 DEF Here
  <2>4. Mended(Current, Here, disk'[Current.path], faults' > 0)
    BY <1>2, <2>3, CommandMends
  <2> QED BY <2>3, <2>4 DEF Here
<1> QED BY <1>1, <1>2

\* A clone begins where nothing is.
LEMMA CloneBegins ==
  ASSUME Sane, Bootstrap \/ Kill, pc' = "cloning"
  PROVE  Here.kind = "absent" /\ UNCHANGED <<lock, index>>
BY BootstrapWrites DEF Clones, Mends

-----------------------------------------------------------------------------
(***************************************************************************)
(* What the world does to it.                                              *)
(***************************************************************************)
\* The world changes a checkout by an intervention, and not otherwise.
LEMMA EnvironmentFrame ==
  ASSUME WorldTypeOK, Environment
  PROVE  /\ WorldTypeOK' /\ edition' >= edition /\ faults' = faults
         /\ \A path \in Paths :
              /\ interventions'[path] >= interventions[path]
              /\ interventions'[path] = interventions[path] => disk'[path] = disk[path]
<1>1. /\ disk \in [Paths -> Checkout] /\ interventions \in [Paths -> Nat]
      /\ served \in [URLs -> SUBSET Objects] /\ edition \in Nat
  BY WorldAssumption DEF WorldTypeOK
<1>2. CASE Publish
  <2>1. served' \in [URLs -> SUBSET Objects]
    <3>1. PICK url \in URLs : \E object \in FinalObjects[url] \ served[url] :
             served' = [served EXCEPT ![url] = @ \cup {object}]
      BY <1>2 DEF Publish
    <3>2. PICK object \in FinalObjects[url] \ served[url] :
             served' = [served EXCEPT ![url] = @ \cup {object}]
      BY <3>1
    <3>3. FinalObjects[url] \in SUBSET Objects
      BY <3>1, WorldAssumption
    <3>4. served[url] \cup {object} \in SUBSET Objects
      BY <1>1, <3>1, <3>2, <3>3
    <3> QED BY <1>1, <3>2, <3>4
  <2> QED BY <1>1, <1>2, <2>1 DEF Publish, WorldTypeOK
<1>3. CASE Intervene
  <2>1. PICK path \in Paths :
          /\ interventions' = [interventions EXCEPT ![path] = @ + 1]
          /\ \E checkout \in Edited(disk[path]) :
               disk' = [disk EXCEPT ![path] = checkout]
    BY <1>3 DEF Intervene
  <2>2. PICK checkout \in Edited(disk[path]) : disk' = [disk EXCEPT ![path] = checkout]
    BY <2>1
  <2>3. checkout \in Checkout
    BY <1>1, <2>2, EditsKeepType
  <2>4. disk' \in [Paths -> Checkout] /\ interventions' \in [Paths -> Nat]
    BY <1>1, <2>1, <2>2, <2>3
  <2>5. WorldTypeOK'
    BY <1>3, <2>4 DEF Intervene, WorldTypeOK
  <2>6. \A other \in Paths : other # path =>
          disk'[other] = disk[other] /\ interventions'[other] = interventions[other]
    BY <1>1, <2>1, <2>2
  <2>7. interventions'[path] = interventions[path] + 1 /\ interventions[path] \in Nat
    BY <1>1, <2>1
  <2>8. \A other \in Paths : interventions[other] \in Nat
    BY <1>1
  <2>9. \A other \in Paths :
          /\ interventions'[other] >= interventions[other]
          /\ interventions'[other] = interventions[other] => disk'[other] = disk[other]
    BY <2>6, <2>7, <2>8
  <2> QED BY <1>1, <1>3, <2>5, <2>9 DEF Intervene
<1>4. CASE EditLock
  BY <1>1, <1>4 DEF EditLock, WorldTypeOK
<1> QED BY <1>2, <1>3, <1>4 DEF Environment

\* A run that trusts nothing the world has just changed knows what it knew.
LEMMA WorldKeeps ==
  ASSUME NEW ours, NEW theirs, theirs \subseteq ours, NEW spoilt, Knows(ours, spoilt),
         Environment, UNCHANGED run,
         \A path \in Paths \cap theirs : disk'[path] = disk[path]
  PROVE  Knows(theirs, spoilt)'
<1>1. Knows(theirs, spoilt)
  BY KnowsLess
<1>2. TypeOK'
  BY EnvironmentFrame DEF Knows, Sane, TypeOK, RunTypeOK, run
<1>3. \A path \in Paths : since[path] <= interventions'[path]
  <2>1. interventions \in [Paths -> Nat] /\ since \in [Paths -> Nat]
        /\ interventions' \in [Paths -> Nat]
    BY <1>2 DEF Knows, Sane, TypeOK, WorldTypeOK, RunTypeOK
  <2>2. \A path \in Paths :
          since[path] <= interventions[path] /\ interventions[path] <= interventions'[path]
    BY <2>1, EnvironmentFrame DEF Knows, Sane, TypeOK, Shape
  <2> QED BY <2>1, <2>2
<1>4. ASSUME NEW i \in Configured(lock), lock[i].path \in theirs
      PROVE  disk'[lock[i].path] = disk[lock[i].path]
  <2>1. i \in DOMAIN lock /\ lock \in Seq(ParsedComponent)
    BY DEF Configured, Knows, Sane, TypeOK, RunTypeOK
  <2>2. lock[i] \in ParsedComponent
    BY <2>1
  <2> QED BY <1>4, <2>2 DEF ParsedComponent
<1> QED BY <1>1, <1>2, <1>3, <1>4, OthersKeep DEF Mended

-----------------------------------------------------------------------------
(***************************************************************************)
(* The invariant of a run by itself, and what follows from it.             *)
(***************************************************************************)
LEMMA RunIsSane == IInv => Sane
BY DEF IInv, Sane

\* The components of a lock have paths.
LEMMA LockedPaths ==
  ASSUME Sane, NEW i \in DOMAIN lock
  PROVE  lock[i] \in ParsedComponent /\ lock[i].path \in Paths
<1>1. lock[i] \in ParsedComponent
  BY DEF Sane, TypeOK, RunTypeOK
<1> QED BY <1>1 DEF ParsedComponent

\* A run starts with its types.
LEMMA RunsBeginTyped ==
  ASSUME RunInit, disk \in [Paths -> Checkout], interventions \in [Paths -> Nat]
  PROVE  RunTypeOK
<1>1. lock \in Seq(ParsedComponent)
  BY DEF RunInit
<1>2. results \in Seq({"skipped", "current", "cloned", "updated"})
  BY DEF RunInit
<1>3. since \in [Paths -> Nat] /\ before \in [Paths -> Checkout]
  BY DEF RunInit
<1>4. pc \in Labels /\ index \in Nat \ {0} /\ label \in {"cloned", "updated"}
  BY DEF RunInit, Labels
<1>5. outcome \in {"none", "running", "succeeded", "failed", "traceback", "killed"}
  BY DEF RunInit
<1>6. atPin \in BOOLEAN
  BY DEF RunInit
<1> QED BY <1>1, <1>2, <1>3, <1>4, <1>5, <1>6 DEF RunTypeOK

\* Nobody has seen anything initially.
LEMMA InitEstablishes == Init => IInv
<1> SUFFICES ASSUME Init PROVE IInv
  OBVIOUS
<1>1. 1 \in DOMAIN Editions
  BY WorldAssumption
<1>2. TypeOK
  <2>1. disk \in [Paths -> Checkout]
    <3>1. disk \in [Paths -> InitialCheckouts] /\ InitialCheckouts \subseteq Checkout
      BY WorldAssumption DEF Init, WorldInit
    <3> QED BY <3>1
  <2>2. interventions \in [Paths -> Nat]
    BY DEF Init, WorldInit
  <2>3. WorldTypeOK
    BY <1>1, <2>1, <2>2, WorldAssumption DEF Init, WorldInit, WorldTypeOK
  <2>4. RunTypeOK
    BY <2>1, <2>2, RunsBeginTyped DEF Init
  <2> QED BY <2>3, <2>4 DEF TypeOK
<1>3. Shape
  BY DEF Init, WorldInit, RunInit, Shape, Configured
<1>4. Evidence(Alone, FALSE) /\ Done(Alone, FALSE) /\ FreshClone(Alone)
  BY DEF Init, RunInit, Evidence, Done, FreshClone, InCheckout
<1> QED BY <1>2, <1>3, <1>4 DEF IInv

\* An intervention exempts the path it touches and no other.
LEMMA EnvironmentKeeps == ASSUME IInv, Environment, UNCHANGED run PROVE IInv'
<1> PICK left : left = Alone'
  OBVIOUS
<1>1. Knows(Alone, FALSE)
  BY DEF IInv, Knows, Sane
<1>2. UNCHANGED <<pc, lock, index, since>>
  BY DEF run
<1>3. \A path \in Paths : Untouched(path)' => Untouched(path) /\ disk'[path] = disk[path]
  <2>1. interventions \in [Paths -> Nat] /\ since \in [Paths -> Nat]
        /\ interventions' \in [Paths -> Nat]
    BY EnvironmentFrame DEF IInv, TypeOK, WorldTypeOK, RunTypeOK
  <2>2. \A path \in Paths :
          /\ since[path] <= interventions[path] /\ interventions[path] <= interventions'[path]
          /\ interventions'[path] = interventions[path] => disk'[path] = disk[path]
    BY <2>1, EnvironmentFrame DEF IInv, TypeOK, Shape
  <2> QED BY <1>2, <2>1, <2>2 DEF Untouched
<1>4. left \subseteq Alone /\ \A path \in left : disk'[path] = disk[path]
  BY <1>3 DEF Alone
<1>5. Knows(left, FALSE)'
  <2>1. PICK ours : ours = Alone
    OBVIOUS
  <2> QED BY <1>1, <1>4, <2>1, WorldKeeps
<1>6. FreshClone(left)'
  BY <1>2, <1>4 DEF IInv, FreshClone, Current, Here
<1> QED BY <1>5, <1>6 DEF IInv, Knows, Sane, Evidence, Done, FreshClone

\* The commands of the only run keep the invariant.
LEMMA CommandsKeepInvariant == ASSUME IInv, Bootstrap \/ Kill PROVE IInv'
<1> PICK left : left = Alone'
  OBVIOUS
<1>1. Sane
  BY RunIsSane
<1>2. Knows(left, FALSE)'
  <2>1. CASE Load
    BY <1>1, <2>1, LoadKeeps
  <2>2. CASE ~Load
    <3>1. left = Alone
      BY <1>1, <2>2, CommandFrame DEF Alone, Untouched
    <3>2. Knows(left, FALSE)
      BY <3>1 DEF IInv, Knows, Sane
    <3> QED BY <3>2, CommandKeeps
  <2> QED BY <2>1, <2>2
<1>3. FreshClone(left)'
  <2> SUFFICES ASSUME pc' = "cloning"
               PROVE  Here' = EmptyClone(Current.repository)'
    BY DEF FreshClone
  <2>1. /\ index \in DOMAIN lock /\ UNCHANGED <<lock, index>>
        /\ Write(EmptyClone(Current.repository))
    BY <1>1, BootstrapWrites DEF Clones, Mends
  <2>2. Current.path \in Paths /\ disk \in [Paths -> Checkout] /\ Current' = Current
    BY <1>1, <2>1, CurrentFacts DEF Sane, TypeOK, WorldTypeOK, Current
  <2>3. Here' = disk'[Current.path]
    BY <2>2 DEF Here
  <2>4. disk'[Current.path] = EmptyClone(Current.repository)
    BY <2>1, <2>2 DEF Write
  <2> QED BY <2>2, <2>3, <2>4
<1> QED BY <1>2, <1>3 DEF IInv, Knows, Sane, Evidence, Done, FreshClone

\* A step that bootstrap and its checkouts do not see.
LEMMA UnseenKeeps ==
  ASSUME IInv, UNCHANGED <<disk, served, edition, interventions, run>>, faults' \in Nat
  PROVE  IInv'
<1>1. UNCHANGED <<pc, lock, index, label, atPin, results, outcome, since, before>>
  BY DEF run
<1>2. Sane'
  BY <1>1 DEF IInv, Sane, TypeOK, WorldTypeOK, RunTypeOK, Shape, Configured, Current
<1>3. Alone' = Alone /\ Current' = Current /\ Here' = Here
  BY <1>1 DEF Alone, Untouched, Current, Here
<1>4. Evidence(Alone, FALSE)' /\ Done(Alone, FALSE)' /\ FreshClone(Alone)'
  BY <1>1, <1>3 DEF IInv, Evidence, Done, FreshClone, Configured
<1> QED BY <1>2, <1>4 DEF IInv, Sane

\* One step of anybody.
LEMMA StepKeeps == IInv /\ [Next]_vars => IInv'
<1> SUFFICES ASSUME IInv, [Next]_vars PROVE IInv'
  OBVIOUS
<1>1. CASE UNCHANGED vars
  BY <1>1, UnseenKeeps DEF vars, world, IInv, TypeOK, WorldTypeOK
<1> QED BY <1>1, CommandsKeepInvariant, EnvironmentKeeps DEF Next

\* The strengthening of HealthyAfterSuccess is an invariant of bootstrap.
THEOREM Invariance == Spec => []IInv
BY InitEstablishes, StepKeeps, PTL DEF Spec

\* Every variable keeps its type.
THEOREM TypeCorrect == Spec => []TypeOK
<1>1. IInv => TypeOK
  BY DEF IInv
<1> QED BY <1>1, Invariance, PTL

\* Whatever a run that exits 0 may trust is settled.
LEMMA AllSettled ==
  ASSUME NEW ours, NEW spoilt, Knows(ours, spoilt), outcome = "succeeded",
         NEW i \in Configured(lock), lock[i].path \in ours
  PROVE  Settled(lock[i], disk[lock[i].path], spoilt)
<1>1. i \in DOMAIN lock /\ index \notin DOMAIN lock /\ lock \in Seq(ParsedComponent)
      /\ index \in Nat \ {0}
  BY DEF Configured, Knows, Sane, Shape, TypeOK, RunTypeOK
<1>2. Len(lock) \in Nat /\ DOMAIN lock = 1 .. Len(lock)
  BY <1>1
<1>3. i < index
  BY <1>1, <1>2
<1> QED BY <1>2, <1>3 DEF Knows, Done

\* Exit 0 means healthy: for every lock document, every number of components,
\* failures, kills and interventions, a run of bootstrap that exits 0 leaves
\* every configured checkout that the operator did not touch since the run
\* began, and whose pin is a commit, as the lock describes it.
THEOREM SuccessIsHealthy == Spec => []HealthyAfterSuccess
<1>1. IInv => HealthyAfterSuccess
  <2> SUFFICES ASSUME IInv, outcome = "succeeded", NEW i \in Configured(lock),
                      Untouched(lock[i].path), lock[i].revision \in Commits
               PROVE  Healthy(lock[i], disk[lock[i].path])
    BY DEF HealthyAfterSuccess
  <2>1. lock[i].path \in Alone
    BY RunIsSane, LockedPaths DEF Configured, Alone
  <2>2. Knows(Alone, FALSE)
    BY DEF IInv, Knows, Sane
  <2>3. Settled(lock[i], disk[lock[i].path], FALSE)
    BY <2>1, <2>2, AllSettled
  <2> QED BY <2>3, SettledIsHealthy
<1> QED BY <1>1, Invariance, PTL
-----------------------------------------------------------------------------
(***************************************************************************)
(* What status says of it.                                                 *)
(***************************************************************************)
\* status calls a healthy checkout healthy, and no other, unless its index
\* cannot be read.
LEMMA HealthyIsReported ==
  ASSUME NEW component \in ParsedComponent, component.revision \in Objects,
         component.repository \in URLs,
         NEW checkout \in Checkout, checkout.tree # "unreadable"
  PROVE  ConfiguredState(component, checkout) = "healthy" <=> Healthy(component, checkout)
<1> DEFINE probe == ProbeOf(checkout)
<1>1. /\ probe.revision = checkout.head /\ probe.origin = checkout.origin
      /\ probe.upstream = checkout.upstream
      /\ probe.head = HeadState(checkout.attached, checkout.head)
      /\ probe.dirty = DirtyState(checkout)
  BY DEF ProbeOf
<1>2. component.revision # Unborn /\ component.repository # NoUrl
  BY ObjectsAssumption
<1> HIDE DEF probe
<1>3. CASE checkout.kind # "worktree"
  BY <1>3 DEF ConfiguredState, Healthy
<1>4. CASE checkout.kind = "worktree"
  <2>1. checkout.tree \in {"clean", "dirty"} /\ checkout.attached \in BOOLEAN
    BY DEF Checkout
  <2>2. probe.dirty = "dirty" <=> checkout.tree # "clean"
    BY <1>1, <1>4, <2>1 DEF DirtyState, StatusSucceeds
  <2>3. probe.head = "attached" <=> checkout.attached
    BY <1>1, <2>1 DEF HeadState
  <2>4. CheckoutState(component, probe) = "healthy" <=>
          checkout.head = component.revision /\ checkout.tree = "clean"
    BY <1>1, <1>2, <2>2 DEF CheckoutState
  <2>5. OriginState(component, probe) = "healthy" <=> checkout.origin = component.repository
    BY <1>1, <1>2 DEF OriginState
  <2>6. UpstreamState(component, probe) = "healthy" <=>
          (component.upstream # NoUrl => checkout.upstream = component.upstream)
    BY <1>1 DEF UpstreamState
  <2>7. StateOf(component, probe) = "healthy" <=>
          /\ CheckoutState(component, probe) = "healthy"
          /\ OriginState(component, probe) = "healthy"
          /\ ~checkout.attached
          /\ UpstreamState(component, probe) = "healthy"
    BY <2>3 DEF StateOf
  <2>8. ConfiguredState(component, checkout) = StateOf(component, probe)
    BY <1>4 DEF ConfiguredState, probe
  <2> QED BY <1>4, <2>4, <2>5, <2>6, <2>7, <2>8 DEF Healthy
<1> QED BY <1>3, <1>4

\* A run of bootstrap that exits 0 leaves every configured checkout that nobody
\* else touched, and whose pin is a commit, in the state status reports as
\* healthy, for every lock document, world and bound.
THEOREM BootstrapAndStatusAgree == Spec => []StatusAgrees
<1>1. IInv /\ HealthyAfterSuccess => StatusAgrees
  <2> SUFFICES ASSUME IInv, HealthyAfterSuccess, outcome = "succeeded",
                      NEW i \in Configured(lock),
                      Untouched(lock[i].path), lock[i].revision \in Commits
               PROVE  ConfiguredState(lock[i], disk[lock[i].path]) = "healthy"
    BY DEF StatusAgrees
  <2>1. Healthy(lock[i], disk[lock[i].path])
    BY DEF HealthyAfterSuccess
  <2>2. lock[i] \in ParsedComponent /\ lock[i].path \in Paths
    <3>1. lock \in Seq(ParsedComponent) /\ i \in DOMAIN lock
      BY DEF IInv, TypeOK, RunTypeOK, Configured
    <3>2. lock[i] \in ParsedComponent
      BY <3>1
    <3> QED BY <3>2 DEF ParsedComponent
  <2>3. lock[i].repository \in URLs /\ lock[i].revision \in Objects
    BY DEF IInv, Shape
  <2>4. disk[lock[i].path] \in Checkout
    BY <2>2 DEF IInv, TypeOK, WorldTypeOK
  <2>5. disk[lock[i].path].tree # "unreadable"
    BY <2>1 DEF Healthy
  <2> QED BY <2>1, <2>2, <2>3, <2>4, <2>5, HealthyIsReported
<1> QED BY <1>1, Invariance, SuccessIsHealthy, PTL
-----------------------------------------------------------------------------
(***************************************************************************)
(* What a successful run prints.  The source reads HEAD once, before the   *)
(* checkout; if that query failed, a checkout already at the pin would be  *)
(* printed as updated.                                                     *)
(***************************************************************************)
\* A step leaves every other component's checkout as it is.
LEMMA ElsewhereStays ==
  ASSUME IInv, OnlyHere, index \in DOMAIN lock
  PROVE  \A i \in DOMAIN lock : i # index => disk'[lock[i].path] = disk[lock[i].path]
<1> SUFFICES ASSUME NEW i \in DOMAIN lock, i # index
             PROVE  disk'[lock[i].path] = disk[lock[i].path]
  OBVIOUS
<1>1. lock[i] \in ParsedComponent
  BY DEF IInv, TypeOK, RunTypeOK
<1>2. lock[i].path \in Paths /\ lock[i].path # Current.path
  BY <1>1 DEF ParsedComponent, IInv, Shape, Current
<1> QED BY <1>2 DEF OnlyHere

\* A run that stops prints nothing.
LEMMA StopTells ==
  ASSUME NEW how \in {"failed", "traceback", "killed"}, Stop(how)
  PROVE  Told' /\ Known'
BY DEF Stop, Told, Known

\* A command in the middle of a component leaves the results as they are.
LEMMA GotoTells ==
  ASSUME IInv, Told, OnlyHere, pc # "idle", index \in DOMAIN lock,
         NEW next \in Labels \ {"idle", "next"}, Goto(next)
  PROVE  Told'
<1>1. \A i \in DOMAIN lock : i # index => disk'[lock[i].path] = disk[lock[i].path]
  BY ElsewhereStays
<1>2. lock' = lock /\ before' = before /\ index' = index /\ results' = results
      /\ pc' = next /\ \A path : Untouched(path)' <=> Untouched(path)
  BY DEF OnlyHere, Rest, Goto, Untouched
<1>3. index \in Nat /\ \A i \in DOMAIN lock : i < index => i # index
  BY DEF IInv, TypeOK, RunTypeOK
<1>4. \A i \in DOMAIN lock : i > index => i # index
  BY DEF IInv, TypeOK, RunTypeOK
<1> QED BY <1>1, <1>2, <1>3, <1>4 DEF Told

\* The result of a component joins those before it.
LEMMA ReturnTells ==
  ASSUME IInv, Told, OnlyHere, pc # "idle", index \in DOMAIN lock,
         NEW action \in {"skipped", "current", "cloned", "updated"}, Return(action),
         Untouched(Current.path) =>
           Tells(action, Current, before[Current.path], disk'[Current.path])
  PROVE  Told' /\ Known'
<1>1. \A i \in DOMAIN lock : i # index => disk'[lock[i].path] = disk[lock[i].path]
  BY ElsewhereStays
<1>2. lock' = lock /\ before' = before /\ index' = index + 1
      /\ results' = Append(results, action) /\ pc' = "next"
      /\ \A path : Untouched(path)' <=> Untouched(path)
  BY DEF OnlyHere, Rest, Return, Untouched
<1>3. /\ results \in Seq({"skipped", "current", "cloned", "updated"})
      /\ lock \in Seq(ParsedComponent) /\ index \in Nat \ {0}
  BY DEF IInv, TypeOK, RunTypeOK
<1>4. Len(results) = index - 1 /\ index \in 1 .. Len(lock)
  BY <1>3 DEF Told
<1>5. /\ Len(results') = index' - 1 /\ index' <= Len(lock) + 1
      /\ results'[index] = action
      /\ \A i \in 1 .. index - 1 : results'[i] = results[i]
  BY <1>2, <1>3, <1>4
<1>6. ASSUME NEW i \in DOMAIN lock, Untouched(lock[i].path)
      PROVE  /\ i < index' =>
                  Tells(results'[i], lock[i], before[lock[i].path], disk'[lock[i].path])
             /\ i >= index' => disk'[lock[i].path] = before[lock[i].path]
  <2>1. i \in 1 .. Len(lock)
    BY <1>3
  <2>2. CASE i < index
    <3>1. disk'[lock[i].path] = disk[lock[i].path] /\ results'[i] = results[i]
      BY <1>1, <1>3, <1>5, <2>1, <2>2
    <3>2. Tells(results[i], lock[i], before[lock[i].path], disk[lock[i].path])
      BY <1>6, <2>2 DEF Told
    <3> QED BY <1>2, <1>3, <2>1, <2>2, <3>1, <3>2
  <2>3. CASE i = index
    BY <1>2, <1>3, <1>5, <1>6, <2>3 DEF Current
  <2>4. CASE i > index
    <3>1. disk'[lock[i].path] = disk[lock[i].path]
      BY <1>1, <1>3, <2>1, <2>4
    <3>2. disk[lock[i].path] = before[lock[i].path]
      BY <1>6, <2>4 DEF Told
    <3> QED BY <1>2, <1>3, <2>1, <2>4, <3>1, <3>2
  <2> QED BY <1>3, <2>1, <2>2, <2>3, <2>4
<1>7. Told'
  <2>1. index' \in Nat
    BY <1>2, <1>3
  <2>2. \A i \in DOMAIN lock : i > index' \/ i = index' => i >= index'
    BY <1>3, <2>1
  <2> QED BY <1>2, <1>5, <1>6, <2>2 DEF Told
<1> QED BY <1>2, <1>7 DEF Known

\* A command that keeps what the run remembers.
LEMMA KnownStays ==
  ASSUME Known, pc \in InCheckout, Rest, UNCHANGED <<index, label>>,
         pc' \in InCheckout \ {"symref", "checkout"},
         Untouched(Current.path) =>
           /\ Here'.kind = Here.kind /\ Here'.tree = Here.tree
           /\ Here'.head = Here.head /\ Here'.attached = Here.attached
  PROVE  Known'
<1>1. Current' = Current /\ before' = before /\ label' = label
      /\ (Untouched(Current.path)' <=> Untouched(Current.path))
  BY DEF Rest, Current, Untouched
<1> QED BY <1>1 DEF Known, InCheckout

\* A clean failure, or on to the next command, of a query.
LEMMA QueryTells ==
  ASSUME RInv, Query, pc \in InCheckout,
         atPin' \in BOOLEAN, faults' = faults \/ \E ok \in BOOLEAN : Count(ok),
         \/ Raise
         \/ \E next \in InCheckout \ {"symref", "checkout"} : Goto(next)
  PROVE  Told' /\ Known'
<1>1. CASE Raise
  BY <1>1, StopTells DEF Raise
<1>2. ASSUME NEW next \in InCheckout \ {"symref", "checkout"}, Goto(next)
      PROVE  Told' /\ Known'
  <2>1. OnlyHere /\ index \in DOMAIN lock
    BY QueryIsOnlyHere, InRun, RunIsSane DEF RInv, InCheckout
  <2>2. Told'
    BY <1>2, <2>1, GotoTells DEF RInv, Labels, InCheckout
  <2>3. Here' = Here /\ Rest /\ UNCHANGED <<index, label>> /\ pc' = next
    BY <1>2, EvidenceGrows DEF Goto, Query, RInv
  <2>4. Known'
    BY <1>2, <2>3, KnownStays DEF RInv, Labels, InCheckout
  <2> QED BY <2>2, <2>4
<1> QED BY <1>1, <1>2

LEMMA LoadTells == ASSUME RInv, Load PROVE Told' /\ Known'
<1>1. disk' = disk /\ before' = disk /\ index' = 1 /\ results' = <<>>
      /\ pc' \in {"idle", "next"} /\ (pc' = "idle" => outcome' = "failed")
  BY DEF Load, world
<1>2. IInv'
  BY CommandsKeepInvariant DEF RInv, Bootstrap
<1>3. lock' \in Seq(ParsedComponent)
  BY <1>2 DEF IInv, TypeOK, RunTypeOK
<1>4. \A i \in DOMAIN lock' : ~(i < 1)
  BY <1>3
<1> QED BY <1>1, <1>3, <1>4 DEF Told, Known

\* What is skipped, and what is found, is as it was when the run started.
LEMMA SkipTells == ASSUME RInv, Skip PROVE Told' /\ Known'
<1>1. OnlyHere /\ disk' = disk
  BY QueryIsOnlyHere, RunIsSane DEF Skip, Query, RInv, IInv, TypeOK, RunTypeOK
<1>2. index \in DOMAIN lock /\ pc = "next" /\ Return("skipped")
  BY DEF Skip
<1>3. Untouched(Current.path) => disk[Current.path] = before[Current.path]
  BY <1>2 DEF RInv, Told, Current
<1> QED BY <1>1, <1>2, <1>3, ReturnTells DEF RInv, Tells

LEMMA FindCheckoutTells == ASSUME RInv, FindCheckout PROVE Told' /\ Known'
<1>1. OnlyHere
  BY DEF FindCheckout, OnlyHere, RInv, IInv, TypeOK, WorldTypeOK, RunTypeOK
<1>2. index \in DOMAIN lock /\ pc = "next" /\ disk' = disk /\ Rest /\ index' = index
      /\ label' = (IF Here.kind = "absent" THEN "cloned" ELSE "updated")
      /\ pc' = (IF Here.kind = "absent" THEN "clone" ELSE "worktree")
  BY DEF FindCheckout, Goto
<1>3. Told'
  BY <1>1, GotoTells DEF FindCheckout, RInv, Labels, InCheckout
<1>4. Untouched(Current.path) => Here = before[Current.path]
  BY <1>2 DEF RInv, Told, Current, Here
<1>5. Current' = Current /\ before' = before /\ Here' = Here
      /\ (Untouched(Current.path)' <=> Untouched(Current.path))
  BY <1>2 DEF Rest, Current, Here, Untouched
<1> QED BY <1>2, <1>3, <1>4, <1>5 DEF Known, InCheckout

LEMMA BeginCloneTells == ASSUME RInv, BeginClone PROVE Told' /\ Known'
<1>1. pc = "clone" /\ index \in Configured(lock) /\ index \in DOMAIN lock
  BY InRun, RunIsSane DEF BeginClone, RInv
<1>2. EmptyClone(Current.repository) \in Checkout
  BY <1>1, CurrentFacts, CommandsKeepType, InRun, RunIsSane DEF RInv
<1>3. CASE Here.kind = "absent"
  <2>1. OnlyHere
    BY <1>1, <1>2, <1>3, WriteIsOnlyHere, RunIsSane DEF BeginClone, RInv
  <2>2. Told'
    BY <1>1, <1>3, <2>1, GotoTells DEF BeginClone, RInv, Labels
  <2>3. Current' = Current /\ before' = before /\ label' = label /\ pc' = "cloning"
        /\ (Untouched(Current.path)' <=> Untouched(Current.path))
    BY <1>3 DEF BeginClone, Goto, Rest, Current, Untouched
  <2> QED BY <1>1, <2>2, <2>3 DEF RInv, Known, InCheckout
<1>4. CASE Here.kind # "absent"
  BY <1>4, StopTells DEF BeginClone, Raise
<1> QED BY <1>3, <1>4

\* A clone checks out a branch: HEAD is attached.
LEMMA EndCloneTells == ASSUME RInv, EndClone PROVE Told' /\ Known'
<1>1. pc = "cloning" /\ index \in Configured(lock) /\ index \in DOMAIN lock
  BY InRun, RunIsSane DEF EndClone, RInv
<1>2. CASE Raise
  BY <1>2, StopTells DEF Raise
<1>3. CASE /\ Write(Cloned) /\ Goto("worktree")
           /\ Here.kind = "worktree" /\ Here.origin # NoUrl
  <2>1. Here \in Checkout /\ Here.origin \in URLs
    BY <1>1, <1>3, CurrentFacts, RunIsSane DEF Checkout, RInv
  <2>2. served[Here.origin] \in SUBSET Objects
    BY <2>1 DEF RInv, IInv, TypeOK, WorldTypeOK
  <2>3. Cloned \in Checkout /\ Cloned.attached
    BY <2>1, <2>2, CommandsKeepType DEF Cloned, FullClone, Checkout
  <2>4. faults' = faults \/ \E ok \in BOOLEAN : Count(ok)
    BY AnswersAreBoolean DEF EndClone
  <2>5. OnlyHere /\ disk'[Current.path] = Cloned
    BY <1>1, <1>3, <2>3, <2>4, WriteIsOnlyHere, RunIsSane DEF EndClone, RInv
  <2>6. Told'
    BY <1>1, <1>3, <2>5, GotoTells DEF RInv, Labels, InCheckout
  <2>7. Current' = Current /\ before' = before /\ label' = label /\ pc' = "worktree"
        /\ Here' = Cloned /\ (Untouched(Current.path)' <=> Untouched(Current.path))
    BY <1>3, <2>5 DEF EndClone, Goto, Rest, Current, Here, Untouched
  <2> QED BY <1>1, <2>3, <2>6, <2>7 DEF RInv, Known, InCheckout
<1> QED BY <1>2, <1>3 DEF EndClone

LEMMA ReadsTell ==
  ASSUME RInv, \/ CheckWorktree \/ CheckStatus \/ CheckOrigin \/ CheckUpstream
               \/ Resolve1 \/ Resolve2
  PROVE  Told' /\ Known'
<1>1. /\ Query /\ atPin' = atPin
      /\ pc \in InCheckout /\ \E ok \in BOOLEAN : Count(ok)
  BY AnswersAreBoolean DEF CheckWorktree, CheckStatus, CheckOrigin, CheckUpstream,
     Resolve1, Resolve2, At, InCheckout
<1>2. \/ Raise
      \/ \E next \in InCheckout \ {"symref", "checkout"} : Goto(next)
  BY DEF CheckWorktree, CheckStatus, CheckOrigin, CheckUpstream, Resolve1, Resolve2,
     Proceed, InCheckout
<1>3. atPin' \in BOOLEAN
  BY <1>1 DEF RInv, IInv, TypeOK, RunTypeOK
<1> QED BY <1>1, <1>2, <1>3, QueryTells

\* HEAD is read where it is, and the command that follows knows it.
LEMMA ReadHeadTells ==
  ASSUME RInv, ReadHead, "head" \notin Flaky
  PROVE  Told' /\ Known'
<1>1. pc = "head" /\ index \in DOMAIN lock /\ Goto("symref") /\ Query
  BY InRun, RunIsSane DEF ReadHead, At, RInv
<1>2. atPin' = (Here.head = Current.revision) /\ faults' = faults
  BY DEF ReadHead, Answers, Count
<1>3. OnlyHere
  BY <1>1, <1>2, QueryIsOnlyHere, RunIsSane DEF RInv
<1>4. Told'
  BY <1>1, <1>3, GotoTells DEF RInv, Labels, InCheckout
<1>5. Current' = Current /\ before' = before /\ label' = label /\ pc' = "symref"
      /\ Here' = Here /\ (Untouched(Current.path)' <=> Untouched(Current.path))
  BY <1>1, EvidenceGrows DEF Goto, Query, Rest, Untouched, RInv
<1> QED BY <1>1, <1>2, <1>4, <1>5 DEF RInv, Known, InCheckout

LEMMA ReadAttachmentTells == ASSUME RInv, ReadAttachment PROVE Told' /\ Known'
<1>1. pc = "symref" /\ index \in DOMAIN lock /\ Query /\ atPin' = atPin
  BY InRun, RunIsSane DEF ReadAttachment, At, RInv
<1>2. /\ faults' = faults
      /\ IF atPin /\ ~Here.attached THEN Return("current") ELSE Goto("checkout")
  BY AttachmentAssumption DEF ReadAttachment, Answers, Count
<1>3. OnlyHere /\ disk' = disk
  BY <1>1, <1>2, QueryIsOnlyHere, RunIsSane DEF RInv, Query, IInv, TypeOK, RunTypeOK
<1>4. CASE atPin /\ ~Here.attached
  <2>1. Untouched(Current.path) =>
          /\ label = "updated"
          /\ Here.kind = "worktree" /\ Here.tree = "clean"
    <3>1. Current.path \in Paths
      BY <1>1, CurrentFacts, RunIsSane DEF RInv
    <3> QED BY <1>1, <1>4, <3>1 DEF RInv, Known, IInv, TypeOK, RunTypeOK, Evidence,
          Alone, InCheckout, AfterStatus
  <2>2. Untouched(Current.path) =>
          Tells("current", Current, before[Current.path], disk'[Current.path])
    BY <1>1, <1>3, <2>1 DEF RInv, Known, Tells, Here
  <2> QED BY <1>1, <1>2, <1>3, <1>4, <2>2, ReturnTells DEF RInv
<1>5. CASE ~(atPin /\ ~Here.attached)
  <2>1. Goto("checkout")
    BY <1>2, <1>5
  <2>2. Told'
    BY <1>1, <1>3, <2>1, GotoTells DEF RInv, Labels, InCheckout
  <2>3. Current' = Current /\ before' = before /\ label' = label /\ pc' = "checkout"
        /\ Here' = Here /\ (Untouched(Current.path)' <=> Untouched(Current.path))
    BY <1>1, <2>1, EvidenceGrows DEF Goto, Query, Rest, Untouched, RInv
  <2> QED BY <1>1, <1>5, <2>2, <2>3 DEF RInv, Known, InCheckout
<1> QED BY <1>4, <1>5

\* The two writes before the checkout keep HEAD and the files.
LEMMA WritesTell ==
  ASSUME RInv, AddUpstream \/ FetchOrigin
  PROVE  Told' /\ Known'
<1>1. /\ pc \in {"add_upstream", "fetch"} /\ index \in DOMAIN lock
      /\ Rest /\ UNCHANGED <<label, atPin>> /\ \E ok \in BOOLEAN : Count(ok)
  BY InRun, AnswersAreBoolean, RunIsSane DEF AddUpstream, FetchOrigin, At, RInv
<1>2. Here \in Checkout /\ Current \in ParsedComponent
  BY <1>1, CurrentFacts, RunIsSane DEF RInv
<1>3. CASE Raise
  BY <1>3, StopTells DEF Raise
<1>4. ASSUME NEW after \in Checkout, Write(after),
             NEW next \in {"resolve", "resolve_again"}, Goto(next),
             after.kind = Here.kind, after.tree = Here.tree,
             after.head = Here.head, after.attached = Here.attached
      PROVE  Told' /\ Known'
  <2>1. OnlyHere /\ disk'[Current.path] = after
    BY <1>1, <1>4, WriteIsOnlyHere, RunIsSane DEF RInv
  <2>2. Told'
    BY <1>1, <1>4, <2>1, GotoTells DEF RInv, Labels, InCheckout
  <2>3. Here' = after /\ UNCHANGED <<index, label>> /\ pc' = next
    BY <1>1, <1>4, <2>1 DEF Goto, Rest, Here, Current
  <2>4. Known'
    BY <1>1, <1>4, <2>3, KnownStays DEF RInv, Labels, InCheckout
  <2> QED BY <2>2, <2>4
<1>5. CASE AddUpstream /\ ~Raise
  <2> DEFINE added == [Here EXCEPT !.upstream = Current.upstream]
  <2>1. Write(added) /\ Goto("resolve")
    BY <1>5 DEF AddUpstream
  <2>2. Current.upstream \in URLs
    BY <1>2, <1>5 DEF ParsedComponent, RInv, IInv, Shape, AddUpstream, At
  <2>3. /\ added \in Checkout
        /\ added.kind = Here.kind /\ added.tree = Here.tree
        /\ added.head = Here.head /\ added.attached = Here.attached
    BY <1>2, <2>2 DEF Checkout
  <2> HIDE DEF added
  <2> QED BY <1>4, <2>1, <2>3
<1>6. CASE FetchOrigin /\ ~Raise
  <2> DEFINE fetched == Fetched(Here, served[Here.origin])
  <2>1. Write(fetched) /\ Goto("resolve_again") /\ Here.origin # NoUrl
    BY <1>6 DEF FetchOrigin
  <2>2. served[Here.origin] \in SUBSET Objects
    BY <1>2, <2>1 DEF Checkout, RInv, IInv, TypeOK, WorldTypeOK
  <2>3. /\ fetched \in Checkout
        /\ fetched.kind = Here.kind /\ fetched.tree = Here.tree
        /\ fetched.head = Here.head /\ fetched.attached = Here.attached
    BY <1>2, <2>2 DEF Checkout, Fetched
  <2> HIDE DEF fetched
  <2> QED BY <1>4, <2>1, <2>3
<1> QED BY <1>3, <1>5, <1>6

\* HEAD moves only from elsewhere or from a branch.
LEMMA CheckoutPinTells == ASSUME RInv, CheckoutPin PROVE Told' /\ Known'
<1>1. pc = "checkout" /\ index \in Configured(lock) /\ index \in DOMAIN lock
  BY InRun, RunIsSane DEF CheckoutPin, At, RInv
<1>2. Here \in Checkout /\ Current.revision \in Objects
  BY <1>1, CurrentFacts, InRun, RunIsSane DEF RInv
<1>3. CASE Raise
  BY <1>3, StopTells DEF Raise
<1>4. CASE Write(Detached(Here, Current.revision)) /\ Return(label)
  <2>1. Detached(Here, Current.revision) \in Checkout
    BY <1>2, CommandsKeepType
  <2>2. /\ Rest /\ UNCHANGED <<label, atPin>> /\ \E ok \in BOOLEAN : Count(ok)
    BY AnswersAreBoolean DEF CheckoutPin
  <2>3. OnlyHere
    BY <1>1, <1>4, <2>1, <2>2, WriteIsOnlyHere, RunIsSane DEF RInv
  <2>4. label \in {"cloned", "updated"}
    BY DEF RInv, IInv, TypeOK, RunTypeOK
  <2>5. Untouched(Current.path) => Here.kind = "worktree"
    <3>1. Current.path \in Paths
      BY <1>1, CurrentFacts, RunIsSane DEF RInv
    <3> QED BY <1>1, <3>1 DEF RInv, IInv, Evidence, Alone, InCheckout, AfterStatus
  <2>6. Untouched(Current.path) =>
          Tells(label, Current, before[Current.path], disk'[Current.path])
    BY <1>1, <2>4, <2>5 DEF RInv, Known, Tells
  <2> QED BY <1>1, <1>4, <2>3, <2>4, <2>6, ReturnTells DEF RInv
<1> QED BY <1>3, <1>4 DEF CheckoutPin

LEMMA FinishTells == ASSUME RInv, Finish PROVE Told' /\ Known'
<1>1. disk' = disk /\ Rest /\ index' = index /\ results' = results /\ pc' = "idle"
      /\ pc = "next" /\ index \notin DOMAIN lock
  BY DEF Finish, Query
<1> QED BY <1>1 DEF RInv, Told, Known, Rest, Untouched

\* An intervention exempts the path it touches, and changes no other.
LEMMA InterveneTells ==
  ASSUME RInv, Intervene, UNCHANGED run
  PROVE  Told' /\ Known'
<1> PICK path \in Paths :
      /\ interventions' = [interventions EXCEPT ![path] = @ + 1]
      /\ \E checkout \in Edited(disk[path]) :
           disk' = [disk EXCEPT ![path] = checkout]
  BY DEF Intervene
<1>1. /\ disk \in [Paths -> Checkout] /\ interventions \in [Paths -> Nat]
      /\ since \in [Paths -> Nat] /\ since[path] <= interventions[path]
  BY DEF RInv, IInv, TypeOK, WorldTypeOK, RunTypeOK, Shape
<1>2. UNCHANGED <<since, before, lock, index, pc, label, results, outcome, atPin>>
  BY DEF run
<1>3. \A p \in Paths : Untouched(p)' => Untouched(p) /\ disk'[p] = disk[p]
  BY <1>1, <1>2 DEF Untouched
<1>4. \A i \in DOMAIN lock : lock[i].path \in Paths
  <2>1. \A i \in DOMAIN lock : lock[i] \in ParsedComponent
    BY DEF RInv, IInv, TypeOK, RunTypeOK
  <2> QED BY <2>1 DEF ParsedComponent
<1>5. Told'
  BY <1>2, <1>3, <1>4 DEF RInv, Told
<1>6. Known'
  <2>1. CASE pc \notin {"idle", "next"} /\ Untouched(Current.path)'
    <3>1. Current' = Current /\ Current.path \in Paths
      BY <1>2, <1>4, <2>1, InRun, RunIsSane DEF Current, RInv
    <3>2. Untouched(Current.path) /\ Here' = Here
      BY <1>3, <2>1, <3>1 DEF Here
    <3> QED BY <1>2, <2>1, <3>1, <3>2 DEF RInv, Known
  <2>2. CASE ~(pc \notin {"idle", "next"} /\ Untouched(Current.path)')
    BY <1>2, <2>2 DEF Known
  <2> QED BY <2>1, <2>2
<1> QED BY <1>5, <1>6

\* For every lock, world, number of kills and interventions: the actions that
\* a run printed and exited 0 with are true of the checkouts nobody else
\* touched, if reading HEAD of a repository that answers does not fail.
THEOREM PrintedActionsAreTrue ==
  ASSUME "head" \notin Flaky
  PROVE  Spec => []ResultsTellWhatChanged
<1>1. Init => Told /\ Known
  BY DEF Init, RunInit, Told, Known
<1>2. RInv /\ [Next]_vars => Told' /\ Known'
  <2> SUFFICES ASSUME RInv, [Next]_vars PROVE Told' /\ Known'
    OBVIOUS
  <2>1. CASE Bootstrap
    <3>1. CASE Traceback
      BY <3>1, StopTells DEF Traceback
    <3> QED BY <2>1, <3>1, LoadTells, SkipTells, FindCheckoutTells, BeginCloneTells,
          EndCloneTells, ReadsTell, ReadHeadTells, ReadAttachmentTells,
          WritesTell, CheckoutPinTells, FinishTells DEF Bootstrap
  <2>2. CASE Kill
    BY <2>2, StopTells DEF Kill
  <2>3. CASE Environment /\ UNCHANGED run
    <3>1. CASE Intervene
      BY <2>3, <3>1, InterveneTells
    <3>2. CASE UNCHANGED <<disk, interventions>>
      BY <2>3, <3>2 DEF run, RInv, Told, Known, Untouched, Current, Here
    <3> QED BY <2>3, <3>1, <3>2 DEF Environment, Publish, EditLock
  <2>4. CASE UNCHANGED vars
    BY <2>4 DEF vars, world, run, RInv, Told, Known, Untouched, Current, Here
  <2> QED BY <2>1, <2>2, <2>3, <2>4 DEF Next
<1>3. RInv => ResultsTellWhatChanged
  <2> SUFFICES ASSUME RInv, outcome = "succeeded"
               PROVE  /\ Len(results) = Len(lock)
                      /\ \A i \in DOMAIN lock : Untouched(lock[i].path) =>
                           Tells(results[i], lock[i], before[lock[i].path],
                                 disk[lock[i].path])
    BY DEF ResultsTellWhatChanged
  <2>1. lock \in Seq(ParsedComponent) /\ index \in Nat \ {0} /\ index \notin DOMAIN lock
    BY DEF RInv, IInv, TypeOK, RunTypeOK, Shape
  <2>2. index <= Len(lock) + 1 /\ Len(results) = index - 1
    BY DEF RInv, Told
  <2>3. index = Len(lock) + 1
    BY <2>1, <2>2
  <2>4. \A i \in DOMAIN lock : i < index
    BY <2>1, <2>3
  <2> QED BY <2>2, <2>3, <2>1, <2>4 DEF RInv, Told
<1>4. Spec => []RInv
  <2>1. Init => RInv
    BY <1>1, InitEstablishes DEF RInv
  <2>2. RInv /\ [Next]_vars => RInv'
    BY <1>2, StepKeeps DEF RInv
  <2> QED BY <2>1, <2>2, PTL DEF Spec
<1> QED BY <1>3, <1>4, PTL

-----------------------------------------------------------------------------
(***************************************************************************)
(* Bootstrap implements the abstract specification of what README.md       *)
(* allows it to do to a checkout, for any lock, world and bounds: every    *)
(* write is a clone where nothing was, or a repair of a checkout that had  *)
(* nothing to lose, and every other step is none.                          *)
(***************************************************************************)
\* The abstract variables that are not bootstrap's own.
Free == {path \in Paths : ~Untouched(path)}
Cloning == IF pc = "cloning" THEN {Current.path} ELSE {}

-----------------------------------------------------------------------------
(***************************************************************************)
(* The abstract step behind a concrete one.                                *)
(***************************************************************************)
\* A run that writes nothing and does not begin a clone has stopped cloning,
\* at most.
LEMMA QuietStep ==
  ASSUME Rest, UNCHANGED disk, pc' # "cloning"
  PROVE  Conservative!Next
<1>1. Free' = Free
  BY DEF Free, Rest, Untouched
<1>2. Conservative!Stop
  BY <1>1 DEF Conservative!Stop, Free, Rest
<1> QED BY <1>2 DEF Conservative!Next

\* A write at the current path is one of the three the README allows, unless
\* somebody else has been there.
LEMMA WritingStep ==
  ASSUME IInv, OnlyHere, index \in Configured(lock),
         \/ ~Untouched(Current.path)
         \/ Conservative!Repair(Current)
         \/ Conservative!BeginClone(Current)
         \/ Conservative!EndClone(Current)
  PROVE  Conservative!Next
<1>1. index \in DOMAIN lock /\ Current = lock[index] /\ IsConfigured(lock[index])
  BY DEF Configured, Current
<1>2. Current.path \in Paths
  BY <1>1, CurrentFacts, RunIsSane
<1>3. Free' = Free /\ lock' = lock
  BY DEF Free, OnlyHere, Rest, Untouched
<1>4. \A path \in Paths \ {lock[index].path} : disk'[path] = disk[path]
  BY <1>1 DEF OnlyHere
<1>5. lock[index].path \in Free \/ Conservative!Repair(lock[index])
      \/ Conservative!BeginClone(lock[index]) \/ Conservative!EndClone(lock[index])
  BY <1>1, <1>2 DEF Free
<1>6. Conservative!IsConfigured(lock[index])
  BY <1>1 DEF IsConfigured, Conservative!IsConfigured
<1>7. Conservative!Advance
  BY <1>1, <1>3, <1>4, <1>5, <1>6 DEF Conservative!Advance, Free
<1> QED BY <1>7 DEF Conservative!Next

\* Once the origin is checked, the checkout in hand is safe, and the commands
\* from there on write only this one.
LEMMA CheckedIsSafe ==
  ASSUME IInv, pc \in AfterOrigin, Untouched(Current.path)
  PROVE  Conservative!Safe(Current, Here)
<1>1. Current.path \in Paths
  BY CurrentFacts, InRun, RunIsSane DEF AfterOrigin, AfterStatus, InCheckout
<1> QED BY <1>1 DEF IInv, Evidence, Alone, AfterOrigin, AfterStatus, InCheckout, Conservative!Safe

\* A write after the checks is a repair, if it keeps the repository, its
\* objects and its origin, adds at most the missing upstream, and leaves HEAD
\* or detaches it at the pin.
LEMMA RepairingStep ==
  ASSUME IInv, OnlyHere, pc \in AfterOrigin, pc' # "cloning",
         NEW after, disk'[Current.path] = after,
         after.kind = Here.kind, after.origin = Here.origin,
         Here.objects \subseteq after.objects,
         \/ after.upstream = Here.upstream
         \/ Here.upstream = NoUrl /\ after.upstream = Current.upstream,
         \/ after.head = Here.head /\ after.attached = Here.attached
         \/ after.head = Peel(Current.revision) /\ ~after.attached
  PROVE  Conservative!Next
<1>1. index \in Configured(lock)
  BY InRun, RunIsSane DEF AfterOrigin, AfterStatus, InCheckout
<1>2. pc # "cloning"
  BY DEF AfterOrigin, AfterStatus, InCheckout
<1>3. CASE ~Untouched(Current.path)
  BY <1>1, <1>3, WritingStep
<1>4. CASE Untouched(Current.path)
  <2>1. Conservative!Safe(Current, disk[Current.path]) /\ Here = disk[Current.path]
    BY <1>4, CheckedIsSafe DEF Here
  <2>2. after.kind = "worktree"
    BY <2>1 DEF Conservative!Safe
  <2>3. Conservative!RemotesKept(Current, disk[Current.path], after)
    BY <2>1 DEF Conservative!RemotesKept
  <2>4. Conservative!HeadKeptOrPinned(Current, disk[Current.path], after)
    BY <2>1 DEF Conservative!HeadKeptOrPinned, Conservative!Peel, Peel
  <2>5. Conservative!Repair(Current)
    BY <1>2, <2>1, <2>2, <2>3, <2>4 DEF Conservative!Repair
  <2> QED BY <1>1, <2>5, WritingStep
<1> QED BY <1>3, <1>4

\* A clone ends with nothing at the path or the repository of the lock.
LEMMA EndingStep ==
  ASSUME IInv, OnlyHere, pc = "cloning", pc' # "cloning",
         Here.kind = "worktree",
         NEW after \in {Absent, Cloned, HalfWritten(Cloned)},
         disk'[Current.path] = after
  PROVE  Conservative!Next
<1>1. index \in Configured(lock) /\ index \in DOMAIN lock /\ IsConfigured(Current)
  BY InRun, RunIsSane
<1>2. CASE ~Untouched(Current.path)
  BY <1>1, <1>2, WritingStep
<1>3. CASE Untouched(Current.path)
  <2>1. Here = EmptyClone(Current.repository) /\ Here \in Checkout
    BY <1>1, <1>3, CurrentFacts, RunIsSane DEF IInv, FreshClone, Alone
  <2>2. Here.origin = Current.repository
    BY <2>1 DEF EmptyClone
  <2>3. Cloned.origin = Here.origin
    BY <2>1 DEF Cloned, FullClone, Checkout
  <2>4. HalfWritten(Cloned).origin = Cloned.origin
    BY <2>1 DEF HalfWritten, Cloned, FullClone, Checkout
  <2>5. Conservative!Absent = Absent
    BY DEF Conservative!Absent, Conservative!NotARepository, Absent, NotARepository
  <2>6. Conservative!EndClone(Current)
    BY <2>2, <2>3, <2>4, <2>5 DEF Conservative!EndClone
  <2> QED BY <1>1, <2>6, WritingStep
<1> QED BY <1>2, <1>3

\* What a clone leaves is a checkout.
LEMMA ClonesKeepType ==
  ASSUME IInv, index \in DOMAIN lock, Here.kind = "worktree", Here.origin # NoUrl
  PROVE  {Absent, Cloned, HalfWritten(Cloned)} \subseteq Checkout
<1>1. Here \in Checkout /\ Here.origin \in URLs
  BY CurrentFacts, RunIsSane DEF Checkout
<1>2. served[Here.origin] \in SUBSET Objects
  BY <1>1 DEF IInv, TypeOK, WorldTypeOK
<1>3. Cloned \in Checkout
  BY <1>1, <1>2, CommandsKeepType DEF Cloned
<1> QED BY <1>3, CommandsKeepType

\* A checkout that dies half-way leaves HEAD where it was.
LEMMA HalfWrittenStep ==
  ASSUME IInv, OnlyHere, pc \in AfterOrigin, pc' # "cloning", Here \in Checkout,
         disk'[Current.path] = HalfWritten(Here)
  PROVE  Conservative!Next
<1> DEFINE after == HalfWritten(Here)
<1>1. /\ after.kind = Here.kind /\ after.origin = Here.origin
      /\ after.objects = Here.objects /\ after.upstream = Here.upstream
      /\ after.head = Here.head /\ after.attached = Here.attached
  BY DEF Checkout, HalfWritten
<1> HIDE DEF after
<1> QED BY <1>1, RepairingStep DEF after

-----------------------------------------------------------------------------
(***************************************************************************)
(* One lemma per action that writes.                                       *)
(***************************************************************************)
LEMMA LoadTakesTheLock == ASSUME IInv, Load PROVE Conservative!Next
<1>1. pc = "idle" /\ pc' # "cloning"
  BY DEF Load
<1>2. {path \in Paths : ~Untouched(path)}' = {}
  BY DEF Load, world, Untouched
<1>3. Conservative!TakeLock
  BY <1>1, <1>2 DEF Load, world, Conservative!TakeLock
<1> QED BY <1>3 DEF Conservative!Next

LEMMA BeginCloneImplements == ASSUME IInv, BeginClone PROVE Conservative!Next
<1>1. pc = "clone" /\ index \in Configured(lock) /\ index \in DOMAIN lock
  BY InRun, RunIsSane DEF BeginClone
<1>2. EmptyClone(Current.repository) \in Checkout
  BY <1>1, CurrentFacts, CommandsKeepType, InRun, RunIsSane
<1>3. CASE Here.kind = "absent"
  <2>1. OnlyHere /\ disk'[Current.path] = EmptyClone(Current.repository)
    BY <1>1, <1>2, <1>3, WriteIsOnlyHere, RunIsSane DEF BeginClone
  <2>2. pc' = "cloning" /\ Current' = Current
    BY <1>3 DEF BeginClone, Goto, Rest, Current
  <2>3. Conservative!BeginClone(Current)
    BY <1>3, <2>1, <2>2 DEF Conservative!BeginClone, Conservative!EmptyClone,
       EmptyClone, Here
  <2> QED BY <1>1, <2>1, <2>3, WritingStep
<1>4. CASE Here.kind # "absent"
  BY <1>4, QuietStep DEF BeginClone, Raise, Stop
<1> QED BY <1>3, <1>4

LEMMA EndCloneImplements == ASSUME IInv, EndClone PROVE Conservative!Next
<1>1. pc = "cloning" /\ index \in DOMAIN lock
  BY InRun, RunIsSane DEF EndClone
<1> PICK ok \in Answers("clone") :
      /\ Count(ok)
      /\ IF Here.kind # "worktree" \/ Here.origin = NoUrl
         THEN UNCHANGED disk /\ Raise
         ELSE IF ok /\ Here.head = Unborn
         THEN Write(Cloned) /\ Goto("worktree")
         ELSE /\ \E left \in {Absent, HalfWritten(Cloned)} :
                   (ok => left # Absent) /\ Write(left)
              /\ Raise
  BY DEF EndClone
<1>2. Rest /\ UNCHANGED <<label, atPin>> /\ ok \in BOOLEAN
  BY AnswersAreBoolean DEF EndClone
<1>3. CASE Here.kind # "worktree" \/ Here.origin = NoUrl
  BY <1>2, <1>3, QuietStep DEF Raise, Stop
<1>4. CASE ~(Here.kind # "worktree" \/ Here.origin = NoUrl)
  <2>1. PICK after \in {Absent, Cloned, HalfWritten(Cloned)} : Write(after)
    BY <1>4
  <2>2. pc' # "cloning"
    BY <1>4 DEF Goto, Raise, Stop
  <2>3. after \in Checkout
    BY <1>1, <1>4, ClonesKeepType
  <2>4. OnlyHere /\ disk'[Current.path] = after
    BY <1>1, <1>2, <2>1, <2>3, WriteIsOnlyHere, RunIsSane
  <2> QED BY <1>1, <1>4, <2>2, <2>4, EndingStep
<1> QED BY <1>3, <1>4

LEMMA AddUpstreamImplements == ASSUME IInv, AddUpstream PROVE Conservative!Next
<1>1. pc = "add_upstream" /\ index \in Configured(lock) /\ index \in DOMAIN lock
  BY InRun, RunIsSane DEF AddUpstream, At
<1> DEFINE added == [Here EXCEPT !.upstream = Current.upstream]
<1> PICK ok \in Answers("add_upstream") :
      /\ Count(ok)
      /\ IF ok /\ Here.kind = "worktree" /\ Here.upstream = NoUrl
         THEN Write(added) /\ Goto("resolve")
         ELSE UNCHANGED disk /\ Raise
  BY DEF AddUpstream
<1>2. ok \in BOOLEAN /\ Rest /\ UNCHANGED <<label, atPin>>
  BY AnswersAreBoolean DEF AddUpstream
<1>3. CASE ok /\ Here.kind = "worktree" /\ Here.upstream = NoUrl
  <2>1. Here \in Checkout /\ Current \in ParsedComponent
    BY <1>1, CurrentFacts, RunIsSane
  <2>2. Current.upstream \in URLs
    BY <1>1, <2>1 DEF ParsedComponent, IInv, Shape
  <2>3. added \in Checkout
    BY <2>1, <2>2, CommandsKeepType
  <2>4. OnlyHere /\ disk'[Current.path] = added
    BY <1>1, <1>2, <1>3, <2>3, WriteIsOnlyHere, RunIsSane
  <2>5. /\ added.kind = Here.kind /\ added.origin = Here.origin
        /\ added.objects = Here.objects /\ added.upstream = Current.upstream
        /\ added.head = Here.head /\ added.attached = Here.attached
    BY <2>1 DEF Checkout
  <2>6. pc' # "cloning" /\ pc \in AfterOrigin
    BY <1>1, <1>3 DEF Goto, AfterOrigin, AfterStatus, InCheckout
  <2> HIDE DEF added
  <2> QED BY <1>3, <2>4, <2>5, <2>6, RepairingStep
<1>4. CASE ~(ok /\ Here.kind = "worktree" /\ Here.upstream = NoUrl)
  BY <1>2, <1>4, QuietStep DEF Raise, Stop
<1> QED BY <1>3, <1>4

LEMMA FetchOriginImplements == ASSUME IInv, FetchOrigin PROVE Conservative!Next
<1>1. pc = "fetch" /\ index \in Configured(lock) /\ index \in DOMAIN lock
  BY InRun, RunIsSane DEF FetchOrigin, At
<1> DEFINE fetched == Fetched(Here, served[Here.origin])
<1> PICK ok \in Answers("fetch") :
      /\ Count(ok)
      /\ IF ok /\ Here.kind = "worktree" /\ Here.origin # NoUrl
         THEN Write(fetched) /\ Goto("resolve_again")
         ELSE UNCHANGED disk /\ Raise
  BY DEF FetchOrigin
<1>2. ok \in BOOLEAN /\ Rest /\ UNCHANGED <<label, atPin>>
  BY AnswersAreBoolean DEF FetchOrigin
<1>3. CASE ok /\ Here.kind = "worktree" /\ Here.origin # NoUrl
  <2>1. Here \in Checkout /\ Here.origin \in URLs
    BY <1>1, <1>3, CurrentFacts, RunIsSane DEF Checkout
  <2>2. served[Here.origin] \in SUBSET Objects
    BY <2>1 DEF IInv, TypeOK, WorldTypeOK
  <2>3. fetched \in Checkout
    BY <2>1, <2>2, CommandsKeepType
  <2>4. OnlyHere /\ disk'[Current.path] = fetched
    BY <1>1, <1>2, <1>3, <2>3, WriteIsOnlyHere, RunIsSane
  <2>5. /\ fetched.kind = Here.kind /\ fetched.origin = Here.origin
        /\ Here.objects \subseteq fetched.objects /\ fetched.upstream = Here.upstream
        /\ fetched.head = Here.head /\ fetched.attached = Here.attached
    BY <2>1 DEF Checkout, Fetched
  <2>6. pc' # "cloning" /\ pc \in AfterOrigin
    BY <1>1, <1>3 DEF Goto, AfterOrigin, AfterStatus, InCheckout
  <2> HIDE DEF fetched
  <2> QED BY <2>4, <2>5, <2>6, RepairingStep
<1>4. CASE ~(ok /\ Here.kind = "worktree" /\ Here.origin # NoUrl)
  BY <1>2, <1>4, QuietStep DEF Raise, Stop
<1> QED BY <1>3, <1>4

\* Detaching, and dying half-way, keep everything but HEAD and the files.
LEMMA CheckoutPinImplements == ASSUME IInv, CheckoutPin PROVE Conservative!Next
<1>1. pc = "checkout" /\ index \in Configured(lock) /\ index \in DOMAIN lock
      /\ pc \in AfterOrigin
  BY InRun, RunIsSane DEF CheckoutPin, At, AfterOrigin, AfterStatus, InCheckout
<1>2. /\ Here \in Checkout /\ Current.revision \in Objects
  BY <1>1, CurrentFacts, InRun, RunIsSane
<1>3. Detached(Here, Current.revision) \in Checkout /\ HalfWritten(Here) \in Checkout
  BY <1>2, CommandsKeepType
<1> PICK ok \in Answers("checkout") :
      /\ Count(ok)
      /\ \/ /\ ok /\ CanDetach(Here, Current.revision)
            /\ Write(Detached(Here, Current.revision))
            /\ Return(label)
         \/ /\ ok => ~CanDetach(Here, Current.revision) \/ Here.tree = "dirty"
            /\ UNCHANGED disk /\ Raise
         \/ /\ ~ok /\ RewritesFiles
            /\ Write(HalfWritten(Here)) /\ Raise
  BY DEF CheckoutPin
<1>4. ok \in BOOLEAN /\ Rest /\ UNCHANGED <<label, atPin>>
  BY AnswersAreBoolean DEF CheckoutPin
<1>5. pc' # "cloning"
  BY DEF Return, Raise, Stop
<1>6. CASE UNCHANGED disk
  BY <1>4, <1>5, <1>6, QuietStep
<1>7. CASE Write(Detached(Here, Current.revision))
  <2>1. OnlyHere /\ disk'[Current.path] = Detached(Here, Current.revision)
    BY <1>1, <1>3, <1>4, <1>7, WriteIsOnlyHere, RunIsSane
  <2> DEFINE after == Detached(Here, Current.revision)
  <2>2. /\ after.kind = Here.kind /\ after.origin = Here.origin
        /\ after.objects = Here.objects /\ after.upstream = Here.upstream
        /\ after.head = Peel(Current.revision) /\ ~after.attached
    BY <1>2 DEF Checkout, Detached
  <2> HIDE DEF after
  <2> QED BY <1>1, <1>5, <2>1, <2>2, RepairingStep DEF after
<1>8. CASE Write(HalfWritten(Here))
  BY <1>1, <1>2, <1>3, <1>4, <1>5, <1>8, WriteIsOnlyHere, HalfWrittenStep, RunIsSane
<1> QED BY <1>6, <1>7, <1>8

LEMMA KillImplements == ASSUME IInv, Kill PROVE Conservative!Next
<1>1. Stop("killed") /\ Rest /\ UNCHANGED <<label, atPin>> /\ pc' # "cloning"
  BY DEF Kill, Stop
<1>2. \E ok \in BOOLEAN : Count(ok)
  BY DEF Kill, Count
<1>3. CASE UNCHANGED disk
  BY <1>1, <1>3, QuietStep
<1>4. CASE pc = "cloning" /\ Here.kind = "worktree" /\ Here.origin # NoUrl
           /\ \E left \in {Absent, HalfWritten(Cloned)} : Write(left)
  <2>1. PICK after \in {Absent, Cloned, HalfWritten(Cloned)} : Write(after)
    BY <1>4
  <2>2. index \in DOMAIN lock
    BY <1>4, InRun, RunIsSane
  <2>3. after \in Checkout
    BY <1>4, <2>2, ClonesKeepType
  <2>4. OnlyHere /\ disk'[Current.path] = after
    BY <1>1, <1>2, <2>1, <2>2, <2>3, WriteIsOnlyHere, RunIsSane
  <2> QED BY <1>1, <1>4, <2>4, EndingStep
<1>5. CASE pc = "checkout" /\ RewritesFiles /\ Write(HalfWritten(Here))
  <2>1. index \in DOMAIN lock /\ pc \in AfterOrigin
    BY <1>5, InRun, RunIsSane DEF AfterOrigin, AfterStatus, InCheckout
  <2>2. Here \in Checkout /\ HalfWritten(Here) \in Checkout
    BY <2>1, CurrentFacts, CommandsKeepType, RunIsSane
  <2> QED BY <1>1, <1>2, <1>5, <2>1, <2>2, WriteIsOnlyHere, HalfWrittenStep, RunIsSane
<1> QED BY <1>3, <1>4, <1>5 DEF Kill

-----------------------------------------------------------------------------
\* Nobody but bootstrap is held to anything, but for the path it writes.
LEMMA InterveneImplements ==
  ASSUME IInv, Intervene, UNCHANGED run
  PROVE  Conservative!Next
<1> PICK path \in Paths :
      /\ interventions' = [interventions EXCEPT ![path] = @ + 1]
      /\ \E checkout \in Edited(disk[path]) :
           disk' = [disk EXCEPT ![path] = checkout]
  BY DEF Intervene
<1>1. /\ disk \in [Paths -> Checkout] /\ interventions \in [Paths -> Nat]
      /\ since \in [Paths -> Nat] /\ since[path] <= interventions[path]
  BY DEF IInv, TypeOK, WorldTypeOK, RunTypeOK, Shape
<1>2. /\ \A other \in Paths \ {path} :
           disk'[other] = disk[other] /\ interventions'[other] = interventions[other]
      /\ interventions'[path] = interventions[path] + 1
  BY <1>1
<1>3. UNCHANGED <<lock, pc, index, since>>
  BY DEF run
<1>4. Free' = Free \cup {path}
  BY <1>1, <1>2, <1>3 DEF Free, Untouched
<1>5. Cloning' = Cloning
  BY <1>3 DEF Cloning, Current
<1>6. Conservative!Others
  BY <1>2, <1>3, <1>4, <1>5 DEF Conservative!Others, Free, Cloning
<1> QED BY <1>6 DEF Conservative!Next

\* Steps of the world that bootstrap's checkouts do not show.
LEMMA ElsewhereImplements ==
  ASSUME UNCHANGED <<disk, interventions, run>>
  PROVE  UNCHANGED Conservative!vars
BY DEF run, Conservative!vars, Untouched, Current

LEMMA QueriesImplement ==
  ASSUME IInv, \/ Skip \/ FindCheckout \/ CheckWorktree \/ CheckStatus \/ CheckOrigin
               \/ CheckUpstream \/ Resolve1 \/ Resolve2 \/ ReadHead \/ ReadAttachment
               \/ Traceback \/ Finish
  PROVE  Conservative!Next
<1>1. Rest /\ UNCHANGED disk
  BY DEF Skip, FindCheckout, CheckWorktree, CheckStatus, CheckOrigin, CheckUpstream,
     Resolve1, Resolve2, ReadHead, ReadAttachment, Traceback, Finish, Query
<1>2. pc' # "cloning"
  BY DEF Skip, FindCheckout, CheckWorktree, CheckStatus, CheckOrigin, CheckUpstream,
     Resolve1, Resolve2, ReadHead, ReadAttachment, Traceback, Finish, Goto, Proceed,
     Raise, Stop, Return
<1> QED BY <1>1, <1>2, QuietStep

-----------------------------------------------------------------------------
(***************************************************************************)
(* What anybody has put at a path, and bootstrap leaves there.             *)
(***************************************************************************)
\* One path, in WorkSurvives.
Survives(path) ==
  LET old == disk[path]
      new == disk'[path]
  IN /\ old.kind \in {"file", "plain"} => new = old
     /\ old.kind = "worktree" /\ (pc = "cloning" => path # Current.path) =>
          /\ new.kind = "worktree"
          /\ old.tree # "clean" => new.tree = old.tree
          /\ new.origin = old.origin
          /\ old.upstream # NoUrl => new.upstream = old.upstream
          /\ old.objects \subseteq new.objects

LEMMA CommandSpares ==
  ASSUME Sane, Bootstrap \/ Kill, NEW path \in Paths
  PROVE  Survives(path)
<1>1. CASE disk'[path] = disk[path]
  BY <1>1 DEF Survives
<1>2. CASE disk'[path] # disk[path]
  <2>1. PICK after : /\ index \in DOMAIN lock /\ Write(after)
                     /\ Clones(after) \/ Repairs(after)
    BY <1>2, BootstrapWrites DEF Mends
  <2>2. Current.path \in Paths /\ Here \in Checkout /\ disk \in [Paths -> Checkout]
    BY <2>1, CurrentFacts DEF Sane, TypeOK, WorldTypeOK
  <2>3. path = Current.path /\ disk[path] = Here /\ disk'[path] = after
    BY <1>2, <2>1, <2>2 DEF Write, Here
  <2>4. CASE Clones(after)
    BY <2>3, <2>4 DEF Clones, Survives
  <2>5. CASE Repairs(after)
    <3>1. CASE after = [Here EXCEPT !.upstream = Current.upstream] /\ Here.upstream = NoUrl
      BY <2>2, <2>3, <2>5, <3>1 DEF Repairs, Survives, Checkout
    <3>2. CASE after = Fetched(Here, served[Here.origin])
      BY <2>2, <2>3, <2>5, <3>2 DEF Repairs, Survives, Checkout, Fetched
    <3>3. CASE after = Detached(Here, Current.revision)
      BY <2>2, <2>3, <2>5, <3>3 DEF Repairs, Survives, Checkout, Detached
    <3>4. CASE after = HalfWritten(Here) /\ Here.tree # "unreadable"
      BY <2>2, <2>3, <2>5, <3>4 DEF Repairs, Survives, Checkout, HalfWritten
    <3> QED BY <2>5, <3>1, <3>2, <3>3, <3>4 DEF Repairs
  <2> QED BY <2>1, <2>4, <2>5
<1> QED BY <1>1, <1>2

\* No command and no kill takes away what somebody has put at a path, at
\* whatever moment of the run it came: not edits, not a broken index, not a
\* remote, not an object, not a file or a directory (README.md:34; nothing is
\* looked at again before checkout --detach).
THEOREM WorkIsKept == Spec => WorkSurvives
<1>1. IInv /\ [Next]_vars =>
        [interventions' = interventions => \A path \in Paths : Survives(path)]_vars
  <2> SUFFICES ASSUME IInv, Next, interventions' = interventions, NEW path \in Paths
               PROVE  Survives(path)
    OBVIOUS
  <2>1. CASE Bootstrap \/ Kill
    BY <2>1, CommandSpares, RunIsSane
  <2>2. CASE Environment /\ UNCHANGED run
    <3>1. CASE Intervene
      BY <3>1 DEF Intervene, IInv, TypeOK, WorldTypeOK
    <3>2. CASE UNCHANGED disk
      BY <3>2 DEF Survives
    <3> QED BY <2>2, <3>1, <3>2 DEF Environment, Publish, EditLock
  <2> QED BY <2>1, <2>2 DEF Next
<1>2. WorkSurvives <=>
        [][interventions' = interventions => \A path \in Paths : Survives(path)]_vars
  BY DEF WorkSurvives, Survives
<1> QED BY <1>1, <1>2, Invariance, PTL DEF Spec

-----------------------------------------------------------------------------
\* Bootstrap implements ConservativeBootstrap: for every lock, world, number of
\* failures, kills and interventions, each step of a run that changes a
\* checkout nobody else touched is a clone where nothing was, or a repair of a
\* clean checkout of the locked repository that keeps its remotes and objects
\* and moves HEAD to the pin or not at all (README.md:34).
THEOREM BootstrapIsConservative == Spec => IsConservative
<1>1. Init => Conservative!Init
  BY DEF Init, WorldInit, RunInit, Conservative!Init, Untouched
<1>2. IInv /\ [Next]_vars => [Conservative!Next]_(Conservative!vars)
  <2> SUFFICES ASSUME IInv, [Next]_vars
               PROVE  Conservative!Next \/ UNCHANGED Conservative!vars
    OBVIOUS
  <2>1. CASE Bootstrap
    BY <2>1, LoadTakesTheLock, BeginCloneImplements, EndCloneImplements,
       AddUpstreamImplements, FetchOriginImplements, CheckoutPinImplements,
       QueriesImplement DEF Bootstrap
  <2>2. CASE Kill
    BY <2>2, KillImplements
  <2>3. CASE Environment /\ UNCHANGED run
    BY <2>3, InterveneImplements, ElsewhereImplements
    DEF Environment, Publish, EditLock
  <2>4. CASE UNCHANGED vars
    BY <2>4, ElsewhereImplements DEF vars, world
  <2> QED BY <2>1, <2>2, <2>3, <2>4 DEF Next
<1> QED BY <1>1, <1>2, Invariance, PTL DEF Spec, IsConservative, Conservative!Spec
=============================================================================
