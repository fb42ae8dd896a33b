----------------------------- MODULE Checkouts -----------------------------
(***************************************************************************)
(* Component checkouts on disk, the remotes they are cloned from, and what *)
(* the Git commands run by scripts/component_git.py answer and do.  Git is *)
(* not part of this repository: it is modelled from the way the scripts    *)
(* use it.                                                                 *)
(***************************************************************************)
EXTENDS Naturals, FiniteSets, Sequences

CONSTANTS
  Paths,     \* canonical sibling paths a component may be checked out at
  Commits,   \* commit object ids
  Tags,      \* annotated-tag object ids
  Tagged,    \* [Tags -> Commits]: the commit a tag object peels to
  URLs,      \* repository URLs
  Tip,       \* [URLs -> Commits]: the default branch a clone checks out
  NoUrl,     \* a remote that is not configured
  Unborn     \* HEAD of a repository that has no commit yet

Objects == Commits \cup Tags

ASSUME ObjectsAssumption ==
  /\ Commits \cap Tags = {}
  /\ Tagged \in [Tags -> Commits]
  /\ Tip \in [URLs -> Commits]
  /\ NoUrl \notin URLs
  /\ Unborn \notin Objects

\* rev-parse <id>^{commit}: a commit peels to itself, a tag to its target.
Peel(object) == IF object \in Tags THEN Tagged[object] ELSE object

-----------------------------------------------------------------------------
(***************************************************************************)
(* A path is absent, a regular file, a plain directory or a Git worktree.  *)
(* "tree" is what git status finds: nothing, edits, or an index it cannot  *)
(* read (the command then fails).                                          *)
(***************************************************************************)
Checkout ==
  [ kind     : {"absent", "file", "plain", "worktree"},
    head     : Commits \cup {Unborn},
    attached : BOOLEAN,
    origin   : URLs \cup {NoUrl},
    upstream : URLs \cup {NoUrl},
    objects  : SUBSET Objects,
    tree     : {"clean", "dirty", "unreadable"} ]

NotARepository(kind) ==
  [ kind |-> kind, head |-> Unborn, attached |-> FALSE, origin |-> NoUrl,
    upstream |-> NoUrl, objects |-> {}, tree |-> "clean" ]

Absent == NotARepository("absent")

\* git clone has created the repository and fetched nothing yet.
EmptyClone(url) ==
  [ kind |-> "worktree", head |-> Unborn, attached |-> TRUE, origin |-> url,
    upstream |-> NoUrl, objects |-> {}, tree |-> "clean" ]

\* git clone has fetched what the remote serves and checked out its branch.
FullClone(checkout, served) ==
  [checkout EXCEPT !.head = Tip[checkout.origin],
                   !.attached = TRUE,
                   !.objects = @ \cup served \cup {Tip[checkout.origin]}]

\* git fetch origin.
Fetched(checkout, served) == [checkout EXCEPT !.objects = @ \cup served]

\* git checkout --detach <object>, when it succeeds.  Edits that do not
\* conflict stay in the tree.
Detached(checkout, object) ==
  [checkout EXCEPT !.head = Peel(object), !.attached = FALSE]

\* A command died while it was writing the tree.
HalfWritten(checkout) == [checkout EXCEPT !.tree = "dirty"]

CanDetach(checkout, object) ==
  /\ checkout.kind = "worktree"
  /\ object \in checkout.objects
  /\ checkout.tree # "unreadable"

\* A command can be started in the path: subprocess.run(cwd=path) raises an
\* uncaught OSError for a missing path and for a regular file.
IsDirectory(checkout) == checkout.kind \in {"plain", "worktree"}

\* git status --porcelain exits 0, and prints nothing.
StatusSucceeds(checkout) ==
  checkout.kind = "worktree" /\ checkout.tree # "unreadable"
StatusIsEmpty(checkout) == StatusSucceeds(checkout) /\ checkout.tree = "clean"

-----------------------------------------------------------------------------
(***************************************************************************)
(* What the operator may do to a checkout by hand: remove it, put          *)
(* something else in its place, edit or discard edits, break the index,    *)
(* check out a branch, point a remote elsewhere.                           *)
(***************************************************************************)
Edited(checkout) ==
  {Absent, NotARepository("file"), NotARepository("plain")} \cup
  IF checkout.kind # "worktree" THEN {} ELSE
    {[checkout EXCEPT !.tree = tree] : tree \in {"clean", "dirty", "unreadable"}}
    \cup {[checkout EXCEPT !.head = head, !.attached = TRUE] :
             head \in checkout.objects \cap Commits}
    \cup {[checkout EXCEPT !.origin = url] : url \in URLs}
    \cup {[checkout EXCEPT !.upstream = url] : url \in URLs}
=============================================================================
