---------------------------- MODULE MCWorld --------------------------------
(***************************************************************************)
(* A small world for TLC: two sibling paths, two commits and a tag.        *)
(***************************************************************************)
EXTENDS World, TLC

CONSTANTS zakuraPath, gatewayPath, c1, c2, t2, fork, up, mine

MCPaths == {zakuraPath, gatewayPath}
MCCommits == {c1, c2}
MCTags == {t2}
MCTagged == (t2 :> c2)
MCURLs == {mine, up, fork}
MCTip == [url \in MCURLs |-> c1]

\* "../zakura" twice, the second time by another spelling.
MCRawPaths == {"../zakura", "../x/../zakura", "../gateway", "inside"}
MCResolve == [raw \in MCRawPaths |->
  CASE raw \in {"../zakura", "../x/../zakura"} -> zakuraPath
    [] raw = "../gateway" -> gatewayPath
    [] raw = "inside" -> Outside]
MCRawRevisions == {"c1", "C2", "t2", "short"}
MCLower == [raw \in MCRawRevisions |->
  CASE raw = "c1" -> c1 [] raw = "C2" -> c2 [] raw = "t2" -> t2
    [] raw = "short" -> NotHex]

ConfiguredTable(name, path, revision) ==
  [ name |-> name, fields |-> BaseFields, required |-> "true", path |-> path,
    repository |-> mine, upstream |-> Blank, revision |-> revision,
    upstream_base |-> "c1" ]

PairedTable(name, path, revision) ==
  [ConfiguredTable(name, path, revision) EXCEPT
     !.fields = PairedFields, !.upstream = up]

OptionalTable(name, path) ==
  [ConfiguredTable(name, path, "c1") EXCEPT
     !.fields = OptionalFields, !.required = "false"]

Lock(tables) ==
  [toml |-> TRUE, keys |-> TRUE, version |-> 1, components |-> tables]

\* zakura with its upstream, gateway not configured; then zakura at another
\* pin and gateway configured; then, by a slip, both at one canonical path.
TwoEditions ==
  << Lock(<<PairedTable("zakura", "../zakura", "C2"),
            OptionalTable("gateway", "../gateway")>>),
     Lock(<<PairedTable("zakura", "../zakura", "c1"),
            ConfiguredTable("gateway", "../gateway", "C2")>>) >>
ThreeEditions == TwoEditions \o
  << Lock(<<PairedTable("zakura", "../zakura", "C2"),
            ConfiguredTable("gateway", "../x/../zakura", "c1")>>) >>

OneEdition == << Lock(<<PairedTable("zakura", "../zakura", "C2")>>) >>

\* The pin names an annotated tag.
TagEdition == << Lock(<<ConfiguredTable("zakura", "../zakura", "t2")>>) >>

\* An operator's own clone of the repository, on its branch.
OldClone ==
  [ kind |-> "worktree", head |-> c1, attached |-> TRUE, origin |-> mine,
    upstream |-> NoUrl, objects |-> {c1}, tree |-> "clean" ]
MCInitialCheckouts == {Absent, OldClone}
AbsentOnly == {Absent}

\* What the operator may have put there before the scripts run.
FileOrPlain == {Absent, OldClone, NotARepository("file"), NotARepository("plain")}
AnyStart == FileOrPlain \cup
  { EmptyClone(mine), [OldClone EXCEPT !.origin = fork],
    [OldClone EXCEPT !.upstream = fork], [OldClone EXCEPT !.tree = "dirty"],
    [OldClone EXCEPT !.tree = "unreadable"] }

\* The pin is not published yet, or it is; the tag always with its commit.
OldObjects == [url \in MCURLs |-> {c1}]
LateObjects == [url \in MCURLs |-> IF url = mine THEN {c1, c2} ELSE {c1}]
NewObjects == [url \in MCURLs |-> {c1, c2, t2}]
=============================================================================
