--------------------------- MODULE MCLegacyClient ---------------------------
(***************************************************************************)
(* One Vizor checkout, four commits: the pin, one where a test is missing, *)
(* one where a test fails, one where everything passes.                    *)
(***************************************************************************)
EXTENDS LegacyClientInspection, TLC

CONSTANTS vizorPath, pinned, renamed, broken, newer, vizor, fork

MCPaths == {vizorPath}
MCCommits == {pinned, renamed, broken, newer}
MCTagged == [t \in {} |-> pinned]
MCURLs == {vizor, fork}
MCTip == [url \in MCURLs |-> newer]

AllPass == [test \in Tests |-> "passing"]
\* On one machine the pin passes; on the other a test of it is compiled out.
MCSuites ==
  { [commit \in MCCommits |->
       CASE commit = renamed -> [AllPass EXCEPT !["lost_response_state_preserved"] = "missing"]
         [] commit = broken  -> [AllPass EXCEPT !["mempool_observation"] = "failing"]
         [] commit = pinned  -> [AllPass EXCEPT !["duplicate_acceptance"] = state]
         [] OTHER            -> AllPass] : state \in {"passing", "missing"} }

Clone ==
  [ kind |-> "worktree", head |-> pinned, attached |-> FALSE, origin |-> vizor,
    upstream |-> NoUrl, objects |-> MCCommits, tree |-> "clean" ]
MCInitialCheckouts ==
  { Absent, NotARepository("file"), NotARepository("plain"), EmptyClone(vizor),
    Clone, [Clone EXCEPT !.head = renamed], [Clone EXCEPT !.origin = fork],
    [Clone EXCEPT !.tree = "dirty"], [Clone EXCEPT !.tree = "unreadable"] }
=============================================================================
