SPECIFICATION FairBothSpec
CONSTANTS
  zakuraPath = zakuraPath
  gatewayPath = gatewayPath
  c1 = c1
  c2 = c2
  t2 = t2
  mine = mine
  up = up
  fork = fork
  NoUrl = NoUrl
  Unborn = Unborn
  Blank = Blank
  Outside = Outside
  NotHex = NotHex
  Names = {"zakura", "gateway"}
  Paths <- MCPaths
  Commits <- MCCommits
  Tags <- MCTags
  Tagged <- MCTagged
  URLs <- MCURLs
  Tip <- MCTip
  RawPaths <- MCRawPaths
  Resolve <- MCResolve
  RawRevisions <- MCRawRevisions
  Lower <- MCLower
  Editions <- OneEdition
  InitialCheckouts <- MCInitialCheckouts
  InitialObjects <- OldObjects
  FinalObjects <- LateObjects
  Flaky = {"clone", "worktree", "status", "origin", "upstream", "add_upstream", "resolve", "fetch", "checkout"}
  MaxFaults = 1
  MaxInterventions = 0
INVARIANTS
  BothTypeOK
  OnlyClonesInterfere
PROPERTY Converges
