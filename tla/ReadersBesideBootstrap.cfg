SPECIFICATION MCSpec
CONSTANTS
  zakuraPath = zakuraPath
  gatewayPath = gatewayPath
  c1 = c1
  c2 = c2
  t2 = t2
  mine = mine
  up = up
  fork = fork
  NoUrl = NoUrl
  Unborn = Unborn
  Blank = Blank
  Outside = Outside
  NotHex = NotHex
  Names = {"zakura", "gateway"}
  Paths <- MCPaths
  Commits <- MCCommits
  Tags <- MCTags
  Tagged <- MCTagged
  URLs <- MCURLs
  Tip <- MCTip
  RawPaths <- MCRawPaths
  Resolve <- MCResolve
  RawRevisions <- MCRawRevisions
  Lower <- MCLower
  Editions <- TwoEditions
  InitialCheckouts <- StatusStart
  InitialObjects <- NewObjects
  FinalObjects <- NewObjects
  Flaky = {"clone", "checkout", "probe_worktree", "probe_revision", "probe_origin", "probe_upstream", "zakura_head", "zakura_status", "child"}
  MaxFaults = 1
  Zakura = "zakura"
  Hosts <- AllHosts
  Teams <- BesideBootstrap
  MaxInterventions = 0
INVARIANTS
  WorkspaceTypeOK
  StatusZeroIsTrue
  TracebackOnlyOverAFile
  ObservesThePin
