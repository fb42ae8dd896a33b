SPECIFICATION WorkspaceSpec
CONSTANTS
  zakuraPath = zakuraPath
  gatewayPath = gatewayPath
  c1 = c1
  c2 = c2
  t2 = t2
  mine = mine
  up = up
  fork = fork
  NoUrl = NoUrl
  Unborn = Unborn
  Blank = Blank
  Outside = Outside
  NotHex = NotHex
  Names = {"zakura", "gateway"}
  Paths <- MCPaths
  Commits <- MCCommits
  Tags <- MCTags
  Tagged <- MCTagged
  URLs <- MCURLs
  Tip <- MCTip
  RawPaths <- MCRawPaths
  Resolve <- MCResolve
  RawRevisions <- MCRawRevisions
  Lower <- MCLower
  Editions <- TwoEditions
  InitialCheckouts <- DamagedClones
  InitialObjects <- NewObjects
  FinalObjects <- NewObjects
  Flaky = {}
  MaxFaults = 0
  Zakura = "zakura"
  Hosts <- OneHost
  Teams <- StatusAlone
  MaxInterventions = 0
INVARIANT StatusZeroIsHealthy
