SPECIFICATION Spec
CONSTANTS
  vizorPath = vizorPath
  pinned = pinned
  renamed = renamed
  broken = broken
  newer = newer
  vizor = vizor
  fork = fork
  NoUrl = NoUrl
  Unborn = Unborn
  Paths <- MCPaths
  Commits <- MCCommits
  Tags = {}
  Tagged <- MCTagged
  URLs <- MCURLs
  Tip <- MCTip
  VizorRevision = pinned
  VizorRepository = vizor
  Suites <- MCSuites
  InitialCheckouts <- MCInitialCheckouts
  MaxEdits = 2
INVARIANTS
  TypeOK
  ClaimsAreGrounded
  AllOrNothing
