SPECIFICATION Spec
CHECK_DEADLOCK FALSE
CONSTANTS
  ItemNames = {"0", "1"}
  Requests <- MCRequests
  Files <- FewFiles
  InitialFiles <- AllFiles
  SchemaFiles = {"good", "missing", "rejected", "reference"}
  MaxEdits = 1
  Horizon = 3
ACTION_CONSTRAINT OnlyFewMove
INVARIANT MalformedVersionsAreRejected
