SPECIFICATION Spec
CHECK_DEADLOCK FALSE
CONSTANTS
  admitted = admitted
  other = other
  initial = initial
  replacement = replacement
  TransactionKey = {admitted, other}
  LogicalDeadlineToken = {initial, replacement}
  MaxValues = 4
SYMMETRY Symmetric
INVARIANTS
  ValuesTellTheirHistory
