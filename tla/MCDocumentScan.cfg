SPECIFICATION Spec
CONSTANTS
  val = val
  Values <- MCValues
  Capacity = 2
  MaxPages = 3
INVARIANT NeverReadsDeleted
CHECK_DEADLOCK FALSE
