SPECIFICATION Spec
CONSTANTS
  val = val
  Values <- MCValues
  Capacity = 2
  MaxPages = 3
INVARIANT OneRoot
CHECK_DEADLOCK FALSE
