SPECIFICATION Spec
CONSTANTS
  p = p
  q = q
  big = big
  Payloads <- MCPayloads
  Oversize <- MCOversize
  Capacity = 2
  Leftover = TRUE
  MaxPages = 3
  MaxCrashes = 1
INVARIANT InitAssertionHolds
CHECK_DEADLOCK FALSE
