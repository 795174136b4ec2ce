SPECIFICATION Spec
CONSTANTS
  p = p
  Payloads <- MCPayloads
  Capacity = 3
  MaxPages = 3
INVARIANTS
  TypeOK
  VisitsInOrder
  EndsWithAllOrTrips
PROPERTY LoopEnds
CHECK_DEADLOCK FALSE
