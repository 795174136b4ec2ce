SPECIFICATION Spec
CONSTANTS
  val = val
  Values <- MCValues
  Capacity = 2
  MaxPages = 3
INVARIANTS
  TypeOK
  WellFormed
  OneObstacle
PROPERTIES
  ImplementsDocumentTree
  ObstacleIsForEver
  OnlyObstaclesStopDeletion
  DeletesExactlyTheTrees
  UpdateKeepsNode
  CallsEnd
CHECK_DEADLOCK FALSE
