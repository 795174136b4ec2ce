SPECIFICATION Spec
CONSTANTS
  a = a
  b = b
  c = c
  PageSize = 12
  HeaderSize = 1
  MetaSize = 2
  Payloads <- MCPayloads
  SizeOf <- MCSizeOf
INVARIANTS
  TypeOK
  Layout
  NoOverlap
  PayloadsIntact
  MetadataIntact
  CountMatchesLive
  HandleFresh
PROPERTY ImplementsItemStore
CHECK_DEADLOCK FALSE
