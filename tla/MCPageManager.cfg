SPECIFICATION Spec
CONSTANTS
  p = p
  q = q
  big = big
  Payloads <- MCPayloads
  Oversize <- MCOversize
  Capacity = 2
  Leftover = FALSE
  MaxPages = 3
  MaxCrashes = 2
INVARIANTS
  TypeOK
  HeaderCoversFile
  OneCopyPerPage
  CacheCoherent
  FreePageValid
  IteratorOnItsPage
  ReadableWithoutCrash
PROPERTY ImplementsItemStore
CHECK_DEADLOCK FALSE
