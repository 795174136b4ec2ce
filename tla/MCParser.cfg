SPECIFICATION Spec
CONSTANTS
  Names <- MCNames
  Filters <- MCFilters
  MaxParts = 3
  MaxFilters = 4
INVARIANTS
  QueryKeepsWhatWasTyped
  ExamplesAskedAsTyped
  CreatesFileAsTyped
CHECK_DEADLOCK FALSE
