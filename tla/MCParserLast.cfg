SPECIFICATION Spec
CONSTANTS
  Names <- MCNames
  Filters <- MCFilters
  MaxParts = 3
  MaxFilters = 1
INVARIANT LastPartFiltered
CHECK_DEADLOCK FALSE
