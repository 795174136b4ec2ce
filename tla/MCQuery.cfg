SPECIFICATION Spec
CONSTANTS
  Capacity = 2
  MaxFilters = 3
  Forests <- MCForests
  Chains <- MCChains
INVARIANTS
  EndsWithTheAnswer
  AnswersWhatThePathMeans
  PassesAgree
CHECK_DEADLOCK FALSE
