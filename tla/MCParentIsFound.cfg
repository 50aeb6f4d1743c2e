CONSTANTS
  MaxValue = 0
  Values <- MCValues
  NodeOf <- MCNodeOf
  Fragments <- MCFragments
  StaleCallers = FALSE
  StaleIds <- MCStaleIds
  MaxBulk = 1
  Items <- MCItems
  Size <- MCSize
  Unlucky <- MCUnlucky
  PageSize = 130
  ViaFreePage = TRUE
  CanCrash = FALSE
  MaxFaults = 0
  MaxPages = 3
SPECIFICATION DocSpec
INVARIANTS ParentIsFound
