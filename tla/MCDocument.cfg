CONSTANTS
  MaxValue = 0
  Values <- MCValues
  NodeOf <- MCNodeOf
  Fragments <- MCFragments
  StaleCallers = TRUE
  StaleIds <- MCStaleIds
  MaxBulk = 2
  Items <- MCItems
  Size <- MCSize
  Unlucky <- MCUnlucky
  PageSize = 130
  ViaFreePage = TRUE
  CanCrash = TRUE
  MaxFaults = 0
  MaxPages = 3
SPECIFICATION DocFairSpec
INVARIANTS DocTypeOK RootIsFirst ChildrenCounted DeletedIfThere MemoryReleased
PROPERTIES CallsEnd
