CONSTANTS
  MaxValue = 1
  Values <- MCValues
  NodeOf <- MCNodeOf
  Fragments <- MCFragments
  StaleCallers = FALSE
  StaleIds <- MCStaleIds
  MaxBulk = 2
  Items <- MCItems
  Size <- MCSize
  Unlucky <- MCUnlucky
  PageSize = 112
  ViaFreePage = TRUE
  CanCrash = TRUE
  MaxFaults = 0
  MaxPages = 3
SPECIFICATION DocFairSpec
INVARIANTS RootIsFirst ChildrenCounted DeletedIfThere
PROPERTIES TreeKept CallsEnd
