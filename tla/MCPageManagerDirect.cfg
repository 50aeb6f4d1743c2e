CONSTANTS
  small = small
  large = large
  LargeSize = 60
  Items <- MCItems
  Size <- MCSize
  PageSize = 100
  ViaFreePage = FALSE
  CanCrash = FALSE
  MaxFaults = 0
  MaxPages = 4
SPECIFICATION FairSpec
INVARIANTS PartsMakeItems
PROPERTIES ItemsKept OperationsEnd OperationsAdvance
