CONSTANTS
  small = small
  large = large
  LargeSize = 60
  Items <- MCItems
  Size <- MCSize
  PageSize = 100
  ViaFreePage = TRUE
  CanCrash = TRUE
  MaxFaults = 1
  MaxPages = 3
SPECIFICATION FairSpec
INVARIANTS PagesWellFormed PutReturnsItem DeleteFindsItem
