CONSTANTS
  small = small
  large = large
  LargeSize = 40
  Items <- MCItems
  Size <- MCSize
  PageSize = 100
  ViaFreePage = TRUE
  CanCrash = TRUE
  MaxFaults = 0
  MaxPages = 2
SPECIFICATION FairSpec
INVARIANT FreePageExists
