CONSTANTS
  small = small
  large = large
  LargeSize = 40
  Items <- MCItems
  Size <- MCSize
  PageSize = 100
  ViaFreePage = TRUE
  CanCrash = TRUE
  MaxFaults = 1
  MaxPages = 2
SPECIFICATION FairSpec
PROPERTY ItemsKept
