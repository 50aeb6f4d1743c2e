CONSTANTS
  small = small
  large = large
  LargeSize = 40
  Items <- MCItems
  Size <- MCSize
  Unlucky <- MCUnlucky
  PageSize = 100
  ViaFreePage = TRUE
  CanCrash = FALSE
  MaxFaults = 0
  MaxPages = 3
SPECIFICATION ItSpec
INVARIANT HasNextMeansLive
