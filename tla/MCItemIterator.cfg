CONSTANTS
  small = small
  large = large
  LargeSize = 40
  Items <- MCItems
  Size <- MCSize
  Unlucky <- MCUnlucky
  PageSize = 100
  ViaFreePage = TRUE
  CanCrash = TRUE
  MaxFaults = 0
  MaxPages = 4
SPECIFICATION ItSpec
INVARIANTS ItTypeOK IteratorPageValid IterationComplete HandedOutOnce
