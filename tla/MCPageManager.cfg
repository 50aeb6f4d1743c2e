CONSTANTS
  small = small
  large = large
  LargeSize = 40
  Items <- MCItems
  Size <- MCSize
  PageSize = 100
  ViaFreePage = TRUE
  CanCrash = FALSE
  MaxFaults = 0
  MaxPages = 4
SPECIFICATION FairSpec
INVARIANTS TypeOK PagesWellFormed WriteThrough PointersValid DeleteFindsItem PartsMakeItems PutReturnsItem FreePageIsLast
PROPERTIES ItemsKept OperationsReturn
