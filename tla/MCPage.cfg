CONSTANTS
  d1 = d1
  d2 = d2
  Data <- MCData
  Sizes = {1, 14}
  PageSize = 104
SPECIFICATION Spec
SYMMETRY DataSym
INVARIANTS TypeOK LayoutInv ItemsIntact CountIsLive
CHECK_DEADLOCK FALSE
