SPECIFICATION Spec
CONSTANTS
  Workers = {w1}
  Symbols = {AAPL}
  Sides = {"long", "short"}
  Profiles = {f1}
  Manual = Manual
  Orders = {o1, o2, o3}
  NoOrder = NoOrder
  NoKey = NoKey
  Endpoints <- AllOperations
  MaxRequests = 6
  MaxCrashes = 1
SYMMETRY Interchangeable
CHECK_DEADLOCK FALSE
INVARIANTS
  ClosedRowExplained
  OneTradePerClose
PROPERTY
  SharesNeverVanish
