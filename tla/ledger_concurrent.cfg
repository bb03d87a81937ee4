SPECIFICATION Spec
CONSTANTS
  Workers = {w1, w2, w3}
  Symbols = {AAPL}
  Sides = {"long", "short"}
  Profiles = {f1, f2}
  Manual = Manual
  Orders = {o1, o2, o3}
  NoOrder = NoOrder
  NoKey = NoKey
  Endpoints <- WithoutReset
  MaxRequests = 4
  MaxCrashes = 1
SYMMETRY Interchangeable
CHECK_DEADLOCK FALSE
INVARIANTS
  LotsStayHome
  LotsMatchRow
  CreditStaysWithProfile
