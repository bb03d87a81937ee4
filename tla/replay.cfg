SPECIFICATION Spec
CONSTANTS
  Threads = {t1, t2}
  Contexts <- AllContexts
  Grain = 40
  RiskDollars = 200
  PositionCap = 1000
  HeatLimit = 300
  StartHeats = {0, 200}
  Ids = {r1, r2, r3}
  None = None
  MaxEvents = 2
  MaxRuns = 1
CHECK_DEADLOCK FALSE
SYMMETRY Symmetry
INVARIANTS
  WithinLimits
  RunTellsFills
PROPERTY
  OrdersFollowOMS
