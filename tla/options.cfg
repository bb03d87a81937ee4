SPECIFICATION Spec
CONSTANTS
  Unknown = Unknown
  Multiplier = 10
  Threads = {t1, t2}
  Structures <- AllStructures
  Prices = {1, 3, 4, 7}
  Premiums = {0, 2}
  Rates = {0, 1}
  Days <- AllDays
  Expirations = {8}
  MaxPositions = 1
CHECK_DEADLOCK FALSE
SYMMETRY Symmetry
INVARIANTS
  AnalysisIsExact
  ClosedAsTraded
  BookedAsOffered
