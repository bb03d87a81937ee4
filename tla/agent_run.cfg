\* Runs of Agent Profiles: what they close, open and flip, while the operator
\* trades, runs overlap, and runs die half way.
CONSTANTS
  Threads = {t1, t2}
  Profiles = {p1, p2}
  Manual = Manual
  Symbols = {s1, s2}
  Settings <- AllSettings
  NoRun = NoRun
  MaxOrder = 1
  MaxRuns = 2
  MaxActs = 1
SPECIFICATION Spec
SYMMETRY Symmetry
CHECK_DEADLOCK FALSE
INVARIANTS
  OneSidePerSymbol
  LimitsKept
PROPERTIES
  NoAddition
  OwnershipBoundary
