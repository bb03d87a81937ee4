\* One directional profile whose runs follow one another: is it ever long and
\* short in one symbol?
CONSTANTS
  Threads = {t1}
  Profiles = {p1}
  Manual = Manual
  Symbols = {s1}
  Settings <- FlipSettings
  NoRun = NoRun
  MaxOrder = 1
  MaxRuns = 2
  MaxActs = 0
SPECIFICATION Spec
CHECK_DEADLOCK FALSE
INVARIANT NeverBothSides
