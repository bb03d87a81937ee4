SPECIFICATION Spec
CONSTANTS
  Workers = {w1}
  NumProfiles = 2
  RunTimes = {0, 1}
  DayLength = 4
  OpenDays = {1}
  StaleAfter = 1
  RunLimit = 5
  Punctual = TRUE
  MaxClock = 7
  Limit <- LoopLimit
CHECK_DEADLOCK FALSE
INVARIANTS
  OneRunPerWindow
  TradedOncePerCrash
  DueWindowRun
