SPECIFICATION Spec
CONSTANTS
  Workers = {w1, w2}
  NumProfiles = 1
  RunTimes = {0, 1}
  DayLength = 6
  OpenDays = {0}
  StaleAfter = 1
  RunLimit = 5
  Punctual = FALSE
  MaxClock = 2
  Limit <- OverlapLimit
CHECK_DEADLOCK FALSE
INVARIANTS
  ClaimReleased
  NoTwoTrade
