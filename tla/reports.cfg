\* One task scheduler that starts punctual batches over two schedules, through
\* edits, failures and crashes.
CONSTANTS
  Workers = {w1}
  Schedules = {s1, s2}
  NoSchedule = NoSchedule
  RunTimes = {0, 1}
  Unparsable = Unparsable
  DayLength = 2
  FirstWeekday = 6
  Punctual = TRUE
  MaxClock = 2
  MaxMails = 3
  Limit <- EveryEvent
  MaxKinds = 2
SPECIFICATION FairSpec
CHECK_DEADLOCK FALSE
INVARIANTS
  OncePerDue
PROPERTIES
  NothingLeftOut
  DueAreServed
