CONSTANTS
  Threads = {t1, t2}
  States = {s1, s2}
  Unknown = Unknown
  NoRow = NoRow
  AccessLife = 2
  RefreshLife = 3
  StateLife = 1
  Leeway = 1
  MaxTime = 3
  MaxTokens = 3
  SeriesAsked <- OneSymbol
  Providers = {"fallback", "polygon", "schwab", "alpaca"}
  MaxSeconds = 2
  MaxAsked = 3
  Senders = {n1, n2}
  Runs = {n1}
  Profiles <- MCProfiles
  DayLimit = 2
  RunLimit = 1
  MaxRows = 4
SPECIFICATION ProvidersSpec
SYMMETRY Symmetry
CONSTRAINT FewStrains
CHECK_DEADLOCK FALSE
INVARIANTS
  StateUsedOnce
  TokensAreSound
  MarketAnswersAsAsked
  TextsStayBounded
