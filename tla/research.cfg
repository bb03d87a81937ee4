SPECIFICATION ResearchSpec
CONSTANTS
  Threads = {t1, t2}
  Seeds <- MCSeeds
  Main = "morning-macro"
  Symbols <- MCSymbols
  SeedRows <- MCSeedRows
  Outcomes <- MCOutcomes
  MaxView = 3
  MaxUid = 3
  MaxSnaps = 2
  MaxRows = 2
  MaxEdits = 2
  Requests = {r1, r2}
  ListNames = {"S", "T"}
  Starter = "S"
  Alphabet <- MCAlphabet
  SymbolLists <- MCLists
  Duplicates <- MCDuplicates
  MaxLists = 2
  Prices = {1, 2, 3, 4}
  Losses = {0, 1, 2}
  FirstTrade = "long"
  Manifests <- MCManifests
  Files = {"bars", "study"}
  Computed <- MCComputed
  Label = 1
  NoPrice = NoPrice
  Exported <- MCExported
SYMMETRY Symmetry
CHECK_DEADLOCK FALSE
INVARIANTS
  ScoresAgree
  RankingAgrees
  QuotesAreEarned
  CalendarIsHeeded
  ReviewIsSound
  ScansFollow
  ParityIsEarned
  HeatmapIsSound
  ListsAreSound
