\* One index with a database: every order of fills, rows and commits, a failing
\* write anywhere and one restart anywhere.
SPECIFICATION Spec
CONSTANTS
  SlotsPerDay = 6
  TradingStart = 0
  TradingEnd = 4
  EntryCutoff = 3
  SquareOffTime = 3
  CooldownSlots = 1
  MaxTradesPerDay = 2
  MaxOpenPositions = 1
  MaxQuantity = 1
  MaxOrderValue = 1
  MaxPremium = 1
  MaxCapital = 1
  DailyLossLimit = 2
  MaxConsecutiveLosses = 1
  Indices = {i1}
  Manual = {m1}
  Scheduler = scheduler
  NoThread = noThread
  NoIndex = noIndex
  Pnls = {1}
  Prices = {1}
  Quantities = {1}
  FreshSlots = 1
  Commands = {"enable"}
  BadDays = {0}
  FeedRegresses = FALSE
  Persisting = TRUE
  WritesFail = TRUE
  MaxLag = 1
  MaxCrashes = 1
  MaxClock = 3
SYMMETRY Symmetry
INVARIANTS
  AtWorstStale
  AccountsDurable
PROPERTIES
  BookedOnce
