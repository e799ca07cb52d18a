\* One index over two days, the first of which fails: fetches fail or are stale
\* and the scheduler misses slots, so that a position may stay open overnight.
SPECIFICATION FairSpec
CONSTANTS
  SlotsPerDay = 6
  TradingStart = 1
  TradingEnd = 4
  EntryCutoff = 2
  SquareOffTime = 3
  CooldownSlots = 1
  MaxTradesPerDay = 1
  MaxOpenPositions = 1
  MaxQuantity = 2
  MaxOrderValue = 2
  MaxPremium = 2
  MaxCapital = 1
  DailyLossLimit = 2
  MaxConsecutiveLosses = 1
  Indices = {i1}
  Manual = {m1}
  Scheduler = scheduler
  NoThread = noThread
  NoIndex = noIndex
  Pnls = {1}
  Prices = {1}
  Quantities = {2}
  FreshSlots = 1
  Commands = {"enable", "disable"}
  BadDays = {0}
  FeedRegresses = FALSE
  Persisting = FALSE
  WritesFail = FALSE
  MaxLag = 1
  MaxCrashes = 0
  MaxClock = 11
INVARIANTS
  TypeOK
  FlatOvernight
PROPERTIES
  PositionsClose
  ImplementsPaperBook
