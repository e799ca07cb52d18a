\* An exit of one index and an entry of the other.
SPECIFICATION Spec
CONSTANTS
  SlotsPerDay = 6
  TradingStart = 0
  TradingEnd = 4
  EntryCutoff = 3
  SquareOffTime = 3
  CooldownSlots = 1
  MaxTradesPerDay = 2
  MaxOpenPositions = 1
  MaxQuantity = 1
  MaxOrderValue = 1
  MaxPremium = 1
  MaxCapital = 1
  DailyLossLimit = 2
  MaxConsecutiveLosses = 1
  Indices = {i1, i2}
  Manual = {m1}
  Scheduler = scheduler
  NoThread = noThread
  NoIndex = noIndex
  Pnls = {1}
  Prices = {1}
  Quantities = {1}
  FreshSlots = 1
  Commands = {"enable"}
  BadDays = {0}
  FeedRegresses = FALSE
  Persisting = FALSE
  WritesFail = FALSE
  MaxLag = 1
  MaxCrashes = 0
  MaxClock = 3
SYMMETRY Symmetry
PROPERTIES
  MinimumGap
