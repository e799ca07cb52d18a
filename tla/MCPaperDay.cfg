\* Two indices, the scheduler and one manual run compete for one position and
\* two entries in a day of four slots, while operators stop and resume trading.
SPECIFICATION Spec
CONSTANTS
  SlotsPerDay = 6
  TradingStart = 0
  TradingEnd = 4
  EntryCutoff = 3
  SquareOffTime = 3
  CooldownSlots = 1
  MaxTradesPerDay = 2
  MaxOpenPositions = 1
  MaxQuantity = 1
  MaxOrderValue = 1
  MaxPremium = 1
  MaxCapital = 1
  DailyLossLimit = 2
  MaxConsecutiveLosses = 1
  Indices = {i1, i2}
  Manual = {m1}
  Scheduler = scheduler
  NoThread = noThread
  NoIndex = noIndex
  Pnls <- MCLosses
  Prices = {1}
  Quantities = {1}
  FreshSlots = 1
  Commands = {"enable", "kill", "resetHalt"}
  BadDays = {0}
  FeedRegresses = FALSE
  Persisting = FALSE
  WritesFail = FALSE
  MaxLag = 0
  MaxCrashes = 0
  MaxClock = 3
SYMMETRY Symmetry
INVARIANTS
  PositionLimit
  StopLetsOneThrough
PROPERTIES
  ImplementsPaperBook
