SPECIFICATION Spec
CONSTANTS
  SlotsPerDay = 4
  TradingStart = 0
  TradingEnd = 2
  EntryCutoff = 2
  SquareOffTime = 2
  CooldownSlots = 1
  MaxTradesPerDay = 2
  MaxOpenPositions = 1
  MaxQuantity = 1
  MaxOrderValue = 2
  MaxPremium = 2
  MaxCapital = 4
  DailyLossLimit = 2
  MaxConsecutiveLosses = 2
  Pnls <- MCPnls
  Orders <- MCOrders
  MaxClock = 7
INVARIANTS
  TypeOK
  DayCountersExact
  EntriesNeverUndercounted
  EntryCapHolds
  HaltOutlastsEverything
PROPERTIES
  HaltLiftedOnlyByReset
  EntriesRespectTheDay
