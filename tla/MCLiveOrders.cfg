\* One scanner, a dashboard, one line.
CONSTANTS
  call = call
  put = put
  p1 = p1
  t1 = t1
  Lines = {call}
  Candles = {1, 2}
  Signals <- AllSignals
  DayOf <- OwnDays
  Expiry = 0
  Clis = {p1}
  Threads = {t1}
  Lot = 2
  Requests <- Manual
  MaxTrades = 2
  MaxPositions = 1
  MaxOrders = 2
  MaxRuns = 2
SPECIFICATION Spec
CONSTRAINT Explored
CHECK_DEADLOCK FALSE
INVARIANTS TypeOK OneOrderPerSignal OneInFlight FilledIsReal
PROPERTIES UnresolvedBlocksNextRun ManualFailsClosed
