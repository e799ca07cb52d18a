\* Two lines scanned one after the other.
CONSTANTS
  call = call
  put = put
  p1 = p1
  t1 = t1
  Lines = {call, put}
  Candles = {1, 2}
  Signals <- OtherLine
  DayOf <- OwnDays
  Expiry = 0
  Clis = {p1}
  Threads = {}
  Lot = 2
  Requests <- Manual
  MaxTrades = 2
  MaxPositions = 1
  MaxOrders = 2
  MaxRuns = 2
SPECIFICATION Spec
CHECK_DEADLOCK FALSE
PROPERTY NeverOnStaleData
