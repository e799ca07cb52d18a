------------------------------ MODULE RiskRules ------------------------------
(***************************************************************************)
(* The rules of algoedge.risk_manager as operators on one RiskState record *)
(* (src/src/algoedge/risk_manager.py).  Time is counted in slots of one    *)
(* bar: slot n is bar-time n % SlotsPerDay of IST day n \div SlotsPerDay.  *)
(* An order value, an allocated capital or a last exit that the code holds *)
(* as None is NoValue.                                                     *)
(***************************************************************************)
EXTENDS Integers

CONSTANTS
  SlotsPerDay,          \* slots in one IST calendar day
  TradingStart,         \* RiskLimits.trading_start, a slot of the day
  TradingEnd,           \* RiskLimits.trading_end
  EntryCutoff,          \* RiskLimits.entry_cutoff
  SquareOffTime,        \* RiskLimits.square_off_time
  CooldownSlots,        \* RiskLimits.cooldown_minutes, in slots
  MaxTradesPerDay,      \* RiskLimits.max_trades_per_day
  MaxOpenPositions,     \* RiskLimits.max_open_positions
  MaxQuantity,          \* RiskLimits.max_quantity
  MaxOrderValue,        \* RiskLimits.max_order_value
  MaxPremium,           \* RiskLimits.max_option_premium_exposure
  MaxCapital,           \* RiskLimits.max_capital_allocation
  DailyLossLimit,       \* RiskLimits.daily_loss_limit, in points
  MaxConsecutiveLosses  \* RiskLimits.max_consecutive_losses

ASSUME RiskLimitsAssumption ==
  /\ SlotsPerDay \in Nat \ {0}
  /\ TradingStart \in Nat /\ TradingEnd \in Nat
  /\ EntryCutoff \in Nat /\ SquareOffTime \in Nat
  /\ TradingStart <= TradingEnd /\ TradingEnd < SlotsPerDay
  /\ CooldownSlots \in Nat
  /\ MaxTradesPerDay \in Nat /\ MaxOpenPositions \in Nat /\ MaxQuantity \in Nat
  /\ MaxOrderValue \in Nat /\ MaxPremium \in Nat /\ MaxCapital \in Nat
  /\ DailyLossLimit \in Nat
  /\ MaxConsecutiveLosses \in Nat \ {0}

NoValue == -1

Day(now) == now \div SlotsPerDay
TimeOfDay(now) == now % SlotsPerDay
InSession(now) == TradingStart <= TimeOfDay(now) /\ TimeOfDay(now) <= TradingEnd

-----------------------------------------------------------------------------
(* RiskState: the mutable half of the Risk Manager.                        *)

RiskState ==
  [enabled: BOOLEAN, killSwitch: BOOLEAN, trades: Nat, entries: Nat, pnl: Int,
   tradeDay: Int, losses: Nat, halt: BOOLEAN, lastExit: Int]

FreshRisk ==
  [enabled |-> FALSE, killSwitch |-> FALSE, trades |-> 0, entries |-> 0, pnl |-> 0,
   tradeDay |-> NoValue, losses |-> 0, halt |-> FALSE, lastExit |-> NoValue]

\* Mutants of ResetIfNewDay: the points survive the day; the day reopens trading.
ResetKeepsPoints(r, now) ==
  IF r.tradeDay = Day(now) THEN r
  ELSE [r EXCEPT !.tradeDay = Day(now), !.trades = 0, !.entries = 0]

ResetReopens(r, now) ==
  IF r.tradeDay = Day(now) THEN r
  ELSE [r EXCEPT !.tradeDay = Day(now), !.trades = 0, !.entries = 0, !.pnl = 0,
                 !.halt = FALSE, !.losses = 0]

\* The day's counters start again on a new IST day; the loss streak and the
\* halt deliberately do not.
ResetIfNewDay(r, now) ==
  IF r.tradeDay = Day(now) THEN r
  ELSE [r EXCEPT !.tradeDay = Day(now), !.trades = 0, !.entries = 0, !.pnl = 0]

\* A breakeven exit leaves the streak as it is.
LossStreak(r, pnl) == IF pnl < 0 THEN r.losses + 1 ELSE IF pnl > 0 THEN 0 ELSE r.losses

RecordTrade(r, pnl, now, isExit) ==
  LET d == ResetIfNewDay(r, now)
      c == [d EXCEPT !.trades = @ + 1, !.pnl = @ + pnl]
  IN  IF ~isExit THEN c
      ELSE [c EXCEPT !.lastExit = now,
                     !.losses = LossStreak(d, pnl),
                     !.halt = @ \/ (pnl < 0 /\ LossStreak(d, pnl) >= MaxConsecutiveLosses)]

RecordEntry(r, now) == [ResetIfNewDay(r, now) EXCEPT !.entries = @ + 1]

EnableAutoTrading(r) == [r EXCEPT !.enabled = TRUE]
DisableAutoTrading(r) == [r EXCEPT !.enabled = FALSE]
TripKillSwitch(r) == [r EXCEPT !.killSwitch = TRUE]
ResetKillSwitch(r) == [r EXCEPT !.killSwitch = FALSE]
ResetConsecutiveLossHalt(r) == [r EXCEPT !.halt = FALSE, !.losses = 0]

-----------------------------------------------------------------------------
(* RiskManager.check(): an order is [action, quantity, open, value,        *)
(* capital, riskReducing, capNewEntries].  The order of the gates only     *)
(* chooses the reason text, so the decision is their conjunction.          *)

\* Mutant of SwitchGates: the kill switch is forgotten.
SwitchGatesWithoutKill(r, o) ==
  \/ o.riskReducing /\ o.action = "SELL"
  \/ ~r.halt /\ r.enabled

\* The switches stop new risk; an exit that only reduces risk passes them.
SwitchGates(r, o) ==
  \/ o.riskReducing /\ o.action = "SELL"
  \/ ~r.killSwitch /\ ~r.halt /\ r.enabled

CountedTrades(r, o) == IF o.capNewEntries THEN r.entries ELSE r.trades

\* Mutant of CooldownOver: one slot short.
CooldownShort(r, now) ==
  r.lastExit # NoValue => now >= r.lastExit + CooldownSlots - 1

CooldownOver(r, now) == r.lastExit # NoValue => now >= r.lastExit + CooldownSlots

\* Mutant of EntryGates: the cap is tested with <=.
EntryGatesOneMore(r, o, now) ==
  o.action = "BUY" =>
    /\ TimeOfDay(now) <= EntryCutoff
    /\ CooldownOver(r, now)
    /\ CountedTrades(r, o) <= MaxTradesPerDay
    /\ r.pnl > -DailyLossLimit
    /\ o.open < MaxOpenPositions

EntryGates(r, o, now) ==
  o.action = "BUY" =>
    /\ TimeOfDay(now) <= EntryCutoff
    /\ CooldownOver(r, now)
    /\ CountedTrades(r, o) < MaxTradesPerDay
    /\ r.pnl > -DailyLossLimit
    /\ o.open < MaxOpenPositions

SizeGates(o) ==
  /\ 0 < o.quantity /\ o.quantity <= MaxQuantity
  /\ o.value # NoValue =>
       /\ o.value <= MaxOrderValue /\ o.value <= MaxPremium
       /\ o.capital # NoValue => o.capital + o.value <= MaxCapital

ExitGates(o) == o.action = "SELL" => o.open > 0

CheckPasses(r, o, now) ==
  /\ o.action \in {"BUY", "SELL"}
  /\ SwitchGates(ResetIfNewDay(r, now), o)
  /\ InSession(now)
  /\ EntryGates(ResetIfNewDay(r, now), o, now)
  /\ SizeGates(o)
  /\ ExitGates(o)

-----------------------------------------------------------------------------
(* restore_risk_state(): a snapshot written before entries_today existed    *)
(* has none (NoValue), and the entries are derived from the day's fills.    *)

\* Mutants of RestoredEntries: the missing value is passed on; half is rounded down.
RestoredEntriesRaw(snap) == snap.entries
RestoredEntriesHalf(snap) ==
  IF snap.entries # NoValue THEN snap.entries ELSE snap.trades \div 2

RestoredEntries(snap) ==
  IF snap.entries # NoValue THEN snap.entries ELSE (snap.trades + 1) \div 2

RestoreRiskState(snap) == [snap EXCEPT !.entries = RestoredEntries(snap)]
=============================================================================
