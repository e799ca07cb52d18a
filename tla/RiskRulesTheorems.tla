------------------------- MODULE RiskRulesTheorems -------------------------
(***************************************************************************)
(* What the operators of RiskRules return, field by field.  The proofs     *)
(* about the modules built on them cite these facts and never expand a     *)
(* record update.                                                          *)
(***************************************************************************)
EXTENDS RiskRules, TLAPS

\* The record with the given fields, in the order of RiskState.
Risk(enabled, killSwitch, trades, entries, pnl, tradeDay, losses, halt, lastExit) ==
  [enabled |-> enabled, killSwitch |-> killSwitch, trades |-> trades, entries |-> entries,
   pnl |-> pnl, tradeDay |-> tradeDay, losses |-> losses, halt |-> halt, lastExit |-> lastExit]

Typed(r) ==
  /\ r.enabled \in BOOLEAN /\ r.killSwitch \in BOOLEAN /\ r.halt \in BOOLEAN
  /\ r.trades \in Nat /\ r.entries \in Nat /\ r.losses \in Nat
  /\ r.pnl \in Int /\ r.tradeDay \in Int /\ r.lastExit \in Int

AsRecord(r) ==
  Risk(r.enabled, r.killSwitch, r.trades, r.entries, r.pnl, r.tradeDay, r.losses, r.halt, r.lastExit)

-----------------------------------------------------------------------------

\* Days are natural numbers and a later slot is never on an earlier day
\* (the date comparisons of risk_manager.py _reset_if_new_day).
LEMMA DayMonotone ==
  ASSUME NEW m \in Nat
  PROVE  Day(m) \in Nat /\ Day(m + 1) \in Nat /\ Day(m) <= Day(m + 1)
BY RiskLimitsAssumption DEF Day

\* A RiskState is the record of its fields, and a record of such fields is a
\* RiskState.
LEMMA RiskStateFields ==
  ASSUME NEW r \in RiskState
  PROVE  Typed(r) /\ r = AsRecord(r)
BY DEF RiskState, Typed, AsRecord, Risk

LEMMA RiskStateType ==
  ASSUME NEW r, Typed(r), r = AsRecord(r)
  PROVE  r \in RiskState
BY DEF RiskState, Typed, AsRecord, Risk

LEMMA FreshRiskType == FreshRisk \in RiskState
BY DEF FreshRisk, RiskState, NoValue

\* The lazy reset makes the counters those of the day and keeps the switches,
\* the streak and the last exit.
LEMMA ResetFields ==
  ASSUME NEW r \in RiskState, NEW now \in Nat
  PROVE  LET d == ResetIfNewDay(r, now)
         IN  /\ d \in RiskState
             /\ d.tradeDay = Day(now)
             /\ d.trades = IF r.tradeDay = Day(now) THEN r.trades ELSE 0
             /\ d.entries = IF r.tradeDay = Day(now) THEN r.entries ELSE 0
             /\ d.pnl = IF r.tradeDay = Day(now) THEN r.pnl ELSE 0
             /\ d.enabled = r.enabled /\ d.killSwitch = r.killSwitch /\ d.halt = r.halt
             /\ d.losses = r.losses /\ d.lastExit = r.lastExit
<1>1. Day(now) \in Nat
  BY DayMonotone
<1>2. Typed(r) /\ r = AsRecord(r)
  BY RiskStateFields
<1>3. CASE r.tradeDay = Day(now)
  BY <1>1, <1>3 DEF ResetIfNewDay, RiskState
<1>4. CASE r.tradeDay # Day(now)
  <2>1. ResetIfNewDay(r, now) =
          Risk(r.enabled, r.killSwitch, 0, 0, 0, Day(now), r.losses, r.halt, r.lastExit)
    BY <1>2, <1>4 DEF ResetIfNewDay, AsRecord, Risk
  <2> QED
    BY <1>1, <1>2, <1>4, <2>1 DEF RiskState, Typed, Risk
<1> QED
  BY <1>3, <1>4

\* Recording a fill counts it and its points on its day; only an exit touches
\* the last exit, the streak and the halt, and it never lifts a halt.
LEMMA RecordTradeFields ==
  ASSUME NEW r \in RiskState, NEW now \in Nat, NEW pnl \in Int, NEW isExit \in BOOLEAN
  PROVE  LET d == ResetIfNewDay(r, now)
             n == RecordTrade(r, pnl, now, isExit)
         IN  /\ n \in RiskState
             /\ n.tradeDay = Day(now)
             /\ n.trades = d.trades + 1 /\ n.entries = d.entries /\ n.pnl = d.pnl + pnl
             /\ n.enabled = r.enabled /\ n.killSwitch = r.killSwitch
             /\ n.lastExit = IF isExit THEN now ELSE r.lastExit
             /\ n.losses = IF isExit THEN LossStreak(r, pnl) ELSE r.losses
             /\ n.halt = (r.halt \/ (isExit /\ pnl < 0 /\ LossStreak(r, pnl) >= MaxConsecutiveLosses))
<1> DEFINE d == ResetIfNewDay(r, now)
           n == RecordTrade(r, pnl, now, isExit)
           struck == pnl < 0 /\ LossStreak(d, pnl) >= MaxConsecutiveLosses
<1>1. /\ d \in RiskState /\ d.tradeDay = Day(now)
      /\ d.enabled = r.enabled /\ d.killSwitch = r.killSwitch /\ d.halt = r.halt
      /\ d.losses = r.losses /\ d.lastExit = r.lastExit
  BY ResetFields
<1> HIDE DEF d
<1>2. Typed(d) /\ d = AsRecord(d)
  BY <1>1, RiskStateFields
<1>3. LossStreak(d, pnl) = LossStreak(r, pnl) /\ LossStreak(d, pnl) \in Nat
  BY <1>1, <1>2 DEF LossStreak, Typed
<1>4. CASE ~isExit
  <2>1. n = [d EXCEPT !.trades = @ + 1, !.pnl = @ + pnl]
    BY <1>4 DEF RecordTrade, d
  <2>2. n = Risk(d.enabled, d.killSwitch, d.trades + 1, d.entries, d.pnl + pnl, d.tradeDay,
                 d.losses, d.halt, d.lastExit)
    BY <1>2, <2>1 DEF AsRecord, Risk
  <2> QED
    BY <1>1, <1>2, <1>4, <2>2 DEF RiskState, Typed, Risk, d
<1>5. CASE isExit
  <2>1. n = [[d EXCEPT !.trades = @ + 1, !.pnl = @ + pnl] EXCEPT
               !.lastExit = now, !.losses = LossStreak(d, pnl), !.halt = @ \/ struck]
    BY <1>5 DEF RecordTrade, d
  <2>2. n = Risk(d.enabled, d.killSwitch, d.trades + 1, d.entries, d.pnl + pnl, d.tradeDay,
                 LossStreak(d, pnl), d.halt \/ struck, now)
    BY <1>2, <2>1 DEF AsRecord, Risk
  <2>3. (d.halt \/ struck) \in BOOLEAN /\ struck = (pnl < 0 /\ LossStreak(r, pnl) >= MaxConsecutiveLosses)
    BY <1>3
  <2> HIDE DEF struck, n
  <2>4. /\ n.enabled = d.enabled /\ n.killSwitch = d.killSwitch /\ n.trades = d.trades + 1
        /\ n.entries = d.entries /\ n.pnl = d.pnl + pnl /\ n.tradeDay = d.tradeDay
        /\ n.losses = LossStreak(d, pnl) /\ n.halt = (d.halt \/ struck) /\ n.lastExit = now
    BY <2>2 DEF Risk
  <2>5. n \in RiskState
    BY <1>2, <1>3, <2>2, <2>3 DEF RiskState, Typed, Risk
  <2>6. n.halt = (r.halt \/ (isExit /\ pnl < 0 /\ LossStreak(r, pnl) >= MaxConsecutiveLosses))
    BY <1>1, <1>5, <2>3, <2>4
  <2> QED
    BY <1>1, <1>3, <1>5, <2>4, <2>5, <2>6 DEF d, n
<1> QED
  BY <1>4, <1>5

\* Recording an entry counts it and changes nothing else of its day.
LEMMA RecordEntryFields ==
  ASSUME NEW r \in RiskState, NEW now \in Nat
  PROVE  LET d == ResetIfNewDay(r, now)
             n == RecordEntry(r, now)
         IN  /\ n \in RiskState
             /\ n.tradeDay = Day(now)
             /\ n.trades = d.trades /\ n.entries = d.entries + 1 /\ n.pnl = d.pnl
             /\ n.enabled = r.enabled /\ n.killSwitch = r.killSwitch /\ n.halt = r.halt
             /\ n.losses = r.losses /\ n.lastExit = r.lastExit
<1> DEFINE d == ResetIfNewDay(r, now)
           n == RecordEntry(r, now)
<1>1. /\ d \in RiskState /\ d.tradeDay = Day(now)
      /\ d.enabled = r.enabled /\ d.killSwitch = r.killSwitch /\ d.halt = r.halt
      /\ d.losses = r.losses /\ d.lastExit = r.lastExit
  BY ResetFields
<1> HIDE DEF d
<1>2. Typed(d) /\ d = AsRecord(d)
  BY <1>1, RiskStateFields
<1>3. n = [d EXCEPT !.entries = @ + 1]
  BY DEF RecordEntry, d
<1>4. n = Risk(d.enabled, d.killSwitch, d.trades, d.entries + 1, d.pnl, d.tradeDay, d.losses,
               d.halt, d.lastExit)
  BY <1>2, <1>3 DEF AsRecord, Risk
<1> QED
  BY <1>1, <1>2, <1>4 DEF RiskState, Typed, Risk, d

\* What the operators of the switches leave alone.
SameDay(n, r) ==
  /\ n.trades = r.trades /\ n.entries = r.entries /\ n.pnl = r.pnl /\ n.tradeDay = r.tradeDay
  /\ n.lastExit = r.lastExit

\* The four switches change no counter, streak or halt.
LEMMA SwitchFields ==
  ASSUME NEW r \in RiskState,
         NEW n \in {EnableAutoTrading(r), DisableAutoTrading(r), TripKillSwitch(r), ResetKillSwitch(r)}
  PROVE  n \in RiskState /\ SameDay(n, r) /\ n.losses = r.losses /\ n.halt = r.halt
BY DEF RiskState, SameDay, EnableAutoTrading, DisableAutoTrading, TripKillSwitch, ResetKillSwitch

\* The reset of the halt clears the streak and the halt, and nothing else.
LEMMA ResetHaltFields ==
  ASSUME NEW r \in RiskState
  PROVE  LET n == ResetConsecutiveLossHalt(r)
         IN  n \in RiskState /\ SameDay(n, r) /\ n.losses = 0 /\ n.halt = FALSE
BY DEF RiskState, ResetConsecutiveLossHalt, SameDay

\* A snapshot with its entries is restored as it is; one without them counts
\* every other fill, rounded up, as an entry.
LEMMA RestoreFields ==
  ASSUME NEW r \in RiskState
  PROVE  /\ RestoreRiskState(r) = r
         /\ LET n == RestoreRiskState([r EXCEPT !.entries = NoValue])
            IN  /\ n \in RiskState
                /\ n.trades = r.trades /\ n.pnl = r.pnl /\ n.tradeDay = r.tradeDay
                /\ n.losses = r.losses /\ n.halt = r.halt
                /\ n.entries \in Nat /\ r.trades <= 2 * n.entries
<1> DEFINE legacy == [r EXCEPT !.entries = NoValue]
           half == (r.trades + 1) \div 2
<1>1. Typed(r) /\ r = AsRecord(r)
  BY RiskStateFields
<1>2. r.entries # NoValue
  BY <1>1 DEF Typed, NoValue
<1>3. RestoreRiskState(r) = r
  <2>1. RestoreRiskState(r) = [r EXCEPT !.entries = r.entries]
    BY <1>2 DEF RestoreRiskState, RestoredEntries
  <2> QED
    BY <1>1, <2>1 DEF AsRecord, Risk
<1>4. legacy = Risk(r.enabled, r.killSwitch, r.trades, NoValue, r.pnl, r.tradeDay, r.losses,
                    r.halt, r.lastExit)
  BY <1>1 DEF AsRecord, Risk
<1>5. half \in Nat /\ r.trades <= 2 * half
  BY <1>1 DEF Typed
<1> HIDE DEF legacy
<1>6. RestoredEntries(legacy) = half
  BY <1>4 DEF RestoredEntries, Risk
<1> HIDE DEF half
<1>7. RestoreRiskState(legacy) = Risk(r.enabled, r.killSwitch, r.trades, half, r.pnl, r.tradeDay,
                                      r.losses, r.halt, r.lastExit)
  BY <1>4, <1>6 DEF RestoreRiskState, Risk
<1> QED
  BY <1>1, <1>3, <1>5, <1>7 DEF RiskState, Typed, Risk, legacy

\* A buy that passes the check found fewer open positions and fewer entries
\* than allowed, and an enabled, unhalted engine.
LEMMA BuyPassed ==
  ASSUME NEW r \in RiskState, NEW now \in Nat, NEW o, o.action = "BUY", o.capNewEntries = TRUE,
         CheckPasses(r, o, now)
  PROVE  /\ o.open < MaxOpenPositions
         /\ ResetIfNewDay(r, now).entries < MaxTradesPerDay
         /\ ResetIfNewDay(r, now).pnl > -DailyLossLimit
         /\ r.enabled /\ ~r.killSwitch /\ ~r.halt
         /\ CooldownOver(r, now) /\ InSession(now) /\ TimeOfDay(now) <= EntryCutoff
<1> DEFINE d == ResetIfNewDay(r, now)
<1>1. /\ d.enabled = r.enabled /\ d.killSwitch = r.killSwitch /\ d.halt = r.halt
      /\ d.lastExit = r.lastExit
  BY ResetFields
<1>2. SwitchGates(d, o) /\ EntryGates(d, o, now) /\ InSession(now)
  BY DEF CheckPasses
<1> HIDE DEF d
<1> QED
  BY <1>1, <1>2 DEF EntryGates, CountedTrades, SwitchGates, CooldownOver, d
=============================================================================
