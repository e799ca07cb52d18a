---------------------------- MODULE RiskManager ----------------------------
(***************************************************************************)
(* The Risk Manager of algoedge.risk_manager driven by one paper trading   *)
(* loop: every order is checked before it fills, every fill is recorded,   *)
(* every change is followed by a snapshot, and a restart restores the      *)
(* latest snapshot (web_server._restore_paper_risk_state).                 *)
(* Concurrency and failing writes belong to PaperEngine; this module is    *)
(* about what the rules promise day after day and across restarts.         *)
(***************************************************************************)
EXTENDS RiskRules

CONSTANTS
  Pnls,     \* realized points an exit can have
  Orders,   \* [quantity, value, capital] of the orders the loop asks for
  MaxClock  \* bound: the last slot of the model

ASSUME RiskManagerAssumption ==
  /\ Pnls \subseteq Int
  /\ \A o \in Orders : o.quantity \in Int /\ o.value \in Int /\ o.capital \in Int
  /\ MaxClock \in Nat

VARIABLES
  clock,
  risk,      \* RiskManager.state
  saved,     \* the latest risk_state_events row
  upgraded,  \* FALSE while the rows of an older version, without entries, may be met
  open,      \* open positions the loop holds
  book,      \* history: what really happened on the day of the clock
  streak     \* history: losing exits since the last win or halt reset

vars == <<clock, risk, saved, upgraded, open, book, streak>>

EmptyBook == [trades |-> 0, entries |-> 0, pnl |-> 0]

OrderFor(o, action) ==
  [action |-> action, quantity |-> o.quantity, value |-> o.value, capital |-> o.capital,
   open |-> open, riskReducing |-> action = "SELL", capNewEntries |-> TRUE]

Init ==
  /\ clock = 0
  /\ risk = FreshRisk /\ saved = FreshRisk
  /\ upgraded = FALSE
  /\ open = 0
  /\ book = EmptyBook
  /\ streak = 0

-----------------------------------------------------------------------------

\* A new entry that passes the check and fills.
Enter(o) ==
  /\ CheckPasses(risk, OrderFor(o, "BUY"), clock)
  /\ risk' = RecordEntry(RecordTrade(risk, 0, clock, FALSE), clock)
  /\ saved' = risk'
  /\ open' = open + 1
  /\ book' = [book EXCEPT !.trades = @ + 1, !.entries = @ + 1]
  /\ UNCHANGED <<clock, upgraded, streak>>

\* A refused order leaves only the lazy day reset behind.
Refuse(o, action) ==
  /\ ~CheckPasses(risk, OrderFor(o, action), clock)
  /\ risk' = ResetIfNewDay(risk, clock)
  /\ UNCHANGED <<clock, saved, upgraded, open, book, streak>>

RecordExit(pnl) ==
  /\ open > 0
  /\ risk' = RecordTrade(risk, pnl, clock, TRUE)
  /\ saved' = risk'
  /\ open' = open - 1
  /\ book' = [book EXCEPT !.trades = @ + 1, !.pnl = @ + pnl]
  /\ streak' = IF pnl < 0 THEN streak + 1 ELSE IF pnl > 0 THEN 0 ELSE streak
  /\ UNCHANGED <<clock, upgraded>>

\* A stop-loss or target exit passes the check first.
Exit(o, pnl) ==
  /\ CheckPasses(risk, OrderFor(o, "SELL"), clock)
  /\ RecordExit(pnl)

\* The square-off and its recovery bypass check().
ForceClose(pnl) ==
  /\ InSession(clock)
  /\ RecordExit(pnl)

-----------------------------------------------------------------------------

Operate(r) ==
  /\ risk' = r
  /\ saved' = r
  /\ UNCHANGED <<clock, upgraded, open, book>>

Switch ==
  /\ \/ Operate(EnableAutoTrading(risk))
     \/ Operate(DisableAutoTrading(risk))
     \/ Operate(TripKillSwitch(risk))
     \/ Operate(ResetKillSwitch(risk))
  /\ UNCHANGED streak

ResetHalt ==
  /\ Operate(ResetConsecutiveLossHalt(risk))
  /\ streak' = 0

Restart ==
  /\ risk' = RestoreRiskState(saved)
  /\ UNCHANGED <<clock, saved, upgraded, open, book, streak>>

\* The first start of the version that counts entries: the latest row was
\* written without them.
RestartOnLegacyRow ==
  /\ ~upgraded
  /\ upgraded' = TRUE
  /\ risk' = RestoreRiskState([saved EXCEPT !.entries = NoValue])
  /\ saved' = risk'
  /\ UNCHANGED <<clock, open, book, streak>>

Tick ==
  /\ clock < MaxClock
  /\ clock' = clock + 1
  /\ book' = IF Day(clock') = Day(clock) THEN book ELSE EmptyBook
  /\ UNCHANGED <<risk, saved, upgraded, open, streak>>

Next ==
  \/ \E o \in Orders : Enter(o)
  \/ \E o \in Orders, action \in {"BUY", "SELL"} : Refuse(o, action)
  \/ \E o \in Orders, pnl \in Pnls : Exit(o, pnl)
  \/ \E pnl \in Pnls : ForceClose(pnl)
  \/ Switch
  \/ ResetHalt
  \/ Restart
  \/ RestartOnLegacyRow
  \/ Tick

Spec == Init /\ [][Next]_vars

-----------------------------------------------------------------------------

Book == [trades: Nat, entries: Nat, pnl: Int]

TypeOK ==
  /\ clock \in Nat
  /\ risk \in RiskState /\ saved \in RiskState
  /\ upgraded \in BOOLEAN
  /\ open \in Nat
  /\ book \in Book
  /\ streak \in Nat

\* The day counters are reset lazily, by the first call of a new day, and a
\* restart brings back the counters of whatever day was saved: whenever they
\* claim to be today's they are today's fills, and points, exactly; and when
\* they claim another day nothing has filled today (risk_manager.py
\* _reset_if_new_day, record_trade, restore_risk_state).
DayCountersExact ==
  IF risk.tradeDay = Day(clock)
  THEN risk.trades = book.trades /\ risk.pnl = book.pnl
  ELSE book.trades = 0 /\ book.pnl = 0

\* The entry counter never misses an entry of the day, not even when it had to
\* be derived from a row that only knew the number of fills ((fills+1)//2 is
\* "a conservative overestimate", _restored_entries_today).
EntriesNeverUndercounted ==
  IF risk.tradeDay = Day(clock) THEN book.entries <= risk.entries ELSE book.entries = 0

\* The day's cap on new entries holds whatever restarts, refusals, halts and
\* exits lie between two entries (check(cap_new_entries=True)).
EntryCapHolds == book.entries <= MaxTradesPerDay

\* A losing streak of the configured length has halted trading, and the halt
\* is still there: no win, new day, refusal or restart lifts it
\* ("must never auto-reopen on its own", risk_manager.py:53-55).
HaltOutlastsEverything == streak >= MaxConsecutiveLosses => risk.halt /\ saved.halt

\* Only the explicit reset lifts a halt that is in force.
HaltLiftedOnlyByReset == [][risk.halt /\ ~risk'.halt => ResetHalt]_vars

\* No new entry fills on a day that has already lost the limit, nor within the
\* cooldown of the last exit, nor above the position limit.
EntriesRespectTheDay ==
  [][open' > open =>
       /\ book.pnl > -DailyLossLimit
       /\ open < MaxOpenPositions
       /\ risk.lastExit # NoValue => clock >= risk.lastExit + CooldownSlots]_vars
=============================================================================
