------------------------- MODULE RiskManagerProofs -------------------------
(***************************************************************************)
(* What the runs of RiskManager check on two short days, for every value   *)
(* of the constants.  The inductive invariant says that the state in       *)
(* memory and the saved row both tell the truth about the day of the       *)
(* clock, because either may be the one a restart makes current.           *)
(***************************************************************************)
EXTENDS RiskManager, RiskRulesTheorems

\* What a RiskState knows is true of the day of the clock and of the streak.
Faithful(r) ==
  /\ r.tradeDay <= Day(clock)
  /\ r.tradeDay = Day(clock) =>
       r.trades = book.trades /\ r.pnl = book.pnl /\ book.entries <= r.entries
  /\ r.tradeDay # Day(clock) =>
       book.trades = 0 /\ book.pnl = 0 /\ book.entries = 0
  /\ r.losses = streak
  /\ streak >= MaxConsecutiveLosses => r.halt

\* Entries and exits alternate, so an entry of the day has its own fill.
FillsPaired == 2 * book.entries <= book.trades + open

IInv ==
  /\ TypeOK
  /\ Faithful(risk)
  /\ Faithful(saved)
  /\ risk.halt = saved.halt
  /\ open <= MaxOpenPositions
  /\ FillsPaired
  /\ EntryCapHolds

-----------------------------------------------------------------------------

LEMMA BookFields ==
  ASSUME NEW b \in Book
  PROVE  b.trades \in Nat /\ b.entries \in Nat /\ b.pnl \in Int
BY DEF Book

\* The facts about the pre-state every step of the induction starts from.
LEMMA Current ==
  ASSUME IInv
  PROVE  LET d == ResetIfNewDay(risk, clock)
         IN  /\ clock \in Nat /\ Day(clock) \in Nat /\ d \in RiskState
             /\ d.tradeDay = Day(clock)
             /\ d.trades = book.trades /\ d.pnl = book.pnl /\ book.entries <= d.entries
             /\ d.halt = risk.halt /\ d.losses = streak
             /\ d.trades \in Nat /\ d.entries \in Nat /\ d.pnl \in Int
             /\ book.trades \in Nat /\ book.entries \in Nat /\ book.pnl \in Int
             /\ risk.halt \in BOOLEAN /\ streak \in Nat /\ open \in Nat
             /\ (streak >= MaxConsecutiveLosses => risk.halt)
<1>1. clock \in Nat /\ risk \in RiskState /\ book \in Book /\ streak \in Nat /\ open \in Nat
  BY DEF IInv, TypeOK
<1>2. Day(clock) \in Nat
  BY <1>1, DayMonotone
<1> DEFINE d == ResetIfNewDay(risk, clock)
<1>3. /\ d \in RiskState /\ d.tradeDay = Day(clock)
      /\ d.trades = IF risk.tradeDay = Day(clock) THEN risk.trades ELSE 0
      /\ d.entries = IF risk.tradeDay = Day(clock) THEN risk.entries ELSE 0
      /\ d.pnl = IF risk.tradeDay = Day(clock) THEN risk.pnl ELSE 0
      /\ d.halt = risk.halt /\ d.losses = risk.losses
  BY <1>1, ResetFields
<1> HIDE DEF d
<1>4. d.trades \in Nat /\ d.entries \in Nat /\ d.pnl \in Int /\ risk.halt \in BOOLEAN
  BY <1>1, <1>3, RiskStateFields DEF Typed
<1>5. book.trades \in Nat /\ book.entries \in Nat /\ book.pnl \in Int
  BY <1>1, BookFields
<1>6. Faithful(risk)
  BY DEF IInv
<1>7. /\ d.trades = book.trades /\ d.pnl = book.pnl /\ book.entries <= d.entries
      /\ d.losses = streak /\ (streak >= MaxConsecutiveLosses => risk.halt)
  BY <1>3, <1>5, <1>6 DEF Faithful
<1> QED
  BY <1>1, <1>2, <1>3, <1>4, <1>5, <1>7 DEF d

LEMMA InitInv == Init => IInv
<1> SUFFICES ASSUME Init PROVE IInv
  OBVIOUS
<1>1. Day(clock) = 0
  BY RiskLimitsAssumption DEF Init, Day
<1>2. FreshRisk \in RiskState
  BY FreshRiskType
<1>3. book \in Book
  BY DEF Init, EmptyBook, Book
<1>4. /\ risk.tradeDay = -1 /\ risk.losses = 0 /\ risk.halt = FALSE /\ saved = risk
      /\ book.trades = 0 /\ book.pnl = 0 /\ book.entries = 0
  BY DEF Init, FreshRisk, EmptyBook, NoValue
<1>5. Faithful(risk) /\ Faithful(saved)
  BY <1>1, <1>4, RiskLimitsAssumption DEF Init, Faithful
<1>6. TypeOK
  BY <1>2, <1>3 DEF Init, TypeOK
<1> QED
  BY <1>4, <1>5, <1>6, RiskLimitsAssumption DEF Init, IInv, FillsPaired, EntryCapHolds

LEMMA EnterInv ==
  ASSUME IInv, NEW o \in Orders, Enter(o)
  PROVE  IInv'
<1> DEFINE d == ResetIfNewDay(risk, clock)
           t == RecordTrade(risk, 0, clock, FALSE)
<1>1. risk \in RiskState /\ clock \in Nat /\ book \in Book
  BY DEF IInv, TypeOK
<1>2. OrderFor(o, "BUY").action = "BUY" /\ OrderFor(o, "BUY").capNewEntries = TRUE
      /\ OrderFor(o, "BUY").open = open
  BY DEF OrderFor
<1>3. open < MaxOpenPositions /\ d.entries < MaxTradesPerDay
  BY <1>1, <1>2, BuyPassed DEF Enter
<1>4. 0 \in Int /\ FALSE \in BOOLEAN
  OBVIOUS
<1>5. /\ t \in RiskState /\ t.tradeDay = Day(clock)
      /\ t.trades = d.trades + 1 /\ t.entries = d.entries /\ t.pnl = d.pnl + 0
      /\ t.halt = (risk.halt \/ (FALSE /\ 0 < 0 /\ LossStreak(risk, 0) >= MaxConsecutiveLosses))
      /\ t.losses = IF FALSE THEN LossStreak(risk, 0) ELSE risk.losses
  <2>1. t \in RiskState /\ t.tradeDay = Day(clock) /\ t.trades = d.trades + 1
    BY <1>1, <1>4, RecordTradeFields, Zenon
  <2>2. t.entries = d.entries /\ t.pnl = d.pnl + 0
    BY <1>1, <1>4, RecordTradeFields, Zenon
  <2>3. t.halt = (risk.halt \/ (FALSE /\ 0 < 0 /\ LossStreak(risk, 0) >= MaxConsecutiveLosses))
    BY <1>1, <1>4, RecordTradeFields, Zenon
  <2>4. t.losses = IF FALSE THEN LossStreak(risk, 0) ELSE risk.losses
    BY <1>1, <1>4, RecordTradeFields, Zenon
  <2> QED
    BY <2>1, <2>2, <2>3, <2>4
<1>6. risk.halt \in BOOLEAN
  BY <1>1, RiskStateFields DEF Typed
<1>7. risk' = RecordEntry(t, clock)
  BY DEF Enter
<1> HIDE DEF d, t
<1>8. ResetIfNewDay(t, clock) = t
  BY <1>5 DEF ResetIfNewDay
<1>9. LET e == ResetIfNewDay(t, clock)
      IN  /\ risk' \in RiskState /\ risk'.tradeDay = Day(clock)
          /\ risk'.trades = e.trades /\ risk'.entries = e.entries + 1 /\ risk'.pnl = e.pnl
          /\ risk'.halt = t.halt /\ risk'.losses = t.losses
  BY <1>1, <1>5, <1>7, RecordEntryFields
<1>10. /\ risk' \in RiskState /\ risk'.tradeDay = Day(clock)
      /\ risk'.trades = d.trades + 1 /\ risk'.entries = d.entries + 1 /\ risk'.pnl = d.pnl + 0
      /\ risk'.halt = risk.halt /\ risk'.losses = risk.losses
  BY <1>5, <1>8, <1>6, <1>9
<1>11. /\ book' \in Book /\ book'.trades = book.trades + 1 /\ book'.pnl = book.pnl
      /\ book'.entries = book.entries + 1
  <2>1. book' = [book EXCEPT !.trades = @ + 1, !.entries = @ + 1]
    BY DEF Enter
  <2>2. book.trades \in Nat /\ book.entries \in Nat /\ book.pnl \in Int
    BY <1>1, BookFields
  <2>3. book' = [trades |-> book.trades + 1, entries |-> book.entries + 1, pnl |-> book.pnl]
    BY <1>1, <2>1 DEF Book
  <2> QED
    BY <2>2, <2>3 DEF Book
<1>12. clock' = clock /\ upgraded' = upgraded /\ streak' = streak /\ saved' = risk' /\ open' = open + 1
  BY DEF Enter
<1>13. risk.losses = streak
  BY DEF IInv, Faithful
<1>14. Faithful(risk)'
  BY <1>10, <1>11, <1>12, <1>13, Current DEF Faithful, Day, d
<1>15. (TypeOK /\ open <= MaxOpenPositions /\ FillsPaired /\ EntryCapHolds)'
  BY <1>3, <1>10, <1>11, <1>12, Current, RiskLimitsAssumption
  DEF IInv, TypeOK, EntryCapHolds, FillsPaired, d
<1> QED
  BY <1>12, <1>14, <1>15 DEF IInv, Faithful, Day

LEMMA RecordExitInv ==
  ASSUME IInv, NEW pnl \in Pnls, RecordExit(pnl)
  PROVE  IInv'
<1> DEFINE d == ResetIfNewDay(risk, clock)
<1>1. risk \in RiskState /\ clock \in Nat /\ book \in Book /\ pnl \in Int /\ open \in Nat
  BY RiskManagerAssumption DEF IInv, TypeOK
<1>2. TRUE \in BOOLEAN
  OBVIOUS
<1>3. risk' = RecordTrade(risk, pnl, clock, TRUE)
  BY DEF RecordExit
<1>4. /\ risk' \in RiskState /\ risk'.tradeDay = Day(clock)
      /\ risk'.trades = d.trades + 1 /\ risk'.entries = d.entries /\ risk'.pnl = d.pnl + pnl
      /\ risk'.losses = IF TRUE THEN LossStreak(risk, pnl) ELSE risk.losses
      /\ risk'.halt = (risk.halt \/ (TRUE /\ pnl < 0 /\ LossStreak(risk, pnl) >= MaxConsecutiveLosses))
  <2> DEFINE t == RecordTrade(risk, pnl, clock, TRUE)
  <2>1. t \in RiskState /\ t.tradeDay = Day(clock)
    BY <1>1, <1>2, RecordTradeFields, Zenon
  <2>1a. t.trades = d.trades + 1
    BY <1>1, <1>2, RecordTradeFields, Zenon
  <2>2. t.entries = d.entries /\ t.pnl = d.pnl + pnl
    BY <1>1, <1>2, RecordTradeFields, Zenon
  <2>3. t.losses = IF TRUE THEN LossStreak(risk, pnl) ELSE risk.losses
    BY <1>1, <1>2, RecordTradeFields, Zenon
  <2>4. t.halt = (risk.halt \/ (TRUE /\ pnl < 0 /\ LossStreak(risk, pnl) >= MaxConsecutiveLosses))
    BY <1>1, <1>2, RecordTradeFields, Zenon
  <2>5. risk' = t
    BY <1>3
  <2> HIDE DEF t, d
  <2> QED
    BY <2>1, <2>1a, <2>2, <2>3, <2>4, <2>5
<1>5. /\ book' \in Book /\ book'.trades = book.trades + 1 /\ book'.pnl = book.pnl + pnl
      /\ book'.entries = book.entries
  <2>1. book' = [book EXCEPT !.trades = @ + 1, !.pnl = @ + pnl]
    BY DEF RecordExit
  <2>2. book.trades \in Nat /\ book.entries \in Nat /\ book.pnl \in Int
    BY <1>1, BookFields
  <2>3. book' = [trades |-> book.trades + 1, entries |-> book.entries, pnl |-> book.pnl + pnl]
    BY <1>1, <2>1 DEF Book
  <2> QED
    BY <1>1, <2>2, <2>3 DEF Book
<1>6. clock' = clock /\ upgraded' = upgraded /\ saved' = risk' /\ open' = open - 1 /\ open > 0
  BY DEF RecordExit
<1>7. risk.losses = streak /\ streak \in Nat
  BY DEF IInv, Faithful, TypeOK
<1>8. streak' = LossStreak(risk, pnl) /\ streak' \in Nat
  BY <1>1, <1>7 DEF RecordExit, LossStreak
<1> HIDE DEF d
<1>9. streak' >= MaxConsecutiveLosses => risk'.halt
  <2>1. streak >= MaxConsecutiveLosses => risk.halt
    BY DEF IInv, Faithful
  <2>2. pnl < 0 \/ streak' <= streak
    BY <1>1, <1>7, <1>8 DEF LossStreak
  <2>3. CASE pnl < 0
    BY <1>4, <1>8, <2>3
  <2>4. CASE streak' <= streak
    <3>1. streak' >= MaxConsecutiveLosses => streak >= MaxConsecutiveLosses
      BY <1>8, <1>7, <2>4, RiskLimitsAssumption
    <3>2. risk.halt => risk'.halt
      BY <1>4, Zenon
    <3> QED
      BY <2>1, <3>1, <3>2
  <2> QED
    BY <2>2, <2>3, <2>4
<1>10. Faithful(risk)'
  BY <1>1, <1>4, <1>5, <1>6, <1>8, <1>9, Current DEF Faithful, Day, d
<1>11. (TypeOK /\ open <= MaxOpenPositions /\ FillsPaired /\ EntryCapHolds)'
  BY <1>1, <1>4, <1>5, <1>6, <1>8, Current, RiskLimitsAssumption
  DEF IInv, TypeOK, EntryCapHolds, FillsPaired, d
<1> QED
  BY <1>6, <1>10, <1>11 DEF IInv, Faithful, Day

\* A refused order leaves the day's reset, an operator a switch.
LEMMA RefuseInv ==
  ASSUME IInv, NEW o \in Orders, NEW action \in {"BUY", "SELL"}, Refuse(o, action)
  PROVE  IInv'
<1>1. risk' = ResetIfNewDay(risk, clock)
      /\ UNCHANGED <<clock, saved, upgraded, open, book, streak>>
  BY DEF Refuse
<1>2. Faithful(risk)'
  BY <1>1, Current DEF Faithful, Day
<1>3. risk' \in RiskState /\ risk'.halt = risk.halt
  BY <1>1, Current
<1> QED
  BY <1>1, <1>2, <1>3 DEF IInv, TypeOK, Faithful, Day, FillsPaired, EntryCapHolds

\* A state that knows the same of the day is as faithful.
LEMMA FaithfulKept ==
  ASSUME NEW r, NEW n, Faithful(r), SameDay(n, r), n.losses = r.losses, n.halt = r.halt
  PROVE  Faithful(n)
BY DEF Faithful, SameDay

LEMMA SwitchInv ==
  ASSUME IInv, Switch
  PROVE  IInv'
<1>1. risk' = saved' /\ UNCHANGED <<clock, upgraded, open, book, streak>>
  BY DEF Switch, Operate
<1>2. risk \in RiskState /\ Faithful(risk)
  BY DEF IInv, TypeOK
<1>3. risk' \in {EnableAutoTrading(risk), DisableAutoTrading(risk), TripKillSwitch(risk),
                 ResetKillSwitch(risk)}
  BY DEF Switch, Operate
<1>4. risk' \in RiskState /\ SameDay(risk', risk) /\ risk'.losses = risk.losses /\ risk'.halt = risk.halt
  BY <1>2, <1>3, SwitchFields
<1>5. Faithful(risk)'
  BY <1>1, <1>2, <1>4 DEF Faithful, SameDay, Day
<1> QED
  BY <1>1, <1>4, <1>5 DEF IInv, TypeOK, Faithful, Day, FillsPaired, EntryCapHolds

LEMMA ResetHaltInv ==
  ASSUME IInv, ResetHalt
  PROVE  IInv'
<1>1. risk' = ResetConsecutiveLossHalt(risk) /\ saved' = risk' /\ streak' = 0
      /\ UNCHANGED <<clock, upgraded, open, book>>
  BY DEF ResetHalt, Operate
<1>2. risk \in RiskState /\ Faithful(risk)
  BY DEF IInv, TypeOK
<1>3. risk' \in RiskState /\ SameDay(risk', risk) /\ risk'.losses = 0 /\ risk'.halt = FALSE
  BY <1>1, <1>2, ResetHaltFields
<1>4. Faithful(risk)'
  BY <1>1, <1>2, <1>3, RiskLimitsAssumption DEF Faithful, SameDay, Day
<1> QED
  BY <1>1, <1>3, <1>4 DEF IInv, TypeOK, Faithful, Day, FillsPaired, EntryCapHolds

LEMMA RestartInv ==
  ASSUME IInv, Restart
  PROVE  IInv'
<1>1. saved \in RiskState
  BY DEF IInv, TypeOK
<1>2. RestoreRiskState(saved) = saved
  BY <1>1, RestoreFields
<1>3. risk' = saved /\ UNCHANGED <<clock, saved, upgraded, open, book, streak>>
  BY <1>2 DEF Restart
<1> QED
  BY <1>3 DEF IInv, TypeOK, Faithful, Day, FillsPaired, EntryCapHolds

\* With at most one open position the entries of the day are at most half of
\* its fills, rounded up: what a row without entries is restored with.
LEMMA RestartOnLegacyRowInv ==
  ASSUME IInv, MaxOpenPositions <= 1, RestartOnLegacyRow
  PROVE  IInv'
<1> DEFINE n == RestoreRiskState([saved EXCEPT !.entries = NoValue])
<1>1. saved \in RiskState /\ Faithful(saved) /\ open \in Nat /\ open <= 1 /\ book \in Book
  BY RiskLimitsAssumption DEF IInv, TypeOK
<1>2. risk' = n /\ saved' = n /\ upgraded' = TRUE /\ UNCHANGED <<clock, open, book, streak>>
  BY DEF RestartOnLegacyRow
<1>3. /\ n \in RiskState /\ n.trades = saved.trades /\ n.pnl = saved.pnl
      /\ n.tradeDay = saved.tradeDay /\ n.losses = saved.losses /\ n.halt = saved.halt
      /\ n.entries \in Nat /\ saved.trades <= 2 * n.entries
  BY <1>1, RestoreFields
<1> HIDE DEF n
<1>4. book.trades \in Nat /\ book.entries \in Nat
  BY <1>1, BookFields
<1>5. saved.tradeDay = Day(clock) => book.entries <= n.entries
  <2> SUFFICES ASSUME saved.tradeDay = Day(clock) PROVE book.entries <= n.entries
    OBVIOUS
  <2>1. saved.trades = book.trades
    BY <1>1 DEF Faithful
  <2>2. 2 * book.entries <= book.trades + open
    BY DEF IInv, FillsPaired
  <2> QED
    BY <1>1, <1>3, <1>4, <2>1, <2>2
<1>6. Faithful(risk)'
  BY <1>1, <1>2, <1>3, <1>5 DEF Faithful, Day
<1> QED
  BY <1>2, <1>3, <1>6 DEF IInv, TypeOK, Faithful, Day, FillsPaired, EntryCapHolds

\* A new day empties the book, and no state has counted anything for it yet.
LEMMA TickInv ==
  ASSUME IInv, Tick
  PROVE  IInv'
<1>1. /\ clock \in Nat /\ open \in Nat /\ book \in Book
      /\ risk \in RiskState /\ saved \in RiskState /\ Faithful(risk) /\ Faithful(saved)
  BY DEF IInv, TypeOK
<1>2. clock' = clock + 1 /\ UNCHANGED <<risk, saved, upgraded, open, streak>>
  BY DEF Tick
<1>3. Day(clock) \in Nat /\ Day(clock + 1) \in Nat /\ Day(clock) <= Day(clock + 1)
  BY <1>1, DayMonotone
<1>4. Day(clock)' = Day(clock + 1)
  BY <1>2 DEF Day
<1>5. CASE Day(clock + 1) = Day(clock)
  <2>1. book' = book
    BY <1>2, <1>5 DEF Tick
  <2> QED
    BY <1>1, <1>2, <1>4, <1>5, <2>1 DEF IInv, TypeOK, Faithful, FillsPaired, EntryCapHolds
<1>6. CASE Day(clock + 1) # Day(clock)
  <2>1. book' = EmptyBook
    BY <1>2, <1>6 DEF Tick
  <2>2. book' \in Book /\ book'.trades = 0 /\ book'.entries = 0 /\ book'.pnl = 0
    BY <2>1 DEF EmptyBook, Book
  <2>3. ASSUME NEW r \in RiskState, Faithful(r)
        PROVE  r.tradeDay < Day(clock + 1)
    BY <1>3, <1>6, <2>3, RiskStateFields DEF Faithful, Typed
  <2>4. Faithful(risk)' /\ Faithful(saved)'
    BY <1>1, <1>2, <1>3, <1>4, <2>2, <2>3, RiskStateFields DEF Faithful, Typed
  <2> QED
    BY <1>1, <1>2, <2>2, <2>4, RiskLimitsAssumption DEF IInv, TypeOK, FillsPaired, EntryCapHolds
<1> QED
  BY <1>5, <1>6

LEMMA NextInv ==
  ASSUME IInv, MaxOpenPositions <= 1, [Next]_vars
  PROVE  IInv'
<1>1. CASE \E o \in Orders : Enter(o)
  BY <1>1, EnterInv
<1>2. CASE \E o \in Orders, action \in {"BUY", "SELL"} : Refuse(o, action)
  BY <1>2, RefuseInv
<1>3. CASE \E o \in Orders, pnl \in Pnls : Exit(o, pnl)
  BY <1>3, RecordExitInv DEF Exit
<1>4. CASE \E pnl \in Pnls : ForceClose(pnl)
  BY <1>4, RecordExitInv DEF ForceClose
<1>5. CASE Switch
  BY <1>5, SwitchInv
<1>6. CASE ResetHalt
  BY <1>6, ResetHaltInv
<1>7. CASE Restart
  BY <1>7, RestartInv
<1>8. CASE RestartOnLegacyRow
  BY <1>8, RestartOnLegacyRowInv
<1>9. CASE Tick
  BY <1>9, TickInv
<1>10. CASE UNCHANGED vars
  BY <1>10 DEF vars, IInv, TypeOK, Faithful, Day, FillsPaired, EntryCapHolds
<1> QED
  BY <1>1, <1>2, <1>3, <1>4, <1>5, <1>6, <1>7, <1>8, <1>9, <1>10 DEF Next

-----------------------------------------------------------------------------

\* Under a position limit of at most one, which is the code's default.
LEMMA Invariance == ASSUME MaxOpenPositions <= 1 PROVE Spec => []IInv
<1>1. IInv /\ [Next]_vars => IInv'
  BY NextInv
<1> QED
  BY <1>1, InitInv, PTL DEF Spec

\* The state is well typed: no counter ever becomes negative, whatever day a
\* restart brings back.
THEOREM Typing == ASSUME MaxOpenPositions <= 1 PROVE Spec => []TypeOK
<1>1. IInv => TypeOK
  BY DEF IInv
<1> QED
  BY <1>1, Invariance, PTL

\* The lazily reset counters are exact for the day they claim.
THEOREM CountersAreExact == ASSUME MaxOpenPositions <= 1 PROVE Spec => []DayCountersExact
<1>1. IInv => DayCountersExact
  BY DEF IInv, Faithful, DayCountersExact
<1> QED
  BY <1>1, Invariance, PTL

\* No entry of the day is ever missing from the counter, even when a row
\* without it had to be restored.
THEOREM EntriesAreCounted == ASSUME MaxOpenPositions <= 1 PROVE Spec => []EntriesNeverUndercounted
<1>1. IInv => EntriesNeverUndercounted
  BY DEF IInv, Faithful, EntriesNeverUndercounted
<1> QED
  BY <1>1, Invariance, PTL

\* The day's cap on new entries holds across restarts and days.
THEOREM EntryCap == ASSUME MaxOpenPositions <= 1 PROVE Spec => []EntryCapHolds
<1>1. IInv => EntryCapHolds
  BY DEF IInv
<1> QED
  BY <1>1, Invariance, PTL

\* A losing streak of the configured length keeps trading halted, in memory
\* and in the row a restart restores.
THEOREM HaltStands == ASSUME MaxOpenPositions <= 1 PROVE Spec => []HaltOutlastsEverything
<1>1. IInv => HaltOutlastsEverything
  BY DEF IInv, Faithful, HaltOutlastsEverything
<1> QED
  BY <1>1, Invariance, PTL

\* No step but the explicit reset lifts a halt.
THEOREM HaltLifted == ASSUME MaxOpenPositions <= 1 PROVE Spec => HaltLiftedOnlyByReset
<1>1. ASSUME IInv, [Next]_vars, ~ResetHalt PROVE risk.halt => risk'.halt
  <2>1. risk \in RiskState /\ saved \in RiskState /\ clock \in Nat /\ risk.halt = saved.halt
    BY <1>1 DEF IInv, TypeOK
  <2>2. ASSUME NEW o \in Orders, Enter(o) PROVE risk.halt => risk'.halt
    <3>1. /\ RecordTrade(risk, 0, clock, FALSE) \in RiskState
          /\ risk.halt => RecordTrade(risk, 0, clock, FALSE).halt
      <4>1. 0 \in Int /\ FALSE \in BOOLEAN
        OBVIOUS
      <4>2. LET n == RecordTrade(risk, 0, clock, FALSE)
            IN  /\ n \in RiskState
                /\ n.halt = (risk.halt \/ (FALSE /\ 0 < 0 /\ LossStreak(risk, 0) >= MaxConsecutiveLosses))
        BY <2>1, <4>1, RecordTradeFields, Zenon
      <4> QED
        BY <4>2, Zenon
    <3> QED
      BY <2>1, <2>2, <3>1, RecordEntryFields, Zenon DEF Enter
  <2>3. ASSUME NEW pnl \in Pnls, RecordExit(pnl) PROVE risk.halt => risk'.halt
    <3>1. pnl \in Int /\ TRUE \in BOOLEAN
      BY RiskManagerAssumption
    <3> QED
      BY <2>1, <2>3, <3>1, RecordTradeFields, Zenon DEF RecordExit
  <2>4. ASSUME NEW o \in Orders, NEW action \in {"BUY", "SELL"}, Refuse(o, action)
        PROVE  risk'.halt = risk.halt
    BY <2>1, <2>4, ResetFields DEF Refuse
  <2>5. ASSUME Switch PROVE risk'.halt = risk.halt
    BY <2>1, <2>5, SwitchFields DEF Switch, Operate
  <2>6. ASSUME Restart PROVE risk'.halt = risk.halt
    BY <2>1, <2>6, RestoreFields DEF Restart
  <2>7. ASSUME RestartOnLegacyRow PROVE risk'.halt = risk.halt
    BY <2>1, <2>7, RestoreFields DEF RestartOnLegacyRow
  <2>8. ASSUME Tick \/ UNCHANGED vars PROVE risk'.halt = risk.halt
    BY <2>8 DEF Tick, vars
  <2> QED
    BY <1>1, <2>2, <2>3, <2>4, <2>5, <2>6, <2>7, <2>8 DEF Next, Exit, ForceClose
<1>2. IInv /\ [Next]_vars => [risk.halt /\ ~risk'.halt => ResetHalt]_vars
  BY <1>1
<1> QED
  BY <1>2, Invariance, PTL DEF Spec, HaltLiftedOnlyByReset

\* No entry fills past the daily loss limit, the position limit or within the
\* cooldown of the last exit.
THEOREM EntriesAreDisciplined ==
  ASSUME MaxOpenPositions <= 1 PROVE Spec => EntriesRespectTheDay
<1> DEFINE Disciplined ==
      /\ book.pnl > -DailyLossLimit
      /\ open < MaxOpenPositions
      /\ risk.lastExit # NoValue => clock >= risk.lastExit + CooldownSlots
<1>1. ASSUME IInv, NEW o \in Orders, Enter(o) PROVE Disciplined
  <2>1. risk \in RiskState /\ clock \in Nat
    BY <1>1 DEF IInv, TypeOK
  <2>2. OrderFor(o, "BUY").action = "BUY" /\ OrderFor(o, "BUY").capNewEntries = TRUE
        /\ OrderFor(o, "BUY").open = open
    BY DEF OrderFor
  <2>3. /\ open < MaxOpenPositions
        /\ ResetIfNewDay(risk, clock).pnl > -DailyLossLimit
        /\ CooldownOver(risk, clock)
    BY <1>1, <2>1, <2>2, BuyPassed DEF Enter
  <2> QED
    BY <1>1, <2>3, Current DEF CooldownOver
<1>2. ASSUME IInv, [Next]_vars, open' > open PROVE \E o \in Orders : Enter(o)
  <2>1. open \in Nat
    BY <1>2 DEF IInv, TypeOK
  <2>2. open' = open \/ open' = open - 1 \/ \E o \in Orders : Enter(o)
    BY <1>2 DEF Next, Refuse, Exit, ForceClose, RecordExit, Switch, Operate, ResetHalt, Restart,
               RestartOnLegacyRow, Tick, vars
  <2> QED
    BY <1>2, <2>1, <2>2
<1>3. IInv /\ [Next]_vars => [open' > open => Disciplined]_vars
  BY <1>1, <1>2
<1> QED
  BY <1>3, Invariance, PTL DEF Spec, EntriesRespectTheDay
=============================================================================
