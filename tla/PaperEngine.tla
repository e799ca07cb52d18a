---------------------------- MODULE PaperEngine ----------------------------
(***************************************************************************)
(* Paper Auto Trading of algoedge.web_server: the background scheduler and *)
(* the "Run cycle now" endpoint run cycles (auto_trader.run_cycle) of      *)
(* several indices at once against one Risk Manager and one simulated      *)
(* account per index, operators throw the switches, every fill is          *)
(* persisted with the risk state, and a restart restores both.             *)
(*                                                                         *)
(* The market is a choice: what the feed returns, the bar of the next      *)
(* strategy event, the points an exit realizes, the price an order is      *)
(* valued at.  CPython switches threads only at calls and backward jumps,  *)
(* so the straight-line bookkeeping after a fill is one step; a fill, its  *)
(* bookkeeping, the building of the rows and their commit are four.        *)
(***************************************************************************)
EXTENDS RiskRules, FiniteSets

CONSTANTS
  Indices,        \* INDEX_DEFINITIONS
  Manual,         \* threadpool threads that serve "Run cycle now"
  Scheduler,      \* the event-loop thread that runs the scheduler
  NoThread, NoIndex,
  Pnls,           \* realized points an exit can have
  Prices,         \* prices an order can be valued at
  Quantities,     \* quantities a manual run can ask for
  FreshSlots,     \* SIGNAL_FRESHNESS_BARS
  Commands,       \* operator commands that are issued
  BadDays,        \* days of failing or stale fetches and of slots the scheduler misses
  FeedRegresses,  \* a run can see a latest bar before the account's mark
  Persisting,     \* a database is configured
  WritesFail,     \* a database write can fail
  MaxLag,         \* bound: slots a cycle can take
  MaxCrashes,     \* bound: restarts
  MaxClock        \* bound: the last slot

Threads == Manual \cup {Scheduler}
AllCommands == {"enable", "disable", "kill", "unkill", "resetHalt"}

ASSUME PaperEngineAssumption ==
  /\ IsFiniteSet(Indices) /\ IsFiniteSet(Manual)
  /\ NoThread \notin Threads /\ NoIndex \notin Indices
  /\ Pnls \subseteq Int /\ Prices \subseteq Nat /\ Quantities \subseteq Int
  /\ FreshSlots \in Nat
  /\ Commands \subseteq AllCommands
  /\ {FeedRegresses, Persisting, WritesFail} \subseteq BOOLEAN
  /\ MaxLag \in Nat /\ MaxCrashes \in Nat /\ MaxClock \in Nat
  \* a cycle of one session never lasts into the next day
  /\ MaxLag < SlotsPerDay - TradingEnd

VARIABLES
  clock,
  risk,      \* RiskManager.state
  qty,       \* per index: SimulatedAccount.quantity
  mark,      \* per index: SimulatedAccount.last_event_at
  sqOff,     \* per index: SimulatedAccount.square_off_date
  lock,      \* per index: the holder of _cycle_locks[index]
  guard,     \* the holder of _entry_guard
  pc,        \* per thread: where its cycle stands
  idx,       \* per thread: the index of its cycle
  cyc,       \* per thread: the locals of its cycle
  sched,     \* the scheduler's tick: [at, on, todo]
  oper,      \* an operator endpoint between its switch and its commit
  dbRisk,    \* latest row of risk_state_events
  dbAcct,    \* per index: latest row of auto_trade_account_snapshots
  crashes,
  booked,    \* history, per index: bar of the latest entry committed
  unsaved,   \* history, per index: its last write was rolled back
  lateFills  \* history: entries filled since new risk was last stopped

memory == <<risk, qty, mark, sqOff>>
control == <<lock, guard, pc, idx, cyc>>
disk == <<dbRisk, dbAcct, booked, unsaved>>
vars == <<clock, memory, control, sched, oper, disk, crashes, lateFills>>

NoMark == -1
Slots == 0..MaxClock
\* The bars of a day: one starts in every slot of the session but the last.
Bars == {b \in Slots : TradingStart <= TimeOfDay(b) /\ TimeOfDay(b) < TradingEnd}

OpenPositions == Cardinality({i \in Indices : qty[i] > 0})

NoRow == [risk |-> FreshRisk, acct |-> [qty |-> 0, mark |-> NoMark, sqOff |-> NoMark]]
FreshAccount == NoRow.acct
NoCommand == [at |-> "idle", row |-> FreshRisk]
NoCycle == [qty |-> 0, now |-> NoMark, bar |-> NoMark, pnl |-> 0, kind |-> "none", row |-> NoRow]

Init ==
  /\ clock = 0
  /\ risk = FreshRisk
  /\ qty = [i \in Indices |-> 0]
  /\ mark = [i \in Indices |-> NoMark]
  /\ sqOff = [i \in Indices |-> NoMark]
  /\ lock = [i \in Indices |-> NoThread]
  /\ guard = NoThread
  /\ pc = [t \in Threads |-> "idle"]
  /\ idx = [t \in Threads |-> NoIndex]
  /\ cyc = [t \in Threads |-> NoCycle]
  /\ sched = [at |-> NoMark, on |-> FALSE, todo |-> {}]
  /\ oper = NoCommand
  /\ dbRisk = FreshRisk
  /\ dbAcct = [i \in Indices |-> FreshAccount]
  /\ crashes = 0
  /\ booked = [i \in Indices |-> NoMark]
  /\ unsaved = [i \in Indices |-> FALSE]
  /\ lateFills = 0

-----------------------------------------------------------------------------
(* Starting a cycle: AutoTradingScheduler._tick, auto_trading_run and the  *)
(* head of _run_and_persist_cycle.                                         *)

\* Sleeping a slot between ticks, the scheduler ticks at most once a slot;
\* at the bound, where the clock stands, it goes on ticking.
SchedulerTick ==
  /\ pc[Scheduler] = "idle" /\ sched.todo = {}
  /\ sched.at < clock \/ clock = MaxClock
  /\ sched' = [at |-> clock, on |-> risk.enabled /\ ~risk.killSwitch, todo |-> Indices]
  /\ UNCHANGED <<clock, memory, control, oper, disk, crashes, lateFills>>

\* Mutants of Serves: while entries are off, nothing is served, or it is only
\* the indices without a position that are.
ServesWhileOn(i) == sched.on
ServesFlat(i) == sched.on \/ qty[i] = 0

\* has_open_position: with entries off, an open position is still served.
Serves(i) == sched.on \/ qty[i] > 0

\* Entries are off and the index is flat: nothing risk-reducing to do.
SchedulerSkip(i) ==
  /\ pc[Scheduler] = "idle" /\ i \in sched.todo
  /\ ~Serves(i)
  /\ sched' = [sched EXCEPT !.todo = @ \ {i}]
  /\ UNCHANGED <<clock, memory, control, oper, disk, crashes, lateFills>>

Request(t, i, q) ==
  /\ pc[t] = "idle"
  /\ IF t = Scheduler
     THEN /\ i \in sched.todo /\ q = 1 /\ Serves(i)
          /\ sched' = [sched EXCEPT !.todo = @ \ {i}]
     ELSE q \in Quantities /\ UNCHANGED sched
  /\ pc' = [pc EXCEPT ![t] = "wait"]
  /\ idx' = [idx EXCEPT ![t] = i]
  /\ cyc' = [cyc EXCEPT ![t] = [NoCycle EXCEPT !.qty = q]]
  /\ UNCHANGED <<clock, memory, lock, guard, oper, disk, crashes, lateFills>>

\* CycleBusyError: the holder kept the lock past the timeout.
Busy(t) ==
  /\ pc[t] = "wait" /\ lock[idx[t]] # NoThread
  /\ pc' = [pc EXCEPT ![t] = "idle"]
  /\ idx' = [idx EXCEPT ![t] = NoIndex]
  /\ cyc' = [cyc EXCEPT ![t] = NoCycle]
  /\ UNCHANGED <<clock, memory, lock, guard, sched, oper, disk, crashes, lateFills>>

\* Mutant of LockFree: the per-index lock does not exclude.
LockIgnored(i) == TRUE

LockFree(i) == lock[i] = NoThread

Begin(t) ==
  /\ pc[t] = "wait" /\ LockFree(idx[t])
  /\ lock' = [lock EXCEPT ![idx[t]] = t]
  /\ pc' = [pc EXCEPT ![t] = "fetch"]
  /\ cyc' = [cyc EXCEPT ![t].now = clock]
  /\ UNCHANGED <<clock, memory, guard, idx, sched, oper, disk, crashes, lateFills>>

\* Every way out of a cycle releases the index.
Release(t) ==
  /\ lock' = [lock EXCEPT ![idx[t]] = NoThread]
  /\ pc' = [pc EXCEPT ![t] = "idle"]
  /\ idx' = [idx EXCEPT ![t] = NoIndex]
  /\ cyc' = [cyc EXCEPT ![t] = NoCycle]

-----------------------------------------------------------------------------
(* run_cycle: what the fetched candles and the account lead to.  The index *)
(* lock is held, so the account is read and acted on by this cycle alone.  *)

Now(t) == cyc[t].now
Held(t) == qty[idx[t]] > 0

\* But for the bad days, the feed has a bar of the day once one is complete.
FeedIsCurrent(t, latest) ==
  (\E b \in Bars : Day(b) = Day(Now(t)) /\ b < Now(t)) => Day(latest) = Day(Now(t))

Fetched(t, latest) ==
  /\ pc[t] = "fetch"
  /\ latest \in Bars /\ latest <= clock
  /\ FeedRegresses \/ latest >= mark[idx[t]]
  /\ Day(Now(t)) \in BadDays \/ FeedIsCurrent(t, latest)

\* _stale_position_day: the entry bar is of an earlier day.
MissedSquareOff(t) ==
  Held(t) /\ mark[idx[t]] # NoMark /\ Day(mark[idx[t]]) < Day(Now(t))

SquareOffDue(t) ==
  /\ Held(t)
  /\ InSession(Now(t)) /\ TimeOfDay(Now(t)) >= SquareOffTime
  /\ sqOff[idx[t]] # Day(Now(t))

\* _completed_bars: the last bar is left out while it is still forming.
Completed(t, latest) ==
  {b \in Bars : IF latest + 1 > Now(t) THEN b < latest ELSE b <= latest}

Fresh(t, b) == Now(t) - (b + 1) <= FreshSlots

\* The marks the expiry of stale entries can leave a flat account with.
AfterExpiry(t, latest) ==
  {mark[idx[t]]} \cup {b \in Completed(t, latest) : b > mark[idx[t]] /\ ~Fresh(t, b)}

\* The fetch raises, or the history is empty.
FetchFails(t) ==
  /\ pc[t] = "fetch"
  /\ Day(Now(t)) \in BadDays \/ \A b \in Bars : b > clock
  /\ Release(t)
  /\ UNCHANGED <<clock, memory, guard, sched, oper, disk, crashes, lateFills>>

\* A missed square-off waits for in-session data of today, and holds back
\* every strategy event of the index meanwhile.
AwaitToday(t, latest) ==
  /\ Fetched(t, latest) /\ MissedSquareOff(t)
  /\ ~InSession(Now(t)) \/ Day(latest) # Day(Now(t))
  /\ Release(t)
  /\ UNCHANGED <<clock, memory, guard, sched, oper, disk, crashes, lateFills>>

\* Mutant of CloseQuantity: the quantity is not limited to the one held.
CloseUnlimited(q, held) == q

CloseQuantity(q, held) == IF q < held THEN q ELSE held

\* A closing fill; its bookkeeping is RecordClose.
CloseOut(t, q, bar, pnl, kind) ==
  /\ qty' = [qty EXCEPT ![idx[t]] = @ - CloseQuantity(q, @)]
  /\ cyc' = [cyc EXCEPT ![t].bar = bar, ![t].pnl = pnl, ![t].kind = kind]
  /\ pc' = [pc EXCEPT ![t] = "recordClose"]
  /\ UNCHANGED <<mark, sqOff, lock, idx>>

\* The recovery of a missed square-off and the square-off itself: no risk
\* check, the whole position, at the latest bar.
ForceClose(t, latest, pnl) ==
  /\ Fetched(t, latest)
  /\ \/ /\ MissedSquareOff(t) /\ InSession(Now(t)) /\ Day(latest) = Day(Now(t))
        /\ CloseOut(t, qty[idx[t]], latest, pnl, "recovery")
     \/ /\ ~MissedSquareOff(t) /\ SquareOffDue(t)
        /\ CloseOut(t, qty[idx[t]], latest, pnl, "squareOff")
  /\ UNCHANGED <<clock, risk, guard, sched, oper, disk, crashes, lateFills>>

Strategy(t, latest) ==
  Fetched(t, latest) /\ ~MissedSquareOff(t) /\ ~SquareOffDue(t)

\* No event is left after the stale entries of a flat account expired.
NoSignal(t, latest) ==
  /\ Strategy(t, latest)
  /\ \E m \in IF Held(t) THEN {mark[idx[t]]} ELSE AfterExpiry(t, latest) :
       mark' = [mark EXCEPT ![idx[t]] = m]
  /\ Release(t)
  /\ UNCHANGED <<clock, risk, qty, sqOff, guard, sched, oper, disk, crashes, lateFills>>

\* The order of a cycle as the Risk Manager sees it.  An exit is given the
\* open positions counted when the cycle began: its own was one of them then
\* as it is now, which is all the check of a SELL asks.
OrderOf(t, action, price) ==
  [action |-> action, quantity |-> cyc[t].qty, value |-> cyc[t].qty * price,
   capital |-> NoValue, open |-> OpenPositions,
   riskReducing |-> action = "SELL", capNewEntries |-> TRUE]

\* The strategy, seeded with the position, only produces its stop or target,
\* on a bar after the mark; a late one closes all the same.
ExitSignal(t, latest, bar, pnl, price) ==
  /\ Strategy(t, latest) /\ Held(t)
  /\ bar \in Bars /\ mark[idx[t]] < bar /\ bar <= latest
  /\ risk' = ResetIfNewDay(risk, Now(t))
  /\ IF CheckPasses(risk, OrderOf(t, "SELL", price), Now(t))
     THEN CloseOut(t, cyc[t].qty, bar, pnl, "exit")
     ELSE Release(t) /\ UNCHANGED <<qty, mark, sqOff>>
  /\ UNCHANGED <<clock, guard, sched, oper, disk, crashes, lateFills>>

\* A fresh entry on a completed bar after the mark; stale ones expire first.
EntrySignal(t, latest, bar) ==
  /\ Strategy(t, latest) /\ ~Held(t)
  /\ bar \in Completed(t, latest) /\ bar > mark[idx[t]] /\ Fresh(t, bar)
  /\ \E m \in AfterExpiry(t, latest) : mark' = [mark EXCEPT ![idx[t]] = m]
  /\ IF sqOff[idx[t]] = Day(Now(t))
     THEN Release(t)
     ELSE /\ pc' = [pc EXCEPT ![t] = "entry"]
          /\ cyc' = [cyc EXCEPT ![t].bar = bar, ![t].kind = "entry"]
          /\ UNCHANGED <<lock, idx>>
  /\ UNCHANGED <<clock, risk, qty, sqOff, guard, sched, oper, disk, crashes, lateFills>>

-----------------------------------------------------------------------------
(* A new entry, inside the guard all indices share.                        *)

NoContract(t) ==
  /\ pc[t] = "entry" /\ Day(Now(t)) \in BadDays
  /\ Release(t)
  /\ UNCHANGED <<clock, memory, guard, sched, oper, disk, crashes, lateFills>>

\* Mutant of GuardFree: the check does not wait for the guard.
GuardIgnored == TRUE

GuardFree == guard = NoThread

CheckEntry(t, price) ==
  /\ pc[t] = "entry" /\ GuardFree
  /\ risk' = ResetIfNewDay(risk, Now(t))
  /\ IF CheckPasses(risk, OrderOf(t, "BUY", price), Now(t))
     THEN /\ guard' = t
          /\ pc' = [pc EXCEPT ![t] = "fill"]
          /\ UNCHANGED <<lock, idx, cyc>>
     ELSE Release(t) /\ UNCHANGED guard
  /\ UNCHANGED <<clock, qty, mark, sqOff, sched, oper, disk, crashes, lateFills>>

\* New risk is stopped: SwitchGates fails for every new entry.
Stopped(r) == r.killSwitch \/ r.halt \/ ~r.enabled

FillEntry(t) ==
  /\ pc[t] = "fill"
  /\ qty' = [qty EXCEPT ![idx[t]] = @ + cyc[t].qty]
  /\ pc' = [pc EXCEPT ![t] = "recordEntry"]
  /\ lateFills' = IF Stopped(risk) THEN lateFills + 1 ELSE 0
  /\ UNCHANGED <<clock, risk, mark, sqOff, lock, guard, idx, cyc, sched, oper, disk, crashes>>

RecordEntryFill(t) ==
  /\ pc[t] = "recordEntry"
  /\ risk' = RecordEntry(RecordTrade(risk, 0, Now(t), FALSE), Now(t))
  /\ mark' = [mark EXCEPT ![idx[t]] = cyc[t].bar]
  /\ guard' = NoThread
  /\ pc' = [pc EXCEPT ![t] = "rows"]
  /\ UNCHANGED <<clock, qty, sqOff, lock, idx, cyc, sched, oper, disk, crashes, lateFills>>

RecordClose(t) ==
  /\ pc[t] = "recordClose"
  /\ risk' = RecordTrade(risk, cyc[t].pnl, Now(t), TRUE)
  /\ mark' = [mark EXCEPT ![idx[t]] = cyc[t].bar]
  /\ sqOff' = IF cyc[t].kind = "squareOff" THEN [sqOff EXCEPT ![idx[t]] = Day(Now(t))] ELSE sqOff
  /\ pc' = [pc EXCEPT ![t] = "rows"]
  /\ UNCHANGED <<clock, qty, lock, guard, idx, cyc, sched, oper, disk, crashes, lateFills>>

-----------------------------------------------------------------------------
(* record_paper_cycle: the rows are built, then committed or rolled back.  *)

NotConfigured(t) ==
  /\ ~Persisting /\ pc[t] = "rows"
  /\ Release(t)
  /\ UNCHANGED <<clock, memory, guard, sched, oper, disk, crashes, lateFills>>

BuildRows(t) ==
  /\ Persisting /\ pc[t] = "rows"
  /\ cyc' = [cyc EXCEPT ![t].row =
       [risk |-> risk,
        acct |-> [qty |-> qty[idx[t]], mark |-> mark[idx[t]], sqOff |-> sqOff[idx[t]]]]]
  /\ pc' = [pc EXCEPT ![t] = "commit"]
  /\ UNCHANGED <<clock, memory, lock, guard, idx, sched, oper, disk, crashes, lateFills>>

\* Mutants of AccountRows: exits are written without their account; so is
\* every order.
AccountRowsOfEntries(t) ==
  IF cyc[t].kind = "entry" THEN [dbAcct EXCEPT ![idx[t]] = cyc[t].row.acct] ELSE dbAcct
AccountRowsNever(t) == dbAcct

AccountRows(t) == [dbAcct EXCEPT ![idx[t]] = cyc[t].row.acct]

Commit(t) ==
  /\ pc[t] = "commit"
  /\ dbRisk' = cyc[t].row.risk
  /\ dbAcct' = AccountRows(t)
  /\ booked' = IF cyc[t].kind = "entry" THEN [booked EXCEPT ![idx[t]] = cyc[t].bar] ELSE booked
  /\ unsaved' = [unsaved EXCEPT ![idx[t]] = FALSE]
  /\ Release(t)
  /\ UNCHANGED <<clock, memory, guard, sched, oper, crashes, lateFills>>

\* PERSIST_FAILED is surfaced, but the fill in memory stands.
RollBack(t) ==
  /\ WritesFail /\ pc[t] = "commit"
  /\ unsaved' = [unsaved EXCEPT ![idx[t]] = TRUE]
  /\ Release(t)
  /\ UNCHANGED <<clock, memory, guard, sched, oper, dbRisk, dbAcct, booked, crashes, lateFills>>

-----------------------------------------------------------------------------
(* The operator endpoints, restarts and time.                              *)

Obey(cmd) ==
  CASE cmd = "enable" -> EnableAutoTrading(risk)
    [] cmd = "disable" -> DisableAutoTrading(risk)
    [] cmd = "kill" -> TripKillSwitch(risk)
    [] cmd = "unkill" -> ResetKillSwitch(risk)
    [] cmd = "resetHalt" -> ResetConsecutiveLossHalt(risk)

Operate(cmd) ==
  /\ oper = NoCommand
  /\ risk' = Obey(cmd)
  /\ oper' = IF Persisting THEN [oper EXCEPT !.at = "switched"] ELSE oper
  /\ lateFills' = IF Stopped(risk') THEN lateFills ELSE 0
  /\ UNCHANGED <<clock, qty, mark, sqOff, control, sched, disk, crashes>>

\* record_risk_snapshot: the row is built once the session is open.
OperatorBuilds ==
  /\ oper.at = "switched"
  /\ oper' = [at |-> "built", row |-> risk]
  /\ UNCHANGED <<clock, memory, control, sched, disk, crashes, lateFills>>

\* A failed write of a snapshot is swallowed.
OperatorCommits ==
  /\ oper.at = "built"
  /\ \/ dbRisk' = oper.row
     \/ WritesFail /\ UNCHANGED dbRisk
  /\ oper' = NoCommand
  /\ UNCHANGED <<clock, memory, control, sched, dbAcct, booked, unsaved, crashes, lateFills>>

\* Mutant of RestoredMark: what has been acted on is forgotten.
ForgottenMark(i) == NoMark

RestoredMark(i) == dbAcct[i].mark

\* Memory is lost at any point and restored from the latest rows.
Restart ==
  /\ crashes < MaxCrashes
  /\ crashes' = crashes + 1
  /\ risk' = RestoreRiskState(dbRisk)
  /\ qty' = [i \in Indices |-> dbAcct[i].qty]
  /\ mark' = [i \in Indices |-> RestoredMark(i)]
  /\ sqOff' = [i \in Indices |-> dbAcct[i].sqOff]
  /\ lock' = [i \in Indices |-> NoThread]
  /\ guard' = NoThread
  /\ pc' = [t \in Threads |-> "idle"]
  /\ cyc' = [t \in Threads |-> NoCycle]
  /\ sched' = [at |-> clock, on |-> FALSE, todo |-> {}]
  /\ oper' = NoCommand
  /\ lateFills' = 0
  /\ idx' = [t \in Threads |-> NoIndex]
  /\ unsaved' = [i \in Indices |-> FALSE]
  /\ UNCHANGED <<clock, dbRisk, dbAcct, booked>>

\* A cycle takes at most MaxLag slots; but for the bad days, the scheduler
\* serves every slot.
Tick ==
  /\ clock < MaxClock
  /\ \A t \in Threads : cyc[t].now # NoMark => clock < cyc[t].now + MaxLag
  /\ Day(clock) \notin BadDays =>
       sched.at = clock /\ sched.todo = {} /\ pc[Scheduler] = "idle"
  /\ clock' = clock + 1
  /\ UNCHANGED <<memory, control, sched, oper, disk, crashes, lateFills>>

-----------------------------------------------------------------------------

Decide(t) ==
  pc[t] = "fetch" /\ \E latest \in Bars :
    \/ AwaitToday(t, latest)
    \/ \E pnl \in Pnls : ForceClose(t, latest, pnl)
    \/ NoSignal(t, latest)
    \/ \E bar \in Bars, pnl \in Pnls, price \in Prices : ExitSignal(t, latest, bar, pnl, price)
    \/ \E bar \in Bars : EntrySignal(t, latest, bar)

Work(t) ==
  \/ Busy(t) \/ Begin(t)
  \/ FetchFails(t) \/ Decide(t)
  \/ NoContract(t) \/ \E price \in Prices : CheckEntry(t, price)
  \/ FillEntry(t) \/ RecordEntryFill(t) \/ RecordClose(t)
  \/ NotConfigured(t) \/ BuildRows(t) \/ Commit(t) \/ RollBack(t)

Next ==
  \/ SchedulerTick
  \/ \E i \in Indices : SchedulerSkip(i)
  \/ \E t \in Threads, i \in Indices, q \in Quantities \cup {1} : Request(t, i, q)
  \/ \E t \in Threads : Work(t)
  \/ \E cmd \in Commands : Operate(cmd)
  \/ OperatorBuilds
  \/ OperatorCommits
  \/ Restart
  \/ Tick

Spec == Init /\ [][Next]_vars

-----------------------------------------------------------------------------

Account == [qty: Nat, mark: Int, sqOff: Int]
Row == [risk: RiskState, acct: Account]
Cycle ==
  [qty: Int, now: Int, bar: Int, pnl: Int, row: Row,
   kind: {"none", "entry", "exit", "squareOff", "recovery"}]

TypeOK ==
  /\ clock \in Slots
  /\ risk \in RiskState
  /\ qty \in [Indices -> Nat] /\ mark \in [Indices -> Int] /\ sqOff \in [Indices -> Int]
  /\ lock \in [Indices -> Threads \cup {NoThread}]
  /\ guard \in Threads \cup {NoThread}
  /\ pc \in [Threads -> {"idle", "wait", "fetch", "entry", "fill", "recordEntry", "recordClose",
                         "rows", "commit"}]
  /\ idx \in [Threads -> Indices \cup {NoIndex}]
  /\ cyc \in [Threads -> Cycle]
  /\ sched \in [at: Int, on: BOOLEAN, todo: SUBSET Indices]
  /\ oper \in [at: {"idle", "switched", "built"}, row: RiskState]
  /\ dbRisk \in RiskState /\ dbAcct \in [Indices -> Account]
  /\ crashes \in Nat
  /\ booked \in [Indices -> Int] /\ unsaved \in [Indices -> BOOLEAN]
  /\ lateFills \in Nat

\* max_open_positions holds over all indices although their cycles run at
\* once (web_server.py:408-415): the count is read again under the guard.
PositionLimit == OpenPositions <= MaxOpenPositions

\* The kill switch, the disable switch and the loss halt, thrown at any time,
\* let at most the one entry through, of all indices, that had already passed
\* its check inside the guard (risk_manager.check, auto_trader.py:340-378).
StopLetsOneThrough == Stopped(risk) => lateFills <= 1

\* A day whose slots were all served ends flat: after its close an open
\* position is one that a cycle of the session is closing, whatever was
\* disabled, killed, busy or run by hand, and whatever the days before left
\* open ("paper never holds overnight", auto_trader.py:193).
FlatOvernight ==
  Day(clock) \notin BadDays /\ TimeOfDay(clock) > TradingEnd =>
    \A i \in Indices : qty[i] > 0 => lock[i] # NoThread /\ InSession(cyc[lock[i]].now)

\* Between cycles the account a restart would restore is the one in memory,
\* unless the last write of the index was rolled back; only the expiry of
\* stale entries is not written down (web_server.py:588-605).
AccountsDurable ==
  \A i \in Indices : lock[i] = NoThread /\ ~unsaved[i] =>
    /\ dbAcct[i].qty = qty[i] /\ dbAcct[i].sqOff = sqOff[i]
    /\ dbAcct[i].mark <= mark[i]

\* A restart "resumes from a state that is at worst stale"
\* (auto_trader.py:403-407): the durable mark never passes the one in memory,
\* and an event whose fill was lost may be taken again, one that was not may
\* not.
AtWorstStale == \A i \in Indices : dbAcct[i].mark <= mark[i] /\ booked[i] <= dbAcct[i].mark

-----------------------------------------------------------------------------
(* Action properties.                                                      *)

\* An entry is committed at most once per bar of an index, across cycles of
\* the same index, square-offs and restarts: no order is ever duplicated by
\* the replay of a window (restore_account_state, last_event_at).
BookedOnce ==
  [][\A t \in Threads : Commit(t) /\ cyc[t].kind = "entry" => cyc[t].bar > booked[idx[t]]]_vars

-----------------------------------------------------------------------------
(* The abstract book.  A fill counts from the moment it is made, before its *)
(* bookkeeping has reached the account and the Risk Manager.                *)

Recording(i) == {t \in Threads : idx[t] = i /\ pc[t] \in {"recordEntry", "recordClose"}}

Acted(i) ==
  IF Recording(i) = {} THEN mark[i] ELSE cyc[CHOOSE t \in Recording(i) : TRUE].bar

Squared(i) ==
  IF \E t \in Recording(i) : cyc[t].kind = "squareOff" THEN Day(clock) ELSE sqOff[i]

EntriesToday ==
  (IF risk.tradeDay = Day(clock) THEN risk.entries ELSE 0)
    + Cardinality({t \in Threads : pc[t] = "recordEntry"})

Book == INSTANCE PaperBook WITH
  NoBar <- NoMark,
  held <- {i \in Indices : qty[i] > 0},
  acted <- [i \in Indices |-> Acted(i)],
  squared <- [i \in Indices |-> Squared(i)],
  entries <- EntriesToday,
  day <- Day(clock)

\* The engine implements the book: position limit, daily cap, at most one
\* action per event and no entry after a square-off, under every interleaving.
ImplementsPaperBook == Book!Spec

-----------------------------------------------------------------------------
(* Liveness: a started cycle goes on, a waiting scheduler ticks, and time    *)
(* passes.  Nothing is assumed of manual runs, operators or the bad days.   *)

Fairness ==
  /\ WF_vars(Tick)
  /\ WF_vars(SchedulerTick)
  /\ \A i \in Indices : WF_vars(SchedulerSkip(i) \/ Request(Scheduler, i, 1))
  /\ \A t \in Threads : WF_vars(Work(t))

FairSpec == Spec /\ Fairness

\* Every open position is closed, although entries are switched off, its day's
\* square-off was missed and cycles find the index busy, once a day is served.
PositionsClose == \A i \in Indices : (qty[i] > 0) ~> (qty[i] = 0)

-----------------------------------------------------------------------------
(* What the repository says of the engine and the code does not do.        *)

\* "Minimum gap between an exit and the next new entry" (risk_manager.py:62).
MinimumGap ==
  [][\A t \in Threads : FillEntry(t) =>
       /\ CooldownOver(risk, clock)
       /\ \A u \in Threads : pc[u] # "recordClose"]_vars

\* "Paper holds at most one position at a time across all indices"
\* (risk_manager.py:279), restarts included.
OneAtATime == OpenPositions <= 1

\* "... kill switch and consecutive-loss halt survive a restart"
\* (risk_manager.py:246-249): with no write failed and no cycle or endpoint
\* under way, the latest row says of the kill switch what memory says.
KillSwitchSurvives ==
  (oper = NoCommand /\ \A t \in Threads : pc[t] = "idle") =>
    dbRisk.killSwitch = risk.killSwitch

\* "While a paper position is open, account.last_event_at IS its entry bar
\* (only the entry fill advances it ...)" (auto_trader.py:415).
MarkIsEntryBar ==
  [][\A i \in Indices : qty[i] > 0 /\ mark'[i] # mark[i] =>
       \E t \in Threads : idx[t] = i /\ RecordEntryFill(t)]_vars

\* "A monotonically-increasing high-water mark" (order_manager.py:36).
MarkIncreases == [][\A i \in Indices : mark'[i] >= mark[i]]_vars
=============================================================================
