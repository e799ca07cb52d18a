------------------------- MODULE PaperEngineProofs -------------------------
(***************************************************************************)
(* Theorems about PaperEngine for any number of indices and threads.       *)
(***************************************************************************)
EXTENDS PaperEngine, RiskRulesTheorems, FiniteSetTheorems

Active == {"fetch", "entry", "fill", "recordEntry", "recordClose", "rows", "commit"}

\* A cycle under way holds its index, and an entry being made holds the guard.
Exclusive ==
  \A t \in Threads :
    /\ pc[t] # "idle" => idx[t] \in Indices
    /\ pc[t] \in Active => lock[idx[t]] = t /\ cyc[t].now \in Nat
    /\ pc[t] \in {"fill", "recordEntry"} => guard = t
    /\ pc[t] = "fill" => cyc[t].qty > 0

BasicInv == TypeOK /\ Exclusive

-----------------------------------------------------------------------------
(* Types of what the actions assign.                                       *)

\* The initial values have their types.
LEMMA Constants ==
  /\ NoRow \in Row /\ FreshAccount \in Account /\ NoCycle \in Cycle
  /\ NoCommand \in [at: {"idle", "switched", "built"}, row: RiskState]
  /\ NoCycle.now = NoMark /\ NoCycle.qty = 0
  /\ Slots \subseteq Nat /\ Bars \subseteq Nat
BY FreshRiskType, PaperEngineAssumption
DEF NoRow, FreshAccount, NoCycle, Row, Account, Cycle, NoMark, NoCommand, Slots, Bars

\* Bars are slots.
LEMMA BarsType == \A b \in Bars : b \in Int
BY PaperEngineAssumption DEF Bars, Slots

\* A closing fill reduces the position and never oversells it.
LEMMA CloseReduces ==
  ASSUME NEW q \in Int, NEW held \in Nat
  PROVE  held - CloseQuantity(q, held) \in Nat
BY DEF CloseQuantity

\* The operator commands keep the types of the risk state.
LEMMA ObeyType ==
  ASSUME NEW cmd \in AllCommands, risk \in RiskState
  PROVE  Obey(cmd) \in RiskState
<1>1. CASE cmd = "resetHalt"
  BY <1>1, ResetHaltFields DEF Obey
<1>2. CASE cmd # "resetHalt"
  BY <1>2, SwitchFields DEF Obey, AllCommands
<1> QED
  BY <1>1, <1>2

\* The expiry of stale entries leaves the mark or moves it to a stale bar
\* after it.
LEMMA ExpiredMark ==
  ASSUME NEW t, NEW latest, NEW m \in AfterExpiry(t, latest)
  PROVE  m = mark[idx[t]] \/ (m \in Bars /\ m > mark[idx[t]] /\ ~Fresh(t, m))
<1>1. CASE m \in {b \in Completed(t, latest) : b > mark[idx[t]] /\ ~Fresh(t, b)}
  <2>1. m \in Completed(t, latest) /\ m > mark[idx[t]] /\ ~Fresh(t, m)
    BY <1>1
  <2>2. m \in Bars
    BY <2>1 DEF Completed
  <2> QED
    BY <2>1, <2>2
<1> QED
  BY <1>1 DEF AfterExpiry

\* The parts of TypeOK that control the cycles.
ControlType ==
  /\ lock \in [Indices -> Threads \cup {NoThread}]
  /\ guard \in Threads \cup {NoThread}
  /\ pc \in [Threads -> {"idle", "wait", "fetch", "entry", "fill", "recordEntry", "recordClose",
                         "rows", "commit"}]
  /\ idx \in [Threads -> Indices \cup {NoIndex}]
  /\ cyc \in [Threads -> Cycle]

\* A cycle that ends leaves the index to others and the locks of others alone.
LEMMA Released ==
  ASSUME NEW t \in Threads, pc[t] \in Active, Release(t), guard' = guard, ControlType, Exclusive
  PROVE  ControlType' /\ Exclusive'
<1>1. ControlType'
  BY Constants DEF ControlType, Release
<1>2. Exclusive'
  BY Constants DEF ControlType, Exclusive, Release, Active
<1> QED
  BY <1>1, <1>2

LEMMA TypeStep ==
  ASSUME TypeOK, Exclusive, [Next]_vars
  PROVE  TypeOK' /\ Exclusive'
<1> USE DEF memory, control, disk
<1> USE PaperEngineAssumption, Constants
<1>1. CASE SchedulerTick
  BY <1>1 DEF TypeOK, Exclusive, SchedulerTick
<1>2. ASSUME NEW i \in Indices, SchedulerSkip(i)
      PROVE  TypeOK' /\ Exclusive'
  BY <1>2 DEF TypeOK, Exclusive, SchedulerSkip
<1>3. ASSUME NEW t \in Threads, NEW i \in Indices, NEW q \in Quantities \cup {1}, Request(t, i, q)
      PROVE  TypeOK' /\ Exclusive'
  <2>0. q \in Int
    OBVIOUS
  <2>1. [NoCycle EXCEPT !.qty = q] \in Cycle
    BY <2>0 DEF Cycle
  <2>2. TypeOK'
    <3>1. cyc' \in [Threads -> Cycle]
      BY <1>3, <2>1 DEF TypeOK, Request
    <3>2. sched' \in [at: Int, on: BOOLEAN, todo: SUBSET Indices]
      BY <1>3 DEF TypeOK, Request
    <3> QED
      BY <1>3, <3>1, <3>2 DEF TypeOK, Request
  <2>3. Exclusive'
    BY <1>3 DEF TypeOK, Exclusive, Request, Active
  <2> QED
    BY <2>2, <2>3
<1>4. ASSUME NEW t \in Threads, Busy(t)
      PROVE  TypeOK' /\ Exclusive'
  BY <1>4 DEF TypeOK, Exclusive, Busy, Active
<1>5. ASSUME NEW t \in Threads, Begin(t)
      PROVE  TypeOK' /\ Exclusive'
  <2>0. clock \in Int /\ clock \in Nat
    BY DEF TypeOK
  <2>1. [cyc[t] EXCEPT !.now = clock] \in Cycle /\ [cyc[t] EXCEPT !.now = clock].now = clock
    BY <2>0 DEF TypeOK, Cycle
  <2>2. cyc' = [cyc EXCEPT ![t] = [cyc[t] EXCEPT !.now = clock]]
    BY <1>5 DEF Begin
  <2>3. TypeOK'
    <3>1. cyc' \in [Threads -> Cycle]
      BY <2>1, <2>2 DEF TypeOK
    <3>2. lock' \in [Indices -> Threads \cup {NoThread}] /\ pc' = [pc EXCEPT ![t] = "fetch"]
      BY <1>5 DEF TypeOK, Begin
    <3> QED
      BY <1>5, <3>1, <3>2 DEF TypeOK, Begin
  <2>4. Exclusive'
    <3>1. idx[t] \in Indices /\ lock[idx[t]] = NoThread
      BY <1>5 DEF Begin, LockFree, Exclusive
    <3>2. \A u \in Threads \ {t} : cyc'[u] = cyc[u] /\ pc'[u] = pc[u]
      BY <1>5, <2>2 DEF Begin, TypeOK
    <3>3. cyc'[t].now \in Nat /\ pc'[t] = "fetch" /\ lock'[idx[t]] = t
      BY <1>5, <2>0, <2>1, <2>2, <3>1 DEF Begin, TypeOK
    <3>4. \A u \in Threads \ {t} : pc[u] \in Active => lock'[idx[u]] = u
      BY <1>5, <3>1 DEF Begin, TypeOK, Exclusive, Active
    <3> QED
      BY <1>5, <3>1, <3>2, <3>3, <3>4 DEF Begin, Exclusive, Active
  <2> QED
    BY <2>3, <2>4
<1>6. ASSUME NEW t \in Threads, FetchFails(t)
      PROVE  TypeOK' /\ Exclusive'
  BY <1>6, Released DEF TypeOK, ControlType, FetchFails, Active
<1>7. ASSUME NEW t \in Threads, NEW latest \in Bars, AwaitToday(t, latest)
      PROVE  TypeOK' /\ Exclusive'
  BY <1>7, Released DEF TypeOK, ControlType, AwaitToday, Fetched, Active
<1>8. ASSUME NEW t \in Threads, idx[t] \in Indices, NEW q \in Int, NEW bar \in Int, NEW pnl \in Int,
             NEW kind \in {"exit", "squareOff", "recovery"}, CloseOut(t, q, bar, pnl, kind)
      PROVE  /\ qty' \in [Indices -> Nat] /\ cyc' \in [Threads -> Cycle]
             /\ \A u \in Threads : cyc'[u].now = cyc[u].now /\ cyc'[u].qty = cyc[u].qty
  <2>1. qty[idx[t]] - CloseQuantity(q, qty[idx[t]]) \in Nat
    BY <1>8, CloseReduces DEF TypeOK
  <2>2. qty' \in [Indices -> Nat]
    BY <1>8, <2>1 DEF TypeOK, CloseOut
  <2> DEFINE c == [cyc[t] EXCEPT !.bar = bar, !.pnl = pnl, !.kind = kind]
  <2>3. c \in Cycle /\ c.now = cyc[t].now /\ c.qty = cyc[t].qty
    BY <1>8 DEF TypeOK, Cycle
  <2>4. cyc' = [cyc EXCEPT ![t] = c]
    BY <1>8 DEF CloseOut, TypeOK
  <2> HIDE DEF c
  <2> QED
    BY <2>2, <2>3, <2>4 DEF TypeOK
<1>9. ASSUME NEW t \in Threads, NEW latest \in Bars, NEW pnl \in Pnls, ForceClose(t, latest, pnl)
      PROVE  TypeOK' /\ Exclusive'
  <2>1. idx[t] \in Indices /\ qty[idx[t]] \in Int /\ latest \in Int /\ pnl \in Int
    BY <1>9 DEF ForceClose, Fetched, Exclusive, TypeOK
  <2>2. PICK kind \in {"exit", "squareOff", "recovery"} : CloseOut(t, qty[idx[t]], latest, pnl, kind)
    BY <1>9 DEF ForceClose
  <2>3. /\ qty' \in [Indices -> Nat] /\ cyc' \in [Threads -> Cycle]
        /\ \A u \in Threads : cyc'[u].now = cyc[u].now /\ cyc'[u].qty = cyc[u].qty
    BY <1>8, <2>1, <2>2
  <2>4. TypeOK'
    BY <1>9, <2>2, <2>3 DEF TypeOK, ForceClose, CloseOut
  <2>5. Exclusive'
    BY <1>9, <2>2, <2>3 DEF TypeOK, Exclusive, Active, ForceClose, Fetched, CloseOut
  <2> QED
    BY <2>4, <2>5
<1>10. ASSUME NEW t \in Threads, NEW latest \in Bars, NoSignal(t, latest)
       PROVE  TypeOK' /\ Exclusive'
  <2>1. pc[t] \in Active
    BY <1>10 DEF NoSignal, Strategy, Fetched, Active
  <2>0. idx[t] \in Indices
    BY <2>1 DEF Exclusive, Active
  <2>2. ControlType' /\ Exclusive'
    BY <1>10, <2>1, Released DEF NoSignal, TypeOK, ControlType
  <2>3. mark' \in [Indices -> Int]
    <3>1. PICK m \in {mark[idx[t]]} \cup AfterExpiry(t, latest) : mark' = [mark EXCEPT ![idx[t]] = m]
      BY <1>10 DEF NoSignal
    <3>2. m = mark[idx[t]] \/ m \in Bars
      BY <3>1, ExpiredMark
    <3>3. m \in Int
      BY <2>0, <3>2 DEF TypeOK
    <3> QED
      BY <2>0, <3>1, <3>3 DEF TypeOK
  <2> QED
    BY <1>10, <2>2, <2>3 DEF NoSignal, TypeOK, ControlType
<1>11. ASSUME NEW t \in Threads, NEW latest \in Bars, NEW bar \in Bars, NEW pnl \in Pnls,
              NEW price \in Prices, ExitSignal(t, latest, bar, pnl, price)
       PROVE  TypeOK' /\ Exclusive'
  <2>1. /\ pc[t] = "fetch" /\ pc[t] \in Active
        /\ idx[t] \in Indices /\ Now(t) \in Nat /\ cyc[t].qty \in Int /\ bar \in Int /\ pnl \in Int
    BY <1>11 DEF ExitSignal, Strategy, Fetched, Exclusive, TypeOK, Active, Now, Cycle
  <2>2. risk' \in RiskState
    BY <1>11, <2>1, ResetFields DEF ExitSignal, TypeOK
  <2>3. CASE Release(t) /\ UNCHANGED <<qty, mark, sqOff>>
    <3>1. ControlType' /\ Exclusive'
      BY <1>11, <2>1, <2>3, Released DEF ExitSignal, TypeOK, ControlType
    <3> QED
      BY <1>11, <2>2, <2>3, <3>1 DEF ExitSignal, TypeOK, ControlType
  <2>4. CASE CloseOut(t, cyc[t].qty, bar, pnl, "exit")
    <3>1. /\ qty' \in [Indices -> Nat] /\ cyc' \in [Threads -> Cycle]
          /\ \A u \in Threads : cyc'[u].now = cyc[u].now /\ cyc'[u].qty = cyc[u].qty
      BY <1>8, <2>1, <2>4
    <3>2. TypeOK'
      BY <1>11, <2>2, <2>4, <3>1 DEF TypeOK, ExitSignal, CloseOut
    <3>3. Exclusive'
      BY <1>11, <2>1, <2>4, <3>1 DEF TypeOK, Exclusive, Active, ExitSignal, CloseOut
    <3> QED
      BY <3>2, <3>3
  <2> QED
    BY <1>11, <2>3, <2>4 DEF ExitSignal
<1>12. ASSUME NEW t \in Threads, NEW latest \in Bars, NEW bar \in Bars, EntrySignal(t, latest, bar)
       PROVE  TypeOK' /\ Exclusive'
  <2>1. pc[t] = "fetch" /\ pc[t] \in Active /\ idx[t] \in Indices /\ bar \in Int
    BY <1>12 DEF EntrySignal, Strategy, Fetched, Active, Exclusive
  <2>2. mark' \in [Indices -> Int]
    <3>1. PICK m \in AfterExpiry(t, latest) : mark' = [mark EXCEPT ![idx[t]] = m]
      BY <1>12 DEF EntrySignal
    <3>2. m = mark[idx[t]] \/ m \in Bars
      BY <3>1, ExpiredMark
    <3>3. m \in Int
      <4>1. mark[idx[t]] \in Int
        BY <2>1 DEF TypeOK
      <4>2. m \in Bars => m \in Int
        BY BarsType
      <4> QED
        BY <3>2, <4>1, <4>2
    <3> QED
      BY <2>1, <3>1, <3>3 DEF TypeOK
  <2>3. CASE Release(t)
    <3>1. ControlType' /\ Exclusive'
      BY <1>12, <2>1, <2>3, Released DEF EntrySignal, TypeOK, ControlType
    <3> QED
      BY <1>12, <2>2, <2>3, <3>1 DEF EntrySignal, TypeOK, ControlType
  <2>4. CASE /\ pc' = [pc EXCEPT ![t] = "entry"]
             /\ cyc' = [cyc EXCEPT ![t].bar = bar, ![t].kind = "entry"]
             /\ UNCHANGED <<lock, idx>>
    <3> DEFINE c == [cyc[t] EXCEPT !.bar = bar, !.kind = "entry"]
    <3>1. c \in Cycle /\ c.now = cyc[t].now /\ c.qty = cyc[t].qty
      BY <2>1 DEF TypeOK, Cycle
    <3>2. cyc' = [cyc EXCEPT ![t] = c]
      BY <2>4 DEF TypeOK
    <3> HIDE DEF c
    <3>3. /\ cyc' \in [Threads -> Cycle]
          /\ \A u \in Threads : cyc'[u].now = cyc[u].now /\ cyc'[u].qty = cyc[u].qty
      BY <3>1, <3>2 DEF TypeOK
    <3>4. TypeOK'
      BY <1>12, <2>2, <2>4, <3>3 DEF TypeOK, EntrySignal
    <3>5. Exclusive'
      BY <1>12, <2>1, <2>4, <3>3 DEF TypeOK, Exclusive, Active, EntrySignal
    <3> QED
      BY <3>4, <3>5
  <2> QED
    BY <1>12, <2>3, <2>4 DEF EntrySignal
<1>13. ASSUME NEW t \in Threads, NoContract(t)
       PROVE  TypeOK' /\ Exclusive'
  BY <1>13, Released DEF TypeOK, ControlType, NoContract, Active
<1>14. ASSUME NEW t \in Threads, NEW price \in Prices, CheckEntry(t, price)
       PROVE  TypeOK' /\ Exclusive'
  <2>1. /\ pc[t] = "entry" /\ pc[t] \in Active /\ guard = NoThread
        /\ idx[t] \in Indices /\ Now(t) \in Nat
    BY <1>14 DEF CheckEntry, GuardFree, Exclusive, Active, Now
  <2>2. risk' \in RiskState
    BY <1>14, <2>1, ResetFields DEF CheckEntry, TypeOK
  <2>3. CASE Release(t) /\ UNCHANGED guard
    <3>1. ControlType' /\ Exclusive'
      BY <1>14, <2>1, <2>3, Released DEF TypeOK, ControlType
    <3> QED
      BY <1>14, <2>2, <2>3, <3>1 DEF CheckEntry, TypeOK, ControlType
  <2>4. CASE /\ CheckPasses(risk, OrderOf(t, "BUY", price), Now(t))
             /\ guard' = t /\ pc' = [pc EXCEPT ![t] = "fill"] /\ UNCHANGED <<lock, idx, cyc>>
    <3>1. cyc[t].qty > 0
      BY <2>4 DEF CheckPasses, SizeGates, OrderOf
    <3>2. TypeOK'
      BY <1>14, <2>2, <2>4 DEF CheckEntry, TypeOK
    <3>3. Exclusive'
      BY <1>14, <2>1, <2>4, <3>1 DEF TypeOK, Exclusive, Active
    <3> QED
      BY <3>2, <3>3
  <2> QED
    BY <1>14, <2>3, <2>4 DEF CheckEntry
<1>15. ASSUME NEW t \in Threads, FillEntry(t)
       PROVE  TypeOK' /\ Exclusive'
  <2>1. idx[t] \in Indices /\ qty[idx[t]] + cyc[t].qty \in Nat
    BY <1>15 DEF FillEntry, Exclusive, Active, TypeOK, Cycle
  <2>2. qty' \in [Indices -> Nat] /\ lateFills' \in Nat
    BY <1>15, <2>1 DEF FillEntry, TypeOK
  <2>3. TypeOK'
    BY <1>15, <2>2 DEF FillEntry, TypeOK
  <2>4. Exclusive'
    BY <1>15 DEF FillEntry, TypeOK, Exclusive, Active
  <2> QED
    BY <2>3, <2>4
<1>16. ASSUME NEW t \in Threads, RecordEntryFill(t)
       PROVE  TypeOK' /\ Exclusive'
  <2>1. idx[t] \in Indices /\ Now(t) \in Nat /\ cyc[t].bar \in Int
    BY <1>16 DEF RecordEntryFill, Exclusive, Active, TypeOK, Now, Cycle
  <2>2. RecordTrade(risk, 0, Now(t), FALSE) \in RiskState
    <3>1. risk \in RiskState /\ 0 \in Int /\ FALSE \in BOOLEAN
      BY DEF TypeOK
    <3> QED
      BY <2>1, <3>1, RecordTradeFields, Zenon
  <2>3. risk' \in RiskState
    BY <1>16, <2>1, <2>2, RecordEntryFields DEF RecordEntryFill
  <2>4. TypeOK'
    BY <1>16, <2>1, <2>3 DEF RecordEntryFill, TypeOK
  <2>5. Exclusive'
    BY <1>16 DEF RecordEntryFill, TypeOK, Exclusive, Active
  <2> QED
    BY <2>4, <2>5
<1>17. ASSUME NEW t \in Threads, RecordClose(t)
       PROVE  TypeOK' /\ Exclusive'
  <2>1. idx[t] \in Indices /\ Now(t) \in Nat /\ cyc[t].bar \in Int /\ cyc[t].pnl \in Int
    BY <1>17 DEF RecordClose, Exclusive, Active, TypeOK, Now, Cycle
  <2>2. risk' \in RiskState
    BY <1>17, <2>1, RecordTradeFields DEF RecordClose, TypeOK
  <2>3. sqOff' \in [Indices -> Int]
    BY <1>17, <2>1, DayMonotone DEF RecordClose, TypeOK
  <2>4. TypeOK'
    BY <1>17, <2>1, <2>2, <2>3 DEF RecordClose, TypeOK
  <2>5. Exclusive'
    BY <1>17 DEF RecordClose, TypeOK, Exclusive, Active
  <2> QED
    BY <2>4, <2>5
<1>18. ASSUME NEW t \in Threads, NotConfigured(t)
       PROVE  TypeOK' /\ Exclusive'
  BY <1>18, Released DEF TypeOK, ControlType, NotConfigured, Active
<1>19. ASSUME NEW t \in Threads, BuildRows(t)
       PROVE  TypeOK' /\ Exclusive'
  <2> DEFINE row == [risk |-> risk, acct |-> [qty |-> qty[idx[t]], mark |-> mark[idx[t]],
                                              sqOff |-> sqOff[idx[t]]]]
             c == [cyc[t] EXCEPT !.row = row]
  <2>1. row \in Row
    BY <1>19 DEF BuildRows, TypeOK, Exclusive, Active, Row, Account
  <2>2. cyc' = [cyc EXCEPT ![t] = c]
    BY <1>19 DEF BuildRows, TypeOK
  <2> HIDE DEF row
  <2>3. c \in Cycle /\ c.now = cyc[t].now /\ c.qty = cyc[t].qty
    BY <2>1 DEF TypeOK, Cycle
  <2> HIDE DEF c
  <2>4. /\ cyc' \in [Threads -> Cycle]
        /\ \A u \in Threads : cyc'[u].now = cyc[u].now /\ cyc'[u].qty = cyc[u].qty
    BY <2>2, <2>3 DEF TypeOK
  <2>5. TypeOK'
    BY <1>19, <2>4 DEF TypeOK, BuildRows
  <2>6. Exclusive'
    BY <1>19, <2>4 DEF TypeOK, Exclusive, Active, BuildRows
  <2> QED
    BY <2>5, <2>6
<1>20. ASSUME NEW t \in Threads, Commit(t)
       PROVE  TypeOK' /\ Exclusive'
  <2>1. ControlType' /\ Exclusive'
    BY <1>20, Released DEF Commit, TypeOK, ControlType, Active
  <2>2. cyc[t].row.risk \in RiskState /\ cyc[t].row.acct \in Account /\ cyc[t].bar \in Int
    BY DEF TypeOK, Cycle, Row
  <2>3. /\ dbRisk' \in RiskState /\ dbAcct' \in [Indices -> Account]
        /\ booked' \in [Indices -> Int] /\ unsaved' \in [Indices -> BOOLEAN]
    BY <1>20, <2>2 DEF Commit, AccountRows, TypeOK
  <2> QED
    BY <1>20, <2>1, <2>3 DEF Commit, TypeOK, ControlType
<1>21. ASSUME NEW t \in Threads, RollBack(t)
       PROVE  TypeOK' /\ Exclusive'
  <2>1. ControlType' /\ Exclusive'
    BY <1>21, Released DEF RollBack, TypeOK, ControlType, Active
  <2> QED
    BY <1>21, <2>1 DEF RollBack, TypeOK, ControlType
<1>22. ASSUME NEW cmd \in Commands, Operate(cmd)
       PROVE  TypeOK' /\ Exclusive'
  <2>1. risk' \in RiskState
    BY <1>22, ObeyType DEF Operate, TypeOK
  <2>2. oper' \in [at: {"idle", "switched", "built"}, row: RiskState] /\ lateFills' \in Nat
    BY <1>22 DEF Operate, TypeOK
  <2>3. Exclusive'
    BY <1>22 DEF Operate, Exclusive
  <2> QED
    BY <1>22, <2>1, <2>2, <2>3 DEF Operate, TypeOK
<1>23. CASE OperatorBuilds
  BY <1>23 DEF OperatorBuilds, TypeOK, Exclusive
<1>24. CASE OperatorCommits
  <2>1. oper.row \in RiskState
    BY DEF TypeOK
  <2>2. Exclusive'
    BY <1>24 DEF OperatorCommits, Exclusive
  <2> QED
    BY <1>24, <2>1, <2>2 DEF OperatorCommits, TypeOK
<1>25. CASE Restart
  <2>1. RestoreRiskState(dbRisk) \in RiskState
    BY RestoreFields DEF TypeOK
  <2>2. \A i \in Indices : dbAcct[i].qty \in Nat /\ dbAcct[i].mark \in Int /\ dbAcct[i].sqOff \in Int
    BY DEF TypeOK, Account
  <2>3. /\ qty' \in [Indices -> Nat] /\ mark' \in [Indices -> Int] /\ sqOff' \in [Indices -> Int]
        /\ sched' \in [at: Int, on: BOOLEAN, todo: SUBSET Indices]
    BY <1>25, <2>2 DEF Restart, RestoredMark, TypeOK
  <2>4. Exclusive'
    BY <1>25 DEF Restart, Exclusive, Active
  <2> QED
    BY <1>25, <2>1, <2>3, <2>4 DEF Restart, TypeOK
<1>26. CASE Tick
  BY <1>26 DEF Tick, TypeOK, Exclusive, Slots
<1>27. CASE UNCHANGED vars
  BY <1>27 DEF vars, TypeOK, Exclusive
<1>28. ASSUME NEW t \in Threads, Decide(t)
       PROVE  TypeOK' /\ Exclusive'
  BY <1>7, <1>9, <1>10, <1>11, <1>12, <1>28 DEF Decide
<1>29. ASSUME NEW t \in Threads, Work(t)
       PROVE  TypeOK' /\ Exclusive'
  BY <1>4, <1>5, <1>6, <1>13, <1>14, <1>15, <1>16, <1>17, <1>18, <1>19, <1>20, <1>21, <1>28, <1>29
  DEF Work
<1> QED
  BY <1>1, <1>2, <1>3, <1>22, <1>23, <1>24, <1>25, <1>26, <1>27, <1>29 DEF Next

LEMMA TypeInit == Init => TypeOK /\ Exclusive
<1> SUFFICES ASSUME Init
             PROVE  TypeOK /\ Exclusive
  OBVIOUS
<1> USE Constants, PaperEngineAssumption
<1>1. clock \in Slots /\ sched \in [at: Int, on: BOOLEAN, todo: SUBSET Indices]
  BY DEF Init, Slots, NoMark
<1>2. /\ mark \in [Indices -> Int] /\ sqOff \in [Indices -> Int] /\ booked \in [Indices -> Int]
      /\ NoMark \in Int
  BY DEF Init, NoMark
<1>3. TypeOK
  BY <1>1, <1>2, FreshRiskType DEF Init, TypeOK
<1>4. Exclusive
  BY DEF Init, Exclusive, Active
<1> QED
  BY <1>3, <1>4

\* Under every interleaving of cycles, operators, failed writes and restarts
\* the engine's state has its types (run_cycle, record_paper_cycle, restore).
THEOREM EngineTyped == Spec => [](TypeOK /\ Exclusive)
<1>1. TypeOK /\ Exclusive /\ [Next]_vars => TypeOK' /\ Exclusive'
  BY TypeStep
<1> QED
  BY <1>1, TypeInit, PTL DEF Spec

-----------------------------------------------------------------------------
(* The position limit and the switches.                                    *)

\* A step that makes no entry: no cycle passes its check or opens a position,
\* and new risk that was stopped stays stopped.
NoNewRisk ==
  /\ \A u \in Threads : pc'[u] = "fill" => pc[u] = "fill"
  /\ \A i \in Indices : qty'[i] > 0 => qty[i] > 0
  /\ Stopped(risk) => Stopped(risk')
  /\ lateFills' = lateFills

Passed(t) ==
  \E price \in Prices :
    CheckEntry(t, price) /\ CheckPasses(risk, OrderOf(t, "BUY", price), Now(t))

\* A closing fill opens nothing.
LEMMA CloseOpensNothing ==
  ASSUME NEW t \in Threads, idx[t] \in Indices, Held(t), TypeOK,
         NEW q \in Int, NEW bar, NEW pnl, NEW kind, CloseOut(t, q, bar, pnl, kind)
  PROVE  /\ \A u \in Threads : pc'[u] = "fill" => pc[u] = "fill"
         /\ \A i \in Indices : qty'[i] > 0 => qty[i] > 0
<1>1. \A u \in Threads : pc'[u] = "fill" => pc[u] = "fill"
  BY DEF CloseOut, TypeOK
<1>3. \A i \in Indices : qty'[i] > 0 => qty[i] > 0
  BY DEF Held, CloseOut, TypeOK
<1> QED
  BY <1>1, <1>3

\* A cycle that ends makes no entry.
LEMMA ReleaseMakesNone ==
  ASSUME NEW t \in Threads, Release(t), TypeOK
  PROVE  \A u \in Threads : pc'[u] = "fill" => pc[u] = "fill"
BY DEF Release, TypeOK

\* The Risk Manager's bookkeeping never lifts a stop.
LEMMA StopsStay ==
  ASSUME risk \in RiskState, NEW now \in Nat
  PROVE  /\ Stopped(risk) => Stopped(ResetIfNewDay(risk, now))
         /\ \A pnl \in Int, isExit \in BOOLEAN :
              Stopped(risk) => Stopped(RecordTrade(risk, pnl, now, isExit))
         /\ Stopped(risk) => Stopped(RecordEntry(RecordTrade(risk, 0, now, FALSE), now))
<1>1. Stopped(risk) => Stopped(ResetIfNewDay(risk, now))
  BY ResetFields DEF Stopped
<1>2. ASSUME NEW pnl \in Int, NEW isExit \in BOOLEAN, Stopped(risk)
      PROVE  Stopped(RecordTrade(risk, pnl, now, isExit))
  <2> DEFINE n == RecordTrade(risk, pnl, now, isExit)
  <2>1. n.enabled = risk.enabled /\ n.killSwitch = risk.killSwitch
    BY RecordTradeFields
  <2>2. n.halt = (risk.halt \/ (isExit /\ pnl < 0 /\ LossStreak(risk, pnl) >= MaxConsecutiveLosses))
    BY RecordTradeFields, Zenon
  <2> QED
    BY <1>2, <2>1, <2>2 DEF Stopped
<1>3. RecordTrade(risk, 0, now, FALSE) \in RiskState
  <2>1. 0 \in Int /\ FALSE \in BOOLEAN
    OBVIOUS
  <2> QED
    BY <2>1, RecordTradeFields, Zenon
<1>4. ASSUME Stopped(risk)
      PROVE  Stopped(RecordEntry(RecordTrade(risk, 0, now, FALSE), now))
  <2> DEFINE d == RecordTrade(risk, 0, now, FALSE)
  <2>1. Stopped(d)
    <3>1. 0 \in Int /\ FALSE \in BOOLEAN
      OBVIOUS
    <3> QED
      BY <1>2, <1>4, <3>1, Zenon
  <2> HIDE DEF d
  <2>2. LET n == RecordEntry(d, now)
        IN  n.enabled = d.enabled /\ n.killSwitch = d.killSwitch /\ n.halt = d.halt
    BY <1>3, RecordEntryFields DEF d
  <2> QED
    BY <2>1, <2>2 DEF Stopped, d
<1> QED
  BY <1>1, <1>2, <1>4

\* Every step makes no entry, or is one of the four that matter to a limit.
LEMMA Steps ==
  ASSUME BasicInv, [Next]_vars
  PROVE  \/ NoNewRisk
         \/ \E t \in Threads : Passed(t) \/ FillEntry(t)
         \/ \E cmd \in Commands : Operate(cmd)
         \/ Restart
<1> USE DEF memory, control, disk
<1>a. TypeOK /\ Exclusive /\ risk \in RiskState
  BY DEF BasicInv, TypeOK
<1>1. CASE SchedulerTick
  BY <1>1 DEF SchedulerTick, NoNewRisk
<1>2. ASSUME NEW i \in Indices, SchedulerSkip(i)
      PROVE  NoNewRisk
  BY <1>2 DEF SchedulerSkip, NoNewRisk
<1>3. ASSUME NEW t \in Threads, NEW i \in Indices, NEW q \in Quantities \cup {1}, Request(t, i, q)
      PROVE  NoNewRisk
  BY <1>3, <1>a DEF Request, NoNewRisk, TypeOK
<1>4. ASSUME NEW t \in Threads, Busy(t) \/ Begin(t)
      PROVE  NoNewRisk
  BY <1>4, <1>a DEF Busy, Begin, NoNewRisk, TypeOK
<1>5. ASSUME NEW t \in Threads, FetchFails(t) \/ NoContract(t) \/ NotConfigured(t) \/ Commit(t) \/ RollBack(t)
      PROVE  NoNewRisk
  BY <1>5, <1>a, ReleaseMakesNone DEF FetchFails, NoContract, NotConfigured, Commit, RollBack, NoNewRisk
<1>6. ASSUME NEW t \in Threads, NEW latest \in Bars, AwaitToday(t, latest) \/ NoSignal(t, latest)
      PROVE  NoNewRisk
  BY <1>6, <1>a, ReleaseMakesNone DEF AwaitToday, NoSignal, NoNewRisk
<1>7. ASSUME NEW t \in Threads, NEW latest \in Bars, NEW pnl \in Pnls, ForceClose(t, latest, pnl)
      PROVE  NoNewRisk
  <2>1. idx[t] \in Indices /\ qty[idx[t]] \in Int /\ Held(t)
    BY <1>7, <1>a DEF ForceClose, Fetched, MissedSquareOff, SquareOffDue, Exclusive, TypeOK
  <2>2. PICK kind : CloseOut(t, qty[idx[t]], latest, pnl, kind)
    BY <1>7 DEF ForceClose
  <2> QED
    BY <1>7, <1>a, <2>1, <2>2, CloseOpensNothing DEF ForceClose, NoNewRisk
<1>8. ASSUME NEW t \in Threads, NEW latest \in Bars, NEW bar \in Bars, NEW pnl \in Pnls,
             NEW price \in Prices, ExitSignal(t, latest, bar, pnl, price)
      PROVE  NoNewRisk
  <2>1. idx[t] \in Indices /\ cyc[t].qty \in Int /\ Now(t) \in Nat /\ Held(t)
    BY <1>8, <1>a DEF ExitSignal, Strategy, Fetched, Exclusive, Active, TypeOK, Now, Cycle
  <2>2. Stopped(risk) => Stopped(risk')
    BY <1>8, <1>a, <2>1, StopsStay DEF ExitSignal
  <2>3. \/ CloseOut(t, cyc[t].qty, bar, pnl, "exit")
        \/ Release(t) /\ UNCHANGED <<qty, mark, sqOff>>
    BY <1>8 DEF ExitSignal
  <2>4. /\ \A u \in Threads : pc'[u] = "fill" => pc[u] = "fill"
        /\ \A i \in Indices : qty'[i] > 0 => qty[i] > 0
    BY <1>a, <2>1, <2>3, CloseOpensNothing, ReleaseMakesNone
  <2> QED
    BY <1>8, <2>2, <2>4 DEF ExitSignal, NoNewRisk
<1>9. ASSUME NEW t \in Threads, NEW latest \in Bars, NEW bar \in Bars, EntrySignal(t, latest, bar)
      PROVE  NoNewRisk
  BY <1>9, <1>a, ReleaseMakesNone DEF EntrySignal, NoNewRisk, TypeOK
<1>10. ASSUME NEW t \in Threads, NEW price \in Prices, CheckEntry(t, price)
       PROVE  NoNewRisk \/ Passed(t)
  <2>1. Now(t) \in Nat
    BY <1>10, <1>a DEF CheckEntry, Exclusive, Active, Now
  <2>2. Stopped(risk) => Stopped(risk')
    BY <1>10, <1>a, <2>1, StopsStay DEF CheckEntry
  <2>3. CASE ~CheckPasses(risk, OrderOf(t, "BUY", price), Now(t))
    BY <1>10, <1>a, <2>2, <2>3, ReleaseMakesNone DEF CheckEntry, NoNewRisk
  <2> QED
    BY <1>10, <2>3 DEF Passed
<1>11. ASSUME NEW t \in Threads, RecordEntryFill(t)
       PROVE  NoNewRisk
  <2>1. Now(t) \in Nat
    BY <1>11, <1>a DEF RecordEntryFill, Exclusive, Active, Now
  <2>2. Stopped(risk) => Stopped(risk')
    BY <1>11, <1>a, <2>1, StopsStay DEF RecordEntryFill
  <2> QED
    BY <1>11, <1>a, <2>2 DEF RecordEntryFill, NoNewRisk, TypeOK
<1>12. ASSUME NEW t \in Threads, RecordClose(t)
       PROVE  NoNewRisk
  <2>1. Now(t) \in Nat /\ cyc[t].pnl \in Int
    BY <1>12, <1>a DEF RecordClose, Exclusive, Active, Now, TypeOK, Cycle
  <2>2. Stopped(risk) => Stopped(risk')
    BY <1>12, <1>a, <2>1, StopsStay DEF RecordClose
  <2> QED
    BY <1>12, <1>a, <2>2 DEF RecordClose, NoNewRisk, TypeOK
<1>13. ASSUME NEW t \in Threads, BuildRows(t)
       PROVE  NoNewRisk
  BY <1>13, <1>a DEF BuildRows, NoNewRisk, TypeOK
<1>14. CASE OperatorBuilds \/ OperatorCommits \/ Tick
  BY <1>14 DEF OperatorBuilds, OperatorCommits, Tick, NoNewRisk
<1>15. CASE UNCHANGED vars
  BY <1>15 DEF vars, NoNewRisk
<1>16. ASSUME NEW t \in Threads, Work(t)
       PROVE  NoNewRisk \/ Passed(t) \/ FillEntry(t)
  <2>1. CASE Decide(t)
    BY <2>1, <1>6, <1>7, <1>8, <1>9 DEF Decide
  <2> QED
    BY <1>16, <2>1, <1>4, <1>5, <1>10, <1>11, <1>12, <1>13 DEF Work
<1> QED
  BY <1>1, <1>2, <1>3, <1>14, <1>15, <1>16 DEF Next

\* Positions are counted by a finite set of indices.
LEMMA PositionsCounted ==
  ASSUME TypeOK, BasicInv'
  PROVE  /\ OpenPositions \in Nat /\ OpenPositions' \in Nat
         /\ (\A i \in Indices : qty'[i] > 0 => qty[i] > 0) => OpenPositions' <= OpenPositions
         /\ \A j \in Indices :
              (\A i \in Indices \ {j} : qty'[i] = qty[i]) => OpenPositions' <= OpenPositions + 1
<1> DEFINE H == {i \in Indices : qty[i] > 0}
           G == {i \in Indices : qty'[i] > 0}
<1>1. IsFiniteSet(H) /\ IsFiniteSet(G)
  BY PaperEngineAssumption, FS_Subset
<1>2. OpenPositions = Cardinality(H) /\ OpenPositions' = Cardinality(G)
  BY DEF OpenPositions
<1>3. Cardinality(H) \in Nat /\ Cardinality(G) \in Nat
  BY <1>1, FS_CardinalityType
<1>4. ASSUME \A i \in Indices : qty'[i] > 0 => qty[i] > 0
      PROVE  Cardinality(G) <= Cardinality(H)
  <2>1. G \in SUBSET H
    BY <1>4
  <2> QED
    BY <1>1, <2>1, FS_Subset
<1>5. ASSUME NEW j \in Indices, \A i \in Indices \ {j} : qty'[i] = qty[i]
      PROVE  Cardinality(G) <= Cardinality(H) + 1
  <2>1. G \in SUBSET (H \cup {j})
    BY <1>5
  <2> HIDE DEF G, H
  <2>2. /\ IsFiniteSet(H \cup {j})
        /\ Cardinality(H \cup {j}) = IF j \in H THEN Cardinality(H) ELSE Cardinality(H) + 1
    BY <1>1, FS_AddElement
  <2>3. Cardinality(G) <= Cardinality(H \cup {j})
    BY <2>1, <2>2, FS_Subset
  <2> QED
    BY <1>3, <2>2, <2>3
<1> HIDE DEF G, H
<1> QED
  BY <1>2, <1>3, <1>4, <1>5

\* While the guard is held a position may still be opened.
LimitInv ==
  /\ PositionLimit
  /\ \A t \in Threads : pc[t] = "fill" => OpenPositions < MaxOpenPositions

\* The guard makes the check and the fill of an entry one step for all others.
LEMMA LimitStep ==
  ASSUME MaxCrashes = 0, BasicInv, BasicInv', LimitInv, [Next]_vars
  PROVE  LimitInv'
<1>0. TypeOK /\ Exclusive /\ OpenPositions \in Nat /\ OpenPositions' \in Nat /\ MaxOpenPositions \in Nat
  BY PositionsCounted, RiskLimitsAssumption DEF BasicInv
<1>1. CASE NoNewRisk
  <2>1. OpenPositions' <= OpenPositions
    BY <1>0, <1>1, PositionsCounted DEF NoNewRisk
  <2> QED
    BY <1>0, <1>1, <2>1 DEF LimitInv, PositionLimit, NoNewRisk
<1>2. ASSUME NEW t \in Threads, Passed(t)
      PROVE  LimitInv'
  <2>1. PICK price \in Prices :
          CheckEntry(t, price) /\ CheckPasses(risk, OrderOf(t, "BUY", price), Now(t))
    BY <1>2 DEF Passed
  <2>2. Now(t) \in Nat
    BY <1>0, <2>1 DEF CheckEntry, Exclusive, Active, Now
  <2>3. /\ OrderOf(t, "BUY", price).action = "BUY" /\ OrderOf(t, "BUY", price).capNewEntries = TRUE
        /\ OrderOf(t, "BUY", price).open = OpenPositions
    BY DEF OrderOf
  <2>4. OpenPositions < MaxOpenPositions
    BY <1>0, <2>1, <2>2, <2>3, BuyPassed DEF TypeOK
  <2>5. OpenPositions' = OpenPositions
    BY <2>1 DEF CheckEntry, OpenPositions
  <2> QED
    BY <1>0, <2>4, <2>5 DEF LimitInv, PositionLimit
<1>3. ASSUME NEW t \in Threads, FillEntry(t)
      PROVE  LimitInv'
  <2>1. idx[t] \in Indices /\ OpenPositions < MaxOpenPositions
    BY <1>0, <1>3 DEF FillEntry, Exclusive, LimitInv
  <2>2. \A i \in Indices \ {idx[t]} : qty'[i] = qty[i]
    BY <1>0, <1>3 DEF FillEntry, TypeOK
  <2>3. OpenPositions' <= OpenPositions + 1
    BY <1>0, <2>1, <2>2, PositionsCounted
  <2>4. \A u \in Threads : pc'[u] # "fill"
    BY <1>0, <1>3 DEF FillEntry, Exclusive, TypeOK
  <2> QED
    BY <1>0, <2>1, <2>3, <2>4 DEF LimitInv, PositionLimit
<1>4. ASSUME NEW cmd \in Commands, Operate(cmd)
      PROVE  LimitInv'
  BY <1>4 DEF Operate, control, LimitInv, PositionLimit, OpenPositions
<1>5. ~Restart
  BY <1>0 DEF Restart, TypeOK
<1> QED
  BY <1>1, <1>2, <1>3, <1>4, <1>5, Steps

\* Without restarts, cycles of any number of indices and threads, the
\* scheduler's and the endpoint's, never hold more positions than the Risk
\* Manager allows (the entry guard of run_cycle, web_server.py:408-415).
THEOREM PositionLimitHolds ==
  ASSUME MaxCrashes = 0
  PROVE  Spec => []PositionLimit
<1>1. Init => LimitInv
  <2>1. Init => {i \in Indices : qty[i] > 0} = {}
    BY DEF Init
  <2>2. Init => OpenPositions = 0
    BY <2>1, FS_EmptySet DEF OpenPositions
  <2> QED
    BY <2>2, RiskLimitsAssumption DEF Init, LimitInv, PositionLimit
<1>2. BasicInv /\ BasicInv' /\ LimitInv /\ [Next]_vars => LimitInv'
  BY LimitStep
<1>3. LimitInv => PositionLimit
  BY DEF LimitInv
<1>4. Spec => []BasicInv
  BY EngineTyped DEF BasicInv
<1> QED
  BY <1>1, <1>2, <1>3, <1>4, PTL DEF Spec

\* After a stop only the cycle that holds the guard can still fill.
StopInv ==
  /\ lateFills \in {0, 1}
  /\ ~Stopped(risk) => lateFills = 0
  /\ \A t \in Threads : pc[t] = "fill" => lateFills = 0

LEMMA StopStep ==
  ASSUME BasicInv, StopInv, [Next]_vars
  PROVE  StopInv'
<1>0. TypeOK /\ Exclusive
  BY DEF BasicInv
<1>1. CASE NoNewRisk
  BY <1>1 DEF NoNewRisk, StopInv
<1>2. ASSUME NEW t \in Threads, Passed(t)
      PROVE  StopInv'
  <2>1. PICK price \in Prices :
          CheckEntry(t, price) /\ CheckPasses(risk, OrderOf(t, "BUY", price), Now(t))
    BY <1>2 DEF Passed
  <2>2. Now(t) \in Nat /\ risk \in RiskState
    BY <1>0, <2>1 DEF CheckEntry, Exclusive, Active, Now, TypeOK
  <2>3. OrderOf(t, "BUY", price).action = "BUY" /\ OrderOf(t, "BUY", price).capNewEntries = TRUE
    BY DEF OrderOf
  <2>4. ~Stopped(risk)
    BY <2>1, <2>2, <2>3, BuyPassed DEF Stopped
  <2>5. lateFills = 0 /\ lateFills' = 0
    BY <2>1, <2>4 DEF CheckEntry, StopInv
  <2> QED
    BY <2>5 DEF StopInv
<1>3. ASSUME NEW t \in Threads, FillEntry(t)
      PROVE  StopInv'
  <2>1. lateFills = 0
    BY <1>3 DEF FillEntry, StopInv
  <2>2. \A u \in Threads : pc'[u] # "fill"
    BY <1>0, <1>3 DEF FillEntry, Exclusive, TypeOK
  <2> QED
    BY <1>3, <2>1, <2>2 DEF FillEntry, StopInv
<1>4. ASSUME NEW cmd \in Commands, Operate(cmd)
      PROVE  StopInv'
  BY <1>4 DEF Operate, control, StopInv
<1>5. CASE Restart
  BY <1>5 DEF Restart, StopInv
<1> QED
  BY <1>1, <1>2, <1>3, <1>4, <1>5, Steps

\* The kill switch, the disable switch and the loss halt let at most the one
\* entry through, of all indices, that had passed its check inside the guard,
\* whatever else runs or restarts meanwhile (risk_manager.check, run_cycle).
THEOREM StopsHold == Spec => []StopLetsOneThrough
<1>1. Init => StopInv
  BY DEF Init, StopInv
<1>2. BasicInv /\ StopInv /\ [Next]_vars => StopInv'
  BY StopStep
<1>3. StopInv => StopLetsOneThrough
  BY DEF StopInv, StopLetsOneThrough
<1>4. Spec => []BasicInv
  BY EngineTyped DEF BasicInv
<1> QED
  BY <1>1, <1>2, <1>3, <1>4, PTL DEF Spec

-----------------------------------------------------------------------------
(* The high-water mark of an index, in memory and in the database.         *)

\* Where the mark of a thread's index stands between the decision of its
\* cycle and the commit.
ThreadMarks(t) ==
  /\ pc[t] \in {"entry", "fill", "recordEntry"} => cyc[t].bar > mark[idx[t]]
  /\ pc[t] = "recordClose" => cyc[t].bar >= mark[idx[t]] /\ cyc[t].kind # "entry"
  /\ pc[t] \in {"rows", "commit"} /\ cyc[t].kind = "entry" =>
       cyc[t].bar = mark[idx[t]] /\ cyc[t].bar > dbAcct[idx[t]].mark
  /\ pc[t] = "commit" => cyc[t].row.acct.mark = mark[idx[t]]

MarkInv == AtWorstStale /\ \A t \in Threads : ThreadMarks(t)

\* What a step of thread t leaves to the others: their cycles, and every index
\* but its own.
OthersKept(t) ==
  /\ \A u \in Threads \ {t} : pc'[u] = pc[u] /\ idx'[u] = idx[u] /\ cyc'[u] = cyc[u]
  /\ \A i \in Indices : pc[t] \notin Active \/ i # idx[t] =>
       mark'[i] = mark[i] /\ dbAcct'[i] = dbAcct[i] /\ booked'[i] = booked[i]

\* Two cycles under way are of two indices.
LEMMA OneCyclePerIndex ==
  ASSUME BasicInv, NEW t \in Threads, NEW u \in Threads \ {t}, pc[t] \in Active, pc[u] \in Active
  PROVE  idx[t] # idx[u]
BY DEF BasicInv, Exclusive

LEMMA OthersMarks ==
  ASSUME BasicInv, MarkInv, NEW t \in Threads, OthersKept(t)
  PROVE  \A u \in Threads \ {t} : ThreadMarks(u)'
<1> TAKE u \in Threads \ {t}
<1>1. CASE pc[u] \notin Active
  BY <1>1 DEF OthersKept, ThreadMarks, Active
<1>2. CASE pc[u] \in Active
  <2>1. idx[u] \in Indices /\ (pc[t] \in Active => idx[t] # idx[u])
    BY <1>2, OneCyclePerIndex DEF BasicInv, Exclusive, Active
  <2>2. /\ pc'[u] = pc[u] /\ idx'[u] = idx[u] /\ cyc'[u] = cyc[u]
        /\ mark'[idx[u]] = mark[idx[u]] /\ dbAcct'[idx[u]] = dbAcct[idx[u]]
    BY <2>1 DEF OthersKept
  <2> QED
    BY <2>2 DEF MarkInv, ThreadMarks
<1> QED
  BY <1>1, <1>2

\* A step of one thread keeps MarkInv when it keeps it at its own index.
LEMMA MarkInvOfThread ==
  ASSUME BasicInv, MarkInv, NEW t \in Threads, OthersKept(t), ThreadMarks(t)',
         pc[t] \in Active =>
           /\ dbAcct'[idx[t]].mark <= mark'[idx[t]]
           /\ booked'[idx[t]] <= dbAcct'[idx[t]].mark
  PROVE  MarkInv'
<1>1. \A u \in Threads : ThreadMarks(u)'
  BY OthersMarks
<1>2. \A i \in Indices : dbAcct'[i].mark <= mark'[i] /\ booked'[i] <= dbAcct'[i].mark
  <2> TAKE i \in Indices
  <2>1. CASE pc[t] \in Active /\ i = idx[t]
    BY <2>1
  <2>2. CASE pc[t] \notin Active \/ i # idx[t]
    BY <2>2 DEF OthersKept, MarkInv, AtWorstStale
  <2> QED
    BY <2>1, <2>2
<1> QED
  BY <1>1, <1>2 DEF MarkInv, AtWorstStale

\* A cycle that ends keeps MarkInv when the mark it leaves is not an earlier one.
LEMMA MarkInvOfRelease ==
  ASSUME BasicInv, MarkInv, NEW t \in Threads, pc[t] \in Active, Release(t),
         UNCHANGED <<dbAcct, booked>>,
         UNCHANGED mark \/ \E m \in Int : m >= mark[idx[t]] /\ mark' = [mark EXCEPT ![idx[t]] = m]
  PROVE  MarkInv'
<1>1. OthersKept(t)
  BY DEF BasicInv, TypeOK, Exclusive, OthersKept, Release
<1>2. ThreadMarks(t)'
  BY DEF BasicInv, TypeOK, ThreadMarks, Release
<1>3. idx[t] \in Indices
  BY DEF BasicInv, Exclusive, Active
<1>4. dbAcct[idx[t]].mark \in Int /\ mark[idx[t]] \in Int
  BY <1>3 DEF BasicInv, TypeOK, Account
<1>5. mark'[idx[t]] >= mark[idx[t]] /\ mark'[idx[t]] \in Int
  BY <1>3, <1>4 DEF BasicInv, TypeOK
<1>6. dbAcct[idx[t]].mark <= mark'[idx[t]] /\ booked[idx[t]] <= dbAcct[idx[t]].mark
  BY <1>3, <1>4, <1>5 DEF MarkInv, AtWorstStale
<1> QED
  BY <1>1, <1>2, <1>6, MarkInvOfThread

LEMMA MarkStep ==
  ASSUME ~FeedRegresses, BasicInv, MarkInv, [Next]_vars
  PROVE  MarkInv'
<1> USE DEF memory, control, disk
<1>a. /\ TypeOK /\ Exclusive
      /\ \A t \in Threads : pc[t] \in Active =>
           /\ idx[t] \in Indices /\ mark[idx[t]] \in Int /\ cyc[t].bar \in Int
           /\ dbAcct[idx[t]].mark \in Int /\ booked[idx[t]] \in Int
           /\ dbAcct[idx[t]].mark <= mark[idx[t]] /\ booked[idx[t]] <= dbAcct[idx[t]].mark
  BY DEF BasicInv, TypeOK, Exclusive, Active, Cycle, Account, MarkInv, AtWorstStale
<1>1. CASE UNCHANGED <<mark, dbAcct, booked, control>>
  BY <1>1 DEF MarkInv, AtWorstStale, ThreadMarks
<1>2. ASSUME NEW t \in Threads, NEW i \in Indices, NEW q \in Quantities \cup {1}, Request(t, i, q)
      PROVE  MarkInv'
  <2>1. OthersKept(t) /\ ThreadMarks(t)'
    BY <1>2, <1>a DEF Request, OthersKept, ThreadMarks, TypeOK
  <2> QED
    BY <1>2, <2>1, MarkInvOfThread DEF Request, Active
<1>3. ASSUME NEW t \in Threads, Busy(t) \/ Begin(t)
      PROVE  MarkInv'
  <2>1. OthersKept(t) /\ ThreadMarks(t)'
    BY <1>3, <1>a DEF Busy, Begin, OthersKept, ThreadMarks, TypeOK
  <2> QED
    BY <1>3, <2>1, MarkInvOfThread DEF Busy, Begin, Active
<1>4. ASSUME NEW t \in Threads, FetchFails(t) \/ NoContract(t) \/ NotConfigured(t) \/ RollBack(t)
      PROVE  MarkInv'
  BY <1>4, MarkInvOfRelease DEF FetchFails, NoContract, NotConfigured, RollBack, Active
<1>5. ASSUME NEW t \in Threads, NEW latest \in Bars, AwaitToday(t, latest)
      PROVE  MarkInv'
  BY <1>5, MarkInvOfRelease DEF AwaitToday, Fetched, Active
<1>6. ASSUME NEW t \in Threads, NEW latest \in Bars, NoSignal(t, latest)
      PROVE  MarkInv'
  <2>1. pc[t] \in Active /\ mark[idx[t]] \in Int
    BY <1>6, <1>a DEF NoSignal, Strategy, Fetched, Active
  <2>2. PICK m \in {mark[idx[t]]} \cup AfterExpiry(t, latest) : mark' = [mark EXCEPT ![idx[t]] = m]
    BY <1>6 DEF NoSignal
  <2>3. m \in Int /\ m >= mark[idx[t]]
    <3>1. m = mark[idx[t]] \/ (m \in Bars /\ m > mark[idx[t]])
      BY <2>2, ExpiredMark
    <3>2. m \in Bars => m \in Int
      BY BarsType
    <3> QED
      BY <2>1, <3>1, <3>2
  <2> QED
    BY <1>6, <2>1, <2>2, <2>3, MarkInvOfRelease DEF NoSignal
<1>7. ASSUME NEW t \in Threads, pc[t] = "fetch", NEW q \in Int, NEW bar \in Int, NEW pnl \in Int,
             NEW kind \in {"exit", "squareOff", "recovery"}, CloseOut(t, q, bar, pnl, kind),
             bar >= mark[idx[t]], UNCHANGED disk
      PROVE  MarkInv'
  <2>1. pc[t] \in Active /\ idx[t] \in Indices
    BY <1>7, <1>a DEF Active
  <2>2. /\ cyc'[t].bar = bar /\ cyc'[t].kind = kind /\ pc'[t] = "recordClose"
        /\ idx'[t] = idx[t] /\ mark' = mark
    BY <1>7, <1>a DEF CloseOut, TypeOK, Cycle
  <2>3. OthersKept(t)
    BY <1>7, <1>a DEF CloseOut, OthersKept, TypeOK
  <2>4. ThreadMarks(t)'
    BY <1>7, <2>2 DEF ThreadMarks
  <2> QED
    BY <1>7, <1>a, <2>1, <2>2, <2>3, <2>4, MarkInvOfThread
<1>8. ASSUME NEW t \in Threads, NEW latest \in Bars, NEW pnl \in Pnls, ForceClose(t, latest, pnl)
      PROVE  MarkInv'
  <2>1. /\ pc[t] = "fetch" /\ idx[t] \in Indices /\ qty[idx[t]] \in Int
        /\ latest >= mark[idx[t]] /\ latest \in Int /\ pnl \in Int
    BY <1>8, <1>a, Constants, PaperEngineAssumption DEF ForceClose, Fetched, Active, TypeOK
  <2>2. PICK kind \in {"exit", "squareOff", "recovery"} : CloseOut(t, qty[idx[t]], latest, pnl, kind)
    BY <1>8 DEF ForceClose
  <2> QED
    BY <1>7, <1>8, <2>1, <2>2 DEF ForceClose
<1>9. ASSUME NEW t \in Threads, NEW latest \in Bars, NEW bar \in Bars, NEW pnl \in Pnls,
             NEW price \in Prices, ExitSignal(t, latest, bar, pnl, price)
      PROVE  MarkInv'
  <2>1. /\ pc[t] = "fetch" /\ pc[t] \in Active /\ cyc[t].qty \in Int
        /\ mark[idx[t]] \in Int /\ bar \in Int /\ pnl \in Int
    BY <1>9, <1>a, Constants, PaperEngineAssumption
    DEF ExitSignal, Strategy, Fetched, Active, TypeOK, Cycle
  <2>2. bar >= mark[idx[t]]
    BY <1>9, <2>1 DEF ExitSignal
  <2>3. CASE CloseOut(t, cyc[t].qty, bar, pnl, "exit")
    BY <1>7, <1>9, <2>1, <2>2, <2>3 DEF ExitSignal
  <2>4. CASE Release(t) /\ UNCHANGED <<qty, mark, sqOff>>
    BY <1>9, <2>1, <2>4, MarkInvOfRelease DEF ExitSignal
  <2> QED
    BY <1>9, <2>3, <2>4 DEF ExitSignal
<1>10. ASSUME NEW t \in Threads, NEW latest \in Bars, NEW bar \in Bars, EntrySignal(t, latest, bar)
       PROVE  MarkInv'
  <2>1. /\ pc[t] = "fetch" /\ pc[t] \in Active /\ idx[t] \in Indices /\ mark[idx[t]] \in Int
        /\ bar \in Int /\ bar > mark[idx[t]] /\ Fresh(t, bar)
    BY <1>10, <1>a, Constants DEF EntrySignal, Strategy, Fetched, Active
  <2>2. PICK m \in AfterExpiry(t, latest) : mark' = [mark EXCEPT ![idx[t]] = m]
    BY <1>10 DEF EntrySignal
  <2>3. m \in Int /\ m >= mark[idx[t]]
    <3>1. m = mark[idx[t]] \/ (m \in Bars /\ m > mark[idx[t]])
      BY <2>2, ExpiredMark
    <3>2. m \in Bars => m \in Int
      BY BarsType
    <3> QED
      BY <2>1, <3>1, <3>2
  <2>4. CASE Release(t)
    BY <1>10, <2>1, <2>2, <2>3, <2>4, MarkInvOfRelease DEF EntrySignal
  <2>5. CASE /\ pc' = [pc EXCEPT ![t] = "entry"]
             /\ cyc' = [cyc EXCEPT ![t].bar = bar, ![t].kind = "entry"]
             /\ UNCHANGED <<lock, idx>>
    <3>1. bar > m
      <4>1. m # mark[idx[t]] => ~Fresh(t, m)
        BY <2>2, ExpiredMark
      <4>2. Now(t) \in Int
        BY <1>a DEF Now, TypeOK, Cycle
      <4>3. m # mark[idx[t]] => bar > m
        BY <2>1, <2>3, <4>1, <4>2, PaperEngineAssumption DEF Fresh
      <4> QED
        BY <2>1, <4>3
    <3>2. /\ cyc'[t].bar = bar /\ cyc'[t].kind = "entry" /\ pc'[t] = "entry"
          /\ idx'[t] = idx[t] /\ mark'[idx[t]] = m
      BY <1>a, <2>1, <2>2, <2>5 DEF TypeOK, Cycle
    <3>3. OthersKept(t)
      BY <1>10, <1>a, <2>1, <2>2, <2>5 DEF EntrySignal, OthersKept, TypeOK
    <3>4. ThreadMarks(t)'
      BY <3>1, <3>2 DEF ThreadMarks
    <3>5. /\ dbAcct' = dbAcct /\ booked' = booked
      BY <1>10 DEF EntrySignal
    <3>6. dbAcct'[idx[t]].mark <= mark'[idx[t]] /\ booked'[idx[t]] <= dbAcct'[idx[t]].mark
      BY <1>a, <2>1, <2>3, <3>2, <3>5
    <3> QED
      BY <3>3, <3>4, <3>6, MarkInvOfThread
  <2> QED
    BY <1>10, <2>4, <2>5 DEF EntrySignal
<1>11. ASSUME NEW t \in Threads, NEW price \in Prices, CheckEntry(t, price)
       PROVE  MarkInv'
  <2>1. CASE Release(t)
    BY <1>11, <2>1, MarkInvOfRelease DEF CheckEntry, Active
  <2>2. CASE pc' = [pc EXCEPT ![t] = "fill"] /\ UNCHANGED <<lock, idx, cyc>>
    <3>1. OthersKept(t)
      BY <1>11, <1>a, <2>2 DEF CheckEntry, OthersKept, TypeOK
    <3>2. ThreadMarks(t)'
      BY <1>11, <1>a, <2>2 DEF CheckEntry, ThreadMarks, MarkInv, TypeOK
    <3> QED
      BY <1>11, <1>a, <3>1, <3>2, MarkInvOfThread DEF CheckEntry
  <2> QED
    BY <1>11, <2>1, <2>2 DEF CheckEntry
<1>12. ASSUME NEW t \in Threads, FillEntry(t)
       PROVE  MarkInv'
  <2>1. OthersKept(t)
    BY <1>12, <1>a DEF FillEntry, OthersKept, TypeOK
  <2>2. ThreadMarks(t)'
    BY <1>12, <1>a DEF FillEntry, ThreadMarks, MarkInv, TypeOK
  <2> QED
    BY <1>12, <1>a, <2>1, <2>2, MarkInvOfThread DEF FillEntry
<1>13. ASSUME NEW t \in Threads, RecordEntryFill(t) \/ RecordClose(t)
       PROVE  MarkInv'
  <2>1. /\ pc[t] \in {"recordEntry", "recordClose"} /\ pc[t] \in Active /\ idx[t] \in Indices
        /\ mark[idx[t]] \in Int /\ cyc[t].bar \in Int
    BY <1>13, <1>a DEF RecordEntryFill, RecordClose, Active
  <2>2. /\ mark' = [mark EXCEPT ![idx[t]] = cyc[t].bar] /\ pc' = [pc EXCEPT ![t] = "rows"]
        /\ UNCHANGED <<idx, cyc, dbAcct, booked>>
    BY <1>13 DEF RecordEntryFill, RecordClose
  <2>3. cyc[t].bar >= mark[idx[t]] /\ (cyc[t].kind = "entry" => cyc[t].bar > mark[idx[t]])
    BY <2>1 DEF MarkInv, ThreadMarks
  <2>4. mark'[idx[t]] = cyc[t].bar /\ pc'[t] = "rows"
    BY <1>a, <2>1, <2>2 DEF TypeOK
  <2>5. OthersKept(t)
    BY <1>a, <2>1, <2>2 DEF OthersKept, TypeOK
  <2>6. dbAcct[idx[t]].mark <= cyc[t].bar /\ (cyc[t].kind = "entry" => cyc[t].bar > dbAcct[idx[t]].mark)
    BY <1>a, <2>1, <2>3
  <2>7. ThreadMarks(t)'
    BY <2>2, <2>4, <2>6 DEF ThreadMarks
  <2> QED
    BY <1>a, <2>1, <2>2, <2>4, <2>5, <2>6, <2>7, MarkInvOfThread
<1>14. ASSUME NEW t \in Threads, BuildRows(t)
       PROVE  MarkInv'
  <2>1. /\ pc[t] = "rows" /\ pc[t] \in Active /\ idx[t] \in Indices
        /\ UNCHANGED <<idx, mark, dbAcct, booked>> /\ pc'[t] = "commit"
    BY <1>14, <1>a DEF BuildRows, Active, TypeOK
  <2>2. /\ cyc'[t].bar = cyc[t].bar /\ cyc'[t].kind = cyc[t].kind
        /\ cyc'[t].row.acct.mark = mark[idx[t]]
    BY <1>14, <1>a DEF BuildRows, TypeOK, Cycle
  <2>3. OthersKept(t)
    BY <1>14, <1>a DEF BuildRows, OthersKept, TypeOK
  <2>4. ThreadMarks(t)'
    BY <2>1, <2>2 DEF ThreadMarks, MarkInv
  <2> QED
    BY <1>a, <2>1, <2>3, <2>4, MarkInvOfThread
<1>15. ASSUME NEW t \in Threads, Commit(t)
       PROVE  MarkInv'
  <2>1. /\ pc[t] = "commit" /\ pc[t] \in Active /\ idx[t] \in Indices
        /\ mark' = mark /\ cyc[t].row.acct \in Account
    BY <1>15, <1>a DEF Commit, Active, TypeOK, Cycle, Row
  <2>2. /\ dbAcct' = [dbAcct EXCEPT ![idx[t]] = cyc[t].row.acct]
        /\ booked' = IF cyc[t].kind = "entry" THEN [booked EXCEPT ![idx[t]] = cyc[t].bar] ELSE booked
    BY <1>15 DEF Commit, AccountRows
  <2>3. dbAcct'[idx[t]].mark = mark[idx[t]]
    BY <1>a, <2>1, <2>2 DEF TypeOK, MarkInv, ThreadMarks
  <2>4. booked'[idx[t]] <= mark[idx[t]]
    <3>1. CASE cyc[t].kind = "entry"
      BY <1>a, <2>1, <2>2, <3>1 DEF TypeOK, MarkInv, ThreadMarks
    <3>2. CASE cyc[t].kind # "entry"
      BY <1>a, <2>1, <2>2, <3>2
    <3> QED
      BY <3>1, <3>2
  <2>5. OthersKept(t)
    BY <1>15, <1>a, <2>1, <2>2 DEF Commit, Release, OthersKept, TypeOK
  <2>6. ThreadMarks(t)'
    BY <1>15, <1>a DEF Commit, Release, ThreadMarks, TypeOK
  <2> QED
    BY <1>a, <2>1, <2>3, <2>4, <2>5, <2>6, MarkInvOfThread
<1>16. CASE Restart
  <2>1. \A t \in Threads : ThreadMarks(t)'
    BY <1>16 DEF Restart, ThreadMarks
  <2>2. \A i \in Indices : mark'[i] = dbAcct[i].mark /\ dbAcct[i].mark \in Int
    BY <1>16, <1>a DEF Restart, RestoredMark, TypeOK, Account
  <2> QED
    BY <1>16, <2>1, <2>2 DEF Restart, MarkInv, AtWorstStale
<1>17. ASSUME NEW t \in Threads, Work(t)
       PROVE  MarkInv'
  <2>1. CASE Decide(t)
    BY <2>1, <1>5, <1>6, <1>8, <1>9, <1>10 DEF Decide
  <2> QED
    BY <1>17, <2>1, <1>3, <1>4, <1>11, <1>12, <1>13, <1>14, <1>15 DEF Work
<1>18. ASSUME NEW cmd \in Commands, Operate(cmd)
       PROVE  MarkInv'
  BY <1>1, <1>18 DEF Operate
<1>19. ASSUME NEW i \in Indices, SchedulerSkip(i)
       PROVE  MarkInv'
  BY <1>1, <1>19 DEF SchedulerSkip
<1>20. CASE SchedulerTick \/ OperatorBuilds \/ OperatorCommits \/ Tick \/ UNCHANGED vars
  BY <1>1, <1>20 DEF SchedulerTick, OperatorBuilds, OperatorCommits, Tick, vars
<1> QED
  BY <1>2, <1>16, <1>17, <1>18, <1>19, <1>20 DEF Next

LEMMA MarkInvariant ==
  ASSUME ~FeedRegresses
  PROVE  Spec => []MarkInv
<1>1. Init => MarkInv
  BY Constants DEF Init, MarkInv, AtWorstStale, ThreadMarks, FreshAccount, NoRow, NoMark
<1>2. BasicInv /\ MarkInv /\ [Next]_vars => MarkInv'
  BY MarkStep
<1>3. Spec => []BasicInv
  BY EngineTyped DEF BasicInv
<1> QED
  BY <1>1, <1>2, <1>3, PTL DEF Spec

\* With a feed that does not go back behind the mark, the mark a restart
\* would restore never passes the one in memory and covers every entry that
\* was committed (restore_account_state, auto_trader.py:403-407).
THEOREM RestartsAreAtWorstStale ==
  ASSUME ~FeedRegresses
  PROVE  Spec => []AtWorstStale
<1>1. MarkInv => AtWorstStale
  BY DEF MarkInv
<1> QED
  BY <1>1, MarkInvariant, PTL

\* No bar of an index is booked twice, across its cycles, failed writes and
\* restarts (run_cycle's last_event_at, record_paper_cycle).
THEOREM EntriesBookedOnce ==
  ASSUME ~FeedRegresses
  PROVE  Spec => BookedOnce
<1>1. BasicInv /\ MarkInv =>
        \A t \in Threads : Commit(t) /\ cyc[t].kind = "entry" => cyc[t].bar > booked[idx[t]]
  <2> SUFFICES ASSUME BasicInv, MarkInv, NEW t \in Threads, Commit(t), cyc[t].kind = "entry"
               PROVE  cyc[t].bar > booked[idx[t]]
    OBVIOUS
  <2>1. pc[t] = "commit" /\ idx[t] \in Indices
    BY DEF Commit, BasicInv, Exclusive
  <2>2. dbAcct[idx[t]].mark \in Int /\ booked[idx[t]] \in Int /\ cyc[t].bar \in Int
    BY <2>1 DEF BasicInv, TypeOK, Account, Cycle
  <2> QED
    BY <2>1, <2>2 DEF MarkInv, AtWorstStale, ThreadMarks
<1>2. Spec => []BasicInv
  BY EngineTyped DEF BasicInv
<1> QED
  BY <1>1, <1>2, MarkInvariant, PTL DEF BookedOnce

-----------------------------------------------------------------------------
(* The account of an index, in memory and in the database.                 *)

Saved(i) == dbAcct[i].qty = qty[i] /\ dbAcct[i].sqOff = sqOff[i]

IndexSaved(i) == lock[i] = NoThread /\ ~unsaved[i] => Saved(i)

\* Until its fill a cycle finds its index saved; what it commits is current.
ThreadSaved(t) ==
  /\ pc[t] \in {"fetch", "entry", "fill"} /\ ~unsaved[idx[t]] => Saved(idx[t])
  /\ pc[t] = "commit" =>
       cyc[t].row.acct.qty = qty[idx[t]] /\ cyc[t].row.acct.sqOff = sqOff[idx[t]]

DurableInv ==
  (\A i \in Indices : IndexSaved(i)) /\ (\A t \in Threads : ThreadSaved(t))

\* What a step of thread t leaves of the accounts and cycles of others.
AccountsKept(t) ==
  /\ \A u \in Threads \ {t} : pc'[u] = pc[u] /\ idx'[u] = idx[u] /\ cyc'[u] = cyc[u]
  /\ \A i \in Indices : pc[t] \notin Active \/ i # idx[t] =>
       /\ qty'[i] = qty[i] /\ sqOff'[i] = sqOff[i]
       /\ dbAcct'[i] = dbAcct[i] /\ unsaved'[i] = unsaved[i]
       /\ lock'[i] = NoThread => lock[i] = NoThread

\* IndexSaved after the step, of the index a thread had before it.
LeftSaved(i) ==
  lock'[i] = NoThread /\ ~unsaved'[i] =>
    dbAcct'[i].qty = qty'[i] /\ dbAcct'[i].sqOff = sqOff'[i]

LEMMA DurableOfThread ==
  ASSUME BasicInv, DurableInv, NEW t \in Threads, AccountsKept(t), ThreadSaved(t)',
         pc[t] \in Active => LeftSaved(idx[t])
  PROVE  DurableInv'
<1>1. ASSUME NEW u \in Threads \ {t}
      PROVE  ThreadSaved(u)'
  <2>1. CASE pc[u] \notin Active
    BY <1>1, <2>1 DEF AccountsKept, ThreadSaved, Active
  <2>2. CASE pc[u] \in Active
    <3>1. idx[u] \in Indices /\ (pc[t] \in Active => idx[t] # idx[u])
      BY <1>1, <2>2, OneCyclePerIndex DEF BasicInv, Exclusive, Active
    <3>2. /\ pc'[u] = pc[u] /\ idx'[u] = idx[u] /\ cyc'[u] = cyc[u]
          /\ qty'[idx[u]] = qty[idx[u]] /\ sqOff'[idx[u]] = sqOff[idx[u]]
          /\ dbAcct'[idx[u]] = dbAcct[idx[u]] /\ unsaved'[idx[u]] = unsaved[idx[u]]
      BY <1>1, <3>1 DEF AccountsKept
    <3> QED
      BY <3>2 DEF DurableInv, ThreadSaved, Saved
  <2> QED
    BY <2>1, <2>2
<1>2. ASSUME NEW i \in Indices
      PROVE  IndexSaved(i)'
  <2>1. CASE pc[t] \in Active /\ i = idx[t]
    BY <2>1 DEF LeftSaved, IndexSaved, Saved
  <2>2. CASE pc[t] \notin Active \/ i # idx[t]
    BY <2>2 DEF AccountsKept, DurableInv, IndexSaved, Saved
  <2> QED
    BY <2>1, <2>2
<1> QED
  BY <1>1, <1>2 DEF DurableInv

\* A cycle that ends before any fill leaves the account as it found it.
LEMMA DurableOfRelease ==
  ASSUME BasicInv, DurableInv, NEW t \in Threads, pc[t] \in {"fetch", "entry"}, Release(t),
         UNCHANGED <<qty, sqOff, dbAcct, unsaved>>
  PROVE  DurableInv'
<1>1. AccountsKept(t)
  BY DEF BasicInv, TypeOK, Exclusive, Active, AccountsKept, Release
<1>2. ThreadSaved(t)'
  BY DEF BasicInv, TypeOK, ThreadSaved, Release
<1>3. LeftSaved(idx[t])
  BY DEF DurableInv, ThreadSaved, LeftSaved, Saved
<1> QED
  BY <1>1, <1>2, <1>3, DurableOfThread

LEMMA DurableStep ==
  ASSUME Persisting, BasicInv, DurableInv, [Next]_vars
  PROVE  DurableInv'
<1> USE DEF memory, control, disk
<1>a. TypeOK /\ Exclusive /\ \A t \in Threads : pc[t] \in Active => idx[t] \in Indices /\ lock[idx[t]] = t
  BY DEF BasicInv, Exclusive, Active
<1>b. NoThread \notin Threads
  BY PaperEngineAssumption
<1>1. CASE UNCHANGED <<qty, sqOff, dbAcct, unsaved, control>>
  BY <1>1 DEF DurableInv, IndexSaved, ThreadSaved, Saved
<1>2. ASSUME NEW t \in Threads, NEW i \in Indices, NEW q \in Quantities \cup {1}, Request(t, i, q)
      PROVE  DurableInv'
  <2>1. AccountsKept(t) /\ ThreadSaved(t)'
    BY <1>2, <1>a DEF Request, AccountsKept, ThreadSaved, TypeOK
  <2> QED
    BY <1>2, <2>1, DurableOfThread DEF Request, Active
<1>3. ASSUME NEW t \in Threads, Busy(t)
      PROVE  DurableInv'
  <2>1. AccountsKept(t) /\ ThreadSaved(t)'
    BY <1>3, <1>a DEF Busy, AccountsKept, ThreadSaved, TypeOK
  <2> QED
    BY <1>3, <2>1, DurableOfThread DEF Busy, Active
<1>4. ASSUME NEW t \in Threads, Begin(t)
      PROVE  DurableInv'
  <2>1. idx[t] \in Indices /\ pc[t] = "wait" /\ lock[idx[t]] = NoThread
    BY <1>4, <1>a DEF Begin, LockFree, Exclusive
  <2>2. /\ pc' = [pc EXCEPT ![t] = "fetch"] /\ lock' = [lock EXCEPT ![idx[t]] = t]
        /\ \A u \in Threads \ {t} : cyc'[u] = cyc[u]
        /\ UNCHANGED <<idx, qty, sqOff, dbAcct, unsaved>>
    BY <1>4, <1>a DEF Begin, TypeOK
  <2>3. AccountsKept(t)
    BY <1>a, <1>b, <2>1, <2>2 DEF AccountsKept, TypeOK
  <2>4. ThreadSaved(t)'
    BY <1>a, <2>1, <2>2 DEF ThreadSaved, TypeOK, DurableInv, IndexSaved, Saved
  <2> QED
    BY <2>1, <2>3, <2>4, DurableOfThread DEF Active
<1>5. ASSUME NEW t \in Threads, FetchFails(t) \/ NoContract(t)
      PROVE  DurableInv'
  BY <1>5, DurableOfRelease DEF FetchFails, NoContract
<1>6. ASSUME NEW t \in Threads, NEW latest \in Bars, AwaitToday(t, latest) \/ NoSignal(t, latest)
      PROVE  DurableInv'
  BY <1>6, DurableOfRelease DEF AwaitToday, NoSignal, Strategy, Fetched
<1>7. ASSUME NEW t \in Threads, pc[t] = "fetch", NEW q, NEW bar, NEW pnl, NEW kind,
             CloseOut(t, q, bar, pnl, kind), UNCHANGED disk
      PROVE  DurableInv'
  <2>1. pc[t] \in Active /\ idx[t] \in Indices /\ lock' = lock /\ pc'[t] = "recordClose"
    BY <1>7, <1>a DEF Active, CloseOut, TypeOK
  <2>2. AccountsKept(t)
    BY <1>7, <1>a, <2>1 DEF CloseOut, AccountsKept, TypeOK
  <2>3. ThreadSaved(t)'
    BY <2>1 DEF ThreadSaved
  <2>4. LeftSaved(idx[t])
    BY <1>7, <1>a, <1>b, <2>1 DEF LeftSaved, CloseOut
  <2> QED
    BY <2>2, <2>3, <2>4, DurableOfThread
<1>8. ASSUME NEW t \in Threads, NEW latest \in Bars, NEW pnl \in Pnls, ForceClose(t, latest, pnl)
      PROVE  DurableInv'
  <2>1. PICK kind : CloseOut(t, qty[idx[t]], latest, pnl, kind)
    BY <1>8 DEF ForceClose
  <2> QED
    BY <1>7, <1>8, <2>1 DEF ForceClose, Fetched
<1>9. ASSUME NEW t \in Threads, NEW latest \in Bars, NEW bar \in Bars, NEW pnl \in Pnls,
             NEW price \in Prices, ExitSignal(t, latest, bar, pnl, price)
      PROVE  DurableInv'
  <2>1. CASE CloseOut(t, cyc[t].qty, bar, pnl, "exit")
    BY <1>7, <1>9, <2>1 DEF ExitSignal, Strategy, Fetched
  <2>2. CASE Release(t) /\ UNCHANGED <<qty, mark, sqOff>>
    BY <1>9, <2>2, DurableOfRelease DEF ExitSignal, Strategy, Fetched
  <2> QED
    BY <1>9, <2>1, <2>2 DEF ExitSignal
<1>10. ASSUME NEW t \in Threads, NEW latest \in Bars, NEW bar \in Bars, EntrySignal(t, latest, bar)
       PROVE  DurableInv'
  <2>1. CASE Release(t)
    BY <1>10, <2>1, DurableOfRelease DEF EntrySignal, Strategy, Fetched
  <2>2. CASE /\ pc' = [pc EXCEPT ![t] = "entry"]
             /\ cyc' = [cyc EXCEPT ![t].bar = bar, ![t].kind = "entry"]
             /\ UNCHANGED <<lock, idx>>
    <3>1. pc[t] = "fetch" /\ pc[t] \in Active /\ UNCHANGED <<qty, sqOff, dbAcct, unsaved>>
      BY <1>10 DEF EntrySignal, Strategy, Fetched, Active
    <3>2. AccountsKept(t)
      BY <1>a, <2>2, <3>1 DEF AccountsKept, TypeOK
    <3>3. ThreadSaved(t)' /\ LeftSaved(idx[t])
      BY <1>a, <2>2, <3>1 DEF ThreadSaved, LeftSaved, Saved, DurableInv, TypeOK
    <3> QED
      BY <2>2, <3>2, <3>3, DurableOfThread
  <2> QED
    BY <1>10, <2>1, <2>2 DEF EntrySignal
<1>11. ASSUME NEW t \in Threads, NEW price \in Prices, CheckEntry(t, price)
       PROVE  DurableInv'
  <2>1. CASE Release(t)
    BY <1>11, <2>1, DurableOfRelease DEF CheckEntry
  <2>2. CASE pc' = [pc EXCEPT ![t] = "fill"] /\ UNCHANGED <<lock, idx, cyc>>
    <3>1. pc[t] = "entry" /\ pc[t] \in Active /\ UNCHANGED <<qty, sqOff, dbAcct, unsaved>>
      BY <1>11 DEF CheckEntry, Active
    <3>2. AccountsKept(t)
      BY <1>a, <2>2, <3>1 DEF AccountsKept, TypeOK
    <3>3. ThreadSaved(t)' /\ LeftSaved(idx[t])
      BY <1>a, <2>2, <3>1 DEF ThreadSaved, LeftSaved, Saved, DurableInv, TypeOK
    <3> QED
      BY <2>2, <3>2, <3>3, DurableOfThread
  <2> QED
    BY <1>11, <2>1, <2>2 DEF CheckEntry
<1>12. ASSUME NEW t \in Threads, FillEntry(t) \/ RecordEntryFill(t) \/ RecordClose(t)
       PROVE  DurableInv'
  <2>1. /\ pc[t] \in Active /\ pc'[t] \in {"recordEntry", "rows"}
        /\ UNCHANGED <<idx, lock, dbAcct, unsaved>>
    <3>0. DOMAIN pc = Threads
      BY <1>a DEF TypeOK
    <3>1. CASE FillEntry(t)
      BY <3>0, <3>1 DEF FillEntry, Active, disk
    <3>2. CASE RecordEntryFill(t)
      BY <3>0, <3>2 DEF RecordEntryFill, Active, disk
    <3>3. CASE RecordClose(t)
      BY <3>0, <3>3 DEF RecordClose, Active, disk
    <3> QED
      BY <1>12, <3>1, <3>2, <3>3
  <2>2. AccountsKept(t)
    <3>1. \A u \in Threads \ {t} : pc'[u] = pc[u] /\ idx'[u] = idx[u] /\ cyc'[u] = cyc[u]
      BY <1>12, <1>a DEF FillEntry, RecordEntryFill, RecordClose, TypeOK
    <3>2. \A i \in Indices : i # idx[t] => qty'[i] = qty[i]
      <4>1. qty' \in {qty, [qty EXCEPT ![idx[t]] = @ + cyc[t].qty]}
        BY <1>12 DEF FillEntry, RecordEntryFill, RecordClose
      <4> QED
        BY <1>a, <4>1 DEF TypeOK
    <3>3. \A i \in Indices : i # idx[t] => sqOff'[i] = sqOff[i]
      <4>1. sqOff' \in {sqOff, [sqOff EXCEPT ![idx[t]] = Day(Now(t))]}
        BY <1>12 DEF FillEntry, RecordEntryFill, RecordClose
      <4> QED
        BY <1>a, <4>1 DEF TypeOK
    <3> QED
      BY <2>1, <3>1, <3>2, <3>3 DEF AccountsKept
  <2>3. ThreadSaved(t)' /\ LeftSaved(idx[t])
    BY <1>a, <1>b, <2>1 DEF ThreadSaved, LeftSaved
  <2> QED
    BY <2>1, <2>2, <2>3, DurableOfThread
<1>13. ASSUME NEW t \in Threads, BuildRows(t)
       PROVE  DurableInv'
  <2>1. /\ pc[t] \in Active /\ pc'[t] = "commit"
        /\ UNCHANGED <<idx, lock, qty, sqOff, dbAcct, unsaved>>
    BY <1>13, <1>a DEF BuildRows, Active, TypeOK
  <2>2. AccountsKept(t)
    BY <1>13, <1>a, <2>1 DEF BuildRows, AccountsKept, TypeOK
  <2>3. cyc'[t].row.acct.qty = qty[idx[t]] /\ cyc'[t].row.acct.sqOff = sqOff[idx[t]]
    BY <1>13, <1>a DEF BuildRows, TypeOK, Cycle
  <2>4. ThreadSaved(t)' /\ LeftSaved(idx[t])
    BY <1>a, <1>b, <2>1, <2>3 DEF ThreadSaved, LeftSaved
  <2> QED
    BY <2>1, <2>2, <2>4, DurableOfThread
<1>14. ASSUME NEW t \in Threads, Commit(t)
       PROVE  DurableInv'
  <2>1. /\ pc[t] = "commit" /\ pc[t] \in Active /\ idx[t] \in Indices /\ pc'[t] = "idle"
        /\ UNCHANGED <<qty, sqOff>>
        /\ dbAcct' = [dbAcct EXCEPT ![idx[t]] = cyc[t].row.acct]
    BY <1>14, <1>a DEF Commit, AccountRows, Release, Active, TypeOK
  <2>2. AccountsKept(t)
    <3>1. /\ \A u \in Threads \ {t} : pc'[u] = pc[u] /\ idx'[u] = idx[u] /\ cyc'[u] = cyc[u]
          /\ \A i \in Indices \ {idx[t]} :
               dbAcct'[i] = dbAcct[i] /\ lock'[i] = lock[i] /\ unsaved'[i] = unsaved[i]
      BY <1>14, <1>a, <2>1 DEF Commit, Release, TypeOK
    <3> QED
      BY <2>1, <3>1 DEF AccountsKept
  <2>3. dbAcct'[idx[t]].qty = qty[idx[t]] /\ dbAcct'[idx[t]].sqOff = sqOff[idx[t]]
    BY <1>a, <2>1 DEF TypeOK, DurableInv, ThreadSaved
  <2>4. ThreadSaved(t)' /\ LeftSaved(idx[t])
    BY <2>1, <2>3 DEF ThreadSaved, LeftSaved
  <2> QED
    BY <2>2, <2>4, DurableOfThread
<1>15. ASSUME NEW t \in Threads, RollBack(t)
       PROVE  DurableInv'
  <2>1. /\ pc[t] \in Active /\ idx[t] \in Indices /\ pc'[t] = "idle" /\ unsaved'[idx[t]] = TRUE
    BY <1>15, <1>a DEF RollBack, Release, Active, TypeOK
  <2>2. AccountsKept(t)
    BY <1>15, <1>a, <2>1 DEF RollBack, Release, AccountsKept, TypeOK
  <2>3. ThreadSaved(t)' /\ LeftSaved(idx[t])
    BY <2>1 DEF ThreadSaved, LeftSaved
  <2> QED
    BY <2>2, <2>3, DurableOfThread
<1>16. CASE Restart
  <2>1. \A t \in Threads : ThreadSaved(t)'
    BY <1>16 DEF Restart, ThreadSaved
  <2>2. \A i \in Indices : IndexSaved(i)'
    BY <1>16 DEF Restart, IndexSaved, Saved
  <2> QED
    BY <2>1, <2>2 DEF DurableInv
<1>17. ASSUME NEW t \in Threads, Work(t)
       PROVE  DurableInv'
  <2>1. CASE Decide(t)
    BY <2>1, <1>6, <1>8, <1>9, <1>10 DEF Decide
  <2>2. ~NotConfigured(t)
    BY DEF NotConfigured
  <2> QED
    BY <1>17, <2>1, <2>2, <1>3, <1>4, <1>5, <1>11, <1>12, <1>13, <1>14, <1>15 DEF Work
<1>18. ASSUME NEW cmd \in Commands, Operate(cmd)
       PROVE  DurableInv'
  BY <1>1, <1>18 DEF Operate
<1>19. ASSUME NEW i \in Indices, SchedulerSkip(i)
       PROVE  DurableInv'
  BY <1>1, <1>19 DEF SchedulerSkip
<1>20. CASE SchedulerTick \/ OperatorBuilds \/ OperatorCommits \/ Tick \/ UNCHANGED vars
  BY <1>1, <1>20 DEF SchedulerTick, OperatorBuilds, OperatorCommits, Tick, vars
<1> QED
  BY <1>2, <1>16, <1>17, <1>18, <1>19, <1>20 DEF Next

\* With a database and a feed that does not go back, between cycles and but
\* for a rolled-back write, a restart restores the account that memory has
\* (record_paper_cycle, restore_account_state).
THEOREM AccountsAreDurable ==
  ASSUME Persisting, ~FeedRegresses
  PROVE  Spec => []AccountsDurable
<1>1. Init => DurableInv
  BY DEF Init, DurableInv, IndexSaved, ThreadSaved, Saved, FreshAccount, NoRow, NoMark
<1>2. BasicInv /\ DurableInv /\ [Next]_vars => DurableInv'
  BY DurableStep
<1>3. DurableInv /\ MarkInv => AccountsDurable
  BY DEF DurableInv, IndexSaved, Saved, MarkInv, AtWorstStale, AccountsDurable
<1>4. Spec => []BasicInv
  BY EngineTyped DEF BasicInv
<1> QED
  BY <1>1, <1>2, <1>3, <1>4, MarkInvariant, PTL DEF Spec
=============================================================================
