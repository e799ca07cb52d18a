-------------------------- MODULE PaperNightProofs --------------------------
(***************************************************************************)
(* No paper position is held overnight, for any number of indices and      *)
(* threads and any bad days, when the square-off window outlasts a cycle.  *)
(***************************************************************************)
EXTENDS PaperBookProofs

-----------------------------------------------------------------------------
(* The square-off window.                                                  *)

\* No memory is lost, entries stop before the square-off begins, bars are
\* complete by then, and a cycle begun before it ends within the session.
RoomToSquareOff ==
  /\ MaxCrashes = 0
  /\ TradingStart < SquareOffTime /\ EntryCutoff < SquareOffTime
  /\ SquareOffTime + MaxLag <= TradingEnd

InWindow(n) == InSession(n) /\ SquareOffTime <= TimeOfDay(n)

\* From this slot on no cycle is left that began before the window.
LastChance == SquareOffTime + MaxLag

LEMMA WindowConstants ==
  ASSUME RoomToSquareOff
  PROVE  /\ SquareOffTime \in Nat /\ MaxLag \in Nat /\ TradingStart \in Nat /\ TradingEnd \in Nat
         /\ SlotsPerDay \in Nat \ {0} /\ LastChance \in Nat /\ LastChance > TradingStart
         /\ LastChance <= TradingEnd /\ TradingEnd < SlotsPerDay
BY RiskLimitsAssumption, PaperEngineAssumption DEF RoomToSquareOff, LastChance

\* Days do not run backwards.
LEMMA DayGrows ==
  ASSUME NEW n \in Nat, NEW c \in Nat, n <= c
  PROVE  Day(n) <= Day(c)
<1> DEFINE d == Day(n)
           e == Day(c)
<1>1. /\ d \in Nat /\ TimeOfDay(n) \in Nat /\ n = SlotsPerDay * d + TimeOfDay(n)
      /\ e \in Nat /\ TimeOfDay(c) \in Nat /\ TimeOfDay(c) < SlotsPerDay
      /\ c = SlotsPerDay * e + TimeOfDay(c)
  BY DayParts
<1>2. SlotsPerDay \in Nat \ {0}
  BY RiskLimitsAssumption
<1> HIDE DEF d, e
<1>3. SUFFICES ASSUME d - e >= 1 PROVE FALSE
  BY <1>1 DEF d, e
<1>4. SlotsPerDay * (d - e) >= SlotsPerDay
  BY <1>1, <1>2, <1>3
<1>5. SlotsPerDay * (d - e) = (n - TimeOfDay(n)) - (c - TimeOfDay(c))
  BY <1>1, <1>2
<1> QED
  BY <1>1, <1>2, <1>4, <1>5

\* A cycle that is under way at the last chance began in the window.
LEMMA BegunInWindow ==
  ASSUME RoomToSquareOff, NEW n \in Nat, NEW c \in Nat, n <= c, c <= n + MaxLag,
         TimeOfDay(c) >= LastChance
  PROVE  /\ Day(n) = Day(c) /\ TimeOfDay(n) >= SquareOffTime
         /\ TimeOfDay(c) = LastChance => InWindow(n)
<1> DEFINE d == Day(c)
           r == TimeOfDay(c)
           x == r - (c - n)
<1>1. d \in Nat /\ r \in Nat /\ c = SlotsPerDay * d + r /\ r < SlotsPerDay /\ SlotsPerDay * d \in Nat
  BY DayParts
<1>2. r >= LastChance
  OBVIOUS
<1> HIDE DEF d, r
<1>3. x \in Nat /\ x < SlotsPerDay /\ x >= SquareOffTime /\ x <= r
  BY <1>1, <1>2, WindowConstants DEF LastChance
<1>4. n = SlotsPerDay * d + x
  BY <1>1
<1> HIDE DEF x
<1>5. Day(n) = d /\ TimeOfDay(n) = x
  BY <1>1, <1>3, <1>4, DayUnique
<1>6. r = LastChance => InWindow(n)
  BY <1>3, <1>5, WindowConstants DEF InWindow, InSession, RoomToSquareOff
<1> QED
  BY <1>3, <1>5, <1>6 DEF d, r

\* By the window the feed has a bar of the day.
LEMMA BarInTime ==
  ASSUME RoomToSquareOff, NEW n \in Slots, InWindow(n)
  PROVE  \E b \in Bars : Day(b) = Day(n) /\ b < n
<1> DEFINE d == Day(n)
           b == SlotsPerDay * d + TradingStart
<1>0. n \in Nat /\ MaxClock \in Nat /\ n <= MaxClock
  BY PaperEngineAssumption DEF Slots
<1>1. /\ d \in Nat /\ SlotsPerDay * d \in Nat /\ TimeOfDay(n) \in Nat
      /\ n = SlotsPerDay * d + TimeOfDay(n)
  BY <1>0, DayParts
<1>2. TradingStart \in Nat /\ TradingStart < SlotsPerDay /\ TradingStart < TradingEnd
      /\ TradingStart < TimeOfDay(n) /\ TradingEnd \in Nat
  BY <1>1, WindowConstants DEF InWindow, RoomToSquareOff
<1> HIDE DEF d
<1>3. b \in Nat /\ b < n /\ b \in Slots
  BY <1>0, <1>1, <1>2 DEF Slots
<1>4. Day(b) = d /\ TimeOfDay(b) = TradingStart
  BY <1>1, <1>2, DayUnique
<1> HIDE DEF b
<1>5. b \in Bars
  BY <1>2, <1>3, <1>4 DEF Bars
<1> QED
  BY <1>3, <1>4, <1>5 DEF d

-----------------------------------------------------------------------------
(* The inductive invariant.                                                *)

\* A cycle of the window, on a day the feed and the scheduler serve.
Closing(t) == pc[t] \in Active /\ InWindow(cyc[t].now) /\ Day(cyc[t].now) \notin BadDays

\* A cycle is timely, only a new day reopens an index that was squared off,
\* and a cycle of the window leaves its index flat once it has fetched.
ThreadNight(t) ==
  pc[t] \in Active =>
    /\ cyc[t].now <= clock /\ clock <= cyc[t].now + MaxLag
    /\ sqOff[idx[t]] <= Day(cyc[t].now)
    /\ pc[t] \in {"entry", "fill", "recordEntry"} => sqOff[idx[t]] < Day(cyc[t].now)
    /\ pc[t] = "fill" => TimeOfDay(cyc[t].now) < SquareOffTime
    /\ pc[t] = "recordClose" /\ cyc[t].kind = "squareOff" => qty[idx[t]] = 0
    /\ Closing(t) /\ pc[t] # "fetch" => qty[idx[t]] = 0

\* The scheduler has come to the index at the last chance: it found it flat, or
\* busy, or runs its cycle.
Served(i) ==
  \/ TimeOfDay(clock) > LastChance
  \/ /\ TimeOfDay(clock) = LastChance /\ sched.at = clock /\ i \notin sched.todo
     /\ ~(pc[Scheduler] = "wait" /\ idx[Scheduler] = i)

Closer(i) == \E t \in Threads : idx[t] = i /\ Closing(t) /\ pc[t] = "fetch"

\* From then on whatever is open has a cycle of the window about to close it.
IndexNight(i) ==
  /\ sqOff[i] <= Day(clock)
  /\ qty[i] > 0 => sqOff[i] < Day(clock)
  /\ Day(clock) \notin BadDays /\ Served(i) /\ qty[i] > 0 => Closer(i)

NightInv ==
  /\ sched.at <= clock
  /\ \A t \in Threads : ThreadNight(t)
  /\ \A i \in Indices : IndexNight(i)

\* What a step of thread t leaves to the others: their cycles, and every index
\* but its own.
Apart(t) ==
  /\ \A u \in Threads \ {t} : pc'[u] = pc[u] /\ idx'[u] = idx[u] /\ cyc'[u] = cyc[u]
  /\ \A i \in Indices : pc[t] \notin Active \/ i # idx[t] => qty'[i] = qty[i] /\ sqOff'[i] = sqOff[i]
  /\ clock' = clock /\ sched'.at = sched.at

\* The types the steps need, of a cycle under way.
LEMMA CycleTypes ==
  ASSUME BasicInv, NEW t \in Threads, pc[t] \in Active
  PROVE  /\ idx[t] \in Indices /\ cyc[t] \in Cycle /\ cyc[t].now \in Nat /\ clock \in Nat
         /\ qty[idx[t]] \in Nat /\ sqOff[idx[t]] \in Int /\ Now(t) = cyc[t].now
         /\ Day(cyc[t].now) \in Nat /\ Day(clock) \in Nat
<1>1. /\ idx[t] \in Indices /\ cyc[t] \in Cycle /\ cyc[t].now \in Nat /\ clock \in Nat
      /\ qty[idx[t]] \in Nat /\ sqOff[idx[t]] \in Int
  BY Constants DEF BasicInv, TypeOK, Exclusive, Active
<1> QED
  BY <1>1, DayParts DEF Now

LEMMA OthersNight ==
  ASSUME BasicInv, NightInv, NEW t \in Threads, Apart(t), NEW u \in Threads \ {t}
  PROVE  ThreadNight(u)'
<1>1. pc'[u] = pc[u] /\ idx'[u] = idx[u] /\ cyc'[u] = cyc[u] /\ clock' = clock
  BY DEF Apart
<1>2. CASE pc[u] \notin Active
  BY <1>1, <1>2 DEF ThreadNight
<1>3. CASE pc[u] \in Active
  <2>1. idx[u] \in Indices /\ (pc[t] \in Active => idx[t] # idx[u])
    BY <1>3, OneCyclePerIndex DEF BasicInv, Exclusive, Active
  <2>2. qty'[idx[u]] = qty[idx[u]] /\ sqOff'[idx[u]] = sqOff[idx[u]]
    BY <2>1 DEF Apart
  <2> QED
    BY <1>1, <2>2 DEF ThreadNight, NightInv, Closing
<1> QED
  BY <1>2, <1>3

\* An index the step leaves alone stays as it is, unless it is now that the
\* scheduler comes to it.
LEMMA OtherIndices ==
  ASSUME BasicInv, NightInv, NEW t \in Threads, Apart(t), NEW i \in Indices,
         pc[t] \notin Active \/ i # idx[t], Served(i)' => Served(i)
  PROVE  IndexNight(i)'
<1>1. qty'[i] = qty[i] /\ sqOff'[i] = sqOff[i] /\ clock' = clock /\ Day(clock)' = Day(clock)
  BY DEF Apart, Day
<1>2. Closer(i) => Closer(i)'
  <2> SUFFICES ASSUME NEW u \in Threads, idx[u] = i, Closing(u), pc[u] = "fetch"
               PROVE  Closer(i)'
    BY DEF Closer
  <2>1. u # t
    BY DEF Closing
  <2>2. idx'[u] = i /\ pc'[u] = pc[u] /\ cyc'[u] = cyc[u]
    BY <2>1 DEF Apart
  <2> QED
    BY <2>2 DEF Closer, Closing
<1> QED
  BY <1>1, <1>2 DEF IndexNight, NightInv

\* The index of the cycle that steps: it opens nothing, and a cycle of the
\* window that has fetched leaves it flat.
LEMMA OwnIndex ==
  ASSUME BasicInv, NightInv, NEW t \in Threads, pc[t] \in Active, Apart(t), sched' = sched,
         pc'[t] # "wait", qty'[idx[t]] \in Nat, qty'[idx[t]] <= qty[idx[t]],
         Closing(t) /\ pc[t] = "fetch" => qty'[idx[t]] = 0,
         sqOff'[idx[t]] <= Day(clock), qty'[idx[t]] > 0 => sqOff'[idx[t]] < Day(clock),
         NEW i \in Indices, i = idx[t]
  PROVE  IndexNight(i)'
<1>1. clock' = clock /\ Day(clock)' = Day(clock)
  BY DEF Apart, Day
<1>2. Served(i)' => Served(i)
  <2>1. pc[Scheduler] = "wait" /\ idx[Scheduler] = i => pc'[Scheduler] = "wait" /\ idx'[Scheduler] = i
    BY DEF Apart, Threads, Active
  <2> QED
    BY <1>1, <2>1 DEF Served, TimeOfDay
<1>3. ~(Day(clock) \notin BadDays /\ Served(i) /\ qty'[i] > 0)
  <2> SUFFICES ASSUME Day(clock) \notin BadDays, Served(i), qty'[i] > 0
               PROVE  FALSE
    OBVIOUS
  <2>1. qty[i] > 0
    BY CycleTypes
  <2>2. Closer(i)
    BY <2>1 DEF NightInv, IndexNight
  <2>3. PICK u \in Threads : idx[u] = i /\ Closing(u) /\ pc[u] = "fetch"
    BY <2>2 DEF Closer
  <2>4. u = t
    BY <2>3, OneCyclePerIndex DEF Active
  <2> QED
    BY <2>3, <2>4
<1> QED
  BY <1>1, <1>2, <1>3 DEF IndexNight

\* A step of a cycle keeps the invariant when it keeps its own part of it.
LEMMA NightOfThread ==
  ASSUME BasicInv, NightInv, NEW t \in Threads, pc[t] \in Active, Apart(t), sched' = sched,
         pc'[t] # "wait", ThreadNight(t)', NEW j \in Indices, j = idx[t], IndexNight(j)'
  PROVE  NightInv'
<1>1. \A u \in Threads : ThreadNight(u)'
  BY OthersNight
<1>2. ASSUME NEW i \in Indices, i # idx[t]
      PROVE  IndexNight(i)'
  <2>1. pc[Scheduler] = "wait" /\ idx[Scheduler] = i => pc'[Scheduler] = "wait" /\ idx'[Scheduler] = i
    BY DEF Apart, Threads, Active
  <2>2. Served(i)' => Served(i)
    BY <2>1 DEF Served, Apart, TimeOfDay
  <2> QED
    BY <1>2, <2>2, OtherIndices
<1>3. \A i \in Indices : IndexNight(i)'
  BY <1>2
<1> QED
  BY <1>1, <1>3 DEF NightInv, Apart

-----------------------------------------------------------------------------
(* The steps of a cycle.                                                   *)

\* A cycle of the window finds what is open either missed or due.
LEMMA StrategyFlat ==
  ASSUME BasicInv, NightInv, NEW t \in Threads, NEW latest, Strategy(t, latest), Closing(t)
  PROVE  qty[idx[t]] = 0
<1>1. /\ pc[t] \in Active /\ idx[t] \in Indices /\ cyc[t].now \in Nat /\ clock \in Nat
      /\ Now(t) = cyc[t].now /\ qty[idx[t]] \in Nat /\ sqOff[idx[t]] \in Int
      /\ Day(cyc[t].now) \in Nat
  BY CycleTypes DEF Closing
<1>2. Day(clock) = Day(Now(t))
  BY <1>1, SessionDay DEF Closing, InWindow, NightInv, ThreadNight
<1>3. qty[idx[t]] > 0 => sqOff[idx[t]] < Day(Now(t))
  BY <1>1, <1>2 DEF NightInv, IndexNight
<1> QED
  BY <1>1, <1>3 DEF Strategy, SquareOffDue, Held, Closing, InWindow

\* The fetch of such a cycle succeeds, with a bar of the day.
LEMMA FetchedToday ==
  ASSUME RoomToSquareOff, BasicInv, NightInv, NEW t \in Threads, Closing(t)
  PROVE  /\ \E b \in Bars : b <= clock
         /\ \A latest : Fetched(t, latest) => Day(latest) = Day(Now(t))
<1>1. Now(t) = cyc[t].now /\ cyc[t].now \in Nat /\ clock \in Slots /\ cyc[t].now <= clock
  BY CycleTypes DEF Closing, NightInv, ThreadNight, BasicInv, TypeOK
<1>2. cyc[t].now \in Slots
  BY <1>1, PaperEngineAssumption DEF Slots
<1>3. PICK b \in Bars : Day(b) = Day(Now(t)) /\ b < Now(t)
  BY <1>1, <1>2, BarInTime DEF Closing
<1>4. b <= clock
  BY <1>1, <1>3, Constants
<1> QED
  BY <1>1, <1>3, <1>4 DEF Fetched, FeedIsCurrent, Closing

\* A cycle that ends without a fill: one of the window leaves nothing open.
LEMMA ReleaseNight ==
  ASSUME BasicInv, NightInv, NEW t \in Threads, pc[t] \in Active, Release(t), clock' = clock,
         UNCHANGED <<qty, sqOff, sched>>, Closing(t) /\ pc[t] = "fetch" => qty[idx[t]] = 0
  PROVE  NightInv'
<1>1. pc'[t] = "idle" /\ Apart(t)
  BY DEF BasicInv, TypeOK, Release, Apart
<1>2. ThreadNight(t)'
  BY <1>1 DEF ThreadNight, Active
<1>3. PICK j \in Indices : j = idx[t]
  BY CycleTypes
<1>4. sqOff[j] <= Day(clock) /\ (qty[j] > 0 => sqOff[j] < Day(clock)) /\ qty[j] \in Nat
  BY <1>3, CycleTypes DEF NightInv, IndexNight
<1>5. IndexNight(j)'
  BY <1>1, <1>3, <1>4, OwnIndex
<1> QED
  BY <1>1, <1>2, <1>3, <1>5, NightOfThread

LEMMA EndNight ==
  ASSUME RoomToSquareOff, BasicInv, NightInv, NEW t \in Threads,
         FetchFails(t) \/ NoContract(t) \/ NotConfigured(t) \/ Commit(t) \/ RollBack(t)
  PROVE  NightInv'
<1>1. Release(t) /\ UNCHANGED <<clock, memory, sched>> /\ pc[t] \in Active
  BY DEF FetchFails, NoContract, NotConfigured, Commit, RollBack, Active
<1>2. ~(Closing(t) /\ pc[t] = "fetch")
  <2> SUFFICES ASSUME Closing(t), pc[t] = "fetch" PROVE FALSE
    OBVIOUS
  <2>1. PICK b \in Bars : b <= clock
    BY FetchedToday
  <2>2. \A c \in Bars : c > clock
    BY DEF FetchFails, NoContract, NotConfigured, Commit, RollBack, Closing, Now
  <2>3. b \in Int /\ clock \in Int
    BY BarsType, CycleTypes, <1>1
  <2> QED
    BY <2>1, <2>2, <2>3
<1> QED
  BY <1>1, <1>2, ReleaseNight DEF memory

LEMMA AwaitTodayNight ==
  ASSUME RoomToSquareOff, BasicInv, NightInv, NEW t \in Threads, NEW latest \in Bars,
         AwaitToday(t, latest)
  PROVE  NightInv'
<1>1. Release(t) /\ UNCHANGED <<clock, memory, sched>> /\ pc[t] \in Active /\ Now(t) = cyc[t].now
  BY DEF AwaitToday, Fetched, Active, Now
<1>2. ~Closing(t)
  BY <1>1, FetchedToday DEF AwaitToday, Closing, InWindow
<1> QED
  BY <1>1, <1>2, ReleaseNight DEF memory

LEMMA NoSignalNight ==
  ASSUME BasicInv, NightInv, NEW t \in Threads, NEW latest \in Bars, NoSignal(t, latest)
  PROVE  NightInv'
<1>1. Release(t) /\ UNCHANGED <<clock, qty, sqOff, sched>> /\ pc[t] \in Active /\ Strategy(t, latest)
  BY DEF NoSignal, Strategy, Fetched, Active
<1> QED
  BY <1>1, StrategyFlat, ReleaseNight

\* A fill that closes or reduces a position; in the window it closes.
LEMMA CloseOutNight ==
  ASSUME BasicInv, NightInv, NEW t \in Threads, pc[t] = "fetch", NEW q \in Nat, NEW bar \in Int,
         NEW pnl \in Int, NEW kind \in {"exit", "squareOff", "recovery"},
         CloseOut(t, q, bar, pnl, kind), UNCHANGED <<clock, sched>>,
         Closing(t) \/ kind = "squareOff" => q = qty[idx[t]]
  PROVE  NightInv'
<1>0. pc[t] \in Active
  BY DEF Active
<1>1. PICK j \in Indices : j = idx[t]
  BY <1>0, CycleTypes
<1>2. qty' = [qty EXCEPT ![j] = @ - CloseQuantity(q, @)] /\ qty[j] \in Nat
  BY <1>1 DEF CloseOut, BasicInv, TypeOK
<1>3. /\ pc'[t] = "recordClose" /\ idx' = idx /\ sqOff' = sqOff
      /\ cyc'[t].kind = kind /\ cyc'[t].now = cyc[t].now
      /\ \A u \in Threads \ {t} : pc'[u] = pc[u] /\ cyc'[u] = cyc[u]
  BY DEF CloseOut, BasicInv, TypeOK, Cycle
<1>4. /\ qty'[j] = qty[j] - CloseQuantity(q, qty[j])
      /\ \A i \in Indices \ {j} : qty'[i] = qty[i]
  BY <1>1, <1>2 DEF BasicInv, TypeOK
<1>5. qty'[j] \in Nat
  BY <1>2, <1>4, CloseReduces
<1>6. Closing(t) \/ kind = "squareOff" => qty'[j] = 0
  BY <1>1, <1>2, <1>4 DEF CloseQuantity
<1>7. qty'[j] <= qty[j]
  BY <1>2, <1>4 DEF CloseQuantity
<1>8. Apart(t)
  BY <1>0, <1>1, <1>3, <1>4 DEF Apart
<1>9. ThreadNight(t)'
  <2>1. sqOff'[idx'[t]] = sqOff[idx[t]] /\ qty'[idx'[t]] = qty'[j]
    BY <1>1, <1>3
  <2>2. Closing(t)' => Closing(t)
    BY <1>0, <1>3 DEF Closing
  <2> QED
    BY <1>0, <1>3, <1>6, <2>1, <2>2 DEF ThreadNight, NightInv
<1>10. sqOff[j] <= Day(clock) /\ (qty[j] > 0 => sqOff[j] < Day(clock))
  BY DEF NightInv, IndexNight
<1>11. IndexNight(j)'
  <2>1. qty'[j] > 0 => qty[j] > 0
    BY <1>2, <1>5, <1>7
  <2> QED
    BY <1>0, <1>1, <1>3, <1>5, <1>6, <1>7, <1>8, <1>10, <2>1, OwnIndex
<1> QED
  BY <1>0, <1>1, <1>3, <1>8, <1>9, <1>11, NightOfThread

LEMMA ForceCloseNight ==
  ASSUME BasicInv, NightInv, NEW t \in Threads, NEW latest \in Bars, NEW pnl \in Pnls,
         ForceClose(t, latest, pnl)
  PROVE  NightInv'
<1>1. pc[t] = "fetch" /\ pc[t] \in Active /\ UNCHANGED <<clock, sched>>
  BY DEF ForceClose, Fetched, Active
<1>2. PICK kind \in {"exit", "squareOff", "recovery"} : CloseOut(t, qty[idx[t]], latest, pnl, kind)
  BY DEF ForceClose
<1>3. qty[idx[t]] \in Nat /\ pnl \in Int /\ latest \in Int
  BY <1>1, BarsType, CycleTypes, PaperEngineAssumption
<1> QED
  BY <1>1, <1>2, <1>3, CloseOutNight

LEMMA ExitSignalNight ==
  ASSUME BasicInv, NightInv, NEW t \in Threads, NEW latest \in Bars,
         NEW bar \in Bars, NEW pnl \in Pnls, NEW price \in Prices, ExitSignal(t, latest, bar, pnl, price)
  PROVE  NightInv'
<1>1. /\ pc[t] = "fetch" /\ pc[t] \in Active /\ UNCHANGED <<clock, sched>> /\ Held(t)
      /\ Strategy(t, latest)
  BY DEF ExitSignal, Strategy, Fetched, Active
<1>2. ~Closing(t)
  BY <1>1, StrategyFlat DEF Held
<1>3. cyc[t].qty \in Int /\ pnl \in Int /\ bar \in Int
  BY <1>1, BarsType, CycleTypes, PaperEngineAssumption DEF Cycle
<1>4. CASE CheckPasses(risk, OrderOf(t, "SELL", price), Now(t))
  <2>1. CloseOut(t, cyc[t].qty, bar, pnl, "exit") /\ cyc[t].qty > 0
    BY <1>4 DEF ExitSignal, CheckPasses, SizeGates, OrderOf
  <2> QED
    BY <1>1, <1>2, <1>3, <2>1, CloseOutNight
<1>5. CASE ~CheckPasses(risk, OrderOf(t, "SELL", price), Now(t))
  BY <1>1, <1>2, <1>5, ReleaseNight DEF ExitSignal
<1> QED
  BY <1>4, <1>5

\* A step of a cycle that goes on: the positions stay, and the time it began.
LEMMA GoOn ==
  ASSUME BasicInv, NightInv, NEW t \in Threads, pc[t] \in Active, NEW p \in Active \ {"fetch"},
         pc' = [pc EXCEPT ![t] = p], idx' = idx, cyc'[t].now = cyc[t].now,
         \A u \in Threads \ {t} : cyc'[u] = cyc[u],
         UNCHANGED <<clock, sched, qty, sqOff>>,
         Closing(t) => qty[idx[t]] = 0,
         p \in {"entry", "fill", "recordEntry"} => sqOff[idx[t]] < Day(cyc[t].now),
         p = "fill" => TimeOfDay(cyc[t].now) < SquareOffTime,
         p # "recordClose"
  PROVE  NightInv'
<1>1. PICK j \in Indices : j = idx[t]
  BY CycleTypes
<1>2. pc'[t] = p /\ \A u \in Threads \ {t} : pc'[u] = pc[u]
  BY DEF BasicInv, TypeOK
<1>3. Apart(t)
  BY <1>2 DEF Apart
<1>4. ThreadNight(t)'
  <2>1. Closing(t)' => Closing(t)
    BY DEF Closing
  <2> QED
    BY <1>2, <2>1 DEF ThreadNight, NightInv
<1>5. sqOff[j] <= Day(clock) /\ (qty[j] > 0 => sqOff[j] < Day(clock)) /\ qty[j] \in Nat
  BY <1>1, CycleTypes DEF NightInv, IndexNight
<1>6. IndexNight(j)'
  BY <1>1, <1>2, <1>3, <1>5, OwnIndex DEF Active
<1> QED
  BY <1>1, <1>2, <1>3, <1>4, <1>6, NightOfThread DEF Active

LEMMA EntrySignalNight ==
  ASSUME BasicInv, NightInv, NEW t \in Threads, NEW latest \in Bars, NEW bar \in Bars,
         EntrySignal(t, latest, bar)
  PROVE  NightInv'
<1>1. /\ pc[t] \in Active /\ UNCHANGED <<clock, sched, qty, sqOff>> /\ ~Held(t)
  BY DEF EntrySignal, Strategy, Fetched, Active
<1>2. qty[idx[t]] = 0
  BY <1>1, CycleTypes DEF Held
<1>3. CASE Release(t)
  BY <1>1, <1>2, <1>3, ReleaseNight
<1>4. CASE ~Release(t)
  <2>1. /\ sqOff[idx[t]] # Day(Now(t)) /\ pc' = [pc EXCEPT ![t] = "entry"]
        /\ cyc' = [cyc EXCEPT ![t].bar = bar, ![t].kind = "entry"] /\ idx' = idx
    BY <1>4 DEF EntrySignal
  <2>2. cyc'[t].now = cyc[t].now /\ \A u \in Threads \ {t} : cyc'[u] = cyc[u]
    BY <1>1, <2>1, CycleTypes DEF BasicInv, TypeOK, Cycle
  <2>3. sqOff[idx[t]] < Day(cyc[t].now)
    BY <1>1, <2>1, CycleTypes DEF NightInv, ThreadNight
  <2> QED
    BY <1>1, <1>2, <2>1, <2>2, <2>3, GoOn DEF Active
<1> QED
  BY <1>3, <1>4

LEMMA CheckEntryNight ==
  ASSUME RoomToSquareOff, BasicInv, NightInv, NEW t \in Threads, NEW price \in Prices,
         CheckEntry(t, price)
  PROVE  NightInv'
<1>1. /\ pc[t] = "entry" /\ pc[t] \in Active /\ UNCHANGED <<clock, sched, qty, sqOff>>
  BY DEF CheckEntry, Active
<1>2. Closing(t) => qty[idx[t]] = 0
  BY <1>1 DEF NightInv, ThreadNight
<1>3. CASE Release(t)
  BY <1>1, <1>2, <1>3, ReleaseNight
<1>4. CASE ~Release(t)
  <2>1. /\ CheckPasses(risk, OrderOf(t, "BUY", price), Now(t))
        /\ pc' = [pc EXCEPT ![t] = "fill"] /\ UNCHANGED <<lock, idx, cyc>>
    BY <1>4 DEF CheckEntry
  <2>2. TimeOfDay(cyc[t].now) <= EntryCutoff
    BY <2>1 DEF CheckPasses, EntryGates, OrderOf, Now
  <2>3. TimeOfDay(cyc[t].now) < SquareOffTime
    <3>1. TimeOfDay(cyc[t].now) \in Nat
      BY <1>1, CycleTypes, DayParts
    <3> QED
      BY <2>2, <3>1, RiskLimitsAssumption DEF RoomToSquareOff
  <2>4. sqOff[idx[t]] < Day(cyc[t].now)
    BY <1>1 DEF NightInv, ThreadNight
  <2> QED
    BY <1>1, <1>2, <2>1, <2>3, <2>4, GoOn DEF Active
<1> QED
  BY <1>3, <1>4

LEMMA FillEntryNight ==
  ASSUME RoomToSquareOff, BasicInv, NightInv, NEW t \in Threads, FillEntry(t)
  PROVE  NightInv'
<1>1. /\ pc[t] = "fill" /\ pc[t] \in Active /\ pc' = [pc EXCEPT ![t] = "recordEntry"]
      /\ qty' = [qty EXCEPT ![idx[t]] = @ + cyc[t].qty]
      /\ UNCHANGED <<clock, sqOff, idx, cyc, sched>>
  BY DEF FillEntry, Active
<1>2. PICK j \in Indices : j = idx[t]
  BY <1>1, CycleTypes
<1>3. /\ cyc[t].now \in Nat /\ clock \in Nat /\ cyc[t].now <= clock /\ clock <= cyc[t].now + MaxLag
      /\ TimeOfDay(cyc[t].now) < SquareOffTime /\ sqOff[j] < Day(cyc[t].now)
      /\ sqOff[j] \in Int /\ Day(cyc[t].now) \in Nat /\ Day(clock) \in Nat
  BY <1>1, <1>2, CycleTypes DEF NightInv, ThreadNight
<1>4. pc'[t] = "recordEntry" /\ Apart(t)
  <2>1. pc'[t] = "recordEntry" /\ \A u \in Threads \ {t} : pc'[u] = pc[u]
    BY <1>1 DEF BasicInv, TypeOK
  <2>2. \A i \in Indices : i # idx[t] => qty'[i] = qty[i]
    BY <1>1 DEF BasicInv, TypeOK
  <2> QED
    BY <1>1, <2>1, <2>2 DEF Apart
<1>5. TimeOfDay(cyc[t].now) \in Nat /\ SquareOffTime \in Nat /\ LastChance \in Nat
  BY <1>3, DayParts, WindowConstants
<1>6. ThreadNight(t)'
  <2>1. ~Closing(t)'
    BY <1>1, <1>3, <1>5 DEF Closing, InWindow
  <2> QED
    BY <1>1, <1>4, <2>1 DEF ThreadNight, NightInv
<1>7. ~Served(j)
  <2>1. ~(TimeOfDay(clock) >= LastChance)
    BY <1>3, <1>5, BegunInWindow
  <2>2. TimeOfDay(clock) \in Nat
    BY <1>3, DayParts
  <2> QED
    BY <1>5, <2>1, <2>2 DEF Served
<1>8. IndexNight(j)'
  <2>1. Day(clock)' = Day(clock)
    BY <1>1 DEF Day
  <2>2. ~Served(j)'
    <3>1. pc[Scheduler] = "wait" /\ idx[Scheduler] = j => pc'[Scheduler] = "wait" /\ idx'[Scheduler] = j
      BY <1>1, <1>4 DEF Apart, Threads
    <3> QED
      BY <1>1, <1>7, <3>1 DEF Served, TimeOfDay
  <2>3. sqOff[j] < Day(clock)
    BY <1>3, DayGrows
  <2> QED
    BY <1>1, <1>3, <2>1, <2>2, <2>3 DEF IndexNight
<1> QED
  BY <1>1, <1>2, <1>4, <1>6, <1>8, NightOfThread

LEMMA RecordEntryFillNight ==
  ASSUME BasicInv, NightInv, NEW t \in Threads, RecordEntryFill(t)
  PROVE  NightInv'
<1>1. /\ pc[t] = "recordEntry" /\ pc[t] \in Active /\ pc' = [pc EXCEPT ![t] = "rows"]
      /\ UNCHANGED <<clock, sched, qty, sqOff, idx, cyc>>
  BY DEF RecordEntryFill, Active
<1>2. Closing(t) => qty[idx[t]] = 0
  BY <1>1 DEF NightInv, ThreadNight
<1> QED
  BY <1>1, <1>2, GoOn DEF Active

LEMMA BuildRowsNight ==
  ASSUME BasicInv, NightInv, NEW t \in Threads, BuildRows(t)
  PROVE  NightInv'
<1>1. /\ pc[t] = "rows" /\ pc[t] \in Active /\ pc' = [pc EXCEPT ![t] = "commit"]
      /\ UNCHANGED <<clock, sched, qty, sqOff, idx>>
  BY DEF BuildRows, Active, memory
<1>2. Closing(t) => qty[idx[t]] = 0
  BY <1>1 DEF NightInv, ThreadNight
<1>3. cyc'[t].now = cyc[t].now /\ \A u \in Threads \ {t} : cyc'[u] = cyc[u]
  BY <1>1, CycleTypes DEF BuildRows, BasicInv, TypeOK, Cycle
<1> QED
  BY <1>1, <1>2, <1>3, GoOn DEF Active

\* A square-off marks its day, and leaves the index flat.
LEMMA RecordCloseNight ==
  ASSUME BasicInv, NightInv, NEW t \in Threads, RecordClose(t)
  PROVE  NightInv'
<1>1. /\ pc[t] = "recordClose" /\ pc[t] \in Active /\ pc' = [pc EXCEPT ![t] = "rows"]
      /\ sqOff' = IF cyc[t].kind = "squareOff" THEN [sqOff EXCEPT ![idx[t]] = Day(Now(t))] ELSE sqOff
      /\ UNCHANGED <<clock, sched, qty, idx, cyc>>
  BY DEF RecordClose, Active
<1>2. PICK j \in Indices : j = idx[t]
  BY <1>1, CycleTypes
<1>3. /\ cyc[t].now \in Nat /\ clock \in Nat /\ cyc[t].now <= clock /\ Now(t) = cyc[t].now
      /\ qty[j] \in Nat /\ sqOff[j] \in Int /\ Day(cyc[t].now) \in Nat /\ Day(clock) \in Nat
  BY <1>1, <1>2, CycleTypes DEF NightInv, ThreadNight
<1>4. Day(cyc[t].now) <= Day(clock)
  BY <1>3, DayGrows
<1>5. sqOff'[j] = IF cyc[t].kind = "squareOff" THEN Day(cyc[t].now) ELSE sqOff[j]
  BY <1>1, <1>2, <1>3 DEF BasicInv, TypeOK
<1>6. pc'[t] = "rows" /\ Apart(t)
  BY <1>1, <1>2 DEF Apart, BasicInv, TypeOK
<1>7. cyc[t].kind = "squareOff" => qty[j] = 0
  BY <1>1, <1>2 DEF NightInv, ThreadNight
<1>8. ThreadNight(t)'
  <2>1. Closing(t)' => Closing(t)
    BY <1>1 DEF Closing
  <2>2. sqOff'[j] <= Day(cyc[t].now)
    BY <1>1, <1>2, <1>3, <1>5 DEF NightInv, ThreadNight
  <2> QED
    BY <1>1, <1>2, <1>6, <2>1, <2>2 DEF ThreadNight, NightInv
<1>9. IndexNight(j)'
  <2>1. sqOff[j] <= Day(clock) /\ (qty[j] > 0 => sqOff[j] < Day(clock))
    BY DEF NightInv, IndexNight
  <2>2. sqOff'[j] <= Day(clock) /\ (qty[j] > 0 => sqOff'[j] < Day(clock))
    BY <1>3, <1>4, <1>5, <1>7, <2>1
  <2> QED
    BY <1>1, <1>2, <1>3, <1>6, <2>2, OwnIndex
<1> QED
  BY <1>1, <1>2, <1>6, <1>8, <1>9, NightOfThread

-----------------------------------------------------------------------------
(* No lock outlives its cycle.                                             *)

LocksOfCycles ==
  /\ \A i \in Indices : lock[i] # NoThread => pc[lock[i]] \in Active /\ idx[lock[i]] = i
  /\ guard # NoThread => pc[guard] \in {"fill", "recordEntry"}

\* What the steps of a cycle do to the locks.
LEMMA ReleaseLocks ==
  ASSUME BasicInv, LocksOfCycles, NEW t \in Threads, pc[t] \in Active \ {"fill", "recordEntry"},
         Release(t), guard' = guard
  PROVE  LocksOfCycles'
<1>1. PICK j \in Indices : j = idx[t]
  BY CycleTypes
<1>2. lock'[j] = NoThread /\ \A i \in Indices \ {j} : lock'[i] = lock[i]
  BY <1>1 DEF Release, BasicInv, TypeOK
<1>3. \A u \in Threads \ {t} : pc'[u] = pc[u] /\ idx'[u] = idx[u]
  BY DEF Release, BasicInv, TypeOK
<1>4. \A i \in Indices : lock'[i] # NoThread => lock'[i] = lock[i] /\ lock[i] \in Threads \ {t}
  BY <1>1, <1>2 DEF LocksOfCycles, BasicInv, TypeOK
<1>5. guard # NoThread => guard \in Threads \ {t}
  BY DEF LocksOfCycles, BasicInv, TypeOK
<1> QED
  BY <1>3, <1>4, <1>5 DEF LocksOfCycles

\* The step of a cycle that keeps its index and takes or leaves no guard.
LEMMA GoOnLocks ==
  ASSUME BasicInv, LocksOfCycles, NEW t \in Threads, NEW p \in Active, pc' = [pc EXCEPT ![t] = p],
         UNCHANGED <<lock, idx, guard>>, pc[t] = "fill" => p = "recordEntry", pc[t] # "recordEntry"
  PROVE  LocksOfCycles'
BY DEF LocksOfCycles, BasicInv, TypeOK

LEMMA LocksStep ==
  ASSUME BasicInv, LocksOfCycles, MaxCrashes \in Nat, [Next]_vars
  PROVE  LocksOfCycles'
<1> USE DEF control
<1>1. CASE SchedulerTick \/ (\E i \in Indices : SchedulerSkip(i)) \/ (\E cmd \in Commands : Operate(cmd))
           \/ OperatorBuilds \/ OperatorCommits \/ Tick \/ UNCHANGED vars
  BY <1>1 DEF SchedulerTick, SchedulerSkip, Operate, OperatorBuilds, OperatorCommits, Tick, vars, LocksOfCycles
<1>2. ASSUME NEW t \in Threads, NEW i \in Indices, NEW q \in Quantities \cup {1}, Request(t, i, q)
      PROVE  LocksOfCycles'
  BY <1>2 DEF Request, LocksOfCycles, BasicInv, TypeOK, Active
<1>3. ASSUME NEW t \in Threads, Busy(t)
      PROVE  LocksOfCycles'
  BY <1>3 DEF Busy, LocksOfCycles, BasicInv, TypeOK, Active
<1>4. ASSUME NEW t \in Threads, Begin(t)
      PROVE  LocksOfCycles'
  <2>1. PICK j \in Indices : j = idx[t] /\ lock[j] = NoThread
    BY <1>4 DEF Begin, LockFree, BasicInv, Exclusive
  <2>2. pc[t] \notin Active /\ pc'[t] = "fetch" /\ idx' = idx /\ guard' = guard
        /\ \A u \in Threads \ {t} : pc'[u] = pc[u]
    BY <1>4 DEF Begin, Active, BasicInv, TypeOK
  <2>3. lock'[j] = t /\ \A i \in Indices \ {j} : lock'[i] = lock[i]
    BY <1>4, <2>1 DEF Begin, BasicInv, TypeOK
  <2>4. \A i \in Indices : lock[i] # NoThread => lock[i] \in Threads \ {t}
    BY <2>2 DEF LocksOfCycles, BasicInv, TypeOK
  <2>5. guard # NoThread => guard \in Threads \ {t}
    BY <2>2 DEF LocksOfCycles, BasicInv, TypeOK, Active
  <2> QED
    BY <2>1, <2>2, <2>3, <2>4, <2>5 DEF LocksOfCycles, Active
<1>5. ASSUME NEW t \in Threads,
             FetchFails(t) \/ NoContract(t) \/ NotConfigured(t) \/ Commit(t) \/ RollBack(t)
      PROVE  LocksOfCycles'
  <2>1. Release(t) /\ guard' = guard /\ pc[t] \in Active \ {"fill", "recordEntry"}
    BY <1>5 DEF FetchFails, NoContract, NotConfigured, Commit, RollBack, Active
  <2> QED
    BY <2>1, ReleaseLocks
<1>6. ASSUME NEW t \in Threads, Decide(t)
      PROVE  LocksOfCycles'
  <2>1. pc[t] = "fetch" /\ pc[t] \in Active \ {"fill", "recordEntry"} /\ guard' = guard
    BY <1>6 DEF Decide, AwaitToday, ForceClose, NoSignal, ExitSignal, EntrySignal, Active
  <2>2. \/ Release(t)
        \/ \E p \in {"entry", "recordClose"} : pc' = [pc EXCEPT ![t] = p] /\ UNCHANGED <<lock, idx>>
    <3>1. ASSUME NEW latest \in Bars, AwaitToday(t, latest) \/ NoSignal(t, latest)
          PROVE  Release(t)
      BY <3>1 DEF AwaitToday, NoSignal
    <3>2. ASSUME NEW q, NEW bar, NEW pnl, NEW kind, CloseOut(t, q, bar, pnl, kind)
          PROVE  pc' = [pc EXCEPT ![t] = "recordClose"] /\ UNCHANGED <<lock, idx>>
      BY <3>2 DEF CloseOut
    <3>3. ASSUME NEW latest \in Bars, NEW pnl \in Pnls, ForceClose(t, latest, pnl)
          PROVE  pc' = [pc EXCEPT ![t] = "recordClose"] /\ UNCHANGED <<lock, idx>>
      BY <3>2, <3>3 DEF ForceClose
    <3>4. ASSUME NEW latest \in Bars, NEW bar \in Bars, NEW pnl \in Pnls, NEW price \in Prices,
                 ExitSignal(t, latest, bar, pnl, price)
          PROVE  Release(t) \/ (pc' = [pc EXCEPT ![t] = "recordClose"] /\ UNCHANGED <<lock, idx>>)
      BY <3>2, <3>4 DEF ExitSignal
    <3>5. ASSUME NEW latest \in Bars, NEW bar \in Bars, EntrySignal(t, latest, bar)
          PROVE  Release(t) \/ (pc' = [pc EXCEPT ![t] = "entry"] /\ UNCHANGED <<lock, idx>>)
      BY <3>5 DEF EntrySignal
    <3> QED
      BY <1>6, <3>1, <3>3, <3>4, <3>5 DEF Decide
  <2> QED
    BY <2>1, <2>2, ReleaseLocks, GoOnLocks DEF Active
<1>7. ASSUME NEW t \in Threads, NEW price \in Prices, CheckEntry(t, price)
      PROVE  LocksOfCycles'
  <2>1. pc[t] = "entry" /\ pc[t] \in Active \ {"fill", "recordEntry"} /\ guard = NoThread
    BY <1>7 DEF CheckEntry, GuardFree, Active
  <2>2. CASE Release(t) /\ guard' = guard
    BY <2>1, <2>2, ReleaseLocks
  <2>3. CASE guard' = t /\ pc' = [pc EXCEPT ![t] = "fill"] /\ UNCHANGED <<lock, idx>>
    BY <2>1, <2>3 DEF LocksOfCycles, BasicInv, TypeOK, Active
  <2> QED
    BY <1>7, <2>2, <2>3 DEF CheckEntry
<1>8. ASSUME NEW t \in Threads, RecordEntryFill(t)
      PROVE  LocksOfCycles'
  BY <1>8 DEF RecordEntryFill, LocksOfCycles, BasicInv, TypeOK, Active
<1>9. ASSUME NEW t \in Threads, FillEntry(t) \/ RecordClose(t) \/ BuildRows(t)
      PROVE  LocksOfCycles'
  <2>1. UNCHANGED <<lock, idx, guard>> /\ pc[t] # "recordEntry"
    BY <1>9 DEF FillEntry, RecordClose, BuildRows
  <2>2. \/ pc' = [pc EXCEPT ![t] = "recordEntry"]
        \/ pc[t] # "fill" /\ pc' = [pc EXCEPT ![t] = "rows"]
        \/ pc[t] # "fill" /\ pc' = [pc EXCEPT ![t] = "commit"]
    BY <1>9 DEF FillEntry, RecordClose, BuildRows
  <2> QED
    BY <2>1, <2>2, GoOnLocks DEF Active
<1>10. CASE Restart
  BY <1>10 DEF Restart, LocksOfCycles
<1>11. ASSUME NEW t \in Threads, Work(t)
       PROVE  LocksOfCycles'
  BY <1>11, <1>3, <1>4, <1>5, <1>6, <1>7, <1>8, <1>9 DEF Work
<1> QED
  BY <1>1, <1>2, <1>10, <1>11 DEF Next

\* Every way out of a cycle frees its index and the guard of new entries, so
\* neither is ever left locked by a cycle that is over: a lock has a running
\* cycle of the index, the guard one between its check and its bookkeeping
\* (_run_and_persist_cycle, _entry_guard).
THEOREM LocksFreed == Spec => []LocksOfCycles
<1>1. Init => LocksOfCycles
  BY DEF Init, LocksOfCycles
<1>2. BasicInv /\ LocksOfCycles /\ [Next]_vars => LocksOfCycles'
  BY LocksStep, PaperEngineAssumption
<1>3. Spec => []BasicInv
  BY EngineTyped DEF BasicInv
<1> QED
  BY <1>1, <1>2, <1>3, PTL DEF Spec

-----------------------------------------------------------------------------
(* The scheduler comes to each index, and time passes.                     *)

LEMMA RequestNight ==
  ASSUME BasicInv, NightInv, NEW t \in Threads, NEW j \in Indices, NEW q \in Quantities \cup {1},
         Request(t, j, q)
  PROVE  NightInv'
<1>1. /\ pc[t] = "idle" /\ pc' = [pc EXCEPT ![t] = "wait"] /\ idx' = [idx EXCEPT ![t] = j]
      /\ UNCHANGED <<clock, qty, sqOff>>
      /\ IF t = Scheduler THEN sched' = [sched EXCEPT !.todo = @ \ {j}] ELSE sched' = sched
  BY DEF Request, memory
<1>2. sched'.at = sched.at /\ (t = Scheduler => sched'.todo = sched.todo \ {j})
  BY <1>1 DEF BasicInv, TypeOK
<1>3. pc'[t] = "wait" /\ idx'[t] = j /\ pc[t] \notin Active
  BY <1>1 DEF BasicInv, TypeOK, Active
<1>4. Apart(t)
  BY <1>1, <1>2, <1>3 DEF Apart, Request, BasicInv, TypeOK
<1>5. \A u \in Threads : ThreadNight(u)'
  BY <1>3, <1>4, OthersNight DEF ThreadNight, Active
<1>6. ASSUME NEW i \in Indices
      PROVE  IndexNight(i)'
  <2>1. CASE t = Scheduler
    <3>1. Served(i)' => Served(i)
      BY <1>1, <1>2, <1>3, <2>1 DEF Served, TimeOfDay
    <3> QED
      BY <1>3, <1>4, <3>1, OtherIndices
  <2>2. CASE t # Scheduler
    <3>1. pc'[Scheduler] = pc[Scheduler] /\ idx'[Scheduler] = idx[Scheduler]
      BY <1>4, <2>2 DEF Apart, Threads
    <3>2. Served(i)' => Served(i)
      BY <1>1, <2>2, <3>1 DEF Served, TimeOfDay
    <3> QED
      BY <1>3, <1>4, <3>2, OtherIndices
  <2> QED
    BY <2>1, <2>2
<1> QED
  BY <1>4, <1>5, <1>6 DEF NightInv, Apart

\* An index that is busy at the last chance is being closed.
LEMMA BusyNight ==
  ASSUME RoomToSquareOff, BasicInv, NightInv, LocksOfCycles, NEW t \in Threads, Busy(t)
  PROVE  NightInv'
<1>1. /\ pc[t] = "wait" /\ pc' = [pc EXCEPT ![t] = "idle"] /\ lock[idx[t]] # NoThread
      /\ UNCHANGED <<clock, qty, sqOff, sched>>
  BY DEF Busy, memory
<1>2. pc'[t] = "idle" /\ pc[t] \notin Active
  BY <1>1 DEF BasicInv, TypeOK, Active
<1>3. Apart(t)
  BY <1>1, <1>2 DEF Apart, Busy, BasicInv, TypeOK
<1>4. \A u \in Threads : ThreadNight(u)'
  BY <1>2, <1>3, OthersNight DEF ThreadNight, Active
<1>5. ASSUME NEW i \in Indices, i # idx[t] \/ t # Scheduler \/ TimeOfDay(clock) # LastChance
      PROVE  IndexNight(i)'
  <2>1. Served(i)' => Served(i)
    <3>1. t # Scheduler => pc'[Scheduler] = pc[Scheduler] /\ idx'[Scheduler] = idx[Scheduler]
      BY <1>3 DEF Apart, Threads
    <3>2. t = Scheduler /\ i # idx[t] => ~(pc[Scheduler] = "wait" /\ idx[Scheduler] = i)
      OBVIOUS
    <3> QED
      BY <1>1, <1>5, <3>1, <3>2 DEF Served, TimeOfDay
  <2> QED
    BY <1>2, <1>3, <2>1, OtherIndices
<1>6. ASSUME NEW i \in Indices, i = idx[t], TimeOfDay(clock) = LastChance
      PROVE  IndexNight(i)'
  <2>1. PICK u \in Threads : u = lock[i] /\ pc[u] \in Active /\ idx[u] = i
    BY <1>1, <1>6 DEF LocksOfCycles, BasicInv, TypeOK
  <2>2. cyc[u].now \in Nat /\ clock \in Nat /\ cyc[u].now <= clock /\ clock <= cyc[u].now + MaxLag
    BY <2>1, CycleTypes DEF NightInv, ThreadNight
  <2>3. TimeOfDay(clock) >= LastChance
    BY <1>6, WindowConstants
  <2>4. InWindow(cyc[u].now) /\ Day(cyc[u].now) = Day(clock)
    BY <1>6, <2>2, <2>3, BegunInWindow
  <2>5. u # t
    BY <1>2, <2>1
  <2>6. idx'[u] = i /\ pc'[u] = pc[u] /\ cyc'[u] = cyc[u] /\ Day(clock)' = Day(clock)
    BY <1>3, <2>1, <2>5 DEF Apart, Day
  <2>7. Day(clock) \notin BadDays /\ qty[i] > 0 => Closing(u) /\ pc[u] = "fetch"
    BY <2>1, <2>4 DEF Closing, NightInv, ThreadNight
  <2>8. Day(clock) \notin BadDays /\ qty[i] > 0 => Closer(i)'
    BY <2>6, <2>7 DEF Closer, Closing
  <2>9. sqOff[i] <= Day(clock) /\ (qty[i] > 0 => sqOff[i] < Day(clock))
    BY DEF NightInv, IndexNight
  <2> QED
    BY <1>1, <2>6, <2>8, <2>9 DEF IndexNight
<1> QED
  BY <1>3, <1>4, <1>5, <1>6 DEF NightInv, Apart

\* A cycle that begins in time for the last chance begins in the window; one
\* that begins later finds nothing open.
LEMMA BeginNight ==
  ASSUME RoomToSquareOff, BasicInv, NightInv, NEW t \in Threads, Begin(t)
  PROVE  NightInv'
<1>1. /\ pc[t] = "wait" /\ pc' = [pc EXCEPT ![t] = "fetch"] /\ idx' = idx /\ lock[idx[t]] = NoThread
      /\ cyc' = [cyc EXCEPT ![t].now = clock] /\ UNCHANGED <<clock, qty, sqOff, sched>>
  BY DEF Begin, LockFree, memory
<1>2. PICK j \in Indices : j = idx[t]
  BY <1>1 DEF BasicInv, Exclusive
<1>3. /\ pc'[t] = "fetch" /\ pc[t] \notin Active /\ cyc'[t].now = clock /\ clock \in Nat
      /\ MaxLag \in Nat /\ Day(clock)' = Day(clock)
  BY <1>1, Constants, PaperEngineAssumption DEF BasicInv, TypeOK, Active, Cycle, Day
<1>4. Apart(t)
  BY <1>1, <1>3 DEF Apart, BasicInv, TypeOK
<1>5. sqOff[j] <= Day(clock) /\ (qty[j] > 0 => sqOff[j] < Day(clock))
  BY DEF NightInv, IndexNight
<1>6. \A u \in Threads : ThreadNight(u)'
  <2>1. ThreadNight(t)'
    BY <1>1, <1>2, <1>3, <1>5 DEF ThreadNight
  <2> QED
    BY <1>4, <2>1, OthersNight
<1>7. ASSUME NEW i \in Indices, i # j
      PROVE  IndexNight(i)'
  <2>1. Served(i)' => Served(i)
    <3>1. pc[Scheduler] = "wait" /\ idx[Scheduler] = i => pc'[Scheduler] = "wait" /\ idx'[Scheduler] = i
      BY <1>2, <1>4, <1>7 DEF Apart, Threads
    <3> QED
      BY <1>1, <3>1 DEF Served, TimeOfDay
  <2> QED
    BY <1>3, <1>4, <2>1, OtherIndices
<1>8. IndexNight(j)'
  <2>1. SUFFICES ASSUME Day(clock) \notin BadDays, Served(j)', qty[j] > 0
                 PROVE  Closer(j)'
    BY <1>1, <1>3, <1>5 DEF IndexNight
  <2>2. CASE TimeOfDay(clock) = LastChance
    <3>1. InWindow(clock)
      <4>1. TimeOfDay(clock) >= LastChance /\ clock <= clock + MaxLag /\ clock <= clock
        BY <1>3, <2>2, WindowConstants
      <4> QED
        BY <1>3, <2>2, <4>1, BegunInWindow
    <3>2. Closing(t)'
      BY <1>3, <2>1, <3>1 DEF Closing, Active
    <3> QED
      BY <1>1, <1>2, <1>3, <3>2 DEF Closer
  <2>3. CASE TimeOfDay(clock) # LastChance
    <3>1. Served(j)
      BY <1>1, <2>1, <2>3 DEF Served, TimeOfDay
    <3>2. PICK u \in Threads : idx[u] = j /\ Closing(u)
      BY <2>1, <3>1 DEF NightInv, IndexNight, Closer
    <3>3. lock[j] = u /\ u # NoThread
      BY <3>2, PaperEngineAssumption DEF Closing, BasicInv, Exclusive
    <3> QED
      BY <1>1, <1>2, <3>3
  <2> QED
    BY <2>2, <2>3
<1> QED
  BY <1>4, <1>6, <1>7, <1>8 DEF NightInv, Apart

\* No cycle and no account changes, and the scheduler leaves only a flat index.
LEMMA AsideNight ==
  ASSUME BasicInv, NightInv, UNCHANGED <<clock, qty, sqOff, pc, idx, cyc>>, sched'.at <= clock,
         \A i \in Indices : Served(i)' => Served(i) \/ qty[i] = 0
  PROVE  NightInv'
<1>1. \A t \in Threads : ThreadNight(t)'
  BY DEF NightInv, ThreadNight, Closing
<1>2. ASSUME NEW i \in Indices
      PROVE  IndexNight(i)'
  <2>1. Closer(i)' <=> Closer(i)
    BY DEF Closer, Closing
  <2>2. Day(clock)' = Day(clock) /\ qty[i] \in Nat
    BY DEF Day, BasicInv, TypeOK
  <2> QED
    BY <2>1, <2>2 DEF NightInv, IndexNight
<1> QED
  BY <1>1, <1>2 DEF NightInv

LEMMA SchedulerNight ==
  ASSUME RoomToSquareOff, BasicInv, NightInv, SchedulerTick \/ \E i \in Indices : SchedulerSkip(i)
  PROVE  NightInv'
<1>1. /\ UNCHANGED <<clock, qty, sqOff, pc, idx, cyc>> /\ clock \in Nat
      /\ TimeOfDay(clock) \in Nat /\ TimeOfDay(clock)' = TimeOfDay(clock)
  <2>1. UNCHANGED <<clock, qty, sqOff, pc, idx, cyc>> /\ clock \in Nat
    BY Constants DEF SchedulerTick, SchedulerSkip, memory, control, BasicInv, TypeOK
  <2> QED
    BY <2>1, DayParts DEF TimeOfDay
<1>2. CASE SchedulerTick
  <2>1. sched'.at = clock /\ sched'.todo = Indices
    BY <1>2 DEF SchedulerTick
  <2>2. \A i \in Indices : Served(i)' => Served(i)
    BY <1>1, <2>1 DEF Served
  <2> QED
    BY <1>1, <2>1, <2>2, AsideNight
<1>3. ASSUME NEW j \in Indices, SchedulerSkip(j)
      PROVE  NightInv'
  <2>1. sched'.at = sched.at /\ sched'.todo = sched.todo \ {j} /\ qty[j] \in Nat /\ ~(qty[j] > 0)
    BY <1>3 DEF SchedulerSkip, Serves, BasicInv, TypeOK
  <2>2. \A i \in Indices : Served(i)' => Served(i) \/ qty[i] = 0
    BY <1>1, <2>1 DEF Served
  <2> QED
    BY <1>1, <2>1, <2>2, AsideNight DEF NightInv
<1> QED
  BY <1>2, <1>3

\* The first slot of a day is its midnight.
LEMMA Midnight ==
  ASSUME NEW n \in Nat, Day(n + 1) = Day(n) + 1
  PROVE  TimeOfDay(n + 1) = 0
<1> DEFINE d == Day(n)
           r == TimeOfDay(n)
           x == TimeOfDay(n + 1)
<1>1. n + 1 \in Nat
  OBVIOUS
<1>2. /\ d \in Nat /\ r \in Nat /\ n = SlotsPerDay * d + r /\ r < SlotsPerDay
      /\ x \in Nat /\ n + 1 = SlotsPerDay * (d + 1) + x
  BY <1>1, DayParts
<1>3. SlotsPerDay \in Nat
  BY RiskLimitsAssumption
<1> HIDE DEF d, r, x
<1>4. SlotsPerDay * (d + 1) = SlotsPerDay * d + SlotsPerDay /\ SlotsPerDay * d \in Nat
  BY <1>2, <1>3
<1>5. x = 0
  BY <1>2, <1>3, <1>4
<1> QED
  BY <1>5 DEF x

\* The clock leaves the last chance of a day that is not bad only when the
\* scheduler has come to every index.
LEMMA TickNight ==
  ASSUME RoomToSquareOff, BasicInv, NightInv, Tick
  PROVE  NightInv'
<1>1. /\ clock' = clock + 1 /\ clock \in Nat /\ clock + 1 \in Nat /\ MaxLag \in Nat /\ sched.at \in Int
      /\ UNCHANGED <<qty, sqOff, pc, idx, cyc, sched>>
  BY Constants, PaperEngineAssumption DEF Tick, memory, control, BasicInv, TypeOK
<1>2. ASSUME NEW t \in Threads
      PROVE  ThreadNight(t)'
  <2>1. pc[t] \in Active => cyc[t].now <= clock + 1 /\ clock + 1 <= cyc[t].now + MaxLag
    <3> SUFFICES ASSUME pc[t] \in Active
                 PROVE  cyc[t].now <= clock + 1 /\ clock + 1 <= cyc[t].now + MaxLag
      OBVIOUS
    <3>1. cyc[t].now \in Nat /\ cyc[t].now <= clock
      BY CycleTypes DEF NightInv, ThreadNight
    <3>2. clock < cyc[t].now + MaxLag
      BY <3>1 DEF Tick, NoMark
    <3> QED
      BY <1>1, <3>1, <3>2
  <2> QED
    BY <1>1, <2>1 DEF NightInv, ThreadNight, Closing
<1>3. ASSUME NEW i \in Indices
      PROVE  IndexNight(i)'
  <2>1. /\ Day(clock) \in Nat /\ Day(clock + 1) \in Nat /\ Day(clock) <= Day(clock + 1)
        /\ TimeOfDay(clock) \in Nat /\ sqOff[i] \in Int /\ LastChance \in Nat /\ LastChance > 0
    <3>1. Day(clock) <= Day(clock + 1)
      BY <1>1, DayGrows
    <3> QED
      BY <1>1, <3>1, DayParts, WindowConstants DEF BasicInv, TypeOK
  <2>2. Day(clock)' = Day(clock + 1) /\ TimeOfDay(clock)' = TimeOfDay(clock + 1)
    BY <1>1 DEF Day, TimeOfDay
  <2>3. sqOff[i] <= Day(clock) /\ (qty[i] > 0 => sqOff[i] < Day(clock))
    BY DEF NightInv, IndexNight
  <2>4. Closer(i)' <=> Closer(i)
    BY <1>1 DEF Closer, Closing
  <2>5. Day(clock + 1) \notin BadDays /\ Served(i)' => Day(clock) \notin BadDays /\ Served(i)
    <3>1. CASE Day(clock + 1) = Day(clock) /\ TimeOfDay(clock + 1) = TimeOfDay(clock) + 1
      <4> SUFFICES ASSUME Day(clock) \notin BadDays, Served(i)' PROVE Served(i)
        BY <3>1
      <4>1. sched.at # clock + 1
        BY <1>1 DEF NightInv
      <4>2. TimeOfDay(clock) + 1 > LastChance
        BY <1>1, <2>1, <2>2, <3>1, <4>1 DEF Served
      <4>3. sched.at = clock /\ sched.todo = {} /\ pc[Scheduler] = "idle"
        BY DEF Tick
      <4> QED
        BY <2>1, <4>2, <4>3 DEF Served
    <3>2. CASE Day(clock + 1) = Day(clock) + 1
      <4>1. TimeOfDay(clock + 1) = 0
        BY <1>1, <3>2, Midnight
      <4> QED
        BY <2>1, <2>2, <4>1 DEF Served
    <3> QED
      BY <1>1, <3>1, <3>2, NextSlot
  <2> QED
    BY <1>1, <2>1, <2>2, <2>3, <2>4, <2>5 DEF NightInv, IndexNight
<1> QED
  BY <1>1, <1>2, <1>3 DEF NightInv

-----------------------------------------------------------------------------
(* The theorem.                                                            *)

LEMMA NightInit == Init => NightInv
<1> SUFFICES ASSUME Init PROVE NightInv
  OBVIOUS
<1>1. clock = 0 /\ Day(0) = 0
  BY RiskLimitsAssumption DEF Init, Day
<1>2. \A t \in Threads : pc[t] \notin Active
  BY DEF Init, Active
<1>3. \A i \in Indices : qty[i] = 0 /\ sqOff[i] = -1
  BY DEF Init, NoMark
<1> QED
  BY <1>1, <1>2, <1>3 DEF NightInv, ThreadNight, IndexNight, Init, NoMark

LEMMA NightStep ==
  ASSUME RoomToSquareOff, BasicInv, LocksOfCycles, NightInv, [Next]_vars
  PROVE  NightInv'
<1>1. ASSUME NEW t \in Threads, Decide(t)
      PROVE  NightInv'
  BY <1>1, AwaitTodayNight, ForceCloseNight, NoSignalNight, ExitSignalNight, EntrySignalNight DEF Decide
<1>2. ASSUME NEW t \in Threads, Work(t)
      PROVE  NightInv'
  BY <1>1, <1>2, BusyNight, BeginNight, EndNight, CheckEntryNight, FillEntryNight,
     RecordEntryFillNight, RecordCloseNight, BuildRowsNight DEF Work
<1>3. CASE (\E cmd \in Commands : Operate(cmd)) \/ OperatorBuilds \/ OperatorCommits \/ UNCHANGED vars
  <2>1. UNCHANGED <<clock, qty, sqOff, pc, idx, cyc, sched>>
    BY <1>3 DEF Operate, OperatorBuilds, OperatorCommits, vars, memory, control
  <2>2. \A i \in Indices : Served(i)' => Served(i)
    BY <2>1 DEF Served, TimeOfDay
  <2> QED
    BY <2>1, <2>2, AsideNight DEF NightInv
<1>4. ~Restart
  BY DEF Restart, BasicInv, TypeOK, RoomToSquareOff
<1> QED
  BY <1>2, <1>3, <1>4, RequestNight, SchedulerNight, TickNight DEF Next

\* Paper never holds overnight (auto_trader.py:193): after the close of a day
\* whose slots were all served and whose feed was up, every open position is
\* one a cycle of the square-off window has just fetched to close, whatever
\* the operators, manual runs, failed writes and bad days before did, and
\* whether or not the feed goes back.  A cycle begun before the window must be
\* over one slot before the session is: the scheduler then meets each index
\* either free, and closes it, or busy with a cycle that does.
THEOREM NothingOvernight ==
  ASSUME RoomToSquareOff
  PROVE  Spec => []FlatOvernight
<1>1. Init => NightInv
  BY NightInit
<1>2. BasicInv /\ LocksOfCycles /\ NightInv /\ [Next]_vars => NightInv'
  BY NightStep
<1>3. BasicInv /\ NightInv => FlatOvernight
  <2> SUFFICES ASSUME BasicInv, NightInv, Day(clock) \notin BadDays, TimeOfDay(clock) > TradingEnd,
                      NEW i \in Indices, qty[i] > 0
               PROVE  lock[i] # NoThread /\ InSession(cyc[lock[i]].now)
    BY DEF FlatOvernight
  <2>1. Served(i)
    <3>1. clock \in Nat
      BY Constants DEF BasicInv, TypeOK
    <3>2. TimeOfDay(clock) \in Nat
      BY <3>1, DayParts
    <3> QED
      BY <3>2, WindowConstants DEF Served
  <2>2. PICK u \in Threads : idx[u] = i /\ Closing(u)
    BY <2>1 DEF NightInv, IndexNight, Closer
  <2> QED
    BY <2>2, PaperEngineAssumption DEF Closing, InWindow, BasicInv, Exclusive
<1>4. Spec => []BasicInv
  BY EngineTyped DEF BasicInv
<1>5. Spec => []LocksOfCycles
  BY LocksFreed
<1> QED
  BY <1>1, <1>2, <1>3, <1>4, <1>5, PTL DEF Spec
=============================================================================
