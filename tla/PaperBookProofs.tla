--------------------------- MODULE PaperBookProofs ---------------------------
(***************************************************************************)
(* PaperEngine implements PaperBook, for any number of indices and threads *)
(* and any length of a cycle that the slots before the session outlast.    *)
(***************************************************************************)
EXTENDS PaperEngineProofs

-----------------------------------------------------------------------------
(* Days.                                                                   *)

LEMMA DayUnique ==
  ASSUME NEW d \in Nat, NEW x \in Nat, x < SlotsPerDay
  PROVE  Day(SlotsPerDay * d + x) = d /\ TimeOfDay(SlotsPerDay * d + x) = x
<1> DEFINE c == SlotsPerDay * d + x
           q == c \div SlotsPerDay
           r == c % SlotsPerDay
<1>1. SlotsPerDay \in Nat \ {0}
  BY RiskLimitsAssumption
<1>2. c \in Nat
  BY <1>1
<1> HIDE DEF c
<1>3. q \in Int /\ r \in 0..(SlotsPerDay - 1) /\ c = SlotsPerDay * q + r
  BY <1>1, <1>2
<1> HIDE DEF q, r
<1>4. c = SlotsPerDay * d + x
  BY DEF c
<1>5. SlotsPerDay * (q - d) = x - r
  BY <1>1, <1>3, <1>4
<1>6. ~(q - d >= 1)
  <2> SUFFICES ASSUME q - d >= 1 PROVE FALSE
    OBVIOUS
  <2>1. SlotsPerDay * (q - d) >= SlotsPerDay
    BY <1>1, <1>3
  <2> QED
    BY <1>1, <1>3, <1>5, <2>1
<1>7. ~(q - d <= -1)
  <2> SUFFICES ASSUME q - d <= -1 PROVE FALSE
    OBVIOUS
  <2>1. SlotsPerDay * (q - d) <= -SlotsPerDay
    BY <1>1, <1>3
  <2> QED
    BY <1>1, <1>3, <1>5, <2>1
<1>8. q = d /\ r = x
  BY <1>1, <1>3, <1>5, <1>6, <1>7
<1> QED
  BY <1>8 DEF Day, TimeOfDay, c, q, r

LEMMA DayParts ==
  ASSUME NEW n \in Nat
  PROVE  /\ Day(n) \in Nat /\ TimeOfDay(n) \in Nat /\ TimeOfDay(n) < SlotsPerDay
         /\ n = SlotsPerDay * Day(n) + TimeOfDay(n) /\ SlotsPerDay * Day(n) \in Nat
<1>1. /\ Day(n) \in Nat /\ TimeOfDay(n) \in Nat /\ TimeOfDay(n) < SlotsPerDay
      /\ n = SlotsPerDay * Day(n) + TimeOfDay(n)
  BY RiskLimitsAssumption DEF Day, TimeOfDay
<1>2. SlotsPerDay \in Nat
  BY RiskLimitsAssumption
<1>3. SlotsPerDay * Day(n) \in Nat
  BY <1>1, <1>2
<1> QED
  BY <1>1, <1>3

\* What begins in the session ends on its day.
LEMMA SessionDay ==
  ASSUME NEW n \in Nat, NEW c \in Nat, InSession(n), n <= c, c <= n + MaxLag
  PROVE  Day(c) = Day(n) /\ TimeOfDay(n) <= TimeOfDay(c)
<1> DEFINE d == Day(n)
           r == TimeOfDay(n)
           x == r + (c - n)
<1>1. d \in Nat /\ r \in Nat /\ n = SlotsPerDay * d + r /\ SlotsPerDay * d \in Nat
  BY DayParts
<1>0. r <= TradingEnd
  BY DEF InSession
<1> HIDE DEF d, r
<1>2. x \in Nat /\ x < SlotsPerDay /\ r <= x
  BY <1>0, <1>1, RiskLimitsAssumption, PaperEngineAssumption
<1>3. c = SlotsPerDay * d + x
  BY <1>1
<1> HIDE DEF x
<1>4. Day(c) = d /\ TimeOfDay(c) = x
  BY <1>1, <1>2, <1>3, DayUnique
<1> QED
  BY <1>2, <1>4 DEF d, r

\* A cycle that ends on a later day does so before the session.
LEMMA LateDay ==
  ASSUME MaxLag <= TradingStart, NEW n \in Nat, NEW c \in Nat, n <= c, c <= n + MaxLag, Day(c) # Day(n)
  PROVE  Day(n) < Day(c) /\ TimeOfDay(c) < TradingStart
<1> DEFINE d == Day(n)
           r == TimeOfDay(n)
           x == r + (c - n)
<1>1. d \in Nat /\ r \in Nat /\ n = SlotsPerDay * d + r /\ r < SlotsPerDay /\ SlotsPerDay * d \in Nat
  BY DayParts
<1>2. SlotsPerDay \in Nat /\ MaxLag \in Nat /\ TradingStart \in Nat /\ TradingStart < SlotsPerDay
  BY RiskLimitsAssumption, PaperEngineAssumption
<1> HIDE DEF d, r
<1>3. x \in Nat /\ c = SlotsPerDay * d + x
  BY <1>1
<1>4. CASE x < SlotsPerDay
  BY <1>1, <1>3, <1>4, DayUnique DEF d
<1>5. CASE x >= SlotsPerDay
  <2>1. x - SlotsPerDay \in Nat /\ x - SlotsPerDay < SlotsPerDay /\ x - SlotsPerDay < TradingStart
    BY <1>1, <1>2, <1>5
  <2>2. d + 1 \in Nat /\ c = SlotsPerDay * (d + 1) + (x - SlotsPerDay)
    BY <1>1, <1>2, <1>3
  <2> HIDE DEF x
  <2>3. Day(c) = d + 1 /\ TimeOfDay(c) = x - SlotsPerDay
    BY <2>1, <2>2, DayUnique
  <2> QED
    BY <1>1, <2>1, <2>3 DEF d
<1> QED
  BY <1>1, <1>2, <1>3, <1>4, <1>5

\* The next slot is of the same day or begins the next.
LEMMA NextSlot ==
  ASSUME NEW n \in Nat
  PROVE  \/ Day(n + 1) = Day(n) /\ TimeOfDay(n + 1) = TimeOfDay(n) + 1
         \/ Day(n + 1) = Day(n) + 1
<1> DEFINE d == Day(n)
           r == TimeOfDay(n)
<1>1. d \in Nat /\ r \in Nat /\ n = SlotsPerDay * d + r /\ r < SlotsPerDay /\ SlotsPerDay * d \in Nat
  BY DayParts
<1>2. SlotsPerDay \in Nat \ {0}
  BY RiskLimitsAssumption
<1> HIDE DEF d, r
<1>3. CASE r + 1 < SlotsPerDay
  <2>1. n + 1 = SlotsPerDay * d + (r + 1)
    BY <1>1
  <2> QED
    BY <1>1, <1>3, <2>1, DayUnique DEF d, r
<1>4. CASE r + 1 = SlotsPerDay
  <2>1. n + 1 = SlotsPerDay * (d + 1) + 0 /\ d + 1 \in Nat
    BY <1>1, <1>2, <1>4
  <2> QED
    BY <1>1, <1>2, <2>1, DayUnique DEF d
<1> QED
  BY <1>1, <1>2, <1>3, <1>4

-----------------------------------------------------------------------------
(* The inductive invariant.                                                *)

\* The entries of the day the Risk Manager has counted.
Counted == IF risk.tradeDay = Day(clock) THEN risk.entries ELSE 0

\* Where a cycle stands in its day, its index and the day's cap.
ThreadBook(t) ==
  /\ pc[t] \in Active => cyc[t].now <= clock /\ clock <= cyc[t].now + MaxLag
  /\ pc[t] \in {"fill", "recordEntry", "recordClose"} => InSession(cyc[t].now)
  /\ pc[t] \in {"entry", "fill"} =>
       qty[idx[t]] = 0 /\ sqOff[idx[t]] # Day(cyc[t].now) /\ cyc[t].bar \in Bars
  /\ pc[t] \in {"entry", "fill", "recordEntry"} => cyc[t].kind = "entry"
  /\ pc[t] = "fill" => Counted < MaxTradesPerDay

DayBook ==
  /\ risk.tradeDay <= Day(clock)
  /\ TimeOfDay(clock) < TradingStart => Counted = 0

BookInv == DayBook /\ \A t \in Threads : ThreadBook(t)

\* What a step of thread t leaves to the others: their cycles, and every index
\* but its own.
Alone(t) ==
  /\ \A u \in Threads \ {t} : pc'[u] = pc[u] /\ idx'[u] = idx[u] /\ cyc'[u] = cyc[u]
  /\ \A i \in Indices : pc[t] \notin Active \/ i # idx[t] =>
       qty'[i] = qty[i] /\ mark'[i] = mark[i] /\ sqOff'[i] = sqOff[i]
  /\ clock' = clock

\* The counters go on with the day.
Counting == Counted' = Counted /\ risk'.tradeDay <= Day(clock)

LEMMA SameRisk ==
  ASSUME BookInv, risk' = risk, clock' = clock
  PROVE  Counting
BY DEF BookInv, DayBook, Counting, Counted

\* The lazy reset loses no entry of the day, even by a cycle of the day before.
LEMMA ResetKeeps ==
  ASSUME MaxLag <= TradingStart, BasicInv, BookInv, NEW t \in Threads, pc[t] \in Active,
         risk' = ResetIfNewDay(risk, Now(t)), clock' = clock
  PROVE  Counting
<1>1. Now(t) \in Nat /\ clock \in Nat /\ Now(t) <= clock /\ clock <= Now(t) + MaxLag
  BY Constants DEF BasicInv, TypeOK, Exclusive, BookInv, ThreadBook, Now
<1>2. /\ risk \in RiskState /\ risk'.tradeDay = Day(Now(t))
      /\ risk'.entries = IF risk.tradeDay = Day(Now(t)) THEN risk.entries ELSE 0
  BY <1>1, ResetFields DEF BasicInv, TypeOK
<1>3. CASE Day(clock) = Day(Now(t))
  BY <1>1, <1>2, <1>3, DayParts DEF Counting, Counted
<1>4. CASE Day(clock) # Day(Now(t))
  <2>1. Day(Now(t)) < Day(clock) /\ TimeOfDay(clock) < TradingStart
    BY <1>1, <1>4, LateDay
  <2>2. Counted = 0
    BY <2>1 DEF BookInv, DayBook
  <2>3. Day(Now(t)) \in Nat /\ Day(clock) \in Nat
    BY <1>1, DayParts
  <2> QED
    BY <1>2, <1>4, <2>1, <2>2, <2>3 DEF Counting, Counted
<1> QED
  BY <1>3, <1>4

LEMMA OthersBook ==
  ASSUME BasicInv, BookInv, NEW t \in Threads, Alone(t), Counted' = Counted \/ pc[t] = "recordEntry"
  PROVE  \A u \in Threads \ {t} : ThreadBook(u)'
<1> TAKE u \in Threads \ {t}
<1>1. pc'[u] = pc[u] /\ idx'[u] = idx[u] /\ cyc'[u] = cyc[u] /\ clock' = clock
  BY DEF Alone
<1>2. pc[u] \in {"entry", "fill"} => qty'[idx[u]] = qty[idx[u]] /\ sqOff'[idx[u]] = sqOff[idx[u]]
  <2> SUFFICES ASSUME pc[u] \in {"entry", "fill"}
               PROVE  qty'[idx[u]] = qty[idx[u]] /\ sqOff'[idx[u]] = sqOff[idx[u]]
    OBVIOUS
  <2>1. pc[u] \in Active /\ idx[u] \in Indices
    BY DEF Active, BasicInv, Exclusive
  <2>2. pc[t] \in Active => idx[t] # idx[u]
    BY <2>1, OneCyclePerIndex
  <2> QED
    BY <2>1, <2>2 DEF Alone
<1>3. pc[u] = "fill" => Counted' = Counted
  BY DEF BasicInv, Exclusive
<1> QED
  BY <1>1, <1>2, <1>3 DEF BookInv, ThreadBook

\* A step of one thread keeps the invariant when it keeps its own part.
LEMMA BookInvOfThread ==
  ASSUME BasicInv, BookInv, NEW t \in Threads, Alone(t), Counting, ThreadBook(t)'
  PROVE  BookInv'
<1>1. \A u \in Threads : ThreadBook(u)'
  BY OthersBook DEF Counting
<1>2. DayBook'
  BY DEF Counting, Alone, BookInv, DayBook
<1> QED
  BY <1>1, <1>2 DEF BookInv

-----------------------------------------------------------------------------
(* The book of a step.                                                     *)

Writing == {"recordEntry", "recordClose"}

\* The index of a cycle, in the book ...
LEMMA OwnView ==
  ASSUME BasicInv, NEW t \in Threads, pc[t] \in Active, NEW i \in Indices, i = idx[t]
  PROVE  /\ pc[t] \notin Writing => Acted(i) = mark[i] /\ Squared(i) = sqOff[i]
         /\ pc[t] \in Writing =>
              /\ Acted(i) = cyc[t].bar
              /\ Squared(i) = IF cyc[t].kind = "squareOff" THEN Day(clock) ELSE sqOff[i]
<1>1. \A u \in Threads \ {t} : pc[u] \in Active => idx[u] # i
  BY OneCyclePerIndex
<1>2. pc[t] \notin Writing => Recording(i) = {}
  BY <1>1 DEF Recording, Writing, Active
<1>3. pc[t] \in Writing => Recording(i) = {t}
  BY <1>1 DEF Recording, Writing, Active
<1> QED
  BY <1>2, <1>3 DEF Acted, Squared

\* ... and after the cycle's step, when it may have left it ...
LEMMA OwnViewNext ==
  ASSUME BasicInv, NEW t \in Threads, pc[t] \in Active, Alone(t), NEW i \in Indices, i = idx[t]
  PROVE  /\ pc'[t] \notin Writing => Acted(i)' = mark'[i] /\ Squared(i)' = sqOff'[i]
         /\ pc'[t] \in Writing /\ idx'[t] = i =>
              /\ Acted(i)' = cyc'[t].bar
              /\ Squared(i)' = IF cyc'[t].kind = "squareOff" THEN Day(clock) ELSE sqOff'[i]
<1>1. \A u \in Threads \ {t} : pc[u] \in Active => idx[u] # i
  BY OneCyclePerIndex
<1>2. \A u \in Threads \ {t} : pc'[u] \in Writing => idx'[u] # i
  BY <1>1 DEF Alone, Writing, Active
<1>3. pc'[t] \notin Writing => Recording(i)' = {}
  BY <1>2 DEF Recording, Writing
<1>4. pc'[t] \in Writing /\ idx'[t] = i => Recording(i)' = {t}
  BY <1>2 DEF Recording, Writing
<1>5. clock' = clock
  BY DEF Alone
<1> QED
  BY <1>3, <1>4, <1>5 DEF Acted, Squared, Day

\* ... and any other index.
LEMMA OtherView ==
  ASSUME NEW t \in Threads, Alone(t), NEW i \in Indices, pc[t] \notin Active \/ i # idx[t],
         pc'[t] \in Writing => pc[t] \in Active /\ idx'[t] = idx[t]
  PROVE  Acted(i)' = Acted(i) /\ Squared(i)' = Squared(i)
<1>1. t \notin Recording(i) /\ t \notin Recording(i)'
  BY DEF Recording, Writing, Active
<1>2. Recording(i)' = Recording(i)
  BY <1>1 DEF Recording, Alone
<1>3. \A u \in Recording(i) : cyc'[u] = cyc[u]
  BY <1>1 DEF Recording, Alone
<1>4. mark'[i] = mark[i] /\ sqOff'[i] = sqOff[i] /\ clock' = clock
  BY DEF Alone
<1>5. Acted(i)' = Acted(i)
  BY <1>2, <1>3, <1>4 DEF Acted
<1>6. (\E u \in Recording(i)' : cyc'[u].kind = "squareOff") <=> (\E u \in Recording(i) : cyc[u].kind = "squareOff")
  BY <1>2, <1>3
<1>7. Squared(i)' = Squared(i)
  BY <1>4, <1>6 DEF Squared, Day
<1> QED
  BY <1>5, <1>7

\* Only fills and their bookkeeping change what the day has counted.
LEMMA CountNext ==
  ASSUME BasicInv, NEW t \in Threads, Alone(t)
  PROVE  /\ (pc'[t] = "recordEntry" <=> pc[t] = "recordEntry") /\ Counted' = Counted =>
              EntriesToday' = EntriesToday
         /\ pc[t] = "fill" /\ pc'[t] = "recordEntry" /\ Counted' = Counted =>
              EntriesToday = Counted /\ EntriesToday' = EntriesToday + 1
         /\ pc[t] = "recordEntry" /\ pc'[t] = "rows" /\ Counted' = Counted + 1 =>
              EntriesToday' = EntriesToday
<1> DEFINE R == {u \in Threads : pc[u] = "recordEntry"}
           N == {u \in Threads : pc'[u] = "recordEntry"}
<1>1. EntriesToday = Counted + Cardinality(R) /\ EntriesToday' = Counted' + Cardinality(N)
  BY DEF EntriesToday, Counted
<1>2. (pc'[t] = "recordEntry" <=> pc[t] = "recordEntry") => N = R
  BY DEF Alone
<1>3. pc[t] \in {"fill", "recordEntry"} => \A u \in Threads \ {t} : pc[u] # "recordEntry"
  BY DEF BasicInv, Exclusive
<1>4. pc[t] = "fill" /\ pc'[t] = "recordEntry" => R = {} /\ N = {t}
  BY <1>3 DEF Alone
<1>5. pc[t] = "recordEntry" /\ pc'[t] = "rows" => R = {t} /\ N = {}
  BY <1>3 DEF Alone
<1>6. Cardinality({}) = 0 /\ Cardinality({t}) = 1
  BY FS_EmptySet, FS_Singleton
<1>7. Counted \in Nat
  BY DEF BasicInv, TypeOK, RiskState, Counted
<1> HIDE DEF R, N
<1> QED
  BY <1>1, <1>2, <1>4, <1>5, <1>6, <1>7

BookStep == [Book!Next]_Book!vars

\* The book counts its indices as the engine does.
LEMMA SameCount == ASSUME NEW S PROVE Book!Cardinality(S) = Cardinality(S)
BY DEF Cardinality, Book!Cardinality

\* Nothing of the book changes.
LEMMA SilentStep ==
  ASSUME \A i \in Indices : (qty'[i] > 0 <=> qty[i] > 0),
         \A i \in Indices : Acted(i)' = Acted(i) /\ Squared(i)' = Squared(i),
         EntriesToday' = EntriesToday, Day(clock)' = Day(clock)
  PROVE  BookStep
<1>1. {i \in Indices : qty[i] > 0}' = {i \in Indices : qty[i] > 0}
  OBVIOUS
<1>2. [i \in Indices |-> Acted(i)]' = [i \in Indices |-> Acted(i)]
  OBVIOUS
<1>3. [i \in Indices |-> Squared(i)]' = [i \in Indices |-> Squared(i)]
  OBVIOUS
<1> QED
  BY <1>1, <1>2, <1>3 DEF BookStep, Book!vars

\* A step of thread t that changes the book at most at its own index.
LEMMA TurnStep ==
  ASSUME NEW t \in Threads, Alone(t), NEW j \in Indices, j = idx[t],
         pc'[t] \in Writing => pc[t] \in Active /\ idx'[t] = idx[t]
  PROVE  /\ {i \in Indices : qty[i] > 0}' =
              IF qty'[j] > 0 THEN {i \in Indices : qty[i] > 0} \cup {j}
                             ELSE {i \in Indices : qty[i] > 0} \ {j}
         /\ [i \in Indices |-> Acted(i)]' = [[i \in Indices |-> Acted(i)] EXCEPT ![j] = Acted(j)']
         /\ [i \in Indices |-> Squared(i)]' = [[i \in Indices |-> Squared(i)] EXCEPT ![j] = Squared(j)']
<1>1. \A i \in Indices \ {j} : qty'[i] = qty[i]
  BY DEF Alone
<1>2. \A i \in Indices \ {j} : Acted(i)' = Acted(i) /\ Squared(i)' = Squared(i)
  BY OtherView
<1>3. {i \in Indices : qty[i] > 0}' = {i \in Indices : qty'[i] > 0}
  OBVIOUS
<1>4. [i \in Indices |-> Acted(i)]' = [[i \in Indices |-> Acted(i)] EXCEPT ![j] = Acted(j)']
  BY <1>2
<1>5. [i \in Indices |-> Squared(i)]' = [[i \in Indices |-> Squared(i)] EXCEPT ![j] = Squared(j)']
  BY <1>2
<1> QED
  BY <1>1, <1>3, <1>4, <1>5

-----------------------------------------------------------------------------
(* The steps of a cycle.                                                   *)

\* A cycle that has not begun.
LEMMA OutsideTurn ==
  ASSUME BasicInv, BookInv, NEW t \in Threads, Alone(t), Counting, ThreadBook(t)',
         pc[t] \notin Active, pc'[t] \notin Writing
  PROVE  BookInv' /\ BookStep
<1>1. \A i \in Indices : Acted(i)' = Acted(i) /\ Squared(i)' = Squared(i)
  BY OtherView
<1>2. \A i \in Indices : qty'[i] = qty[i]
  BY DEF Alone
<1>3. EntriesToday' = EntriesToday
  BY CountNext DEF Counting, Active, Writing
<1>4. Day(clock)' = Day(clock)
  BY DEF Alone, Day
<1> QED
  BY <1>1, <1>2, <1>3, <1>4, SilentStep, BookInvOfThread

\* A step of a cycle that leaves its index in the book as it was.
LEMMA InsideTurn ==
  ASSUME NEW t \in Threads, Alone(t), pc[t] \in Active, NEW j \in Indices, j = idx[t],
         pc'[t] \in Writing => idx'[t] = idx[t], EntriesToday' = EntriesToday,
         qty'[j] > 0 <=> qty[j] > 0, Acted(j)' = Acted(j), Squared(j)' = Squared(j)
  PROVE  BookStep
<1>1. \A i \in Indices \ {j} : Acted(i)' = Acted(i) /\ Squared(i)' = Squared(i) /\ qty'[i] = qty[i]
  BY OtherView DEF Alone
<1>2. Day(clock)' = Day(clock)
  BY DEF Alone, Day
<1> QED
  BY <1>1, <1>2, SilentStep

\* Stale entries of a flat index expire, or nothing happens to the book, and the
\* cycle goes on to no fill.
LEMMA ExpiryTurn ==
  ASSUME BasicInv, NEW t \in Threads, Alone(t), pc[t] \in Active \ Writing, pc'[t] \notin Writing,
         Counting, UNCHANGED <<qty, sqOff>>, NEW m \in Int, mark' = [mark EXCEPT ![idx[t]] = m],
         m = mark[idx[t]] \/ (~Held(t) /\ m \in Bars /\ m > mark[idx[t]])
  PROVE  BookStep
<1>1. PICK i \in Indices : i = idx[t]
  BY DEF BasicInv, Exclusive, Active
<1>2. /\ Acted(i) = mark[i] /\ Squared(i) = sqOff[i]
      /\ Acted(i)' = mark'[i] /\ Squared(i)' = sqOff'[i] /\ mark'[i] = m
  BY <1>1, OwnView, OwnViewNext DEF BasicInv, TypeOK
<1>3. EntriesToday' = EntriesToday
  BY CountNext DEF Counting, Writing
<1>4. CASE m = mark[idx[t]]
  BY <1>1, <1>2, <1>3, <1>4, InsideTurn
<1>5. CASE ~Held(t) /\ m \in Bars /\ m > mark[idx[t]]
  <2>1. /\ {k \in Indices : qty[k] > 0}' = {k \in Indices : qty[k] > 0}
        /\ [k \in Indices |-> Acted(k)]' = [[k \in Indices |-> Acted(k)] EXCEPT ![i] = m]
        /\ [k \in Indices |-> Squared(k)]' = [[k \in Indices |-> Squared(k)] EXCEPT ![i] = Squared(i)]
    <3>1. /\ [k \in Indices |-> Acted(k)]' = [[k \in Indices |-> Acted(k)] EXCEPT ![i] = Acted(i)']
          /\ [k \in Indices |-> Squared(k)]' = [[k \in Indices |-> Squared(k)] EXCEPT ![i] = Squared(i)']
      BY <1>1, TurnStep
    <3>2. Acted(i)' = m /\ Squared(i)' = Squared(i)
      BY <1>2
    <3>3. {k \in Indices : qty[k] > 0}' = {k \in Indices : qty[k] > 0}
      OBVIOUS
    <3> QED
      BY <3>1, <3>2, <3>3
  <2>2. [[k \in Indices |-> Squared(k)] EXCEPT ![i] = Squared(i)] = [k \in Indices |-> Squared(k)]
    OBVIOUS
  <2>3. i \notin {k \in Indices : qty[k] > 0} /\ m > [k \in Indices |-> Acted(k)][i]
    BY <1>1, <1>2, <1>5 DEF Held
  <2>4. Day(clock)' = Day(clock)
    BY DEF Alone, Day
  <2>5. Book!Expire(i, m)
    BY <1>3, <2>1, <2>2, <2>3, <2>4 DEF Book!Expire
  <2> QED
    BY <1>5, <2>5 DEF BookStep, Book!Next
<1> QED
  BY <1>4, <1>5

LEMMA ReleaseAlone ==
  ASSUME BasicInv, NEW t \in Threads, pc[t] \in Active, Release(t), clock' = clock,
         UNCHANGED <<qty, sqOff>>, NEW m \in Int, mark' = [mark EXCEPT ![idx[t]] = m]
  PROVE  Alone(t) /\ ThreadBook(t)' /\ pc'[t] = "idle"
<1>1. pc'[t] = "idle"
  BY DEF BasicInv, TypeOK, Release
<1>2. Alone(t)
  BY DEF BasicInv, TypeOK, Release, Alone
<1>3. ThreadBook(t)'
  BY <1>1 DEF ThreadBook, Active
<1> QED
  BY <1>1, <1>2, <1>3

\* A cycle that ends, after the expiry or without one.
LEMMA ReleaseTurn ==
  ASSUME BasicInv, BookInv, NEW t \in Threads, pc[t] \in Active \ Writing, Release(t), clock' = clock,
         Counting, UNCHANGED <<qty, sqOff>>, NEW m \in Int, mark' = [mark EXCEPT ![idx[t]] = m],
         m = mark[idx[t]] \/ (~Held(t) /\ m \in Bars /\ m > mark[idx[t]])
  PROVE  BookInv' /\ BookStep
<1>1. Alone(t) /\ ThreadBook(t)' /\ pc'[t] = "idle"
  BY ReleaseAlone
<1>2. pc'[t] \notin Writing
  BY <1>1 DEF Writing
<1> QED
  BY <1>1, <1>2, BookInvOfThread, ExpiryTurn

\* ... without one.
LEMMA PlainRelease ==
  ASSUME BasicInv, BookInv, NEW t \in Threads, pc[t] \in Active \ Writing, Release(t), clock' = clock,
         Counting, UNCHANGED <<qty, mark, sqOff>>
  PROVE  BookInv' /\ BookStep
<1>1. idx[t] \in Indices /\ mark[idx[t]] \in Int
  BY DEF BasicInv, Exclusive, TypeOK, Active
<1>2. mark' = [mark EXCEPT ![idx[t]] = mark[idx[t]]]
  BY <1>1 DEF BasicInv, TypeOK
<1> QED
  BY <1>1, <1>2, ReleaseTurn

LEMMA ExpiredType ==
  ASSUME BasicInv, NEW t \in Threads, pc[t] \in Active, NEW latest,
         NEW m \in {mark[idx[t]]} \cup AfterExpiry(t, latest)
  PROVE  m \in Int /\ (m = mark[idx[t]] \/ (m \in Bars /\ m > mark[idx[t]] /\ ~Fresh(t, m)))
<1>1. mark[idx[t]] \in Int
  BY DEF BasicInv, Exclusive, TypeOK, Active
<1>2. m = mark[idx[t]] \/ (m \in Bars /\ m > mark[idx[t]] /\ ~Fresh(t, m))
  BY ExpiredMark
<1> QED
  BY <1>1, <1>2, BarsType

LEMMA RequestBook ==
  ASSUME BasicInv, BookInv, NEW t \in Threads, NEW i \in Indices, NEW q \in Quantities \cup {1}, Request(t, i, q)
  PROVE  BookInv' /\ BookStep
<1>1. /\ pc[t] = "idle" /\ pc' = [pc EXCEPT ![t] = "wait"] /\ idx' = [idx EXCEPT ![t] = i]
      /\ cyc' = [cyc EXCEPT ![t] = [NoCycle EXCEPT !.qty = q]] /\ UNCHANGED <<clock, memory>>
  BY DEF Request
<1>2. Alone(t) /\ pc'[t] = "wait"
  BY <1>1 DEF Alone, BasicInv, TypeOK, memory
<1>3. ThreadBook(t)' /\ pc[t] \notin Active /\ pc'[t] \notin Writing
  BY <1>1, <1>2 DEF ThreadBook, Active, Writing
<1> QED
  BY <1>1, <1>2, <1>3, SameRisk, OutsideTurn DEF memory

LEMMA BusyBook ==
  ASSUME BasicInv, BookInv, NEW t \in Threads, Busy(t)
  PROVE  BookInv' /\ BookStep
<1>1. /\ pc[t] = "wait" /\ pc' = [pc EXCEPT ![t] = "idle"] /\ idx' = [idx EXCEPT ![t] = NoIndex]
      /\ cyc' = [cyc EXCEPT ![t] = NoCycle] /\ UNCHANGED <<clock, memory>>
  BY DEF Busy
<1>2. Alone(t) /\ pc'[t] = "idle"
  BY <1>1 DEF Alone, BasicInv, TypeOK, memory
<1>3. ThreadBook(t)' /\ pc[t] \notin Active /\ pc'[t] \notin Writing
  BY <1>1, <1>2 DEF ThreadBook, Active, Writing
<1> QED
  BY <1>1, <1>2, <1>3, SameRisk, OutsideTurn DEF memory

LEMMA BeginBook ==
  ASSUME BasicInv, BookInv, NEW t \in Threads, Begin(t)
  PROVE  BookInv' /\ BookStep
<1>1. /\ pc[t] = "wait" /\ pc' = [pc EXCEPT ![t] = "fetch"] /\ idx' = idx
      /\ cyc' = [cyc EXCEPT ![t].now = clock] /\ UNCHANGED <<clock, memory>>
  BY DEF Begin
<1>2. Alone(t) /\ pc'[t] = "fetch"
  BY <1>1 DEF Alone, BasicInv, TypeOK, memory
<1>3. cyc'[t].now = clock /\ clock \in Nat /\ MaxLag \in Nat
  BY <1>1, Constants, PaperEngineAssumption DEF BasicInv, TypeOK, Cycle
<1>4. ThreadBook(t)' /\ pc[t] \notin Active /\ pc'[t] \notin Writing
  BY <1>1, <1>2, <1>3 DEF ThreadBook, Active, Writing
<1> QED
  BY <1>1, <1>2, <1>4, SameRisk, OutsideTurn DEF memory

LEMMA EndBook ==
  ASSUME BasicInv, BookInv, NEW t \in Threads,
         FetchFails(t) \/ NoContract(t) \/ NotConfigured(t) \/ Commit(t) \/ RollBack(t)
  PROVE  BookInv' /\ BookStep
<1>1. Release(t) /\ UNCHANGED <<clock, memory>> /\ pc[t] \in Active \ Writing
  BY DEF FetchFails, NoContract, NotConfigured, Commit, RollBack, Active, Writing
<1> QED
  BY <1>1, SameRisk, PlainRelease DEF memory

LEMMA AwaitTodayBook ==
  ASSUME BasicInv, BookInv, NEW t \in Threads, NEW latest \in Bars, AwaitToday(t, latest)
  PROVE  BookInv' /\ BookStep
<1>1. Release(t) /\ UNCHANGED <<clock, memory>> /\ pc[t] \in Active \ Writing
  BY DEF AwaitToday, Fetched, Active, Writing
<1> QED
  BY <1>1, SameRisk, PlainRelease DEF memory

LEMMA NoSignalBook ==
  ASSUME BasicInv, BookInv, NEW t \in Threads, NEW latest \in Bars, NoSignal(t, latest)
  PROVE  BookInv' /\ BookStep
<1>1. Release(t) /\ UNCHANGED <<clock, risk, qty, sqOff>> /\ pc[t] \in Active \ Writing
  BY DEF NoSignal, Strategy, Fetched, Active, Writing
<1>2. PICK m \in {mark[idx[t]]} \cup AfterExpiry(t, latest) :
        mark' = [mark EXCEPT ![idx[t]] = m] /\ (Held(t) => m = mark[idx[t]])
  BY DEF NoSignal
<1>3. m \in Int /\ (m = mark[idx[t]] \/ (~Held(t) /\ m \in Bars /\ m > mark[idx[t]]))
  BY <1>1, <1>2, ExpiredType
<1> QED
  BY <1>1, <1>2, <1>3, SameRisk, ReleaseTurn

\* A fill that closes a position, or reduces it, is a step of the book.
LEMMA CloseOutBook ==
  ASSUME BasicInv, BookInv, NEW t \in Threads, pc[t] = "fetch", Held(t), InSession(Now(t)),
         NEW q \in Int, NEW bar \in Bars, bar >= mark[idx[t]], NEW pnl \in Int,
         NEW kind \in {"exit", "squareOff", "recovery"}, CloseOut(t, q, bar, pnl, kind),
         clock' = clock, Counting
  PROVE  BookInv' /\ BookStep
<1>1. PICK j \in Indices : j = idx[t]
  BY DEF BasicInv, Exclusive, Active
<1>2. pc[t] \in Active \ Writing
  BY DEF Active, Writing
<1>3. /\ pc'[t] = "recordClose" /\ idx' = idx /\ mark' = mark /\ sqOff' = sqOff
      /\ cyc'[t].bar = bar /\ cyc'[t].kind = kind /\ cyc'[t].now = cyc[t].now
  BY DEF CloseOut, BasicInv, TypeOK, Cycle
<1>4. Alone(t)
  BY <1>1, <1>2, <1>3 DEF CloseOut, BasicInv, TypeOK, Alone
<1>5. ThreadBook(t)'
  BY <1>2, <1>3 DEF ThreadBook, BookInv, Now
<1>6. BookInv'
  BY <1>4, <1>5, BookInvOfThread
<1>7. /\ Acted(j) = mark[j] /\ Squared(j) = sqOff[j] /\ Acted(j)' = bar
      /\ Squared(j)' = IF kind = "squareOff" THEN Day(clock) ELSE sqOff[j]
  BY <1>1, <1>2, <1>3, <1>4, OwnView, OwnViewNext DEF Writing
<1>8. EntriesToday' = EntriesToday
  BY <1>3, <1>4, CountNext DEF Counting
<1> DEFINE H == {i \in Indices : qty[i] > 0}
           A == [i \in Indices |-> Acted(i)]
           S == [i \in Indices |-> Squared(i)]
<1>9. /\ H' \in {H, H \ {j}} /\ j \in H
      /\ A' = [A EXCEPT ![j] = bar]
      /\ S' = [S EXCEPT ![j] = Squared(j)']
  <2>1. /\ H' = IF qty'[j] > 0 THEN H \cup {j} ELSE H \ {j}
        /\ A' = [A EXCEPT ![j] = Acted(j)']
        /\ S' = [S EXCEPT ![j] = Squared(j)']
    BY <1>1, <1>2, <1>3, <1>4, TurnStep
  <2>2. j \in H
    BY <1>1 DEF Held
  <2> QED
    BY <1>7, <2>1, <2>2
<1>10. S' \in {S, [S EXCEPT ![j] = Day(clock)]}
  <2>1. CASE kind = "squareOff"
    <3>1. Squared(j)' = Day(clock)
      BY <1>7, <2>1
    <3> QED
      BY <1>9, <3>1
  <2>2. CASE kind # "squareOff"
    <3>1. Squared(j)' = Squared(j) /\ S[j] = Squared(j)
      BY <1>1, <1>7, <2>2
    <3>2. [S EXCEPT ![j] = S[j]] = S
      OBVIOUS
    <3> QED
      BY <1>9, <3>1, <3>2
  <2> QED
    BY <2>1, <2>2
<1>11. bar >= A[j]
  BY <1>1, <1>7
<1>12. Day(clock)' = Day(clock)
  BY DEF Day
<1>13. Book!Close(j, bar)
  BY <1>8, <1>9, <1>10, <1>11, <1>12 DEF Book!Close
<1> QED
  BY <1>6, <1>13 DEF BookStep, Book!Next

LEMMA ForceCloseBook ==
  ASSUME ~FeedRegresses, BasicInv, BookInv, NEW t \in Threads, NEW latest \in Bars, NEW pnl \in Pnls,
         ForceClose(t, latest, pnl)
  PROVE  BookInv' /\ BookStep
<1>1. /\ pc[t] = "fetch" /\ Held(t) /\ InSession(Now(t)) /\ latest >= mark[idx[t]]
      /\ UNCHANGED <<clock, risk>>
  BY DEF ForceClose, Fetched, MissedSquareOff, SquareOffDue
<1>2. PICK kind \in {"exit", "squareOff", "recovery"} : CloseOut(t, qty[idx[t]], latest, pnl, kind)
  BY DEF ForceClose
<1>3. qty[idx[t]] \in Int /\ pnl \in Int
  BY <1>1, PaperEngineAssumption DEF BasicInv, Exclusive, TypeOK, Active
<1> QED
  BY <1>1, <1>2, <1>3, SameRisk, CloseOutBook

LEMMA ExitSignalBook ==
  ASSUME MaxLag <= TradingStart, BasicInv, BookInv, NEW t \in Threads, NEW latest \in Bars,
         NEW bar \in Bars, NEW pnl \in Pnls, NEW price \in Prices, ExitSignal(t, latest, bar, pnl, price)
  PROVE  BookInv' /\ BookStep
<1>1. /\ pc[t] = "fetch" /\ pc[t] \in Active \ Writing /\ Held(t) /\ bar > mark[idx[t]] /\ clock' = clock
      /\ risk' = ResetIfNewDay(risk, Now(t))
  BY DEF ExitSignal, Strategy, Fetched, Active, Writing
<1>2. Counting
  BY <1>1, ResetKeeps
<1>3. cyc[t].qty \in Int /\ pnl \in Int /\ bar \in Int /\ mark[idx[t]] \in Int
  BY <1>1, BarsType, PaperEngineAssumption DEF BasicInv, Exclusive, TypeOK, Active, Cycle
<1>4. CASE CheckPasses(risk, OrderOf(t, "SELL", price), Now(t))
  <2>1. InSession(Now(t)) /\ CloseOut(t, cyc[t].qty, bar, pnl, "exit")
    BY <1>4 DEF ExitSignal, CheckPasses
  <2> QED
    BY <1>1, <1>2, <1>3, <2>1, CloseOutBook
<1>5. CASE ~CheckPasses(risk, OrderOf(t, "SELL", price), Now(t))
  BY <1>1, <1>2, <1>5, PlainRelease DEF ExitSignal
<1> QED
  BY <1>4, <1>5

LEMMA EntrySignalBook ==
  ASSUME BasicInv, BookInv, NEW t \in Threads, NEW latest \in Bars, NEW bar \in Bars,
         EntrySignal(t, latest, bar)
  PROVE  BookInv' /\ BookStep
<1>1. /\ pc[t] = "fetch" /\ pc[t] \in Active \ Writing /\ ~Held(t) /\ idx[t] \in Indices
      /\ UNCHANGED <<clock, risk, qty, sqOff>>
  BY DEF EntrySignal, Strategy, Fetched, Active, Writing, BasicInv, Exclusive
<1>2. PICK m \in {mark[idx[t]]} \cup AfterExpiry(t, latest) : mark' = [mark EXCEPT ![idx[t]] = m]
  BY DEF EntrySignal
<1>3. m \in Int /\ (m = mark[idx[t]] \/ (~Held(t) /\ m \in Bars /\ m > mark[idx[t]]))
  BY <1>1, <1>2, ExpiredType
<1>4. Counting
  BY <1>1, SameRisk
<1>5. CASE sqOff[idx[t]] = Day(Now(t))
  BY <1>1, <1>2, <1>3, <1>4, <1>5, ReleaseTurn DEF EntrySignal
<1>6. CASE sqOff[idx[t]] # Day(Now(t))
  <2>1. /\ pc' = [pc EXCEPT ![t] = "entry"] /\ idx' = idx
        /\ cyc' = [cyc EXCEPT ![t].bar = bar, ![t].kind = "entry"]
    BY <1>6 DEF EntrySignal
  <2>2. pc'[t] = "entry" /\ cyc'[t].bar = bar /\ cyc'[t].kind = "entry" /\ cyc'[t].now = cyc[t].now
    BY <2>1 DEF BasicInv, TypeOK, Cycle
  <2>3. Alone(t)
    BY <1>1, <1>2, <2>1 DEF BasicInv, TypeOK, Alone
  <2>4. qty[idx[t]] = 0
    BY <1>1 DEF BasicInv, TypeOK, Held
  <2>5. ThreadBook(t)'
    BY <1>1, <1>6, <2>1, <2>2, <2>4 DEF ThreadBook, BookInv, Now
  <2>6. pc'[t] \notin Writing
    BY <2>2 DEF Writing
  <2> QED
    BY <1>1, <1>2, <1>3, <1>4, <2>3, <2>5, <2>6, BookInvOfThread, ExpiryTurn
<1> QED
  BY <1>5, <1>6

LEMMA CheckEntryBook ==
  ASSUME MaxLag <= TradingStart, BasicInv, BookInv, NEW t \in Threads, NEW price \in Prices,
         CheckEntry(t, price)
  PROVE  BookInv' /\ BookStep
<1>1. /\ pc[t] = "entry" /\ pc[t] \in Active \ Writing /\ UNCHANGED <<clock, qty, mark, sqOff>>
      /\ risk' = ResetIfNewDay(risk, Now(t))
  BY DEF CheckEntry, Active, Writing
<1>2. Counting
  BY <1>1, ResetKeeps
<1>3. CASE ~CheckPasses(risk, OrderOf(t, "BUY", price), Now(t))
  BY <1>1, <1>2, <1>3, PlainRelease DEF CheckEntry
<1>4. CASE CheckPasses(risk, OrderOf(t, "BUY", price), Now(t))
  <2>1. pc' = [pc EXCEPT ![t] = "fill"] /\ UNCHANGED <<idx, cyc>>
    BY <1>4 DEF CheckEntry
  <2>2. pc'[t] = "fill"
    BY <2>1 DEF BasicInv, TypeOK
  <2>3. Alone(t)
    BY <1>1, <2>1 DEF BasicInv, TypeOK, Alone
  <2>4. risk \in RiskState /\ Now(t) \in Nat /\ clock \in Nat /\ Now(t) <= clock /\ clock <= Now(t) + MaxLag
    BY <1>1, Constants DEF BasicInv, TypeOK, Exclusive, BookInv, ThreadBook, Now
  <2>5. InSession(Now(t)) /\ ResetIfNewDay(risk, Now(t)).entries < MaxTradesPerDay
    <3>1. OrderOf(t, "BUY", price).action = "BUY" /\ OrderOf(t, "BUY", price).capNewEntries = TRUE
      BY DEF OrderOf
    <3> QED
      BY <1>4, <2>4, <3>1, BuyPassed
  <2>6. Day(clock) = Day(Now(t))
    BY <2>4, <2>5, SessionDay
  <2>7. risk'.tradeDay = Day(Now(t))
    BY <1>1, <2>4, ResetFields
  <2>8. Counted' < MaxTradesPerDay
    BY <1>1, <2>5, <2>6, <2>7 DEF Counted
  <2>9. ThreadBook(t)'
    BY <1>1, <2>1, <2>2, <2>4, <2>5, <2>8 DEF ThreadBook, BookInv, Now
  <2>10. PICK j \in Indices : j = idx[t]
    BY <1>1 DEF BasicInv, Exclusive
  <2>11. Acted(j)' = Acted(j) /\ Squared(j)' = Squared(j)
    BY <1>1, <2>2, <2>3, <2>10, OwnView, OwnViewNext DEF Writing
  <2>12. EntriesToday' = EntriesToday
    BY <1>1, <1>2, <2>2, <2>3, CountNext DEF Counting
  <2> QED
    BY <1>1, <1>2, <2>1, <2>3, <2>9, <2>10, <2>11, <2>12, BookInvOfThread, InsideTurn
<1> QED
  BY <1>3, <1>4

\* The cycle whose check passed opens a position.
LEMMA FillEntryBook ==
  ASSUME BasicInv, BookInv, LimitInv, MarkInv, NEW t \in Threads, FillEntry(t)
  PROVE  BookInv' /\ BookStep
<1>1. /\ pc[t] = "fill" /\ pc' = [pc EXCEPT ![t] = "recordEntry"]
      /\ UNCHANGED <<clock, risk, mark, sqOff, idx, cyc>>
  BY DEF FillEntry
<1>2. PICK j \in Indices : j = idx[t]
  BY <1>1 DEF BasicInv, Exclusive
<1>3. qty[j] = 0 /\ cyc[t].qty > 0 /\ cyc[t].qty \in Int /\ qty' = [qty EXCEPT ![j] = @ + cyc[t].qty]
  BY <1>1, <1>2 DEF FillEntry, BasicInv, TypeOK, Exclusive, Cycle, BookInv, ThreadBook
<1>4. qty'[j] > 0
  BY <1>3 DEF BasicInv, TypeOK
<1>5. pc[t] \in Active /\ pc[t] \notin Writing /\ pc'[t] = "recordEntry" /\ pc'[t] \in Writing
  BY <1>1 DEF Active, Writing, BasicInv, TypeOK
<1>6. Alone(t)
  <2>1. \A i \in Indices \ {j} : qty'[i] = qty[i]
    BY <1>3 DEF BasicInv, TypeOK
  <2>2. \A u \in Threads \ {t} : pc'[u] = pc[u]
    BY <1>1 DEF BasicInv, TypeOK
  <2> QED
    BY <1>1, <1>2, <1>5, <2>1, <2>2 DEF Alone
<1>7. Counting
  BY <1>1, SameRisk
<1>8. ThreadBook(t)'
  BY <1>1, <1>5 DEF ThreadBook, BookInv, Active
<1>9. BookInv'
  BY <1>6, <1>7, <1>8, BookInvOfThread
<1>10. /\ Acted(j) = mark[j] /\ Squared(j) = sqOff[j]
       /\ Acted(j)' = cyc[t].bar /\ Squared(j)' = sqOff[j]
  <2>1. cyc[t].kind # "squareOff"
    BY <1>1 DEF BookInv, ThreadBook
  <2> QED
    BY <1>1, <1>2, <1>5, <1>6, <2>1, OwnView, OwnViewNext
<1>11. cyc[t].bar \in Bars /\ cyc[t].bar > mark[j] /\ sqOff[j] # Day(clock)
  <2>1. /\ cyc[t].now \in Nat /\ clock \in Nat /\ InSession(cyc[t].now)
        /\ cyc[t].now <= clock /\ clock <= cyc[t].now + MaxLag
    BY <1>1, <1>5, Constants DEF BasicInv, TypeOK, Exclusive, BookInv, ThreadBook
  <2>2. Day(clock) = Day(cyc[t].now)
    BY <2>1, SessionDay
  <2> QED
    BY <1>1, <1>2, <2>2 DEF BookInv, ThreadBook, MarkInv, ThreadMarks
<1>12. EntriesToday < MaxTradesPerDay /\ EntriesToday' = EntriesToday + 1
  <2>1. EntriesToday = Counted /\ EntriesToday' = EntriesToday + 1
    BY <1>1, <1>5, <1>6, <1>7, CountNext DEF Counting
  <2>2. Counted < MaxTradesPerDay
    BY <1>1 DEF BookInv, ThreadBook
  <2> QED
    BY <2>1, <2>2
<1> DEFINE H == {i \in Indices : qty[i] > 0}
           A == [i \in Indices |-> Acted(i)]
           S == [i \in Indices |-> Squared(i)]
<1>13. Cardinality(H) < MaxOpenPositions
  BY <1>1 DEF LimitInv, OpenPositions
<1>14. H' = H \cup {j} /\ A' = [A EXCEPT ![j] = cyc[t].bar] /\ S' = S /\ j \notin H
  <2>1. /\ H' = IF qty'[j] > 0 THEN H \cup {j} ELSE H \ {j}
        /\ A' = [A EXCEPT ![j] = Acted(j)']
        /\ S' = [S EXCEPT ![j] = Squared(j)']
    BY <1>1, <1>2, <1>5, <1>6, TurnStep
  <2>2. [S EXCEPT ![j] = Squared(j)'] = S
    BY <1>10
  <2>3. j \notin H
    BY <1>3
  <2> QED
    BY <1>4, <1>10, <2>1, <2>2, <2>3
<1>15. cyc[t].bar > A[j] /\ S[j] # Day(clock)
  BY <1>2, <1>10, <1>11
<1>16. Day(clock)' = Day(clock)
  BY <1>1 DEF Day
<1>17. PICK b \in Bars : b = cyc[t].bar
  BY <1>11
<1>18. Book!Open(j, b)
  <2>1. j \notin H /\ Book!Cardinality(H) < MaxOpenPositions
    BY <1>13, <1>14, SameCount
  <2>2. H' = H \cup {j} /\ A' = [A EXCEPT ![j] = b] /\ S' = S /\ b > A[j]
    BY <1>14, <1>15, <1>17
  <2> QED
    BY <1>12, <1>15, <1>16, <2>1, <2>2 DEF Book!Open
<1> QED
  BY <1>9, <1>18 DEF BookStep, Book!Next

\* The bookkeeping of an entry is done on the day of its check.
LEMMA RecordingDay ==
  ASSUME BasicInv, BookInv, NEW t \in Threads, pc[t] \in Writing
  PROVE  /\ risk \in RiskState /\ Now(t) \in Nat
         /\ Day(clock) = Day(Now(t)) /\ TradingStart <= TimeOfDay(clock)
         /\ Counted = ResetIfNewDay(risk, Now(t)).entries
<1>1. /\ risk \in RiskState /\ Now(t) \in Nat /\ clock \in Nat /\ InSession(Now(t))
      /\ Now(t) <= clock /\ clock <= Now(t) + MaxLag
  BY Constants DEF BasicInv, TypeOK, Exclusive, BookInv, ThreadBook, Now, Active, Writing
<1>2. Day(clock) = Day(Now(t)) /\ TimeOfDay(Now(t)) <= TimeOfDay(clock)
  BY <1>1, SessionDay
<1>3. TradingStart <= TimeOfDay(Now(t)) /\ TimeOfDay(Now(t)) \in Nat /\ TimeOfDay(clock) \in Nat
  BY <1>1, DayParts DEF InSession
<1>4. ResetIfNewDay(risk, Now(t)).entries = IF risk.tradeDay = Day(Now(t)) THEN risk.entries ELSE 0
  BY <1>1, ResetFields
<1> QED
  BY <1>1, <1>2, <1>3, <1>4, RiskLimitsAssumption DEF Counted

LEMMA RecordEntryFillBook ==
  ASSUME BasicInv, BookInv, NEW t \in Threads, RecordEntryFill(t)
  PROVE  BookInv' /\ BookStep
<1>1. /\ pc[t] = "recordEntry" /\ pc[t] \in Active /\ pc[t] \in Writing
      /\ pc' = [pc EXCEPT ![t] = "rows"] /\ mark' = [mark EXCEPT ![idx[t]] = cyc[t].bar]
      /\ UNCHANGED <<clock, qty, sqOff, idx, cyc>>
      /\ risk' = RecordEntry(RecordTrade(risk, 0, Now(t), FALSE), Now(t))
  BY DEF RecordEntryFill, Active, Writing
<1>2. PICK j \in Indices : j = idx[t]
  BY <1>1 DEF BasicInv, Exclusive
<1>3. pc'[t] = "rows" /\ pc'[t] \notin Writing /\ mark'[j] = cyc[t].bar
  BY <1>1, <1>2 DEF Writing, BasicInv, TypeOK
<1>4. Alone(t)
  BY <1>1, <1>2 DEF BasicInv, TypeOK, Alone
<1>5. risk'.tradeDay = Day(clock) /\ risk'.entries = Counted + 1
  <2> DEFINE n == RecordTrade(risk, 0, Now(t), FALSE)
  <2>1. /\ risk \in RiskState /\ Now(t) \in Nat /\ Day(clock) = Day(Now(t))
        /\ Counted = ResetIfNewDay(risk, Now(t)).entries
    BY <1>1, RecordingDay
  <2>2. n \in RiskState /\ n.tradeDay = Day(Now(t)) /\ n.entries = Counted
    <3>1. 0 \in Int /\ FALSE \in BOOLEAN
      OBVIOUS
    <3>2. /\ n \in RiskState /\ n.tradeDay = Day(Now(t))
          /\ n.entries = ResetIfNewDay(risk, Now(t)).entries
      BY <2>1, <3>1, RecordTradeFields
    <3> QED
      BY <2>1, <3>2
  <2> HIDE DEF n
  <2>3. ResetIfNewDay(n, Now(t)).entries = Counted
    BY <2>1, <2>2, ResetFields
  <2>4. risk' = RecordEntry(n, Now(t))
    BY <1>1 DEF n
  <2> QED
    BY <2>1, <2>2, <2>3, <2>4, RecordEntryFields
<1>6. Counted' = Counted + 1
  BY <1>1, <1>5 DEF Counted
<1>7. BookInv'
  <2>1. DayBook'
    <3>1. clock \in Nat
      BY Constants DEF BasicInv, TypeOK
    <3>2. TradingStart <= TimeOfDay(clock) /\ Day(clock) \in Nat /\ TimeOfDay(clock) \in Nat
      BY <1>1, <3>1, RecordingDay, DayParts
    <3>3. Day(clock)' = Day(clock) /\ TimeOfDay(clock)' = TimeOfDay(clock) /\ TradingStart \in Nat
      BY <1>1, RiskLimitsAssumption DEF Day, TimeOfDay
    <3> QED
      BY <1>5, <3>2, <3>3 DEF DayBook
  <2>2. ThreadBook(t)'
    BY <1>1, <1>3 DEF ThreadBook, BookInv, Active
  <2>3. \A u \in Threads \ {t} : ThreadBook(u)'
    BY <1>1, <1>4, OthersBook
  <2> QED
    BY <2>1, <2>2, <2>3 DEF BookInv
<1>8. cyc[t].kind # "squareOff"
  BY <1>1 DEF BookInv, ThreadBook
<1>9. Acted(j)' = Acted(j) /\ Squared(j)' = Squared(j)
  BY <1>1, <1>2, <1>3, <1>4, <1>8, OwnView, OwnViewNext
<1>10. EntriesToday' = EntriesToday
  BY <1>1, <1>3, <1>4, <1>6, CountNext
<1> QED
  BY <1>1, <1>2, <1>4, <1>7, <1>9, <1>10, InsideTurn

LEMMA RecordCloseBook ==
  ASSUME BasicInv, BookInv, NEW t \in Threads, RecordClose(t)
  PROVE  BookInv' /\ BookStep
<1>1. /\ pc[t] = "recordClose" /\ pc[t] \in Active /\ pc[t] \in Writing
      /\ pc' = [pc EXCEPT ![t] = "rows"] /\ mark' = [mark EXCEPT ![idx[t]] = cyc[t].bar]
      /\ sqOff' = IF cyc[t].kind = "squareOff" THEN [sqOff EXCEPT ![idx[t]] = Day(Now(t))] ELSE sqOff
      /\ UNCHANGED <<clock, qty, idx, cyc>>
      /\ risk' = RecordTrade(risk, cyc[t].pnl, Now(t), TRUE)
  BY DEF RecordClose, Active, Writing
<1>2. PICK j \in Indices : j = idx[t]
  BY <1>1 DEF BasicInv, Exclusive
<1>3. /\ risk \in RiskState /\ Now(t) \in Nat /\ Day(clock) = Day(Now(t))
      /\ Counted = ResetIfNewDay(risk, Now(t)).entries /\ cyc[t].pnl \in Int
  BY <1>1, RecordingDay DEF BasicInv, TypeOK, Cycle
<1>4. pc'[t] = "rows" /\ pc'[t] \notin Writing /\ mark'[j] = cyc[t].bar
  BY <1>1, <1>2 DEF Writing, BasicInv, TypeOK
<1>5. sqOff'[j] = IF cyc[t].kind = "squareOff" THEN Day(clock) ELSE sqOff[j]
  BY <1>1, <1>2, <1>3 DEF BasicInv, TypeOK
<1>6. Alone(t)
  BY <1>1, <1>2 DEF BasicInv, TypeOK, Alone
<1>7. risk'.tradeDay = Day(clock) /\ risk'.entries = Counted
  BY <1>1, <1>3, RecordTradeFields
<1>8. Counting
  <2>1. Day(clock) \in Nat
    BY <1>3, DayParts
  <2>2. Day(clock)' = Day(clock)
    BY <1>1 DEF Day
  <2>3. Counted' = risk'.entries
    BY <1>7, <2>2 DEF Counted
  <2> QED
    BY <1>7, <2>1, <2>3 DEF Counting
<1>9. ThreadBook(t)'
  BY <1>1, <1>4 DEF ThreadBook, BookInv, Active
<1>10. Acted(j)' = Acted(j) /\ Squared(j)' = Squared(j)
  BY <1>1, <1>2, <1>4, <1>5, <1>6, OwnView, OwnViewNext
<1>11. EntriesToday' = EntriesToday
  BY <1>1, <1>4, <1>6, <1>8, CountNext DEF Counting
<1> QED
  BY <1>1, <1>2, <1>6, <1>8, <1>9, <1>10, <1>11, BookInvOfThread, InsideTurn

LEMMA BuildRowsBook ==
  ASSUME BasicInv, BookInv, NEW t \in Threads, BuildRows(t)
  PROVE  BookInv' /\ BookStep
<1>1. /\ pc[t] = "rows" /\ pc[t] \in Active \ Writing /\ pc' = [pc EXCEPT ![t] = "commit"]
      /\ UNCHANGED <<clock, risk, qty, mark, sqOff, idx>>
  BY DEF BuildRows, Active, Writing, memory
<1>2. PICK j \in Indices : j = idx[t]
  BY <1>1 DEF BasicInv, Exclusive
<1>3. pc'[t] = "commit" /\ pc'[t] \notin Writing /\ cyc'[t].now = cyc[t].now
  BY <1>1 DEF BuildRows, Writing, BasicInv, TypeOK, Cycle
<1>4. Alone(t)
  BY <1>1 DEF BuildRows, BasicInv, TypeOK, Alone
<1>5. Counting
  BY <1>1, SameRisk
<1>6. ThreadBook(t)'
  BY <1>1, <1>3 DEF ThreadBook, BookInv, Active
<1>7. Acted(j)' = Acted(j) /\ Squared(j)' = Squared(j)
  BY <1>1, <1>2, <1>3, <1>4, OwnView, OwnViewNext
<1>8. EntriesToday' = EntriesToday
  BY <1>1, <1>3, <1>4, <1>5, CountNext DEF Counting
<1> QED
  BY <1>1, <1>2, <1>4, <1>5, <1>6, <1>7, <1>8, BookInvOfThread, InsideTurn

-----------------------------------------------------------------------------
(* The scheduler, the operators and time.                                  *)

\* No cycle, account or counter of the day changes.
LEMMA AsideBook ==
  ASSUME BookInv, UNCHANGED <<clock, qty, mark, sqOff, pc, idx, cyc>>,
         risk'.tradeDay = risk.tradeDay, risk'.entries = risk.entries
  PROVE  BookInv' /\ BookStep
<1>1. Counted' = Counted
  BY DEF Counted
<1>2. BookInv'
  BY <1>1 DEF BookInv, DayBook, ThreadBook
<1>3. \A i \in Indices : Acted(i)' = Acted(i) /\ Squared(i)' = Squared(i)
  BY DEF Acted, Squared, Recording
<1>4. EntriesToday' = EntriesToday /\ Day(clock)' = Day(clock)
  BY DEF EntriesToday, Day
<1> QED
  BY <1>2, <1>3, <1>4, SilentStep

LEMMA OperateBook ==
  ASSUME BasicInv, BookInv, NEW cmd \in Commands, Operate(cmd)
  PROVE  BookInv' /\ BookStep
<1>1. risk \in RiskState /\ cmd \in AllCommands /\ risk' = Obey(cmd)
  BY PaperEngineAssumption DEF BasicInv, TypeOK, Operate
<1>2. SameDay(risk', risk)
  <2>1. CASE cmd = "resetHalt"
    BY <1>1, <2>1, ResetHaltFields DEF Obey
  <2>2. CASE cmd # "resetHalt"
    BY <1>1, <2>2, SwitchFields DEF Obey, AllCommands
  <2> QED
    BY <2>1, <2>2
<1> QED
  BY <1>2, AsideBook DEF SameDay, Operate, control

\* No cycle is between its check and its bookkeeping at midnight.
LEMMA TickBook ==
  ASSUME BasicInv, BookInv, Tick
  PROVE  BookInv' /\ BookStep
<1>1. /\ clock' = clock + 1 /\ clock \in Nat /\ MaxLag \in Nat
      /\ UNCHANGED <<risk, qty, mark, sqOff, pc, idx, cyc>>
  BY Constants, PaperEngineAssumption DEF Tick, memory, control, BasicInv, TypeOK
<1>2. ASSUME NEW t \in Threads, pc[t] \in Active
      PROVE  cyc[t].now \in Nat /\ cyc[t].now <= clock + 1 /\ clock + 1 <= cyc[t].now + MaxLag
  <2>1. cyc[t].now \in Nat /\ cyc[t].now <= clock
    BY <1>2 DEF BasicInv, Exclusive, BookInv, ThreadBook
  <2>2. clock < cyc[t].now + MaxLag
    BY <2>1 DEF Tick, NoMark
  <2> QED
    BY <1>1, <2>1, <2>2
<1>3. ASSUME NEW t \in Threads, pc[t] \in {"fill", "recordEntry", "recordClose"}
      PROVE  Day(clock + 1) = Day(clock)
  <2>1. pc[t] \in Active /\ InSession(cyc[t].now)
    BY <1>3 DEF Active, BookInv, ThreadBook
  <2>2. /\ cyc[t].now \in Nat /\ cyc[t].now <= clock /\ clock <= cyc[t].now + MaxLag
        /\ cyc[t].now <= clock + 1 /\ clock + 1 <= cyc[t].now + MaxLag
    BY <1>2, <2>1 DEF BookInv, ThreadBook
  <2>3. Day(clock) = Day(cyc[t].now) /\ Day(clock + 1) = Day(cyc[t].now)
    BY <1>1, <2>1, <2>2, SessionDay
  <2> QED
    BY <2>3
<1>4. /\ Day(clock) \in Nat /\ Day(clock + 1) \in Nat /\ TimeOfDay(clock) \in Nat
      /\ risk.tradeDay \in Int /\ TradingStart \in Nat
  <2>1. clock + 1 \in Nat
    BY <1>1
  <2>2. Day(clock) \in Nat /\ Day(clock + 1) \in Nat /\ TimeOfDay(clock) \in Nat
    BY <1>1, <2>1, DayParts
  <2>3. risk.tradeDay \in Int
    BY DEF BasicInv, TypeOK, RiskState
  <2> QED
    BY <2>2, <2>3, RiskLimitsAssumption
<1>5. CASE Day(clock + 1) = Day(clock)
  <2>1. Day(clock)' = Day(clock) /\ TimeOfDay(clock)' = TimeOfDay(clock) + 1
    BY <1>1, <1>4, <1>5, NextSlot DEF Day, TimeOfDay
  <2>2. Counted' = Counted
    BY <1>1, <2>1 DEF Counted
  <2>3. DayBook'
    BY <1>1, <1>4, <2>1, <2>2 DEF DayBook, BookInv
  <2>4. \A t \in Threads : ThreadBook(t)'
    BY <1>1, <1>2, <2>2 DEF BookInv, ThreadBook
  <2>5. \A i \in Indices : Acted(i)' = Acted(i) /\ Squared(i)' = Squared(i)
    BY <1>1, <2>1 DEF Acted, Squared, Recording
  <2>6. EntriesToday' = EntriesToday
    BY <1>1, <2>1 DEF EntriesToday
  <2> QED
    BY <1>1, <2>1, <2>3, <2>4, <2>5, <2>6, SilentStep DEF BookInv
<1>6. CASE Day(clock + 1) = Day(clock) + 1
  <2>1. Day(clock)' = Day(clock) + 1
    BY <1>1, <1>6 DEF Day
  <2>2. \A t \in Threads : pc[t] \notin {"fill", "recordEntry", "recordClose"}
    BY <1>3, <1>4, <1>6
  <2>3. risk.tradeDay # Day(clock) + 1 /\ risk.tradeDay <= Day(clock) + 1
    BY <1>4 DEF BookInv, DayBook
  <2>4. Counted' = 0
    BY <1>1, <2>1, <2>3 DEF Counted
  <2>5. BookInv'
    BY <1>1, <1>2, <2>1, <2>2, <2>3, <2>4 DEF BookInv, DayBook, ThreadBook
  <2>6. \A i \in Indices : Recording(i) = {} /\ Recording(i)' = {}
    BY <1>1, <2>2 DEF Recording
  <2>7. \A i \in Indices : Acted(i)' = Acted(i) /\ Squared(i)' = Squared(i)
    BY <1>1, <2>6 DEF Acted, Squared
  <2>8. EntriesToday' = 0
    <3>1. {t \in Threads : pc[t] = "recordEntry"}' = {}
      BY <1>1, <2>2
    <3> QED
      BY <2>4, <3>1, FS_EmptySet DEF EntriesToday, Counted
  <2>9. /\ {i \in Indices : qty[i] > 0}' = {i \in Indices : qty[i] > 0}
        /\ [i \in Indices |-> Acted(i)]' = [i \in Indices |-> Acted(i)]
        /\ [i \in Indices |-> Squared(i)]' = [i \in Indices |-> Squared(i)]
    BY <1>1, <2>7
  <2>10. Book!NewDay
    BY <2>1, <2>8, <2>9 DEF Book!NewDay
  <2> QED
    BY <2>5, <2>10 DEF BookStep, Book!Next
<1> QED
  BY <1>1, <1>5, <1>6, NextSlot

-----------------------------------------------------------------------------
(* The refinement.                                                         *)

LEMMA BookInit == Init => BookInv /\ Book!Init
<1> SUFFICES ASSUME Init PROVE BookInv /\ Book!Init
  OBVIOUS
<1>1. Day(0) = 0 /\ clock = 0
  BY RiskLimitsAssumption DEF Day, Init
<1>2. \A t \in Threads : pc[t] = "idle"
  BY DEF Init
<1>3. risk.tradeDay = -1
  BY DEF Init, FreshRisk, NoValue
<1>4. BookInv
  BY <1>1, <1>2, <1>3 DEF BookInv, DayBook, ThreadBook, Counted, Active
<1>5. \A i \in Indices : Recording(i) = {}
  BY <1>2 DEF Recording
<1>6. \A i \in Indices : Acted(i) = NoMark /\ Squared(i) = NoMark
  BY <1>5 DEF Acted, Squared, Init, Recording
<1>7. {t \in Threads : pc[t] = "recordEntry"} = {}
  BY <1>2
<1>8. EntriesToday = 0
  BY <1>1, <1>3, <1>7, FS_EmptySet DEF EntriesToday
<1>9. {i \in Indices : qty[i] > 0} = {}
  BY DEF Init
<1> QED
  BY <1>1, <1>4, <1>6, <1>8, <1>9 DEF Book!Init

LEMMA LimitInvariant ==
  ASSUME MaxCrashes = 0
  PROVE  Spec => []LimitInv
<1>1. Init => LimitInv
  <2>1. Init => {i \in Indices : qty[i] > 0} = {}
    BY DEF Init
  <2>2. Init => OpenPositions = 0
    BY <2>1, FS_EmptySet DEF OpenPositions
  <2> QED
    BY <2>2, RiskLimitsAssumption DEF Init, LimitInv, PositionLimit
<1>2. BasicInv /\ BasicInv' /\ LimitInv /\ [Next]_vars => LimitInv'
  BY LimitStep
<1>3. Spec => []BasicInv
  BY EngineTyped DEF BasicInv
<1> QED
  BY <1>1, <1>2, <1>3, PTL DEF Spec

LEMMA BookNext ==
  ASSUME MaxCrashes = 0, ~FeedRegresses, MaxLag <= TradingStart,
         BasicInv, LimitInv, MarkInv, BookInv, [Next]_vars
  PROVE  BookInv' /\ BookStep
<1>1. ASSUME NEW t \in Threads, Decide(t)
      PROVE  BookInv' /\ BookStep
  BY <1>1, AwaitTodayBook, ForceCloseBook, NoSignalBook, ExitSignalBook, EntrySignalBook DEF Decide
<1>2. ASSUME NEW t \in Threads, Work(t)
      PROVE  BookInv' /\ BookStep
  BY <1>1, <1>2, BusyBook, BeginBook, EndBook, CheckEntryBook, FillEntryBook, RecordEntryFillBook,
     RecordCloseBook, BuildRowsBook DEF Work
<1>3. CASE SchedulerTick \/ (\E i \in Indices : SchedulerSkip(i)) \/ OperatorBuilds \/ OperatorCommits \/ UNCHANGED vars
  BY <1>3, AsideBook DEF SchedulerTick, SchedulerSkip, OperatorBuilds, OperatorCommits, vars, memory, control
<1>4. ~Restart
  BY DEF Restart, BasicInv, TypeOK
<1> QED
  BY <1>2, <1>3, <1>4, RequestBook, OperateBook, TickBook DEF Next

\* With a feed that does not go back, and no restart, every interleaving of
\* scheduled cycles, manual runs and operators is a behaviour of the book: the
\* position limit, the daily cap, one action per event and no entry after the
\* square-off hold together (run_cycle, risk_manager.check).  A cycle must end
\* before the next session begins: a later one would reset that day's counters.
THEOREM EngineImplementsBook ==
  ASSUME MaxCrashes = 0, ~FeedRegresses, MaxLag <= TradingStart
  PROVE  Spec => ImplementsPaperBook
<1>1. Init => BookInv /\ Book!Init
  BY BookInit
<1>2. BasicInv /\ LimitInv /\ MarkInv /\ BookInv /\ [Next]_vars => BookInv' /\ [Book!Next]_Book!vars
  BY BookNext DEF BookStep
<1>3. Spec => []BasicInv
  BY EngineTyped DEF BasicInv
<1>4. Spec => []LimitInv
  BY LimitInvariant
<1>5. Spec => []MarkInv
  BY MarkInvariant
<1> QED
  BY <1>1, <1>2, <1>3, <1>4, <1>5, PTL DEF Spec, ImplementsPaperBook, Book!Spec
=============================================================================
