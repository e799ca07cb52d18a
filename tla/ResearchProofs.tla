---------------------------- MODULE ResearchProofs ----------------------------
(* Theorems about the research commands.                                       *)
EXTENDS Research, FiniteSetTheorems, SequenceTheorems, TLAPS

-------------------------------------------------------------------------------
(* Sets put in order.                                                          *)

Rank(S, f, x) == Cardinality({y \in S : f[y] < f[x]})

\* In a finite set told apart by whole numbers every rank is taken, once.
LEMMA Ranks ==
  ASSUME NEW S, IsFiniteSet(S), NEW f \in [S -> Int],
         \A x, y \in S : f[x] = f[y] => x = y
  PROVE  /\ Cardinality(S) \in Nat
         /\ \A x \in S : Rank(S, f, x) \in 0..(Cardinality(S) - 1)
         /\ \A x, y \in S : f[x] < f[y] <=> Rank(S, f, x) < Rank(S, f, y)
         /\ \A k \in 1..Cardinality(S) : \E x \in S : Rank(S, f, x) = k - 1
<1> DEFINE n == Cardinality(S)
           below(x) == {y \in S : f[y] < f[x]}
           r == [x \in S |-> Rank(S, f, x)]
<1>1. n \in Nat
  BY FS_CardinalityType
<1>2. ASSUME NEW x \in S PROVE Rank(S, f, x) \in 0..(n - 1)
  <2>1. below(x) \in SUBSET S /\ x \notin below(x)
    OBVIOUS
  <2>2. Cardinality(below(x)) \in Nat /\ Cardinality(below(x)) <= n /\ Cardinality(below(x)) # n
    BY <2>1, FS_Subset, FS_CardinalityType
  <2> QED
    BY <1>1, <2>2 DEF Rank
<1>3. ASSUME NEW x \in S, NEW y \in S, f[x] < f[y] PROVE Rank(S, f, x) < Rank(S, f, y)
  <2>1. below(x) \in SUBSET below(y) /\ x \in below(y) /\ x \notin below(x)
    BY <1>3
  <2>2. IsFiniteSet(below(y))
    BY FS_Subset
  <2>3. Cardinality(below(x)) \in Nat /\ Cardinality(below(y)) \in Nat
        /\ Cardinality(below(x)) <= Cardinality(below(y)) /\ Cardinality(below(x)) # Cardinality(below(y))
    BY <2>1, <2>2, FS_Subset, FS_CardinalityType
  <2> QED
    BY <2>3 DEF Rank
<1>4. \A x, y \in S : f[x] < f[y] <=> Rank(S, f, x) < Rank(S, f, y)
  <2> SUFFICES ASSUME NEW x \in S, NEW y \in S PROVE f[x] < f[y] <=> Rank(S, f, x) < Rank(S, f, y)
    OBVIOUS
  <2>1. f[x] < f[y] \/ f[y] < f[x] \/ x = y
    OBVIOUS
  <2>2. Rank(S, f, x) \in Int /\ Rank(S, f, y) \in Int
    BY <1>1, <1>2
  <2> QED
    BY <2>1, <2>2, <1>3
<1>5. r \in Injection(S, 0..(n - 1))
  <2>1. r \in [S -> 0..(n - 1)]
    BY <1>2
  <2>2. ASSUME NEW x \in S, NEW y \in S, r[x] = r[y] PROVE x = y
    <3>1. Rank(S, f, x) = Rank(S, f, y) /\ Rank(S, f, x) \in Int
      BY <1>1, <1>2, <2>2
    <3>2. ~(f[x] < f[y]) /\ ~(f[y] < f[x])
      BY <3>1, <1>4
    <3> QED
      BY <3>2
  <2> QED
    BY <2>1, <2>2 DEF Injection, IsInjective
<1>6. IsFiniteSet(0..(n - 1)) /\ Cardinality(0..(n - 1)) = n
  BY <1>1, FS_Interval
<1>7. r \in Surjection(S, 0..(n - 1))
  <2> HIDE DEF r, n
  <2> QED
    BY <1>5, <1>6, FS_Injection DEF n
<1>8. \A k \in 1..n : \E x \in S : Rank(S, f, x) = k - 1
  <2> TAKE k \in 1..n
  <2>1. k - 1 \in 0..(n - 1)
    BY <1>1
  <2>2. PICK x \in S : r[x] = k - 1
    BY <1>7, <2>1 DEF Surjection
  <2> QED
    BY <2>2
<1> QED
  BY <1>1, <1>2, <1>4, <1>8

Below(S, x) == Cardinality({y \in S : y < x})

\* A set of numbers as an increasing sequence of its members.
LEMMA OrderedNumbers ==
  ASSUME NEW S, IsFiniteSet(S), S \subseteq Int
  PROVE  LET e == Ordered(S, <)
         IN  /\ e \in Seq(S) /\ Len(e) = Cardinality(S) /\ Cardinality(S) \in Nat
             /\ \A j, k \in 1..Len(e) : j < k <=> e[j] < e[k]
             /\ \A x \in S : \E k \in 1..Len(e) : e[k] = x
<1> DEFINE e == Ordered(S, <)
           n == Cardinality(S)
<1>1. /\ n \in Nat /\ \A x \in S : Below(S, x) \in 0..(n - 1)
      /\ \A x, y \in S : x < y <=> Below(S, x) < Below(S, y)
      /\ \A k \in 1..n : \E x \in S : Below(S, x) = k - 1
  <2>1. PICK f \in [S -> Int] : \A x \in S : f[x] = x
    <3> WITNESS [x \in S |-> x] \in [S -> Int]
    <3> QED
      OBVIOUS
  <2>2. \A x \in S : Rank(S, f, x) = Below(S, x)
    <3> TAKE x \in S
    <3>1. {y \in S : f[y] < f[x]} = {y \in S : y < x}
      BY <2>1
    <3> QED
      BY <3>1 DEF Rank, Below
  <2>3. \A x, y \in S : f[x] = f[y] => x = y
    BY <2>1
  <2>4. /\ n \in Nat /\ \A x \in S : Rank(S, f, x) \in 0..(n - 1)
        /\ \A x, y \in S : f[x] < f[y] <=> Rank(S, f, x) < Rank(S, f, y)
        /\ \A k \in 1..n : \E x \in S : Rank(S, f, x) = k - 1
    BY <2>3, Ranks
  <2> QED
    BY <2>1, <2>2, <2>4
<1>2. e = [k \in 1..n |-> CHOOSE x \in S : Below(S, x) = k - 1]
  BY DEF Ordered, Below
<1> HIDE DEF e, n
<1>3. \A k \in 1..n : e[k] \in S /\ Below(S, e[k]) = k - 1
  BY <1>1, <1>2
<1>4. e \in Seq(S) /\ Len(e) = n
  <2>1. e \in [1..n -> S]
    BY <1>2, <1>3
  <2> QED
    BY <1>1, <2>1
<1>5. \A j, k \in 1..n : j < k <=> e[j] < e[k]
  <2> TAKE j, k \in 1..n
  <2>1. e[j] < e[k] <=> Below(S, e[j]) < Below(S, e[k])
    BY <1>1, <1>3
  <2>2. Below(S, e[j]) = j - 1 /\ Below(S, e[k]) = k - 1 /\ j \in Int /\ k \in Int
    BY <1>1, <1>3
  <2> QED
    BY <2>1, <2>2
<1>6. \A x \in S : \E k \in 1..n : e[k] = x
  <2> TAKE x \in S
  <2>1. PICK k \in 1..n : k = Below(S, x) + 1
    BY <1>1
  <2>2. Below(S, e[k]) = Below(S, x) /\ e[k] \in S
    BY <1>1, <1>3, <2>1
  <2>3. Below(S, x) \in Int /\ Below(S, e[k]) \in Int /\ e[k] \in Int /\ x \in Int
    <3>1. Below(S, x) \in 0..(n - 1)
      BY <1>1
    <3>2. e[k] \in Int /\ x \in Int
      BY <2>2
    <3> QED
      BY <2>2, <3>1, <3>2
  <2>4. (e[k] < x <=> Below(S, e[k]) < Below(S, x)) /\ (x < e[k] <=> Below(S, x) < Below(S, e[k]))
    BY <1>1, <2>2
  <2>5. ~(e[k] < x) /\ ~(x < e[k])
    BY <2>2, <2>3, <2>4
  <2> QED
    BY <2>3, <2>5
<1> QED
  BY <1>1, <1>4, <1>5, <1>6 DEF e, n
Before(S, x) == Cardinality({y \in S : y.t < x.t})

\* Rows of different times as a sequence of them in order of time.
LEMMA InOrderOfTime ==
  ASSUME NEW S, IsFiniteSet(S), S \subseteq Rows, \A x, y \in S : x.t = y.t => x = y
  PROVE  /\ ByTime(S) \in Seq(S) /\ Len(ByTime(S)) = Cardinality(S) /\ Cardinality(S) \in Nat
         /\ \A j, k \in 1..Len(ByTime(S)) : j < k <=> ByTime(S)[j].t < ByTime(S)[k].t
         /\ \A x \in S : \E k \in 1..Len(ByTime(S)) : ByTime(S)[k] = x
<1> DEFINE e == ByTime(S)
           n == Cardinality(S)
<1>0. \A x \in S : x.t \in Int
  BY DEF Rows
<1>1. /\ n \in Nat /\ \A x \in S : Before(S, x) \in 0..(n - 1)
      /\ \A x, y \in S : x.t < y.t <=> Before(S, x) < Before(S, y)
      /\ \A k \in 1..n : \E x \in S : Before(S, x) = k - 1
  <2>1. PICK f \in [S -> Int] : \A x \in S : f[x] = x.t
    <3>1. [x \in S |-> x.t] \in [S -> Int]
      BY <1>0
    <3> QED
      BY <3>1
  <2>2. \A x \in S : Rank(S, f, x) = Before(S, x)
    <3> TAKE x \in S
    <3>1. {y \in S : f[y] < f[x]} = {y \in S : y.t < x.t}
      BY <2>1
    <3> QED
      BY <3>1 DEF Rank, Before
  <2>3. \A x, y \in S : f[x] = f[y] => x = y
    BY <2>1
  <2>4. /\ n \in Nat /\ \A x \in S : Rank(S, f, x) \in 0..(n - 1)
        /\ \A x, y \in S : f[x] < f[y] <=> Rank(S, f, x) < Rank(S, f, y)
        /\ \A k \in 1..n : \E x \in S : Rank(S, f, x) = k - 1
    BY <2>3, Ranks
  <2> QED
    BY <2>1, <2>2, <2>4
<1>2. e = [k \in 1..n |-> CHOOSE x \in S : Before(S, x) = k - 1]
  BY DEF ByTime, Ordered, Before
<1> HIDE DEF e, n
<1>3. \A k \in 1..n : e[k] \in S /\ Before(S, e[k]) = k - 1
  BY <1>1, <1>2
<1>4. e \in Seq(S) /\ Len(e) = n
  <2>1. e \in [1..n -> S]
    BY <1>2, <1>3
  <2> QED
    BY <1>1, <2>1
<1>5. \A j, k \in 1..n : j < k <=> e[j].t < e[k].t
  <2> TAKE j, k \in 1..n
  <2>1. e[j].t < e[k].t <=> Before(S, e[j]) < Before(S, e[k])
    BY <1>1, <1>3
  <2>2. Before(S, e[j]) = j - 1 /\ Before(S, e[k]) = k - 1 /\ j \in Int /\ k \in Int
    BY <1>1, <1>3
  <2> QED
    BY <2>1, <2>2
<1>6. \A x \in S : \E k \in 1..n : e[k] = x
  <2> TAKE x \in S
  <2>1. PICK k \in 1..n : k = Before(S, x) + 1
    BY <1>1
  <2>2. Before(S, e[k]) = Before(S, x) /\ e[k] \in S
    BY <1>1, <1>3, <2>1
  <2>3. Before(S, x) \in Int /\ Before(S, e[k]) \in Int /\ e[k].t \in Int /\ x.t \in Int
    <3>1. Before(S, x) \in 0..(n - 1)
      BY <1>1
    <3>2. e[k].t \in Int /\ x.t \in Int
      BY <1>0, <2>2
    <3> QED
      BY <2>2, <3>1, <3>2
  <2>4. (e[k].t < x.t <=> Before(S, e[k]) < Before(S, x)) /\ (x.t < e[k].t <=> Before(S, x) < Before(S, e[k]))
    BY <1>1, <2>2
  <2>5. ~(e[k].t < x.t) /\ ~(x.t < e[k].t)
    BY <2>2, <2>3, <2>4
  <2>6. e[k].t = x.t
    BY <2>3, <2>5
  <2> QED
    BY <2>2, <2>6
<1> QED
  BY <1>1, <1>4, <1>5, <1>6 DEF e, n

LEMMA DomainFinite ==
  ASSUME NEW T, NEW s \in Seq(T)
  PROVE  Len(s) \in Nat /\ DOMAIN s = 1..Len(s) /\ IsFiniteSet(DOMAIN s) /\ Cardinality(DOMAIN s) = Len(s)
<1>1. Len(s) \in Nat /\ DOMAIN s = 1..Len(s)
  OBVIOUS
<1> QED
  BY <1>1, FS_Interval

\* p is what s has at the members of S, which `at` lists in their order.
Picks(at, p, s, S) ==
  /\ at \in Seq(S) /\ Len(at) \in Nat /\ Len(at) = Len(p)
  /\ \A k \in 1..Len(at) : at[k] \in S /\ p[k] = s[at[k]]
  /\ \A j, k \in 1..Len(at) : j < k <=> at[j] < at[k]
  /\ \A i \in S : \E k \in 1..Len(at) : at[k] = i

\* The part of a sequence at a set of its positions keeps their order.
LEMMA PartOf ==
  ASSUME NEW T, NEW s \in Seq(T), NEW S \in SUBSET DOMAIN s
  PROVE  /\ Part(s, S) \in Seq(T)
         /\ \E at : Picks(at, Part(s, S), s, S)
         /\ Len(Part(s, S)) = Cardinality(S)
<1> DEFINE at == Ordered(S, <)
           p == Part(s, S)
<1>1. IsFiniteSet(S) /\ S \subseteq Int
  BY DomainFinite, FS_Subset
<1>2. /\ at \in Seq(S) /\ Len(at) = Cardinality(S) /\ Cardinality(S) \in Nat
      /\ \A j, k \in 1..Len(at) : j < k <=> at[j] < at[k]
      /\ \A i \in S : \E k \in 1..Len(at) : at[k] = i
  BY <1>1, OrderedNumbers
<1>3. p = [k \in DOMAIN at |-> s[at[k]]]
  BY DEF Part
<1> HIDE DEF at, p
<1>4. p \in [1..Len(at) -> T] /\ Len(at) \in Nat
  BY <1>2, <1>3
<1>5. p \in Seq(T) /\ Len(p) = Len(at)
  BY <1>4
<1>6. \A k \in 1..Len(at) : at[k] \in S /\ p[k] = s[at[k]]
  BY <1>2, <1>3
<1>7. Picks(at, p, s, S)
  BY <1>2, <1>5, <1>6 DEF Picks
<1> QED
  BY <1>2, <1>5, <1>7 DEF p

-------------------------------------------------------------------------------
(* The downloader's arithmetic.                                                *)

LEMMA Division ==
  ASSUME NEW n \in Int, NEW d \in Nat \ {0}
  PROVE  /\ n \div d \in Int /\ d * (n \div d) <= n /\ n < d * (n \div d) + d
         /\ n >= 0 => n \div d \in Nat
OBVIOUS

LEMMA MonotoneProduct ==
  ASSUME NEW d \in Nat, NEW j \in Int, NEW k \in Int, j <= k
  PROVE  d * j \in Int /\ d * k \in Int /\ d * j <= d * k
OBVIOUS

Chunks == [first : Nat, last : Nat]

\* Chunks that follow one another without a gap or an overlap.
Chained(todo) == \A i \in 1..(Len(todo) - 1) : todo[i + 1].first = todo[i].last + 1

\* The ranges the downloader asks for cover every requested day once, in order,
\* and none is longer than the broker allows (plan_chunks).
THEOREM PlanCoversRequest ==
  ASSUME NEW start \in Nat, NEW end \in Nat, start <= end
  PROVE  LET todo == PlanChunks(start, end)
         IN  /\ todo \in Seq(Chunks) /\ todo # <<>> /\ Chained(todo)
             /\ todo[1].first = start /\ todo[Len(todo)].last = end
             /\ \A i \in 1..Len(todo) :
                   todo[i].first <= todo[i].last /\ todo[i].last <= end /\ todo[i].last - todo[i].first < ChunkDays
<1> DEFINE q == (end - start) \div ChunkDays
           todo == PlanChunks(start, end)
           low(k) == ChunkDays * (k - 1)
<1>0. ChunkDays \in Nat \ {0}
  BY DatasetAssumption
<1>1. q \in Nat /\ ChunkDays * q <= end - start /\ end - start < ChunkDays * q + ChunkDays
  BY <1>0, Division
<1>2. \A a, b \in Int : Min({a, b}) = IF a <= b THEN a ELSE b
  BY DEF Min
<1>3. todo = [k \in 1..(q + 1) |->
                 [first |-> start + (k - 1) * ChunkDays, last |-> Min({start + k * ChunkDays - 1, end})]]
  BY DEF PlanChunks
<1> HIDE DEF q, todo
<1>4. ASSUME NEW k \in 1..(q + 1)
      PROVE  /\ low(k) \in Nat /\ low(k) <= ChunkDays * q
             /\ k <= q => low(k) + ChunkDays <= ChunkDays * q
             /\ (k - 1) * ChunkDays = low(k) /\ k * ChunkDays = low(k) + ChunkDays
             /\ k = q + 1 => low(k) = ChunkDays * q
             /\ todo[k].first = start + low(k)
             /\ todo[k].last = IF k <= q THEN start + low(k) + ChunkDays - 1 ELSE end
  <2>1. k \in Int /\ q \in Int /\ 0 <= k - 1 /\ k - 1 <= q /\ k - 1 \in Int
    BY <1>1
  <2>2. low(k) \in Int /\ ChunkDays * q \in Int /\ low(k) <= ChunkDays * q
    BY <1>0, <2>1, MonotoneProduct
  <2>3. 0 <= low(k)
    BY <1>0, <2>1
  <2>4. (k - 1) * ChunkDays = low(k) /\ k * ChunkDays = low(k) + ChunkDays /\ ChunkDays * k = low(k) + ChunkDays
    BY <1>0, <2>1
  <2>5. k <= q => low(k) + ChunkDays <= ChunkDays * q
    BY <1>0, <2>1, <2>4, MonotoneProduct
  <2>6. k = q + 1 => low(k) = ChunkDays * q
    BY <2>1
  <2>7. todo[k] = [first |-> start + low(k), last |-> Min({start + (low(k) + ChunkDays) - 1, end})]
    BY <1>3, <2>4
  <2> HIDE DEF low
  <2>8. todo[k].last = IF start + (low(k) + ChunkDays) - 1 <= end THEN start + (low(k) + ChunkDays) - 1 ELSE end
    BY <1>0, <1>2, <2>2, <2>7
  <2>9. todo[k].last = IF k <= q THEN start + low(k) + ChunkDays - 1 ELSE end
    <3>1. CASE k <= q
      BY <1>0, <1>1, <2>1, <2>2, <2>5, <2>8, <3>1
    <3>2. CASE k = q + 1
      <4>1. low(k) \in Int /\ end - start < low(k) + ChunkDays
        BY <1>1, <2>2, <2>6, <3>2
      <4> QED
        BY <1>0, <2>1, <2>8, <3>2, <4>1
    <3> QED
      BY <2>1, <3>1, <3>2
  <2> QED
    BY <2>2, <2>3, <2>4, <2>5, <2>6, <2>7, <2>9
<1> HIDE DEF low
<1>5. todo \in [1..(q + 1) -> Chunks]
  <2>1. ASSUME NEW k \in 1..(q + 1) PROVE todo[k] \in Chunks
    <3>1. todo[k] = [first |-> todo[k].first, last |-> todo[k].last]
      BY <1>3
    <3>2. todo[k].first \in Nat /\ todo[k].last \in Nat
      BY <1>0, <1>1, <1>4
    <3> QED
      BY <3>1, <3>2 DEF Chunks
  <2> QED
    BY <1>3, <2>1
<1>6. todo \in Seq(Chunks) /\ Len(todo) = q + 1 /\ todo # <<>>
  BY <1>1, <1>5
<1>7. Chained(todo)
  <2> SUFFICES ASSUME NEW i \in 1..q PROVE todo[i + 1].first = todo[i].last + 1
    BY <1>1, <1>6 DEF Chained
  <2>1. i \in 1..(q + 1) /\ i + 1 \in 1..(q + 1) /\ i <= q /\ i \in Int
    BY <1>1
  <2>2. todo[i].last = start + low(i) + ChunkDays - 1 /\ low(i) \in Nat
    BY <1>4, <2>1
  <2>3. todo[i + 1].first = start + low(i + 1)
    BY <1>4, <2>1
  <2>4. low(i + 1) = i * ChunkDays /\ i * ChunkDays = low(i) + ChunkDays
    <3>1. ((i + 1) - 1) * ChunkDays = low(i + 1)
      BY <1>4, <2>1
    <3>2. i * ChunkDays = low(i) + ChunkDays
      BY <1>4, <2>1
    <3> QED
      BY <2>1, <3>1, <3>2
  <2> QED
    BY <1>0, <2>2, <2>3, <2>4
<1>8. todo[1].first = start /\ todo[Len(todo)].last = end
  <2>1. low(1) = 0
    BY <1>0 DEF low
  <2>2. todo[1].first = start + low(1)
    BY <1>1, <1>4
  <2>3. todo[q + 1].last = end
    BY <1>1, <1>4
  <2> QED
    BY <1>6, <2>1, <2>2, <2>3
<1>9. \A i \in 1..(q + 1) :
         todo[i].first <= todo[i].last /\ todo[i].last <= end /\ todo[i].last - todo[i].first < ChunkDays
  <2> TAKE i \in 1..(q + 1)
  <2>1. /\ (i <= q => low(i) + ChunkDays <= ChunkDays * q)
        /\ low(i) \in Nat /\ low(i) <= ChunkDays * q /\ (i = q + 1 => low(i) = ChunkDays * q)
        /\ todo[i].first = start + low(i) /\ ChunkDays * q \in Int
        /\ todo[i].last = IF i <= q THEN start + low(i) + ChunkDays - 1 ELSE end
    BY <1>0, <1>1, <1>4
  <2>2. CASE i <= q
    BY <1>0, <1>1, <2>1, <2>2
  <2>3. CASE i = q + 1
    BY <1>0, <1>1, <2>1, <2>3
  <2> QED
    BY <1>1, <2>2, <2>3
<1> QED
  BY <1>6, <1>7, <1>8, <1>9 DEF todo

-------------------------------------------------------------------------------
(* What is done to rows.                                                       *)

LEMMA RowTypes ==
  ASSUME NEW b \in Rows
  PROVE  b.t \in Nat /\ b.l \in Int /\ b.grid \in BOOLEAN
BY DEF Rows

\* A set of positions, as rows of different times.
LEMMA RowsAt ==
  ASSUME NEW rows \in Seq(Rows), NEW S \in SUBSET DOMAIN rows,
         \A i, j \in S : rows[i].t = rows[j].t => i = j
  PROVE  LET R == {rows[i] : i \in S}
         IN  /\ IsFiniteSet(R) /\ R \subseteq Rows /\ \A x, y \in R : x.t = y.t => x = y
             /\ IsFiniteSet(S) /\ Cardinality(R) = Cardinality(S)
<1> DEFINE R == {rows[i] : i \in S}
<1>1. IsFiniteSet(S)
  BY DomainFinite, FS_Subset
<1>2. R \subseteq Rows /\ \A x, y \in R : x.t = y.t => x = y
  OBVIOUS
<1>3. PICK f \in [S -> R] : \A i \in S : f[i] = rows[i]
  <2>1. [i \in S |-> rows[i]] \in [S -> R]
    OBVIOUS
  <2> QED
    BY <2>1
<1>4. f \in Surjection(S, R) /\ f \in Injection(S, R)
  BY <1>3 DEF Surjection, Injection, IsInjective
<1>5. IsFiniteSet(R) /\ Cardinality(R) = Cardinality(S)
  BY <1>1, <1>4, FS_Surjection
<1> QED
  BY <1>1, <1>2, <1>5

KeptAt(rows) == (DOMAIN rows) \ (Where(rows, Excluded) \cup Rejected(rows))

\* A row that is stored: valid, in its slot, and on a day that is not excluded.
Storable(b) == ValidCandle(b) /\ b.l > 0 /\ b.grid /\ Day(b.t) \notin ExcludedDays

LEMMA KeptAreStorable ==
  ASSUME NEW rows \in Seq(Rows), NEW i \in KeptAt(rows)
  PROVE  /\ i \in DOMAIN rows /\ rows[i] \in Rows /\ Storable(rows[i])
         /\ \A j \in DOMAIN rows : rows[j].t = rows[i].t => j = i
<1>1. i \in DOMAIN rows /\ rows[i] \in Rows
  BY DEF KeptAt
<1>2. ~Excluded(rows[i]) /\ ~Invalid(rows[i]) /\ ~Duplicate(rows, rows[i]) /\ ~OffGrid(rows[i])
  BY <1>1 DEF KeptAt, Where, Rejected
<1>3. Storable(rows[i]) /\ rows[i].t # 0
  BY <1>1, <1>2, RowTypes DEF Storable, ValidCandle, Invalid, OffGrid, Excluded
<1>4. ASSUME NEW j \in DOMAIN rows, rows[j].t = rows[i].t, j # i PROVE FALSE
  <2> DEFINE S == {k \in DOMAIN rows : rows[k].t = rows[i].t}
  <2>1. IsFiniteSet(S) /\ Cardinality(S) \in Nat
    BY DomainFinite, FS_Subset, FS_CardinalityType
  <2>2. ~(Cardinality(S) > 1)
    BY <1>2, <1>3 DEF Duplicate
  <2>3. i \in S /\ j \in S
    BY <1>1, <1>4
  <2> HIDE DEF S
  <2>4. Cardinality(S) # 0
    BY <2>1, <2>3, FS_EmptySet
  <2>5. Cardinality(S) = 1
    BY <2>1, <2>2, <2>4
  <2>6. PICK x : S = {x}
    BY <2>1, <2>5, FS_Singleton
  <2> QED
    BY <1>4, <2>3, <2>6
<1> QED
  BY <1>1, <1>3, <1>4

\* What a load keeps of a file: every storable row in order of time, as many as
\* the counts of its record say.
LEMMA KeptOf ==
  ASSUME NEW rows \in Seq(Rows)
  PROVE  /\ Kept(rows) \in Seq(Rows)
         /\ \A k \in 1..Len(Kept(rows)) : Storable(Kept(rows)[k])
         /\ \A j, k \in 1..Len(Kept(rows)) : j < k <=> Kept(rows)[j].t < Kept(rows)[k].t
         /\ Len(Kept(rows)) = Len(rows) - Cardinality(Where(rows, Excluded)) - Cardinality(Rejected(rows))
<1> DEFINE S == KeptAt(rows)
           R == {rows[i] : i \in S}
           ex == Where(rows, Excluded)
           rej == Rejected(rows)
<1>1. S \in SUBSET DOMAIN rows /\ \A i, j \in S : rows[i].t = rows[j].t => i = j
  BY KeptAreStorable
<1>2. /\ IsFiniteSet(R) /\ R \subseteq Rows /\ \A x, y \in R : x.t = y.t => x = y
      /\ IsFiniteSet(S) /\ Cardinality(R) = Cardinality(S)
  BY <1>1, RowsAt
<1>3. Kept(rows) = ByTime(R)
  BY DEF Kept, KeptAt
<1>4. \A x \in R : Storable(x)
  BY KeptAreStorable
<1>5. ex \subseteq DOMAIN rows /\ rej \subseteq DOMAIN rows /\ ex \cap rej = {}
  BY DEF Where, Rejected
<1>6. Cardinality(S) = Len(rows) - Cardinality(ex) - Cardinality(rej)
  <2>1. /\ Len(rows) \in Nat /\ IsFiniteSet(DOMAIN rows) /\ Cardinality(DOMAIN rows) = Len(rows)
    BY DomainFinite
  <2>2. IsFiniteSet(ex) /\ IsFiniteSet(rej) /\ Cardinality(ex) \in Nat /\ Cardinality(rej) \in Nat
    BY <1>5, <2>1, FS_Subset, FS_CardinalityType
  <2>3. Cardinality(ex \cup rej) = Cardinality(ex) + Cardinality(rej) - Cardinality(ex \cap rej)
    BY <2>2, FS_Union
  <2>4. Cardinality(ex \cap rej) = 0
    BY <1>5, FS_EmptySet
  <2>5. Cardinality((DOMAIN rows) \ (ex \cup rej))
            = Cardinality(DOMAIN rows) - Cardinality((DOMAIN rows) \cap (ex \cup rej))
    BY <2>1, FS_Difference
  <2>6. (DOMAIN rows) \cap (ex \cup rej) = ex \cup rej /\ S = (DOMAIN rows) \ (ex \cup rej)
    BY <1>5 DEF KeptAt
  <2> HIDE DEF ex, rej, S
  <2>7. Cardinality(S) = Cardinality(DOMAIN rows) - Cardinality(ex \cup rej)
    BY <2>5, <2>6, Zenon
  <2>8. Cardinality(S) = Len(rows) - (Cardinality(ex) + Cardinality(rej) - 0)
    BY <2>1, <2>3, <2>4, <2>7, Zenon
  <2> QED
    BY <2>1, <2>2, <2>8
<1> HIDE DEF R, S
<1>7. /\ ByTime(R) \in Seq(R) /\ Len(ByTime(R)) = Cardinality(R) /\ Cardinality(R) \in Nat
      /\ \A j, k \in 1..Len(ByTime(R)) : j < k <=> ByTime(R)[j].t < ByTime(R)[k].t
  BY <1>2, InOrderOfTime
<1>8. ByTime(R) \in Seq(Rows) /\ \A k \in 1..Len(ByTime(R)) : ByTime(R)[k] \in R
  BY <1>2, <1>7
<1> QED
  BY <1>2, <1>3, <1>4, <1>6, <1>7, <1>8

\* The valid rows of a sequence on these days, of two of one time the first one.
IsFirst(rows, i) ==
  /\ i \in DOMAIN rows /\ ValidCandle(rows[i])
  /\ \A j \in DOMAIN rows : ValidCandle(rows[j]) /\ rows[j].t = rows[i].t => i <= j

Firsts(rows, first, last) == {rows[i] : i \in {j \in DOMAIN rows : IsFirst(rows, j) /\ Day(rows[j].t) \in first..last}}

AllFirsts(rows) == {rows[i] : i \in {j \in DOMAIN rows : IsFirst(rows, j)}}

\* The downloader's cleaning keeps of each time the first valid row.
LEMMA NormalizeOf ==
  ASSUME NEW raw \in Seq(Rows)
  PROVE  /\ Normalize(raw) \in Seq(Rows)
         /\ Range(Normalize(raw)) = AllFirsts(raw)
         /\ \A j, k \in 1..Len(Normalize(raw)) : j < k <=> Normalize(raw)[j].t < Normalize(raw)[k].t
<1> DEFINE S == {i \in DOMAIN raw : IsFirst(raw, i)}
           R == {raw[i] : i \in S}
<1>1. \A i, j \in S : raw[i].t = raw[j].t => i = j
  BY DEF IsFirst
<1>2. IsFiniteSet(R) /\ R \subseteq Rows /\ \A x, y \in R : x.t = y.t => x = y
  BY <1>1, RowsAt
<1>3. Normalize(raw) = ByTime(R)
  <2> DEFINE valid == Where(raw, ValidCandle)
             F == {i \in valid : \A j \in valid : raw[j].t = raw[i].t => i <= j}
  <2>1. F = S
    BY DEF Where, IsFirst
  <2>2. Normalize(raw) = ByTime({raw[i] : i \in F})
    BY DEF Normalize
  <2> HIDE DEF F, S
  <2> QED
    BY <2>1, <2>2
<1> HIDE DEF R
<1>4. /\ ByTime(R) \in Seq(R) /\ Len(ByTime(R)) \in Nat
      /\ \A j, k \in 1..Len(ByTime(R)) : j < k <=> ByTime(R)[j].t < ByTime(R)[k].t
      /\ \A x \in R : \E k \in 1..Len(ByTime(R)) : ByTime(R)[k] = x
  BY <1>2, InOrderOfTime
<1>5. ByTime(R) \in Seq(Rows)
  BY <1>2, <1>4
<1>6. Range(ByTime(R)) = R
  BY <1>4 DEF Range
<1>7. R = AllFirsts(raw)
  BY DEF R, AllFirsts
<1> QED
  BY <1>3, <1>4, <1>5, <1>6, <1>7

LEMMA OnDaysOf ==
  ASSUME NEW rows \in Seq(Rows), NEW first \in Nat, NEW last \in Nat
  PROVE  /\ OnDays(rows, first, last) \in Seq(Rows)
         /\ AllFirsts(OnDays(rows, first, last)) = Firsts(rows, first, last)
         /\ \A i \in DOMAIN OnDays(rows, first, last) : Day(OnDays(rows, first, last)[i].t) \in first..last
<1> DEFINE S == {i \in DOMAIN rows : Day(rows[i].t) \in first..last}
           p == Part(rows, S)
<1>1. OnDays(rows, first, last) = p
  BY DEF OnDays, Where
<1>2. S \in SUBSET DOMAIN rows
  OBVIOUS
<1>3. \A i \in S : Day(rows[i].t) \in first..last
  OBVIOUS
<1>4. \A i \in DOMAIN rows : Day(rows[i].t) \in first..last => i \in S
  OBVIOUS
<1> HIDE DEF S
<1>5. p \in Seq(Rows)
  BY <1>2, PartOf
<1>6. PICK at : Picks(at, p, rows, S)
  BY <1>2, PartOf
<1>6a. /\ at \in Seq(S) /\ Len(at) \in Nat /\ Len(at) = Len(p)
       /\ \A k \in 1..Len(at) : at[k] \in S /\ p[k] = rows[at[k]]
       /\ \A j, k \in 1..Len(at) : j < k <=> at[j] < at[k]
       /\ \A i \in S : \E k \in 1..Len(at) : at[k] = i
  BY <1>6 DEF Picks
<1> HIDE DEF p
<1>7. DOMAIN p = 1..Len(at) /\ DOMAIN rows = 1..Len(rows) /\ Len(rows) \in Nat
  BY <1>5, <1>6a
<1>8. \A k \in DOMAIN p : Day(p[k].t) \in first..last
  BY <1>3, <1>6a, <1>7
<1>9. ASSUME NEW k \in DOMAIN p PROVE IsFirst(p, k) <=> IsFirst(rows, at[k])
  <2>1. at[k] \in S /\ p[k] = rows[at[k]] /\ at[k] \in DOMAIN rows /\ at[k] \in Int /\ k \in Int
    <3>1. at[k] \in S /\ p[k] = rows[at[k]]
      BY <1>6a, <1>7
    <3>2. at[k] \in 1..Len(rows) /\ k \in 1..Len(at)
      BY <1>2, <1>7, <3>1
    <3> QED
      BY <1>7, <3>1, <3>2
  <2>2. ASSUME IsFirst(p, k), NEW j \in DOMAIN rows, ValidCandle(rows[j]), rows[j].t = rows[at[k]].t
        PROVE  at[k] <= j
    <3>1. j \in S
      BY <1>3, <1>4, <2>1, <2>2
    <3>2. PICK m \in 1..Len(at) : at[m] = j
      BY <1>6a, <3>1
    <3>3. k <= m
      BY <1>6a, <1>7, <2>1, <2>2, <3>2 DEF IsFirst
    <3>4. k < m <=> at[k] < at[m]
      BY <1>6a, <1>7
    <3> QED
      BY <1>7, <2>1, <3>2, <3>3, <3>4
  <2>3. ASSUME IsFirst(rows, at[k]), NEW m \in DOMAIN p, ValidCandle(p[m]), p[m].t = p[k].t
        PROVE  k <= m
    <3>1. p[m] = rows[at[m]] /\ at[m] \in DOMAIN rows /\ at[m] \in Int
      <4>1. at[m] \in S /\ p[m] = rows[at[m]]
        BY <1>6a, <1>7
      <4>2. at[m] \in 1..Len(rows)
        BY <1>2, <1>7, <4>1
      <4> QED
        BY <1>7, <4>1, <4>2
    <3>2. at[k] <= at[m]
      BY <2>1, <2>3, <3>1 DEF IsFirst
    <3>3. m < k <=> at[m] < at[k]
      BY <1>6a, <1>7
    <3> QED
      BY <1>7, <2>1, <3>1, <3>2, <3>3
  <2> QED
    BY <2>1, <2>2, <2>3 DEF IsFirst
<1>10. AllFirsts(p) \subseteq Firsts(rows, first, last)
  <2> SUFFICES ASSUME NEW k \in DOMAIN p, IsFirst(p, k) PROVE p[k] \in Firsts(rows, first, last)
    BY DEF AllFirsts
  <2> QED
    BY <1>2, <1>3, <1>6a, <1>7, <1>9 DEF Firsts
<1>11. Firsts(rows, first, last) \subseteq AllFirsts(p)
  <2> SUFFICES ASSUME NEW i \in DOMAIN rows, IsFirst(rows, i), Day(rows[i].t) \in first..last
               PROVE  rows[i] \in AllFirsts(p)
    BY DEF Firsts
  <2>1. PICK k \in 1..Len(at) : at[k] = i
    BY <1>4, <1>6a
  <2> QED
    BY <1>6a, <1>7, <1>9, <2>1 DEF AllFirsts
<1> QED
  BY <1>1, <1>5, <1>8, <1>10, <1>11

\* Two batches of rows with no valid time in common.
LEMMA FirstsOfJoin ==
  ASSUME NEW a \in Seq(Rows), NEW b \in Seq(Rows),
         \A i \in DOMAIN a, j \in DOMAIN b : ValidCandle(a[i]) /\ ValidCandle(b[j]) => a[i].t # b[j].t
  PROVE  AllFirsts(a \o b) = AllFirsts(a) \cup AllFirsts(b)
<1> DEFINE s == a \o b
           m == Len(a)
           n == Len(b)
<1>1. /\ m \in Nat /\ n \in Nat /\ s \in Seq(Rows) /\ DOMAIN a = 1..m /\ DOMAIN b = 1..n /\ DOMAIN s = 1..(m + n)
      /\ \A i \in 1..m : s[i] = a[i]
      /\ \A j \in 1..n : s[m + j] = b[j]
  OBVIOUS
<1> HIDE DEF s, m, n
<1>2. \A i \in 1..(m + n) : i \in 1..m \/ \E j \in 1..n : i = m + j
  <2> TAKE i \in 1..(m + n)
  <2>1. i \in 1..m \/ (i - m \in 1..n /\ i = m + (i - m))
    BY <1>1
  <2> QED
    BY <2>1
<1>3. ASSUME NEW i \in 1..m PROVE IsFirst(s, i) <=> IsFirst(a, i)
  <2>1. i \in DOMAIN s /\ s[i] = a[i] /\ i \in Int
    BY <1>1
  <2>2. ASSUME IsFirst(a, i), NEW k \in DOMAIN s, ValidCandle(s[k]), s[k].t = s[i].t PROVE i <= k
    <3>1. CASE k \in 1..m
      BY <1>1, <2>1, <2>2, <3>1 DEF IsFirst
    <3>2. ASSUME NEW j \in 1..n, k = m + j PROVE FALSE
      <4>1. s[k] = b[j] /\ j \in DOMAIN b /\ i \in DOMAIN a
        BY <1>1, <3>2
      <4>2. ValidCandle(a[i])
        BY <2>2 DEF IsFirst
      <4>3. ValidCandle(b[j]) /\ b[j].t = a[i].t
        BY <2>1, <2>2, <4>1
      <4> QED
        BY <4>1, <4>2, <4>3
    <3>3. k \in 1..m \/ \E j \in 1..n : k = m + j
      BY <1>1, <1>2
    <3> QED
      BY <3>1, <3>2, <3>3
  <2>3. ASSUME IsFirst(s, i), NEW k \in DOMAIN a, ValidCandle(a[k]), a[k].t = a[i].t PROVE i <= k
    <3>1. k \in DOMAIN s /\ s[k] = a[k]
      BY <1>1
    <3> QED
      BY <2>1, <2>3, <3>1 DEF IsFirst
  <2> QED
    BY <1>1, <2>1, <2>2, <2>3 DEF IsFirst
<1>4. ASSUME NEW j \in 1..n PROVE IsFirst(s, m + j) <=> IsFirst(b, j)
  <2>1. m + j \in DOMAIN s /\ s[m + j] = b[j] /\ j \in Int
    BY <1>1
  <2>2. ASSUME IsFirst(b, j), NEW k \in DOMAIN s, ValidCandle(s[k]), s[k].t = s[m + j].t PROVE m + j <= k
    <3>1. CASE k \in 1..m
      <4>1. s[k] = a[k] /\ k \in DOMAIN a /\ j \in DOMAIN b
        BY <1>1, <3>1
      <4>2. ValidCandle(b[j])
        BY <2>2 DEF IsFirst
      <4> QED
        BY <2>1, <2>2, <4>1, <4>2
    <3>2. ASSUME NEW i \in 1..n, k = m + i PROVE m + j <= k
      <4>1. j <= i
        BY <1>1, <2>1, <2>2, <3>2 DEF IsFirst
      <4> QED
        BY <1>1, <2>1, <3>2, <4>1
    <3> QED
      BY <1>1, <1>2, <3>1, <3>2
  <2>3. ASSUME IsFirst(s, m + j), NEW i \in DOMAIN b, ValidCandle(b[i]), b[i].t = b[j].t PROVE j <= i
    <3>1. m + i \in DOMAIN s /\ s[m + i] = b[i] /\ i \in Int
      BY <1>1
    <3>2. m + j <= m + i
      BY <2>1, <2>3, <3>1 DEF IsFirst
    <3> QED
      BY <1>1, <2>1, <3>1, <3>2
  <2> QED
    BY <1>1, <2>1, <2>2, <2>3 DEF IsFirst
<1>5. AllFirsts(s) \subseteq AllFirsts(a) \cup AllFirsts(b)
  <2> SUFFICES ASSUME NEW k \in DOMAIN s, IsFirst(s, k) PROVE s[k] \in AllFirsts(a) \cup AllFirsts(b)
    BY DEF AllFirsts
  <2>1. CASE k \in 1..m
    BY <1>1, <1>3, <2>1 DEF AllFirsts
  <2>2. ASSUME NEW j \in 1..n, k = m + j PROVE s[k] \in AllFirsts(b)
    BY <1>1, <1>4, <2>2 DEF AllFirsts
  <2> QED
    BY <1>1, <1>2, <2>1, <2>2
<1>6. AllFirsts(a) \subseteq AllFirsts(s)
  <2> SUFFICES ASSUME NEW k \in DOMAIN a, IsFirst(a, k) PROVE a[k] \in AllFirsts(s)
    BY DEF AllFirsts
  <2>1. k \in 1..m /\ k \in DOMAIN s /\ s[k] = a[k]
    BY <1>1
  <2> QED
    BY <1>3, <2>1 DEF AllFirsts
<1>7. AllFirsts(b) \subseteq AllFirsts(s)
  <2> SUFFICES ASSUME NEW k \in DOMAIN b, IsFirst(b, k) PROVE b[k] \in AllFirsts(s)
    BY DEF AllFirsts
  <2>1. k \in 1..n /\ m + k \in DOMAIN s /\ s[m + k] = b[k]
    BY <1>1
  <2> QED
    BY <1>4, <2>1 DEF AllFirsts
<1> QED
  BY <1>5, <1>6, <1>7 DEF s

LEMMA ServedOf ==
  ASSUME NEW chunk \in Chunks, NEW garbled \in BOOLEAN
  PROVE  /\ Served(chunk, garbled) \in Seq(Rows)
         /\ AllFirsts(Served(chunk, garbled)) = Firsts(Market, chunk.first, chunk.last)
         /\ \A i \in DOMAIN Served(chunk, garbled) :
               ValidCandle(Served(chunk, garbled)[i]) => Day(Served(chunk, garbled)[i].t) \in chunk.first..chunk.last
<1> DEFINE g == IF garbled THEN <<[Market[1] EXCEPT !.t = 0]>> ELSE <<>>
           on == OnDays(Market, chunk.first, chunk.last)
<1>1. chunk.first \in Nat /\ chunk.last \in Nat /\ Market \in Seq(Rows)
  BY ResearchAssumption DEF Chunks
<1>2. /\ on \in Seq(Rows) /\ AllFirsts(on) = Firsts(Market, chunk.first, chunk.last)
      /\ \A i \in DOMAIN on : Day(on[i].t) \in chunk.first..chunk.last
  BY <1>1, OnDaysOf
<1>3. Market[1] \in Rows
  BY ResearchAssumption
<1>4. [Market[1] EXCEPT !.t = 0] \in Rows /\ [Market[1] EXCEPT !.t = 0].t = 0
  BY <1>3 DEF Rows
<1>5. g \in Seq(Rows) /\ \A i \in DOMAIN g : ~ValidCandle(g[i])
  <2>1. CASE garbled
    <3> DEFINE x == [Market[1] EXCEPT !.t = 0]
    <3>1. g = <<x>> /\ x \in Rows /\ ~ValidCandle(x)
      BY <1>4, <2>1 DEF ValidCandle
    <3> HIDE DEF x, g
    <3> QED
      BY <3>1
  <2>2. CASE ~garbled
    <3>1. g = <<>>
      BY <2>2
    <3> HIDE DEF g
    <3> QED
      BY <3>1
  <2> QED
    BY <2>1, <2>2
<1>6. Served(chunk, garbled) = g \o on
  BY DEF Served
<1> HIDE DEF g, on
<1>7. AllFirsts(g) = {}
  BY <1>5 DEF AllFirsts, IsFirst
<1>8. AllFirsts(g \o on) = AllFirsts(g) \cup AllFirsts(on)
  BY <1>2, <1>5, FirstsOfJoin
<1>9. ASSUME NEW i \in DOMAIN (g \o on), ValidCandle((g \o on)[i])
      PROVE  Day((g \o on)[i].t) \in chunk.first..chunk.last
  <2>1. /\ Len(g) \in Nat /\ Len(on) \in Nat /\ DOMAIN g = 1..Len(g) /\ DOMAIN on = 1..Len(on)
        /\ i \in 1..(Len(g) + Len(on))
        /\ (g \o on)[i] = IF i <= Len(g) THEN g[i] ELSE on[i - Len(g)]
    BY <1>2, <1>5, <1>9
  <2>2. CASE i <= Len(g)
    BY <1>5, <1>9, <2>1, <2>2
  <2>3. CASE ~(i <= Len(g))
    <3>1. i - Len(g) \in DOMAIN on
      BY <2>1, <2>3
    <3> QED
      BY <1>2, <2>1, <2>3, <3>1
  <2> QED
    BY <2>2, <2>3
<1> QED
  BY <1>2, <1>5, <1>6, <1>7, <1>8, <1>9

-------------------------------------------------------------------------------
(* Types.                                                                      *)

DlPoints == {"off", "fetch", "open", "write", "meta"}
LdPoints == {"off", "hash", "read", "find", "insert", "again", "rehash"}
Exits == {"none", "dry", "refused", "already", "loaded", "failed", "raised", "changed"}
Outcomes == {"none", "raised", "diverged", "written", "usage", "empty", "reproduced", "differs"}

RowSeqs == Seq(Rows)
ChunkSeqs == Seq(Chunks)
ChunkSets == SUBSET Chunks
RequestSets == SUBSET Requests
OptionSets == SUBSET LoadOptions
Tries == 0..MaxRetries

FileType == [rows : RowSeqs, asked : RequestSets, whole : BOOLEAN]
DlType ==
  [at : DlPoints, asked : RequestSets, todo : ChunkSeqs, raw : RowSeqs, failed : ChunkSets, tries : Tries]
LdType == [at : LdPoints, exit : Exits, asked : OptionSets, sha : RowSeqs, rows : RowSeqs]

Typed ==
  /\ file \in FileType
  /\ meta.failed \subseteq Chunks /\ meta.complete = (meta # NoMeta /\ meta.failed = {})
  /\ dl \in DlType /\ (dl.at # "off" => \E r \in Requests : dl.asked = {r})
  /\ ld \in [Loaders -> LdType]
  /\ \A p \in Loaders : ld[p].at # "off" => \E o \in LoadOptions : ld[p].asked = {o}
  /\ raced \in BOOLEAN
  /\ report.outcome \in Outcomes

LEMMA TypedImplies == ASSUME Typed PROVE TypeOK
<1>1. file.whole \in BOOLEAN /\ file.asked \subseteq Requests
  BY DEF Typed, FileType, RequestSets
<1>2. dl.at \in DlPoints /\ dl.tries \in 0..MaxRetries /\ dl.failed \subseteq Chunks
  BY DEF Typed, DlType, Tries, ChunkSets
<1>3. \A p \in Loaders : ld[p].at \in LdPoints /\ ld[p].exit \in Exits
  BY DEF Typed, LdType
<1> QED
  BY <1>1, <1>2, <1>3 DEF Typed, TypeOK, DlPoints, LdPoints, Exits, Outcomes, Chunks

LEMMA RequestType ==
  ASSUME NEW r \in Requests
  PROVE  r.start \in Nat /\ r.end \in Nat /\ r.start <= r.end
BY ResearchAssumption

LEMMA OneAsked == ASSUME NEW r, dl.asked = {r} PROVE Request = r
BY DEF Request

LEMMA OneOption == ASSUME NEW p, NEW o, ld[p].asked = {o} PROVE Asked(p) = o
BY DEF Asked

LEMMA ExternalFile == ASSUME NEW f \in Seq(Rows) PROVE External(f) \in FileType
BY DEF External, FileType, RowSeqs, RequestSets

\* The values of the sets the records are made of.
LEMMA PartTypes ==
  /\ RowSeqs = Seq(Rows) /\ ChunkSeqs = Seq(Chunks) /\ ChunkSets = SUBSET Chunks
  /\ RequestSets = SUBSET Requests /\ OptionSets = SUBSET LoadOptions
  /\ Tries = 0..MaxRetries /\ 0 \in Tries
BY ResearchAssumption DEF RowSeqs, ChunkSeqs, ChunkSets, RequestSets, OptionSets, Tries

LEMMA RestingTyped ==
  /\ Resting \in DlType /\ Resting.at = "off" /\ Resting.raw = <<>> /\ Resting.failed = {}
BY PartTypes DEF Resting, DlType, DlPoints

LEMMA TypedInit == ASSUME Init PROVE Typed
<1>1. file \in FileType
  <2>1. NoFile \in FileType
    BY DEF NoFile, FileType, RowSeqs, RequestSets
  <2>2. \A f \in Files \cup Studies \cup Stored : External(f) \in FileType
    BY ResearchAssumption, ExternalFile
  <2> QED
    BY <2>1, <2>2 DEF Init
<1>2. meta.failed \subseteq Chunks /\ meta.complete = (meta # NoMeta /\ meta.failed = {})
  BY DEF Init, NoMeta
<1>3. dl \in DlType /\ dl.at = "off"
  BY RestingTyped DEF Init
<1>4. ld \in [Loaders -> LdType] /\ \A p \in Loaders : ld[p].at = "off"
  <2>1. Off("none") \in LdType /\ Off("none").at = "off"
    BY DEF Off, LdType, LdPoints, Exits, OptionSets, RowSeqs
  <2> QED
    BY <2>1 DEF Init
<1>5. raced \in BOOLEAN /\ report.outcome \in Outcomes
  BY DEF Init, NoReport, Outcomes
<1> QED
  BY <1>1, <1>2, <1>3, <1>4, <1>5 DEF Typed

\* The outcomes of a report from bars.
LEMMA FinishedOutcome ==
  ASSUME NEW made, made.outcome = "raised", NEW runs, "outcome" \in DOMAIN made
  PROVE  Finished(made, runs).outcome \in {"raised", "diverged", "written"}
BY DEF Finished

LEMMA GridIsFinished ==
  ASSUME NEW by, NEW asked, NEW frames, NEW designs
  PROVE  Grid(by, asked, frames, designs)
            = Finished(Made(by, asked, "raised"), [k \in DOMAIN frames |-> RunIndex(frames[k], designs)])
BY DEF Grid, Table

LEMMA GridOutcome ==
  ASSUME NEW by, NEW asked, NEW frames, NEW designs
  PROVE  Grid(by, asked, frames, designs).outcome \in Outcomes
<1>1. Made(by, asked, "raised").outcome = "raised" /\ "outcome" \in DOMAIN Made(by, asked, "raised")
  BY DEF Made, NoReport
<1> QED
  BY <1>1, GridIsFinished, FinishedOutcome DEF Outcomes

LEMMA MadeOutcome ==
  ASSUME NEW by, NEW asked, NEW outcome
  PROVE  Made(by, asked, outcome).outcome = outcome
BY DEF Made, NoReport

\* A report changes nothing else, and only rests can be reported in.
LEMMA ReportStep ==
  ASSUME RunCsv \/ (\E a \in DbRuns : RunDb(a)) \/ (\E source \in Sources : Gate(source))
  PROVE  /\ report'.outcome \in Outcomes /\ Quiet /\ report = NoReport
         /\ left.downloads + left.loads = 0
         /\ UNCHANGED <<file, meta, dl, ld, loads, raced, left>>
<1>1. CASE RunCsv
  <2>1. /\ report' = IF 0 \in TimesIn(file.rows) THEN Made("csv", {}, "raised")
                     ELSE Grid("csv", {}, <<file.rows>>, <<LegacyDesign>>)
        /\ Quiet /\ report = NoReport /\ left.downloads + left.loads = 0
        /\ UNCHANGED <<file, meta, dl, ld, loads, raced, left>>
    BY <1>1 DEF RunCsv, Reports
  <2> QED
    BY <2>1, GridOutcome, MadeOutcome DEF Outcomes
<1>2. ASSUME NEW a \in DbRuns, RunDb(a)
      PROVE  /\ report'.outcome \in Outcomes /\ Quiet /\ report = NoReport
             /\ left.downloads + left.loads = 0
             /\ UNCHANGED <<file, meta, dl, ld, loads, raced, left>>
  <2> DEFINE last == ResearchEnd(a.holdout)
             held == a.holdout # None
             end == IF held /\ a.end = None THEN last ELSE a.end
             frames == ContiguousSegments(ReadCandles(loads, a.source, a.start, end))
             leak == \E k \in DOMAIN frames : Last(frames[k]).t > last
             made == IF held /\ (a.start > last \/ a.end > last) THEN Made("db", {a}, "usage")
                     ELSE IF frames = <<>> THEN Made("db", {a}, "empty")
                     ELSE IF held /\ leak THEN Made("db", {a}, "raised")
                     ELSE Grid("db", {a}, frames, a.designs)
  <2>1. Reports(made)
    BY <1>2 DEF RunDb
  <2> HIDE DEF last, held, end, frames, leak
  <2>2. made.outcome \in Outcomes
    BY GridOutcome, MadeOutcome DEF Outcomes
  <2> HIDE DEF made
  <2> QED
    BY <2>1, <2>2 DEF Reports
<1>3. ASSUME NEW source \in Sources, Gate(source)
      PROVE  /\ report'.outcome \in Outcomes /\ Quiet /\ report = NoReport
             /\ left.downloads + left.loads = 0
             /\ UNCHANGED <<file, meta, dl, ld, loads, raced, left>>
  <2>1. PICK o \in {"raised", "reproduced", "differs"} : \E x : \E y :
          /\ report' = IF o = "raised" THEN Made("gate", {}, o)
                       ELSE [Made("gate", {}, o) EXCEPT !.selected = x, !.runs = y]
          /\ Quiet /\ report = NoReport /\ left.downloads + left.loads = 0
          /\ UNCHANGED <<file, meta, dl, ld, loads, raced, left>>
    BY <1>3 DEF Gate, Reports
  <2> QED
    BY <2>1 DEF Outcomes, Made, NoReport
<1> QED
  BY <1>1, <1>2, <1>3

FileTyped == file \in FileType
MetaTyped == meta.failed \subseteq Chunks /\ meta.complete = (meta # NoMeta /\ meta.failed = {})
DlTyped == dl \in DlType /\ (dl.at # "off" => \E r \in Requests : dl.asked = {r})
LdTyped ==
  /\ ld \in [Loaders -> LdType]
  /\ \A p \in Loaders : ld[p].at # "off" => \E o \in LoadOptions : ld[p].asked = {o}

LEMMA TypedParts ==
  Typed <=> /\ FileTyped /\ MetaTyped /\ DlTyped /\ LdTyped /\ raced \in BOOLEAN /\ report.outcome \in Outcomes
BY DEF Typed, FileTyped, MetaTyped, DlTyped, LdTyped

LEMMA DlFields ==
  ASSUME DlTyped
  PROVE  /\ dl.at \in DlPoints /\ dl.asked \in SUBSET Requests /\ dl.todo \in Seq(Chunks)
         /\ dl.raw \in Seq(Rows) /\ dl.failed \in SUBSET Chunks /\ dl.tries \in 0..MaxRetries
BY PartTypes DEF DlTyped, DlType

LEMMA DlStartTyped ==
  ASSUME DlTyped, NEW r \in Requests, StartDownload(r)
  PROVE  /\ DlTyped' /\ dl'.at = "fetch" /\ dl'.asked = {r} /\ dl'.todo = PlanChunks(r.start, r.end)
         /\ dl'.raw = <<>> /\ dl'.failed = {}
<1> DEFINE todo == PlanChunks(r.start, r.end)
<1>1. todo \in ChunkSeqs /\ {r} \in RequestSets
  BY RequestType, PlanCoversRequest, PartTypes
<1>2. dl' = [Resting EXCEPT !.at = "fetch", !.asked = {r}, !.todo = todo]
  BY DEF StartDownload
<1> HIDE DEF todo
<1>3. dl' \in DlType /\ dl'.asked = {r} /\ dl'.at = "fetch" /\ dl'.todo = todo
      /\ dl'.raw = <<>> /\ dl'.failed = {}
  BY <1>1, <1>2, RestingTyped DEF DlType, DlPoints
<1> QED
  BY <1>3 DEF DlTyped, todo

\* What an answer to the first chunk of the list may do.
LEMMA AnswerCases ==
  ASSUME DlTyped, Answer
  PROVE  /\ dl.at = "fetch" /\ dl.todo # <<>> /\ dl.todo[1] \in Chunks /\ DlTyped'
         /\ dl'.at = "fetch" /\ dl'.asked = dl.asked
         /\ \/ /\ dl'.todo = Tail(dl.todo) /\ dl'.failed = dl.failed
               /\ \E garbled \in BOOLEAN : dl'.raw = dl.raw \o Served(dl.todo[1], garbled)
            \/ dl'.todo = dl.todo /\ dl'.failed = dl.failed /\ dl'.raw = dl.raw
            \/ dl'.todo = Tail(dl.todo) /\ dl'.failed = dl.failed \cup {dl.todo[1]} /\ dl'.raw = dl.raw
<1>1. /\ dl.at = "fetch" /\ dl.todo # <<>> /\ dl \in DlType /\ \E r \in Requests : dl.asked = {r}
  BY DEF Answer, DlTyped
<1>2. dl.todo[1] \in Chunks /\ Tail(dl.todo) \in ChunkSeqs
  BY <1>1, DlFields, PartTypes
<1>3. dl \in DlType /\ dl.at = "fetch" /\ 0 \in Tries
  BY <1>1, PartTypes
<1>4. ASSUME NEW garbled \in BOOLEAN,
             dl' = [dl EXCEPT !.todo = Tail(@), !.raw = @ \o Served(dl.todo[1], garbled), !.tries = 0]
      PROVE  /\ dl' \in DlType /\ dl'.at = "fetch" /\ dl'.asked = dl.asked
             /\ dl'.todo = Tail(dl.todo) /\ dl'.failed = dl.failed
             /\ dl'.raw = dl.raw \o Served(dl.todo[1], garbled)
  <2> DEFINE todo == Tail(dl.todo)
             raw == dl.raw \o Served(dl.todo[1], garbled)
  <2>1. raw \in RowSeqs /\ todo \in ChunkSeqs
    BY <1>2, DlFields, ServedOf, PartTypes
  <2>2. dl' = [dl EXCEPT !.todo = todo, !.raw = raw, !.tries = 0]
    BY <1>4
  <2> HIDE DEF todo, raw
  <2>3. /\ dl' \in DlType /\ dl'.at = "fetch" /\ dl'.asked = dl.asked
        /\ dl'.todo = todo /\ dl'.failed = dl.failed /\ dl'.raw = raw
    BY <1>3, <2>1, <2>2 DEF DlType
  <2> QED
    BY <2>3 DEF todo, raw
<1>5. ASSUME dl' = ChunkFailed
      PROVE  /\ dl' \in DlType /\ dl'.at = "fetch" /\ dl'.asked = dl.asked
             /\ dl'.todo = Tail(dl.todo) /\ dl'.failed = dl.failed \cup {dl.todo[1]} /\ dl'.raw = dl.raw
  <2> DEFINE todo == Tail(dl.todo)
             failed == dl.failed \cup {dl.todo[1]}
  <2>1. failed \in ChunkSets /\ todo \in ChunkSeqs
    BY <1>2, DlFields, PartTypes
  <2>2. dl' = [dl EXCEPT !.todo = todo, !.failed = failed, !.tries = 0]
    BY <1>5 DEF ChunkFailed
  <2> HIDE DEF todo, failed
  <2>3. /\ dl' \in DlType /\ dl'.at = "fetch" /\ dl'.asked = dl.asked
        /\ dl'.todo = todo /\ dl'.failed = failed /\ dl'.raw = dl.raw
    BY <1>3, <2>1, <2>2 DEF DlType
  <2> QED
    BY <2>3 DEF todo, failed
<1>6. ASSUME dl' = [dl EXCEPT !.tries = @ + 1], ~(dl.tries + 1 > MaxRetries)
      PROVE  /\ dl' \in DlType /\ dl'.at = "fetch" /\ dl'.asked = dl.asked
             /\ dl'.todo = dl.todo /\ dl'.failed = dl.failed /\ dl'.raw = dl.raw
  <2>1. PICK n \in Tries : n = dl.tries + 1
    BY <1>6, DlFields, PartTypes, ResearchAssumption
  <2>2. dl' = [dl EXCEPT !.tries = n]
    BY <1>6, <2>1
  <2> QED
    BY <1>3, <2>2 DEF DlType
<1>7. \/ \E garbled \in BOOLEAN :
            dl' = [dl EXCEPT !.todo = Tail(@), !.raw = @ \o Served(dl.todo[1], garbled), !.tries = 0]
      \/ dl' = ChunkFailed
      \/ dl' = [dl EXCEPT !.tries = @ + 1] /\ ~(dl.tries + 1 > MaxRetries)
  BY DEF Answer, Attempted
<1>8. CASE \E garbled \in BOOLEAN :
            dl' = [dl EXCEPT !.todo = Tail(@), !.raw = @ \o Served(dl.todo[1], garbled), !.tries = 0]
  BY <1>1, <1>2, <1>4, <1>8 DEF DlTyped
<1>9. CASE dl' = ChunkFailed
  BY <1>1, <1>2, <1>5, <1>9 DEF DlTyped
<1>10. CASE dl' = [dl EXCEPT !.tries = @ + 1] /\ ~(dl.tries + 1 > MaxRetries)
  BY <1>1, <1>2, <1>6, <1>10 DEF DlTyped
<1> QED
  BY <1>7, <1>8, <1>9, <1>10

LEMMA FetchedCases ==
  ASSUME DlTyped, Fetched
  PROVE  /\ DlTyped' /\ dl.at = "fetch" /\ dl.todo = <<>>
         /\ \/ dl' = Resting
            \/ /\ dl'.at = "open" /\ dl'.asked = dl.asked /\ dl'.failed = dl.failed
               /\ dl'.raw = Normalize(dl.raw)
               /\ \A r \in Requests : dl.asked = {r} => dl.failed = {} \/ r.partial
<1>1. dl \in DlType /\ dl.at = "fetch" /\ dl.todo = <<>> /\ \E r \in Requests : dl.asked = {r}
  BY DEF Fetched, DlTyped
<1>2. Normalize(dl.raw) \in RowSeqs
  BY DlFields, NormalizeOf, PartTypes
<1>3. \/ dl' = Resting
      \/ dl' = [dl EXCEPT !.at = "open", !.raw = Normalize(dl.raw)] /\ ~(dl.failed # {} /\ ~Request.partial)
  BY DEF Fetched
<1>4. CASE dl' = Resting
  BY <1>1, <1>4, RestingTyped DEF DlTyped
<1>5. CASE dl' = [dl EXCEPT !.at = "open", !.raw = Normalize(dl.raw)] /\ ~(dl.failed # {} /\ ~Request.partial)
  <2>1. dl' \in DlType /\ dl'.at = "open" /\ dl'.asked = dl.asked /\ dl'.failed = dl.failed
        /\ dl'.raw = Normalize(dl.raw)
    BY <1>1, <1>2, <1>5 DEF DlType, DlPoints
  <2>2. \A r \in Requests : dl.asked = {r} => dl.failed = {} \/ r.partial
    BY <1>5, OneAsked
  <2> QED
    BY <1>1, <2>1, <2>2 DEF DlTyped
<1> QED
  BY <1>3, <1>4, <1>5

LEMMA FirstHalf ==
  ASSUME NEW T, NEW s \in Seq(T)
  PROVE  SubSeq(s, 1, Len(s) \div 2) \in Seq(T)
<1>1. PICK n \in Nat : n = Len(s)
  OBVIOUS
<1>2. n \div 2 \in Nat /\ 2 * (n \div 2) <= n
  BY Division
<1>3. PICK m \in Nat : m = n \div 2 /\ m <= n
  BY <1>2
<1>4. \A i \in 1..m : s[i] \in T
  BY <1>1, <1>3
<1>5. SubSeq(s, 1, m) \in Seq(T)
  BY <1>4, SubSeqProperties
<1> QED
  BY <1>1, <1>3, <1>5

\* A write of the file goes on to the next point, with the same rows.
LEMMA WriteCases ==
  ASSUME DlTyped, FileTyped, OpenFile \/ WriteDataset
  PROVE  /\ DlTyped' /\ FileTyped'
         /\ dl'.asked = dl.asked /\ dl'.raw = dl.raw /\ file'.asked = dl.asked
         /\ \/ dl.at = "open" /\ dl'.at = "write" /\ file'.whole = FALSE
            \/ dl.at = "write" /\ dl'.at = "meta" /\ file'.whole = TRUE /\ file'.rows = dl.raw
         /\ raced' = (raced \/ \E p \in Loaders : ld[p].at = "read")
<1>0. dl \in DlType /\ dl.raw \in RowSeqs /\ dl.asked \in RequestSets
  BY DlFields, PartTypes DEF DlTyped
<1>1. CASE OpenFile
  <2>1. SubSeq(dl.raw, 1, Len(dl.raw) \div 2) \in RowSeqs
    BY DlFields, PartTypes, FirstHalf
  <2>2. /\ file' = [rows |-> SubSeq(dl.raw, 1, Len(dl.raw) \div 2), asked |-> dl.asked, whole |-> FALSE]
        /\ raced' = (raced \/ \E p \in Loaders : ld[p].at = "read")
        /\ dl.at = "open" /\ dl' = [dl EXCEPT !.at = "write"]
    BY <1>1 DEF OpenFile, Written
  <2>3. file' \in FileType
    BY <1>0, <2>1, <2>2 DEF FileType
  <2>4. dl' \in DlType /\ dl'.at = "write" /\ dl'.asked = dl.asked /\ dl'.raw = dl.raw
    BY <1>0, <2>2 DEF DlType, DlPoints
  <2> QED
    BY <2>2, <2>3, <2>4 DEF DlTyped, FileTyped
<1>2. CASE WriteDataset
  <2>2. /\ file' = [rows |-> dl.raw, asked |-> dl.asked, whole |-> TRUE]
        /\ raced' = (raced \/ \E p \in Loaders : ld[p].at = "read")
        /\ dl.at = "write" /\ dl' = [dl EXCEPT !.at = "meta"]
    BY <1>2 DEF WriteDataset, Written
  <2>3. file' \in FileType
    BY <1>0, <2>2 DEF FileType
  <2>4. dl' \in DlType /\ dl'.at = "meta" /\ dl'.asked = dl.asked /\ dl'.raw = dl.raw
    BY <1>0, <2>2 DEF DlType, DlPoints
  <2> QED
    BY <2>2, <2>3, <2>4 DEF DlTyped, FileTyped
<1> QED
  BY <1>1, <1>2

LEMMA MetaCases ==
  ASSUME DlTyped, WriteMetadata
  PROVE  DlTyped' /\ MetaTyped' /\ dl' = Resting
<1>1. dl' = Resting /\ meta' = [complete |-> dl.failed = {}, rows |-> Len(dl.raw), failed |-> dl.failed,
                                missing |-> DaysWithMissingBars(dl.raw)]
  BY DEF WriteMetadata
<1>2. meta'.complete = (dl.failed = {}) /\ meta'.failed = dl.failed /\ dl.failed \subseteq Chunks
  BY <1>1, DlFields
<1>3. NoMeta.complete = FALSE
  BY DEF NoMeta
<1>4. MetaTyped'
  <2>1. CASE dl.failed = {}
    <3>1. meta'.complete = TRUE /\ meta' # NoMeta
      BY <1>2, <1>3, <2>1
    <3> QED
      BY <1>2, <2>1, <3>1 DEF MetaTyped
  <2>2. CASE dl.failed # {}
    <3>1. meta'.complete = FALSE
      BY <1>2, <2>2
    <3> QED
      BY <1>2, <2>2, <3>1 DEF MetaTyped
  <2> QED
    BY <2>1, <2>2
<1> QED
  BY <1>1, <1>4, RestingTyped DEF DlTyped

LEMMA LdFields ==
  ASSUME LdTyped, NEW p \in Loaders
  PROVE  /\ ld[p] \in LdType /\ ld[p].at \in LdPoints /\ ld[p].exit \in Exits
         /\ ld[p].asked \in SUBSET LoadOptions /\ ld[p].sha \in Seq(Rows) /\ ld[p].rows \in Seq(Rows)
         /\ ld[p].at # "off" => Asked(p) \in LoadOptions /\ ld[p].asked = {Asked(p)} /\ Asked(p).source \in Sources
<1>1. /\ ld[p] \in LdType /\ ld[p].at \in LdPoints /\ ld[p].exit \in Exits
      /\ ld[p].asked \in SUBSET LoadOptions /\ ld[p].sha \in Seq(Rows) /\ ld[p].rows \in Seq(Rows)
  BY PartTypes DEF LdTyped, LdType
<1>2. ASSUME ld[p].at # "off"
      PROVE  Asked(p) \in LoadOptions /\ ld[p].asked = {Asked(p)} /\ Asked(p).source \in Sources
  <2>1. PICK o \in LoadOptions : ld[p].asked = {o}
    BY <1>2 DEF LdTyped
  <2>2. Asked(p) = o
    BY <2>1, OneOption
  <2> QED
    BY <2>1, <2>2, ResearchAssumption
<1> QED
  BY <1>1, <1>2

LEMMA OffTyped ==
  ASSUME NEW exit \in Exits
  PROVE  Off(exit) \in LdType /\ Off(exit).at = "off" /\ Off(exit).exit = exit
BY PartTypes DEF Off, LdType, LdPoints

LEMMA BecomesTyped ==
  ASSUME LdTyped, NEW p \in Loaders, NEW next \in LdType, Becomes(p, next),
         next.at # "off" => \E o \in LoadOptions : next.asked = {o}
  PROVE  LdTyped' /\ ld'[p] = next /\ \A q \in Loaders \ {p} : ld'[q] = ld[q]
<1>1. ld \in [Loaders -> LdType] /\ ld' = [ld EXCEPT ![p] = next]
  BY DEF LdTyped, Becomes
<1>2. ld' \in [Loaders -> LdType] /\ ld'[p] = next /\ \A q \in Loaders \ {p} : ld'[q] = ld[q]
  BY <1>1
<1> QED
  BY <1>2 DEF LdTyped

LEMMA MovedTo ==
  ASSUME LdTyped, NEW p \in Loaders, NEW at \in LdPoints
  PROVE  /\ To(p, at) \in LdType /\ To(p, at).at = at /\ To(p, at).asked = ld[p].asked
         /\ To(p, at).sha = ld[p].sha /\ To(p, at).rows = ld[p].rows
<1>1. ld[p] \in LdType
  BY LdFields
<1> QED
  BY <1>1 DEF To, LdType

LEMMA WithExit ==
  ASSUME NEW x \in LdType, NEW exit \in Exits
  PROVE  LET y == [x EXCEPT !.exit = exit]
         IN  y \in LdType /\ y.at = x.at /\ y.asked = x.asked /\ y.sha = x.sha /\ y.exit = exit
BY DEF LdType

LEMMA WithSha ==
  ASSUME NEW x \in LdType, NEW sha \in RowSeqs
  PROVE  LET y == [x EXCEPT !.sha = sha]
         IN  y \in LdType /\ y.at = x.at /\ y.asked = x.asked /\ y.sha = sha
BY DEF LdType

LEMMA WithRows ==
  ASSUME NEW x \in LdType, NEW rows \in RowSeqs
  PROVE  LET y == [x EXCEPT !.rows = rows]
         IN  y \in LdType /\ y.at = x.at /\ y.asked = x.asked /\ y.sha = x.sha /\ y.rows = rows
BY DEF LdType

LEMMA LdStartTyped ==
  ASSUME LdTyped, NEW p \in Loaders, NEW o \in LoadOptions, StartLoad(p, o)
  PROVE  LdTyped' /\ ld'[p].at = "hash" /\ \A q \in Loaders \ {p} : ld'[q] = ld[q]
<1> DEFINE next == [Off("none") EXCEPT !.at = "hash", !.asked = {o}]
<1>1. Off("none") \in LdType
  BY OffTyped DEF Exits
<1>2. {o} \in OptionSets
  BY PartTypes
<1>3. next \in LdType /\ next.at = "hash" /\ next.asked = {o}
  BY <1>1, <1>2 DEF LdType, LdPoints
<1>4. Becomes(p, next)
  BY DEF StartLoad
<1> HIDE DEF next
<1>5. LdTyped' /\ ld'[p] = next /\ \A q \in Loaders \ {p} : ld'[q] = ld[q]
  BY <1>3, <1>4, BecomesTyped
<1> QED
  BY <1>3, <1>5

LEMMA HashTyped ==
  ASSUME LdTyped, FileTyped, NEW p \in Loaders, Hash(p)
  PROVE  /\ LdTyped' /\ ld[p].at = "hash" /\ ld'[p].at = "read" /\ ld'[p].sha = file.rows
         /\ \A q \in Loaders \ {p} : ld'[q] = ld[q]
<1> DEFINE next == [To(p, "read") EXCEPT !.sha = file.rows]
<1>1. ld[p].at = "hash" /\ Becomes(p, next)
  BY DEF Hash
<1>2. file.rows \in RowSeqs /\ "read" \in LdPoints
  BY DEF FileTyped, FileType, LdPoints
<1>3. To(p, "read") \in LdType /\ To(p, "read").at = "read" /\ To(p, "read").asked = ld[p].asked
  BY <1>2, MovedTo
<1>4. next \in LdType /\ next.at = "read" /\ next.sha = file.rows /\ next.asked = ld[p].asked
  BY <1>2, <1>3, WithSha
<1>5. \E o \in LoadOptions : next.asked = {o}
  BY <1>1, <1>4, LdFields
<1> HIDE DEF next
<1>6. LdTyped' /\ ld'[p] = next /\ \A q \in Loaders \ {p} : ld'[q] = ld[q]
  BY <1>1, <1>4, <1>5, BecomesTyped
<1> QED
  BY <1>1, <1>4, <1>6

LEMMA ReadTyped ==
  ASSUME LdTyped, FileTyped, NEW p \in Loaders, Read(p)
  PROVE  /\ LdTyped' /\ ld[p].at = "read" /\ \A q \in Loaders \ {p} : ld'[q] = ld[q]
         /\ \/ ld'[p].at = "off" /\ ld'[p].exit \in {"dry", "refused"}
            \/ ld'[p].at = "find" /\ ld'[p].sha = ld[p].sha /\ ld'[p].rows = file.rows
<1> DEFINE go == [To(p, "find") EXCEPT !.rows = file.rows]
<1>1. file.rows \in RowSeqs /\ "find" \in LdPoints /\ "dry" \in Exits /\ "refused" \in Exits
  BY DEF FileTyped, FileType, LdPoints, Exits
<1>2. To(p, "find") \in LdType /\ To(p, "find").at = "find" /\ To(p, "find").asked = ld[p].asked
      /\ To(p, "find").sha = ld[p].sha
  BY <1>1, MovedTo
<1>3. go \in LdType /\ go.at = "find" /\ go.sha = ld[p].sha /\ go.asked = ld[p].asked /\ go.rows = file.rows
  BY <1>1, <1>2, WithRows
<1>4. PICK next \in {Off("dry"), Off("refused"), go} : Becomes(p, next) /\ ld[p].at = "read"
  BY DEF Read
<1>5. \/ next = go
      \/ next \in LdType /\ next.at = "off" /\ next.exit \in {"dry", "refused"}
  BY <1>1, <1>4, OffTyped
<1>6. \E o \in LoadOptions : go.asked = {o}
  BY <1>3, <1>4, LdFields
<1> HIDE DEF go
<1>7. LdTyped' /\ ld'[p] = next /\ \A q \in Loaders \ {p} : ld'[q] = ld[q]
  BY <1>3, <1>4, <1>5, <1>6, BecomesTyped
<1> QED
  BY <1>3, <1>4, <1>5, <1>7

LEMMA FindTyped ==
  ASSUME LdTyped, NEW p \in Loaders, Find(p) \/ FindAgain(p)
  PROVE  /\ LdTyped' /\ ld[p].at \in {"find", "again"} /\ \A q \in Loaders \ {p} : ld'[q] = ld[q]
         /\ \/ /\ ld'[p].at = "rehash" /\ ld'[p].exit = "already" /\ ld'[p].sha = ld[p].sha
               /\ FindExistingLoad(loads, ld[p].sha) # {}
            \/ ld[p].at = "find" /\ ld'[p].at = "insert" /\ ld'[p].sha = ld[p].sha /\ ld'[p].rows = ld[p].rows
            \/ ld'[p].at = "off" /\ ld'[p].exit = "raised"
<1> DEFINE found == [To(p, "rehash") EXCEPT !.exit = "already"]
           go == To(p, "insert")
           next == IF Found(p) THEN found ELSE IF Find(p) THEN go ELSE Off("raised")
<1>1. "rehash" \in LdPoints /\ "insert" \in LdPoints /\ "already" \in Exits /\ "raised" \in Exits
  BY DEF LdPoints, Exits
<1>2. To(p, "rehash") \in LdType /\ To(p, "rehash").at = "rehash" /\ To(p, "rehash").asked = ld[p].asked
      /\ To(p, "rehash").sha = ld[p].sha
  BY <1>1, MovedTo
<1>3. found \in LdType /\ found.at = "rehash" /\ found.sha = ld[p].sha /\ found.asked = ld[p].asked
      /\ found.exit = "already"
  BY <1>1, <1>2, WithExit
<1>4. go \in LdType /\ go.at = "insert" /\ go.asked = ld[p].asked /\ go.sha = ld[p].sha /\ go.rows = ld[p].rows
  BY <1>1, MovedTo
<1>5. ld[p].at \in {"find", "again"} /\ Becomes(p, next) /\ (Find(p) => ld[p].at = "find")
  BY DEF Find, FindAgain
<1>6. \E o \in LoadOptions : ld[p].asked = {o}
  BY <1>5, LdFields
<1> HIDE DEF found, go
<1>7. /\ next \in LdType /\ (next.at # "off" => \E o \in LoadOptions : next.asked = {o})
      /\ \/ next = found /\ Found(p)
         \/ next = go /\ Find(p)
         \/ next.at = "off" /\ next.exit = "raised"
  BY <1>1, <1>3, <1>4, <1>6, OffTyped
<1> HIDE DEF next
<1>8. LdTyped' /\ ld'[p] = next /\ \A q \in Loaders \ {p} : ld'[q] = ld[q]
  BY <1>5, <1>7, BecomesTyped
<1> QED
  BY <1>3, <1>4, <1>5, <1>7, <1>8 DEF Found

\* The transaction: nothing is stored, or one load of the rows that were read.
LEMMA InsertTyped ==
  ASSUME LdTyped, NEW p \in Loaders, Insert(p)
  PROVE  /\ LdTyped' /\ ld[p].at = "insert" /\ \A q \in Loaders \ {p} : ld'[q] = ld[q]
         /\ \/ /\ loads' = loads
               /\ \/ ld'[p].at = "again" /\ ld'[p].sha = ld[p].sha /\ ld'[p].rows = ld[p].rows
                  \/ ld'[p].at = "off" /\ ld'[p].exit = "failed"
            \/ /\ loads' = Append(loads, Load(Asked(p).source, ld[p].sha, ld[p].rows))
               /\ ld'[p].at = "rehash" /\ ld'[p].exit = "loaded" /\ ld'[p].sha = ld[p].sha
               /\ FindExistingLoad(loads, ld[p].sha) = {} /\ OfSource(loads, Asked(p).source) = {}
<1> DEFINE taken == IntegrityError(loads, ld[p].sha, Asked(p).source, Kept(ld[p].rows))
           stored == ~taken /\ Verified(loads, Asked(p).source)
           again == To(p, "again")
           done == [To(p, "rehash") EXCEPT !.exit = "loaded"]
           next == CASE taken -> again
                     [] ~taken /\ ~stored -> Off("failed")
                     [] stored -> done
<1>1. /\ ld[p].at = "insert" /\ Becomes(p, next)
      /\ loads' = IF ~stored THEN loads
                  ELSE Append(loads, Load(Asked(p).source, ld[p].sha, ld[p].rows))
  BY DEF Insert
<1>2. "rehash" \in LdPoints /\ "again" \in LdPoints /\ "loaded" \in Exits /\ "failed" \in Exits
  BY DEF LdPoints, Exits
<1>3. To(p, "rehash") \in LdType /\ To(p, "rehash").at = "rehash" /\ To(p, "rehash").asked = ld[p].asked
      /\ To(p, "rehash").sha = ld[p].sha
  BY <1>2, MovedTo
<1>4. done \in LdType /\ done.at = "rehash" /\ done.sha = ld[p].sha /\ done.asked = ld[p].asked
      /\ done.exit = "loaded"
  BY <1>2, <1>3, WithExit
<1>5. again \in LdType /\ again.at = "again" /\ again.asked = ld[p].asked /\ again.sha = ld[p].sha
      /\ again.rows = ld[p].rows
  BY <1>2, MovedTo
<1>6. \E o \in LoadOptions : ld[p].asked = {o}
  BY <1>1, LdFields
<1>7. stored => FindExistingLoad(loads, ld[p].sha) = {} /\ OfSource(loads, Asked(p).source) = {}
  BY DEF IntegrityError, Verified
<1>8. stored => ~taken
  OBVIOUS
<1> HIDE DEF done, again, stored, taken
<1>9. /\ next \in LdType /\ (next.at # "off" => \E o \in LoadOptions : next.asked = {o})
      /\ \/ next = again /\ ~stored
         \/ next.at = "off" /\ next.exit = "failed" /\ ~stored
         \/ next = done /\ stored
  <2>1. CASE taken
    <3>1. next = again
      BY <1>8, <2>1
    <3> QED
      BY <1>5, <1>6, <1>8, <2>1, <3>1
  <2>2. CASE ~taken /\ ~stored
    <3>1. next = Off("failed")
      BY <2>2
    <3> QED
      BY <1>2, <2>2, <3>1, OffTyped
  <2>3. CASE stored
    <3>1. next = done
      BY <1>8, <2>3
    <3> QED
      BY <1>4, <1>6, <2>3, <3>1
  <2> QED
    BY <2>1, <2>2, <2>3
<1> HIDE DEF next
<1>10. LdTyped' /\ ld'[p] = next /\ \A q \in Loaders \ {p} : ld'[q] = ld[q]
  BY <1>1, <1>9, BecomesTyped
<1> QED
  BY <1>1, <1>4, <1>5, <1>7, <1>9, <1>10

LEMMA RehashTyped ==
  ASSUME LdTyped, NEW p \in Loaders, Rehash(p)
  PROVE  /\ LdTyped' /\ ld[p].at = "rehash" /\ ld'[p].at = "off" /\ \A q \in Loaders \ {p} : ld'[q] = ld[q]
         /\ ld'[p].exit \in {"loaded", "already"} => file.rows = ld[p].sha
<1> DEFINE exit == IF file.rows = ld[p].sha THEN ld[p].exit ELSE "changed"
<1>1. ld[p].at = "rehash" /\ Becomes(p, Off(exit)) /\ exit \in Exits
  BY LdFields DEF Rehash, Exits
<1>2. exit \in {"loaded", "already"} => file.rows = ld[p].sha
  OBVIOUS
<1> HIDE DEF exit
<1>3. Off(exit) \in LdType /\ Off(exit).at = "off" /\ Off(exit).exit = exit
  BY <1>1, OffTyped
<1>4. LdTyped' /\ ld'[p] = Off(exit) /\ \A q \in Loaders \ {p} : ld'[q] = ld[q]
  BY <1>1, <1>3, BecomesTyped
<1> QED
  BY <1>1, <1>2, <1>3, <1>4

LEMMA KillTyped ==
  ASSUME LdTyped, DlTyped, Kill
  PROVE  /\ LdTyped' /\ DlTyped'
         /\ \/ dl' = Resting /\ ld' = ld
            \/ dl' = dl /\ \E p \in Loaders : ld'[p] = Off("raised") /\ \A q \in Loaders \ {p} : ld'[q] = ld[q]
         /\ UNCHANGED <<file, meta, loads, report, raced>>
<1>1. CASE dl' = Resting /\ UNCHANGED ld
  BY <1>1, RestingTyped DEF Kill, LdTyped, DlTyped
<1>2. ASSUME NEW p \in Loaders, Becomes(p, Off("raised")), UNCHANGED dl
      PROVE  /\ LdTyped' /\ DlTyped' /\ dl' = dl
             /\ ld'[p] = Off("raised") /\ \A q \in Loaders \ {p} : ld'[q] = ld[q]
  <2>1. Off("raised") \in LdType /\ Off("raised").at = "off"
    BY OffTyped DEF Exits
  <2>2. LdTyped' /\ ld'[p] = Off("raised") /\ \A q \in Loaders \ {p} : ld'[q] = ld[q]
    BY <1>2, <2>1, BecomesTyped
  <2> QED
    BY <1>2, <2>2 DEF DlTyped
<1> QED
  BY <1>1, <1>2 DEF Kill

LEMMA TypedNext ==
  ASSUME Typed, Next
  PROVE  Typed'
<1>0. /\ FileTyped /\ MetaTyped /\ DlTyped /\ LdTyped /\ raced \in BOOLEAN /\ report.outcome \in Outcomes
  BY TypedParts
<1> DEFINE Goal == /\ FileTyped' /\ MetaTyped' /\ DlTyped' /\ LdTyped' /\ raced' \in BOOLEAN
                   /\ report'.outcome \in Outcomes
<1> SUFFICES Goal
  BY DEF Typed, FileTyped, MetaTyped, DlTyped, LdTyped
<1>1. ASSUME NEW r \in Requests, StartDownload(r) PROVE Goal
  <2>1. DlTyped'
    BY <1>0, <1>1, DlStartTyped
  <2> QED
    BY <1>0, <1>1, <2>1 DEF StartDownload, FileTyped, MetaTyped, LdTyped
<1>2. CASE DownloadStep
  <2>1. CASE Answer
    <3>1. DlTyped'
      BY <1>0, <2>1, AnswerCases
    <3>2. UNCHANGED <<file, meta, ld, report, raced>>
      BY <2>1 DEF Answer
    <3> QED
      BY <1>0, <3>1, <3>2 DEF FileTyped, MetaTyped, LdTyped
  <2>2. CASE Fetched
    <3>1. DlTyped'
      BY <1>0, <2>2, FetchedCases
    <3>2. UNCHANGED <<file, meta, ld, report, raced>>
      BY <2>2 DEF Fetched
    <3> QED
      BY <1>0, <3>1, <3>2 DEF FileTyped, MetaTyped, LdTyped
  <2>3. CASE OpenFile \/ WriteDataset
    <3>1. DlTyped' /\ FileTyped' /\ raced' \in BOOLEAN
      BY <1>0, <2>3, WriteCases
    <3>2. UNCHANGED <<meta, ld, report>>
      BY <2>3 DEF OpenFile, WriteDataset
    <3> QED
      BY <1>0, <3>1, <3>2 DEF MetaTyped, LdTyped
  <2>4. CASE WriteMetadata
    <3>1. DlTyped' /\ MetaTyped'
      BY <1>0, <2>4, MetaCases
    <3>2. UNCHANGED <<file, ld, report, raced>>
      BY <2>4 DEF WriteMetadata
    <3> QED
      BY <1>0, <3>1, <3>2 DEF FileTyped, LdTyped
  <2> QED
    BY <1>2, <2>1, <2>2, <2>3, <2>4 DEF DownloadStep
<1>3. ASSUME NEW p \in Loaders, NEW o \in LoadOptions, StartLoad(p, o) PROVE Goal
  <2>1. LdTyped'
    BY <1>0, <1>3, LdStartTyped
  <2> QED
    BY <1>0, <1>3, <2>1 DEF StartLoad, FileTyped, MetaTyped, DlTyped
<1>4. ASSUME NEW p \in Loaders, LoadStep(p) PROVE Goal
  <2>1. LdTyped'
    BY <1>0, <1>4, HashTyped, ReadTyped, FindTyped, InsertTyped, RehashTyped DEF LoadStep
  <2>2. UNCHANGED <<file, meta, dl, report, raced>>
    BY <1>4 DEF LoadStep, Hash, Read, Find, Insert, FindAgain, Rehash
  <2> QED
    BY <1>0, <2>1, <2>2 DEF FileTyped, MetaTyped, DlTyped
<1>5. CASE Kill
  <2>1. LdTyped' /\ DlTyped' /\ UNCHANGED <<file, meta, report, raced>>
    BY <1>0, <1>5, KillTyped
  <2> QED
    BY <1>0, <2>1 DEF FileTyped, MetaTyped
<1>6. CASE RunCsv \/ (\E a \in DbRuns : RunDb(a)) \/ (\E source \in Sources : Gate(source))
  <2>1. report'.outcome \in Outcomes /\ UNCHANGED <<file, meta, dl, ld, loads, raced, left>>
    BY <1>6, ReportStep
  <2>2. UNCHANGED <<file, meta, dl, ld, raced>>
    BY <2>1
  <2> QED
    BY <1>0, <2>1, <2>2 DEF FileTyped, MetaTyped, DlTyped, LdTyped
<1> HIDE DEF Goal
<1> QED
  BY <1>1, <1>2, <1>3, <1>4, <1>5, <1>6 DEF Next

LEMMA AlwaysTyped == Spec => []Typed
<1>1. Init => Typed
  BY TypedInit
<1>2. Typed /\ [Next]_vars => Typed'
  <2> SUFFICES ASSUME Typed, [Next]_vars PROVE Typed'
    OBVIOUS
  <2>1. CASE Next
    BY <2>1, TypedNext
  <2>2. CASE UNCHANGED vars
    BY <2>2 DEF vars, Typed
  <2> QED
    BY <2>1, <2>2
<1> QED
  BY <1>1, <1>2, PTL DEF Spec

\* Every variable of the research commands keeps its type, no loader or
\* downloader leaves its steps, and no request is tried more often than the
\* client's limit allows.
THEOREM ResearchTyped == Spec => []TypeOK
BY AlwaysTyped, TypedImplies, PTL

-------------------------------------------------------------------------------
(* What the loaders store.                                                     *)

LoadSet == {Load(s, sha, rows) : s \in Sources, sha \in Seq(Rows), rows \in Seq(Rows)}

LEMMA LoadFields ==
  ASSUME NEW s, NEW sha, NEW rows
  PROVE  /\ Load(s, sha, rows).source = s /\ Load(s, sha, rows).sha = sha
         /\ Load(s, sha, rows).record = LoadRecord(rows) /\ Load(s, sha, rows).candles = Kept(rows)
BY DEF Load

LEMMA LoadSetFields ==
  ASSUME NEW x \in LoadSet
  PROVE  /\ x.source \in Sources /\ x.sha \in Seq(Rows) /\ x.candles \in Seq(Rows)
         /\ \A k \in 1..Len(x.candles) : Storable(x.candles[k])
         /\ \A j, k \in 1..Len(x.candles) : j < k <=> x.candles[j].t < x.candles[k].t
<1>1. PICK s \in Sources, sha \in Seq(Rows), rows \in Seq(Rows) : x = Load(s, sha, rows)
  BY DEF LoadSet
<1> QED
  BY <1>1, LoadFields, KeptOf

\* Each file is registered once.
ShaOnce == \A j, k \in DOMAIN loads : loads[j].sha = loads[k].sha => j = k

\* A source has the candles of one load.
SourceOnce == \A j, k \in DOMAIN loads :
  loads[j].source = loads[k].source /\ loads[j].candles # <<>> /\ loads[k].candles # <<>> => j = k

\* A loader that is about to end has found its file registered or registered it.
Registered == \A p \in Loaders : ld[p].at = "rehash" => FindExistingLoad(loads, ld[p].sha) # {}

\* Unless a file was rewritten between a hash and a read, hashes are of what was
\* read.
HashesHold ==
  ~raced => /\ \A p \in Loaders : ld[p].at = "read" => ld[p].sha = file.rows
            /\ \A p \in Loaders : ld[p].at \in {"find", "insert", "again"} => ld[p].rows = ld[p].sha
            /\ \A k \in DOMAIN loads : loads[k] = Load(loads[k].source, loads[k].sha, loads[k].sha)

LoadInv == loads \in Seq(LoadSet) /\ ShaOnce /\ SourceOnce /\ Registered /\ HashesHold

LEMMA LoadInit == ASSUME Init PROVE LoadInv
<1>1. /\ ~raced /\ \A p \in Loaders : ld[p].at = "off"
      /\ loads = <<>> \/ \E s \in Sources, f \in Stored : loads = <<Load(s, f, f)>>
  BY DEF Init, Off
<1>2. CASE loads = <<>>
  BY <1>1, <1>2 DEF LoadInv, ShaOnce, SourceOnce, Registered, HashesHold
<1>3. ASSUME NEW s \in Sources, NEW f \in Stored, loads = <<Load(s, f, f)>> PROVE LoadInv
  <2> DEFINE x == Load(s, f, f)
  <2>1. x \in LoadSet /\ x.sha = f /\ x.source = s
    BY ResearchAssumption, LoadFields DEF LoadSet
  <2>2. loads = <<x>>
    BY <1>3
  <2>3. x = Load(x.source, x.sha, x.sha)
    BY <2>1
  <2> HIDE DEF x
  <2>4. loads \in Seq(LoadSet) /\ DOMAIN loads = {1} /\ loads[1] = x
    BY <2>1, <2>2
  <2> QED
    BY <1>1, <2>3, <2>4 DEF LoadInv, ShaOnce, SourceOnce, Registered, HashesHold
<1> QED
  BY <1>1, <1>2, <1>3

LEMMA Candles ==
  ASSUME loads \in Seq(LoadSet), NEW source, OfSource(loads, source) = {}, NEW k \in DOMAIN loads,
         loads[k].source = source
  PROVE  loads[k].candles = <<>>
<1>1. loads[k] \in LoadSet
  OBVIOUS
<1>2. Range(loads[k].candles) = {}
  BY DEF OfSource
<1>3. loads[k].candles \in Seq(Rows)
  BY <1>1, LoadSetFields
<1> DEFINE c == loads[k].candles
<1> HIDE DEF c
<1>4. c \in Seq(Rows) /\ DOMAIN c = {}
  BY <1>2, <1>3 DEF Range, c
<1>5. c = <<>>
  BY <1>4
<1> QED
  BY <1>5 DEF c

\* A step that stores nothing.
LEMMA SameLoads ==
  ASSUME LoadInv, UNCHANGED loads, Registered', HashesHold'
  PROVE  LoadInv'
BY DEF LoadInv, ShaOnce, SourceOnce

\* The transaction.
LEMMA InsertKeeps ==
  ASSUME Typed, LoadInv, NEW p \in Loaders, Insert(p)
  PROVE  LoadInv'
<1>0. LdTyped /\ UNCHANGED <<file, raced>>
  BY TypedParts DEF Insert
<1>1. /\ ld[p].at = "insert" /\ \A q \in Loaders \ {p} : ld'[q] = ld[q]
  BY <1>0, InsertTyped
<1>2. CASE /\ loads' = loads
           /\ \/ ld'[p].at = "again" /\ ld'[p].sha = ld[p].sha /\ ld'[p].rows = ld[p].rows
              \/ ld'[p].at = "off" /\ ld'[p].exit = "failed"
  <2>1. Registered'
    BY <1>1, <1>2 DEF LoadInv, Registered
  <2>2. HashesHold'
    BY <1>0, <1>1, <1>2 DEF LoadInv, HashesHold
  <2> QED
    BY <1>2, <2>1, <2>2, SameLoads
<1>3. CASE /\ loads' = Append(loads, Load(Asked(p).source, ld[p].sha, ld[p].rows))
           /\ ld'[p].at = "rehash" /\ ld'[p].exit = "loaded" /\ ld'[p].sha = ld[p].sha
           /\ FindExistingLoad(loads, ld[p].sha) = {} /\ OfSource(loads, Asked(p).source) = {}
  <2> DEFINE x == Load(Asked(p).source, ld[p].sha, ld[p].rows)
             n == Len(loads)
  <2>1. Asked(p).source \in Sources /\ ld[p].sha \in Seq(Rows) /\ ld[p].rows \in Seq(Rows)
    BY <1>0, <1>1, LdFields
  <2>2. x \in LoadSet /\ x.source = Asked(p).source /\ x.sha = ld[p].sha
    BY <2>1, LoadFields DEF LoadSet
  <2>3. loads \in Seq(LoadSet) /\ loads' = Append(loads, x)
    BY <1>3 DEF LoadInv
  <2> HIDE DEF x
  <2>4. /\ n \in Nat /\ loads' \in Seq(LoadSet) /\ DOMAIN loads = 1..n /\ DOMAIN loads' = 1..(n + 1)
        /\ loads'[n + 1] = x /\ \A k \in 1..n : loads'[k] = loads[k]
    BY <2>2, <2>3
  <2> HIDE DEF n
  <2>4a. \A k \in 1..(n + 1) : k \in 1..n \/ k = n + 1
    BY <2>4
  <2>5. \A k \in 1..n : loads[k].sha # x.sha
    BY <1>3, <2>2, <2>4 DEF FindExistingLoad
  <2>6. \A k \in 1..n : loads[k].source = x.source => loads[k].candles = <<>>
    BY <1>3, <2>2, <2>3, <2>4, Candles
  <2>7. ShaOnce'
    BY <2>4, <2>4a, <2>5 DEF LoadInv, ShaOnce
  <2>8. SourceOnce'
    BY <2>4, <2>4a, <2>6 DEF LoadInv, SourceOnce
  <2>9. Registered'
    <3> SUFFICES ASSUME NEW q \in Loaders, ld'[q].at = "rehash"
                 PROVE  \E k \in DOMAIN loads' : loads'[k].sha = ld'[q].sha
      BY DEF Registered, FindExistingLoad
    <3>1. CASE q = p
      BY <1>3, <2>2, <2>4, <3>1
    <3>2. CASE q # p
      <4>1. PICK k \in DOMAIN loads : loads[k].sha = ld[q].sha
        BY <1>1, <3>2 DEF LoadInv, Registered, FindExistingLoad
      <4> QED
        BY <1>1, <2>4, <2>4a, <3>2, <4>1
    <3> QED
      BY <3>1, <3>2
  <2>10. HashesHold'
    <3> SUFFICES ASSUME ~raced PROVE HashesHold'
      BY <1>0 DEF HashesHold
    <3>1. /\ \A q \in Loaders : ld[q].at = "read" => ld[q].sha = file.rows
          /\ \A q \in Loaders : ld[q].at \in {"find", "insert", "again"} => ld[q].rows = ld[q].sha
          /\ \A k \in DOMAIN loads : loads[k] = Load(loads[k].source, loads[k].sha, loads[k].sha)
      BY DEF LoadInv, HashesHold
    <3>2. ld[p].rows = ld[p].sha
      BY <1>1, <3>1
    <3>3. x = Load(x.source, x.sha, x.sha)
      BY <2>2, <3>2 DEF x
    <3>4. \A k \in 1..(n + 1) : loads'[k] = Load(loads'[k].source, loads'[k].sha, loads'[k].sha)
      BY <2>4, <2>4a, <3>1, <3>3
    <3>5. /\ \A q \in Loaders : ld'[q].at = "read" => ld'[q].sha = file.rows
          /\ \A q \in Loaders : ld'[q].at \in {"find", "insert", "again"} => ld'[q].rows = ld'[q].sha
      BY <1>1, <1>3, <3>1
    <3> QED
      BY <1>0, <2>4, <3>4, <3>5 DEF HashesHold
  <2> QED
    BY <2>4, <2>7, <2>8, <2>9, <2>10 DEF LoadInv
<1> QED
  BY <1>0, <1>2, <1>3, InsertTyped

\* A write of the file is noted as soon as a loader is between hash and read.
LEMMA WriteKeeps ==
  ASSUME Typed, LoadInv, OpenFile \/ WriteDataset
  PROVE  LoadInv'
<1>1. raced' = (raced \/ \E p \in Loaders : ld[p].at = "read")
  BY TypedParts, WriteCases
<1>2. UNCHANGED <<ld, loads>>
  BY DEF OpenFile, WriteDataset
<1>3. Registered'
  BY <1>2 DEF LoadInv, Registered
<1>4. HashesHold'
  BY <1>1, <1>2 DEF LoadInv, HashesHold
<1> QED
  BY <1>2, <1>3, <1>4, SameLoads

\* A step of one loader that stores nothing.
LEMMA LoaderKeeps ==
  ASSUME Typed, LoadInv, NEW p \in Loaders,
         \/ \E o \in LoadOptions : StartLoad(p, o)
         \/ Hash(p) \/ Read(p) \/ Find(p) \/ FindAgain(p) \/ Rehash(p)
  PROVE  LoadInv'
<1>0. LdTyped /\ FileTyped
  BY TypedParts
<1>1. UNCHANGED <<file, loads, raced>>
  BY DEF StartLoad, Hash, Read, Find, FindAgain, Rehash
<1>2. /\ \A q \in Loaders \ {p} : ld'[q] = ld[q]
      /\ \/ ld'[p].at \in {"hash", "off"}
         \/ ld'[p].at = "read" /\ ld'[p].sha = file.rows
         \/ ld[p].at = "read" /\ ld'[p].at = "find" /\ ld'[p].sha = ld[p].sha /\ ld'[p].rows = file.rows
         \/ ld'[p].at = "rehash" /\ ld'[p].sha = ld[p].sha /\ FindExistingLoad(loads, ld[p].sha) # {}
         \/ ld[p].at = "find" /\ ld'[p].at = "insert" /\ ld'[p].sha = ld[p].sha /\ ld'[p].rows = ld[p].rows
  <2>1. CASE \E o \in LoadOptions : StartLoad(p, o)
    BY <1>0, <2>1, LdStartTyped
  <2>2. CASE Hash(p)
    BY <1>0, <2>2, HashTyped
  <2>3. CASE Read(p)
    BY <1>0, <2>3, ReadTyped
  <2>4. CASE Find(p) \/ FindAgain(p)
    BY <1>0, <2>4, FindTyped
  <2>5. CASE Rehash(p)
    BY <1>0, <2>5, RehashTyped
  <2> QED
    BY <2>1, <2>2, <2>3, <2>4, <2>5
<1>3. Registered'
  BY <1>1, <1>2 DEF LoadInv, Registered
<1>4. HashesHold'
  BY <1>1, <1>2 DEF LoadInv, HashesHold
<1> QED
  BY <1>1, <1>3, <1>4, SameLoads

LEMMA LoadNext ==
  ASSUME Typed, LoadInv, [Next]_vars
  PROVE  LoadInv'
<1>1. CASE UNCHANGED <<file, ld, loads, raced>>
  <2>1. Registered' /\ HashesHold'
    BY <1>1 DEF LoadInv, Registered, HashesHold
  <2> QED
    BY <1>1, <2>1, SameLoads
<1>2. ASSUME NEW r \in Requests, StartDownload(r) PROVE LoadInv'
  BY <1>1, <1>2 DEF StartDownload
<1>3. CASE DownloadStep
  <2>1. CASE OpenFile \/ WriteDataset
    BY <2>1, WriteKeeps
  <2>2. CASE Answer \/ Fetched \/ WriteMetadata
    <3>1. UNCHANGED <<file, ld, loads, raced>>
      BY <2>2 DEF Answer, Fetched, WriteMetadata
    <3> QED
      BY <1>1, <3>1
  <2> QED
    BY <1>3, <2>1, <2>2 DEF DownloadStep
<1>4. ASSUME NEW p \in Loaders, NEW o \in LoadOptions, StartLoad(p, o) PROVE LoadInv'
  BY <1>4, LoaderKeeps
<1>5. ASSUME NEW p \in Loaders, LoadStep(p) PROVE LoadInv'
  BY <1>5, LoaderKeeps, InsertKeeps DEF LoadStep
<1>6. CASE Kill
  <2>1. /\ UNCHANGED <<file, loads, raced>>
        /\ \/ ld' = ld
           \/ \E p \in Loaders : ld'[p] = Off("raised") /\ \A q \in Loaders \ {p} : ld'[q] = ld[q]
    BY <1>6, KillTyped, TypedParts
  <2>2. \A p \in Loaders : ld'[p] = ld[p] \/ ld'[p].at = "off"
    BY <2>1 DEF Off
  <2>3. Registered' /\ HashesHold'
    BY <2>1, <2>2 DEF LoadInv, Registered, HashesHold
  <2> QED
    BY <2>1, <2>3, SameLoads
<1>7. CASE RunCsv \/ (\E a \in DbRuns : RunDb(a)) \/ (\E source \in Sources : Gate(source))
  <2>1. UNCHANGED <<file, ld, loads, raced>>
    BY <1>7, ReportStep
  <2> QED
    BY <1>1, <2>1
<1>8. CASE UNCHANGED vars
  BY <1>1, <1>8 DEF vars
<1> QED
  BY <1>2, <1>3, <1>4, <1>5, <1>6, <1>7, <1>8 DEF Next

LEMMA AlwaysLoadInv == Spec => []LoadInv
<1>1. Init => LoadInv
  BY LoadInit
<1>2. Typed /\ LoadInv /\ [Next]_vars => LoadInv'
  BY LoadNext
<1> QED
  BY <1>1, <1>2, AlwaysTyped, PTL DEF Spec

LEMMA Stored1 ==
  ASSUME LoadInv
  PROVE  StoredAsPlanned
<1>1. \A k \in DOMAIN loads : loads[k] \in LoadSet
  BY DEF LoadInv
<1>2. \A i, j \in DOMAIN loads : loads[i].sha = loads[j].sha => i = j
  BY DEF LoadInv, ShaOnce
<1>3. ASSUME NEW j \in DOMAIN loads, NEW k \in DOMAIN loads, loads[j].source = loads[k].source,
             NEW x \in DOMAIN loads[j].candles, NEW y \in DOMAIN loads[k].candles,
             loads[j].candles[x].t = loads[k].candles[y].t
      PROVE  j = k /\ x = y
  <2> DEFINE a == loads[j].candles
             b == loads[k].candles
  <2>1. a \in Seq(Rows) /\ b \in Seq(Rows) /\ x \in DOMAIN a /\ y \in DOMAIN b /\ a[x].t = b[y].t
    BY <1>1, <1>3, LoadSetFields
  <2>2. \A m, n \in 1..Len(a) : m < n <=> a[m].t < a[n].t
    BY <1>1, LoadSetFields
  <2>3. a # <<>> /\ b # <<>> => j = k
    BY <1>3 DEF LoadInv, SourceOnce
  <2>4. j = k => a = b
    OBVIOUS
  <2> HIDE DEF a, b
  <2>5. a # <<>> /\ b # <<>> /\ x \in 1..Len(a) /\ y \in 1..Len(b) /\ Len(a) \in Nat
    BY <2>1
  <2>6. j = k /\ a = b
    BY <2>3, <2>4, <2>5
  <2>7. a[x] \in Rows /\ a[y] \in Rows /\ x \in 1..Len(a) /\ y \in 1..Len(a) /\ a[x].t = a[y].t
    BY <2>1, <2>5, <2>6
  <2>8. a[x].t \in Nat /\ a[y].t \in Nat
    BY <2>7, RowTypes
  <2>9. ~(x < y) /\ ~(y < x)
    BY <2>2, <2>7, <2>8
  <2> QED
    BY <2>5, <2>6, <2>7, <2>9
<1>4. ASSUME NEW k \in DOMAIN loads, NEW b \in Range(loads[k].candles)
      PROVE  ValidCandle(b) /\ b.l > 0 /\ b.grid /\ Day(b.t) \notin ExcludedDays
  <2> DEFINE c == loads[k].candles
  <2>1. c \in Seq(Rows) /\ \A i \in 1..Len(c) : Storable(c[i])
    BY <1>1, LoadSetFields
  <2>2. PICK i \in DOMAIN c : b = c[i]
    BY DEF Range
  <2> HIDE DEF c
  <2>3. i \in 1..Len(c)
    BY <2>1, <2>2
  <2> QED
    BY <2>1, <2>2, <2>3 DEF Storable
<1>5. ASSUME ~raced, NEW k \in DOMAIN loads
      PROVE  /\ loads[k].candles = Kept(loads[k].sha)
             /\ LET r == loads[k].record
                IN  Len(loads[k].candles) = r.row_count - r.excluded_rows - r.rejected_rows
  <2>1. loads[k] = Load(loads[k].source, loads[k].sha, loads[k].sha) /\ loads[k].sha \in Seq(Rows)
    BY <1>1, <1>5, LoadSetFields DEF LoadInv, HashesHold
  <2> DEFINE s == loads[k].sha
  <2>2. loads[k].candles = Kept(s) /\ loads[k].record = LoadRecord(s) /\ s \in Seq(Rows)
    BY <2>1, LoadFields
  <2> HIDE DEF s
  <2>3. Len(Kept(s)) = Len(s) - Cardinality(Where(s, Excluded)) - Cardinality(Rejected(s))
    BY <2>2, KeptOf
  <2>4. /\ LoadRecord(s).row_count = Len(s) /\ LoadRecord(s).excluded_rows = Cardinality(Where(s, Excluded))
        /\ LoadRecord(s).rejected_rows = Cardinality(Rejected(s))
    BY DEF LoadRecord
  <2> QED
    BY <2>2, <2>3, <2>4 DEF s
<1> QED
  BY <1>2, <1>3, <1>4, <1>5 DEF StoredAsPlanned

\* Whatever loaders run at once, are killed or meet a rewritten file: a file is
\* registered once, a source has one candle at a time, nothing invalid or
\* excluded is stored, and unless a file was rewritten between a load's hash
\* and its read, a load holds what the policy keeps of the file it names.
THEOREM LoadsAreAsPlanned == Spec => []StoredAsPlanned
BY AlwaysLoadInv, Stored1, PTL

\* The end of a loader that says success.
LEMMA EndOfLoad ==
  ASSUME Typed, LoadInv, [Next]_vars, NEW p \in Loaders,
         ld[p].at = "rehash", ld'[p].at = "off", ld'[p].exit \in {"loaded", "already"}
  PROVE  \E k \in FindExistingLoad(loads, file.rows) : raced \/ loads[k].candles = Kept(file.rows)
<1>0. LdTyped /\ DlTyped /\ FileTyped
  BY TypedParts
<1>1. ld'[p] # ld[p]
  BY <1>0
<1>2. Rehash(p)
  <2>1. CASE UNCHANGED ld
    BY <1>1, <2>1
  <2>2. ASSUME NEW r \in Requests, StartDownload(r) PROVE FALSE
    BY <2>1, <2>2 DEF StartDownload
  <2>3. CASE DownloadStep
    BY <2>1, <2>3 DEF DownloadStep, Answer, Fetched, OpenFile, WriteDataset, WriteMetadata
  <2>4. ASSUME NEW q \in Loaders, NEW o \in LoadOptions, StartLoad(q, o) PROVE FALSE
    <3>1. q # p
      BY <2>4 DEF StartLoad
    <3> QED
      BY <1>0, <1>1, <2>4, <3>1, LdStartTyped
  <2>5. ASSUME NEW q \in Loaders, LoadStep(q), ~Rehash(q) PROVE FALSE
    <3>1. q # p
      BY <2>5 DEF LoadStep, Hash, Read, Find, Insert, FindAgain
    <3>2. Hash(q) \/ Read(q) \/ (Find(q) \/ FindAgain(q)) \/ Insert(q)
      BY <2>5 DEF LoadStep
    <3>3. p \in Loaders \ {q}
      BY <3>1
    <3>4. CASE Hash(q) \/ Read(q)
      BY <1>0, <1>1, <3>3, <3>4, HashTyped, ReadTyped
    <3>5. CASE Find(q) \/ FindAgain(q)
      BY <1>0, <1>1, <3>3, <3>5, FindTyped
    <3>6. CASE Insert(q)
      BY <1>0, <1>1, <3>3, <3>6, InsertTyped
    <3> QED
      BY <3>2, <3>4, <3>5, <3>6
  <2>6. ASSUME NEW q \in Loaders, Rehash(q), q # p PROVE FALSE
    BY <1>0, <1>1, <2>6, RehashTyped
  <2>7. CASE Kill
    <3>1. Off("raised").exit = "raised"
      BY DEF Off
    <3> QED
      BY <1>0, <1>1, <2>7, <3>1, KillTyped
  <2>8. CASE RunCsv \/ (\E a \in DbRuns : RunDb(a)) \/ (\E source \in Sources : Gate(source))
    <3>1. UNCHANGED ld
      BY <2>8, ReportStep
    <3> QED
      BY <2>1, <3>1
  <2>9. CASE UNCHANGED vars
    BY <2>1, <2>9 DEF vars
  <2> QED
    BY <2>2, <2>3, <2>4, <2>5, <2>6, <2>7, <2>8, <2>9 DEF Next
<1>3. file.rows = ld[p].sha
  BY <1>0, <1>2, RehashTyped
<1>4. PICK k \in FindExistingLoad(loads, file.rows) : TRUE
  BY <1>3 DEF LoadInv, Registered
<1>5. k \in DOMAIN loads /\ loads[k].sha = file.rows
  BY <1>4 DEF FindExistingLoad
<1>6. ASSUME ~raced PROVE loads[k].candles = Kept(file.rows)
  BY <1>5, <1>6, LoadFields DEF LoadInv, HashesHold
<1> QED
  BY <1>4, <1>6

\* A load that says success leaves the file as it now is registered, and, if it
\* was not rewritten under a load, what the policy keeps of it stored: a load
\* or a download that runs at the same time is never taken for this file's.
THEOREM LoadsTellTheTruth == Spec => LoadTellsTheTruth
<1>1. Typed /\ LoadInv /\ [Next]_vars =>
        [\A p \in Loaders :
            ld[p].at = "rehash" /\ ld'[p].at = "off" /\ ld'[p].exit \in {"loaded", "already"} =>
               \E k \in FindExistingLoad(loads, file.rows) : raced \/ loads[k].candles = Kept(file.rows)]_vars
  BY EndOfLoad
<1> QED
  BY <1>1, AlwaysTyped, AlwaysLoadInv, PTL DEF Spec, LoadTellsTheTruth

-------------------------------------------------------------------------------
(* What the downloader writes.                                                 *)

LEMMA DayOf ==
  ASSUME NEW b \in Rows
  PROVE  Day(b.t) \in Int
<1>1. b.t - 1 \in Int /\ SlotsPerDay \in Nat \ {0}
  BY RowTypes, ReplayAssumption
<1> DEFINE q == (b.t - 1) \div SlotsPerDay
<1>2. q \in Int
  BY <1>1
<1>3. Day(b.t) = q + 1
  BY DEF Day
<1> HIDE DEF q
<1> QED
  BY <1>2, <1>3

\* Two spans of days that meet.
LEMMA FirstsOfSpans ==
  ASSUME NEW rows \in Seq(Rows), NEW a \in Int, NEW b \in Int, NEW c \in Int, a <= b + 1, b <= c
  PROVE  Firsts(rows, a, b) \cup Firsts(rows, b + 1, c) = Firsts(rows, a, c)
<1>1. \A i \in DOMAIN rows : Day(rows[i].t) \in Int
  BY DayOf
<1>2. ASSUME NEW d \in Int PROVE d \in a..c <=> d \in a..b \/ d \in (b + 1)..c
  OBVIOUS
<1>3. \A i \in DOMAIN rows :
         Day(rows[i].t) \in a..c <=> Day(rows[i].t) \in a..b \/ Day(rows[i].t) \in (b + 1)..c
  BY <1>1, <1>2
<1> QED
  BY <1>3 DEF Firsts

\* The last day of the request that the chunks already answered reach.
Done(r) == IF dl.todo = <<>> THEN r.end ELSE dl.todo[1].first - 1

\* What a wholly written file of a request holds.
Genuine(rows, r) ==
  /\ Range(rows) = Firsts(Market, r.start, r.end)
  /\ \A i \in 2..Len(rows) : rows[i - 1].t < rows[i].t

\* The chunks to come continue what was fetched up to the request's end, and
\* what was fetched is the market's as far as no chunk failed.
ChunksLeft(r) ==
  /\ Chained(dl.todo)
  /\ \A i \in DOMAIN dl.todo : dl.todo[i].first <= dl.todo[i].last /\ dl.todo[i].last <= r.end
  /\ dl.todo # <<>> => dl.todo[Len(dl.todo)].last = r.end
  /\ r.start <= Done(r) + 1

FetchedSoFar(r) ==
  /\ \A i \in DOMAIN dl.raw : ValidCandle(dl.raw[i]) => Day(dl.raw[i].t) \in r.start..Done(r)
  /\ dl.failed = {} => AllFirsts(dl.raw) = Firsts(Market, r.start, Done(r))

CsvInv ==
  /\ \A r \in Requests : dl.asked = {r} /\ dl.at = "fetch" => ChunksLeft(r) /\ FetchedSoFar(r)
  /\ \A r \in Requests : dl.asked = {r} /\ dl.at \in {"open", "write", "meta"} /\ ~r.partial => Genuine(dl.raw, r)
  /\ \A r \in file.asked : file.whole /\ ~r.partial => Genuine(file.rows, r)

\* The first chunk is done, answered or failed.
LEMMA NextChunk ==
  ASSUME NEW r \in Requests, dl.todo \in Seq(Chunks), dl.todo # <<>>, ChunksLeft(r), dl'.todo = Tail(dl.todo)
  PROVE  /\ ChunksLeft(r)' /\ Done(r)' = dl.todo[1].last /\ r.start <= dl.todo[1].first /\ Done(r) = dl.todo[1].first - 1
         /\ dl.todo[1] \in Chunks /\ dl.todo[1].first <= dl.todo[1].last
<1> DEFINE s == dl.todo
           n == Len(dl.todo)
           u == dl'.todo
<1>0. s \in Seq(Chunks) /\ s # <<>> /\ u = Tail(s) /\ n = Len(s)
  OBVIOUS
<1> HIDE DEF s, u, n
<1>1. /\ n \in Nat /\ n >= 1 /\ DOMAIN s = 1..n /\ \A i \in 1..n : s[i] \in Chunks
      /\ u \in Seq(Chunks) /\ Len(u) = n - 1 /\ DOMAIN u = 1..(n - 1) /\ \A i \in 1..(n - 1) : u[i] = s[i + 1]
  BY <1>0
<1>2. \A i \in 1..n : s[i].first \in Nat /\ s[i].last \in Nat
  BY <1>1 DEF Chunks
<1>3. /\ \A i \in 1..(n - 1) : s[i + 1].first = s[i].last + 1
      /\ \A i \in 1..n : s[i].first <= s[i].last /\ s[i].last <= r.end
      /\ s[n].last = r.end /\ r.start <= s[1].first /\ Done(r) = s[1].first - 1
  <2>1. Chained(s) /\ Done(r) = s[1].first - 1 /\ r.start <= Done(r) + 1
    BY <1>0 DEF ChunksLeft, Done, s
  <2>2. s[n].last = r.end /\ \A i \in DOMAIN s : s[i].first <= s[i].last /\ s[i].last <= r.end
    BY <1>0 DEF ChunksLeft, s, n
  <2>3. r.start <= s[1].first
    BY <1>1, <1>2, <2>1, RequestType
  <2> QED
    BY <1>0, <1>1, <2>1, <2>2, <2>3 DEF Chained
<1>4. u = <<>> <=> n = 1
  BY <1>1
<1>5. Done(r)' = s[1].last
  <2>1. CASE n = 1
    BY <1>3, <1>4, <2>1 DEF Done, u
  <2>2. CASE n # 1
    <3>1. 1 \in 1..(n - 1) /\ 1 \in 1..n
      BY <1>1, <2>2
    <3>2. u[1].first = s[1].last + 1 /\ s[1].last \in Nat
      BY <1>1, <1>2, <1>3, <3>1
    <3>3. Done(r)' = u[1].first - 1
      BY <1>4, <2>2 DEF Done, u
    <3> QED
      BY <3>2, <3>3
  <2> QED
    BY <2>1, <2>2
<1>6. Chained(u)
  <2> SUFFICES ASSUME NEW i \in 1..(Len(u) - 1) PROVE u[i + 1].first = u[i].last + 1
    BY DEF Chained
  <2>1. i \in 1..(n - 1) /\ i + 1 \in 1..(n - 1)
    BY <1>1
  <2> QED
    BY <1>1, <1>3, <2>1
<1>7. \A i \in DOMAIN u : u[i].first <= u[i].last /\ u[i].last <= r.end
  <2> SUFFICES ASSUME NEW i \in 1..(n - 1) PROVE u[i].first <= u[i].last /\ u[i].last <= r.end
    BY <1>1
  <2>1. i + 1 \in 1..n
    BY <1>1
  <2> QED
    BY <1>1, <1>3, <2>1
<1>8. u # <<>> => u[Len(u)].last = r.end
  <2> SUFFICES ASSUME n # 1 PROVE u[n - 1].last = r.end
    BY <1>1, <1>4
  <2>1. n - 1 \in 1..(n - 1)
    BY <1>1
  <2> QED
    BY <1>1, <1>3, <2>1
<1>9. r.start <= Done(r)' + 1
  <2>1. 1 \in 1..n
    BY <1>1
  <2> QED
    BY <1>2, <1>3, <1>5, <2>1, RequestType
<1> QED
  BY <1>0, <1>1, <1>3, <1>5, <1>6, <1>7, <1>8, <1>9 DEF ChunksLeft, s, u

LEMMA AnswerKeeps ==
  ASSUME Typed, CsvInv, Answer
  PROVE  CsvInv'
<1>0. DlTyped
  BY TypedParts
<1>1. UNCHANGED file
  BY DEF Answer
<1>2. dl.at = "fetch" /\ dl'.at = "fetch" /\ dl'.asked = dl.asked /\ dl.todo \in Seq(Chunks) /\ dl.todo # <<>>
  BY <1>0, AnswerCases, DlFields
<1>3. ASSUME NEW r \in Requests, dl.asked = {r} PROVE ChunksLeft(r)' /\ FetchedSoFar(r)'
  <2>1. ChunksLeft(r) /\ FetchedSoFar(r)
    BY <1>2, <1>3 DEF CsvInv
  <2>2. CASE dl'.todo = dl.todo /\ dl'.failed = dl.failed /\ dl'.raw = dl.raw
    BY <2>1, <2>2 DEF ChunksLeft, FetchedSoFar, Done
  <2>3. ASSUME dl'.todo = Tail(dl.todo) PROVE
          /\ ChunksLeft(r)' /\ Done(r)' = dl.todo[1].last /\ r.start <= dl.todo[1].first
          /\ Done(r) = dl.todo[1].first - 1
          /\ dl.todo[1] \in Chunks /\ dl.todo[1].first <= dl.todo[1].last
    BY <1>2, <2>1, <2>3, NextChunk
  <2> DEFINE c == dl.todo[1]
             raw == dl.raw
             last == Done(r)
             end == Done(r)'
  <2>4. /\ raw \in Seq(Rows) /\ r.start \in Nat
        /\ \A i \in DOMAIN raw : ValidCandle(raw[i]) => Day(raw[i].t) \in r.start..last
        /\ dl.failed = {} => AllFirsts(raw) = Firsts(Market, r.start, last)
    BY <1>0, <2>1, DlFields, RequestType DEF FetchedSoFar
  <2>5. ASSUME dl'.todo = Tail(dl.todo)
        PROVE  /\ c \in Chunks /\ c.first \in Nat /\ c.last \in Nat /\ last = c.first - 1 /\ end = c.last
               /\ c.first <= c.last /\ r.start <= c.first
    BY <2>3, <2>5 DEF Chunks
  <2>6. ASSUME dl'.todo = Tail(dl.todo), dl'.failed = dl.failed, NEW garbled \in BOOLEAN,
               dl'.raw = raw \o Served(c, garbled)
        PROVE  ChunksLeft(r)' /\ FetchedSoFar(r)'
    <3> DEFINE s == Served(c, garbled)
    <3>1. /\ s \in Seq(Rows) /\ AllFirsts(s) = Firsts(Market, c.first, c.last)
          /\ \A i \in DOMAIN s : ValidCandle(s[i]) => Day(s[i].t) \in c.first..c.last
      BY <2>5, <2>6, ServedOf
    <3>1a. dl'.raw = raw \o s
      BY <2>6
    <3>1b. c.first \in Nat /\ c.last \in Nat /\ last = c.first - 1 /\ end = c.last /\ c.first <= c.last /\ r.start <= c.first
      BY <2>5, <2>6
    <3> HIDE DEF s, raw, last, end, c
    <3>2. \A i \in DOMAIN raw, j \in DOMAIN s : ValidCandle(raw[i]) /\ ValidCandle(s[j]) => raw[i].t # s[j].t
      <4> TAKE i \in DOMAIN raw, j \in DOMAIN s
      <4> SUFFICES ASSUME ValidCandle(raw[i]), ValidCandle(s[j]), raw[i].t = s[j].t PROVE FALSE
        OBVIOUS
      <4>1. Day(raw[i].t) \in r.start..last /\ Day(raw[i].t) \in c.first..c.last
        BY <2>4, <3>1
      <4> QED
        BY <2>4, <3>1b, <4>1
    <3>3. AllFirsts(raw \o s) = AllFirsts(raw) \cup AllFirsts(s)
      BY <2>4, <3>1, <3>2, FirstsOfJoin
    <3>4. ASSUME dl.failed = {} PROVE AllFirsts(raw \o s) = Firsts(Market, r.start, end)
      <4>1. Firsts(Market, r.start, last) \cup Firsts(Market, last + 1, end) = Firsts(Market, r.start, end)
        <5>1. Market \in Seq(Rows)
          BY ResearchAssumption
        <5>2. r.start \in Int /\ last \in Int /\ end \in Int /\ r.start <= last + 1 /\ last <= end
          BY <2>4, <3>1b
        <5> QED
          BY <5>1, <5>2, FirstsOfSpans
      <4>2. last + 1 = c.first
        BY <3>1b
      <4> QED
        BY <2>4, <3>1, <3>1b, <3>3, <3>4, <4>1, <4>2
    <3>5. ASSUME NEW i \in DOMAIN (raw \o s), ValidCandle((raw \o s)[i]) PROVE Day((raw \o s)[i].t) \in r.start..end
      <4>1. /\ Len(raw) \in Nat /\ Len(s) \in Nat /\ DOMAIN raw = 1..Len(raw) /\ DOMAIN s = 1..Len(s)
            /\ i \in 1..(Len(raw) + Len(s))
            /\ (raw \o s)[i] = IF i <= Len(raw) THEN raw[i] ELSE s[i - Len(raw)]
        BY <2>4, <3>1, <3>5
      <4>2. CASE i <= Len(raw)
        <5>1. Day(raw[i].t) \in r.start..last
          BY <2>4, <3>5, <4>1, <4>2
        <5> QED
          BY <2>4, <3>1b, <4>1, <4>2, <5>1
      <4>3. CASE ~(i <= Len(raw))
        <5>1. i - Len(raw) \in DOMAIN s
          BY <4>1, <4>3
        <5>2. Day(s[i - Len(raw)].t) \in c.first..c.last
          BY <3>1, <3>5, <4>1, <4>3, <5>1
        <5> QED
          BY <2>4, <3>1b, <4>1, <4>3, <5>2
      <4> QED
        BY <4>2, <4>3
    <3>6. dl'.raw = raw \o s /\ dl'.failed = dl.failed
      BY <2>6, <3>1a
    <3> QED
      BY <2>3, <2>6, <3>4, <3>5, <3>6 DEF FetchedSoFar, end
  <2>7. CASE dl'.todo = Tail(dl.todo) /\ dl'.failed = dl.failed \cup {dl.todo[1]} /\ dl'.raw = dl.raw
    <3>1. \A d \in r.start..last : d \in r.start..end
      BY <2>4, <2>5, <2>7
    <3>2. dl'.failed # {}
      BY <2>7
    <3> QED
      BY <2>3, <2>4, <2>7, <3>1, <3>2 DEF FetchedSoFar
  <2> HIDE DEF c, raw, last, end
  <2> QED
    BY <1>0, <2>2, <2>6, <2>7, AnswerCases DEF c, raw
<1> QED
  BY <1>1, <1>2, <1>3 DEF CsvInv

LEMMA StartsCsv ==
  ASSUME Typed, CsvInv, NEW r \in Requests, StartDownload(r)
  PROVE  CsvInv'
<1> DEFINE todo == PlanChunks(r.start, r.end)
<1>1. /\ dl'.at = "fetch" /\ dl'.asked = {r} /\ dl'.todo = todo /\ dl'.raw = <<>> /\ dl'.failed = {}
  BY TypedParts, DlStartTyped
<1>2. /\ todo \in Seq(Chunks) /\ todo # <<>> /\ Chained(todo)
      /\ todo[1].first = r.start /\ todo[Len(todo)].last = r.end
      /\ \A i \in 1..Len(todo) : todo[i].first <= todo[i].last /\ todo[i].last <= r.end
  BY RequestType, PlanCoversRequest
<1> HIDE DEF todo
<1>3. DOMAIN todo = 1..Len(todo) /\ r.start \in Nat
  BY <1>2, RequestType
<1>4. Done(r)' = r.start - 1
  BY <1>1, <1>2 DEF Done
<1>5. ChunksLeft(r)'
  BY <1>1, <1>2, <1>3, <1>4 DEF ChunksLeft
<1>6. AllFirsts(<<>>) = {}
  BY DEF AllFirsts, IsFirst
<1>7. Firsts(Market, r.start, r.start - 1) = {}
  <2>1. r.start..(r.start - 1) = {}
    BY <1>3
  <2> QED
    BY <2>1 DEF Firsts
<1>8. FetchedSoFar(r)'
  <2>1. AllFirsts(dl'.raw) = Firsts(Market, r.start, Done(r)')
    BY <1>1, <1>4, <1>6, <1>7
  <2>2. DOMAIN dl'.raw = {}
    BY <1>1
  <2> QED
    BY <2>1, <2>2 DEF FetchedSoFar
<1>9. UNCHANGED file
  BY DEF StartDownload
<1>10. \A q : dl'.asked = {q} => q = r
  BY <1>1
<1> QED
  BY <1>1, <1>5, <1>8, <1>9, <1>10 DEF CsvInv

LEMMA FetchedKeeps ==
  ASSUME Typed, CsvInv, Fetched
  PROVE  CsvInv'
<1>0. DlTyped /\ UNCHANGED file
  BY TypedParts DEF Fetched
<1>1. CASE dl' = Resting
  BY <1>0, <1>1, RestingTyped DEF CsvInv
<1>2. CASE /\ dl'.at = "open" /\ dl'.asked = dl.asked /\ dl'.failed = dl.failed
           /\ dl'.raw = Normalize(dl.raw)
           /\ \A r \in Requests : dl.asked = {r} => dl.failed = {} \/ r.partial
  <2>1. ASSUME NEW r \in Requests, dl.asked = {r}, ~r.partial PROVE Genuine(dl'.raw, r)
    <3>1. dl.failed = {} /\ dl.at = "fetch" /\ dl.todo = <<>> /\ dl.raw \in Seq(Rows)
      BY <1>0, <1>2, <2>1, FetchedCases, DlFields
    <3>2. AllFirsts(dl.raw) = Firsts(Market, r.start, r.end)
      BY <2>1, <3>1 DEF CsvInv, FetchedSoFar, Done
    <3> DEFINE rows == Normalize(dl.raw)
    <3>3. /\ rows \in Seq(Rows) /\ Range(rows) = AllFirsts(dl.raw)
          /\ \A j, k \in 1..Len(rows) : j < k <=> rows[j].t < rows[k].t
      BY <3>1, NormalizeOf
    <3> HIDE DEF rows
    <3>4. ASSUME NEW i \in 2..Len(rows) PROVE rows[i - 1].t < rows[i].t
      <4>1. Len(rows) \in Nat /\ i - 1 \in 1..Len(rows) /\ i \in 1..Len(rows) /\ i - 1 < i
        BY <3>3, <3>4
      <4> QED
        BY <3>3, <4>1
    <3> QED
      BY <1>2, <3>2, <3>3, <3>4 DEF Genuine, rows
  <2> QED
    BY <1>0, <1>2, <2>1 DEF CsvInv
<1> QED
  BY <1>0, <1>1, <1>2, FetchedCases

LEMMA WritesCsv ==
  ASSUME Typed, CsvInv, OpenFile \/ WriteDataset
  PROVE  CsvInv'
<1>0. DlTyped /\ FileTyped
  BY TypedParts
<1>1. /\ dl'.asked = dl.asked /\ dl'.raw = dl.raw /\ file'.asked = dl.asked
      /\ \/ dl.at = "open" /\ dl'.at = "write" /\ file'.whole = FALSE
         \/ dl.at = "write" /\ dl'.at = "meta" /\ file'.whole = TRUE /\ file'.rows = dl.raw
  BY <1>0, WriteCases
<1>2. PICK q \in Requests : dl.asked = {q}
  BY <1>0, <1>1 DEF DlTyped
<1>3. ~q.partial => Genuine(dl.raw, q)
  BY <1>1, <1>2 DEF CsvInv
<1>4. \A r : dl.asked = {r} => r = q
  BY <1>2
<1>5. file'.asked = {q} /\ \A r \in file'.asked : r = q
  BY <1>1, <1>2
<1> QED
  BY <1>1, <1>2, <1>3, <1>4, <1>5 DEF CsvInv

LEMMA CsvNext ==
  ASSUME Typed, CsvInv, [Next]_vars
  PROVE  CsvInv'
<1>1. CASE UNCHANGED <<file, dl>>
  BY <1>1 DEF CsvInv, ChunksLeft, FetchedSoFar, Done
<1>2. CASE dl' = Resting /\ UNCHANGED file
  BY <1>2, RestingTyped DEF CsvInv
<1>3. CASE DownloadStep
  <2>1. CASE WriteMetadata
    BY <1>2, <2>1 DEF WriteMetadata
  <2> QED
    BY <1>3, <2>1, AnswerKeeps, FetchedKeeps, WritesCsv DEF DownloadStep
<1>4. ASSUME NEW p \in Loaders, NEW o \in LoadOptions, StartLoad(p, o) PROVE CsvInv'
  BY <1>1, <1>4 DEF StartLoad
<1>5. ASSUME NEW p \in Loaders, LoadStep(p) PROVE CsvInv'
  BY <1>1, <1>5 DEF LoadStep, Hash, Read, Find, Insert, FindAgain, Rehash
<1>6. CASE Kill
  BY <1>1, <1>2, <1>6 DEF Kill
<1>7. CASE RunCsv \/ (\E a \in DbRuns : RunDb(a)) \/ (\E source \in Sources : Gate(source))
  <2>1. UNCHANGED <<file, dl>>
    BY <1>7, ReportStep
  <2> QED
    BY <1>1, <2>1
<1>8. CASE UNCHANGED vars
  BY <1>1, <1>8 DEF vars
<1> QED
  BY <1>3, <1>4, <1>5, <1>6, <1>7, <1>8, StartsCsv DEF Next

LEMMA CsvOfInv ==
  ASSUME Typed, CsvInv
  PROVE  CsvIsMarket
<1> SUFFICES ASSUME NEW r \in file.asked, file.whole, ~r.partial
             PROVE  LET valid == Where(Market, LAMBDA b : ValidCandle(b) /\ Day(b.t) \in r.start..r.end)
                        first == {i \in valid : \A j \in valid : Market[j].t = Market[i].t => i <= j}
                    IN  /\ Range(file.rows) = {Market[i] : i \in first}
                        /\ \A i \in 2..Len(file.rows) : file.rows[i - 1].t < file.rows[i].t
  BY DEF CsvIsMarket
<1> DEFINE valid == Where(Market, LAMBDA b : ValidCandle(b) /\ Day(b.t) \in r.start..r.end)
           first == {i \in valid : \A j \in valid : Market[j].t = Market[i].t => i <= j}
<1>1. Genuine(file.rows, r)
  BY DEF CsvInv
<1>2. valid = {i \in DOMAIN Market : ValidCandle(Market[i]) /\ Day(Market[i].t) \in r.start..r.end}
  BY DEF Where
<1>3. first = {i \in DOMAIN Market : IsFirst(Market, i) /\ Day(Market[i].t) \in r.start..r.end}
  BY <1>2 DEF IsFirst
<1>4. Firsts(Market, r.start, r.end) = {Market[i] : i \in first}
  BY <1>3 DEF Firsts
<1> HIDE DEF first, valid
<1> QED
  BY <1>1, <1>4 DEF Genuine, first, valid

\* A dataset that is written wholly and without --allow-partial is the
\* broker's, whatever was split into chunks, retried, garbled or refused and
\* whatever download was killed before.
THEOREM DatasetIsTheMarkets == Spec => []CsvIsMarket
<1>1. Init => CsvInv
  <2> SUFFICES ASSUME Init PROVE CsvInv
    OBVIOUS
  <2>1. file.asked = {} /\ dl.at = "off"
    BY RestingTyped DEF Init, NoFile, External
  <2> QED
    BY <2>1 DEF CsvInv
<1>2. Typed /\ CsvInv /\ [Next]_vars => CsvInv'
  BY CsvNext
<1>3. Typed /\ CsvInv => CsvIsMarket
  BY CsvOfInv
<1> QED
  BY <1>1, <1>2, <1>3, AlwaysTyped, PTL DEF Spec

-------------------------------------------------------------------------------
(* Frames.                                                                     *)

\* A finite set of numbers has a first and a last member.
LEMMA EndsOf ==
  ASSUME NEW S, IsFiniteSet(S), S \subseteq Int, S # {}
  PROVE  (\E m \in S : \A x \in S : m <= x) /\ (\E m \in S : \A x \in S : x <= m)
<1> DEFINE e == Ordered(S, <)
<1>1. /\ e \in Seq(S) /\ \A j, k \in 1..Len(e) : j < k <=> e[j] < e[k]
      /\ \A x \in S : \E k \in 1..Len(e) : e[k] = x
  BY OrderedNumbers
<1> HIDE DEF e
<1>1a. PICK y \in S : TRUE
  OBVIOUS
<1>1b. PICK i \in 1..Len(e) : e[i] = y
  BY <1>1, <1>1a
<1>1c. Len(e) \in Nat /\ Len(e) >= 1 /\ \A k \in 1..Len(e) : e[k] \in S
  BY <1>1, <1>1b
<1>2. Len(e) \in Nat /\ Len(e) >= 1 /\ \A k \in 1..Len(e) : e[k] \in S /\ e[k] \in Int
  BY <1>1c, Zenon
<1>3. 1 \in 1..Len(e) /\ Len(e) \in 1..Len(e)
  BY <1>2
<1>4. ASSUME NEW k \in 1..Len(e) PROVE e[1] <= e[k] /\ e[k] <= e[Len(e)]
  <2>1. (k = 1 \/ 1 < k) /\ (k = Len(e) \/ k < Len(e))
    BY <1>2
  <2> QED
    BY <1>1, <1>2, <1>3, <2>1
<1>5. e[1] \in S /\ e[Len(e)] \in S
  BY <1>2, <1>3
<1>6. \A x \in S : e[1] <= x /\ x <= e[Len(e)]
  BY <1>1, <1>4, Zenon
<1> QED
  BY <1>5, <1>6

\* Rows in order of time.
Timely(bars) == \A i \in 2..Len(bars) : bars[i - 1].t < bars[i].t

\* Rows in order of time, none of them further from the one before it than the
\* data may have holes.
Whole(frame) ==
  \A i \in 2..Len(frame) : /\ frame[i - 1].t < frame[i].t
                           /\ Day(frame[i].t) - Day(frame[i - 1].t) <= MaxGapDays

\* The reader's frames hold every bar and bridge no hole.
LEMMA FramesOf ==
  ASSUME NEW bars \in Seq(Rows), \A j, k \in 1..Len(bars) : j < k <=> bars[j].t < bars[k].t
  PROVE  LET frames == ContiguousSegments(bars)
         IN  /\ frames \in Seq(Seq(Rows))
             /\ UNION {Range(frames[k]) : k \in DOMAIN frames} = Range(bars)
             /\ \A k \in DOMAIN frames :
                   /\ frames[k] # <<>> /\ Whole(frames[k])
                   /\ \A b \in Range(frames[k]) : b \in Rows /\ b.t <= Last(frames[k]).t
<1> DEFINE n == Len(bars)
           breaks == {i \in 2..Len(bars) : Day(bars[i].t) - Day(bars[i - 1].t) > MaxGapDays}
           S == IF bars = <<>> THEN {} ELSE {1} \cup breaks
           starts == Ordered(S, <)
           end(k) == IF k = Len(starts) THEN n ELSE starts[k + 1] - 1
           frames == ContiguousSegments(bars)
<1>1. n \in Nat /\ DOMAIN bars = 1..n /\ MaxGapDays \in Nat
  BY DatasetAssumption
<1>2. /\ S \subseteq 1..n /\ (n > 0 => 1 \in S)
      /\ \A i \in 2..n : i \notin S => ~(Day(bars[i].t) - Day(bars[i - 1].t) > MaxGapDays)
  BY <1>1
<1>3. frames = [k \in DOMAIN starts |-> SubSeq(bars, starts[k], end(k))]
  BY DEF ContiguousSegments
<1> HIDE DEF S, frames
<1>4. IsFiniteSet(S) /\ S \subseteq Int
  <2>1. IsFiniteSet(1..n) /\ S \in SUBSET (1..n)
    BY <1>1, <1>2, FS_Interval
  <2>2. IsFiniteSet(S)
    BY <2>1, FS_Subset
  <2>3. 1..n \subseteq Int
    BY <1>1
  <2> QED
    BY <2>1, <2>2, <2>3
<1>5. /\ starts \in Seq(S) /\ \A j, k \in 1..Len(starts) : j < k <=> starts[j] < starts[k]
      /\ \A x \in S : \E k \in 1..Len(starts) : starts[k] = x
  BY <1>4, OrderedNumbers
<1> HIDE DEF starts
<1>6. /\ Len(starts) \in Nat /\ DOMAIN starts = 1..Len(starts)
      /\ \A k \in 1..Len(starts) : starts[k] \in S /\ starts[k] \in 1..n
  <2>1. /\ Len(starts) \in Nat /\ DOMAIN starts = 1..Len(starts)
        /\ \A k \in 1..Len(starts) : starts[k] \in S
    BY <1>5
  <2> QED
    BY <1>2, <2>1, Zenon
<1>6a. PICK L \in Nat : L = Len(starts)
  BY <1>6
<1>6b. \A k \in 1..L : starts[k] \in 1..n /\ starts[k] \in Int
  BY <1>1, <1>6, <1>6a
<1>6c. \A j, k \in 1..L : j < k <=> starts[j] < starts[k]
  BY <1>5, <1>6a
<1> HIDE DEF n
<1>7. ASSUME NEW k \in 1..L
      PROVE  /\ starts[k] \in 1..n /\ end(k) \in 1..n /\ starts[k] <= end(k)
             /\ k # L => k + 1 \in 1..L /\ starts[k] < starts[k + 1] /\ end(k) = starts[k + 1] - 1
             /\ k = L => end(k) = n
  <2>1. CASE k = L
    BY <1>1, <1>6a, <1>6b, <2>1
  <2>2. CASE k # L
    <3>1. k + 1 \in 1..L /\ k < k + 1
      BY <2>2
    <3>2. starts[k + 1] \in 1..n /\ starts[k] \in 1..n
      BY <1>6b, <3>1
    <3>3. starts[k] < starts[k + 1]
      BY <1>6c, <3>1
    <3>4. end(k) = starts[k + 1] - 1
      BY <1>6a, <2>2
    <3> QED
      BY <1>1, <2>2, <3>1, <3>2, <3>3, <3>4
  <2> QED
    BY <2>1, <2>2
<1>7a. ASSUME NEW k \in 1..L, NEW i \in (starts[k] + 1)..end(k) PROVE i \notin S
  <2> SUFFICES ASSUME i \in S PROVE FALSE
    OBVIOUS
  <2>1. PICK m \in 1..L : starts[m] = i
    BY <1>5, <1>6a
  <2>2. starts[k] < starts[m] /\ starts[m] <= end(k) /\ starts[m] \in 1..n
    BY <1>1, <1>6b, <1>7, <1>7a, <2>1
  <2>3. k < m
    BY <1>6c, <2>2
  <2>4. k + 1 \in 1..L /\ end(k) = starts[k + 1] - 1 /\ starts[k + 1] \in 1..n
    BY <1>6b, <1>7, <2>3
  <2>5. starts[m] < starts[k + 1]
    BY <1>1, <2>2, <2>4
  <2>6. m < k + 1
    BY <1>6c, <2>4, <2>5
  <2> QED
    BY <2>3, <2>6
<1> HIDE DEF end
<1>8. ASSUME NEW k \in 1..L
      PROVE  /\ frames[k] \in Seq(Rows) /\ Len(frames[k]) = end(k) - starts[k] + 1
             /\ \A i \in 1..Len(frames[k]) : frames[k][i] = bars[starts[k] + i - 1] /\ starts[k] + i - 1 \in 1..n
  <2>1. starts[k] \in Int /\ end(k) \in Int /\ starts[k] <= end(k) /\ \A i \in starts[k]..end(k) : i \in 1..n /\ bars[i] \in Rows
    <3>1. \A i \in 1..n : bars[i] \in Rows
      BY <1>1
    <3>2. \A i \in starts[k]..end(k) : i \in 1..n
      BY <1>1, <1>7
    <3> QED
      BY <1>1, <1>7, <3>1, <3>2
  <2>2. /\ SubSeq(bars, starts[k], end(k)) \in Seq(Rows)
        /\ Len(SubSeq(bars, starts[k], end(k))) = end(k) - starts[k] + 1
        /\ \A i \in 1..(end(k) - starts[k] + 1) : SubSeq(bars, starts[k], end(k))[i] = bars[starts[k] + i - 1]
    <3> DEFINE a == starts[k]
               z == end(k)
    <3>1. a \in Int /\ z \in Int /\ a <= z /\ \A i \in a..z : bars[i] \in Rows
      BY <2>1
    <3> HIDE DEF a, z
    <3>2. /\ SubSeq(bars, a, z) \in Seq(Rows)
          /\ Len(SubSeq(bars, a, z)) = IF a <= z THEN z - a + 1 ELSE 0
          /\ \A i \in 1..(z - a + 1) : SubSeq(bars, a, z)[i] = bars[a + i - 1]
      BY <3>1, SubSeqProperties
    <3>3. Len(SubSeq(bars, a, z)) = z - a + 1
      BY <3>1, <3>2
    <3> QED
      BY <3>2, <3>3 DEF a, z
  <2>3. frames[k] = SubSeq(bars, starts[k], end(k))
    BY <1>3, <1>6, <1>6a
  <2>4. \A i \in 1..(end(k) - starts[k] + 1) : starts[k] + i - 1 \in starts[k]..end(k)
    BY <2>1
  <2> QED
    BY <2>1, <2>2, <2>3, <2>4
<1>9. frames \in Seq(Seq(Rows)) /\ DOMAIN frames = 1..L
  <2>1. frames \in [1..L -> Seq(Rows)]
    BY <1>3, <1>6, <1>6a, <1>8
  <2> QED
    BY <2>1
<1>10. ASSUME NEW k \in 1..L
       PROVE  /\ frames[k] # <<>> /\ Whole(frames[k])
              /\ \A b \in Range(frames[k]) : b \in Rows /\ b.t <= Last(frames[k]).t
  <2> DEFINE f == frames[k]
             s == starts[k]
             m == Len(frames[k])
  <2>1. /\ f \in Seq(Rows) /\ m = Len(f) /\ m = end(k) - s + 1 /\ s \in 1..n /\ end(k) \in 1..n /\ s <= end(k)
        /\ \A i \in 1..m : f[i] = bars[s + i - 1] /\ s + i - 1 \in 1..n
        /\ \A i \in (s + 1)..end(k) : i \notin S
    BY <1>7, <1>7a, <1>8
  <2> HIDE DEF f, s, m
  <2>2. m \in Nat /\ m >= 1 /\ s \in Nat /\ f # <<>> /\ DOMAIN f = 1..m /\ \A i \in 1..m : f[i] \in Rows
    <3>1. end(k) \in Nat /\ s \in Nat
      BY <1>1, <2>1
    <3>2. m \in Nat /\ m >= 1
      BY <2>1, <3>1
    <3>3. f \in Seq(Rows) /\ m = Len(f)
      BY <2>1
    <3>4. DOMAIN f = 1..m /\ \A i \in 1..m : f[i] \in Rows
      BY <3>3
    <3>5. f # <<>>
      BY <3>2, <3>3
    <3> QED
      BY <3>1, <3>2, <3>4, <3>5
  <2>3. ASSUME NEW i \in 2..m
        PROVE  f[i - 1].t < f[i].t /\ Day(f[i].t) - Day(f[i - 1].t) <= MaxGapDays
    <3>1. i - 1 \in 1..m /\ i \in 1..m /\ s + (i - 1) - 1 = (s + i - 1) - 1
      BY <2>2
    <3>2. f[i] = bars[s + i - 1] /\ f[i - 1] = bars[(s + i - 1) - 1] /\ s + i - 1 \in 1..n /\ (s + i - 1) - 1 \in 1..n
      BY <2>1, <3>1
    <3>3. s + i - 1 \in 2..n /\ s + i - 1 \notin S
      BY <1>1, <2>1, <2>2, <3>2
    <3>4. ~(Day(f[i].t) - Day(f[i - 1].t) > MaxGapDays)
      BY <1>2, <3>2, <3>3
    <3>5. Day(f[i].t) \in Int /\ Day(f[i - 1].t) \in Int
      BY <2>2, <3>1, DayOf
    <3>6. f[i - 1].t < f[i].t
      BY <1>1, <3>2
    <3> QED
      BY <1>1, <3>4, <3>5, <3>6
  <2>4. ASSUME NEW i \in 1..m PROVE f[i].t <= f[m].t
    <3>1. f[i] = bars[s + i - 1] /\ f[m] = bars[s + m - 1] /\ s + i - 1 \in 1..n /\ s + m - 1 \in 1..n
      BY <2>1, <2>2
    <3>2. i = m \/ s + i - 1 < s + m - 1
      BY <2>2
    <3>3. f[i].t \in Nat /\ f[m].t \in Nat
      BY <2>2, RowTypes
    <3>4. CASE i = m
      BY <3>3, <3>4
    <3>5. CASE s + i - 1 < s + m - 1
      <4>1. bars[s + i - 1].t < bars[s + m - 1].t
        BY <1>1, <3>1, <3>5
      <4> QED
        BY <3>1, <3>3, <4>1
    <3> QED
      BY <3>2, <3>4, <3>5
  <2>5. Last(f) = f[m]
    BY <2>1 DEF Last
  <2>6. \A b \in Range(f) : b \in Rows /\ b.t <= Last(f).t
    BY <2>2, <2>4, <2>5 DEF Range
  <2> QED
    BY <2>1, <2>2, <2>3, <2>6 DEF Whole, f
<1>11. \A k \in 1..L : Range(frames[k]) \subseteq Range(bars)
  <2> TAKE k \in 1..L
  <2>1. DOMAIN frames[k] = 1..Len(frames[k])
    BY <1>8
  <2>2. ASSUME NEW i \in DOMAIN frames[k] PROVE \E j \in DOMAIN bars : frames[k][i] = bars[j]
    <3>1. frames[k][i] = bars[starts[k] + i - 1] /\ starts[k] + i - 1 \in 1..n
      BY <1>8, <2>1
    <3> QED
      BY <1>1, <3>1
  <2> QED
    BY <2>2 DEF Range
<1>12. ASSUME NEW i \in 1..n PROVE \E k \in 1..L : bars[i] \in Range(frames[k])
  <2> DEFINE T == {x \in S : x <= i}
  <2>1. T \subseteq S /\ 1 \in T /\ IsFiniteSet(T)
    BY <1>1, <1>2, <1>4, FS_Subset
  <2>2. PICK m \in T : \A x \in T : x <= m
    BY <1>4, <2>1, EndsOf
  <2>3. PICK k \in 1..L : starts[k] = m
    BY <1>5, <1>6a, <2>1, <2>2
  <2>4. starts[k] <= i /\ i <= end(k)
    <3>1. starts[k] <= i
      BY <2>2, <2>3
    <3>2. CASE k = L
      BY <1>7, <3>1, <3>2
    <3>3. CASE k # L
      <4>1. k + 1 \in 1..L /\ starts[k] < starts[k + 1] /\ end(k) = starts[k + 1] - 1
        BY <1>7, <3>3
      <4>2. starts[k + 1] \in S /\ starts[k + 1] \in 1..n
        BY <1>6, <1>6a, <4>1
      <4>3. starts[k + 1] <= i => starts[k + 1] <= starts[k]
        BY <2>2, <2>3, <4>2
      <4> QED
        BY <1>1, <1>6b, <3>1, <4>1, <4>2, <4>3
    <3> QED
      BY <3>2, <3>3
  <2>5. i - starts[k] + 1 \in 1..Len(frames[k]) /\ starts[k] + (i - starts[k] + 1) - 1 = i
    BY <1>7, <1>8, <2>4
  <2>6. frames[k][i - starts[k] + 1] = bars[i]
    BY <1>8, <2>5
  <2>7. i - starts[k] + 1 \in DOMAIN frames[k]
    BY <1>8, <2>5
  <2> QED
    BY <2>6, <2>7 DEF Range
<1>13. UNION {Range(frames[k]) : k \in DOMAIN frames} = Range(bars)
  <2>1. \A k \in DOMAIN frames : Range(frames[k]) \subseteq Range(bars)
    BY <1>9, <1>11
  <2>2. ASSUME NEW b \in Range(bars) PROVE \E k \in DOMAIN frames : b \in Range(frames[k])
    <3>1. PICK i \in 1..n : b = bars[i]
      BY <1>1, <2>2 DEF Range
    <3> QED
      BY <1>9, <1>12, <3>1
  <2> QED
    BY <2>1, <2>2
<1> QED
  BY <1>9, <1>10, <1>13 DEF frames

\* The rows of one load's candles, as a set.
LEMMA CandleSet ==
  ASSUME NEW x \in LoadSet
  PROVE  /\ IsFiniteSet(Range(x.candles)) /\ Range(x.candles) \subseteq Rows
         /\ \A a, b \in Range(x.candles) : a.t = b.t => a = b
<1> DEFINE c == x.candles
           S == DOMAIN c
           R == {c[i] : i \in S}
<1>1. /\ c \in Seq(Rows) /\ \A j, k \in 1..Len(c) : j < k <=> c[j].t < c[k].t
  BY LoadSetFields
<1> HIDE DEF c
<1>2. ASSUME NEW i \in S, NEW j \in S, c[i].t = c[j].t PROVE i = j
  <2>1. i \in 1..Len(c) /\ j \in 1..Len(c) /\ Len(c) \in Nat /\ c[i] \in Rows /\ c[j] \in Rows
    BY <1>1
  <2>2. c[i].t \in Nat
    BY <2>1, RowTypes
  <2>3. ~(i < j) /\ ~(j < i)
    BY <1>1, <1>2, <2>1, <2>2
  <2> QED
    BY <2>1, <2>3
<1>3. IsFiniteSet(R) /\ R \subseteq Rows /\ \A a, b \in R : a.t = b.t => a = b
  BY <1>1, <1>2, RowsAt
<1>4. Range(c) = R
  BY DEF Range
<1> QED
  BY <1>3, <1>4 DEF c

LEMMA SourceRows ==
  ASSUME LoadInv, NEW source
  PROVE  OfSource(loads, source) \subseteq Rows
<1>1. \A k \in DOMAIN loads : loads[k] \in LoadSet
  BY DEF LoadInv
<1>2. \A k \in DOMAIN loads : Range(loads[k].candles) \subseteq Rows
  BY <1>1, CandleSet
<1> QED
  BY <1>2 DEF OfSource

\* All candles of a source and a period, in order of time.
Reads(bars, source, start, end) ==
  /\ bars \in Seq(Rows) /\ \A j, k \in 1..Len(bars) : j < k <=> bars[j].t < bars[k].t
  /\ Range(bars) = {b \in OfSource(loads, source) : start <= b.t /\ (end = None \/ b.t <= end)}

LEMMA ReadOf ==
  ASSUME LoadInv, NEW source, NEW start \in Nat, NEW end \in Nat
  PROVE  Reads(ReadCandles(loads, source, start, end), source, start, end)
<1> DEFINE all == OfSource(loads, source)
           S == {b \in all : start <= b.t /\ (end = None \/ b.t <= end)}
           bars == ReadCandles(loads, source, start, end)
<1>1. IsFiniteSet(all) /\ all \subseteq Rows /\ \A a, b \in all : a.t = b.t => a = b
  <2>1. CASE all = {}
    BY <2>1, FS_EmptySet
  <2>2. ASSUME NEW b \in all PROVE IsFiniteSet(all) /\ all \subseteq Rows /\ \A x, y \in all : x.t = y.t => x = y
    <3>1. PICK j \in DOMAIN loads : loads[j].source = source /\ b \in Range(loads[j].candles)
      BY <2>2 DEF OfSource
    <3>2. ASSUME NEW k \in DOMAIN loads, loads[k].source = source, NEW y \in Range(loads[k].candles) PROVE k = j
      <4>1. loads[k].candles # <<>> /\ loads[j].candles # <<>>
        BY <3>1, <3>2 DEF Range
      <4> QED
        BY <3>1, <3>2, <4>1 DEF LoadInv, SourceOnce
    <3>3. all = Range(loads[j].candles)
      BY <3>1, <3>2 DEF OfSource
    <3>4. loads[j] \in LoadSet
      BY DEF LoadInv
    <3> HIDE DEF all
    <3> QED
      BY <3>3, <3>4, CandleSet
  <2> QED
    BY <2>1, <2>2
<1> HIDE DEF all
<1>2. IsFiniteSet(S) /\ S \subseteq Rows /\ \A a, b \in S : a.t = b.t => a = b
  BY <1>1, FS_Subset
<1>3. bars = ByTime(S)
  BY DEF ReadCandles, all
<1> HIDE DEF S, bars
<1>4. /\ bars \in Seq(S) /\ \A j, k \in 1..Len(bars) : j < k <=> bars[j].t < bars[k].t
      /\ \A x \in S : \E k \in 1..Len(bars) : bars[k] = x
  BY <1>2, <1>3, InOrderOfTime
<1>5. bars \in Seq(Rows)
  BY <1>2, <1>4
<1>6. Range(bars) = S
  BY <1>4 DEF Range
<1> QED
  BY <1>4, <1>5, <1>6 DEF S, bars, all, Reads

\* The research end is the last time before the holdout's first day.
LEMMA EndOfResearch ==
  ASSUME NEW b \in Rows, NEW h \in Nat
  PROVE  b.t <= ResearchEnd(h) <=> Day(b.t) < h
<1>1. PICK t \in Nat, s \in Nat \ {0} : t = b.t /\ s = SlotsPerDay
  BY RowTypes, ReplayAssumption
<1>2. PICK q \in Int : q = (t - 1) \div s /\ s * q <= t - 1 /\ t - 1 < s * q + s
  BY Division
<1>3. Day(b.t) = q + 1
  BY <1>1, <1>2 DEF Day
<1>4. PICK e \in Int : e = s * (h - 1) /\ ResearchEnd(h) = e
  <2>1. ResearchEnd(h) = (h - 1) * s
    BY <1>1 DEF ResearchEnd
  <2>2. (h - 1) * s = s * (h - 1) /\ s * (h - 1) \in Int
    OBVIOUS
  <2> QED
    BY <2>1, <2>2
<1>5. CASE q + 1 < h
  <2>1. s * (q + 1) <= e
    BY <1>4, <1>5, MonotoneProduct
  <2>2. s * (q + 1) = s * q + s /\ s * q \in Int
    OBVIOUS
  <2>3. t <= e
    BY <1>2, <2>1, <2>2
  <2> QED
    BY <1>1, <1>3, <1>4, <1>5, <2>3
<1>6. CASE ~(q + 1 < h)
  <2>1. h - 1 <= q
    BY <1>6
  <2>2. e <= s * q /\ s * q \in Int
    BY <1>4, <2>1, MonotoneProduct
  <2>3. ~(t <= e)
    BY <1>2, <2>2
  <2> QED
    BY <1>1, <1>3, <1>4, <1>6, <2>3
<1> QED
  BY <1>5, <1>6

\* The frames of one source and period.
FramesRead(frames, source, start, end) ==
  /\ frames \in Seq(Seq(Rows))
  /\ UNION {Range(frames[k]) : k \in DOMAIN frames}
        = {b \in OfSource(loads, source) : start <= b.t /\ (end = None \/ b.t <= end)}
  /\ \A k \in DOMAIN frames :
        /\ frames[k] # <<>> /\ Whole(frames[k])
        /\ \A b \in Range(frames[k]) : b \in Rows /\ b.t <= Last(frames[k]).t

LEMMA FramesOfRead ==
  ASSUME LoadInv, NEW source, NEW start \in Nat, NEW end \in Nat
  PROVE  FramesRead(ContiguousSegments(ReadCandles(loads, source, start, end)), source, start, end)
<1> DEFINE bars == ReadCandles(loads, source, start, end)
<1>0. Reads(bars, source, start, end)
  BY ReadOf
<1> HIDE DEF bars
<1>1. /\ bars \in Seq(Rows) /\ \A j, k \in 1..Len(bars) : j < k <=> bars[j].t < bars[k].t
      /\ Range(bars) = {b \in OfSource(loads, source) : start <= b.t /\ (end = None \/ b.t <= end)}
  BY <1>0 DEF Reads
<1>2. LET frames == ContiguousSegments(bars)
      IN  /\ frames \in Seq(Seq(Rows))
          /\ UNION {Range(frames[k]) : k \in DOMAIN frames} = Range(bars)
          /\ \A k \in DOMAIN frames :
                /\ frames[k] # <<>> /\ Whole(frames[k])
                /\ \A b \in Range(frames[k]) : b \in Rows /\ b.t <= Last(frames[k]).t
  BY <1>1, FramesOf
<1> QED
  BY <1>1, <1>2 DEF FramesRead, bars

\* A report of these frames.
SeesItsData(stored, by, asked, frames) ==
  LET bars == UNION {Range(frames[k]) : k \in DOMAIN frames}
      held(a) == a.holdout # None => \A b \in bars : Day(b.t) < a.holdout
      all(a) == \A b \in OfSource(stored, a.source) :
                  /\ a.start <= b.t /\ (a.end # None => b.t <= a.end)
                  /\ a.holdout # None => Day(b.t) < a.holdout
                  => b \in bars
  IN  /\ \A a \in asked : held(a) /\ all(a)
      /\ by = "gate" => \A b \in bars : Day(b.t) < HoldoutStart
      /\ \A k \in DOMAIN frames : Whole(frames[k])

LEMMA SeesItsDataIs ==
  /\ ResearchSeesItsData <=>
       (report.by \in {"db", "gate"} /\ report.runs # <<>> =>
          SeesItsData(loads, report.by, report.asked, [k \in DOMAIN report.runs |-> report.runs[k].bars]))
  /\ ResearchSeesItsData' <=>
       (report'.by \in {"db", "gate"} /\ report'.runs # <<>> =>
          SeesItsData(loads', report'.by, report'.asked, [k \in DOMAIN report'.runs |-> report'.runs[k].bars]))
BY DEF ResearchSeesItsData, SeesItsData, Whole

LEMMA EndIsNat ==
  ASSUME NEW a \in DbRuns
  PROVE  /\ a.start \in Nat /\ a.end \in Nat /\ a.holdout \in Nat
         /\ a.holdout # None => ResearchEnd(a.holdout) \in Nat
         /\ (IF a.holdout # None /\ a.end = None THEN ResearchEnd(a.holdout) ELSE a.end) \in Nat
<1>1. a.start \in Nat /\ a.end \in Nat /\ a.holdout \in Nat
  BY ResearchAssumption
<1>2. ASSUME a.holdout # None PROVE ResearchEnd(a.holdout) \in Nat
  <2>1. SlotsPerDay \in Nat
    BY ReplayAssumption
  <2>2. a.holdout - 1 \in Nat
    BY <1>1, <1>2 DEF None
  <2>3. \A n \in Nat : n * SlotsPerDay \in Nat
    BY <2>1
  <2> QED
    BY <2>2, <2>3 DEF ResearchEnd
<1> QED
  BY <1>1, <1>2

LEMMA RunDbSees ==
  ASSUME LoadInv, NEW a \in DbRuns, NEW frames,
         LET last == ResearchEnd(a.holdout)
             held == a.holdout # None
             end == IF held /\ a.end = None THEN last ELSE a.end
         IN  /\ frames = ContiguousSegments(ReadCandles(loads, a.source, a.start, end))
             /\ ~(held /\ (a.start > last \/ a.end > last))
             /\ ~(held /\ \E k \in DOMAIN frames : Last(frames[k]).t > last)
  PROVE  SeesItsData(loads, "db", {a}, frames)
<1> DEFINE last == ResearchEnd(a.holdout)
           held == a.holdout # None
           end == IF held /\ a.end = None THEN last ELSE a.end
           bars == UNION {Range(frames[k]) : k \in DOMAIN frames}
<1>1. a.start \in Nat /\ a.end \in Nat /\ a.holdout \in Nat /\ (held => last \in Nat) /\ end \in Nat
  BY EndIsNat
<1>4. /\ frames = ContiguousSegments(ReadCandles(loads, a.source, a.start, end))
      /\ held => ~(\E k \in DOMAIN frames : Last(frames[k]).t > last)
  OBVIOUS
<1>5. FramesRead(frames, a.source, a.start, end)
  BY <1>1, <1>4, FramesOfRead
<1>6. /\ bars = {b \in OfSource(loads, a.source) : a.start <= b.t /\ (end = None \/ b.t <= end)}
      /\ \A k \in DOMAIN frames : Whole(frames[k]) /\ frames[k] # <<>> /\ frames[k] \in Seq(Rows)
      /\ \A k \in DOMAIN frames : \A b \in Range(frames[k]) : b \in Rows /\ b.t <= Last(frames[k]).t
  BY <1>5 DEF FramesRead
<1> HIDE DEF last, end
<1>7. ASSUME held, NEW k \in DOMAIN frames, NEW b \in Range(frames[k]) PROVE Day(b.t) < a.holdout
  <2>1. b \in Rows /\ b.t <= Last(frames[k]).t
    BY <1>6, <1>7
  <2>2. Last(frames[k]) \in Rows
    <3> DEFINE f == frames[k]
    <3>1. f \in Seq(Rows) /\ f # <<>>
      BY <1>6, <1>7
    <3> HIDE DEF f
    <3>2. f[Len(f)] \in Rows
      BY <3>1
    <3> QED
      BY <3>2 DEF Last, f
  <2>3. b.t \in Nat /\ Last(frames[k]).t \in Nat
    BY <2>1, <2>2, RowTypes
  <2>4. ~(Last(frames[k]).t > last)
    BY <1>4, <1>7
  <2>5. b.t <= last
    BY <1>1, <1>7, <2>1, <2>3, <2>4
  <2> QED
    BY <1>1, <2>1, <2>5, EndOfResearch DEF last
<1>8. ASSUME NEW b \in OfSource(loads, a.source), a.start <= b.t, a.end # None => b.t <= a.end,
             a.holdout # None => Day(b.t) < a.holdout
      PROVE  b \in bars
  <2>1. end = None \/ b.t <= end
    <3>1. CASE held /\ a.end = None
      <4>1. b \in Rows
        BY <1>8, SourceRows
      <4>2. b.t <= last
        BY <1>1, <1>8, <3>1, <4>1, EndOfResearch DEF last
      <4> QED
        BY <3>1, <4>2 DEF end
    <3>2. CASE ~(held /\ a.end = None)
      BY <1>8, <3>2 DEF end
    <3> QED
      BY <3>1, <3>2
  <2> QED
    BY <1>6, <1>8, <2>1
<1> HIDE DEF bars
<1>9. held => \A b \in bars : Day(b.t) < a.holdout
  BY <1>7 DEF bars
<1> QED
  BY <1>6, <1>8, <1>9 DEF SeesItsData, bars

LEMMA BarsOfRun ==
  ASSUME NEW rows, NEW designs
  PROVE  RunIndex(rows, designs).bars = rows
BY DEF RunIndex

\* A report of a grid is about the frames it was made of.
LEMMA GridReport ==
  ASSUME NEW by, NEW asked, NEW frames, NEW designs, frames = [k \in DOMAIN frames |-> frames[k]]
  PROVE  LET made == Grid(by, asked, frames, designs)
         IN  /\ made.by = by /\ made.asked = asked
             /\ made.runs = <<>> \/ [k \in DOMAIN made.runs |-> made.runs[k].bars] = frames
<1> DEFINE runs == [k \in DOMAIN frames |-> RunIndex(frames[k], designs)]
           first == Made(by, asked, "raised")
           made == Grid(by, asked, frames, designs)
<1>1. /\ first.by = by /\ first.asked = asked /\ first.runs = <<>>
      /\ DOMAIN first = {"by", "asked", "outcome", "runs", "selected"}
  BY DEF Made, NoReport
<1>2. DOMAIN runs = DOMAIN frames /\ \A k \in DOMAIN frames : runs[k].bars = frames[k]
  BY BarsOfRun
<1>3. made = Finished(first, runs)
  BY GridIsFinished
<1> HIDE DEF runs, first, made
<1>4. \/ made = [first EXCEPT !.outcome = "diverged"]
      \/ made = first
      \/ made = [first EXCEPT !.outcome = "written", !.runs = runs]
  BY <1>3 DEF Finished
<1>5. made.by = by /\ made.asked = asked /\ (made.runs = <<>> \/ made.runs = runs)
  <2>1. CASE made = first
    BY <1>1, <2>1
  <2>2. CASE made = [first EXCEPT !.outcome = "diverged"]
    BY <1>1, <2>2
  <2>3. CASE made = [first EXCEPT !.outcome = "written", !.runs = runs]
    BY <1>1, <2>3
  <2> QED
    BY <1>4, <2>1, <2>2, <2>3
<1>6. [k \in DOMAIN runs |-> runs[k].bars] = frames
  <2>1. [k \in DOMAIN runs |-> runs[k].bars] = [k \in DOMAIN frames |-> frames[k]]
    BY <1>2
  <2> QED
    BY <2>1
<1>7. made.runs = runs => [k \in DOMAIN made.runs |-> made.runs[k].bars] = frames
  BY <1>6
<1> QED
  BY <1>5, <1>7 DEF made

LEMMA SequenceIsFunction ==
  ASSUME NEW T, NEW s \in Seq(T)
  PROVE  s = [k \in DOMAIN s |-> s[k]]
OBVIOUS

LEMMA RunDbStep ==
  ASSUME LoadInv, NEW a \in DbRuns, RunDb(a)
  PROVE  ResearchSeesItsData'
<1> DEFINE last == ResearchEnd(a.holdout)
           held == a.holdout # None
           end == IF held /\ a.end = None THEN last ELSE a.end
           frames == ContiguousSegments(ReadCandles(loads, a.source, a.start, end))
           leak == \E k \in DOMAIN frames : Last(frames[k]).t > last
           usage == held /\ (a.start > last \/ a.end > last)
           made == IF usage THEN Made("db", {a}, "usage")
                   ELSE IF frames = <<>> THEN Made("db", {a}, "empty")
                   ELSE IF held /\ leak THEN Made("db", {a}, "raised")
                   ELSE Grid("db", {a}, frames, a.designs)
<1>1. report' = made /\ UNCHANGED loads
  BY DEF RunDb, Reports
<1>2. ~usage /\ ~(held /\ leak) => SeesItsData(loads, "db", {a}, frames) /\ frames \in Seq(Seq(Rows))
  <2> SUFFICES ASSUME ~usage, ~(held /\ leak)
               PROVE  SeesItsData(loads, "db", {a}, frames) /\ frames \in Seq(Seq(Rows))
    OBVIOUS
  <2>1. SeesItsData(loads, "db", {a}, frames)
    BY RunDbSees
  <2>2. a.start \in Nat /\ end \in Nat
    BY EndIsNat
  <2>3. FramesRead(frames, a.source, a.start, end)
    BY <2>2, FramesOfRead
  <2> QED
    BY <2>1, <2>3 DEF FramesRead
<1> HIDE DEF frames, leak, usage, held, end, last
<1>3. \A outcome : Made("db", {a}, outcome).runs = <<>>
  BY DEF Made, NoReport
<1>4. CASE ~usage /\ ~(held /\ leak) /\ made = Grid("db", {a}, frames, a.designs)
  <2>1. frames = [k \in DOMAIN frames |-> frames[k]]
    BY <1>2, <1>4, SequenceIsFunction
  <2> DEFINE grid == Grid("db", {a}, frames, a.designs)
  <2>2. /\ grid.by = "db" /\ grid.asked = {a}
        /\ grid.runs = <<>> \/ [k \in DOMAIN grid.runs |-> grid.runs[k].bars] = frames
    BY <2>1, GridReport
  <2>3. report' = grid
    BY <1>1, <1>4
  <2> HIDE DEF grid
  <2>4. SeesItsData(loads', "db", {a}, frames)
    BY <1>1, <1>2, <1>4
  <2> QED
    BY <2>2, <2>3, <2>4, SeesItsDataIs
<1>5. CASE made # Grid("db", {a}, frames, a.designs) \/ usage \/ (held /\ leak)
  <2>1. report'.runs = <<>>
    BY <1>1, <1>3, <1>5
  <2> QED
    BY <2>1 DEF ResearchSeesItsData
<1> QED
  BY <1>4, <1>5

\* Rows of a frame are before the day its last row is before.
LEMMA FrameBefore ==
  ASSUME NEW frame \in Seq(Rows), frame # <<>>, NEW h \in Nat,
         Day(Last(frame).t) < h, NEW b \in Rows, b.t <= Last(frame).t
  PROVE  Day(b.t) < h
<1>1. Last(frame) \in Rows
  <2>1. frame[Len(frame)] \in Rows
    OBVIOUS
  <2> QED
    BY <2>1 DEF Last
<1>2. Last(frame).t <= ResearchEnd(h)
  BY <1>1, EndOfResearch
<1>3. b.t \in Nat /\ Last(frame).t \in Nat /\ ResearchEnd(h) \in Int
  <2>1. SlotsPerDay \in Nat
    BY ReplayAssumption
  <2>2. \A n \in Int : n * SlotsPerDay \in Int
    BY <2>1
  <2> QED
    BY <1>1, <2>2, RowTypes DEF ResearchEnd
<1>4. b.t <= ResearchEnd(h)
  BY <1>2, <1>3
<1> QED
  BY <1>4, EndOfResearch

LEMMA GateStep ==
  ASSUME LoadInv, NEW source \in Sources, Gate(source)
  PROVE  ResearchSeesItsData'
<1> DEFINE end == ResearchEnd(HoldoutStart)
           frames == ContiguousSegments(ReadCandles(loads, source, None, end))
           before == \A k \in DOMAIN frames : Day(Last(frames[k]).t) < HoldoutStart
           runs == [k \in DOMAIN frames |-> [bars |-> frames[k]]]
<1>1. /\ UNCHANGED loads
      /\ \/ report' = Made("gate", {}, "raised")
         \/ /\ before
            /\ \E o, x : report' = [Made("gate", {}, o) EXCEPT !.selected = x, !.runs = runs]
  BY DEF Gate, Reports
<1>2. HoldoutStart \in Nat /\ end \in Nat /\ None \in Nat
  <2>1. SlotsPerDay \in Nat /\ HoldoutStart \in Nat /\ HoldoutStart - 1 \in Nat
    BY ReplayAssumption, ResearchAssumption
  <2>2. \A n \in Nat : n * SlotsPerDay \in Nat
    BY <2>1
  <2> QED
    BY <2>1, <2>2 DEF ResearchEnd, None
<1> HIDE DEF end
<1>3. FramesRead(frames, source, None, end)
  BY <1>2, FramesOfRead
<1> HIDE DEF frames
<1>4. /\ frames \in Seq(Seq(Rows))
      /\ \A k \in DOMAIN frames :
            /\ frames[k] \in Seq(Rows) /\ frames[k] # <<>> /\ Whole(frames[k])
            /\ \A b \in Range(frames[k]) : b \in Rows /\ b.t <= Last(frames[k]).t
  BY <1>3 DEF FramesRead
<1>5. ASSUME before PROVE SeesItsData(loads, "gate", {}, frames)
  <2>1. \A k \in DOMAIN frames : \A b \in Range(frames[k]) : Day(b.t) < HoldoutStart
    BY <1>2, <1>4, <1>5, FrameBefore
  <2> QED
    BY <1>4, <2>1 DEF SeesItsData
<1>6. CASE report' = Made("gate", {}, "raised")
  <2>1. report'.runs = <<>>
    BY <1>6 DEF Made, NoReport
  <2> QED
    BY <2>1, SeesItsDataIs
<1>7. ASSUME before, NEW o, NEW x, report' = [Made("gate", {}, o) EXCEPT !.selected = x, !.runs = runs]
      PROVE  ResearchSeesItsData'
  <2>1. report'.by = "gate" /\ report'.asked = {} /\ report'.runs = runs
    BY <1>7 DEF Made, NoReport
  <2>2. [k \in DOMAIN runs |-> runs[k].bars] = frames
    <3>1. [k \in DOMAIN runs |-> runs[k].bars] = [k \in DOMAIN frames |-> frames[k]]
      OBVIOUS
    <3> QED
      BY <1>4, <3>1, SequenceIsFunction
  <2> HIDE DEF runs
  <2>3. SeesItsData(loads', report'.by, report'.asked, [k \in DOMAIN report'.runs |-> report'.runs[k].bars])
    BY <1>1, <1>5, <1>7, <2>1, <2>2
  <2> QED
    BY <2>3, SeesItsDataIs
<1> QED
  BY <1>1, <1>6, <1>7

\* Once a report is made nothing runs and nothing will be started.
LeftTyped == left \in [downloads : Nat, loads : Nat, kills : Nat]

Settled == report # NoReport => Quiet /\ left.downloads = 0 /\ left.loads = 0

SeesInv == LeftTyped /\ Settled /\ ResearchSeesItsData

LEMMA OneLess ==
  ASSUME LeftTyped
  PROVE  /\ left.downloads > 0 => [left EXCEPT !.downloads = @ - 1] \in [downloads : Nat, loads : Nat, kills : Nat]
         /\ left.loads > 0 => [left EXCEPT !.loads = @ - 1] \in [downloads : Nat, loads : Nat, kills : Nat]
         /\ left.kills > 0 => [left EXCEPT !.kills = @ - 1] \in [downloads : Nat, loads : Nat, kills : Nat]
<1>1. left \in [downloads : Nat, loads : Nat, kills : Nat]
  BY DEF LeftTyped
<1>2. \A n \in Nat : n > 0 => n - 1 \in Nat
  OBVIOUS
<1> QED
  BY <1>1, <1>2

LEMMA SeesNext ==
  ASSUME Typed, LoadInv, SeesInv, [Next]_vars
  PROVE  SeesInv'
<1>0. LeftTyped /\ Settled /\ ResearchSeesItsData /\ left.downloads \in Nat /\ left.loads \in Nat
  BY DEF SeesInv, LeftTyped
<1>1. CASE UNCHANGED <<report, loads>> /\ LeftTyped' /\ Settled'
  BY <1>0, <1>1, SeesItsDataIs DEF SeesInv
<1>2. CASE report = NoReport /\ UNCHANGED report /\ LeftTyped'
  <2>1. ResearchSeesItsData' /\ Settled'
    BY <1>2 DEF ResearchSeesItsData, NoReport, Settled
  <2> QED
    BY <1>2, <2>1 DEF SeesInv
<1>3. ASSUME NEW r \in Requests, StartDownload(r) PROVE SeesInv'
  <2>1. left.downloads > 0 /\ UNCHANGED report /\ left' = [left EXCEPT !.downloads = @ - 1]
    BY <1>3 DEF StartDownload
  <2>2. report = NoReport /\ LeftTyped'
    BY <1>0, <2>1, OneLess DEF Settled, LeftTyped
  <2> QED
    BY <1>2, <2>1, <2>2
<1>4. CASE DownloadStep
  <2>1. dl.at # "off" /\ UNCHANGED <<report, left>>
    BY <1>4 DEF DownloadStep, Answer, Fetched, OpenFile, WriteDataset, WriteMetadata
  <2>2. report = NoReport /\ LeftTyped'
    BY <1>0, <2>1 DEF Settled, Quiet, LeftTyped
  <2> QED
    BY <1>2, <2>1, <2>2
<1>5. ASSUME NEW p \in Loaders, NEW o \in LoadOptions, StartLoad(p, o) PROVE SeesInv'
  <2>1. left.loads > 0 /\ UNCHANGED report /\ left' = [left EXCEPT !.loads = @ - 1]
    BY <1>5 DEF StartLoad
  <2>2. report = NoReport /\ LeftTyped'
    BY <1>0, <2>1, OneLess DEF Settled, LeftTyped
  <2> QED
    BY <1>2, <2>1, <2>2
<1>6. ASSUME NEW p \in Loaders, LoadStep(p) PROVE SeesInv'
  <2>1. ld[p].at # "off" /\ UNCHANGED <<report, left>>
    BY <1>6 DEF LoadStep, Hash, Read, Find, Insert, FindAgain, Rehash
  <2>2. report = NoReport /\ LeftTyped'
    BY <1>0, <2>1 DEF Settled, Quiet, LeftTyped
  <2> QED
    BY <1>2, <2>1, <2>2
<1>7. CASE Kill
  <2>1. /\ left.kills > 0 /\ UNCHANGED report /\ left' = [left EXCEPT !.kills = @ - 1]
        /\ dl.at # "off" \/ \E p \in Loaders : ld[p].at # "off"
    BY <1>7 DEF Kill
  <2>2. report = NoReport /\ LeftTyped'
    BY <1>0, <2>1, OneLess DEF Settled, Quiet, LeftTyped
  <2> QED
    BY <1>2, <2>1, <2>2
<1>8. CASE RunCsv \/ (\E a \in DbRuns : RunDb(a)) \/ (\E source \in Sources : Gate(source))
  <2>1. /\ Quiet /\ left.downloads + left.loads = 0
        /\ UNCHANGED <<file, meta, dl, ld, loads, raced, left>>
    BY <1>8, ReportStep
  <2>2. LeftTyped' /\ Settled'
    <3>1. left.downloads = 0 /\ left.loads = 0
      BY <1>0, <2>1
    <3> QED
      BY <1>0, <2>1, <3>1 DEF LeftTyped, Settled, Quiet
  <2>3. CASE RunCsv
    <3>1. report' = (IF 0 \in TimesIn(file.rows) THEN Made("csv", {}, "raised")
                     ELSE Grid("csv", {}, <<file.rows>>, <<LegacyDesign>>))
      BY <2>3 DEF RunCsv, Reports
    <3>2. Made("csv", {}, "raised").by = "csv"
      BY DEF Made, NoReport
    <3> DEFINE frames == <<file.rows>>
    <3>3. frames = [k \in DOMAIN frames |-> frames[k]]
      OBVIOUS
    <3>4. Grid("csv", {}, frames, <<LegacyDesign>>).by = "csv"
      BY <3>3, GridReport
    <3>5. report'.by = "csv"
      BY <3>1, <3>2, <3>4
    <3>6. ResearchSeesItsData'
      BY <3>5, SeesItsDataIs
    <3> QED
      BY <2>2, <3>6 DEF SeesInv
  <2>4. ASSUME NEW a \in DbRuns, RunDb(a) PROVE SeesInv'
    BY <2>2, <2>4, RunDbStep DEF SeesInv
  <2>5. ASSUME NEW source \in Sources, Gate(source) PROVE SeesInv'
    BY <2>2, <2>5, GateStep DEF SeesInv
  <2> QED
    BY <1>8, <2>3, <2>4, <2>5
<1>9. CASE UNCHANGED vars
  <2>1. UNCHANGED <<report, loads, left, dl, ld>>
    BY <1>9 DEF vars
  <2> QED
    BY <1>0, <1>1, <2>1 DEF LeftTyped, Settled, Quiet
<1> QED
  BY <1>3, <1>4, <1>5, <1>6, <1>7, <1>8, <1>9 DEF Next

LEMMA SeesInit == ASSUME Init PROVE SeesInv
<1>1. report = NoReport /\ left \in Budgets \cup {NoBudget}
  BY DEF Init
<1>2. LeftTyped
  BY <1>1, ResearchAssumption DEF LeftTyped, NoBudget
<1> QED
  BY <1>1, <1>2 DEF SeesInv, Settled, ResearchSeesItsData, NoReport

\* A report made from the tables reads every candle of its source and period,
\* none of the holdout, and no frame of it bridges a hole in the data, for any
\* files loaded, any periods asked for and any gap limit.
THEOREM ReportsSeeTheirData == Spec => []ResearchSeesItsData
<1>1. Init => SeesInv
  BY SeesInit
<1>2. Typed /\ LoadInv /\ SeesInv /\ [Next]_vars => SeesInv'
  BY SeesNext
<1>3. SeesInv => ResearchSeesItsData
  BY DEF SeesInv
<1> QED
  BY <1>1, <1>2, <1>3, AlwaysTyped, AlwaysLoadInv, PTL DEF Spec

-------------------------------------------------------------------------------
(* The replay of bars.                                                         *)

Positions == [side : {-1, 0, 1}, entry : Int, sl : Int, tp : Int]
Events == [kind : {"ENTRY", "SL", "TARGET"}, t : Nat, side : {-1, 0, 1}, price : Int, level : Int]
EventSeqs == Seq(Events)
BarStates == [pos : Positions, events : EventSeqs]

\* The variant the production strategy is: what both replays agree on.
Canonical(v) ==
  v.sl \in Int /\ v.rr \in Int /\ v.adx = "off" /\ v.fill = "level" /\ v.cutoff = None /\ v.squareOff = None

LEMMA BaselineIsCanonical == Baseline \in Names /\ Canonical(Named(Baseline))
<1>1. 1 \in DOMAIN Variants /\ Variants[1].name = Baseline
  BY WalkForwardAssumption
<1>2. Baseline \in Names
  BY <1>1 DEF Names
<1>3. \E v \in Range(Variants) : v.name = Baseline
  BY <1>1 DEF Range
<1>4. Named(Baseline) \in Range(Variants) /\ Named(Baseline).name = Baseline
  BY <1>2, <1>3 DEF Named, ByName
<1>5. PICK i \in DOMAIN Variants : Named(Baseline) = Variants[i]
  BY <1>4 DEF Range
<1> QED
  BY <1>2, <1>4, <1>5, WalkForwardAssumption DEF Canonical

LEMMA FlatTyped == Flat \in Positions /\ <<>> \in EventSeqs
BY DEF Flat, Positions, EventSeqs

LEMMA DistancesTyped ==
  ASSUME NEW b \in Rows, NEW v, v.sl \in Int, v.rr \in Int
  PROVE  Distances(b, v).sl \in Int /\ Distances(b, v).tp \in Int
<1>1. PICK sl \in Int : sl = Greater(b.atr * v.sl, MinSlPoints)
  BY ReplayAssumption DEF Greater, Rows
<1>2. sl * v.rr \in Int
  OBVIOUS
<1>3. Distances(b, v) = [sl |-> sl, tp |-> sl * v.rr]
  BY <1>1 DEF Distances
<1> QED
  BY <1>2, <1>3

LEMMA OpenedTyped ==
  ASSUME NEW b \in Rows, NEW v, v.sl \in Int, v.rr \in Int, NEW side \in {-1, 1}
  PROVE  Opened(b, side, v) \in Positions /\ EntryEvent(b, Opened(b, side, v)) \in Events
<1>1. PICK sl \in Int, tp \in Int : Distances(b, v).sl = sl /\ Distances(b, v).tp = tp
  BY DistancesTyped
<1>2. b.c \in Int /\ b.t \in Nat
  BY DEF Rows
<1>3. PICK low \in Int, high \in Int : low = b.c - side * sl /\ high = b.c + side * tp
  BY <1>1, <1>2
<1>4. Opened(b, side, v) = [side |-> side, entry |-> b.c, sl |-> low, tp |-> high]
  BY <1>1, <1>3 DEF Opened
<1>5. EntryEvent(b, Opened(b, side, v)) = [kind |-> "ENTRY", t |-> b.t, side |-> side, price |-> b.c, level |-> None]
  BY <1>4 DEF EntryEvent
<1> QED
  BY <1>2, <1>4, <1>5 DEF Positions, Events, None

LEMMA ExitTyped ==
  ASSUME NEW b \in Rows, NEW reason \in {"SL", "TARGET"}, NEW level \in Int
  PROVE  ExitEvent(b, reason, level) \in Events
BY DEF ExitEvent, Events, Rows

\* What one bar does: nothing, one entry or one exit.
Acts(s, next, b, v) ==
  \/ next = s
  \/ \E side \in {-1, 1} :
        next = [pos |-> Opened(b, side, v), events |-> Append(s.events, EntryEvent(b, Opened(b, side, v)))]
  \/ \E reason \in {"SL", "TARGET"}, level \in {s.pos.sl, s.pos.tp} :
        next = [pos |-> Flat, events |-> Append(s.events, ExitEvent(b, reason, level))]

LEMMA BarStepActs ==
  ASSUME NEW bars, NEW v, NEW s, NEW i
  PROVE  Acts(s, BarStep(bars, v, s, i), bars[i], v)
BY DEF BarStep, Acts

LEMMA BarStepTyped ==
  ASSUME NEW bars \in Seq(Rows), NEW v, v.sl \in Int, v.rr \in Int, NEW s \in BarStates, NEW i \in DOMAIN bars
  PROVE  BarStep(bars, v, s, i) \in BarStates
<1> DEFINE b == bars[i]
           next == BarStep(bars, v, s, i)
<1>1. b \in Rows
  OBVIOUS
<1>2. s.pos \in Positions /\ s.events \in Seq(Events)
  BY DEF BarStates, EventSeqs
<1>3. s.pos.sl \in Int /\ s.pos.tp \in Int
  BY <1>2 DEF Positions
<1>4. \A p \in Positions, e \in Events : [pos |-> p, events |-> Append(s.events, e)] \in BarStates
  <2>1. \A e \in Events : Append(s.events, e) \in EventSeqs
    BY <1>2 DEF EventSeqs
  <2> QED
    BY <2>1 DEF BarStates
<1>5. Acts(s, next, b, v)
  BY BarStepActs
<1> HIDE DEF b, next
<1>6. ASSUME NEW side \in {-1, 1},
             next = [pos |-> Opened(b, side, v), events |-> Append(s.events, EntryEvent(b, Opened(b, side, v)))]
      PROVE  next \in BarStates
  BY <1>1, <1>4, <1>6, OpenedTyped
<1>7. ASSUME NEW reason \in {"SL", "TARGET"}, NEW level \in {s.pos.sl, s.pos.tp},
             next = [pos |-> Flat, events |-> Append(s.events, ExitEvent(b, reason, level))]
      PROVE  next \in BarStates
  BY <1>1, <1>3, <1>4, <1>7, ExitTyped, FlatTyped
<1> QED
  BY <1>5, <1>6, <1>7 DEF Acts, next

\* What holds of 0 and is handed on from each number to the next.
LEMMA Onward ==
  ASSUME NEW n \in Nat, NEW G, 0 \in G, \A i \in 1..n : i - 1 \in G => i \in G
  PROVE  \A i \in 0..n : i \in G
<1> DEFINE B == {i \in 0..n : i \notin G}
<1> SUFFICES ASSUME B # {} PROVE FALSE
  OBVIOUS
<1>1. IsFiniteSet(0..n) /\ B \in SUBSET (0..n) /\ 0..n \subseteq Int
  BY FS_Interval
<1>2. IsFiniteSet(B) /\ B \subseteq Int
  BY <1>1, FS_Subset
<1>3. PICK m \in B : \A x \in B : m <= x
  BY <1>2, EndsOf
<1>4. m \in 1..n /\ m - 1 \in 0..n /\ m \notin G
  BY <1>3
<1>5. m - 1 \notin B
  BY <1>3, <1>4
<1> QED
  BY <1>4, <1>5

\* The replay, by its equations.
Replays(f, bars, v, after, held) ==
  /\ f[0] = [pos |-> held, events |-> <<>>]
  /\ \A i \in 1..Len(bars) :
        f[i] = IF bars[i].t <= after THEN f[i - 1] ELSE BarStep(bars, v, f[i - 1], i)

ReplayTo(f, bars, v, after, held, n) ==
  f = [i \in 0..n |-> IF i = 0 THEN [pos |-> held, events |-> <<>>]
                      ELSE IF bars[i].t <= after THEN f[i - 1] ELSE BarStep(bars, v, f[i - 1], i)]

LEMMA ReplayedExists ==
  ASSUME NEW bars \in Seq(Rows), NEW v, NEW after, NEW held
  PROVE  \E f : ReplayTo(f, bars, v, after, held, Len(bars))
<1> DEFINE G == {n \in 0..Len(bars) : \E f : ReplayTo(f, bars, v, after, held, n)}
<1>0. Len(bars) \in Nat
  OBVIOUS
<1>1. 0 \in G
  <2> DEFINE f == [i \in 0..0 |-> [pos |-> held, events |-> <<>>]]
  <2>1. ReplayTo(f, bars, v, after, held, 0)
    BY DEF ReplayTo
  <2> QED
    BY <1>0, <2>1
<1>2. ASSUME NEW n \in 1..Len(bars), n - 1 \in G PROVE n \in G
  <2>1. PICK g : ReplayTo(g, bars, v, after, held, n - 1)
    BY <1>2
  <2> DEFINE step(i, s) == IF i = 0 THEN [pos |-> held, events |-> <<>>]
                           ELSE IF bars[i].t <= after THEN s ELSE BarStep(bars, v, s, i)
             f == [i \in 0..n |-> step(i, g[i - 1])]
  <2>2. g = [i \in 0..(n - 1) |-> step(i, g[i - 1])]
    BY <2>1 DEF ReplayTo
  <2>3. \A s : step(0, s) = [pos |-> held, events |-> <<>>]
    OBVIOUS
  <2>4. f = [i \in 0..n |-> step(i, g[i - 1])]
    OBVIOUS
  <2> HIDE DEF step, f
  <2>5. \A i \in 0..n : i # 0 => i - 1 \in 0..(n - 1) /\ i - 1 \in 0..n
    BY <1>0
  <2>6. \A i \in 0..(n - 1) : f[i] = g[i]
    BY <1>0, <2>2, <2>4
  <2>7. \A i \in 0..n : step(i, g[i - 1]) = step(i, f[i - 1])
    <3> TAKE i \in 0..n
    <3>1. CASE i = 0
      BY <2>3, <3>1
    <3>2. CASE i # 0
      BY <2>5, <2>6, <3>2
    <3> QED
      BY <3>1, <3>2
  <2>8. f = [i \in 0..n |-> step(i, f[i - 1])]
    BY <2>4, <2>7
  <2>9. ReplayTo(f, bars, v, after, held, n)
    BY <2>8 DEF ReplayTo, step
  <2> QED
    BY <1>0, <2>9
<1> HIDE DEF G
<1>3. \A i \in 0..Len(bars) : i \in G
  BY <1>0, <1>1, <1>2, Onward
<1>4. Len(bars) \in G
  BY <1>0, <1>3
<1> QED
  BY <1>4 DEF G

LEMMA ReplayedOf ==
  ASSUME NEW bars \in Seq(Rows), NEW v, NEW after, NEW held
  PROVE  Replays(Replayed(bars, v, after, held), bars, v, after, held)
<1> DEFINE f == CHOOSE h : ReplayTo(h, bars, v, after, held, Len(bars))
<1>1. Replayed(bars, v, after, held) = f
  BY DEF Replayed, ReplayTo
<1>2. ReplayTo(f, bars, v, after, held, Len(bars))
  BY ReplayedExists
<1> HIDE DEF f
<1>3. Len(bars) \in Nat
  OBVIOUS
<1>4. f[0] = [pos |-> held, events |-> <<>>]
  BY <1>2, <1>3 DEF ReplayTo
<1>5. ASSUME NEW i \in 1..Len(bars)
      PROVE  f[i] = IF bars[i].t <= after THEN f[i - 1] ELSE BarStep(bars, v, f[i - 1], i)
  <2>1. i \in 0..Len(bars) /\ i # 0
    BY <1>3
  <2> QED
    BY <1>2, <2>1 DEF ReplayTo
<1> QED
  BY <1>1, <1>4, <1>5 DEF Replays

\* The research state machine, by its equations.
SimStates == [pos : Positions, day : Int, events : EventSeqs]
SimStart == [pos |-> Flat, day |-> None, events |-> <<>>]

SimulatedTo(f, bars, v, n) ==
  f = [i \in 0..n |-> IF i = 0 THEN [pos |-> Flat, day |-> None, events |-> <<>>]
                      ELSE SimStep(bars, VariantSetups(bars, v), v, f[i - 1], i)]

Simulates(f, bars, v) ==
  /\ f[0] = SimStart
  /\ \A i \in 1..Len(bars) : f[i] = SimStep(bars, VariantSetups(bars, v), v, f[i - 1], i)

LEMMA SimulatedExists ==
  ASSUME NEW bars \in Seq(Rows), NEW v
  PROVE  \E f : SimulatedTo(f, bars, v, Len(bars))
<1> DEFINE G == {n \in 0..Len(bars) : \E f : SimulatedTo(f, bars, v, n)}
<1>0. Len(bars) \in Nat
  OBVIOUS
<1>1. 0 \in G
  <2> DEFINE f == [i \in 0..0 |-> [pos |-> Flat, day |-> None, events |-> <<>>]]
  <2>1. SimulatedTo(f, bars, v, 0)
    BY DEF SimulatedTo
  <2> QED
    BY <1>0, <2>1
<1>2. ASSUME NEW n \in 1..Len(bars), n - 1 \in G PROVE n \in G
  <2>1. PICK g : SimulatedTo(g, bars, v, n - 1)
    BY <1>2
  <2> DEFINE step(i, s) == IF i = 0 THEN [pos |-> Flat, day |-> None, events |-> <<>>]
                           ELSE SimStep(bars, VariantSetups(bars, v), v, s, i)
             f == [i \in 0..n |-> step(i, g[i - 1])]
  <2>2. g = [i \in 0..(n - 1) |-> step(i, g[i - 1])]
    BY <2>1 DEF SimulatedTo
  <2>3. \A s : step(0, s) = [pos |-> Flat, day |-> None, events |-> <<>>]
    OBVIOUS
  <2>4. f = [i \in 0..n |-> step(i, g[i - 1])]
    OBVIOUS
  <2> HIDE DEF step, f
  <2>5. \A i \in 0..n : i # 0 => i - 1 \in 0..(n - 1) /\ i - 1 \in 0..n
    BY <1>0
  <2>6. \A i \in 0..(n - 1) : f[i] = g[i]
    BY <1>0, <2>2, <2>4
  <2>7. \A i \in 0..n : step(i, g[i - 1]) = step(i, f[i - 1])
    <3> TAKE i \in 0..n
    <3>1. CASE i = 0
      BY <2>3, <3>1
    <3>2. CASE i # 0
      BY <2>5, <2>6, <3>2
    <3> QED
      BY <3>1, <3>2
  <2>8. f = [i \in 0..n |-> step(i, f[i - 1])]
    BY <2>4, <2>7
  <2>9. SimulatedTo(f, bars, v, n)
    BY <2>8 DEF SimulatedTo, step
  <2> QED
    BY <1>0, <2>9
<1> HIDE DEF G
<1>3. \A i \in 0..Len(bars) : i \in G
  BY <1>0, <1>1, <1>2, Onward
<1>4. Len(bars) \in G
  BY <1>0, <1>3
<1> QED
  BY <1>4 DEF G

LEMMA SimulatedOf ==
  ASSUME NEW rows, NEW v, DropInvalidBars(rows) \in Seq(Rows)
  PROVE  \E f : /\ Simulates(f, DropInvalidBars(rows), v)
                /\ Simulate(rows, v) = f[Len(DropInvalidBars(rows))].events
<1> DEFINE bars == DropInvalidBars(rows)
           f == CHOOSE h : SimulatedTo(h, bars, v, Len(bars))
<1>1. Simulate(rows, v) = f[Len(bars)].events
  BY DEF Simulate, SimulatedTo
<1>2. SimulatedTo(f, bars, v, Len(bars))
  BY SimulatedExists
<1> HIDE DEF f, bars
<1>3. Len(bars) \in Nat
  BY DEF bars
<1>4. f[0] = SimStart
  BY <1>2, <1>3 DEF SimulatedTo, SimStart
<1>5. ASSUME NEW i \in 1..Len(bars)
      PROVE  f[i] = SimStep(bars, VariantSetups(bars, v), v, f[i - 1], i)
  <2>1. i \in 0..Len(bars) /\ i # 0
    BY <1>3
  <2> QED
    BY <1>2, <2>1 DEF SimulatedTo
<1>6. Simulates(f, bars, v)
  BY <1>4, <1>5 DEF Simulates
<1> QED
  BY <1>1, <1>6 DEF bars

\* At the canonical variant one bar does to both machines the same.
Alike(s, r) == s \in SimStates /\ r \in BarStates /\ s.pos = r.pos /\ s.events = r.events

LEMMA AlikeFields ==
  ASSUME NEW s, NEW r, Alike(s, r), NEW p \in Positions, NEW es \in EventSeqs, NEW d \in Int
  PROVE  /\ Alike([s EXCEPT !.pos = p, !.events = es], [pos |-> p, events |-> es])
         /\ Alike([pos |-> p, day |-> d, events |-> es], [pos |-> p, events |-> es])
BY DEF Alike, SimStates, BarStates

LEMMA SameSetups ==
  ASSUME NEW bars, NEW v, Canonical(v) PROVE VariantSetups(bars, v) = Setups(bars)
BY DEF VariantSetups, Setups, Canonical

LEMMA StepsAlike ==
  ASSUME NEW bars \in Seq(Rows), NEW v, Canonical(v), NEW s, NEW r, Alike(s, r), NEW i \in DOMAIN bars
  PROVE  Alike(SimStep(bars, VariantSetups(bars, v), v, s, i), BarStep(bars, v, r, i))
<1> DEFINE b == bars[i]
           p == r.pos
           in(side) == p.side = 0 /\ InSession(b) /\ RiskKnown(b, v) /\ Edge(Setups(bars), i, side)
           after(n, es) == [s EXCEPT !.pos = n, !.events = es]
           simLeave(reason, level) == [s EXCEPT !.pos = Flat, !.events = Append(@, ExitEvent(b, reason, level))]
           barLeave(reason, level) == [pos |-> Flat, events |-> Append(r.events, ExitEvent(b, reason, level))]
           simEnter(side) == [pos |-> Opened(b, side, v), day |-> Day(b.t),
                              events |-> Append(s.events, EntryEvent(b, Opened(b, side, v)))]
           barEnter(side) == [pos |-> Opened(b, side, v),
                              events |-> Append(r.events, EntryEvent(b, Opened(b, side, v)))]
           S == SimStep(bars, VariantSetups(bars, v), v, s, i)
           R == BarStep(bars, v, r, i)
<1> SUFFICES Alike(S, R)
  OBVIOUS
<1>1. s.pos = r.pos /\ s.events = r.events /\ b \in Rows /\ p \in Positions /\ r.events \in EventSeqs
  BY DEF Alike, BarStates
<1>2. /\ v.cutoff = None /\ v.adx # "gate" /\ VariantSetups(bars, v) = Setups(bars) /\ v.sl \in Int /\ v.rr \in Int
  BY SameSetups DEF Canonical
<1> HIDE DEF b, p, in, after, simLeave, barLeave, simEnter, barEnter, S, R
<1>3. /\ Fill(v, p, b, p.sl, TRUE) = p.sl /\ Fill(v, p, b, p.tp, FALSE) = p.tp
      /\ ~Forced(v, p, b, s.day)
  BY DEF Fill, Forced, Canonical
<1>4. R = CASE SlHit(p, b) -> barLeave("SL", p.sl)
            [] TpHit(p, b) /\ ~SlHit(p, b) -> barLeave("TARGET", p.tp)
            [] in("bull") -> barEnter(1)
            [] in("bear") -> barEnter(-1)
            [] OTHER -> r
  BY DEF BarStep, R, b, p, in, barLeave, barEnter
<1>5. \A side : in(side) <=> /\ p.side = 0
                             /\ InSession(b)
                             /\ v.cutoff = None \/ Slot(b.t) <= v.cutoff
                             /\ Edge(VariantSetups(bars, v), i, side)
                             /\ v.adx = "gate" => b.adx = side
                             /\ RiskKnown(b, v)
  <2> TAKE side
  <2>1. Edge(VariantSetups(bars, v), i, side) <=> Edge(Setups(bars), i, side)
    BY <1>2
  <2>2. v.cutoff = None /\ v.adx # "gate"
    BY <1>2
  <2>3. in(side) <=> /\ p.side = 0 /\ InSession(b) /\ RiskKnown(b, v)
                     /\ Edge(VariantSetups(bars, v), i, side)
    BY <2>1 DEF in
  <2> QED
    BY <2>2, <2>3
<1>6. S = CASE SlHit(p, b) -> simLeave("SL", Fill(v, p, b, p.sl, TRUE))
            [] TpHit(p, b) /\ ~SlHit(p, b) -> simLeave("TARGET", Fill(v, p, b, p.tp, FALSE))
            [] Forced(v, p, b, s.day) /\ ~SlHit(p, b) /\ ~TpHit(p, b) ->
                  simLeave("SQUARE_OFF", IF Day(b.t) # s.day THEN b.o ELSE b.c)
            [] in("bull") -> simEnter(1)
            [] in("bear") -> simEnter(-1)
            [] OTHER -> s
  BY <1>1, <1>5 DEF SimStep, S, b, p, simLeave, simEnter
<1>7. \A reason \in {"SL", "TARGET"}, level \in Int : Alike(simLeave(reason, level), barLeave(reason, level))
  <2> TAKE reason \in {"SL", "TARGET"}, level \in Int
  <2>1. ExitEvent(b, reason, level) \in Events
    BY <1>1, ExitTyped
  <2>2. Append(r.events, ExitEvent(b, reason, level)) \in EventSeqs
    BY <1>1, <2>1 DEF EventSeqs
  <2>3. simLeave(reason, level) = after(Flat, Append(r.events, ExitEvent(b, reason, level)))
    BY <1>1 DEF Alike, SimStates, simLeave, after
  <2> QED
    <3>1. Alike(after(Flat, Append(r.events, ExitEvent(b, reason, level))),
                [pos |-> Flat, events |-> Append(r.events, ExitEvent(b, reason, level))])
      BY <2>2, FlatTyped, AlikeFields DEF after
    <3> QED
      BY <2>3, <3>1 DEF barLeave
<1>8. \A side \in {-1, 1} : Alike(simEnter(side), barEnter(side))
  <2> TAKE side \in {-1, 1}
  <2>1. Opened(b, side, v) \in Positions /\ EntryEvent(b, Opened(b, side, v)) \in Events
    BY <1>1, <1>2, OpenedTyped
  <2>2. Append(r.events, EntryEvent(b, Opened(b, side, v))) \in EventSeqs
    BY <1>1, <2>1 DEF EventSeqs
  <2>3. b.t \in Nat
    BY <1>1, RowTypes
  <2>4. Day(b.t) \in Int
    BY <2>3, ReplayAssumption DEF Day
  <2> QED
    BY <1>1, <2>1, <2>2, <2>4, AlikeFields DEF simEnter, barEnter
<1>9. /\ SlHit(p, b) \/ TpHit(p, b) => ~in("bull") /\ ~in("bear")
      /\ ~(in("bull") /\ in("bear"))
  <2>1. \A side : in(side) => p.side = 0
    BY DEF in
  <2>2. SlHit(p, b) \/ TpHit(p, b) => p.side # 0
    BY DEF SlHit, TpHit
  <2>3. \A side : in(side) => Setups(bars)[i] = side
    BY DEF in, Edge
  <2> QED
    BY <2>1, <2>2, <2>3
<1>10. p.sl \in Int /\ p.tp \in Int
  BY <1>1 DEF Positions
<1>11. CASE SlHit(p, b)
  <2>1. S = simLeave("SL", p.sl) /\ R = barLeave("SL", p.sl)
    <3>1. S = simLeave("SL", Fill(v, p, b, p.sl, TRUE))
      BY <1>9, <1>6, <1>11
    <3>2. R = barLeave("SL", p.sl)
      BY <1>9, <1>4, <1>11
    <3> QED
      BY <1>3, <3>1, <3>2
  <2> QED
    BY <1>7, <1>10, <2>1
<1>12. CASE ~SlHit(p, b) /\ TpHit(p, b)
  <2>1. S = simLeave("TARGET", p.tp) /\ R = barLeave("TARGET", p.tp)
    <3>1. S = simLeave("TARGET", Fill(v, p, b, p.tp, FALSE))
      BY <1>9, <1>6, <1>12
    <3>2. R = barLeave("TARGET", p.tp)
      BY <1>9, <1>4, <1>12
    <3> QED
      BY <1>3, <3>1, <3>2
  <2> QED
    BY <1>7, <1>10, <2>1
<1>13. CASE ~SlHit(p, b) /\ ~TpHit(p, b) /\ in("bull")
  BY <1>3, <1>4, <1>6, <1>8, <1>13, <1>9
<1>14. CASE ~SlHit(p, b) /\ ~TpHit(p, b) /\ ~in("bull") /\ in("bear")
  BY <1>3, <1>4, <1>6, <1>8, <1>14, <1>9
<1>15. CASE ~SlHit(p, b) /\ ~TpHit(p, b) /\ ~in("bull") /\ ~in("bear")
  BY <1>3, <1>4, <1>6, <1>15
<1> QED
  BY <1>11, <1>12, <1>13, <1>14, <1>15

\* No bar is at time 0, the times that cannot be parsed.
Dated(bars) == bars \in Seq(Rows) /\ \A i \in DOMAIN bars : bars[i].t # 0

LEMMA UsableBars ==
  ASSUME NEW rows, Dated(rows)
  PROVE  Dated(DropInvalidBars(rows))
<1> DEFINE S == Where(rows, UsableBar)
           p == Part(rows, S)
<1>1. rows \in Seq(Rows) /\ S \in SUBSET DOMAIN rows
  BY DEF Where, Dated
<1> HIDE DEF S, p
<1>2. p \in Seq(Rows) /\ \E at : Picks(at, p, rows, S)
  BY <1>1, PartOf DEF p
<1>3. PICK at : Picks(at, p, rows, S)
  BY <1>2
<1>4. DOMAIN p = 1..Len(at)
  BY <1>2, <1>3 DEF Picks
<1>5. ASSUME NEW k \in DOMAIN p PROVE p[k].t # 0
  <2>1. at[k] \in S /\ p[k] = rows[at[k]]
    BY <1>3, <1>4 DEF Picks
  <2>2. rows[at[k]].t # 0
    BY <1>1, <2>1 DEF Dated
  <2> QED
    BY <2>1, <2>2
<1> QED
  BY <1>2, <1>5 DEF Dated, DropInvalidBars, S, p

\* The states of a replay from a flat position, and those of the simulation,
\* are typed and equal.
LEMMA SameRuns ==
  ASSUME NEW bars, Dated(bars), NEW v, Canonical(v),
         NEW f, Simulates(f, bars, v), NEW g, Replays(g, bars, v, None, Flat)
  PROVE  \A i \in 0..Len(bars) : Alike(f[i], g[i])
<1> DEFINE G == {i \in 0..Len(bars) : Alike(f[i], g[i])}
<1>0. bars \in Seq(Rows) /\ Len(bars) \in Nat
  BY DEF Dated
<1>1. f[0] = SimStart /\ g[0] = [pos |-> Flat, events |-> <<>>]
  BY DEF Simulates, Replays
<1>2. Alike(f[0], g[0])
  BY <1>1, FlatTyped DEF SimStart, Alike, SimStates, BarStates, None
<1>3. 0 \in G
  BY <1>0, <1>2
<1>4. ASSUME NEW i \in 1..Len(bars), i - 1 \in G PROVE i \in G
  <2>1. i \in DOMAIN bars /\ i \in 0..Len(bars) /\ bars[i] \in Rows
    BY <1>0
  <2>2. bars[i].t \in Nat /\ bars[i].t # 0
    BY <2>1, RowTypes DEF Dated
  <2>3. f[i] = SimStep(bars, VariantSetups(bars, v), v, f[i - 1], i)
    BY DEF Simulates
  <2>4. g[i] = BarStep(bars, v, g[i - 1], i)
    BY <2>2 DEF Replays, None
  <2>5. Alike(f[i - 1], g[i - 1])
    BY <1>4
  <2>6. Alike(f[i], g[i])
    BY <1>0, <2>1, <2>3, <2>4, <2>5, StepsAlike
  <2> QED
    BY <2>1, <2>6
<1> HIDE DEF G
<1>5. \A i \in 0..Len(bars) : i \in G
  BY <1>0, <1>3, <1>4, Onward
<1> QED
  BY <1>5 DEF G

LEMMA SimulationIsTheStrategy ==
  ASSUME NEW rows, Dated(rows), NEW v, Canonical(v)
  PROVE  Simulate(rows, v) = Run(rows, v) /\ Run(rows, v) \in EventSeqs
<1> DEFINE bars == DropInvalidBars(rows)
           g == Replayed(bars, v, None, Flat)
<1>1. Dated(bars) /\ bars \in Seq(Rows) /\ Len(bars) \in Nat
  BY UsableBars DEF Dated
<1>2. PICK f : Simulates(f, bars, v) /\ Simulate(rows, v) = f[Len(bars)].events
  BY <1>1, SimulatedOf
<1>3. Replays(g, bars, v, None, Flat)
  BY <1>1, ReplayedOf
<1>4. Run(rows, v) = g[Len(bars)].events
  BY DEF Run, RunFrom
<1> HIDE DEF bars, g
<1>5. Alike(f[Len(bars)], g[Len(bars)])
  BY <1>1, <1>2, <1>3, SameRuns
<1> QED
  BY <1>2, <1>4, <1>5 DEF Alike, BarStates

\* One round of the pairing, and the pairing as the function it defines.
PairStep(s, e, exits) ==
  CASE e.kind = "ENTRY" -> [s EXCEPT !.open = <<e>>]
    [] e.kind \in exits /\ s.open # <<>> ->
          [open |-> <<>>,
           trades |-> Append(s.trades, [entry |-> s.open[1].t, exit |-> e.t, side |-> s.open[1].side,
                                        reason |-> e.kind,
                                        points |-> s.open[1].side * (e.level - s.open[1].price)])]
    [] OTHER -> s

PairedTo(f, events, exits) ==
  f = [i \in 0..Len(events) |-> IF i = 0 THEN [open |-> <<>>, trades |-> <<>>]
                                ELSE PairStep(f[i - 1], events[i], exits)]

LEMMA PairedIs ==
  ASSUME NEW events, NEW exits
  PROVE  Paired(events, exits) = (CHOOSE f : PairedTo(f, events, exits))[Len(events)].trades
BY DEF Paired, PairedTo, PairStep

\* Without square-offs the two pairings are one.
LEMMA PairsAlike ==
  ASSUME NEW events \in EventSeqs
  PROVE  PairTrades(events) = Pair(events)
<1> DEFINE two == {"SL", "TARGET"}
           three == {"SL", "TARGET", "SQUARE_OFF"}
<1>1. \A s, i : i \in 1..Len(events) => PairStep(s, events[i], two) = PairStep(s, events[i], three)
  <2> TAKE s, i
  <2> HAVE i \in 1..Len(events)
  <2>1. events[i].kind \in {"ENTRY", "SL", "TARGET"}
    <3>1. events[i] \in Events
      BY DEF EventSeqs
    <3> QED
      BY <3>1 DEF Events
  <2>2. events[i].kind \in two <=> events[i].kind \in three
    BY <2>1
  <2> HIDE DEF two, three
  <2> QED
    BY <2>2 DEF PairStep
<1> HIDE DEF two, three
<1>2. ASSUME NEW f PROVE PairedTo(f, events, two) <=> PairedTo(f, events, three)
  <2>1. Len(events) \in Nat
    BY DEF EventSeqs
  <2>2. \A i \in 0..Len(events) : i # 0 => PairStep(f[i - 1], events[i], two) = PairStep(f[i - 1], events[i], three)
    BY <1>1, <2>1
  <2> QED
    BY <2>2 DEF PairedTo
<1>3. (CHOOSE f : PairedTo(f, events, two)) = (CHOOSE f : PairedTo(f, events, three))
  BY <1>2
<1> QED
  BY <1>3, PairedIs DEF PairTrades, Pair, two, three

LEMMA BaselineNeverDiverges ==
  ASSUME NEW rows, Dated(rows), NEW designs
  PROVE  RunIndex(rows, designs).diverged = FALSE
<1> DEFINE bars == DropInvalidBars(rows)
           v == Named(Baseline)
           tradesBy == Table(Names, LAMBDA n : TradesOf(bars, Named(n)))
           outline(trades) == [i \in DOMAIN trades |-> <<trades[i].entry, trades[i].points>>]
<1>1. Dated(bars)
  BY UsableBars
<1>2. Baseline \in Names /\ Canonical(v)
  BY BaselineIsCanonical
<1>3. tradesBy[Baseline] = TradesOf(bars, v)
  BY <1>2 DEF Table
<1>4. RunIndex(rows, designs).diverged = (outline(PairTrades(Run(bars, v))) # outline(tradesBy[Baseline]))
  BY DEF RunIndex
<1> HIDE DEF bars, v, tradesBy, outline
<1>5. Simulate(bars, v) = Run(bars, v) /\ Run(bars, v) \in EventSeqs
  BY <1>1, <1>2, SimulationIsTheStrategy
<1>6. TradesOf(bars, v) = PairTrades(Run(bars, v))
  BY <1>5, PairsAlike DEF TradesOf
<1> QED
  BY <1>3, <1>4, <1>6

LEMMA GridNeverDiverges ==
  ASSUME NEW by, NEW asked, NEW frames, NEW designs, \A k \in DOMAIN frames : Dated(frames[k])
  PROVE  Grid(by, asked, frames, designs).outcome # "diverged"
<1> DEFINE runs == [k \in DOMAIN frames |-> RunIndex(frames[k], designs)]
           made == Made(by, asked, "raised")
<1>1. \A k \in DOMAIN runs : runs[k].diverged = FALSE
  BY BaselineNeverDiverges
<1>2. made.outcome = "raised" /\ DOMAIN made = {"by", "asked", "outcome", "runs", "selected"}
  BY DEF Made, NoReport
<1>3. Grid(by, asked, frames, designs) = Finished(made, runs)
  BY GridIsFinished
<1> HIDE DEF runs, made
<1>4. Finished(made, runs) \in {made, [made EXCEPT !.outcome = "written", !.runs = runs]}
  BY <1>1 DEF Finished
<1> QED
  BY <1>2, <1>3, <1>4

LEMMA StoredAreDated ==
  ASSUME LoadInv, NEW source, NEW b \in OfSource(loads, source)
  PROVE  b \in Rows /\ b.t # 0
<1>1. PICK k \in DOMAIN loads : b \in Range(loads[k].candles)
  BY DEF OfSource
<1>2. loads[k] \in LoadSet
  BY DEF LoadInv
<1>3. PICK i \in DOMAIN loads[k].candles : b = loads[k].candles[i]
  BY <1>1 DEF Range
<1>4. loads[k].candles \in Seq(Rows)
  BY <1>2, LoadSetFields
<1>5. i \in 1..Len(loads[k].candles) /\ b \in Rows
  BY <1>3, <1>4
<1>6. Storable(b)
  BY <1>2, <1>3, <1>5, LoadSetFields
<1> QED
  BY <1>5, <1>6 DEF Storable, ValidCandle

LEMMA FramesAreDated ==
  ASSUME LoadInv, NEW source, NEW start, NEW end, NEW frames, FramesRead(frames, source, start, end)
  PROVE  \A k \in DOMAIN frames : Dated(frames[k])
<1> TAKE k \in DOMAIN frames
<1>1. frames[k] \in Seq(Rows)
  BY DEF FramesRead
<1>2. \A i \in DOMAIN frames[k] : frames[k][i] \in UNION {Range(frames[j]) : j \in DOMAIN frames}
  BY DEF Range
<1>3. \A i \in DOMAIN frames[k] : frames[k][i] \in OfSource(loads, source)
  BY <1>2 DEF FramesRead
<1> QED
  BY <1>1, <1>3, StoredAreDated DEF Dated

LEMMA ParityNext ==
  ASSUME Typed, LoadInv, ParityWithCanonical, [Next]_vars
  PROVE  ParityWithCanonical'
<1>1. CASE RunCsv
  <2>1. file.rows \in Seq(Rows)
    BY DEF Typed, FileType, RowSeqs
  <2>2. report' = IF 0 \in TimesIn(file.rows) THEN Made("csv", {}, "raised")
                  ELSE Grid("csv", {}, <<file.rows>>, <<LegacyDesign>>)
    BY <1>1 DEF RunCsv, Reports
  <2>3. ASSUME 0 \notin TimesIn(file.rows)
        PROVE  Grid("csv", {}, <<file.rows>>, <<LegacyDesign>>).outcome # "diverged"
    <3>1. Dated(file.rows)
      BY <2>1, <2>3 DEF Dated, TimesIn
    <3>2. \A k \in DOMAIN <<file.rows>> : Dated(<<file.rows>>[k])
      BY <3>1
    <3> QED
      BY <3>2, GridNeverDiverges
  <2> QED
    BY <2>2, <2>3, MadeOutcome DEF ParityWithCanonical
<1>2. ASSUME NEW a \in DbRuns, RunDb(a) PROVE ParityWithCanonical'
  <2> DEFINE last == ResearchEnd(a.holdout)
             held == a.holdout # None
             end == IF held /\ a.end = None THEN last ELSE a.end
             frames == ContiguousSegments(ReadCandles(loads, a.source, a.start, end))
             leak == \E k \in DOMAIN frames : Last(frames[k]).t > last
             usage == held /\ (a.start > last \/ a.end > last)
  <2>1. report' = IF usage THEN Made("db", {a}, "usage")
                  ELSE IF frames = <<>> THEN Made("db", {a}, "empty")
                  ELSE IF held /\ leak THEN Made("db", {a}, "raised")
                  ELSE Grid("db", {a}, frames, a.designs)
    BY <1>2 DEF RunDb, Reports
  <2>2. a.start \in Nat /\ end \in Nat
    BY EndIsNat
  <2> HIDE DEF end, usage, held, leak
  <2>3. FramesRead(frames, a.source, a.start, end)
    BY <2>2, FramesOfRead
  <2> HIDE DEF frames
  <2>4. Grid("db", {a}, frames, a.designs).outcome # "diverged"
    BY <2>3, FramesAreDated, GridNeverDiverges
  <2> QED
    BY <2>1, <2>4, MadeOutcome DEF ParityWithCanonical
<1>3. ASSUME NEW source \in Sources, Gate(source) PROVE ParityWithCanonical'
  <2>1. PICK o \in {"raised", "reproduced", "differs"} : \E x : \E y :
          /\ report' = IF o = "raised" THEN Made("gate", {}, o)
                       ELSE [Made("gate", {}, o) EXCEPT !.selected = x, !.runs = y]
    BY <1>3 DEF Gate, Reports
  <2> QED
    BY <2>1 DEF ParityWithCanonical, Made, NoReport
<1>4. CASE UNCHANGED report
  BY <1>4 DEF ParityWithCanonical
<1>5. CASE DownloadStep
  BY <1>4, <1>5 DEF DownloadStep, Answer, Fetched, OpenFile, WriteDataset, WriteMetadata
<1>6. ASSUME NEW p \in Loaders, LoadStep(p) PROVE ParityWithCanonical'
  BY <1>4, <1>6 DEF LoadStep, Hash, Read, Find, Insert, FindAgain, Rehash
<1>7. CASE Kill \/ (\E r \in Requests : StartDownload(r)) \/ (\E p \in Loaders, o \in LoadOptions : StartLoad(p, o))
  BY <1>4, <1>7 DEF Kill, StartDownload, StartLoad
<1>8. CASE UNCHANGED vars
  BY <1>4, <1>8 DEF vars
<1> QED
  BY <1>1, <1>2, <1>3, <1>5, <1>6, <1>7, <1>8 DEF Next

\* The baseline of the research grid trades exactly as the canonical strategy:
\* on every sequence of rows, from a file or from the tables, the assertion of
\* run_index holds.
THEOREM BaselineIsTheStrategy == Spec => []ParityWithCanonical
<1>1. Init => ParityWithCanonical
  BY DEF Init, NoReport, ParityWithCanonical
<1>2. Typed /\ LoadInv /\ ParityWithCanonical /\ [Next]_vars => ParityWithCanonical'
  BY ParityNext
<1> QED
  BY <1>1, <1>2, AlwaysTyped, AlwaysLoadInv, PTL DEF Spec

-------------------------------------------------------------------------------
(* A replay that is seeded.                                                    *)

\* The first numbers in order.
LEMMA OrderedInterval ==
  ASSUME NEW n \in Nat
  PROVE  Ordered(1..n, <) = [k \in 1..n |-> k]
<1> DEFINE at == Ordered(1..n, <)
<1>1. Cardinality(1..n) = n
  BY FS_Interval
<1>2. ASSUME NEW x \in 1..n PROVE Cardinality({y \in 1..n : y < x}) = x - 1
  <2>1. {y \in 1..n : y < x} = 1..(x - 1)
    OBVIOUS
  <2>2. x - 1 \in Nat /\ 1 \in Int /\ x - 1 \in Int
    OBVIOUS
  <2>3. Cardinality(1..(x - 1)) = x - 1
    BY <2>2, FS_Interval
  <2> QED
    BY <2>1, <2>3
<1> DEFINE pick(k) == CHOOSE x \in 1..n : Cardinality({y \in 1..n : y < x}) = k - 1
<1>3. at = [k \in 1..n |-> pick(k)]
  BY <1>1 DEF Ordered
<1>4. ASSUME NEW k \in 1..n PROVE pick(k) = k
  <2>1. \A x \in 1..n : Cardinality({y \in 1..n : y < x}) = k - 1 <=> x = k
    BY <1>2
  <2>2. pick(k) = CHOOSE x \in 1..n : x = k
    BY <2>1
  <2> HIDE DEF pick
  <2> QED
    BY <2>2
<1> HIDE DEF at, pick
<1>5. at = [k \in 1..n |-> k]
  BY <1>3, <1>4
<1> QED
  BY <1>5 DEF at

\* The first positions of a sequence are its beginning, and all are the whole.
LEMMA PartOfFirst ==
  ASSUME NEW T, NEW s \in Seq(T), NEW n \in 0..Len(s)
  PROVE  Part(s, 1..n) = [k \in 1..n |-> s[k]]
<1> DEFINE at == Ordered(1..n, <)
<1>0. n \in Nat
  OBVIOUS
<1>1. at = [k \in 1..n |-> k]
  BY <1>0, OrderedInterval
<1>2. Part(s, 1..n) = [k \in DOMAIN at |-> s[at[k]]]
  BY DEF Part
<1> HIDE DEF at
<1> QED
  BY <1>1, <1>2

LEMMA PartOfAll ==
  ASSUME NEW T, NEW s \in Seq(T)
  PROVE  Part(s, DOMAIN s) = s
<1>1. Len(s) \in 0..Len(s) /\ DOMAIN s = 1..Len(s)
  OBVIOUS
<1>2. Part(s, DOMAIN s) = [k \in DOMAIN s |-> s[k]]
  BY <1>1, PartOfFirst
<1> QED
  BY <1>2, SequenceIsFunction

\* Usable bars are not dropped again.
LEMMA DroppedOnce ==
  ASSUME NEW rows \in Seq(Rows)
  PROVE  DropInvalidBars(DropInvalidBars(rows)) = DropInvalidBars(rows)
<1> DEFINE S == Where(rows, UsableBar)
           p == Part(rows, S)
<1>1. S \in SUBSET DOMAIN rows /\ \A i \in S : UsableBar(rows[i])
  BY DEF Where
<1> HIDE DEF S, p
<1>2. p \in Seq(Rows) /\ \E at : Picks(at, p, rows, S)
  BY <1>1, PartOf DEF p
<1>3. PICK at : Picks(at, p, rows, S)
  BY <1>2
<1>4. DOMAIN p = 1..Len(at)
  BY <1>2, <1>3 DEF Picks
<1>5. \A k \in DOMAIN p : UsableBar(p[k])
  BY <1>1, <1>3, <1>4 DEF Picks
<1>6. Where(p, UsableBar) = DOMAIN p
  BY <1>5 DEF Where
<1>7. Part(p, Where(p, UsableBar)) = p
  BY <1>2, <1>6, PartOfAll
<1> QED
  BY <1>7 DEF DropInvalidBars, S, p

\* r has done all that s has, after what was done before.
Follows(s, r, before) == s \in BarStates /\ r \in BarStates /\ s.pos = r.pos /\ r.events = before \o s.events

LEMMA AppendAfter ==
  ASSUME NEW before \in Seq(Events), NEW es \in Seq(Events), NEW e \in Events
  PROVE  Append(before \o es, e) = before \o Append(es, e)
OBVIOUS

LEMMA StepFollows ==
  ASSUME NEW bars \in Seq(Rows), NEW v, Canonical(v), NEW before \in Seq(Events), NEW s, NEW r, Follows(s, r, before),
         NEW i \in DOMAIN bars
  PROVE  Follows(BarStep(bars, v, s, i), BarStep(bars, v, r, i), before)
<1> DEFINE b == bars[i]
           p == s.pos
           in(side) == p.side = 0 /\ InSession(b) /\ RiskKnown(b, v) /\ Edge(Setups(bars), i, side)
           to(x, n, e) == [pos |-> n, events |-> Append(x.events, e)]
           S == BarStep(bars, v, s, i)
           R == BarStep(bars, v, r, i)
<1> SUFFICES Follows(S, R, before)
  OBVIOUS
<1>1. /\ s.pos = r.pos /\ s.events \in Seq(Events) /\ r.events = before \o s.events
      /\ S \in BarStates /\ R \in BarStates
      /\ b \in Rows /\ p.sl \in Int /\ p.tp \in Int
  <2>1. s.pos \in Positions /\ s.events \in Seq(Events) /\ r \in BarStates /\ s \in BarStates
    BY DEF Follows, BarStates, EventSeqs
  <2>2. v.sl \in Int /\ v.rr \in Int
    BY DEF Canonical
  <2>3. S \in BarStates /\ R \in BarStates
    BY <2>1, <2>2, BarStepTyped
  <2> QED
    BY <2>1, <2>3 DEF Follows, Positions
<1> HIDE DEF S, R
<1>2. S = CASE SlHit(p, b) -> to(s, Flat, ExitEvent(b, "SL", p.sl))
            [] TpHit(p, b) /\ ~SlHit(p, b) -> to(s, Flat, ExitEvent(b, "TARGET", p.tp))
            [] in("bull") -> to(s, Opened(b, 1, v), EntryEvent(b, Opened(b, 1, v)))
            [] in("bear") -> to(s, Opened(b, -1, v), EntryEvent(b, Opened(b, -1, v)))
            [] OTHER -> s
  BY DEF BarStep, S
<1>3. R = CASE SlHit(p, b) -> to(r, Flat, ExitEvent(b, "SL", p.sl))
            [] TpHit(p, b) /\ ~SlHit(p, b) -> to(r, Flat, ExitEvent(b, "TARGET", p.tp))
            [] in("bull") -> to(r, Opened(b, 1, v), EntryEvent(b, Opened(b, 1, v)))
            [] in("bear") -> to(r, Opened(b, -1, v), EntryEvent(b, Opened(b, -1, v)))
            [] OTHER -> r
  BY <1>1 DEF BarStep, R
<1>4. /\ ExitEvent(b, "SL", p.sl) \in Events /\ ExitEvent(b, "TARGET", p.tp) \in Events
      /\ EntryEvent(b, Opened(b, 1, v)) \in Events /\ EntryEvent(b, Opened(b, -1, v)) \in Events
  BY <1>1, ExitTyped, OpenedTyped DEF Canonical
<1>5. \A n, e : e \in Events /\ S = to(s, n, e) /\ R = to(r, n, e) => Follows(S, R, before)
  <2> TAKE n, e
  <2> HAVE e \in Events /\ S = to(s, n, e) /\ R = to(r, n, e)
  <2>1. R.events = before \o S.events /\ S.pos = R.pos
    BY <1>1, AppendAfter
  <2> QED
    BY <1>1, <2>1 DEF Follows
<1>6. /\ SlHit(p, b) \/ TpHit(p, b) => ~in("bull") /\ ~in("bear")
      /\ ~(in("bull") /\ in("bear"))
  BY DEF SlHit, TpHit, Edge
<1> HIDE DEF b, p, in, to
<1>7. CASE SlHit(p, b)
  <2>1. S = to(s, Flat, ExitEvent(b, "SL", p.sl))
    BY <1>2, <1>6, <1>7
  <2>2. R = to(r, Flat, ExitEvent(b, "SL", p.sl))
    BY <1>3, <1>6, <1>7
  <2> QED
    BY <1>4, <1>5, <2>1, <2>2
<1>8. CASE ~SlHit(p, b) /\ TpHit(p, b)
  <2>1. S = to(s, Flat, ExitEvent(b, "TARGET", p.tp))
    BY <1>2, <1>6, <1>8
  <2>2. R = to(r, Flat, ExitEvent(b, "TARGET", p.tp))
    BY <1>3, <1>6, <1>8
  <2> QED
    BY <1>4, <1>5, <2>1, <2>2
<1>9. CASE ~SlHit(p, b) /\ ~TpHit(p, b) /\ in("bull")
  <2>1. S = to(s, Opened(b, 1, v), EntryEvent(b, Opened(b, 1, v)))
    BY <1>2, <1>6, <1>9
  <2>2. R = to(r, Opened(b, 1, v), EntryEvent(b, Opened(b, 1, v)))
    BY <1>3, <1>6, <1>9
  <2> QED
    BY <1>4, <1>5, <2>1, <2>2
<1>10. CASE ~SlHit(p, b) /\ ~TpHit(p, b) /\ in("bear")
  <2>1. S = to(s, Opened(b, -1, v), EntryEvent(b, Opened(b, -1, v)))
    BY <1>2, <1>6, <1>10
  <2>2. R = to(r, Opened(b, -1, v), EntryEvent(b, Opened(b, -1, v)))
    BY <1>3, <1>6, <1>10
  <2> QED
    BY <1>4, <1>5, <2>1, <2>2
<1>11. CASE ~SlHit(p, b) /\ ~TpHit(p, b) /\ ~in("bull") /\ ~in("bear")
  <2>1. S = s /\ R = r
    BY <1>2, <1>3, <1>11
  <2> QED
    BY <2>1
<1> QED
  BY <1>7, <1>8, <1>9, <1>10, <1>11

\* Later bars are at later times.
LEMMA InTime ==
  ASSUME NEW bars \in Seq(Rows), Timely(bars), NEW i \in DOMAIN bars, NEW j \in DOMAIN bars
  PROVE  bars[j].t <= bars[i].t <=> j <= i
<1> DEFINE G(x) == {k \in 0..Len(bars) : x < k => bars[x].t < bars[k].t}
<1>0. Len(bars) \in Nat /\ DOMAIN bars = 1..Len(bars) /\ \A k \in 1..Len(bars) : bars[k].t \in Nat
  <2>1. \A k \in 1..Len(bars) : bars[k] \in Rows
    OBVIOUS
  <2> QED
    BY <2>1, RowTypes
<1>1. ASSUME NEW x \in DOMAIN bars PROVE \A k \in DOMAIN bars : x < k => bars[x].t < bars[k].t
  <2>1. 0 \in G(x)
    BY <1>0
  <2>2. ASSUME NEW k \in 1..Len(bars), k - 1 \in G(x) PROVE k \in G(x)
    <3>1. CASE x < k
      <4>1. k \in 2..Len(bars) /\ k - 1 \in 1..Len(bars) /\ (x = k - 1 \/ x < k - 1)
        <5>1. Len(bars) \in Nat /\ x \in 1..Len(bars) /\ k \in 1..Len(bars)
          BY <1>0
        <5>2. k \in 2..Len(bars)
          BY <3>1, <5>1
        <5>3. k - 1 \in 1..Len(bars)
          BY <5>1, <5>2
        <5>4. x = k - 1 \/ x < k - 1
          BY <3>1, <5>1
        <5> QED
          BY <5>2, <5>3, <5>4
      <4>2. bars[k - 1].t < bars[k].t
        BY <4>1 DEF Timely
      <4>3. x = k - 1 \/ bars[x].t < bars[k - 1].t
        BY <2>2, <4>1
      <4>4. bars[x].t < bars[k].t
        BY <1>0, <1>1, <4>1, <4>2, <4>3
      <4> QED
        BY <4>4
    <3>2. CASE ~(x < k)
      BY <3>2
    <3> QED
      BY <3>1, <3>2
  <2> HIDE DEF G
  <2>3. \A k \in 0..Len(bars) : k \in G(x)
    BY <1>0, <2>1, <2>2, Onward
  <2> QED
    BY <1>0, <2>3 DEF G
<1>2. i \in 1..Len(bars) /\ j \in 1..Len(bars) /\ bars[i].t \in Nat /\ bars[j].t \in Nat
  BY <1>0
<1>3. (i < j => bars[i].t < bars[j].t) /\ (j < i => bars[j].t < bars[i].t)
  BY <1>1
<1> QED
  BY <1>2, <1>3

LEMMA TypedReplay ==
  ASSUME NEW bars, Dated(bars), NEW v, Canonical(v), NEW g, Replays(g, bars, v, None, Flat)
  PROVE  \A i \in 0..Len(bars) : g[i] \in BarStates
<1>1. bars \in Seq(Rows)
  BY DEF Dated
<1>2. PICK f : SimulatedTo(f, bars, v, Len(bars))
  BY <1>1, SimulatedExists
<1>3. Simulates(f, bars, v)
  <2>1. Len(bars) \in Nat
    BY <1>1
  <2>2. f[0] = SimStart
    BY <1>2, <2>1 DEF SimulatedTo, SimStart
  <2>3. ASSUME NEW i \in 1..Len(bars)
        PROVE  f[i] = SimStep(bars, VariantSetups(bars, v), v, f[i - 1], i)
    <3>1. i \in 0..Len(bars) /\ i # 0
      BY <2>1
    <3> QED
      BY <1>2, <3>1 DEF SimulatedTo
  <2> QED
    BY <2>2, <2>3 DEF Simulates
<1> QED
  BY <1>3, SameRuns DEF Alike

\* A replay that starts after a bar with the position held there.
LEMMA SeedFollows ==
  ASSUME NEW bars, Dated(bars), Timely(bars), NEW v, Canonical(v),
         NEW g, Replays(g, bars, v, None, Flat), NEW i \in DOMAIN bars,
         NEW h, Replays(h, bars, v, bars[i].t, g[i].pos)
  PROVE  Follows(h[Len(bars)], g[Len(bars)], g[i].events)
<1> DEFINE start == [pos |-> g[i].pos, events |-> <<>>]
           G == {j \in 0..Len(bars) : IF j <= i THEN h[j] = start ELSE Follows(h[j], g[j], g[i].events)}
<1>0. bars \in Seq(Rows) /\ Len(bars) \in Nat /\ i \in 1..Len(bars) /\ DOMAIN bars = 1..Len(bars)
  BY DEF Dated
<1>1. g[i] \in BarStates
  BY <1>0, TypedReplay
<1>2. g[i].pos \in Positions /\ g[i].events \in Seq(Events)
  BY <1>1 DEF BarStates, EventSeqs
<1>3. Follows(start, g[i], g[i].events)
  <2>1. start \in BarStates
    BY <1>2, FlatTyped DEF BarStates
  <2>2. g[i].events = g[i].events \o <<>>
    BY <1>2
  <2> QED
    BY <1>1, <2>1, <2>2 DEF Follows
<1>4. h[0] = start
  BY DEF Replays
<1> HIDE DEF start
<1>5. 0 \in G
  BY <1>0, <1>4
<1>6. ASSUME NEW j \in 1..Len(bars), j - 1 \in G PROVE j \in G
  <2>1. bars[j].t <= bars[i].t <=> j <= i
    BY <1>0, InTime
  <2>2. h[j] = IF j <= i THEN h[j - 1] ELSE BarStep(bars, v, h[j - 1], j)
    BY <2>1 DEF Replays
  <2>3. CASE j <= i
    <3>1. h[j - 1] = start
      BY <1>0, <1>6, <2>3
    <3> QED
      BY <1>0, <2>2, <2>3, <3>1
  <2>4. CASE ~(j <= i)
    <3>1. Follows(h[j - 1], g[j - 1], g[i].events)
      <4>1. CASE j - 1 = i
        BY <1>0, <1>3, <1>6, <4>1
      <4>2. CASE j - 1 # i
        BY <1>0, <1>6, <2>4, <4>2
      <4> QED
        BY <4>1, <4>2
    <3>2. bars[j].t \in Nat /\ bars[j].t # 0
      <4>1. bars[j] \in Rows
        BY <1>0
      <4> QED
        BY <1>0, <4>1, RowTypes DEF Dated
    <3>3. g[j] = BarStep(bars, v, g[j - 1], j)
      BY <3>2 DEF Replays, None
    <3>4. Follows(h[j], g[j], g[i].events)
      BY <1>0, <1>2, <2>2, <2>4, <3>1, <3>3, StepFollows
    <3> QED
      BY <1>0, <2>4, <3>4
  <2> QED
    BY <2>3, <2>4
<1> HIDE DEF G
<1>7. \A j \in 0..Len(bars) : j \in G
  BY <1>0, <1>5, <1>6, Onward
<1>8. Len(bars) \in G
  BY <1>0, <1>7
<1> QED
  <2>1. CASE Len(bars) = i
    BY <1>0, <1>3, <1>8, <2>1 DEF G
  <2>2. CASE Len(bars) # i
    BY <1>0, <1>8, <2>2 DEF G
  <2> QED
    BY <2>1, <2>2

\* The rest of a sequence after its first part.
LEMMA RestAfter ==
  ASSUME NEW before \in Seq(Events), NEW es \in Seq(Events), NEW all, all = before \o es
  PROVE  SubSeq(all, Len(before) + 1, Len(all)) = es
OBVIOUS

LEMMA SeededContinues ==
  ASSUME NEW rows, Dated(rows), NEW bars, bars = DropInvalidBars(rows), Timely(bars),
         NEW v, Canonical(v), NEW i \in DOMAIN bars
  PROVE  LET full == Replayed(bars, v, None, Flat)
         IN  RunFrom(bars, v, bars[i].t, full[i].pos)
                = SubSeq(full[Len(bars)].events, Len(full[i].events) + 1, Len(full[Len(bars)].events))
<1> DEFINE full == Replayed(bars, v, None, Flat)
           seeded == Replayed(bars, v, bars[i].t, full[i].pos)
<1>1. Dated(bars) /\ bars \in Seq(Rows) /\ DropInvalidBars(bars) = bars
  BY UsableBars, DroppedOnce DEF Dated
<1>2. Replays(full, bars, v, None, Flat) /\ Replays(seeded, bars, v, bars[i].t, full[i].pos)
  BY <1>1, ReplayedOf
<1>3. RunFrom(bars, v, bars[i].t, full[i].pos) = seeded[Len(bars)].events
  BY <1>1 DEF RunFrom
<1> HIDE DEF full, seeded
<1>4. Follows(seeded[Len(bars)], full[Len(bars)], full[i].events)
  BY <1>1, <1>2, SeedFollows
<1>5. full[i].events \in Seq(Events) /\ seeded[Len(bars)].events \in Seq(Events)
  <2>1. full[i] \in BarStates
    BY <1>1, <1>2, TypedReplay
  <2> QED
    BY <1>4, <2>1 DEF Follows, BarStates, EventSeqs
<1>6. full[Len(bars)].events = full[i].events \o seeded[Len(bars)].events
  BY <1>4 DEF Follows
<1> QED
  BY <1>3, <1>5, <1>6, RestAfter DEF full

\* Grids are made of rows with times.
RunsDated == report.by # "gate" => \A k \in DOMAIN report.runs : Dated(report.runs[k].bars)

LEMMA GridDated ==
  ASSUME NEW by, NEW asked, NEW frames \in Seq(Seq(Rows)), NEW designs, \A k \in DOMAIN frames : Dated(frames[k])
  PROVE  \A k \in DOMAIN Grid(by, asked, frames, designs).runs : Dated(Grid(by, asked, frames, designs).runs[k].bars)
<1> DEFINE made == Grid(by, asked, frames, designs)
           bars == [k \in DOMAIN made.runs |-> made.runs[k].bars]
<1>1. frames = [k \in DOMAIN frames |-> frames[k]]
  BY SequenceIsFunction
<1>2. made.runs = <<>> \/ bars = frames
  BY <1>1, GridReport
<1> SUFFICES \A k \in DOMAIN made.runs : Dated(made.runs[k].bars)
  OBVIOUS
<1> HIDE DEF made
<1>3. CASE made.runs = <<>>
  BY <1>3
<1>4. CASE bars = frames
  <2> TAKE k \in DOMAIN made.runs
  <2>1. k \in DOMAIN bars /\ bars[k] = made.runs[k].bars
    OBVIOUS
  <2> HIDE DEF bars
  <2> QED
    BY <1>4, <2>1
<1> QED
  BY <1>2, <1>3, <1>4

LEMMA DatedNext ==
  ASSUME Typed, LoadInv, RunsDated, [Next]_vars
  PROVE  RunsDated'
<1>0. \A by, asked, outcome : Made(by, asked, outcome).runs = <<>>
  BY DEF Made, NoReport
<1>1. CASE RunCsv
  <2>1. file.rows \in Seq(Rows)
    BY DEF Typed, FileType, RowSeqs
  <2>2. report' = IF 0 \in TimesIn(file.rows) THEN Made("csv", {}, "raised")
                  ELSE Grid("csv", {}, <<file.rows>>, <<LegacyDesign>>)
    BY <1>1 DEF RunCsv, Reports
  <2>3. CASE 0 \in TimesIn(file.rows)
    <3>1. report'.runs = <<>>
      BY <1>0, <2>2, <2>3
    <3> QED
      BY <3>1 DEF RunsDated
  <2>4. CASE 0 \notin TimesIn(file.rows)
    <3>1. Dated(file.rows)
      BY <2>1, <2>4 DEF Dated, TimesIn
    <3>2. <<file.rows>> \in Seq(Seq(Rows)) /\ \A k \in DOMAIN <<file.rows>> : Dated(<<file.rows>>[k])
      BY <2>1, <3>1
    <3>3. report' = Grid("csv", {}, <<file.rows>>, <<LegacyDesign>>)
      BY <2>2, <2>4
    <3> QED
      BY <3>2, <3>3, GridDated DEF RunsDated
  <2> QED
    BY <2>3, <2>4
<1>2. ASSUME NEW a \in DbRuns, RunDb(a) PROVE RunsDated'
  <2> DEFINE last == ResearchEnd(a.holdout)
             held == a.holdout # None
             end == IF held /\ a.end = None THEN last ELSE a.end
             frames == ContiguousSegments(ReadCandles(loads, a.source, a.start, end))
             leak == \E k \in DOMAIN frames : Last(frames[k]).t > last
             usage == held /\ (a.start > last \/ a.end > last)
             grid == Grid("db", {a}, frames, a.designs)
  <2>1. report' = IF usage THEN Made("db", {a}, "usage")
                  ELSE IF frames = <<>> THEN Made("db", {a}, "empty")
                  ELSE IF held /\ leak THEN Made("db", {a}, "raised")
                  ELSE grid
    BY <1>2 DEF RunDb, Reports
  <2>2. a.start \in Nat /\ end \in Nat
    BY EndIsNat
  <2> HIDE DEF end, usage, held, leak
  <2>3. FramesRead(frames, a.source, a.start, end)
    BY <2>2, FramesOfRead
  <2> HIDE DEF frames
  <2>4. \A k \in DOMAIN grid.runs : Dated(grid.runs[k].bars)
    <3>1. \A k \in DOMAIN frames : Dated(frames[k])
      BY <2>3, FramesAreDated
    <3>2. frames \in Seq(Seq(Rows))
      BY <2>3 DEF FramesRead
    <3> QED
      BY <3>1, <3>2, GridDated
  <2> HIDE DEF grid
  <2>5. report'.runs = <<>> \/ report' = grid
    BY <1>0, <2>1
  <2>6. CASE report'.runs = <<>>
    BY <2>6 DEF RunsDated
  <2>7. CASE report' = grid
    BY <2>4, <2>7 DEF RunsDated
  <2> QED
    BY <2>5, <2>6, <2>7
<1>3. ASSUME NEW source \in Sources, Gate(source) PROVE RunsDated'
  <2>1. PICK o \in {"raised", "reproduced", "differs"} : \E x : \E y :
          /\ report' = IF o = "raised" THEN Made("gate", {}, o)
                       ELSE [Made("gate", {}, o) EXCEPT !.selected = x, !.runs = y]
    BY <1>3 DEF Gate, Reports
  <2> QED
    BY <2>1 DEF RunsDated, Made, NoReport
<1>4. CASE UNCHANGED report
  BY <1>4 DEF RunsDated
<1>5. CASE DownloadStep
  BY <1>4, <1>5 DEF DownloadStep, Answer, Fetched, OpenFile, WriteDataset, WriteMetadata
<1>6. ASSUME NEW p \in Loaders, LoadStep(p) PROVE RunsDated'
  BY <1>4, <1>6 DEF LoadStep, Hash, Read, Find, Insert, FindAgain, Rehash
<1>7. CASE Kill \/ (\E r \in Requests : StartDownload(r)) \/ (\E p \in Loaders, o \in LoadOptions : StartLoad(p, o))
  BY <1>4, <1>7 DEF Kill, StartDownload, StartLoad
<1>8. CASE UNCHANGED vars
  BY <1>4, <1>8 DEF vars
<1> QED
  BY <1>1, <1>2, <1>3, <1>5, <1>6, <1>7, <1>8 DEF Next

LEMMA SeededOfDated ==
  ASSUME RunsDated
  PROVE  SeededRunContinues
<1> SUFFICES ASSUME NEW bars \in GridBars, NEW i \in DOMAIN bars
             PROVE  LET v == Named(Baseline)
                        full == Replayed(bars, v, None, Flat)
                    IN  RunFrom(bars, v, bars[i].t, full[i].pos)
                           = SubSeq(full[Len(bars)].events, Len(full[i].events) + 1, Len(full[Len(bars)].events))
  BY DEF SeededRunContinues
<1>1. PICK k \in DOMAIN report.runs : bars = DropInvalidBars(report.runs[k].bars)
  BY DEF GridBars
<1>2. report.by # "gate" /\ Timely(bars)
  BY DEF GridBars, Timely
<1>3. Dated(report.runs[k].bars)
  BY <1>2 DEF RunsDated
<1> QED
  BY <1>1, <1>2, <1>3, BaselineIsCanonical, SeededContinues

\* A replay seeded with the position held after any bar does what the full
\* replay does from there, on the bars of every grid made: a restart of paper
\* trading neither repeats an event nor loses or invents one.
THEOREM SeededRestartsContinue == Spec => []SeededRunContinues
<1>1. Init => RunsDated
  BY DEF Init, NoReport, RunsDated
<1>2. Typed /\ LoadInv /\ RunsDated /\ [Next]_vars => RunsDated'
  BY DatedNext
<1>3. RunsDated => SeededRunContinues
  BY SeededOfDated
<1> QED
  BY <1>1, <1>2, <1>3, AlwaysTyped, AlwaysLoadInv, PTL DEF Spec

-------------------------------------------------------------------------------
(* What the loops of the replay compute.                                       *)

Loop(f, n, base, step) == f = [i \in 0..n |-> IF i = 0 THEN base ELSE step[i][f[i - 1]]]

\* A loop of typed steps is a function, and its values are typed.
LEMMA Iterated ==
  ASSUME NEW n \in Nat, NEW S, NEW base \in S, NEW step \in [1..n -> [S -> S]]
  PROVE  \E f \in [0..n -> S] : Loop(f, n, base, step)
<1> DEFINE G == {m \in 0..n : \E f \in [0..m -> S] : Loop(f, m, base, step)}
<1>1. 0 \in G
  <2> DEFINE f == [i \in 0..0 |-> base]
  <2>1. f \in [0..0 -> S] /\ Loop(f, 0, base, step)
    BY DEF Loop
  <2>2. 0 \in 0..n
    OBVIOUS
  <2> HIDE DEF f
  <2> QED
    BY <2>1, <2>2
<1>2. ASSUME NEW m \in 1..n, m - 1 \in G PROVE m \in G
  <2>1. PICK g \in [0..(m - 1) -> S] : Loop(g, m - 1, base, step)
    BY <1>2
  <2> DEFINE f == [i \in 0..m |-> IF i = m THEN step[m][g[m - 1]] ELSE g[i]]
  <2>2. m - 1 \in 0..(m - 1) /\ step[m][g[m - 1]] \in S
    OBVIOUS
  <2>3. f \in [0..m -> S]
    <3>1. ASSUME NEW i \in 0..m PROVE (IF i = m THEN step[m][g[m - 1]] ELSE g[i]) \in S
      <4>1. i # m => i \in 0..(m - 1)
        OBVIOUS
      <4> QED
        BY <2>2, <4>1
    <3> QED
      BY <3>1
  <2>4. ASSUME NEW i \in 0..m PROVE f[i] = IF i = 0 THEN base ELSE step[i][f[i - 1]]
    <3>1. CASE i = m
      <4>1. i # 0 /\ i - 1 \in 0..m /\ i - 1 # m
        BY <3>1
      <4>2. f[i - 1] = g[m - 1]
        BY <3>1, <4>1
      <4> QED
        BY <3>1, <4>1, <4>2
    <3>2. CASE i # m
      <4>1. i \in 0..(m - 1) /\ f[i] = g[i]
        BY <3>2
      <4>2. g[i] = IF i = 0 THEN base ELSE step[i][g[i - 1]]
        BY <2>1, <4>1 DEF Loop
      <4>3. i # 0 => i - 1 \in 0..m /\ i - 1 # m
        BY <4>1
      <4>4. i # 0 => f[i - 1] = g[i - 1]
        BY <4>3
      <4> QED
        BY <4>1, <4>2, <4>4
    <3> QED
      BY <3>1, <3>2
  <2>5. Loop(f, m, base, step)
    BY <2>3, <2>4 DEF Loop
  <2>6. m \in 0..n
    OBVIOUS
  <2> HIDE DEF f
  <2> QED
    BY <2>3, <2>5, <2>6
<1> HIDE DEF G
<1>3. \A i \in 0..n : i \in G
  BY <1>1, <1>2, Onward
<1>4. n \in G
  BY <1>3
<1> QED
  BY <1>4 DEF G

ExitKinds == {"SL", "TARGET", "SQUARE_OFF"}
Entries == [kind : {"ENTRY"}, t : Nat, side : {-1, 1}, price : Int, level : Int]
Leaves == [kind : ExitKinds, t : Nat, side : {0}, price : Int, level : Int]
SimEvents == Entries \cup Leaves
SimEventSeqs == Seq(SimEvents)
SimTyped == [pos : Positions, day : Int, events : SimEventSeqs]
Trades == [entry : Nat, exit : Nat, side : {-1, 1}, reason : ExitKinds, points : Int]
TradeSeqs == Seq(Trades)

\* What one bar does to the research machine: nothing, one entry or one exit.
SimActs(s, next, b, v) ==
  \/ next = s
  \/ \E side \in {-1, 1} :
        next = [pos |-> Opened(b, side, v), day |-> Day(b.t),
                events |-> Append(s.events, EntryEvent(b, Opened(b, side, v)))]
  \/ \E reason \in ExitKinds, level \in {s.pos.sl, s.pos.tp, b.o, b.c} :
        next = [s EXCEPT !.pos = Flat, !.events = Append(@, ExitEvent(b, reason, level))]

LEMMA FillIsAPrice ==
  ASSUME NEW v, NEW p, NEW b, NEW level, NEW stopped
  PROVE  Fill(v, p, b, level, stopped) \in {level, b.o, b.c}
BY DEF Fill

LEMMA SimStepActs ==
  ASSUME NEW bars, NEW setups, NEW v, NEW s, NEW i
  PROVE  SimActs(s, SimStep(bars, setups, v, s, i), bars[i], v)
<1> DEFINE b == bars[i]
           p == s.pos
           leave(reason, level) == [s EXCEPT !.pos = Flat, !.events = Append(@, ExitEvent(b, reason, level))]
           enter(side) == [pos |-> Opened(b, side, v), day |-> Day(b.t),
                           events |-> Append(s.events, EntryEvent(b, Opened(b, side, v)))]
           stop == Fill(v, p, b, p.sl, TRUE)
           target == Fill(v, p, b, p.tp, FALSE)
           late == IF Day(b.t) # s.day THEN b.o ELSE b.c
           next == SimStep(bars, setups, v, s, i)
<1>1. stop \in {p.sl, b.o, b.c} /\ target \in {p.tp, b.o, b.c} /\ late \in {b.o, b.c}
  BY FillIsAPrice
<1>2. \/ next = s \/ next = enter(1) \/ next = enter(-1)
      \/ next = leave("SL", stop) \/ next = leave("TARGET", target)
      \/ next = leave("SQUARE_OFF", late)
  BY DEF SimStep
<1>3. ASSUME NEW side \in {-1, 1}, next = enter(side) PROVE SimActs(s, next, b, v)
  BY <1>3 DEF SimActs
<1>4. ASSUME NEW reason \in ExitKinds, NEW level \in {p.sl, p.tp, b.o, b.c}, next = leave(reason, level)
      PROVE  SimActs(s, next, b, v)
  BY <1>4 DEF SimActs
<1>5. next = s => SimActs(s, next, b, v)
  BY DEF SimActs
<1> HIDE DEF next, enter, leave, stop, target, late, b
<1> QED
  BY <1>1, <1>2, <1>3, <1>4, <1>5 DEF ExitKinds, b, next

LEMMA DayTyped == ASSUME NEW t \in Nat PROVE Day(t) \in Int
BY ReplayAssumption DEF Day

LEMMA SimStepTyped ==
  ASSUME NEW bars \in Seq(Rows), NEW setups, NEW v, v.sl \in Int, v.rr \in Int, NEW s \in SimTyped,
         NEW i \in DOMAIN bars
  PROVE  SimStep(bars, setups, v, s, i) \in SimTyped
<1> DEFINE b == bars[i]
           next == SimStep(bars, setups, v, s, i)
<1>1. b \in Rows
  OBVIOUS
<1>2. s.pos \in Positions /\ s.events \in Seq(SimEvents) /\ s.day \in Int
  BY DEF SimTyped, SimEventSeqs
<1>3. s.pos.sl \in Int /\ s.pos.tp \in Int /\ b.o \in Int /\ b.c \in Int /\ b.t \in Nat
  <2> HIDE DEF b, next
  <2>1. s.pos.sl \in Int /\ s.pos.tp \in Int
    BY <1>2 DEF Positions
  <2>2. b.o \in Int /\ b.c \in Int /\ b.t \in Nat
    BY <1>1 DEF Rows
  <2> QED
    BY <2>1, <2>2
<1>4. Day(b.t) \in Int
  <2> HIDE DEF b, next
  <2> QED
    BY <1>3, DayTyped
<1>5. SimActs(s, next, b, v)
  BY SimStepActs
<1> HIDE DEF b, next
<1>6. ASSUME NEW p \in Positions, NEW e \in SimEvents, NEW d \in Int
      PROVE  /\ [pos |-> p, day |-> d, events |-> Append(s.events, e)] \in SimTyped
             /\ [s EXCEPT !.pos = p, !.events = Append(@, e)] \in SimTyped
  <2>1. Append(s.events, e) \in SimEventSeqs
    BY <1>2 DEF SimEventSeqs
  <2> QED
    BY <1>2, <2>1 DEF SimTyped
<1>7. ASSUME NEW side \in {-1, 1},
             next = [pos |-> Opened(b, side, v), day |-> Day(b.t),
                     events |-> Append(s.events, EntryEvent(b, Opened(b, side, v)))]
      PROVE  next \in SimTyped
  <2>1. Opened(b, side, v) \in Positions
    BY <1>1, OpenedTyped
  <2>2. Opened(b, side, v).side = side
    BY DEF Opened
  <2>3. EntryEvent(b, Opened(b, side, v)) = [kind |-> "ENTRY", t |-> b.t, side |-> side, price |-> b.c, level |-> None]
    BY <2>2 DEF EntryEvent
  <2>4. EntryEvent(b, Opened(b, side, v)) \in SimEvents
    BY <1>3, <2>3 DEF SimEvents, Entries, None
  <2> QED
    BY <1>4, <1>6, <1>7, <2>1, <2>4
<1>8. ASSUME NEW reason \in ExitKinds, NEW level \in {s.pos.sl, s.pos.tp, b.o, b.c},
             next = [s EXCEPT !.pos = Flat, !.events = Append(@, ExitEvent(b, reason, level))]
      PROVE  next \in SimTyped
  <2>1. ExitEvent(b, reason, level) \in SimEvents
    BY <1>3 DEF ExitEvent, SimEvents, Leaves
  <2> QED
    BY <1>6, <1>8, <2>1, <1>4, FlatTyped
<1> QED
  BY <1>5, <1>7, <1>8 DEF SimActs, next

LEMMA SimulationTyped ==
  ASSUME NEW bars \in Seq(Rows), NEW v, v.sl \in Int, v.rr \in Int, NEW f, Simulates(f, bars, v)
  PROVE  \A i \in 0..Len(bars) : f[i] \in SimTyped
<1> DEFINE G == {i \in 0..Len(bars) : f[i] \in SimTyped}
<1>0. Len(bars) \in Nat
  OBVIOUS
<1>1. SimStart \in SimTyped
  BY FlatTyped DEF SimStart, SimTyped, SimEventSeqs, None
<1>2. 0 \in G
  BY <1>0, <1>1 DEF Simulates
<1>3. ASSUME NEW i \in 1..Len(bars), i - 1 \in G PROVE i \in G
  <2>1. i \in DOMAIN bars /\ i \in 0..Len(bars)
    BY <1>0
  <2>2. f[i] = SimStep(bars, VariantSetups(bars, v), v, f[i - 1], i)
    BY DEF Simulates
  <2>3. f[i - 1] \in SimTyped
    BY <1>3
  <2>4. f[i] \in SimTyped
    BY <2>1, <2>2, <2>3, SimStepTyped
  <2> QED
    BY <2>1, <2>4
<1> HIDE DEF G
<1>4. \A i \in 0..Len(bars) : i \in G
  BY <1>0, <1>2, <1>3, Onward
<1> QED
  BY <1>4 DEF G

Held == {<<>>} \cup {<<e>> : e \in Entries}
PairTyped == [open : Held, trades : TradeSeqs]
PairStart == [open |-> <<>>, trades |-> <<>>]

LEMMA PairStepTyped ==
  ASSUME NEW s \in PairTyped, NEW e \in SimEvents
  PROVE  PairStep(s, e, ExitKinds) \in PairTyped
<1>1. s.open \in Held /\ s.trades \in Seq(Trades)
  BY DEF PairTyped, TradeSeqs
<1>2. CASE e.kind = "ENTRY"
  <2>1. e \in Entries
    BY <1>2 DEF SimEvents, Leaves, ExitKinds
  <2>2. <<e>> \in Held
    BY <2>1 DEF Held
  <2>3. PairStep(s, e, ExitKinds) = [s EXCEPT !.open = <<e>>]
    BY <1>2 DEF PairStep, ExitKinds
  <2> QED
    BY <2>2, <2>3 DEF PairTyped
<1>3. CASE e.kind # "ENTRY" /\ s.open # <<>>
  <2>1. e \in Leaves
    BY <1>3 DEF SimEvents, Entries
  <2>2. PICK x \in Entries : s.open = <<x>>
    BY <1>1, <1>3 DEF Held
  <2> DEFINE trade == [entry |-> x.t, exit |-> e.t, side |-> x.side, reason |-> e.kind,
                       points |-> x.side * (e.level - x.price)]
  <2>3. e.kind \in ExitKinds /\ e.t \in Nat /\ e.level \in Int /\ x.t \in Nat /\ x.side \in {-1, 1} /\ x.price \in Int
    BY <2>1, <2>2 DEF Leaves, Entries
  <2>4. trade \in Trades
    BY <2>3 DEF Trades
  <2>5. s.open[1] = x
    BY <2>2
  <2>6. PairStep(s, e, ExitKinds) = [open |-> <<>>, trades |-> Append(s.trades, trade)]
    BY <1>3, <2>3, <2>5 DEF PairStep
  <2> HIDE DEF trade
  <2>7. Append(s.trades, trade) \in TradeSeqs
    BY <1>1, <2>4 DEF TradeSeqs
  <2> QED
    BY <2>6, <2>7 DEF PairTyped, Held
<1>4. CASE e.kind # "ENTRY" /\ s.open = <<>>
  <2>1. PairStep(s, e, ExitKinds) = s
    BY <1>4 DEF PairStep
  <2> QED
    BY <2>1
<1> QED
  BY <1>2, <1>3, <1>4

\* The states of the pairing, by their equations.
Pairs(f, events) ==
  /\ f \in [0..Len(events) -> PairTyped] /\ f[0] = PairStart
  /\ \A i \in 1..Len(events) : f[i] = PairStep(f[i - 1], events[i], ExitKinds)

LEMMA PairsTyped ==
  ASSUME NEW events \in SimEventSeqs, NEW f, PairedTo(f, events, ExitKinds)
  PROVE  Pairs(f, events)
<1> DEFINE G == {i \in 0..Len(events) : f[i] \in PairTyped}
<1>0. Len(events) \in Nat /\ \A i \in 1..Len(events) : events[i] \in SimEvents
  BY DEF SimEventSeqs
<1>1. f[0] = PairStart /\ DOMAIN f = 0..Len(events) /\ f = [i \in 0..Len(events) |-> f[i]]
  BY <1>0 DEF PairedTo, PairStart
<1>2. ASSUME NEW i \in 1..Len(events) PROVE f[i] = PairStep(f[i - 1], events[i], ExitKinds)
  <2>1. i \in 0..Len(events) /\ i # 0
    BY <1>0
  <2> QED
    BY <2>1 DEF PairedTo
<1>3. PairStart \in PairTyped
  <2>1. <<>> \in TradeSeqs
    BY DEF TradeSeqs
  <2> QED
    BY <2>1 DEF PairStart, PairTyped, Held
<1>4. 0 \in G
  BY <1>0, <1>1, <1>3
<1>5. ASSUME NEW i \in 1..Len(events), i - 1 \in G PROVE i \in G
  <2>1. f[i - 1] \in PairTyped /\ i \in 0..Len(events)
    BY <1>0, <1>5
  <2>2. f[i] \in PairTyped
    BY <1>0, <1>2, <2>1, PairStepTyped
  <2> QED
    BY <2>1, <2>2
<1> HIDE DEF G
<1>6. \A i \in 0..Len(events) : i \in G
  BY <1>0, <1>4, <1>5, Onward
<1>7. f \in [0..Len(events) -> PairTyped]
  BY <1>1, <1>6 DEF G
<1> QED
  BY <1>1, <1>2, <1>7 DEF Pairs

LEMMA PairedExists ==
  ASSUME NEW events \in SimEventSeqs
  PROVE  \E f : PairedTo(f, events, ExitKinds)
<1> DEFINE n == Len(events)
           step == [i \in 1..n |-> [s \in PairTyped |-> PairStep(s, events[i], ExitKinds)]]
<1>0. n \in Nat /\ \A i \in 1..n : events[i] \in SimEvents
  BY DEF SimEventSeqs
<1>1. PairStart \in PairTyped
  <2>1. <<>> \in TradeSeqs
    BY DEF TradeSeqs
  <2> QED
    BY <2>1 DEF PairStart, PairTyped, Held
<1>2. step \in [1..n -> [PairTyped -> PairTyped]]
  BY <1>0, PairStepTyped
<1>3. \A i \in 1..n : \A s \in PairTyped : step[i][s] = PairStep(s, events[i], ExitKinds)
  OBVIOUS
<1> HIDE DEF step, n
<1>4. PICK f \in [0..n -> PairTyped] : Loop(f, n, PairStart, step)
  BY <1>0, <1>1, <1>2, Iterated
<1>5. ASSUME NEW i \in 0..n, i # 0 PROVE step[i][f[i - 1]] = PairStep(f[i - 1], events[i], ExitKinds)
  <2>1. i \in 1..n /\ i - 1 \in 0..n
    BY <1>0, <1>5
  <2> QED
    BY <1>3, <2>1
<1>6. f = [i \in 0..n |-> IF i = 0 THEN PairStart ELSE PairStep(f[i - 1], events[i], ExitKinds)]
  BY <1>4, <1>5 DEF Loop
<1>7. PairedTo(f, events, ExitKinds)
  BY <1>6 DEF PairedTo, PairStart, n
<1> QED
  BY <1>7

LEMMA PairOf ==
  ASSUME NEW events \in SimEventSeqs
  PROVE  \E f : Pairs(f, events) /\ Pair(events) = f[Len(events)].trades
<1> DEFINE f == CHOOSE h : PairedTo(h, events, ExitKinds)
<1>1. PairedTo(f, events, ExitKinds)
  BY PairedExists
<1>2. Pair(events) = f[Len(events)].trades
  BY PairedIs DEF Pair, ExitKinds
<1> HIDE DEF f
<1>3. Pairs(f, events)
  BY <1>1, PairsTyped
<1> QED
  BY <1>2, <1>3

LEMMA TradesTyped ==
  ASSUME NEW rows \in Seq(Rows), NEW v, v.sl \in Int, v.rr \in Int
  PROVE  TradesOf(rows, v) \in TradeSeqs
<1>1. DropInvalidBars(rows) \in Seq(Rows)
  <2>1. Where(rows, UsableBar) \in SUBSET DOMAIN rows
    BY DEF Where
  <2> QED
    BY <2>1, PartOf DEF DropInvalidBars
<1>2. PICK f : Simulates(f, DropInvalidBars(rows), v) /\ Simulate(rows, v) = f[Len(DropInvalidBars(rows))].events
  BY <1>1, SimulatedOf
<1>3. Len(DropInvalidBars(rows)) \in 0..Len(DropInvalidBars(rows))
  BY <1>1
<1>4. f[Len(DropInvalidBars(rows))] \in SimTyped
  BY <1>1, <1>2, <1>3, SimulationTyped
<1>5. Simulate(rows, v) \in SimEventSeqs
  BY <1>2, <1>4 DEF SimTyped
<1>6. PICK g : Pairs(g, Simulate(rows, v)) /\ Pair(Simulate(rows, v)) = g[Len(Simulate(rows, v))].trades
  BY <1>5, PairOf
<1>7. Len(Simulate(rows, v)) \in 0..Len(Simulate(rows, v))
  BY <1>5 DEF SimEventSeqs
<1>8. g[Len(Simulate(rows, v))] \in PairTyped
  BY <1>6, <1>7 DEF Pairs
<1> QED
  BY <1>6, <1>8 DEF TradesOf, PairTyped

LEMMA NamedTyped ==
  ASSUME NEW n \in Names
  PROVE  Named(n).sl \in Int /\ Named(n).rr \in Int /\ Named(n).name = n
<1>1. \E v \in Range(Variants) : v.name = n
  BY DEF Names, Range
<1>2. Named(n) \in Range(Variants) /\ Named(n).name = n
  BY <1>1 DEF Named, ByName
<1>3. PICK i \in DOMAIN Variants : Named(n) = Variants[i]
  BY <1>2 DEF Range
<1> QED
  BY <1>2, <1>3, WalkForwardAssumption

\* A finite set in the order of a whole number told of each of its members.
KeyOrder(S, f) == [k \in 1..Cardinality(S) |-> CHOOSE x \in S : Rank(S, f, x) = k - 1]

LEMMA InOrderOfKey ==
  ASSUME NEW S, IsFiniteSet(S), NEW f \in [S -> Int], \A x, y \in S : f[x] = f[y] => x = y
  PROVE  /\ KeyOrder(S, f) \in Seq(S) /\ Len(KeyOrder(S, f)) = Cardinality(S) /\ Cardinality(S) \in Nat
         /\ \A j, k \in 1..Len(KeyOrder(S, f)) : j < k <=> f[KeyOrder(S, f)[j]] < f[KeyOrder(S, f)[k]]
         /\ \A x \in S : \E k \in 1..Len(KeyOrder(S, f)) : KeyOrder(S, f)[k] = x
<1> DEFINE e == KeyOrder(S, f)
           n == Cardinality(S)
<1>1. /\ n \in Nat
      /\ \A x \in S : Rank(S, f, x) \in 0..(n - 1)
      /\ \A x, y \in S : f[x] < f[y] <=> Rank(S, f, x) < Rank(S, f, y)
      /\ \A k \in 1..n : \E x \in S : Rank(S, f, x) = k - 1
  BY Ranks
<1>2. e = [k \in 1..n |-> CHOOSE x \in S : Rank(S, f, x) = k - 1]
  BY DEF KeyOrder
<1> HIDE DEF e, n
<1>3. \A k \in 1..n : e[k] \in S /\ Rank(S, f, e[k]) = k - 1
  BY <1>1, <1>2
<1>4. e \in Seq(S) /\ Len(e) = n
  <2>1. e \in [1..n -> S]
    BY <1>2, <1>3
  <2> QED
    BY <1>1, <2>1
<1>5. \A j, k \in 1..n : j < k <=> f[e[j]] < f[e[k]]
  <2> TAKE j, k \in 1..n
  <2>1. f[e[j]] < f[e[k]] <=> Rank(S, f, e[j]) < Rank(S, f, e[k])
    BY <1>1, <1>3
  <2>2. Rank(S, f, e[j]) = j - 1 /\ Rank(S, f, e[k]) = k - 1
    BY <1>3
  <2>3. j \in Int /\ k \in Int
    BY <1>1
  <2> QED
    BY <2>1, <2>2, <2>3
<1>6. \A x \in S : \E k \in 1..n : e[k] = x
  <2> TAKE x \in S
  <2>1. PICK k \in 1..n : k = Rank(S, f, x) + 1
    BY <1>1
  <2>2. e[k] \in S /\ Rank(S, f, e[k]) = k - 1
    BY <1>3, <2>1
  <2>3. Rank(S, f, x) \in Int /\ k \in Int
    BY <1>1
  <2>4. ~(Rank(S, f, e[k]) < Rank(S, f, x)) /\ ~(Rank(S, f, x) < Rank(S, f, e[k]))
    BY <2>1, <2>2, <2>3
  <2>5. ~(f[e[k]] < f[x]) /\ ~(f[x] < f[e[k]])
    BY <1>1, <2>2, <2>4
  <2>6. f[e[k]] \in Int /\ f[x] \in Int
    BY <2>2
  <2>7. f[e[k]] = f[x]
    BY <2>5, <2>6
  <2> QED
    BY <2>2, <2>7
<1> QED
  BY <1>1, <1>4, <1>5, <1>6 DEF e, n

\* The running sums of the points.
Sums(f, trades) ==
  /\ f \in [0..Len(trades) -> Int] /\ f[0] = 0
  /\ \A i \in 1..Len(trades) : f[i] = f[i - 1] + trades[i].points

SumTo(f, trades) == f = [i \in 0..Len(trades) |-> IF i = 0 THEN 0 ELSE f[i - 1] + trades[i].points]

LEMMA NetIs ==
  ASSUME NEW trades
  PROVE  Net(trades) = (CHOOSE f : SumTo(f, trades))[Len(trades)]
BY DEF Net, SumOf, SumTo

LEMMA PointsTyped ==
  ASSUME NEW trades \in TradeSeqs
  PROVE  Len(trades) \in Nat /\ \A i \in 1..Len(trades) : trades[i] \in Trades /\ trades[i].points \in Int
<1>1. Len(trades) \in Nat /\ \A i \in 1..Len(trades) : trades[i] \in Trades
  BY DEF TradeSeqs
<1> QED
  BY <1>1 DEF Trades

LEMMA SumsTyped ==
  ASSUME NEW trades \in TradeSeqs, NEW f, SumTo(f, trades)
  PROVE  Sums(f, trades)
<1> DEFINE G == {i \in 0..Len(trades) : f[i] \in Int}
<1>0. Len(trades) \in Nat /\ \A i \in 1..Len(trades) : trades[i].points \in Int
  BY PointsTyped
<1>1. f[0] = 0 /\ DOMAIN f = 0..Len(trades) /\ f = [i \in 0..Len(trades) |-> f[i]]
  BY <1>0 DEF SumTo
<1>2. ASSUME NEW i \in 1..Len(trades) PROVE f[i] = f[i - 1] + trades[i].points
  <2>1. i \in 0..Len(trades) /\ i # 0
    BY <1>0
  <2> QED
    BY <2>1 DEF SumTo
<1>3. 0 \in G
  BY <1>0, <1>1
<1>4. ASSUME NEW i \in 1..Len(trades), i - 1 \in G PROVE i \in G
  <2>1. f[i - 1] \in Int /\ i \in 0..Len(trades)
    BY <1>0, <1>4
  <2>2. f[i] \in Int
    BY <1>0, <1>2, <2>1
  <2> QED
    BY <2>1, <2>2
<1> HIDE DEF G
<1>5. \A i \in 0..Len(trades) : i \in G
  BY <1>0, <1>3, <1>4, Onward
<1>6. f \in [0..Len(trades) -> Int]
  BY <1>1, <1>5 DEF G
<1> QED
  BY <1>1, <1>2, <1>6 DEF Sums

LEMMA SumExists ==
  ASSUME NEW trades \in TradeSeqs
  PROVE  \E f : SumTo(f, trades)
<1> DEFINE n == Len(trades)
           step == [i \in 1..n |-> [s \in Int |-> s + trades[i].points]]
<1>0. n \in Nat /\ \A i \in 1..n : trades[i].points \in Int
  BY PointsTyped
<1>1. step \in [1..n -> [Int -> Int]]
  <2>1. \A i \in 1..n : \A s \in Int : s + trades[i].points \in Int
    BY <1>0
  <2> QED
    BY <2>1
<1>2. \A i \in 1..n : \A s \in Int : step[i][s] = s + trades[i].points
  OBVIOUS
<1> HIDE DEF step, n
<1>2a. 0 \in Int /\ n \in Nat
  BY <1>0
<1>2b. \E f \in [0..n -> Int] : Loop(f, n, 0, step)
  BY <1>1, <1>2a, Iterated, Zenon
<1>3. PICK f \in [0..n -> Int] : Loop(f, n, 0, step)
  BY <1>2b
<1>4. ASSUME NEW i \in 0..n, i # 0 PROVE step[i][f[i - 1]] = f[i - 1] + trades[i].points
  <2>1. i \in 1..n /\ i - 1 \in 0..n
    BY <1>0, <1>4
  <2> QED
    BY <1>2, <2>1
<1>5. f = [i \in 0..n |-> IF i = 0 THEN 0 ELSE f[i - 1] + trades[i].points]
  BY <1>3, <1>4 DEF Loop
<1>6. SumTo(f, trades)
  BY <1>5 DEF SumTo, n
<1> QED
  BY <1>6

LEMMA NetOf ==
  ASSUME NEW trades \in TradeSeqs
  PROVE  /\ \E f : Sums(f, trades) /\ Net(trades) = f[Len(trades)]
         /\ Net(trades) \in Int
<1> DEFINE f == CHOOSE h : SumTo(h, trades)
<1>1. SumTo(f, trades)
  BY SumExists
<1>2. Net(trades) = f[Len(trades)]
  BY NetIs
<1> HIDE DEF f
<1>3. Sums(f, trades)
  BY <1>1, SumsTyped
<1>4. Len(trades) \in 0..Len(trades)
  BY PointsTyped
<1>5. Net(trades) \in Int
  BY <1>2, <1>3, <1>4 DEF Sums
<1> QED
  BY <1>2, <1>3, <1>5

\* Two whole numbers, the second in 1..n, told apart by one.
LEMMA Lexicographic ==
  ASSUME NEW n \in Nat, NEW a \in Int, NEW b \in Int, NEW i \in 1..n, NEW j \in 1..n
  PROVE  /\ (n + 1) * a + i \in Int
         /\ (n + 1) * a + i < (n + 1) * b + j <=> (a < b \/ (a = b /\ i < j))
         /\ (n + 1) * a + i = (n + 1) * b + j => i = j
<1>1. ASSUME NEW x \in Int, NEW y \in Int, x < y PROVE (n + 1) * x + (n + 1) <= (n + 1) * y
  <2>1. n + 1 \in Nat /\ x + 1 \in Int /\ x + 1 <= y
    BY <1>1
  <2>2. (n + 1) * (x + 1) <= (n + 1) * y
    BY <2>1, MonotoneProduct
  <2>3. (n + 1) * (x + 1) = (n + 1) * x + (n + 1)
    OBVIOUS
  <2> QED
    BY <2>2, <2>3
<1>2. PICK p \in Int : p = (n + 1) * a
  OBVIOUS
<1>3. PICK q \in Int : q = (n + 1) * b
  OBVIOUS
<1>4. (a < b => p + (n + 1) <= q) /\ (b < a => q + (n + 1) <= p) /\ (a = b => p = q)
  BY <1>1, <1>2, <1>3
<1>5. a < b \/ b < a \/ a = b
  OBVIOUS
<1>6. p + i \in Int /\ (p + i < q + j <=> (a < b \/ (a = b /\ i < j))) /\ (p + i = q + j => i = j)
  <2>1. CASE a < b
    BY <1>4, <2>1
  <2>2. CASE b < a
    BY <1>4, <2>2
  <2>3. CASE a = b
    BY <1>4, <2>3
  <2> QED
    BY <1>5, <2>1, <2>2, <2>3
<1> QED
  BY <1>2, <1>3, <1>6

\* A rearrangement of a sequence.
Rearranges(at, o, s) ==
  /\ at \in Seq(DOMAIN s) /\ Len(at) = Len(s) /\ o = [k \in 1..Len(s) |-> s[at[k]]]
  /\ \A j, k \in 1..Len(s) : at[j] = at[k] => j = k
  /\ \A x \in DOMAIN s : \E k \in 1..Len(s) : at[k] = x

LEMMA OldestFirstOf ==
  ASSUME NEW trades \in TradeSeqs
  PROVE  /\ OldestFirst(trades) \in TradeSeqs /\ Len(OldestFirst(trades)) = Len(trades)
         /\ \E at : Rearranges(at, OldestFirst(trades), trades)
<1> DEFINE n == Len(trades)
           S == 1..n
           before(i, j) == \/ trades[i].entry < trades[j].entry
                           \/ trades[i].entry = trades[j].entry /\ i < j
           f == [i \in S |-> (n + 1) * trades[i].entry + i]
           at == Ordered(DOMAIN trades, before)
<1>1. n \in Nat /\ DOMAIN trades = S /\ \A i \in S : trades[i] \in Trades
  BY DEF TradeSeqs
<1>2. IsFiniteSet(S) /\ Cardinality(S) = n
  BY <1>1, FS_Interval
<1>3. \A i \in S : trades[i].entry \in Int
  BY <1>1 DEF Trades
<1>4. \A i \in S : f[i] = (n + 1) * trades[i].entry + i
  OBVIOUS
<1> HIDE DEF f
<1>5. ASSUME NEW i \in S, NEW j \in S
      PROVE  f[i] \in Int /\ (f[i] < f[j] <=> before(i, j)) /\ (f[i] = f[j] => i = j)
  <2>1. PICK a \in Int : a = trades[i].entry
    BY <1>3
  <2>2. PICK b \in Int : b = trades[j].entry
    BY <1>3
  <2>3. f[i] = (n + 1) * a + i /\ f[j] = (n + 1) * b + j
    BY <1>4, <2>1, <2>2
  <2>4. n \in Nat /\ i \in 1..n /\ j \in 1..n
    BY <1>1
  <2> HIDE DEF n, S, before
  <2>5. /\ (n + 1) * a + i \in Int
        /\ (n + 1) * a + i < (n + 1) * b + j <=> (a < b \/ (a = b /\ i < j))
        /\ (n + 1) * a + i = (n + 1) * b + j => i = j
    BY <2>4, Lexicographic
  <2>6. before(i, j) <=> (a < b \/ (a = b /\ i < j))
    BY <2>1, <2>2 DEF before
  <2> QED
    BY <2>3, <2>5, <2>6
<1>6. f \in [S -> Int] /\ \A x, y \in S : f[x] = f[y] => x = y
  <2>1. f = [i \in S |-> f[i]]
    BY DEF f
  <2>2. \A i \in S : f[i] \in Int
    BY <1>5
  <2> QED
    BY <1>5, <2>1, <2>2
<1>7. at = KeyOrder(S, f)
  <2>1. \A x \in S : {y \in S : before(y, x)} = {y \in S : f[y] < f[x]}
    BY <1>5
  <2>2. \A x \in S : Cardinality({y \in S : before(y, x)}) = Rank(S, f, x)
    BY <2>1 DEF Rank
  <2>3. at = [k \in 1..Cardinality(S) |-> CHOOSE x \in S : Cardinality({y \in S : before(y, x)}) = k - 1]
    BY <1>1 DEF Ordered
  <2> HIDE DEF before, at
  <2> QED
    BY <2>2, <2>3 DEF KeyOrder
<1>8. OldestFirst(trades) = [k \in DOMAIN at |-> trades[at[k]]]
  BY DEF OldestFirst
<1> HIDE DEF at, before, S, n
<1>9. /\ at \in Seq(S) /\ Len(at) = n
      /\ \A j, k \in 1..Len(at) : j < k <=> f[at[j]] < f[at[k]]
      /\ \A x \in S : \E k \in 1..Len(at) : at[k] = x
  <2>1. /\ KeyOrder(S, f) \in Seq(S) /\ Len(KeyOrder(S, f)) = Cardinality(S)
        /\ \A j, k \in 1..Len(KeyOrder(S, f)) : j < k <=> f[KeyOrder(S, f)[j]] < f[KeyOrder(S, f)[k]]
        /\ \A x \in S : \E k \in 1..Len(KeyOrder(S, f)) : KeyOrder(S, f)[k] = x
    BY <1>2, <1>6, InOrderOfKey
  <2> QED
    BY <1>2, <1>7, <2>1
<1>10. DOMAIN at = 1..n /\ \A k \in 1..n : at[k] \in S
  BY <1>1, <1>9
<1>11. OldestFirst(trades) = [k \in 1..n |-> trades[at[k]]]
  BY <1>8, <1>10
<1>12. OldestFirst(trades) \in [1..n -> Trades]
  BY <1>1, <1>10, <1>11
<1>13. OldestFirst(trades) \in TradeSeqs /\ Len(OldestFirst(trades)) = n
  BY <1>1, <1>12 DEF TradeSeqs
<1>14. \A j, k \in 1..n : at[j] = at[k] => j = k
  <2> TAKE j, k \in 1..n
  <2> HAVE at[j] = at[k]
  <2>1. f[at[j]] = f[at[k]] /\ f[at[j]] \in Int
    BY <1>6, <1>10
  <2>2. ~(f[at[j]] < f[at[k]]) /\ ~(f[at[k]] < f[at[j]])
    BY <2>1
  <2>3. ~(j < k) /\ ~(k < j) /\ j \in Int /\ k \in Int
    BY <1>1, <1>9, <2>2
  <2> QED
    BY <2>3
<1>15. Rearranges(at, OldestFirst(trades), trades)
  BY <1>1, <1>9, <1>11, <1>14 DEF Rearranges, n
<1> QED
  BY <1>13, <1>15 DEF n

Flattens(f, seqs) == f = [i \in 1..Len(seqs) |-> IF i = 1 THEN seqs[i] ELSE f[i - 1] \o seqs[i]]

LEMMA FlattenIs ==
  ASSUME NEW seqs, Len(seqs) # 0
  PROVE  FlattenSeq(seqs) = (CHOOSE f : Flattens(f, seqs))[Len(seqs)]
BY DEF FlattenSeq, Flattens

LEMMA FlattenExists ==
  ASSUME NEW seqs \in Seq(TradeSeqs)
  PROVE  \E f : Flattens(f, seqs)
<1> DEFINE n == Len(seqs)
           next(i, s) == IF i = 1 THEN seqs[i] ELSE s \o seqs[i]
           step == [i \in 1..n |-> [s \in TradeSeqs |-> next(i, s)]]
<1>0. n \in Nat /\ \A i \in 1..n : seqs[i] \in TradeSeqs
  OBVIOUS
<1>1. \A i \in 1..n : \A s \in TradeSeqs : next(i, s) \in TradeSeqs
  <2> TAKE i \in 1..n
  <2> TAKE s \in TradeSeqs
  <2>1. seqs[i] \in TradeSeqs
    BY <1>0
  <2>2. s \o seqs[i] \in TradeSeqs
    BY <2>1 DEF TradeSeqs
  <2> QED
    BY <2>1, <2>2
<1>2. <<>> \in TradeSeqs
  BY DEF TradeSeqs
<1> HIDE DEF next
<1>3. step \in [1..n -> [TradeSeqs -> TradeSeqs]]
  BY <1>1
<1>4. \A i \in 1..n : \A s \in TradeSeqs : step[i][s] = next(i, s)
  OBVIOUS
<1> HIDE DEF step, n
<1>5. \E f \in [0..n -> TradeSeqs] : Loop(f, n, <<>>, step)
  BY <1>0, <1>2, <1>3, Iterated, Zenon
<1>6. PICK h \in [0..n -> TradeSeqs] : Loop(h, n, <<>>, step)
  BY <1>5
<1>7. ASSUME NEW i \in 1..n PROVE h[i] = next(i, h[i - 1])
  <2>1. i \in 0..n /\ i - 1 \in 0..n /\ i # 0
    BY <1>0
  <2>2. h[i] = step[i][h[i - 1]]
    BY <1>6, <2>1 DEF Loop
  <2> QED
    BY <1>4, <2>1, <2>2
<1> DEFINE f == [i \in 1..n |-> h[i]]
<1>8. ASSUME NEW i \in 1..n PROVE f[i] = IF i = 1 THEN seqs[i] ELSE f[i - 1] \o seqs[i]
  <2>1. f[i] = next(i, h[i - 1])
    BY <1>7
  <2>2. CASE i = 1
    BY <2>1, <2>2 DEF next
  <2>3. CASE i # 1
    <3>1. i - 1 \in 1..n
      BY <1>0, <2>3
    <3>2. f[i - 1] = h[i - 1]
      BY <3>1
    <3> QED
      BY <2>1, <2>3, <3>2 DEF next
  <2> QED
    BY <2>2, <2>3
<1>9. f = [i \in 1..n |-> IF i = 1 THEN seqs[i] ELSE f[i - 1] \o seqs[i]]
  BY <1>8
<1> HIDE DEF f
<1>10. Flattens(f, seqs)
  BY <1>9 DEF Flattens, n
<1> QED
  BY <1>10

LEMMA FlattenTyped ==
  ASSUME NEW seqs \in Seq(TradeSeqs)
  PROVE  FlattenSeq(seqs) \in TradeSeqs
<1> DEFINE f == CHOOSE h : Flattens(h, seqs)
           G == {i \in 0..Len(seqs) : i = 0 \/ f[i] \in TradeSeqs}
<1>0. Len(seqs) \in Nat /\ \A i \in 1..Len(seqs) : seqs[i] \in TradeSeqs
  OBVIOUS
<1>1. Flattens(f, seqs)
  BY FlattenExists
<1>2. CASE Len(seqs) = 0
  <2>1. seqs = <<>>
    BY <1>2
  <2>2. FlattenSeq(seqs) = seqs
    BY <1>2 DEF FlattenSeq
  <2>3. <<>> \in TradeSeqs
    BY DEF TradeSeqs
  <2> HIDE DEF f, G
  <2> QED
    BY <2>1, <2>2, <2>3, Zenon
<1>3. CASE Len(seqs) # 0
  <2>1. FlattenSeq(seqs) = f[Len(seqs)]
    BY <1>3, FlattenIs
  <2> HIDE DEF f
  <2>2. 0 \in G
    BY <1>0
  <2>3. ASSUME NEW i \in 1..Len(seqs), i - 1 \in G PROVE i \in G
    <3>1. f[i] = IF i = 1 THEN seqs[i] ELSE f[i - 1] \o seqs[i]
      BY <1>1 DEF Flattens
    <3>2. seqs[i] \in TradeSeqs /\ i \in 0..Len(seqs)
      BY <1>0
    <3>3. CASE i = 1
      BY <3>1, <3>2, <3>3
    <3>4. CASE i # 1
      <4>1. f[i - 1] \in TradeSeqs
        BY <2>3, <3>4
      <4>2. f[i - 1] \o seqs[i] \in TradeSeqs
        BY <3>2, <4>1 DEF TradeSeqs
      <4> QED
        BY <3>1, <3>2, <3>4, <4>2
    <3> QED
      BY <3>3, <3>4
  <2> HIDE DEF G
  <2>4. \A i \in 0..Len(seqs) : i \in G
    BY <1>0, <2>2, <2>3, Onward
  <2>5. Len(seqs) \in G
    BY <1>0, <2>4
  <2> QED
    BY <1>3, <2>1, <2>5 DEF G
<1> QED
  BY <1>2, <1>3

LEMMA EnteredTyped ==
  ASSUME NEW trades \in TradeSeqs, NEW first, NEW last
  PROVE  Entered(trades, first, last) \in TradeSeqs
<1> DEFINE S == {i \in DOMAIN trades : first <= Day(trades[i].entry) /\ Day(trades[i].entry) <= last}
<1>1. Entered(trades, first, last) = Part(trades, S)
  BY DEF Entered, Those, Where
<1>2. trades \in Seq(Trades) /\ S \in SUBSET DOMAIN trades
  BY DEF TradeSeqs
<1> HIDE DEF S
<1>3. Part(trades, S) \in Seq(Trades)
  BY <1>2, PartOf
<1> QED
  BY <1>1, <1>3 DEF TradeSeqs

LEMMA SummaryNet ==
  ASSUME NEW trades \in TradeSeqs, NEW regimes
  PROVE  Summarize(trades, regimes).net \in Int
<1>1. OldestFirst(trades) \in TradeSeqs
  BY OldestFirstOf
<1>2. Net(OldestFirst(trades)) \in Int
  BY <1>1, NetOf
<1>3. Summarize(trades, regimes).net = Net(OldestFirst(trades))
  BY DEF Summarize
<1> QED
  BY <1>2, <1>3

LEMMA TradingDaysOf ==
  ASSUME NEW bars \in Seq(Rows)
  PROVE  LET days == TradingDays(bars)
             held == {Day(bars[i].t) : i \in DOMAIN bars}
         IN  /\ days \in Seq(held) /\ held \subseteq Int /\ Len(days) \in Nat
             /\ \A j, k \in 1..Len(days) : j < k <=> days[j] < days[k]
             /\ \A x \in held : \E k \in 1..Len(days) : days[k] = x
<1> DEFINE held == {Day(bars[i].t) : i \in DOMAIN bars}
<1>1. IsFiniteSet(DOMAIN bars)
  BY DomainFinite
<1>2. IsFiniteSet(held)
  <2> DEFINE f == [i \in DOMAIN bars |-> Day(bars[i].t)]
  <2>1. f \in Surjection(DOMAIN bars, held)
    <3>1. f \in [DOMAIN bars -> held]
      OBVIOUS
    <3>2. \A x \in held : \E i \in DOMAIN bars : f[i] = x
      OBVIOUS
    <3> QED
      BY <3>1, <3>2 DEF Surjection
  <2> QED
    BY <1>1, <2>1, FS_Surjection
<1>3. held \subseteq Int
  <2> SUFFICES ASSUME NEW i \in DOMAIN bars PROVE Day(bars[i].t) \in Int
    OBVIOUS
  <2>1. bars[i] \in Rows
    OBVIOUS
  <2> QED
    BY <2>1, RowTypes, DayTyped
<1>4. TradingDays(bars) = Ordered(held, <)
  BY DEF TradingDays
<1> HIDE DEF held
<1>5. /\ Ordered(held, <) \in Seq(held) /\ Len(Ordered(held, <)) = Cardinality(held) /\ Cardinality(held) \in Nat
      /\ \A j, k \in 1..Len(Ordered(held, <)) : j < k <=> Ordered(held, <)[j] < Ordered(held, <)[k]
      /\ \A x \in held : \E k \in 1..Len(Ordered(held, <)) : Ordered(held, <)[k] = x
  BY <1>2, <1>3, OrderedNumbers
<1> QED
  BY <1>3, <1>4, <1>5 DEF held

\* The windows of a design, as many as there is room for, end inside the days.
LEMMA WindowBoundsOf ==
  ASSUME NEW n \in Nat, NEW d \in Designs
  PROVE  /\ \E count \in Nat : DOMAIN WindowBounds(n, d) = 1..count
         /\ \A k \in DOMAIN WindowBounds(n, d) : WindowBounds(n, d)[k].trainLast \in 1..n
<1> DEFINE room == n - d.warmup - d.train - d.test
           count == IF room < 0 THEN 0 ELSE room \div d.step + 1
           end(k) == d.warmup + d.train + (k - 1) * d.step
<1>1. /\ d.warmup \in Nat /\ d.train \in Nat \ {0} /\ d.test \in Nat \ {0} /\ d.step \in Nat \ {0}
  BY DEF Designs
<1>2. room \in Int
  BY <1>1
<1>3. DOMAIN WindowBounds(n, d) = 1..count /\ \A k \in 1..count : WindowBounds(n, d)[k].trainLast = end(k)
  BY DEF WindowBounds
<1> HIDE DEF room, end
<1>4. CASE room < 0
  <2>1. count = 0
    BY <1>4
  <2> HIDE DEF count
  <2> QED
    BY <1>3, <2>1
<1>5. CASE ~(room < 0)
  <2>1. PICK q \in Nat : q = room \div d.step /\ d.step * q <= room
    <3>1. room >= 0
      BY <1>2, <1>5
    <3> QED
      BY <1>1, <1>2, <3>1, Division
  <2>2. count = q + 1
    BY <1>5, <2>1
  <2> HIDE DEF count
  <2>3. ASSUME NEW k \in 1..count PROVE end(k) \in 1..n
    <3>1. k - 1 \in Int /\ 0 <= k - 1 /\ k - 1 <= q
      BY <2>1, <2>2
    <3>2. d.step * 0 <= d.step * (k - 1) /\ d.step * (k - 1) <= d.step * q
      BY <1>1, <2>1, <3>1, MonotoneProduct
    <3>3. PICK x \in Int : x = (k - 1) * d.step
      BY <1>1, <3>1
    <3>4. 0 <= x /\ x <= room
      <4>1. d.step * (k - 1) = x /\ d.step * 0 = 0
        BY <1>1, <3>1, <3>3
      <4>2. d.step * q \in Int
        BY <1>1, <2>1
      <4> QED
        BY <1>2, <2>1, <3>2, <4>1, <4>2
    <3>5. end(k) = d.warmup + d.train + x
      BY <3>3 DEF end
    <3>6. x <= n - d.warmup - d.train - d.test
      BY <3>4 DEF room
    <3>7. end(k) \in Int /\ 1 <= end(k)
      BY <1>1, <3>4, <3>5
    <3>8. end(k) <= n
      BY <1>1, <3>5, <3>6
    <3> QED
      BY <3>7, <3>8
  <2>4. count \in Nat
    BY <2>1, <2>2
  <2> QED
    BY <1>3, <2>3, <2>4
<1> QED
  BY <1>4, <1>5

-------------------------------------------------------------------------------
(* The gate's selection.                                                       *)

LEMMA SameOosTyped ==
  ASSUME NEW days, Len(days) \in Nat, NEW tradesBy, NEW d \in Designs, NEW n,
         tradesBy[n] \in TradeSeqs, tradesBy[Baseline] \in TradeSeqs
  PROVE  SameOos(days, tradesBy, d, n).own.net \in Int /\ SameOos(days, tradesBy, d, n).base.net \in Int
<1> DEFINE bounds == WindowBounds(Len(days), d)
           test(m, k) == Entered(tradesBy[m], days[bounds[k].testFirst], days[bounds[k].testLast])
           parts(m) == [k \in DOMAIN bounds |-> test(m, k)]
           all(m) == Summarize(FlattenSeq(parts(m)), NoRegimes)
<1>1. SameOos(days, tradesBy, d, n).own = all(n) /\ SameOos(days, tradesBy, d, n).base = all(Baseline)
  BY DEF SameOos
<1>2. PICK count \in Nat : DOMAIN bounds = 1..count
  BY WindowBoundsOf
<1> HIDE DEF bounds
<1>3. ASSUME NEW m, tradesBy[m] \in TradeSeqs PROVE all(m).net \in Int
  <2>1. \A k \in 1..count : test(m, k) \in TradeSeqs
    BY <1>3, EnteredTyped
  <2>2. parts(m) = [k \in 1..count |-> test(m, k)]
    BY <1>2
  <2> HIDE DEF test, parts
  <2>3. parts(m) \in [1..count -> TradeSeqs]
    BY <2>1, <2>2
  <2>4. parts(m) \in Seq(TradeSeqs)
    BY <2>3
  <2>5. FlattenSeq(parts(m)) \in TradeSeqs
    BY <2>4, FlattenTyped
  <2> QED
    BY <2>5, SummaryNet
<1> HIDE DEF all
<1> QED
  BY <1>1, <1>3

LEMMA PoolFacts == Baseline \in Pool /\ Pool \subseteq Names
<1>1. Baseline \in Names
  BY BaselineIsCanonical
<1>2. \E v \in Range(Variants) : v.name = Baseline
  BY WalkForwardAssumption DEF Range
<1>3. Named(Baseline) \in Range(Variants) /\ Named(Baseline).name = Baseline
  BY <1>1, <1>2 DEF Named, ByName
<1>4. PICK i \in DOMAIN Variants : Named(Baseline) = Variants[i]
  BY <1>3 DEF Range
<1>5. Named(Baseline).family # "realism"
  BY <1>3, <1>4, WalkForwardAssumption
<1> QED
  BY <1>1, <1>5 DEF Pool

LEMMA DroppedTyped ==
  ASSUME NEW rows \in Seq(Rows)
  PROVE  DropInvalidBars(rows) \in Seq(Rows)
<1>1. Where(rows, UsableBar) \in SUBSET DOMAIN rows
  BY DEF Where
<1> QED
  BY <1>1, PartOf DEF DropInvalidBars

\* What the gate ranks by is a whole number.
LEMMA EvidenceOf ==
  ASSUME NEW short, NEW main \in Seq(Rows)
  PROVE  /\ DOMAIN BuildEvidence(short, main) = Pool
         /\ \A n \in Pool : WorstDelta(BuildEvidence(short, main)[n]) \in Int
<1> DEFINE bars == DropInvalidBars(main)
           tradesIn(s) == Table(Pool, LAMBDA n : TradesOf(s, Named(n)))
           tradesBy == tradesIn(bars)
           days == TradingDays(bars)
           ev == BuildEvidence(short, main)
           oos(n) == [k \in DOMAIN ProtocolDesigns |-> SameOos(days, tradesBy, ProtocolDesigns[k], n)]
<1>1. DOMAIN ev = Pool /\ \A n \in Pool : ev[n].designs = oos(n)
  <2> DEFINE flags == RobustnessFlags(Results(bars, tradesBy))
             first == DropInvalidBars(short)
             tested(n) == Table(DOMAIN ProtocolDesigns, LAMBDA k : SameOos(days, tradesBy, ProtocolDesigns[k], n))
             one(n) == [family |-> Named(n).family, flags |-> IF n = Baseline THEN {} ELSE flags[n],
                        segment1 |-> Summarize(TradesOf(first, Named(n)), NoRegimes), designs |-> tested(n)]
  <2>1. ev = Table(Pool, one)
    BY DEF BuildEvidence
  <2>2. \A n \in Pool : one(n).designs = tested(n)
    OBVIOUS
  <2>3. \A n \in Pool : tested(n) = oos(n)
    BY DEF Table
  <2> HIDE DEF one, tested, oos, ev
  <2>4. ev = [n \in Pool |-> one(n)]
    BY <2>1 DEF Table
  <2> QED
    BY <2>2, <2>3, <2>4
<1>2. bars \in Seq(Rows) /\ Len(days) \in Nat
  BY DroppedTyped, TradingDaysOf
<1>3. \A n \in Pool : tradesBy[n] = TradesOf(bars, Named(n))
  BY DEF Table
<1> HIDE DEF bars, days, tradesBy, ev
<1>4. \A n \in Pool : tradesBy[n] \in TradeSeqs
  BY <1>2, <1>3, PoolFacts, NamedTyped, TradesTyped
<1>5. ASSUME NEW n \in Pool PROVE WorstDelta(ev[n]) \in Int
  <2> DEFINE D == DOMAIN ProtocolDesigns
             delta(k) == oos(n)[k].own.net - oos(n)[k].base.net
             S == {delta(k) : k \in D}
             f == [k \in D |-> delta(k)]
  <2>1. IsFiniteSet(D) /\ D # {} /\ \A k \in D : ProtocolDesigns[k] \in Designs
    <3>1. ProtocolDesigns \in Seq(Designs) /\ ProtocolDesigns # <<>>
      BY WalkForwardAssumption
    <3>2. IsFiniteSet(D)
      BY <3>1, DomainFinite
    <3>3. D = 1..Len(ProtocolDesigns) /\ Len(ProtocolDesigns) \in Nat /\ Len(ProtocolDesigns) # 0
      BY <3>1
    <3>4. 1 \in D
      BY <3>3
    <3> QED
      BY <3>1, <3>2, <3>4
  <2>2. \A k \in D : delta(k) \in Int
    <3> TAKE k \in D
    <3>1. oos(n)[k] = SameOos(days, tradesBy, ProtocolDesigns[k], n)
      OBVIOUS
    <3>2. /\ SameOos(days, tradesBy, ProtocolDesigns[k], n).own.net \in Int
          /\ SameOos(days, tradesBy, ProtocolDesigns[k], n).base.net \in Int
      BY <1>2, <1>4, <2>1, PoolFacts, SameOosTyped
    <3> HIDE DEF oos
    <3> QED
      BY <3>1, <3>2
  <2>3. WorstDelta(ev[n]) = Min(S)
    BY <1>1 DEF WorstDelta
  <2> HIDE DEF delta, D
  <2>4. f \in Surjection(D, S)
    <3>1. f \in [D -> S]
      OBVIOUS
    <3>2. \A x \in S : \E k \in D : f[k] = x
      OBVIOUS
    <3> QED
      BY <3>1, <3>2 DEF Surjection
  <2>5. IsFiniteSet(S)
    BY <2>1, <2>4, FS_Surjection
  <2>6. S \subseteq Int /\ S # {}
    BY <2>1, <2>2
  <2> HIDE DEF S
  <2>7. \E m \in S : \A x \in S : m <= x
    BY <2>5, <2>6, EndsOf
  <2>8. Min(S) \in S
    BY <2>7 DEF Min
  <2> QED
    BY <2>3, <2>6, <2>8
<1> QED
  BY <1>1, <1>5 DEF ev

EligibleIn(ev) == {n \in (DOMAIN ev) \ {Baseline} : Eligible(ev[n])}
Ranking(ev) == Ordered(EligibleIn(ev), LAMBDA n, m : RankedBefore(ev, n, m))

\* One round of the gate's choice, and the choice as the function it defines.
Taking(s, ev, x) ==
  IF \/ \E j \in DOMAIN s : ev[s[j]].family = ev[x].family
     \/ Len(s) >= MaxCandidates
  THEN s ELSE Append(s, x)

TakeTo(f, ev, ranked) ==
  f = [i \in 0..Len(ranked) |-> IF i = 0 THEN <<>> ELSE Taking(f[i - 1], ev, ranked[i])]

LEMMA EvaluateIs ==
  ASSUME NEW ev
  PROVE  Evaluate(ev) = (CHOOSE f : TakeTo(f, ev, Ranking(ev)))[Len(Ranking(ev))]
BY DEF Evaluate, Ranking, EligibleIn, TakeTo, Taking

LEMMA OrderTyped ==
  ASSUME NEW n \in Names
  PROVE  Len(Variants) \in Nat /\ Order(n) \in 1..Len(Variants) /\ Variants[Order(n)].name = n
<1>1. Len(Variants) \in Nat /\ DOMAIN Variants = 1..Len(Variants)
  BY WalkForwardAssumption
<1>2. \E i \in DOMAIN Variants : Variants[i].name = n
  BY DEF Names
<1>3. Order(n) \in DOMAIN Variants /\ Variants[Order(n)].name = n
  BY <1>2 DEF Order
<1> QED
  BY <1>1, <1>3

LEMMA NamesFinite == IsFiniteSet(Names)
<1>1. IsFiniteSet(DOMAIN Variants)
  BY WalkForwardAssumption, DomainFinite
<1> DEFINE f == [i \in DOMAIN Variants |-> Variants[i].name]
<1>2. f \in Surjection(DOMAIN Variants, Names)
  <2>1. f \in [DOMAIN Variants -> Names]
    BY DEF Names
  <2>2. \A x \in Names : \E i \in DOMAIN Variants : f[i] = x
    BY DEF Names
  <2> QED
    BY <2>1, <2>2 DEF Surjection
<1> QED
  BY <1>1, <1>2, FS_Surjection

\* The ranking lists every eligible variant, the one ranked before first.
LEMMA RankingOf ==
  ASSUME NEW ev, DOMAIN ev \subseteq Names, \A n \in DOMAIN ev : WorstDelta(ev[n]) \in Int
  PROVE  LET E == EligibleIn(ev)
             e == Ranking(ev)
         IN  /\ e \in Seq(E) /\ IsFiniteSet(E)
             /\ \A j, k \in 1..Len(e) : j < k <=> RankedBefore(ev, e[j], e[k])
             /\ \A x \in E : \E k \in 1..Len(e) : e[k] = x
<1> DEFINE E == EligibleIn(ev)
           e == Ranking(ev)
           N == Len(Variants)
           f == [n \in E |-> (N + 1) * (-WorstDelta(ev[n])) + Order(n)]
<1>1. E \subseteq Names /\ E \subseteq DOMAIN ev
  BY DEF EligibleIn
<1>2. IsFiniteSet(E)
  BY <1>1, NamesFinite, FS_Subset
<1>3. \A n \in E : f[n] = (N + 1) * (-WorstDelta(ev[n])) + Order(n)
  OBVIOUS
<1> HIDE DEF f
<1>4. ASSUME NEW n \in E, NEW m \in E
      PROVE  f[n] \in Int /\ (f[n] < f[m] <=> RankedBefore(ev, n, m)) /\ (f[n] = f[m] => n = m)
  <2>1. n \in Names /\ m \in Names /\ WorstDelta(ev[n]) \in Int /\ WorstDelta(ev[m]) \in Int
    BY <1>1
  <2>2. PICK a \in Int : a = -WorstDelta(ev[n])
    BY <2>1
  <2>3. PICK b \in Int : b = -WorstDelta(ev[m])
    BY <2>1
  <2>4. /\ N \in Nat /\ Order(n) \in 1..N /\ Order(m) \in 1..N
        /\ Variants[Order(n)].name = n /\ Variants[Order(m)].name = m
    BY <2>1, OrderTyped
  <2> HIDE DEF N, E
  <2>5. /\ (N + 1) * a + Order(n) \in Int
        /\ (N + 1) * a + Order(n) < (N + 1) * b + Order(m) <=> (a < b \/ (a = b /\ Order(n) < Order(m)))
        /\ (N + 1) * a + Order(n) = (N + 1) * b + Order(m) => Order(n) = Order(m)
    BY <2>4, Lexicographic
  <2>6. /\ WorstDelta(ev[n]) > WorstDelta(ev[m]) <=> a < b
        /\ WorstDelta(ev[n]) = WorstDelta(ev[m]) <=> a = b
    BY <2>1, <2>2, <2>3
  <2>7. RankedBefore(ev, n, m) <=> (a < b \/ (a = b /\ Order(n) < Order(m)))
    BY <2>6 DEF RankedBefore
  <2>8. f[n] = (N + 1) * a + Order(n) /\ f[m] = (N + 1) * b + Order(m)
    BY <1>3, <2>2, <2>3
  <2>9. Order(n) = Order(m) => n = m
    BY <2>4
  <2> QED
    BY <2>5, <2>7, <2>8, <2>9
<1>5. f \in [E -> Int] /\ \A x, y \in E : f[x] = f[y] => x = y
  <2>1. f = [n \in E |-> f[n]]
    BY DEF f
  <2>2. \A n \in E : f[n] \in Int
    BY <1>4
  <2> QED
    BY <1>4, <2>1, <2>2
<1>6. e = KeyOrder(E, f)
  <2>1. \A x \in E : {y \in E : RankedBefore(ev, y, x)} = {y \in E : f[y] < f[x]}
    BY <1>4
  <2>2. \A x \in E : Cardinality({y \in E : RankedBefore(ev, y, x)}) = Rank(E, f, x)
    BY <2>1 DEF Rank
  <2>3. e = [k \in 1..Cardinality(E) |-> CHOOSE x \in E : Cardinality({y \in E : RankedBefore(ev, y, x)}) = k - 1]
    BY DEF Ranking, Ordered
  <2> HIDE DEF e, E
  <2> QED
    BY <2>2, <2>3 DEF KeyOrder
<1> HIDE DEF e, E
<1>7. /\ e \in Seq(E)
      /\ \A j, k \in 1..Len(e) : j < k <=> f[e[j]] < f[e[k]]
      /\ \A x \in E : \E k \in 1..Len(e) : e[k] = x
  <2>1. /\ KeyOrder(E, f) \in Seq(E)
        /\ \A j, k \in 1..Len(KeyOrder(E, f)) : j < k <=> f[KeyOrder(E, f)[j]] < f[KeyOrder(E, f)[k]]
        /\ \A x \in E : \E k \in 1..Len(KeyOrder(E, f)) : KeyOrder(E, f)[k] = x
    BY <1>2, <1>5, InOrderOfKey
  <2> QED
    BY <1>6, <2>1
<1>8. \A j, k \in 1..Len(e) : j < k <=> RankedBefore(ev, e[j], e[k])
  <2> SUFFICES ASSUME NEW j \in 1..Len(e), NEW k \in 1..Len(e) PROVE j < k <=> RankedBefore(ev, e[j], e[k])
    OBVIOUS
  <2>1. e[j] \in E /\ e[k] \in E
    <3>1. e \in Seq(E)
      BY <1>7
    <3> QED
      BY <3>1
  <2>2. j < k <=> f[e[j]] < f[e[k]]
    BY <1>7
  <2>3. RankedBefore(ev, e[j], e[k]) <=> f[e[j]] < f[e[k]]
    BY <1>4, <2>1
  <2> QED
    BY <2>2, <2>3, Zenon
<1> QED
  BY <1>2, <1>7, <1>8 DEF e, E

Ahead(ev, n, S) == {m \in S : RankedBefore(ev, m, n)}
Leaders(ev, E) == {n \in E : \A m \in Ahead(ev, n, E) : ev[m].family # ev[n].family}
Best(ev, E) == {n \in Leaders(ev, E) : Cardinality(Ahead(ev, n, Leaders(ev, E))) < MaxCandidates}

\* A ranking: every member of E once, the one ranked before first.
RankedIn(e, ev, E) ==
  /\ e \in Seq(E) /\ IsFiniteSet(E)
  /\ \A j, k \in 1..Len(e) : j < k <=> RankedBefore(ev, e[j], e[k])
  /\ \A x \in E : \E k \in 1..Len(e) : e[k] = x

\* The leaders among the first i of a ranking.
Within(e, ev, E, i) == {n \in Leaders(ev, E) : \E k \in 1..i : e[k] = n}

LEMMA LeadersInOrder ==
  ASSUME NEW ev, NEW E, NEW e, RankedIn(e, ev, E), NEW i \in 1..Len(e)
  PROVE  /\ Ahead(ev, e[i], Leaders(ev, E)) = Within(e, ev, E, i - 1)
         /\ e[i] \in Leaders(ev, E) =>
               /\ e[i] \notin Within(e, ev, E, i - 1)
               /\ Within(e, ev, E, i) = Within(e, ev, E, i - 1) \cup {e[i]}
         /\ e[i] \notin Leaders(ev, E) =>
               /\ Within(e, ev, E, i) = Within(e, ev, E, i - 1)
               /\ \E n \in Within(e, ev, E, i - 1) : ev[n].family = ev[e[i]].family
<1> DEFINE L == Leaders(ev, E)
           W(j) == Within(e, ev, E, j)
           n == Len(e)
<1>0. n \in Nat /\ i \in 1..n /\ \A k \in 1..n : e[k] \in E
  BY DEF RankedIn
<1>1. \A j, k \in 1..n : j < k <=> RankedBefore(ev, e[j], e[k])
  BY DEF RankedIn
<1>2. \A x \in E : \E k \in 1..n : e[k] = x
  BY DEF RankedIn
<1> HIDE DEF n
<1>3. \A j, k \in 1..n : e[j] = e[k] => j = k
  <2> TAKE j, k \in 1..n
  <2> HAVE e[j] = e[k]
  <2>1. (j < k <=> RankedBefore(ev, e[k], e[k])) /\ (k < j <=> RankedBefore(ev, e[k], e[k]))
    BY <1>1
  <2>2. k < k <=> RankedBefore(ev, e[k], e[k])
    BY <1>1
  <2>3. j \in Int /\ k \in Int
    BY <1>0
  <2> QED
    BY <2>1, <2>2, <2>3
<1>4. L \subseteq E
  BY DEF Leaders
<1>5. \A j \in 0..n : W(j) = {m \in L : \E k \in 1..j : e[k] = m}
  BY DEF Within
<1> HIDE DEF W
<1>6. i - 1 \in 0..n /\ i \in 0..n /\ 1..i = (1..(i - 1)) \cup {i} /\ i \notin 1..(i - 1)
  BY <1>0
<1>7. Ahead(ev, e[i], L) = W(i - 1)
  <2>1. ASSUME NEW m \in L PROVE RankedBefore(ev, m, e[i]) <=> \E k \in 1..(i - 1) : e[k] = m
    <3>1. PICK k \in 1..n : e[k] = m
      BY <1>2, <1>4
    <3>2. RankedBefore(ev, m, e[i]) <=> k < i
      BY <1>0, <1>1, <3>1
    <3>3. ASSUME k < i PROVE \E j \in 1..(i - 1) : e[j] = m
      <4>1. k \in 1..(i - 1)
        BY <1>0, <3>3
      <4> QED
        BY <3>1, <4>1
    <3>4. ASSUME NEW j \in 1..(i - 1), e[j] = m PROVE k < i
      <4>1. j \in 1..n /\ j < i
        BY <1>0
      <4>2. j = k
        BY <1>3, <3>1, <3>4, <4>1
      <4> QED
        BY <4>1, <4>2
    <3> QED
      BY <3>2, <3>3, <3>4
  <2>2. W(i - 1) = {m \in L : \E k \in 1..(i - 1) : e[k] = m}
    BY <1>5, <1>6
  <2> HIDE DEF L
  <2> QED
    BY <2>1, <2>2 DEF Ahead
<1>8. \A m \in L : (\E k \in 1..i : e[k] = m) <=> ((\E k \in 1..(i - 1) : e[k] = m) \/ m = e[i])
  BY <1>6
<1>9. W(i) = {m \in L : (\E k \in 1..(i - 1) : e[k] = m) \/ m = e[i]}
  <2>1. W(i) = {m \in L : \E k \in 1..i : e[k] = m}
    BY <1>5, <1>6
  <2> QED
    BY <1>8, <2>1
<1>10. W(i - 1) = {m \in L : \E k \in 1..(i - 1) : e[k] = m}
  BY <1>5, <1>6
<1>11. ASSUME e[i] \in L PROVE e[i] \notin W(i - 1) /\ W(i) = W(i - 1) \cup {e[i]}
  <2>1. ASSUME NEW k \in 1..(i - 1), e[k] = e[i] PROVE FALSE
    <3>1. k \in 1..n /\ k # i
      BY <1>0
    <3> QED
      BY <1>0, <1>3, <2>1, <3>1
  <2>2. e[i] \notin W(i - 1)
    BY <1>10, <2>1
  <2> HIDE DEF L
  <2> QED
    BY <1>9, <1>10, <1>11, <2>2
<1>12. ASSUME e[i] \notin L
       PROVE  W(i) = W(i - 1) /\ \E m \in W(i - 1) : ev[m].family = ev[e[i]].family
  <2>1. W(i) = W(i - 1)
    BY <1>9, <1>10, <1>12
  <2> DEFINE P == {k \in 1..(i - 1) : ev[e[k]].family = ev[e[i]].family}
  <2>2. PICK m \in E : RankedBefore(ev, m, e[i]) /\ ev[m].family = ev[e[i]].family
    BY <1>0, <1>12 DEF Leaders, Ahead
  <2>3. PICK k \in 1..n : e[k] = m
    BY <1>2
  <2>4. k < i
    BY <1>0, <1>1, <2>2, <2>3
  <2>5. k \in P
    BY <1>0, <2>2, <2>3, <2>4
  <2>6. IsFiniteSet(P) /\ P \subseteq Int
    <3>1. i - 1 \in Int /\ 1 \in Int
      BY <1>0
    <3>2. IsFiniteSet(1..(i - 1)) /\ P \in SUBSET (1..(i - 1))
      BY <3>1, FS_Interval
    <3> QED
      BY <3>1, <3>2, FS_Subset
  <2>7. \E q \in P : \A x \in P : q <= x
    <3> HIDE DEF P
    <3> QED
      BY <2>5, <2>6, EndsOf
  <2>8. PICK q \in P : \A x \in P : q <= x
    BY <2>7
  <2>9. q \in 1..n /\ q < i /\ q \in 1..(i - 1) /\ e[q] \in E /\ ev[e[q]].family = ev[e[i]].family
    BY <1>0, <2>8
  <2>10. ASSUME NEW x \in E, RankedBefore(ev, x, e[q]), ev[x].family = ev[e[q]].family PROVE FALSE
    <3>1. PICK j \in 1..n : e[j] = x
      BY <1>2
    <3>2. j < q
      BY <1>1, <2>9, <2>10, <3>1
    <3>3. j \in 1..(i - 1)
      BY <1>0, <2>9, <3>2
    <3>4. j \in P
      BY <2>9, <2>10, <3>1, <3>3
    <3>5. q <= j
      BY <2>8, <3>4
    <3> QED
      BY <1>0, <2>9, <3>2, <3>5
  <2>11. e[q] \in L
    BY <2>9, <2>10 DEF Leaders, Ahead
  <2>12. e[q] \in W(i - 1)
    BY <1>10, <2>9, <2>11
  <2> QED
    BY <2>1, <2>9, <2>12
<1> QED
  BY <1>7, <1>11, <1>12 DEF W

\* What the gate has chosen when it has seen the first i of the ranking.
Chosen(s, e, ev, E, i) ==
  /\ s \in Seq(E) /\ IsFiniteSet(Range(s)) /\ Cardinality(Range(s)) = Len(s)
  /\ Len(s) < MaxCandidates => Range(s) = Within(e, ev, E, i)
  /\ Range(s) = {n \in Within(e, ev, E, i) : Cardinality(Ahead(ev, n, Leaders(ev, E))) < MaxCandidates}

LEMMA AppendRange ==
  ASSUME NEW E, NEW s \in Seq(E), NEW x \in E
  PROVE  Append(s, x) \in Seq(E) /\ Range(Append(s, x)) = Range(s) \cup {x} /\ Len(Append(s, x)) = Len(s) + 1
<1>1. /\ Append(s, x) \in Seq(E) /\ Len(Append(s, x)) = Len(s) + 1 /\ Len(s) \in Nat
      /\ DOMAIN s = 1..Len(s) /\ DOMAIN Append(s, x) = 1..(Len(s) + 1)
      /\ \A i \in 1..Len(s) : Append(s, x)[i] = s[i]
      /\ Append(s, x)[Len(s) + 1] = x
  OBVIOUS
<1>2. 1..(Len(s) + 1) = (1..Len(s)) \cup {Len(s) + 1}
  BY <1>1
<1>3. Range(Append(s, x)) = {Append(s, x)[i] : i \in (1..Len(s)) \cup {Len(s) + 1}}
  BY <1>1, <1>2 DEF Range
<1>4. Range(s) = {s[i] : i \in 1..Len(s)}
  BY <1>1 DEF Range
<1> QED
  BY <1>1, <1>3, <1>4

LEMMA ChoiceGoesOn ==
  ASSUME NEW ev, NEW E, NEW e, RankedIn(e, ev, E), NEW i \in 1..Len(e), NEW s, Chosen(s, e, ev, E, i - 1)
  PROVE  Chosen(Taking(s, ev, e[i]), e, ev, E, i)
<1> DEFINE L == Leaders(ev, E)
           W(j) == Within(e, ev, E, j)
           C(n) == Cardinality(Ahead(ev, n, L))
           x == e[i]
           taken == \E j \in DOMAIN s : ev[s[j]].family = ev[x].family
           next == Taking(s, ev, x)
<1>0. x \in E /\ IsFiniteSet(E) /\ MaxCandidates \in Nat
  BY WalkForwardAssumption DEF RankedIn
<1>1. /\ s \in Seq(E) /\ IsFiniteSet(Range(s)) /\ Cardinality(Range(s)) = Len(s) /\ Len(s) \in Nat
      /\ Len(s) < MaxCandidates => Range(s) = W(i - 1)
      /\ Range(s) = {n \in W(i - 1) : C(n) < MaxCandidates}
  BY DEF Chosen
<1>2. /\ Ahead(ev, x, L) = W(i - 1)
      /\ x \in L => x \notin W(i - 1) /\ W(i) = W(i - 1) \cup {x}
      /\ x \notin L => W(i) = W(i - 1) /\ \E n \in W(i - 1) : ev[n].family = ev[x].family
  BY LeadersInOrder
<1>3. IsFiniteSet(W(i - 1)) /\ Cardinality(Range(s)) <= Cardinality(W(i - 1))
  <2>1. W(i - 1) \in SUBSET E
    BY DEF Within, Leaders
  <2>2. Range(s) \in SUBSET W(i - 1)
    BY <1>1
  <2> QED
    BY <1>0, <2>1, <2>2, FS_Subset
<1>4. Cardinality(W(i - 1)) \in Nat /\ C(x) = Cardinality(W(i - 1))
  BY <1>2, <1>3, FS_CardinalityType
<1>5. next = IF taken \/ Len(s) >= MaxCandidates THEN s ELSE Append(s, x)
  BY DEF Taking
<1>6. \A j \in DOMAIN s : s[j] \in Range(s)
  BY DEF Range
<1>7. \A n \in Range(s) : \E j \in DOMAIN s : s[j] = n
  BY DEF Range
<1>8. SUFFICES /\ next \in Seq(E) /\ IsFiniteSet(Range(next)) /\ Cardinality(Range(next)) = Len(next)
               /\ Len(next) < MaxCandidates => Range(next) = W(i)
               /\ Range(next) = {n \in W(i) : C(n) < MaxCandidates}
  BY DEF Chosen
<1>9. x \in L => \A n \in W(i - 1) : ev[n].family # ev[x].family
  <2>1. W(i - 1) \subseteq Ahead(ev, x, E)
    BY <1>2 DEF Ahead, Leaders
  <2> QED
    BY <2>1 DEF Leaders
<1> HIDE DEF W, C, next, L, x
<1>10. CASE x \notin L
  <2>1. W(i) = W(i - 1)
    BY <1>2, <1>10
  <2>2. PICK n \in W(i - 1) : ev[n].family = ev[x].family
    BY <1>2, <1>10
  <2>3. CASE Len(s) < MaxCandidates
    <3>1. PICK j \in DOMAIN s : s[j] = n
      BY <1>1, <1>7, <2>2, <2>3
    <3>2. taken
      BY <2>2, <3>1
    <3>3. next = s
      BY <1>5, <3>2
    <3> QED
      BY <1>1, <2>1, <3>3
  <2>4. CASE ~(Len(s) < MaxCandidates)
    <3>1. next = s
      BY <1>0, <1>1, <1>5, <2>4
    <3> QED
      BY <1>1, <2>1, <3>1
  <2> QED
    BY <2>3, <2>4
<1>11. CASE x \in L
  <2>1. W(i) = W(i - 1) \cup {x} /\ x \notin W(i - 1)
    BY <1>2, <1>11
  <2>2. ~taken
    <3> SUFFICES ASSUME NEW j \in DOMAIN s, ev[s[j]].family = ev[x].family PROVE FALSE
      OBVIOUS
    <3>1. s[j] \in W(i - 1)
      BY <1>1, <1>6
    <3> QED
      BY <1>9, <1>11, <3>1
  <2> HIDE DEF taken
  <2>3. CASE Len(s) < MaxCandidates
    <3>1. next = Append(s, x)
      BY <1>0, <1>1, <1>5, <2>2, <2>3
    <3>2. next \in Seq(E) /\ Range(next) = Range(s) \cup {x} /\ Len(next) = Len(s) + 1
      BY <1>0, <1>1, <3>1, AppendRange
    <3>3. Range(s) = W(i - 1) /\ x \notin Range(s)
      BY <1>1, <2>1, <2>3
    <3>4. IsFiniteSet(Range(next)) /\ Cardinality(Range(next)) = Len(next)
      <4>1. /\ IsFiniteSet(Range(s) \cup {x})
            /\ Cardinality(Range(s) \cup {x}) = IF x \in Range(s) THEN Cardinality(Range(s)) ELSE Cardinality(Range(s)) + 1
        BY <1>1, FS_AddElement
      <4> QED
        BY <1>1, <3>2, <3>3, <4>1
    <3>5. C(x) < MaxCandidates
      BY <1>1, <1>4, <2>3, <3>3
    <3>6. Range(next) = W(i)
      BY <2>1, <3>2, <3>3
    <3>7. \A n \in W(i) : C(n) < MaxCandidates
      BY <1>1, <2>1, <3>3, <3>5
    <3>8. Range(next) = {n \in W(i) : C(n) < MaxCandidates}
      BY <3>6, <3>7
    <3> QED
      BY <3>2, <3>4, <3>6, <3>8
  <2>4. CASE ~(Len(s) < MaxCandidates)
    <3>1. next = s
      BY <1>0, <1>1, <1>5, <2>4
    <3>2. ~(C(x) < MaxCandidates)
      BY <1>0, <1>1, <1>3, <1>4, <2>4
    <3>3. {n \in W(i) : C(n) < MaxCandidates} = {n \in W(i - 1) : C(n) < MaxCandidates}
      BY <2>1, <3>2
    <3> QED
      BY <1>1, <2>4, <3>1, <3>3
  <2> QED
    BY <2>3, <2>4
<1> QED
  BY <1>10, <1>11

LEMMA TakenAreBest ==
  ASSUME NEW ev, NEW E, NEW e, RankedIn(e, ev, E), NEW f, TakeTo(f, ev, e)
  PROVE  Range(f[Len(e)]) = Best(ev, E)
<1> DEFINE n == Len(e)
           G == {i \in 0..n : Chosen(f[i], e, ev, E, i)}
<1>0. n \in Nat /\ MaxCandidates \in Nat
  BY WalkForwardAssumption DEF RankedIn
<1>1. f[0] = <<>> /\ \A i \in 1..n : f[i] = Taking(f[i - 1], ev, e[i])
  <2>1. f[0] = <<>>
    BY <1>0 DEF TakeTo
  <2>2. ASSUME NEW i \in 1..n PROVE f[i] = Taking(f[i - 1], ev, e[i])
    <3>1. i \in 0..n /\ i # 0
      BY <1>0
    <3> QED
      BY <3>1 DEF TakeTo
  <2> QED
    BY <2>1, <2>2
<1>2. Chosen(<<>>, e, ev, E, 0)
  <2>1. Range(<<>>) = {} /\ Len(<<>>) = 0 /\ <<>> \in Seq(E)
    BY DEF Range
  <2>2. Within(e, ev, E, 0) = {}
    BY DEF Within
  <2> QED
    BY <2>1, <2>2, FS_EmptySet DEF Chosen
<1>3. 0 \in G
  BY <1>0, <1>1, <1>2
<1>4. ASSUME NEW i \in 1..n, i - 1 \in G PROVE i \in G
  <2>1. i \in 0..n
    BY <1>0
  <2>2. Chosen(f[i - 1], e, ev, E, i - 1)
    BY <1>4
  <2>3. Chosen(f[i], e, ev, E, i)
    BY <1>1, <2>2, ChoiceGoesOn
  <2> QED
    BY <2>1, <2>3
<1> HIDE DEF G
<1>5. \A i \in 0..n : i \in G
  BY <1>0, <1>3, <1>4, Onward
<1>6. Chosen(f[n], e, ev, E, n)
  BY <1>0, <1>5 DEF G
<1>7. Within(e, ev, E, n) = Leaders(ev, E)
  BY DEF Within, Leaders, RankedIn
<1> QED
  BY <1>6, <1>7 DEF Chosen, Best

LEMMA TakeExists ==
  ASSUME NEW ev, NEW E, NEW e \in Seq(E)
  PROVE  \E f : TakeTo(f, ev, e)
<1> DEFINE n == Len(e)
           S == Seq(E)
           step == [i \in 1..n |-> [s \in S |-> Taking(s, ev, e[i])]]
<1>0. n \in Nat /\ \A i \in 1..n : e[i] \in E
  OBVIOUS
<1>1. \A i \in 1..n : \A s \in S : Taking(s, ev, e[i]) \in S
  <2> TAKE i \in 1..n
  <2> TAKE s \in S
  <2>1. Append(s, e[i]) \in S
    BY <1>0
  <2> QED
    BY <2>1 DEF Taking
<1>2. <<>> \in S
  OBVIOUS
<1> HIDE DEF S, n
<1>3. step \in [1..n -> [S -> S]]
  BY <1>1
<1>4. \A i \in 1..n : \A s \in S : step[i][s] = Taking(s, ev, e[i])
  OBVIOUS
<1> HIDE DEF step
<1>5. \E f \in [0..n -> S] : Loop(f, n, <<>>, step)
  BY <1>0, <1>2, <1>3, Iterated, Zenon
<1>6. PICK f \in [0..n -> S] : Loop(f, n, <<>>, step)
  BY <1>5
<1>7. ASSUME NEW i \in 0..n, i # 0 PROVE step[i][f[i - 1]] = Taking(f[i - 1], ev, e[i])
  <2>1. i \in 1..n /\ i - 1 \in 0..n
    BY <1>0, <1>7
  <2> QED
    BY <1>4, <2>1
<1>8. f = [i \in 0..n |-> IF i = 0 THEN <<>> ELSE Taking(f[i - 1], ev, e[i])]
  BY <1>6, <1>7 DEF Loop
<1>9. TakeTo(f, ev, e)
  BY <1>8 DEF TakeTo, n
<1> QED
  BY <1>9

LEMMA EvaluateTakesTheBest ==
  ASSUME NEW ev, DOMAIN ev \subseteq Names, \A n \in DOMAIN ev : WorstDelta(ev[n]) \in Int
  PROVE  Range(Evaluate(ev)) = Best(ev, EligibleIn(ev))
<1> DEFINE e == Ranking(ev)
           E == EligibleIn(ev)
           f == CHOOSE h : TakeTo(h, ev, e)
<1>1. RankedIn(e, ev, E)
  BY RankingOf DEF RankedIn
<1>2. e \in Seq(E)
  BY <1>1 DEF RankedIn
<1>3. Evaluate(ev) = f[Len(e)]
  BY EvaluateIs
<1> HIDE DEF e, E
<1>4. TakeTo(f, ev, e)
  BY <1>2, TakeExists
<1> HIDE DEF f
<1>5. Range(f[Len(e)]) = Best(ev, E)
  BY <1>1, <1>4, TakenAreBest
<1> QED
  BY <1>3, <1>5 DEF E

\* The evidence is a function of the usable bars of the two segments.
EvidenceFrom(first, bars) ==
  LET tradesIn(s) == Table(Pool, LAMBDA n : TradesOf(s, Named(n)))
      tradesBy == tradesIn(bars)
      days == TradingDays(bars)
      flags == RobustnessFlags(Results(bars, tradesBy))
  IN  Table(Pool, LAMBDA n :
          [family |-> Named(n).family, flags |-> IF n = Baseline THEN {} ELSE flags[n],
           segment1 |-> Summarize(TradesOf(first, Named(n)), NoRegimes),
           designs |-> Table(DOMAIN ProtocolDesigns, LAMBDA k : SameOos(days, tradesBy, ProtocolDesigns[k], n))])

LEMMA EvidenceIs ==
  ASSUME NEW short, NEW main
  PROVE  BuildEvidence(short, main) = EvidenceFrom(DropInvalidBars(short), DropInvalidBars(main))
BY DEF BuildEvidence, EvidenceFrom

LEMMA GridBy ==
  ASSUME NEW by, NEW asked, NEW frames, NEW designs
  PROVE  Grid(by, asked, frames, designs).by = by
<1> DEFINE runs == [k \in DOMAIN frames |-> RunIndex(frames[k], designs)]
           made == Made(by, asked, "raised")
<1>1. made.by = by /\ DOMAIN made = {"by", "asked", "outcome", "runs", "selected"}
  BY DEF Made, NoReport
<1>2. Grid(by, asked, frames, designs) = Finished(made, runs)
  BY GridIsFinished
<1> HIDE DEF runs, made
<1>3. \/ Finished(made, runs) = [made EXCEPT !.outcome = "diverged"]
      \/ Finished(made, runs) = made
      \/ Finished(made, runs) = [made EXCEPT !.outcome = "written", !.runs = runs]
  BY DEF Finished
<1> QED
  BY <1>1, <1>2, <1>3

\* A report of the gate is the best selection on its own two segments.
LEMMA GateSelects ==
  ASSUME LoadInv, NEW source \in Sources, Gate(source)
  PROVE  SelectedAreBest'
<1> DEFINE end == ResearchEnd(HoldoutStart)
           frames == ContiguousSegments(ReadCandles(loads, source, None, end))
           main == DropInvalidBars(frames[2])
           ev == BuildEvidence(frames[1], main)
           runs == [k \in DOMAIN frames |-> [bars |-> frames[k]]]
           outcome == IF Evaluate(ev) = Preregistered THEN "reproduced" ELSE "differs"
<1>1. \/ report' = Made("gate", {}, "raised")
      \/ /\ Len(frames) = 2
         /\ report' = [Made("gate", {}, outcome) EXCEPT !.selected = Evaluate(ev), !.runs = runs]
  BY DEF Gate, Reports
<1>2. end \in Nat /\ None \in Nat
  <2>1. SlotsPerDay \in Nat /\ HoldoutStart - 1 \in Nat
    BY ReplayAssumption, ResearchAssumption
  <2>2. \A n \in Nat : n * SlotsPerDay \in Nat
    BY <2>1
  <2> QED
    BY <2>1, <2>2 DEF ResearchEnd, None
<1> HIDE DEF end, outcome
<1>3. FramesRead(frames, source, None, end)
  BY <1>2, FramesOfRead
<1> HIDE DEF frames
<1>4. CASE report' = Made("gate", {}, "raised")
  BY <1>4 DEF Made, NoReport, SelectedAreBest
<1>5. CASE /\ Len(frames) = 2
           /\ report' = [Made("gate", {}, outcome) EXCEPT !.selected = Evaluate(ev), !.runs = runs]
  <2>1. frames \in Seq(Seq(Rows)) /\ 1 \in DOMAIN frames /\ 2 \in DOMAIN frames
    BY <1>3, <1>5 DEF FramesRead
  <2>2. frames[2] \in Seq(Rows)
    BY <2>1
  <2>3. main \in Seq(Rows) /\ DropInvalidBars(main) = main
    BY <2>2, DroppedTyped, DroppedOnce
  <2>4. ev = BuildEvidence(frames[1], frames[2])
    <3>1. DropInvalidBars(main) = DropInvalidBars(frames[2])
      BY <2>3
    <3>2. /\ ev = EvidenceFrom(DropInvalidBars(frames[1]), DropInvalidBars(main))
          /\ BuildEvidence(frames[1], frames[2]) = EvidenceFrom(DropInvalidBars(frames[1]), DropInvalidBars(frames[2]))
      BY EvidenceIs
    <3> QED
      BY <3>1, <3>2
  <2>5. /\ report'.selected = Evaluate(ev)
        /\ report'.runs = runs
    BY <1>5 DEF Made, NoReport
  <2>6. report'.runs[1].bars = frames[1] /\ report'.runs[2].bars = frames[2]
    BY <2>1, <2>5
  <2>7. DOMAIN ev = Pool /\ \A n \in Pool : WorstDelta(ev[n]) \in Int
    BY <2>3, EvidenceOf
  <2> HIDE DEF ev, runs, main
  <2>8. Range(report'.selected) = Best(ev, EligibleIn(ev))
    BY <2>5, <2>7, PoolFacts, EvaluateTakesTheBest
  <2>9. EligibleIn(ev) = {n \in Pool \ {Baseline} : Eligible(ev[n])}
    BY <2>7 DEF EligibleIn
  <2>10. BuildEvidence(report'.runs[1].bars, report'.runs[2].bars) = ev
    BY <2>4, <2>6
  <2> QED
    BY <2>8, <2>9, <2>10 DEF SelectedAreBest, Best, Leaders, Ahead
<1> QED
  BY <1>1, <1>4, <1>5

LEMMA SelectionNext ==
  ASSUME Typed, LoadInv, SelectedAreBest, [Next]_vars
  PROVE  SelectedAreBest'
<1>0. \A by, asked, outcome : Made(by, asked, outcome).by = by /\ Made(by, asked, outcome).outcome = outcome
  BY DEF Made, NoReport
<1>1. CASE RunCsv
  <2>1. \/ report' = Made("csv", {}, "raised")
        \/ report' = Grid("csv", {}, <<file.rows>>, <<LegacyDesign>>)
    BY <1>1 DEF RunCsv, Reports
  <2>2. report'.by = "csv"
    BY <1>0, <2>1, GridBy
  <2> QED
    BY <2>2 DEF SelectedAreBest
<1>2. ASSUME NEW a \in DbRuns, RunDb(a) PROVE SelectedAreBest'
  <2>1. \E o, frames : \/ report' = Made("db", {a}, o)
                        \/ report' = Grid("db", {a}, frames, a.designs)
    BY <1>2 DEF RunDb, Reports
  <2>2. report'.by = "db"
    BY <1>0, <2>1, GridBy
  <2> QED
    BY <2>2 DEF SelectedAreBest
<1>3. ASSUME NEW source \in Sources, Gate(source) PROVE SelectedAreBest'
  BY <1>3, GateSelects
<1>4. CASE UNCHANGED report
  BY <1>4 DEF SelectedAreBest
<1>5. CASE DownloadStep
  BY <1>4, <1>5 DEF DownloadStep, Answer, Fetched, OpenFile, WriteDataset, WriteMetadata
<1>6. ASSUME NEW p \in Loaders, LoadStep(p) PROVE SelectedAreBest'
  BY <1>4, <1>6 DEF LoadStep, Hash, Read, Find, Insert, FindAgain, Rehash
<1>7. CASE Kill \/ (\E r \in Requests : StartDownload(r)) \/ (\E p \in Loaders, o \in LoadOptions : StartLoad(p, o))
  BY <1>4, <1>7 DEF Kill, StartDownload, StartLoad
<1>8. CASE UNCHANGED vars
  BY <1>4, <1>8 DEF vars
<1> QED
  BY <1>1, <1>2, <1>3, <1>5, <1>6, <1>7, <1>8 DEF Next

\* What the gate selects is the best eligible variant of each family, and of
\* those the best MaxCandidates, whatever the tables hold and however many
\* variants, families and designs there are.
THEOREM GateSelectsTheBest == Spec => []SelectedAreBest
<1>1. Init => SelectedAreBest
  BY DEF Init, NoReport, SelectedAreBest
<1>2. Typed /\ LoadInv /\ SelectedAreBest /\ [Next]_vars => SelectedAreBest'
  BY SelectionNext
<1> QED
  BY <1>1, <1>2, AlwaysTyped, AlwaysLoadInv, PTL DEF Spec

-------------------------------------------------------------------------------
(* What a train block has seen.                                                *)

LEMMA DayMonotone ==
  ASSUME NEW s \in Nat, NEW t \in Nat, s <= t
  PROVE  Day(s) <= Day(t)
<1> DEFINE q == (s - 1) \div SlotsPerDay
           r == (t - 1) \div SlotsPerDay
<1>1. SlotsPerDay \in Nat \ {0} /\ s - 1 \in Int /\ t - 1 \in Int /\ s - 1 <= t - 1
  BY ReplayAssumption
<1>2. q \in Int /\ SlotsPerDay * q <= s - 1
  BY <1>1, Division
<1>3. r \in Int /\ t - 1 < SlotsPerDay * r + SlotsPerDay
  BY <1>1, Division
<1>4. Day(s) = q + 1 /\ Day(t) = r + 1
  BY DEF Day
<1> HIDE DEF q, r
<1>5. q <= r
  <2> SUFFICES ASSUME r + 1 <= q PROVE FALSE
    BY <1>2, <1>3
  <2>1. SlotsPerDay * (r + 1) <= SlotsPerDay * q
    BY <1>1, <1>2, <1>3, MonotoneProduct
  <2>2. SlotsPerDay * (r + 1) = SlotsPerDay * r + SlotsPerDay
    BY <1>1, <1>3
  <2>3. SlotsPerDay * q \in Int /\ SlotsPerDay * r \in Int
    BY <1>1, <1>2, <1>3
  <2> QED
    BY <1>1, <1>2, <1>3, <2>1, <2>2, <2>3
<1> QED
  BY <1>2, <1>3, <1>4, <1>5

\* In order of time, the bars up to a day are the first ones.
LEMMA BarsUpTo ==
  ASSUME NEW bars \in Seq(Rows), Timely(bars), NEW last \in Int
  PROVE  \E m \in 0..Len(bars) : \A i \in 1..Len(bars) : Day(bars[i].t) <= last <=> i <= m
<1> DEFINE Up(n, m) == \A i \in 1..n : Day(bars[i].t) <= last <=> i <= m
           G == {n \in 0..Len(bars) : \E m \in 0..n : Up(n, m)}
<1>0. Len(bars) \in Nat /\ DOMAIN bars = 1..Len(bars) /\ \A i \in 1..Len(bars) : bars[i].t \in Nat /\ Day(bars[i].t) \in Int
  <2>1. \A i \in 1..Len(bars) : bars[i] \in Rows
    OBVIOUS
  <2> QED
    BY <2>1, RowTypes, DayOf
<1>1. 0 \in G
  <2>1. Up(0, 0)
    OBVIOUS
  <2>2. 0 \in 0..Len(bars) /\ 0 \in 0..0
    BY <1>0
  <2> QED
    BY <2>1, <2>2
<1>2. ASSUME NEW n \in 1..Len(bars), n - 1 \in G PROVE n \in G
  <2>1. PICK m \in 0..(n - 1) : Up(n - 1, m)
    BY <1>2
  <2>2. n \in 0..Len(bars) /\ m \in Int /\ m <= n - 1
    BY <1>0
  <2>3. CASE m = n - 1 /\ Day(bars[n].t) <= last
    <3>1. Up(n, n)
      <4> TAKE i \in 1..n
      <4>1. i # n => i \in 1..(n - 1) /\ i <= m
        BY <2>3
      <4> QED
        BY <2>1, <2>3, <4>1
    <3>2. n \in 0..n
      OBVIOUS
    <3> HIDE DEF Up
    <3> QED
      BY <2>2, <3>1, <3>2
  <2>4. CASE m < n - 1 \/ ~(Day(bars[n].t) <= last)
    <3>1. ~(Day(bars[n].t) <= last)
      <4> SUFFICES ASSUME m < n - 1 PROVE ~(Day(bars[n].t) <= last)
        BY <2>4
      <4>1. m + 1 \in 1..(n - 1) /\ m + 1 \in DOMAIN bars /\ n \in DOMAIN bars /\ m + 1 <= n /\ ~(m + 1 <= m)
        BY <1>0, <2>2
      <4>2. ~(Day(bars[m + 1].t) <= last)
        BY <2>1, <4>1
      <4>3. bars[m + 1].t <= bars[n].t
        BY <4>1, InTime
      <4>4. Day(bars[m + 1].t) <= Day(bars[n].t)
        BY <1>0, <4>1, <4>3, DayMonotone
      <4>5. Day(bars[m + 1].t) \in Int /\ Day(bars[n].t) \in Int
        BY <1>0, <4>1
      <4> HIDE DEF Up
      <4> QED
        BY <4>2, <4>4, <4>5
    <3>2. Up(n, m)
      <4> TAKE i \in 1..n
      <4>1. i # n => i \in 1..(n - 1)
        OBVIOUS
      <4>2. ~(n <= m)
        BY <2>2
      <4> QED
        BY <2>1, <3>1, <4>1, <4>2
    <3>3. m \in 0..n
      BY <2>2
    <3> HIDE DEF Up
    <3> QED
      BY <2>2, <3>2, <3>3
  <2>5. m = n - 1 \/ m < n - 1
    BY <2>2
  <2> QED
    BY <2>3, <2>4, <2>5
<1> HIDE DEF G
<1>3. \A n \in 0..Len(bars) : n \in G
  BY <1>0, <1>1, <1>2, Onward
<1>4. Len(bars) \in G
  BY <1>0, <1>3
<1> QED
  BY <1>4 DEF G

\* seen is what the first m of these bars are, and those after it are of days past `last`.
Sees(seen, bars, m, last) ==
  /\ m \in 0..Len(bars) /\ seen \in Seq(Rows) /\ Len(seen) = m
  /\ \A i \in 1..m : seen[i] = bars[i]
  /\ \A i \in 1..Len(bars) : m < i => ~(Day(bars[i].t) <= last)

LEMMA SeenOf ==
  ASSUME NEW bars \in Seq(Rows), Timely(bars), \A i \in DOMAIN bars : UsableBar(bars[i]), NEW last \in Int
  PROVE  LET seen == Those(bars, LAMBDA b : Day(b.t) <= last)
         IN  \E m : Sees(seen, bars, m, last) /\ DropInvalidBars(seen) = seen
<1> DEFINE S == {i \in DOMAIN bars : Day(bars[i].t) <= last}
           seen == Part(bars, S)
<1>1. Those(bars, LAMBDA b : Day(b.t) <= last) = seen
  BY DEF Those, Where
<1>2. PICK m \in 0..Len(bars) : \A i \in 1..Len(bars) : Day(bars[i].t) <= last <=> i <= m
  BY BarsUpTo
<1>3. Len(bars) \in Nat /\ DOMAIN bars = 1..Len(bars) /\ m \in Nat
  OBVIOUS
<1>4. S = 1..m
  BY <1>2, <1>3
<1>5. seen = [k \in 1..m |-> bars[k]]
  BY <1>4, PartOfFirst
<1> HIDE DEF S, seen
<1>6. \A k \in 1..m : bars[k] \in Rows /\ k \in DOMAIN bars
  BY <1>3
<1>7. seen \in [1..m -> Rows]
  BY <1>5, <1>6
<1>8. seen \in Seq(Rows) /\ Len(seen) = m /\ DOMAIN seen = 1..m /\ \A i \in 1..m : seen[i] = bars[i]
  <2>1. seen \in Seq(Rows) /\ Len(seen) = m /\ DOMAIN seen = 1..m
    BY <1>3, <1>7
  <2> QED
    BY <1>5, <2>1
<1>9. \A i \in 1..Len(bars) : m < i => ~(Day(bars[i].t) <= last)
  <2> SUFFICES ASSUME NEW i \in 1..Len(bars), m < i PROVE ~(i <= m)
    BY <1>2
  <2> QED
    BY <1>3
<1>10. Sees(seen, bars, m, last)
  BY <1>8, <1>9 DEF Sees
<1>11. DropInvalidBars(seen) = seen
  <2>1. \A k \in DOMAIN seen : UsableBar(seen[k])
    BY <1>6, <1>8
  <2>2. Where(seen, UsableBar) = DOMAIN seen
    BY <2>1 DEF Where
  <2> QED
    BY <1>8, <2>2, PartOfAll DEF DropInvalidBars
<1> QED
  BY <1>1, <1>10, <1>11

\* The machine looks at one bar and at the setups on it and on the one before.
LEMMA SameStep ==
  ASSUME NEW bars, NEW seen, NEW v, NEW s, NEW i \in Nat \ {0}, bars[i] = seen[i],
         VariantSetups(bars, v)[i] = VariantSetups(seen, v)[i],
         i = 1 \/ VariantSetups(bars, v)[i - 1] = VariantSetups(seen, v)[i - 1]
  PROVE  SimStep(bars, VariantSetups(bars, v), v, s, i) = SimStep(seen, VariantSetups(seen, v), v, s, i)
<1>1. \A side : Edge(VariantSetups(bars, v), i, side) <=> Edge(VariantSetups(seen, v), i, side)
  BY DEF Edge
<1> QED
  BY <1>1 DEF SimStep

LEMMA SameSetupsSeen ==
  ASSUME NEW bars \in Seq(Rows), NEW seen, NEW m, NEW last, Sees(seen, bars, m, last), NEW v, NEW i \in 1..m
  PROVE  VariantSetups(bars, v)[i] = VariantSetups(seen, v)[i]
<1>1. i \in DOMAIN bars /\ i \in DOMAIN seen /\ bars[i] = seen[i]
  BY DEF Sees
<1> QED
  BY <1>1 DEF VariantSetups

\* What was seen is simulated as it is with all bars.
LEMMA SameSimulation ==
  ASSUME NEW bars \in Seq(Rows), NEW seen, NEW m, NEW last, Sees(seen, bars, m, last), NEW v,
         NEW f, Simulates(f, bars, v), NEW g, Simulates(g, seen, v)
  PROVE  \A i \in 0..m : f[i] = g[i]
<1> DEFINE G == {i \in 0..m : f[i] = g[i]}
<1>0. m \in Nat /\ m <= Len(bars) /\ Len(seen) = m /\ Len(bars) \in Nat /\ \A i \in 1..m : seen[i] = bars[i]
  BY DEF Sees
<1>1. 0 \in G
  BY <1>0 DEF Simulates
<1>2. ASSUME NEW i \in 1..m, i - 1 \in G PROVE i \in G
  <2>1. f[i - 1] = g[i - 1]
    BY <1>2
  <2>2. i \in 1..Len(bars) /\ i \in 1..Len(seen) /\ i \in Nat \ {0} /\ i \in 0..m /\ (i = 1 \/ i - 1 \in 1..m)
    BY <1>0
  <2>3. /\ f[i] = SimStep(bars, VariantSetups(bars, v), v, f[i - 1], i)
        /\ g[i] = SimStep(seen, VariantSetups(seen, v), v, g[i - 1], i)
    BY <2>2 DEF Simulates
  <2>4. VariantSetups(bars, v)[i] = VariantSetups(seen, v)[i]
    BY SameSetupsSeen
  <2>5. i = 1 \/ VariantSetups(bars, v)[i - 1] = VariantSetups(seen, v)[i - 1]
    BY <2>2, SameSetupsSeen
  <2>6. bars[i] = seen[i]
    BY <1>0
  <2>7. SimStep(bars, VariantSetups(bars, v), v, f[i - 1], i) = SimStep(seen, VariantSetups(seen, v), v, f[i - 1], i)
    BY <2>2, <2>4, <2>5, <2>6, SameStep
  <2>8. f[i] = g[i]
    BY <2>1, <2>3, <2>7
  <2> QED
    BY <2>2, <2>8
<1> HIDE DEF G
<1>3. \A i \in 0..m : i \in G
  BY <1>0, <1>1, <1>2, Onward
<1> QED
  BY <1>3 DEF G

\* `all` goes on after `part` with events of days past `last`.
GoesOn(all, part, last) ==
  /\ Len(part) <= Len(all)
  /\ \A i \in 1..Len(part) : all[i] = part[i]
  /\ \A i \in 1..Len(all) : Len(part) < i => ~(Day(all[i].t) <= last)

LEMMA GoesOnByOne ==
  ASSUME NEW all \in SimEventSeqs, NEW part \in SimEventSeqs, NEW last, GoesOn(all, part, last),
         NEW e \in SimEvents, ~(Day(e.t) <= last)
  PROVE  GoesOn(Append(all, e), part, last)
<1>1. Len(all) \in Nat /\ Len(part) \in Nat /\ all \in Seq(SimEvents)
  BY DEF SimEventSeqs
<1>2. /\ Len(Append(all, e)) = Len(all) + 1 /\ Append(all, e)[Len(all) + 1] = e
      /\ \A i \in 1..Len(all) : Append(all, e)[i] = all[i]
  BY <1>1
<1>3. Len(part) <= Len(all) + 1
  BY <1>1 DEF GoesOn
<1>4. \A i \in 1..Len(part) : Append(all, e)[i] = part[i]
  <2> TAKE i \in 1..Len(part)
  <2>1. i \in 1..Len(all)
    BY <1>1 DEF GoesOn
  <2> QED
    BY <1>2, <2>1 DEF GoesOn
<1>5. \A i \in 1..(Len(all) + 1) : Len(part) < i => ~(Day(Append(all, e)[i].t) <= last)
  <2> TAKE i \in 1..(Len(all) + 1)
  <2>1. i = Len(all) + 1 \/ i \in 1..Len(all)
    BY <1>1
  <2> QED
    BY <1>2, <2>1 DEF GoesOn
<1> QED
  BY <1>2, <1>3, <1>4, <1>5 DEF GoesOn

\* A bar adds at most one event, of its own time.
LEMMA EventsGoOn ==
  ASSUME NEW bars \in Seq(Rows), NEW setups, NEW v, v.sl \in Int, v.rr \in Int, NEW s \in SimTyped,
         NEW i \in DOMAIN bars, NEW last, ~(Day(bars[i].t) <= last),
         NEW part \in SimEventSeqs, GoesOn(s.events, part, last)
  PROVE  GoesOn(SimStep(bars, setups, v, s, i).events, part, last)
<1> DEFINE b == bars[i]
           next == SimStep(bars, setups, v, s, i)
<1>1. next \in SimTyped
  BY SimStepTyped
<1>2. s.events \in SimEventSeqs /\ s.events \in Seq(SimEvents) /\ next.events \in Seq(SimEvents)
  BY <1>1 DEF SimTyped, SimEventSeqs
<1>3. SimActs(s, next, b, v)
  BY SimStepActs
<1>4. s = [pos |-> s.pos, day |-> s.day, events |-> s.events]
  BY DEF SimTyped
<1> HIDE DEF next
<1>5. next.events = s.events \/ \E e : e.t = b.t /\ next.events = Append(s.events, e)
  <2>1. ASSUME NEW side \in {-1, 1},
               next = [pos |-> Opened(b, side, v), day |-> Day(b.t),
                       events |-> Append(s.events, EntryEvent(b, Opened(b, side, v)))]
        PROVE  \E e : e.t = b.t /\ next.events = Append(s.events, e)
    <3>1. EntryEvent(b, Opened(b, side, v)).t = b.t
      BY DEF EntryEvent
    <3>2. next.events = Append(s.events, EntryEvent(b, Opened(b, side, v)))
      BY <2>1
    <3> QED
      BY <3>1, <3>2
  <2>2. ASSUME NEW reason, NEW level,
               next = [s EXCEPT !.pos = Flat, !.events = Append(@, ExitEvent(b, reason, level))]
        PROVE  \E e : e.t = b.t /\ next.events = Append(s.events, e)
    <3>1. ExitEvent(b, reason, level).t = b.t
      BY DEF ExitEvent
    <3>2. next.events = Append(s.events, ExitEvent(b, reason, level))
      BY <1>4, <2>2
    <3> QED
      BY <3>1, <3>2
  <2> QED
    BY <1>3, <2>1, <2>2 DEF SimActs
<1>6. ASSUME NEW e, e.t = b.t, next.events = Append(s.events, e)
      PROVE  GoesOn(next.events, part, last)
  <2>1. e \in SimEvents
    <3>1. Append(s.events, e)[Len(s.events) + 1] = e /\ Len(Append(s.events, e)) = Len(s.events) + 1
      BY <1>2
    <3>2. Len(s.events) + 1 \in 1..Len(next.events)
      BY <1>2, <1>6, <3>1
    <3>3. next.events[Len(s.events) + 1] \in SimEvents
      BY <1>2, <3>2
    <3> QED
      BY <1>6, <3>1, <3>3
  <2> QED
    BY <1>2, <1>6, <2>1, GoesOnByOne
<1> QED
  BY <1>5, <1>6 DEF next

LEMMA SimulationGoesOn ==
  ASSUME NEW bars \in Seq(Rows), NEW seen, NEW m, NEW last, Sees(seen, bars, m, last),
         NEW v, v.sl \in Int, v.rr \in Int,
         NEW f, Simulates(f, bars, v), NEW g, Simulates(g, seen, v)
  PROVE  GoesOn(f[Len(bars)].events, g[m].events, last)
<1> DEFINE part == g[m].events
           G == {i \in 0..Len(bars) : m <= i => GoesOn(f[i].events, part, last)}
<1>0. m \in Nat /\ m <= Len(bars) /\ Len(bars) \in Nat /\ seen \in Seq(Rows) /\ Len(seen) = m
  BY DEF Sees
<1>1. \A i \in 0..Len(bars) : f[i] \in SimTyped
  BY SimulationTyped
<1>2. part = f[m].events
  <2>1. m \in 0..m
    BY <1>0
  <2>2. f[m] = g[m]
    BY <2>1, SameSimulation
  <2> QED
    BY <2>2
<1>3. part \in SimEventSeqs
  <2>1. f[m] \in SimTyped
    BY <1>0, <1>1
  <2> QED
    BY <1>2, <2>1 DEF SimTyped
<1>4. GoesOn(f[m].events, part, last)
  <2>1. Len(part) \in Nat
    BY <1>3 DEF SimEventSeqs
  <2> QED
    BY <1>2, <2>1 DEF GoesOn
<1> HIDE DEF part
<1>5. 0 \in G
  <2>1. m <= 0 => m = 0
    BY <1>0
  <2> QED
    BY <1>0, <1>4, <2>1
<1>6. ASSUME NEW i \in 1..Len(bars), i - 1 \in G PROVE i \in G
  <2>1. i \in 0..Len(bars) /\ i \in DOMAIN bars /\ i - 1 \in 0..Len(bars)
    BY <1>0
  <2>2. CASE i = m
    BY <1>4, <2>1, <2>2
  <2>3. CASE i < m
    <3>1. ~(m <= i)
      BY <1>0, <2>3
    <3> QED
      BY <2>1, <3>1
  <2>4. CASE m < i
    <3>1. m <= i - 1
      BY <1>0, <2>4
    <3>2. GoesOn(f[i - 1].events, part, last)
      BY <1>6, <3>1
    <3>3. ~(Day(bars[i].t) <= last)
      BY <2>4 DEF Sees
    <3>4. f[i] = SimStep(bars, VariantSetups(bars, v), v, f[i - 1], i)
      BY DEF Simulates
    <3>5. f[i - 1] \in SimTyped
      BY <1>1, <2>1
    <3>6. GoesOn(f[i].events, part, last)
      BY <1>3, <2>1, <3>2, <3>3, <3>4, <3>5, EventsGoOn
    <3> QED
      BY <2>1, <3>6
  <2> QED
    BY <1>0, <2>2, <2>3, <2>4
<1> HIDE DEF G
<1>7. \A i \in 0..Len(bars) : i \in G
  BY <1>0, <1>5, <1>6, Onward
<1>8. Len(bars) \in G
  BY <1>0, <1>7
<1> QED
  BY <1>0, <1>8 DEF G, part

\* `all` goes on after `part` with trades closed on days past `last`.
ClosesOn(all, part, last) ==
  /\ Len(part) <= Len(all)
  /\ \A i \in 1..Len(part) : all[i] = part[i]
  /\ \A i \in 1..Len(all) : Len(part) < i => ~(Day(all[i].exit) <= last)

LEMMA ClosesOnByOne ==
  ASSUME NEW all \in TradeSeqs, NEW part \in TradeSeqs, NEW last, ClosesOn(all, part, last),
         NEW x \in Trades, ~(Day(x.exit) <= last)
  PROVE  ClosesOn(Append(all, x), part, last)
<1>1. Len(all) \in Nat /\ Len(part) \in Nat /\ all \in Seq(Trades)
  BY DEF TradeSeqs
<1>2. /\ Len(Append(all, x)) = Len(all) + 1 /\ Append(all, x)[Len(all) + 1] = x
      /\ \A i \in 1..Len(all) : Append(all, x)[i] = all[i]
  BY <1>1
<1>3. Len(part) <= Len(all) + 1
  BY <1>1 DEF ClosesOn
<1>4. \A i \in 1..Len(part) : Append(all, x)[i] = part[i]
  <2> TAKE i \in 1..Len(part)
  <2>1. i \in 1..Len(all)
    BY <1>1 DEF ClosesOn
  <2> QED
    BY <1>2, <2>1 DEF ClosesOn
<1>5. \A i \in 1..(Len(all) + 1) : Len(part) < i => ~(Day(Append(all, x)[i].exit) <= last)
  <2> TAKE i \in 1..(Len(all) + 1)
  <2>1. i = Len(all) + 1 \/ i \in 1..Len(all)
    BY <1>1
  <2> QED
    BY <1>2, <2>1 DEF ClosesOn
<1> QED
  BY <1>2, <1>3, <1>4, <1>5 DEF ClosesOn

\* An event closes at most one trade, at its own time.
LEMMA TradesGoOn ==
  ASSUME NEW s \in PairTyped, NEW e \in SimEvents, NEW last, ~(Day(e.t) <= last),
         NEW part \in TradeSeqs, ClosesOn(s.trades, part, last)
  PROVE  ClosesOn(PairStep(s, e, ExitKinds).trades, part, last)
<1> DEFINE next == PairStep(s, e, ExitKinds)
<1>1. next \in PairTyped
  BY PairStepTyped
<1>2. s.trades \in Seq(Trades) /\ s.trades \in TradeSeqs /\ next.trades \in Seq(Trades) /\ Len(s.trades) \in Nat
  BY <1>1 DEF PairTyped, TradeSeqs
<1>3. s = [open |-> s.open, trades |-> s.trades]
  BY DEF PairTyped
<1>4. next.trades = s.trades \/ \E x : x.exit = e.t /\ next.trades = Append(s.trades, x)
  <2> DEFINE trade == [entry |-> s.open[1].t, exit |-> e.t, side |-> s.open[1].side, reason |-> e.kind,
                       points |-> s.open[1].side * (e.level - s.open[1].price)]
  <2>1. next \in {s, [s EXCEPT !.open = <<e>>], [open |-> <<>>, trades |-> Append(s.trades, trade)]}
    BY DEF PairStep
  <2>2. trade.exit = e.t
    OBVIOUS
  <2>3. [s EXCEPT !.open = <<e>>].trades = s.trades
    BY <1>3
  <2> HIDE DEF trade, next
  <2>4. CASE next = s
    BY <2>4
  <2>5. CASE next = [s EXCEPT !.open = <<e>>]
    BY <2>3, <2>5
  <2>6. CASE next = [open |-> <<>>, trades |-> Append(s.trades, trade)]
    <3>1. next.trades = Append(s.trades, trade)
      BY <2>6
    <3> QED
      BY <2>2, <3>1
  <2> QED
    BY <2>1, <2>4, <2>5, <2>6
<1> HIDE DEF next
<1>5. ASSUME NEW x, x.exit = e.t, next.trades = Append(s.trades, x)
      PROVE  ClosesOn(next.trades, part, last)
  <2>1. x \in Trades
    <3>1. Append(s.trades, x)[Len(s.trades) + 1] = x /\ Len(Append(s.trades, x)) = Len(s.trades) + 1
      BY <1>2
    <3>2. Len(s.trades) + 1 \in 1..Len(next.trades)
      BY <1>2, <1>5, <3>1
    <3>3. next.trades[Len(s.trades) + 1] \in Trades
      BY <1>2, <3>2
    <3> QED
      BY <1>5, <3>1, <3>3
  <2> QED
    BY <1>2, <1>5, <2>1, ClosesOnByOne
<1> QED
  BY <1>4, <1>5 DEF next

\* The trades of more events go on after those of the first.
LEMMA PairingGoesOn ==
  ASSUME NEW all \in SimEventSeqs, NEW part \in SimEventSeqs, NEW last, GoesOn(all, part, last)
  PROVE  ClosesOn(Pair(all), Pair(part), last)
<1>1. PICK f : Pairs(f, all) /\ Pair(all) = f[Len(all)].trades
  BY PairOf
<1>2. PICK g : Pairs(g, part) /\ Pair(part) = g[Len(part)].trades
  BY PairOf
<1>3. /\ Len(all) \in Nat /\ Len(part) \in Nat /\ Len(part) <= Len(all)
      /\ \A i \in 1..Len(all) : all[i] \in SimEvents
  BY DEF SimEventSeqs, GoesOn
<1>4. \A i \in 0..Len(part) : f[i] = g[i]
  <2> DEFINE G == {i \in 0..Len(part) : f[i] = g[i]}
  <2>1. 0 \in G
    BY <1>1, <1>2, <1>3 DEF Pairs
  <2>2. ASSUME NEW i \in 1..Len(part), i - 1 \in G PROVE i \in G
    <3>1. i \in 1..Len(all) /\ i \in 0..Len(part) /\ f[i - 1] = g[i - 1]
      BY <1>3, <2>2
    <3>2. all[i] = part[i]
      BY DEF GoesOn
    <3>3. /\ f[i] = PairStep(f[i - 1], all[i], ExitKinds)
          /\ g[i] = PairStep(g[i - 1], part[i], ExitKinds)
      BY <1>1, <1>2, <3>1 DEF Pairs
    <3> QED
      BY <3>1, <3>2, <3>3
  <2> HIDE DEF G
  <2>3. \A i \in 0..Len(part) : i \in G
    BY <1>3, <2>1, <2>2, Onward
  <2> QED
    BY <2>3 DEF G
<1>5. \A i \in 0..Len(all) : f[i] \in PairTyped
  BY <1>1 DEF Pairs
<1> DEFINE trades == Pair(part)
           G == {i \in 0..Len(all) : Len(part) <= i => ClosesOn(f[i].trades, trades, last)}
<1>6. trades = f[Len(part)].trades /\ trades \in TradeSeqs
  <2>1. Len(part) \in 0..Len(part) /\ Len(part) \in 0..Len(all)
    BY <1>3
  <2>2. f[Len(part)] \in PairTyped
    BY <1>5, <2>1
  <2>3. trades = f[Len(part)].trades
    BY <1>2, <1>4, <2>1
  <2> QED
    BY <2>2, <2>3 DEF PairTyped
<1>7. ClosesOn(f[Len(part)].trades, trades, last)
  <2>1. Len(trades) \in Nat
    BY <1>6 DEF TradeSeqs
  <2> QED
    BY <1>6, <2>1 DEF ClosesOn
<1> HIDE DEF trades
<1>8. 0 \in G
  <2>1. Len(part) <= 0 => Len(part) = 0
    BY <1>3
  <2> QED
    BY <1>3, <1>7, <2>1
<1>9. ASSUME NEW i \in 1..Len(all), i - 1 \in G PROVE i \in G
  <2>1. i \in 0..Len(all) /\ i - 1 \in 0..Len(all)
    BY <1>3
  <2>2. CASE i = Len(part)
    BY <1>7, <2>1, <2>2
  <2>3. CASE i < Len(part)
    <3>1. ~(Len(part) <= i)
      BY <1>3, <2>3
    <3> QED
      BY <2>1, <3>1
  <2>4. CASE Len(part) < i
    <3>1. Len(part) <= i - 1
      BY <1>3, <2>4
    <3>2. ClosesOn(f[i - 1].trades, trades, last)
      BY <1>9, <3>1
    <3>3. ~(Day(all[i].t) <= last)
      BY <2>4 DEF GoesOn
    <3>4. f[i] = PairStep(f[i - 1], all[i], ExitKinds)
      BY <1>1 DEF Pairs
    <3>5. f[i - 1] \in PairTyped /\ all[i] \in SimEvents
      BY <1>3, <1>5, <2>1
    <3>6. ClosesOn(f[i].trades, trades, last)
      BY <1>6, <3>2, <3>3, <3>4, <3>5, TradesGoOn
    <3> QED
      BY <2>1, <3>6
  <2> QED
    BY <1>3, <2>2, <2>3, <2>4
<1> HIDE DEF G
<1>10. \A i \in 0..Len(all) : i \in G
  BY <1>3, <1>8, <1>9, Onward
<1>11. Len(all) \in G
  BY <1>3, <1>10
<1> QED
  BY <1>1, <1>3, <1>11 DEF G, trades

LEMMA TradesSeen ==
  ASSUME NEW bars \in Seq(Rows), DropInvalidBars(bars) = bars, NEW seen, DropInvalidBars(seen) = seen,
         NEW m, NEW last, Sees(seen, bars, m, last), NEW v, v.sl \in Int, v.rr \in Int
  PROVE  ClosesOn(TradesOf(bars, v), TradesOf(seen, v), last)
<1>1. seen \in Seq(Rows) /\ Len(seen) = m /\ m \in 0..Len(seen) /\ Len(bars) \in 0..Len(bars)
  BY DEF Sees
<1>2. PICK f : Simulates(f, bars, v) /\ Simulate(bars, v) = f[Len(bars)].events
  BY SimulatedOf
<1>3. PICK g : Simulates(g, seen, v) /\ Simulate(seen, v) = g[Len(seen)].events
  BY <1>1, SimulatedOf
<1>4. Simulate(bars, v) \in SimEventSeqs
  <2>1. f[Len(bars)] \in SimTyped
    BY <1>1, <1>2, SimulationTyped
  <2> QED
    BY <1>2, <2>1 DEF SimTyped
<1>5. Simulate(seen, v) \in SimEventSeqs
  <2>1. g[Len(seen)] \in SimTyped
    BY <1>1, <1>3, SimulationTyped
  <2> QED
    BY <1>3, <2>1 DEF SimTyped
<1>6. GoesOn(f[Len(bars)].events, g[m].events, last)
  BY <1>2, <1>3, SimulationGoesOn
<1>7. GoesOn(Simulate(bars, v), Simulate(seen, v), last)
  BY <1>1, <1>2, <1>3, <1>6
<1>8. ClosesOn(Pair(Simulate(bars, v)), Pair(Simulate(seen, v)), last)
  BY <1>4, <1>5, <1>7, PairingGoesOn
<1> QED
  BY <1>8 DEF TradesOf

\* What comes after the train block is not in it.
LEMMA TrainSeen ==
  ASSUME NEW all \in TradeSeqs, NEW part \in TradeSeqs, NEW days, NEW w, NEW d, d.exitCutoff,
         ClosesOn(all, part, days[w.trainLast])
  PROVE  TrainTrades(all, days, w, d) = TrainTrades(part, days, w, d)
<1> DEFINE first == days[w.trainFirst]
           last == days[w.trainLast]
           in(x) == first <= Day(x.entry) /\ Day(x.entry) <= last /\ Day(x.exit) <= last
           S == {i \in DOMAIN all : in(all[i])}
           T == {i \in DOMAIN part : in(part[i])}
<1>1. TrainTrades(all, days, w, d) = Part(all, S) /\ TrainTrades(part, days, w, d) = Part(part, T)
  BY DEF TrainTrades, EnteredAndClosed, Those, Where
<1>2. /\ Len(all) \in Nat /\ Len(part) \in Nat /\ Len(part) <= Len(all)
      /\ DOMAIN all = 1..Len(all) /\ DOMAIN part = 1..Len(part)
  BY DEF TradeSeqs, ClosesOn
<1>3. \A i \in DOMAIN part : i \in DOMAIN all /\ all[i] = part[i]
  BY <1>2 DEF ClosesOn
<1>4. \A i \in DOMAIN all : i \notin DOMAIN part => ~(Day(all[i].exit) <= last)
  <2> SUFFICES ASSUME NEW i \in DOMAIN all, i \notin DOMAIN part PROVE ~(Day(all[i].exit) <= last)
    OBVIOUS
  <2>1. i \in 1..Len(all) /\ Len(part) < i
    BY <1>2
  <2> QED
    BY <2>1 DEF ClosesOn
<1>5. \A i \in S : i \in T
  <2> TAKE i \in S
  <2>1. i \in DOMAIN part
    BY <1>4
  <2>2. all[i] = part[i]
    BY <1>3, <2>1
  <2> QED
    BY <2>1, <2>2
<1>6. \A i \in T : i \in S
  BY <1>3
<1>7. S = T
  <2>1. S \subseteq T
    BY <1>5
  <2>2. T \subseteq S
    BY <1>6
  <2> HIDE DEF S, T
  <2> QED
    BY <2>1, <2>2
<1>8. T \in SUBSET DOMAIN part
  OBVIOUS
<1> HIDE DEF S, T
<1> DEFINE at == Ordered(T, <)
<1>9. at \in Seq(T)
  <2>1. part \in Seq(Trades)
    BY DEF TradeSeqs
  <2>2. IsFiniteSet(DOMAIN part)
    BY <2>1, DomainFinite
  <2>3. IsFiniteSet(T) /\ T \subseteq Int
    BY <1>2, <1>8, <2>2, FS_Subset
  <2> QED
    BY <2>3, OrderedNumbers
<1>10. Part(all, T) = [k \in DOMAIN at |-> all[at[k]]] /\ Part(part, T) = [k \in DOMAIN at |-> part[at[k]]]
  BY DEF Part
<1> HIDE DEF at
<1>11. \A k \in DOMAIN at : all[at[k]] = part[at[k]]
  <2> TAKE k \in DOMAIN at
  <2>1. at[k] \in T
    BY <1>9
  <2> QED
    BY <1>3, <1>8, <2>1
<1>12. Part(all, T) = Part(part, T)
  BY <1>10, <1>11
<1> QED
  BY <1>1, <1>7, <1>12

\* The pick by the scores alone.
PickBy(score) ==
  LET best == {n \in DOMAIN score : \A m \in DOMAIN score : ~MeanAbove(score[m], score[n])}
  IN  IF Baseline \in best THEN Baseline
      ELSE CHOOSE n \in best : \A m \in best : Order(n) <= Order(m)

Scores(tradesBy, days, w, d) == [n \in DOMAIN tradesBy |-> Score(TrainTrades(tradesBy[n], days, w, d), d)]

LEMMA PickIs ==
  ASSUME NEW tradesBy, NEW days, NEW w, NEW d
  PROVE  PickOf(tradesBy, days, w, d) = PickBy(Scores(tradesBy, days, w, d))
<1> DEFINE chosen == CHOOSE t \in {Scores(tradesBy, days, w, d)} : t = t
<1>1. PickOf(tradesBy, days, w, d) = PickBy(chosen)
  BY DEF PickOf, PickBy, Table, Scores
<1>2. chosen = Scores(tradesBy, days, w, d)
  OBVIOUS
<1> HIDE DEF chosen
<1> QED
  BY <1>1, <1>2

\* The trades of the variants that take part in a selection.
PoolTrades(bars) == [n \in Pool |-> TradesOf(bars, Named(n))]

\* The pick on the bars up to the end of the train block.
PickOnSeen(bars, days, w, d) ==
  LET seen == Those(bars, LAMBDA b : Day(b.t) <= days[w.trainLast])
  IN  PickOf(Table(Pool, LAMBDA n : TradesOf(seen, Named(n))), days, w, d)

\* On the bars up to the end of the train block the same variant is picked.
LEMMA PickSeen ==
  ASSUME NEW bars \in Seq(Rows), Timely(bars), \A i \in DOMAIN bars : UsableBar(bars[i]), DropInvalidBars(bars) = bars,
         NEW days, NEW w, days[w.trainLast] \in Int, NEW d, d.exitCutoff
  PROVE  PickOnSeen(bars, days, w, d) = PickOf(PoolTrades(bars), days, w, d)
<1> DEFINE last == days[w.trainLast]
           pool == PoolTrades(bars)
           seen == Those(bars, LAMBDA b : Day(b.t) <= last)
           some == Table(Pool, LAMBDA n : TradesOf(seen, Named(n)))
<1>1. \E m : Sees(seen, bars, m, last) /\ DropInvalidBars(seen) = seen
  BY SeenOf
<1>2. some = [n \in Pool |-> TradesOf(seen, Named(n))]
  BY DEF Table
<1>9. pool = [n \in Pool |-> TradesOf(bars, Named(n))]
  BY DEF PoolTrades
<1> HIDE DEF seen, some, pool
<1>3. PICK m : Sees(seen, bars, m, last) /\ DropInvalidBars(seen) = seen
  BY <1>1
<1>4. seen \in Seq(Rows)
  BY <1>3 DEF Sees
<1>5. ASSUME NEW n \in Pool
      PROVE  TrainTrades(some[n], days, w, d) = TrainTrades(pool[n], days, w, d)
  <2>1. Named(n).sl \in Int /\ Named(n).rr \in Int
    BY PoolFacts, NamedTyped
  <2>2. pool[n] \in TradeSeqs /\ some[n] \in TradeSeqs
    BY <1>2, <1>9, <1>4, <2>1, TradesTyped
  <2>3. ClosesOn(TradesOf(bars, Named(n)), TradesOf(seen, Named(n)), last)
    BY <1>3, <2>1, TradesSeen
  <2>4. ClosesOn(pool[n], some[n], last)
    BY <1>2, <1>9, <2>3
  <2> QED
    BY <2>2, <2>4, TrainSeen
<1>6. DOMAIN some = Pool /\ DOMAIN pool = Pool
  BY <1>2, <1>9
<1>7. Scores(some, days, w, d) = Scores(pool, days, w, d)
  BY <1>5, <1>6 DEF Scores
<1>8. PickOf(some, days, w, d) = PickOf(pool, days, w, d)
  BY <1>7, PickIs
<1> QED
  BY <1>8 DEF some, seen, pool, PickOnSeen

LEMMA DroppedAreUsable ==
  ASSUME NEW rows \in Seq(Rows)
  PROVE  \A i \in DOMAIN DropInvalidBars(rows) : UsableBar(DropInvalidBars(rows)[i])
<1> DEFINE S == Where(rows, UsableBar)
           p == Part(rows, S)
<1>1. S \in SUBSET DOMAIN rows /\ \A i \in S : UsableBar(rows[i])
  BY DEF Where
<1> HIDE DEF S, p
<1>2. p \in Seq(Rows) /\ \E at : Picks(at, p, rows, S)
  BY <1>1, PartOf DEF p
<1>3. PICK at : Picks(at, p, rows, S)
  BY <1>2
<1>4. DOMAIN p = 1..Len(at)
  BY <1>2, <1>3 DEF Picks
<1>5. \A k \in DOMAIN p : UsableBar(p[k])
  BY <1>1, <1>3, <1>4 DEF Picks
<1> QED
  BY <1>5 DEF DropInvalidBars, p, S

LEMMA ForwardOf ==
  ASSUME NEW rows, NEW designs
  PROVE  LET bars == DropInvalidBars(rows)
         IN  RunIndex(rows, designs).forward
                = [k \in {i \in DOMAIN designs : LongEnough(bars, designs[i])} |->
                     WalkForwardOf(bars, PoolTrades(bars), designs[k])]
<1> DEFINE bars == DropInvalidBars(rows)
           tradesBy == CHOOSE t \in {[n \in Names |-> TradesOf(bars, Named(n))]} : t = t
           pool == [n \in Pool |-> tradesBy[n]]
           S == {i \in DOMAIN designs : LongEnough(bars, designs[i])}
<1>1. RunIndex(rows, designs).forward = [k \in S |-> WalkForwardOf(bars, pool, designs[k])]
  BY DEF RunIndex, Table
<1>2. tradesBy = [n \in Names |-> TradesOf(bars, Named(n))]
  OBVIOUS
<1> HIDE DEF tradesBy, bars
<1>3. \A n \in Pool : tradesBy[n] = TradesOf(bars, Named(n))
  BY <1>2, PoolFacts
<1>4. pool = PoolTrades(bars)
  BY <1>3 DEF PoolTrades
<1> HIDE DEF pool
<1> QED
  BY <1>1, <1>4 DEF bars

LEMMA WindowsOf ==
  ASSUME NEW bars, NEW pool, NEW d, NEW w \in Range(WalkForwardOf(bars, pool, d).windows)
  PROVE  LET days == TradingDays(bars)
         IN  /\ \E k \in DOMAIN WindowBounds(Len(days), d) : w.bounds = WindowBounds(Len(days), d)[k]
             /\ w.picked = PickOf(pool, days, w.bounds, d)
<1> DEFINE days == TradingDays(bars)
           bounds == WindowBounds(Len(days), d)
           windows == CHOOSE t \in {[k \in DOMAIN bounds |-> Forward(pool, days, bounds[k], d)]} : t = t
<1>1. WalkForwardOf(bars, pool, d).windows = windows
  BY DEF WalkForwardOf, Windows, Table
<1>2. windows = [k \in DOMAIN bounds |-> Forward(pool, days, bounds[k], d)]
  OBVIOUS
<1>3. \A x : /\ Forward(pool, days, x, d).bounds = x
             /\ Forward(pool, days, x, d).picked = PickOf(pool, days, x, d)
  BY DEF Forward
<1> HIDE DEF windows, bounds, days
<1>4. PICK k \in DOMAIN bounds : w = Forward(pool, days, bounds[k], d)
  <2>1. w \in Range(windows)
    BY <1>1
  <2>2. PICK k \in DOMAIN windows : w = windows[k]
    BY <2>1 DEF Range
  <2> QED
    BY <1>2, <2>2
<1>5. w.bounds = bounds[k] /\ w.picked = PickOf(pool, days, bounds[k], d)
  BY <1>3, <1>4
<1> QED
  BY <1>5 DEF bounds, days

\* Every window of every run picks what the bars up to its train block pick.
LEMMA RunPicks ==
  ASSUME NEW rows \in Seq(Rows), NEW designs \in Seq(Designs),
         NEW j \in DOMAIN RunIndex(rows, designs).forward,
         NEW w \in Range(RunIndex(rows, designs).forward[j].windows),
         designs[j].exitCutoff, Timely(DropInvalidBars(rows))
  PROVE  LET bars == DropInvalidBars(rows)
         IN  PickOnSeen(bars, TradingDays(bars), w.bounds, designs[j]) = w.picked
<1> DEFINE bars == DropInvalidBars(rows)
           days == TradingDays(bars)
           d == designs[j]
           pool == PoolTrades(bars)
<1>1. bars \in Seq(Rows) /\ DropInvalidBars(bars) = bars /\ Timely(bars) /\ \A i \in DOMAIN bars : UsableBar(bars[i])
  BY DroppedTyped, DroppedOnce, DroppedAreUsable
<1>2. j \in DOMAIN designs /\ RunIndex(rows, designs).forward[j] = WalkForwardOf(bars, pool, d)
  <2> DEFINE S == {i \in DOMAIN designs : LongEnough(bars, designs[i])}
             forward == RunIndex(rows, designs).forward
  <2>1. forward = [k \in S |-> WalkForwardOf(bars, pool, designs[k])]
    BY ForwardOf
  <2>2. j \in DOMAIN forward
    OBVIOUS
  <2> HIDE DEF pool, forward
  <2>3. j \in S /\ forward[j] = WalkForwardOf(bars, pool, designs[j])
    BY <2>1, <2>2
  <2> QED
    BY <2>3 DEF forward
<1>3. d \in Designs
  BY <1>2
<1> HIDE DEF d, pool, bars
<1>4. w \in Range(WalkForwardOf(bars, pool, d).windows)
  BY <1>2
<1>5. /\ \E k \in DOMAIN WindowBounds(Len(days), d) : w.bounds = WindowBounds(Len(days), d)[k]
      /\ w.picked = PickOf(pool, days, w.bounds, d)
  BY <1>4, WindowsOf
<1>6. days \in Seq({Day(bars[i].t) : i \in DOMAIN bars}) /\ {Day(bars[i].t) : i \in DOMAIN bars} \subseteq Int
      /\ Len(days) \in Nat
  BY <1>1, TradingDaysOf
<1> HIDE DEF days
<1>7. w.bounds.trainLast \in 1..Len(days)
  BY <1>3, <1>5, <1>6, WindowBoundsOf
<1>8. days[w.bounds.trainLast] \in Int
  <2>1. days[w.bounds.trainLast] \in {Day(bars[i].t) : i \in DOMAIN bars}
    BY <1>6, <1>7
  <2> QED
    BY <1>6, <2>1
<1>9. d.exitCutoff
  BY DEF d
<1>10. PickOnSeen(bars, days, w.bounds, d) = PickOf(PoolTrades(bars), days, w.bounds, d)
  BY <1>1, <1>8, <1>9, PickSeen
<1> QED
  BY <1>5, <1>10 DEF days, d, pool, bars

\* The grids made are runs of rows, with the designs asked for.
RunsMade ==
  report.by # "gate" /\ report.runs # <<>> =>
    \E frames \in Seq(Seq(Rows)), designs \in Seq(Designs) :
       /\ report.runs = [k \in DOMAIN frames |-> RunIndex(frames[k], designs)]
       /\ designs = IF report.by = "csv" THEN <<LegacyDesign>> ELSE (CHOOSE a \in report.asked : TRUE).designs

LEMMA GridRuns ==
  ASSUME NEW by, NEW asked, NEW frames, NEW designs
  PROVE  LET made == Grid(by, asked, frames, designs)
         IN  /\ made.by = by /\ made.asked = asked
             /\ made.runs = <<>> \/ made.runs = [k \in DOMAIN frames |-> RunIndex(frames[k], designs)]
<1> DEFINE runs == [k \in DOMAIN frames |-> RunIndex(frames[k], designs)]
           first == Made(by, asked, "raised")
           made == Grid(by, asked, frames, designs)
<1>1. /\ first.by = by /\ first.asked = asked /\ first.runs = <<>>
      /\ DOMAIN first = {"by", "asked", "outcome", "runs", "selected"}
  BY DEF Made, NoReport
<1>2. made = Finished(first, runs)
  BY GridIsFinished
<1> HIDE DEF runs, first, made
<1>3. \/ made = [first EXCEPT !.outcome = "diverged"]
      \/ made = first
      \/ made = [first EXCEPT !.outcome = "written", !.runs = runs]
  BY <1>2 DEF Finished
<1>4. CASE made = first
  BY <1>1, <1>4 DEF made, runs
<1>5. CASE made = [first EXCEPT !.outcome = "diverged"]
  <2>1. made.by = by /\ made.asked = asked /\ made.runs = <<>>
    BY <1>1, <1>5
  <2> QED
    BY <2>1 DEF made, runs
<1>6. CASE made = [first EXCEPT !.outcome = "written", !.runs = runs]
  <2>1. made.by = by /\ made.asked = asked /\ made.runs = runs
    BY <1>1, <1>6
  <2> QED
    BY <2>1 DEF made, runs
<1> QED
  BY <1>3, <1>4, <1>5, <1>6

LEMMA RunsMadeNext ==
  ASSUME Typed, LoadInv, RunsMade, [Next]_vars
  PROVE  RunsMade'
<1>0. \A by, asked, outcome : Made(by, asked, outcome).runs = <<>>
  BY DEF Made, NoReport
<1>1. CASE RunCsv
  <2> DEFINE frames == <<file.rows>>
             designs == <<LegacyDesign>>
             grid == Grid("csv", {}, frames, designs)
  <2>1. report' = Made("csv", {}, "raised") \/ report' = grid
    BY <1>1 DEF RunCsv, Reports
  <2>2. frames \in Seq(Seq(Rows))
    <3>1. file.rows \in Seq(Rows)
      BY DEF Typed, FileType, RowSeqs
    <3> QED
      BY <3>1
  <2>3. designs \in Seq(Designs)
    BY WalkForwardAssumption
  <2>4. grid.by = "csv" /\ (grid.runs = <<>> \/ grid.runs = [k \in DOMAIN frames |-> RunIndex(frames[k], designs)])
    BY GridRuns
  <2> HIDE DEF frames, grid
  <2>5. CASE report'.runs = <<>>
    BY <2>5 DEF RunsMade
  <2>6. CASE report' = grid /\ grid.runs # <<>>
    BY <2>2, <2>3, <2>4, <2>6 DEF RunsMade
  <2> QED
    BY <1>0, <2>1, <2>5, <2>6
<1>2. ASSUME NEW a \in DbRuns, RunDb(a) PROVE RunsMade'
  <2> DEFINE last == ResearchEnd(a.holdout)
             held == a.holdout # None
             end == IF held /\ a.end = None THEN last ELSE a.end
             frames == ContiguousSegments(ReadCandles(loads, a.source, a.start, end))
             leak == \E k \in DOMAIN frames : Last(frames[k]).t > last
             usage == held /\ (a.start > last \/ a.end > last)
             grid == Grid("db", {a}, frames, a.designs)
  <2>1. report' = IF usage THEN Made("db", {a}, "usage")
                  ELSE IF frames = <<>> THEN Made("db", {a}, "empty")
                  ELSE IF held /\ leak THEN Made("db", {a}, "raised")
                  ELSE grid
    BY <1>2 DEF RunDb, Reports
  <2>2. a.start \in Nat /\ end \in Nat
    BY EndIsNat
  <2> HIDE DEF end, usage, held, leak
  <2>3. FramesRead(frames, a.source, a.start, end)
    BY <2>2, FramesOfRead
  <2>4. /\ grid.by = "db" /\ grid.asked = {a}
        /\ grid.runs = <<>> \/ grid.runs = [k \in DOMAIN frames |-> RunIndex(frames[k], a.designs)]
    BY GridRuns
  <2> HIDE DEF frames, grid
  <2>5. frames \in Seq(Seq(Rows))
    BY <2>3 DEF FramesRead
  <2>6. a.designs \in Seq(Designs)
    BY ResearchAssumption
  <2>7. (CHOOSE x \in {a} : TRUE) = a
    OBVIOUS
  <2>8. report'.runs = <<>> \/ report' = grid
    BY <1>0, <2>1
  <2>9. CASE report'.runs = <<>>
    BY <2>9 DEF RunsMade
  <2>10. CASE report' = grid /\ grid.runs # <<>>
    <3> DEFINE first == CHOOSE x \in report'.asked : TRUE
    <3>1. report'.runs = [k \in DOMAIN frames |-> RunIndex(frames[k], a.designs)] /\ report'.by = "db"
      BY <2>4, <2>10
    <3>2. first = a
      <4>1. report'.asked = {a}
        BY <2>4, <2>10
      <4> QED
        BY <2>7, <4>1
    <3> HIDE DEF first
    <3>3. a.designs = IF report'.by = "csv" THEN <<LegacyDesign>> ELSE first.designs
      BY <3>1, <3>2
    <3>4. \E f \in Seq(Seq(Rows)), designs \in Seq(Designs) :
            /\ report'.runs = [k \in DOMAIN f |-> RunIndex(f[k], designs)]
            /\ designs = IF report'.by = "csv" THEN <<LegacyDesign>> ELSE (CHOOSE x \in report'.asked : TRUE).designs
      BY <2>5, <2>6, <3>1, <3>3 DEF first
    <3> QED
      BY <3>4 DEF RunsMade
  <2> QED
    BY <2>8, <2>9, <2>10
<1>3. ASSUME NEW source \in Sources, Gate(source) PROVE RunsMade'
  <2>1. PICK o \in {"raised", "reproduced", "differs"} : \E x : \E y :
          /\ report' = IF o = "raised" THEN Made("gate", {}, o)
                       ELSE [Made("gate", {}, o) EXCEPT !.selected = x, !.runs = y]
    BY <1>3 DEF Gate, Reports
  <2>2. report'.by = "gate"
    BY <2>1 DEF Made, NoReport
  <2> QED
    BY <2>2 DEF RunsMade
<1>4. CASE UNCHANGED report
  BY <1>4 DEF RunsMade
<1>5. CASE DownloadStep
  BY <1>4, <1>5 DEF DownloadStep, Answer, Fetched, OpenFile, WriteDataset, WriteMetadata
<1>6. ASSUME NEW p \in Loaders, LoadStep(p) PROVE RunsMade'
  BY <1>4, <1>6 DEF LoadStep, Hash, Read, Find, Insert, FindAgain, Rehash
<1>7. CASE Kill \/ (\E r \in Requests : StartDownload(r)) \/ (\E p \in Loaders, o \in LoadOptions : StartLoad(p, o))
  BY <1>4, <1>7 DEF Kill, StartDownload, StartLoad
<1>8. CASE UNCHANGED vars
  BY <1>4, <1>8 DEF vars
<1> QED
  BY <1>1, <1>2, <1>3, <1>5, <1>6, <1>7, <1>8 DEF Next

LEMMA AlwaysRunsMade == Spec => []RunsMade
<1>1. Init => RunsMade
  BY DEF Init, NoReport, RunsMade
<1>2. Typed /\ LoadInv /\ RunsMade /\ [Next]_vars => RunsMade'
  BY RunsMadeNext
<1> QED
  BY <1>1, <1>2, AlwaysTyped, AlwaysLoadInv, PTL DEF Spec

LEMMA PicksOfRuns ==
  ASSUME RunsMade
  PROVE  PickIgnoresTest
<1> DEFINE asked == IF report.by = "csv" THEN <<LegacyDesign>> ELSE (CHOOSE a \in report.asked : TRUE).designs
<1> SUFFICES ASSUME report.by # "gate", NEW k \in DOMAIN report.runs,
                    NEW j \in DOMAIN report.runs[k].forward, NEW w \in Range(report.runs[k].forward[j].windows),
                    asked[j].exitCutoff, Timely(DropInvalidBars(report.runs[k].bars))
             PROVE  LET bars == DropInvalidBars(report.runs[k].bars)
                    IN  PickOnSeen(bars, TradingDays(bars), w.bounds, asked[j]) = w.picked
  BY DEF PickIgnoresTest, PickOnSeen, Timely
<1>1. report.runs # <<>>
  OBVIOUS
<1>2. PICK frames \in Seq(Seq(Rows)), designs \in Seq(Designs) :
         /\ report.runs = [i \in DOMAIN frames |-> RunIndex(frames[i], designs)]
         /\ designs = asked
  BY <1>1 DEF RunsMade
<1> HIDE DEF asked
<1>3. k \in DOMAIN frames /\ report.runs[k] = RunIndex(frames[k], designs)
  BY <1>2
<1>4. frames[k] \in Seq(Rows) /\ report.runs[k].bars = frames[k]
  BY <1>2, <1>3, BarsOfRun
<1>5. /\ j \in DOMAIN RunIndex(frames[k], designs).forward
      /\ w \in Range(RunIndex(frames[k], designs).forward[j].windows)
      /\ designs[j].exitCutoff /\ Timely(DropInvalidBars(frames[k]))
  BY <1>2, <1>3, <1>4
<1> QED
  BY <1>2, <1>4, <1>5, RunPicks

\* With the exit cutoff the pick of every window is a function of the bars up
\* to the end of its train block: nothing later is ever looked at, on any bars
\* in order of time, any grid of variants and any designs.
THEOREM PicksIgnoreTests == Spec => []PickIgnoresTest
<1>1. RunsMade => PickIgnoresTest
  BY PicksOfRuns
<1> QED
  BY <1>1, AlwaysRunsMade, PTL

-------------------------------------------------------------------------------
(* The metrics and their definitions.                                          *)

\* The running sums of the points at the positions in S.
SumsAt(f, trades, S) ==
  /\ f \in [0..Len(trades) -> Int] /\ f[0] = 0
  /\ \A i \in 1..Len(trades) : f[i] = IF i \in S THEN f[i - 1] + trades[i].points ELSE f[i - 1]

LEMMA SumsAtExist ==
  ASSUME NEW trades \in TradeSeqs, NEW S
  PROVE  \E f : SumsAt(f, trades, S)
<1> DEFINE n == Len(trades)
           step == [i \in 1..n |-> [s \in Int |-> IF i \in S THEN s + trades[i].points ELSE s]]
<1>0. n \in Nat /\ \A i \in 1..n : trades[i].points \in Int
  BY PointsTyped
<1>1. step \in [1..n -> [Int -> Int]]
  <2>1. \A i \in 1..n : \A s \in Int : (IF i \in S THEN s + trades[i].points ELSE s) \in Int
    BY <1>0
  <2> QED
    BY <2>1
<1>2. \A i \in 1..n : \A s \in Int : step[i][s] = IF i \in S THEN s + trades[i].points ELSE s
  OBVIOUS
<1> HIDE DEF step, n
<1>3. 0 \in Int /\ n \in Nat
  BY <1>0
<1>4. \E f \in [0..n -> Int] : Loop(f, n, 0, step)
  BY <1>1, <1>3, Iterated, Zenon
<1>5. PICK f \in [0..n -> Int] : Loop(f, n, 0, step)
  BY <1>4
<1>6. f[0] = 0
  BY <1>3, <1>5 DEF Loop
<1>7. ASSUME NEW i \in 1..n PROVE f[i] = IF i \in S THEN f[i - 1] + trades[i].points ELSE f[i - 1]
  <2>1. i \in 0..n /\ i # 0 /\ i - 1 \in 0..n
    BY <1>3
  <2>2. f[i] = step[i][f[i - 1]]
    BY <1>5, <2>1 DEF Loop
  <2>3. f[i - 1] \in Int
    BY <2>1
  <2> QED
    BY <1>2, <2>2, <2>3
<1> QED
  BY <1>5, <1>6, <1>7 DEF SumsAt, n

\* The net of a part of the trades.
LEMMA NetOfPart ==
  ASSUME NEW trades \in TradeSeqs, NEW S \in SUBSET DOMAIN trades, NEW f, SumsAt(f, trades, S)
  PROVE  Net(Part(trades, S)) = f[Len(trades)]
<1> DEFINE n == Len(trades)
           part == Part(trades, S)
<1>1. n \in Nat /\ DOMAIN trades = 1..n /\ trades \in Seq(Trades) /\ \A i \in 1..n : trades[i].points \in Int
  BY PointsTyped DEF TradeSeqs
<1>2. part \in Seq(Trades) /\ \E at : Picks(at, part, trades, S)
  BY <1>1, PartOf
<1>3. PICK at : Picks(at, part, trades, S)
  BY <1>2
<1>4. part \in TradeSeqs
  BY <1>2 DEF TradeSeqs
<1> HIDE DEF part
<1>5. PICK g : Sums(g, part) /\ Net(part) = g[Len(part)]
  BY <1>4, NetOf
<1> DEFINE m == Len(part)
           Reached(i, c) == (\A k \in 1..m : at[k] <= i <=> k <= c) /\ g[c] = f[i]
           G == {i \in 0..n : \E c \in 0..m : Reached(i, c)}
<1>6. /\ m \in Nat /\ m = Len(at)
      /\ \A k \in 1..m : at[k] \in 1..n /\ at[k] \in S /\ part[k] = trades[at[k]]
      /\ \A j, k \in 1..m : j < k <=> at[j] < at[k]
      /\ \A i \in S : \E k \in 1..m : at[k] = i
  BY <1>1, <1>3 DEF Picks
<1>7. /\ g[0] = 0 /\ \A k \in 1..m : g[k] = g[k - 1] + part[k].points
      /\ f[0] = 0 /\ \A i \in 1..n : f[i] = IF i \in S THEN f[i - 1] + trades[i].points ELSE f[i - 1]
  BY <1>5 DEF Sums, SumsAt
<1> HIDE DEF m, n
<1>8. 0 \in G
  <2>1. \A k \in 1..m : at[k] <= 0 <=> k <= 0
    BY <1>1, <1>6
  <2>2. 0 \in 0..n /\ 0 \in 0..m
    BY <1>1, <1>6
  <2>3. Reached(0, 0)
    BY <1>7, <2>1
  <2> HIDE DEF Reached
  <2> QED
    BY <2>2, <2>3
<1>9. ASSUME NEW i \in 1..n, i - 1 \in G PROVE i \in G
  <2>1. PICK c \in 0..m : Reached(i - 1, c)
    BY <1>9
  <2>2. i \in 0..n /\ i \in Int /\ c \in Int
    BY <1>1
  <2>3. CASE i \notin S
    <3>1. \A k \in 1..m : at[k] <= i <=> k <= c
      <4> TAKE k \in 1..m
      <4>1. at[k] \in Int /\ at[k] # i
        BY <1>6, <2>3
      <4>2. at[k] <= i <=> at[k] <= i - 1
        BY <2>2, <4>1
      <4> QED
        BY <2>1, <4>2
    <3>2. g[c] = f[i]
      BY <1>7, <2>1, <2>3
    <3>3. Reached(i, c)
      BY <3>1, <3>2
    <3> HIDE DEF Reached
    <3> QED
      BY <2>2, <3>3
  <2>4. CASE i \in S
    <3>1. PICK x \in 1..m : at[x] = i
      BY <1>6, <2>4
    <3>2. x = c + 1
      <4>1. x > c
        <5>1. ~(at[x] <= i - 1)
          BY <2>2, <3>1
        <5>2. ~(x <= c)
          BY <2>1, <5>1
        <5> QED
          BY <1>6, <2>2, <5>2
      <4>2. ASSUME x > c + 1 PROVE FALSE
        <5>1. c + 1 \in 1..m /\ c + 1 < x
          BY <1>6, <2>2, <4>2
        <5>2. at[c + 1] < at[x]
          BY <1>6, <5>1
        <5>3. at[c + 1] \in Int
          BY <1>6, <5>1
        <5>4. at[c + 1] <= i - 1
          BY <2>2, <3>1, <5>2, <5>3
        <5>5. c + 1 <= c
          BY <2>1, <5>1, <5>4
        <5> QED
          BY <2>2, <5>5
      <4> QED
        BY <1>6, <2>2, <4>1, <4>2
    <3>3. \A k \in 1..m : at[k] <= i <=> k <= x
      <4> TAKE k \in 1..m
      <4>1. k < x <=> at[k] < at[x]
        BY <1>6
      <4>2. x < k <=> at[x] < at[k]
        BY <1>6
      <4>3. at[k] \in Int /\ k \in Int /\ x \in Int
        BY <1>6
      <4> QED
        BY <2>2, <3>1, <4>1, <4>2, <4>3
    <3>4. g[x] = f[i]
      <4>1. g[x] = g[x - 1] + part[x].points /\ x - 1 = c
        BY <1>7, <2>2, <3>2
      <4>2. part[x] = trades[i]
        BY <1>6, <3>1
      <4>3. f[i] = f[i - 1] + trades[i].points
        BY <1>7, <2>4
      <4>4. g[c] = f[i - 1]
        BY <2>1
      <4> QED
        BY <4>1, <4>2, <4>3, <4>4
    <3>5. Reached(i, x) /\ x \in 0..m
      BY <1>6, <3>3, <3>4
    <3> HIDE DEF Reached
    <3> QED
      BY <2>2, <3>5
  <2> QED
    BY <2>3, <2>4
<1>10. \A i \in 0..n : i \in G
  <2> HIDE DEF G
  <2> QED
    BY <1>1, <1>8, <1>9, Onward
<1>11. PICK c \in 0..m : Reached(n, c)
  <2>1. n \in 0..n
    BY <1>1
  <2>2. n \in G
    BY <1>10, <2>1
  <2> QED
    BY <2>2
<1>12. c = m
  <2> SUFFICES ASSUME c # m PROVE FALSE
    OBVIOUS
  <2>1. m \in 1..m /\ ~(m <= c)
    BY <1>6
  <2>2. at[m] <= n
    BY <1>1, <1>6, <2>1
  <2> QED
    BY <1>11, <2>1, <2>2
<1> QED
  BY <1>5, <1>11, <1>12 DEF part, m, n

\* Two parts without a common position add up.
LEMMA NetOfTwo ==
  ASSUME NEW trades \in TradeSeqs, NEW A \in SUBSET DOMAIN trades, NEW B \in SUBSET DOMAIN trades, A \cap B = {}
  PROVE  /\ Net(Part(trades, A \cup B)) = Net(Part(trades, A)) + Net(Part(trades, B))
         /\ Net(Part(trades, A)) \in Int /\ Net(Part(trades, B)) \in Int
<1> DEFINE n == Len(trades)
<1>0. n \in Nat /\ \A i \in 1..n : trades[i].points \in Int
  BY PointsTyped
<1>1. PICK f : SumsAt(f, trades, A)
  BY SumsAtExist
<1>2. PICK g : SumsAt(g, trades, B)
  BY SumsAtExist
<1>3. PICK h : SumsAt(h, trades, A \cup B)
  BY SumsAtExist
<1>4. \A i \in 0..n : f[i] \in Int /\ g[i] \in Int
  BY <1>1, <1>2 DEF SumsAt
<1> DEFINE G == {i \in 0..n : h[i] = f[i] + g[i]}
<1>5. 0 \in G
  BY <1>0, <1>1, <1>2, <1>3 DEF SumsAt
<1>6. ASSUME NEW i \in 1..n, i - 1 \in G PROVE i \in G
  <2>1. i \in 0..n /\ i - 1 \in 0..n /\ h[i - 1] = f[i - 1] + g[i - 1]
    BY <1>0, <1>6
  <2>2. f[i - 1] \in Int /\ g[i - 1] \in Int /\ trades[i].points \in Int
    BY <1>0, <1>4, <2>1
  <2>3. /\ f[i] = IF i \in A THEN f[i - 1] + trades[i].points ELSE f[i - 1]
        /\ g[i] = IF i \in B THEN g[i - 1] + trades[i].points ELSE g[i - 1]
        /\ h[i] = IF i \in A \cup B THEN h[i - 1] + trades[i].points ELSE h[i - 1]
    BY <1>1, <1>2, <1>3 DEF SumsAt
  <2>4. h[i] = f[i] + g[i]
    <3>1. CASE i \in A
      <4>1. i \notin B /\ i \in A \cup B
        BY <3>1
      <4> QED
        BY <2>1, <2>2, <2>3, <3>1, <4>1
    <3>2. CASE i \notin A /\ i \in B
      BY <2>1, <2>2, <2>3, <3>2
    <3>3. CASE i \notin A /\ i \notin B
      BY <2>1, <2>2, <2>3, <3>3
    <3> QED
      BY <3>1, <3>2, <3>3
  <2> QED
    BY <2>1, <2>4
<1> HIDE DEF G
<1>7. \A i \in 0..n : i \in G
  BY <1>0, <1>5, <1>6, Onward
<1>8. n \in 0..n /\ h[n] = f[n] + g[n]
  BY <1>0, <1>7 DEF G
<1>9. Net(Part(trades, A)) = f[n] /\ Net(Part(trades, B)) = g[n] /\ Net(Part(trades, A \cup B)) = h[n]
  <2>1. A \cup B \in SUBSET DOMAIN trades
    OBVIOUS
  <2> QED
    BY <1>1, <1>2, <1>3, <2>1, NetOfPart
<1> QED
  BY <1>4, <1>8, <1>9

LEMMA NetOfNone ==
  ASSUME NEW trades \in TradeSeqs
  PROVE  Net(Part(trades, {})) = 0
<1> DEFINE none == {}
           net == Net(Part(trades, none))
<1>1. none \in SUBSET DOMAIN trades /\ none \cap none = {} /\ none \cup none = none
  OBVIOUS
<1> HIDE DEF none
<1>2. Net(Part(trades, none \cup none)) = net + net /\ net \in Int
  BY <1>1, NetOfTwo
<1>3. net = net + net
  BY <1>1, <1>2
<1> HIDE DEF net
<1>4. net = 0
  BY <1>2, <1>3
<1> QED
  BY <1>4 DEF net, none

\* The trades of one side, and those entered in one slot.
OfSide(trades, side) == {i \in DOMAIN trades : trades[i].side = side}
InSlot(trades, k) == {i \in DOMAIN trades : Slot(trades[i].entry) = k}
SlotsOf(trades) == {Slot(trades[i].entry) : i \in DOMAIN trades}
Lost(trades) == {i \in DOMAIN trades : trades[i].points < 0}

LEMMA SlotTyped ==
  ASSUME NEW t \in Nat
  PROVE  Slot(t) \in 1..SlotsPerDay
<1>1. SlotsPerDay \in Nat \ {0} /\ t - 1 \in Int
  BY ReplayAssumption
<1>2. (t - 1) % SlotsPerDay \in 0..(SlotsPerDay - 1)
  BY <1>1
<1> QED
  BY <1>1, <1>2 DEF Slot

LEMMA SlotsTyped ==
  ASSUME NEW trades \in TradeSeqs
  PROVE  SlotsOf(trades) \subseteq 1..SlotsPerDay
<1>1. \A i \in DOMAIN trades : trades[i].entry \in Nat
  <2> SUFFICES ASSUME NEW i \in DOMAIN trades PROVE trades[i].entry \in Nat
    OBVIOUS
  <2>1. trades[i] \in Trades
    BY DEF TradeSeqs
  <2> QED
    BY <2>1 DEF Trades
<1> QED
  BY <1>1, SlotTyped DEF SlotsOf

\* What the summary of some trades says of them in order of entry.
LEMMA SummaryIs ==
  ASSUME NEW given \in TradeSeqs, NEW regimes
  PROVE  LET trades == OldestFirst(given)
             s == Summarize(given, regimes)
         IN  /\ s.net = Net(trades)
             /\ s.call.net = Net(Part(trades, OfSide(trades, 1))) /\ s.put.net = Net(Part(trades, OfSide(trades, -1)))
             /\ s.all.losses = Cardinality(Lost(trades))
             /\ s.drawdown = MaxDrawdown(trades) /\ s.maxLosses = MaxConsecutiveLosses(trades)
             /\ s.halts = Halts(trades)
             /\ DOMAIN s.slots = SlotsOf(trades)
             /\ \A k \in SlotsOf(trades) : s.slots[k].net = Net(Part(trades, InSlot(trades, k)))
<1> DEFINE trades == OldestFirst(given)
           s == Summarize(given, regimes)
           made == {trades[i] : i \in DOMAIN trades}
           label == [x \in made |-> Slot(x.entry)]
           labels == {label[trades[i]] : i \in DOMAIN trades} \cap (1..SlotsPerDay)
           one(S) == Breakdown(Part(trades, S))
<1>1. s.net = Net(trades) /\ s.drawdown = MaxDrawdown(trades) /\ s.maxLosses = MaxConsecutiveLosses(trades)
      /\ s.halts = Halts(trades)
  BY DEF Summarize
<1>2. \A S : one(S).net = Net(Part(trades, S))
  BY DEF Breakdown
<1>3. s.call = one(OfSide(trades, 1)) /\ s.put = one(OfSide(trades, -1))
  BY DEF Summarize, Those, Where, OfSide
<1>4. s.all.losses = Cardinality(Lost(trades))
  BY DEF Summarize, Breakdown, Where, Lost
<1>5. s.slots = [k \in labels |-> one({i \in DOMAIN trades : label[trades[i]] = k})]
  BY DEF Summarize, Buckets, Those, Where
<1>6. \A i \in DOMAIN trades : label[trades[i]] = Slot(trades[i].entry)
  OBVIOUS
<1>7. trades \in TradeSeqs
  BY OldestFirstOf
<1> HIDE DEF trades, s, label, one
<1>8. \A k : {i \in DOMAIN trades : label[trades[i]] = k} = InSlot(trades, k)
  BY <1>6 DEF InSlot
<1>9. labels = SlotsOf(trades)
  <2>1. {label[trades[i]] : i \in DOMAIN trades} = SlotsOf(trades)
    BY <1>6 DEF SlotsOf
  <2> QED
    BY <1>7, <2>1, SlotsTyped
<1> HIDE DEF labels
<1>10. DOMAIN s.slots = SlotsOf(trades) /\ \A k \in SlotsOf(trades) : s.slots[k] = one(InSlot(trades, k))
  BY <1>5, <1>8, <1>9
<1>11. /\ s.call.net = Net(Part(trades, OfSide(trades, 1))) /\ s.put.net = Net(Part(trades, OfSide(trades, -1)))
       /\ \A k \in SlotsOf(trades) : s.slots[k].net = Net(Part(trades, InSlot(trades, k)))
  BY <1>2, <1>3, <1>10
<1> QED
  BY <1>1, <1>4, <1>10, <1>11 DEF trades, s

LEMMA SidesAddUp ==
  ASSUME NEW trades \in TradeSeqs
  PROVE  Net(Part(trades, OfSide(trades, 1))) + Net(Part(trades, OfSide(trades, -1))) = Net(trades)
<1> DEFINE A == OfSide(trades, 1)
           B == OfSide(trades, -1)
<1>1. \A i \in DOMAIN trades : trades[i].side \in {-1, 1}
  <2> SUFFICES ASSUME NEW i \in DOMAIN trades PROVE trades[i].side \in {-1, 1}
    OBVIOUS
  <2>1. trades[i] \in Trades
    BY DEF TradeSeqs
  <2> QED
    BY <2>1 DEF Trades
<1>2. A \in SUBSET DOMAIN trades /\ B \in SUBSET DOMAIN trades /\ A \cap B = {} /\ A \cup B = DOMAIN trades
  BY <1>1 DEF OfSide
<1> HIDE DEF A, B
<1>3. Part(trades, A \cup B) = trades
  <2>1. Part(trades, DOMAIN trades) = trades
    BY PartOfAll DEF TradeSeqs
  <2> QED
    BY <1>2, <2>1
<1>4. /\ Net(Part(trades, A \cup B)) = Net(Part(trades, A)) + Net(Part(trades, B))
  BY <1>2, NetOfTwo
<1> QED
  BY <1>3, <1>4 DEF A, B

\* The running sums of the nets listed under these keys.
AddUp(q, keys, table) ==
  q = [i \in 0..Len(keys) |-> IF i = 0 THEN 0 ELSE q[i - 1] + table[keys[i]].net]

LEMMA AddUpIs ==
  ASSUME NEW keys, NEW table
  PROVE  SumOf(keys, LAMBDA k : table[k].net) = (CHOOSE q : AddUp(q, keys, table))[Len(keys)]
BY DEF SumOf, AddUp

LEMMA AddUpExists ==
  ASSUME NEW K, NEW keys \in Seq(K), NEW table, \A k \in K : table[k].net \in Int
  PROVE  \E q \in [0..Len(keys) -> Int] : AddUp(q, keys, table)
<1> DEFINE n == Len(keys)
           step == [i \in 1..n |-> [s \in Int |-> s + table[keys[i]].net]]
<1>0. n \in Nat /\ \A i \in 1..n : table[keys[i]].net \in Int
  OBVIOUS
<1>1. step \in [1..n -> [Int -> Int]]
  <2>1. \A i \in 1..n : \A s \in Int : s + table[keys[i]].net \in Int
    BY <1>0
  <2> QED
    BY <2>1
<1>2. \A i \in 1..n : \A s \in Int : step[i][s] = s + table[keys[i]].net
  OBVIOUS
<1> HIDE DEF step, n
<1>3. 0 \in Int /\ n \in Nat
  BY <1>0
<1>4. \E q \in [0..n -> Int] : Loop(q, n, 0, step)
  BY <1>1, <1>3, Iterated, Zenon
<1>5. PICK q \in [0..n -> Int] : Loop(q, n, 0, step)
  BY <1>4
<1>6. ASSUME NEW i \in 0..n, i # 0 PROVE step[i][q[i - 1]] = q[i - 1] + table[keys[i]].net
  <2>1. i \in 1..n /\ i - 1 \in 0..n
    BY <1>0, <1>6
  <2> QED
    BY <1>2, <2>1
<1>7. q = [i \in 0..n |-> IF i = 0 THEN 0 ELSE q[i - 1] + table[keys[i]].net]
  BY <1>5, <1>6 DEF Loop
<1>8. AddUp(q, keys, table)
  BY <1>7 DEF AddUp, n
<1> QED
  BY <1>5, <1>8 DEF n

\* The nets listed under the keys of a set, in order, as one sum.
NetUnder(keys, table) == SumOf(Ordered(keys, <), LAMBDA k : table[k].net)

LEMMA SlotsAddUp ==
  ASSUME NEW trades \in TradeSeqs, NEW table,
         \A k \in SlotsOf(trades) : table[k].net = Net(Part(trades, InSlot(trades, k)))
  PROVE  NetUnder(SlotsOf(trades), table) = Net(trades)
<1> DEFINE D == SlotsOf(trades)
           keys == Ordered(D, <)
           n == Len(keys)
           Upto(c) == {i \in DOMAIN trades : \E j \in 1..c : keys[j] = Slot(trades[i].entry)}
           q == CHOOSE f : AddUp(f, keys, table)
           G == {c \in 0..n : q[c] = Net(Part(trades, Upto(c)))}
<1>1. IsFiniteSet(D) /\ D \subseteq Int
  <2>1. SlotsPerDay \in Nat /\ D \subseteq 1..SlotsPerDay
    BY SlotsTyped, ReplayAssumption
  <2>2. IsFiniteSet(1..SlotsPerDay)
    BY <2>1, FS_Interval
  <2> HIDE DEF D
  <2>3. IsFiniteSet(D)
    BY <2>1, <2>2, FS_Subset
  <2> QED
    BY <2>1, <2>3
<1> HIDE DEF D
<1>2. /\ keys \in Seq(D) /\ n \in Nat
      /\ \A j, k \in 1..n : j < k <=> keys[j] < keys[k]
      /\ \A x \in D : \E k \in 1..n : keys[k] = x
  BY <1>1, OrderedNumbers
<1>3. SumOf(keys, LAMBDA k : table[k].net) = q[n]
  BY AddUpIs
<1> HIDE DEF keys
<1>4. \A k \in D : table[k].net = Net(Part(trades, InSlot(trades, k))) /\ table[k].net \in Int
  <2> TAKE k \in D
  <2>1. InSlot(trades, k) \in SUBSET DOMAIN trades
    BY DEF InSlot
  <2>2. Part(trades, InSlot(trades, k)) \in TradeSeqs
    BY <2>1, PartOf DEF TradeSeqs
  <2> QED
    BY <2>2, NetOf DEF D
<1>5. \E f : AddUp(f, keys, table)
  BY <1>2, <1>4, AddUpExists
<1>6. AddUp(q, keys, table)
  BY <1>5
<1> HIDE DEF q, n
<1>7. q[0] = 0 /\ \A c \in 1..n : q[c] = q[c - 1] + table[keys[c]].net
  <2>1. 0 \in 0..n /\ \A c \in 1..n : c \in 0..n /\ c # 0
    BY <1>2
  <2> QED
    BY <1>6, <2>1 DEF AddUp, n
<1>8. 0 \in G
  <2>1. Upto(0) = {}
    OBVIOUS
  <2>2. Net(Part(trades, Upto(0))) = 0
    BY <2>1, NetOfNone
  <2>3. 0 \in 0..n
    BY <1>2
  <2> HIDE DEF Upto
  <2> QED
    BY <1>7, <2>2, <2>3
<1>9. ASSUME NEW c \in 1..n, c - 1 \in G PROVE c \in G
  <2> DEFINE A == Upto(c - 1)
             B == InSlot(trades, keys[c])
  <2>1. c \in 0..n /\ q[c - 1] = Net(Part(trades, A))
    BY <1>2, <1>9
  <2>2. keys[c] \in D
    BY <1>2 DEF n
  <2>3. A \in SUBSET DOMAIN trades /\ B \in SUBSET DOMAIN trades
    BY DEF InSlot
  <2>4. A \cap B = {}
    <3> SUFFICES ASSUME NEW i \in A, i \in B PROVE FALSE
      OBVIOUS
    <3>1. PICK j \in 1..(c - 1) : keys[j] = Slot(trades[i].entry)
      OBVIOUS
    <3>2. keys[j] = keys[c]
      BY <3>1 DEF InSlot
    <3>3. j \in 1..n /\ j < c
      <4>1. n \in Nat
        BY <1>2
      <4> QED
        BY <4>1
    <3>4. keys[j] < keys[c] /\ keys[c] \in Int
      BY <1>1, <1>2, <2>2, <3>3
    <3> QED
      BY <3>2, <3>4
  <2>5. Upto(c) = A \cup B
    <3>1. ASSUME NEW i \in Upto(c) PROVE i \in A \cup B
      <4>1. PICK j \in 1..c : keys[j] = Slot(trades[i].entry)
        OBVIOUS
      <4>2. CASE j = c
        BY <4>1, <4>2 DEF InSlot
      <4>3. CASE j # c
        <5>1. j \in 1..(c - 1)
          BY <4>3
        <5> QED
          BY <4>1, <5>1
      <4> QED
        BY <4>2, <4>3
    <3>2. ASSUME NEW i \in A PROVE i \in Upto(c)
      <4>1. PICK j \in 1..(c - 1) : keys[j] = Slot(trades[i].entry)
        OBVIOUS
      <4>2. j \in 1..c
        OBVIOUS
      <4> QED
        BY <4>1, <4>2
    <3>3. ASSUME NEW i \in B PROVE i \in Upto(c)
      <4>1. i \in DOMAIN trades /\ keys[c] = Slot(trades[i].entry)
        BY DEF InSlot
      <4>2. c \in 1..c
        OBVIOUS
      <4> QED
        BY <4>1, <4>2
    <3> HIDE DEF A, B, Upto
    <3> QED
      BY <3>1, <3>2, <3>3
  <2>6. Net(Part(trades, A \cup B)) = Net(Part(trades, A)) + Net(Part(trades, B))
    <3> HIDE DEF A, B
    <3> QED
      BY <2>3, <2>4, NetOfTwo
  <2>7. q[c] = q[c - 1] + Net(Part(trades, B))
    BY <1>4, <1>7, <2>2
  <2> HIDE DEF A, B, Upto
  <2>8. q[c] = Net(Part(trades, Upto(c)))
    BY <2>1, <2>5, <2>6, <2>7
  <2> QED
    BY <2>1, <2>8
<1>10. \A c \in 0..n : c \in G
  <2> HIDE DEF G
  <2> QED
    BY <1>2, <1>8, <1>9, Onward
<1>11. q[n] = Net(Part(trades, Upto(n)))
  <2>1. n \in G
    BY <1>2, <1>10
  <2> HIDE DEF Upto
  <2> QED
    BY <2>1
<1>12. Upto(n) = DOMAIN trades
  <2>1. ASSUME NEW i \in DOMAIN trades PROVE i \in Upto(n)
    <3>1. Slot(trades[i].entry) \in D
      BY DEF SlotsOf, D
    <3>2. PICK j \in 1..n : keys[j] = Slot(trades[i].entry)
      BY <1>2, <3>1
    <3> QED
      BY <3>2
  <2> QED
    BY <2>1
<1>13. Part(trades, DOMAIN trades) = trades
  BY PartOfAll DEF TradeSeqs
<1>14. q[n] = Net(trades)
  <2> HIDE DEF Upto
  <2> QED
    BY <1>11, <1>12, <1>13
<1> QED
  BY <1>3, <1>14 DEF NetUnder, keys, D, n

\* The net of consecutive trades is what the running sum gains.
LEMMA NetOfBlock ==
  ASSUME NEW trades \in TradeSeqs, NEW P, Sums(P, trades), NEW a \in 1..Len(trades), NEW b \in 1..Len(trades), a <= b
  PROVE  Net(SubSeq(trades, a, b)) = P[b] - P[a - 1]
<1> DEFINE block == SubSeq(trades, a, b)
           m == b - a + 1
<1>0. /\ Len(trades) \in Nat /\ trades \in Seq(Trades) /\ \A i \in 1..Len(trades) : trades[i].points \in Int
      /\ a \in Int /\ b \in Int /\ 1 <= a /\ b <= Len(trades) /\ m \in Nat
  BY PointsTyped DEF TradeSeqs
<1>1. block \in Seq(Trades) /\ Len(block) = m /\ \A i \in 1..m : block[i] = trades[a - 1 + i]
  BY <1>0
<1>2. block \in TradeSeqs
  BY <1>1 DEF TradeSeqs
<1> HIDE DEF block, m
<1>3. PICK g : Sums(g, block) /\ Net(block) = g[Len(block)]
  BY <1>2, NetOf
<1> DEFINE H == {i \in 0..m : g[i] = P[a - 1 + i] - P[a - 1]}
<1>4. a - 1 \in 0..Len(trades) /\ P[a - 1] \in Int /\ a - 1 + 0 = a - 1
  <2>1. a - 1 \in 0..Len(trades) /\ a - 1 + 0 = a - 1
    BY <1>0
  <2>2. P \in [0..Len(trades) -> Int]
    BY DEF Sums
  <2> QED
    BY <2>1, <2>2
<1>5. 0 \in H
  <2>1. 0 \in 0..m
    BY <1>0
  <2>2. g[0] = 0
    BY <1>3 DEF Sums
  <2>3. g[0] = P[a - 1 + 0] - P[a - 1]
    BY <1>4, <2>2
  <2> QED
    BY <2>1, <2>3
<1>6. ASSUME NEW i \in 1..m, i - 1 \in H PROVE i \in H
  <2> DEFINE k == a - 1 + i
  <2>1. i \in 0..m /\ k \in 1..Len(trades) /\ a - 1 + (i - 1) = k - 1 /\ k - 1 \in 0..Len(trades)
    BY <1>0 DEF m
  <2>2. g[i - 1] = P[k - 1] - P[a - 1]
    BY <1>6, <2>1
  <2>3. g[i] = g[i - 1] + block[i].points
    BY <1>1, <1>3 DEF Sums
  <2>4. P[k] = P[k - 1] + trades[k].points /\ P[k - 1] \in Int /\ trades[k].points \in Int
    BY <1>0, <2>1 DEF Sums
  <2>5. block[i] = trades[k]
    BY <1>1
  <2> HIDE DEF k
  <2>6. g[i] = P[k] - P[a - 1]
    BY <1>4, <2>2, <2>3, <2>4, <2>5
  <2> QED
    BY <2>1, <2>6 DEF k
<1> HIDE DEF H
<1>7. \A i \in 0..m : i \in H
  BY <1>0, <1>5, <1>6, Onward
<1>8. m \in 0..m /\ a - 1 + m = b
  BY <1>0 DEF m
<1>9. g[m] = P[b] - P[a - 1]
  BY <1>7, <1>8 DEF H
<1> QED
  BY <1>1, <1>3, <1>9 DEF block

LEMMA MaxIs ==
  ASSUME NEW S \in SUBSET Int, NEW m \in S, \A x \in S : x <= m
  PROVE  Max(S) = m
<1>1. \E x \in S : \A y \in S : x >= y
  <2>1. \A y \in S : m >= y
    OBVIOUS
  <2> QED
    BY <2>1
<1>2. Max(S) \in S /\ \A y \in S : Max(S) >= y
  BY <1>1 DEF Max
<1>3. Max(S) \in Int /\ m \in Int /\ Max(S) >= m /\ Max(S) <= m
  BY <1>2
<1> QED
  BY <1>3

LEMMA GreaterIs ==
  ASSUME NEW a \in Int, NEW b \in Int
  PROVE  /\ Greater(a, b) \in {a, b} /\ Greater(a, b) \in Int
         /\ a <= Greater(a, b) /\ b <= Greater(a, b)
BY DEF Greater

\* The equity curve: the net so far, its peak and the worst fall from a peak.
CurvePoints == [cum : Int, peak : Int, worst : Int]
CurveStart == [cum |-> 0, peak |-> 0, worst |-> 0]
CurveStep(s, points) ==
  LET cum == s.cum + points
      peak == Greater(s.peak, cum)
  IN  [cum |-> cum, peak |-> peak, worst |-> Greater(s.worst, peak - cum)]
Curve(f, trades) ==
  f = [i \in 0..Len(trades) |-> IF i = 0 THEN [cum |-> 0, peak |-> 0, worst |-> 0]
                                ELSE CurveStep(f[i - 1], trades[i].points)]

LEMMA CurveIs ==
  ASSUME NEW trades
  PROVE  MaxDrawdown(trades) = (CHOOSE f : Curve(f, trades))[Len(trades)].worst
BY DEF MaxDrawdown, Curve, CurveStep

LEMMA CurveStepIs ==
  ASSUME NEW s \in CurvePoints, NEW points \in Int
  PROVE  LET next == CurveStep(s, points)
         IN  /\ next \in CurvePoints /\ next.cum = s.cum + points
             /\ next.peak \in {s.peak, next.cum} /\ s.peak <= next.peak /\ next.cum <= next.peak
             /\ next.worst \in {s.worst, next.peak - next.cum}
             /\ s.worst <= next.worst /\ next.peak - next.cum <= next.worst
<1> DEFINE cum == s.cum + points
           peak == Greater(s.peak, cum)
           worst == Greater(s.worst, peak - cum)
           next == CurveStep(s, points)
<1>1. s.cum \in Int /\ s.peak \in Int /\ s.worst \in Int
  BY DEF CurvePoints
<1>2. next = [cum |-> cum, peak |-> peak, worst |-> worst]
  BY DEF CurveStep
<1>3. cum \in Int
  BY <1>1
<1> HIDE DEF cum
<1>4. peak \in {s.peak, cum} /\ peak \in Int /\ s.peak <= peak /\ cum <= peak
  BY <1>1, <1>3, GreaterIs
<1> HIDE DEF peak
<1>5. worst \in {s.worst, peak - cum} /\ worst \in Int /\ s.worst <= worst /\ peak - cum <= worst
  <2>1. peak - cum \in Int
    BY <1>3, <1>4
  <2> QED
    BY <1>1, <2>1, GreaterIs
<1> HIDE DEF worst, next
<1>6. next.cum = cum /\ next.peak = peak /\ next.worst = worst /\ next \in CurvePoints
  BY <1>2, <1>3, <1>4, <1>5 DEF CurvePoints
<1> QED
  BY <1>4, <1>5, <1>6 DEF cum, next

\* The curve, by its equations.
Curves(f, trades) ==
  /\ f \in [0..Len(trades) -> CurvePoints] /\ f[0] = CurveStart
  /\ \A i \in 1..Len(trades) : f[i] = CurveStep(f[i - 1], trades[i].points)

LEMMA CurveOf ==
  ASSUME NEW trades \in TradeSeqs
  PROVE  \E f : Curves(f, trades) /\ MaxDrawdown(trades) = f[Len(trades)].worst
<1> DEFINE n == Len(trades)
           step == [i \in 1..n |-> [s \in CurvePoints |-> CurveStep(s, trades[i].points)]]
<1>0. n \in Nat /\ \A i \in 1..n : trades[i].points \in Int
  BY PointsTyped
<1>1. step \in [1..n -> [CurvePoints -> CurvePoints]]
  <2>1. \A i \in 1..n : \A s \in CurvePoints : CurveStep(s, trades[i].points) \in CurvePoints
    BY <1>0, CurveStepIs
  <2> QED
    BY <2>1
<1>2. \A i \in 1..n : \A s \in CurvePoints : step[i][s] = CurveStep(s, trades[i].points)
  OBVIOUS
<1> HIDE DEF step, n
<1>3. CurveStart \in CurvePoints
  BY DEF CurveStart, CurvePoints
<1>4. \E f \in [0..n -> CurvePoints] : Loop(f, n, CurveStart, step)
  BY <1>0, <1>1, <1>3, Iterated, Zenon
<1>5. PICK g \in [0..n -> CurvePoints] : Loop(g, n, CurveStart, step)
  BY <1>4
<1>6. ASSUME NEW i \in 0..n, i # 0 PROVE step[i][g[i - 1]] = CurveStep(g[i - 1], trades[i].points)
  <2>1. i \in 1..n /\ i - 1 \in 0..n
    BY <1>0, <1>6
  <2> QED
    BY <1>2, <2>1
<1>7. g = [i \in 0..n |-> IF i = 0 THEN CurveStart ELSE CurveStep(g[i - 1], trades[i].points)]
  BY <1>5, <1>6 DEF Loop
<1>8. Curve(g, trades)
  BY <1>7 DEF Curve, CurveStart, n
<1> DEFINE f == CHOOSE h : Curve(h, trades)
<1>9. Curve(f, trades)
  BY <1>8
<1>10. MaxDrawdown(trades) = f[Len(trades)].worst
  BY CurveIs
<1> HIDE DEF f
<1>11. f[0] = CurveStart /\ DOMAIN f = 0..n /\ f = [i \in 0..n |-> f[i]]
  BY <1>0, <1>9 DEF Curve, CurveStart, n
<1>12. ASSUME NEW i \in 1..n PROVE f[i] = CurveStep(f[i - 1], trades[i].points)
  <2>1. i \in 0..n /\ i # 0
    BY <1>0
  <2> QED
    BY <1>9, <2>1 DEF Curve, n
<1> DEFINE G == {i \in 0..n : f[i] \in CurvePoints}
<1>13. 0 \in G
  BY <1>0, <1>3, <1>11
<1>14. ASSUME NEW i \in 1..n, i - 1 \in G PROVE i \in G
  <2>1. f[i - 1] \in CurvePoints /\ i \in 0..n
    BY <1>0, <1>14
  <2>2. f[i] \in CurvePoints
    BY <1>0, <1>12, <2>1, CurveStepIs
  <2> QED
    BY <2>1, <2>2
<1> HIDE DEF G
<1>15. \A i \in 0..n : i \in G
  BY <1>0, <1>13, <1>14, Onward
<1>16. f \in [0..n -> CurvePoints]
  BY <1>11, <1>15 DEF G
<1>17. Curves(f, trades)
  BY <1>11, <1>12, <1>16 DEF Curves, n
<1> QED
  BY <1>10, <1>17

\* Blocks of consecutive trades.
Blocks(trades) == {b \in (DOMAIN trades) \X (DOMAIN trades) : b[1] <= b[2]}

\* After i trades: the peak is the highest net so far, the worst fall one from
\* some net so far to a later one, and no fall so far is deeper.
Falls(s, P, i) ==
  /\ s.cum = P[i]
  /\ \E j \in 0..i : s.peak = P[j]
  /\ \A j \in 0..i : P[j] <= s.peak
  /\ s.worst = 0 \/ \E j, k \in 0..i : j < k /\ s.worst = P[j] - P[k]
  /\ \A j, k \in 0..i : j <= k => P[j] - P[k] <= s.worst

LEMMA FallsGoOn ==
  ASSUME NEW n \in Nat, NEW P \in [0..n -> Int], NEW i \in 1..n, NEW s \in CurvePoints, Falls(s, P, i - 1),
         NEW points \in Int, P[i] = P[i - 1] + points
  PROVE  Falls(CurveStep(s, points), P, i)
<1> DEFINE next == CurveStep(s, points)
<1>1. /\ next \in CurvePoints /\ next.cum = s.cum + points
      /\ next.peak \in {s.peak, next.cum} /\ s.peak <= next.peak /\ next.cum <= next.peak
      /\ next.worst \in {s.worst, next.peak - next.cum}
      /\ s.worst <= next.worst /\ next.peak - next.cum <= next.worst
  BY CurveStepIs
<1> HIDE DEF next
<1>2. /\ s.cum \in Int /\ s.peak \in Int /\ s.worst \in Int
      /\ next.cum \in Int /\ next.peak \in Int /\ next.worst \in Int
  BY <1>1 DEF CurvePoints
<1>3. \A j \in 0..i : j \in 0..(i - 1) \/ j = i
  OBVIOUS
<1>4. i \in 0..i /\ \A j \in 0..(i - 1) : j \in 0..i /\ j < i /\ j \in 0..n
  OBVIOUS
<1>5. \A j \in 0..i : P[j] \in Int
  OBVIOUS
<1>6. next.cum = P[i]
  BY <1>1 DEF Falls
<1>7. \E j \in 0..i : next.peak = P[j]
  <2>1. CASE next.peak = s.peak
    <3>1. PICK j \in 0..(i - 1) : s.peak = P[j]
      BY DEF Falls
    <3> QED
      BY <1>4, <2>1, <3>1
  <2>2. CASE next.peak = next.cum
    BY <1>4, <1>6, <2>2
  <2> QED
    BY <1>1, <2>1, <2>2
<1>8. \A j \in 0..i : P[j] <= next.peak
  <2> TAKE j \in 0..i
  <2>1. CASE j \in 0..(i - 1)
    <3>1. PICK x \in Int : x = P[j]
      BY <1>5
    <3>2. x <= s.peak
      BY <2>1, <3>1 DEF Falls
    <3>3. s.peak <= next.peak
      BY <1>1
    <3>4. x <= next.peak
      BY <1>2, <3>2, <3>3
    <3> QED
      BY <3>1, <3>4
  <2>2. CASE j = i
    BY <1>1, <1>6, <2>2
  <2> QED
    BY <1>3, <2>1, <2>2
<1>9. next.worst = 0 \/ \E j, k \in 0..i : j < k /\ next.worst = P[j] - P[k]
  <2>1. CASE next.worst = s.worst
    <3>1. CASE s.worst = 0
      BY <2>1, <3>1
    <3>2. CASE \E j, k \in 0..(i - 1) : j < k /\ s.worst = P[j] - P[k]
      <4>1. PICK j, k \in 0..(i - 1) : j < k /\ s.worst = P[j] - P[k]
        BY <3>2
      <4> QED
        BY <1>4, <2>1, <4>1
    <3> QED
      BY <3>1, <3>2 DEF Falls
  <2>2. CASE next.worst = next.peak - next.cum
    <3>1. CASE next.peak = next.cum
      BY <1>2, <2>2, <3>1
    <3>2. CASE next.peak = s.peak
      <4>1. PICK j \in 0..(i - 1) : s.peak = P[j]
        BY DEF Falls
      <4>2. next.worst = P[j] - P[i] /\ j < i /\ j \in 0..i /\ i \in 0..i
        BY <1>4, <1>6, <2>2, <3>2, <4>1
      <4> QED
        BY <4>2
    <3> QED
      BY <1>1, <3>1, <3>2
  <2> QED
    BY <1>1, <2>1, <2>2
<1>10. \A j, k \in 0..i : j <= k => P[j] - P[k] <= next.worst
  <2> TAKE j, k \in 0..i
  <2> HAVE j <= k
  <2>1. CASE k = i
    <3>1. P[j] <= next.peak /\ P[k] = next.cum
      BY <1>6, <1>8, <2>1
    <3>2. PICK x \in Int : x = P[j]
      BY <1>5
    <3>3. x <= next.peak /\ next.peak - next.cum <= next.worst
      BY <1>1, <3>1, <3>2
    <3>4. x - next.cum <= next.worst
      BY <1>2, <3>3
    <3> QED
      BY <3>1, <3>2, <3>4
  <2>2. CASE k # i
    <3>1. j \in 0..(i - 1) /\ k \in 0..(i - 1)
      BY <2>2
    <3>2. P[j] - P[k] <= s.worst
      BY <3>1 DEF Falls
    <3>3. PICK x \in Int, y \in Int : x = P[j] /\ y = P[k]
      BY <1>5
    <3>4. x - y <= s.worst /\ s.worst <= next.worst
      BY <1>1, <3>2, <3>3
    <3>5. x - y <= next.worst
      BY <1>2, <3>4
    <3> QED
      BY <3>3, <3>5
  <2> QED
    BY <2>1, <2>2
<1> QED
  BY <1>6, <1>7, <1>8, <1>9, <1>10 DEF Falls, next

\* The drawdown is the worst net of consecutive trades, turned around.
LEMMA DrawdownIs ==
  ASSUME NEW trades \in TradeSeqs
  PROVE  MaxDrawdown(trades) = Max({0} \cup {-Net(SubSeq(trades, b[1], b[2])) : b \in Blocks(trades)})
<1> DEFINE n == Len(trades)
           D == {0} \cup {-Net(SubSeq(trades, b[1], b[2])) : b \in Blocks(trades)}
<1>0. n \in Nat /\ DOMAIN trades = 1..n /\ \A i \in 1..n : trades[i].points \in Int
  BY PointsTyped DEF TradeSeqs
<1>1. PICK f : Curves(f, trades) /\ MaxDrawdown(trades) = f[n].worst
  BY CurveOf
<1>2. PICK P : Sums(P, trades)
  BY NetOf
<1>3. \A a, b \in 1..n : a <= b => Net(SubSeq(trades, a, b)) = P[b] - P[a - 1]
  BY <1>2, NetOfBlock
<1> HIDE DEF n
<1>4. P \in [0..n -> Int] /\ P[0] = 0 /\ \A i \in 1..n : P[i] = P[i - 1] + trades[i].points
  BY <1>2 DEF Sums, n
<1>5. /\ f \in [0..n -> CurvePoints] /\ f[0] = CurveStart
      /\ \A i \in 1..n : f[i] = CurveStep(f[i - 1], trades[i].points)
  BY <1>1 DEF Curves, n
<1> DEFINE G == {i \in 0..n : Falls(f[i], P, i)}
<1>6. 0 \in G
  <2>1. 0 \in 0..n /\ 0 \in 0..0 /\ \A j \in 0..0 : j = 0
    BY <1>0
  <2>2. f[0].cum = 0 /\ f[0].peak = 0 /\ f[0].worst = 0
    BY <1>5 DEF CurveStart
  <2>3. Falls(f[0], P, 0)
    BY <1>4, <2>1, <2>2 DEF Falls
  <2> QED
    BY <2>1, <2>3
<1>7. ASSUME NEW i \in 1..n, i - 1 \in G PROVE i \in G
  <2>1. i \in 0..n /\ i - 1 \in 0..n /\ Falls(f[i - 1], P, i - 1)
    BY <1>0, <1>7
  <2>2. f[i - 1] \in CurvePoints
    BY <1>5, <2>1
  <2>3. Falls(CurveStep(f[i - 1], trades[i].points), P, i)
    BY <1>0, <1>4, <2>1, <2>2, FallsGoOn
  <2> QED
    BY <1>5, <2>1, <2>3
<1> HIDE DEF G
<1>8. \A i \in 0..n : i \in G
  BY <1>0, <1>6, <1>7, Onward
<1>9. Falls(f[n], P, n) /\ f[n] \in CurvePoints
  <2>1. n \in 0..n
    BY <1>0
  <2> QED
    BY <1>5, <1>8, <2>1 DEF G
<1> DEFINE worst == f[n].worst
<1>10. /\ worst \in Int
       /\ worst = 0 \/ \E j, k \in 0..n : j < k /\ worst = P[j] - P[k]
       /\ \A j, k \in 0..n : j <= k => P[j] - P[k] <= worst
  BY <1>9 DEF Falls, CurvePoints
<1> HIDE DEF worst
<1>11. \A b \in Blocks(trades) : /\ b[1] \in 1..n /\ b[2] \in 1..n /\ b[1] <= b[2]
                                 /\ b[1] - 1 \in 0..n /\ b[2] \in 0..n /\ b[1] - 1 <= b[2]
  <2> SUFFICES ASSUME NEW b \in Blocks(trades)
               PROVE  /\ b[1] \in 1..n /\ b[2] \in 1..n /\ b[1] <= b[2]
                      /\ b[1] - 1 \in 0..n /\ b[2] \in 0..n /\ b[1] - 1 <= b[2]
    OBVIOUS
  <2>1. b[1] \in 1..n /\ b[2] \in 1..n /\ b[1] <= b[2]
    BY <1>0 DEF Blocks
  <2> QED
    BY <1>0, <2>1
<1>12. \A b \in Blocks(trades) : -Net(SubSeq(trades, b[1], b[2])) \in Int /\ -Net(SubSeq(trades, b[1], b[2])) <= worst
  <2> SUFFICES ASSUME NEW b \in Blocks(trades)
               PROVE  -Net(SubSeq(trades, b[1], b[2])) \in Int /\ -Net(SubSeq(trades, b[1], b[2])) <= worst
    OBVIOUS
  <2>1. Net(SubSeq(trades, b[1], b[2])) = P[b[2]] - P[b[1] - 1]
    BY <1>3, <1>11
  <2>2. P[b[2]] \in Int /\ P[b[1] - 1] \in Int /\ P[b[1] - 1] - P[b[2]] <= worst
    BY <1>4, <1>10, <1>11
  <2> QED
    BY <1>10, <2>1, <2>2
<1>13. worst \in D
  <2>1. CASE worst = 0
    BY <2>1
  <2>2. CASE \E j, k \in 0..n : j < k /\ worst = P[j] - P[k]
    <3>1. PICK j, k \in 0..n : j < k /\ worst = P[j] - P[k]
      BY <2>2
    <3>2. j + 1 \in 1..n /\ k \in 1..n /\ j + 1 <= k /\ j + 1 - 1 = j
      BY <1>0, <3>1
    <3>3. Net(SubSeq(trades, j + 1, k)) = P[k] - P[j]
      BY <1>3, <3>2
    <3>4. worst = -Net(SubSeq(trades, j + 1, k))
      BY <1>4, <3>1, <3>3
    <3>5. <<j + 1, k>> \in Blocks(trades)
      BY <1>0, <3>2 DEF Blocks
    <3>6. \E b \in Blocks(trades) : worst = -Net(SubSeq(trades, b[1], b[2]))
      BY <3>4, <3>5
    <3> QED
      BY <3>6
  <2> QED
    BY <1>10, <2>1, <2>2
<1>14. D \in SUBSET Int /\ \A x \in D : x <= worst
  <2>1. 0 <= worst
    <3>1. 0 \in 0..n
      BY <1>0
    <3>2. P[0] - P[0] <= worst
      BY <1>10, <3>1
    <3> QED
      BY <1>4, <3>2
  <2>2. ASSUME NEW x \in D PROVE x \in Int /\ x <= worst
    <3>1. x = 0 \/ \E b \in Blocks(trades) : x = -Net(SubSeq(trades, b[1], b[2]))
      OBVIOUS
    <3> HIDE DEF D
    <3> QED
      BY <1>12, <2>1, <3>1
  <2> HIDE DEF D
  <2> QED
    BY <2>2
<1> HIDE DEF D
<1>15. Max(D) = worst
  BY <1>13, <1>14, MaxIs
<1> QED
  BY <1>1, <1>15 DEF D, worst

\* The losing streaks: the one that is running and the longest.
Streaks == [now : Nat, longest : Nat]
NoStreak == [now |-> 0, longest |-> 0]
StreakStep(s, points) ==
  LET n == IF points < 0 THEN s.now + 1 ELSE 0
  IN  [now |-> n, longest |-> Greater(s.longest, n)]
StreakLoop(f, trades) ==
  f = [i \in 0..Len(trades) |-> IF i = 0 THEN [now |-> 0, longest |-> 0]
                                ELSE StreakStep(f[i - 1], trades[i].points)]

LEMMA LossesIs ==
  ASSUME NEW trades
  PROVE  MaxConsecutiveLosses(trades) = (CHOOSE f : StreakLoop(f, trades))[Len(trades)].longest
BY DEF MaxConsecutiveLosses, StreakLoop, StreakStep

LEMMA StreakStepIs ==
  ASSUME NEW s \in Streaks, NEW points \in Int
  PROVE  LET next == StreakStep(s, points)
         IN  /\ next \in Streaks
             /\ points < 0 => next.now = s.now + 1
             /\ ~(points < 0) => next.now = 0
             /\ next.longest \in {s.longest, next.now} /\ s.longest <= next.longest /\ next.now <= next.longest
<1> DEFINE n == IF points < 0 THEN s.now + 1 ELSE 0
           longest == Greater(s.longest, n)
           next == StreakStep(s, points)
<1>1. s.now \in Nat /\ s.longest \in Nat
  BY DEF Streaks
<1>2. next = [now |-> n, longest |-> longest]
  BY DEF StreakStep
<1>3. n \in Nat /\ (points < 0 => n = s.now + 1) /\ (~(points < 0) => n = 0)
  BY <1>1
<1> HIDE DEF n
<1>4. longest \in {s.longest, n} /\ s.longest <= longest /\ n <= longest
  <2>1. s.longest \in Int /\ n \in Int
    BY <1>1, <1>3
  <2> QED
    BY <2>1, GreaterIs
<1>5. longest \in Nat
  BY <1>1, <1>3, <1>4
<1> HIDE DEF longest, next
<1>6. next.now = n /\ next.longest = longest /\ next \in Streaks
  BY <1>2, <1>3, <1>5 DEF Streaks
<1> QED
  BY <1>3, <1>4, <1>6 DEF next

\* The streaks, by their equations.
StreakRun(f, trades) ==
  /\ f \in [0..Len(trades) -> Streaks] /\ f[0] = NoStreak
  /\ \A i \in 1..Len(trades) : f[i] = StreakStep(f[i - 1], trades[i].points)

LEMMA LossesOf ==
  ASSUME NEW trades \in TradeSeqs
  PROVE  \E f : StreakRun(f, trades) /\ MaxConsecutiveLosses(trades) = f[Len(trades)].longest
<1> DEFINE n == Len(trades)
           step == [i \in 1..n |-> [s \in Streaks |-> StreakStep(s, trades[i].points)]]
<1>0. n \in Nat /\ \A i \in 1..n : trades[i].points \in Int
  BY PointsTyped
<1>1. step \in [1..n -> [Streaks -> Streaks]]
  <2>1. \A i \in 1..n : \A s \in Streaks : StreakStep(s, trades[i].points) \in Streaks
    BY <1>0, StreakStepIs
  <2> QED
    BY <2>1
<1>2. \A i \in 1..n : \A s \in Streaks : step[i][s] = StreakStep(s, trades[i].points)
  OBVIOUS
<1> HIDE DEF step, n
<1>3. NoStreak \in Streaks
  BY DEF NoStreak, Streaks
<1>4. \E f \in [0..n -> Streaks] : Loop(f, n, NoStreak, step)
  BY <1>0, <1>1, <1>3, Iterated, Zenon
<1>5. PICK g \in [0..n -> Streaks] : Loop(g, n, NoStreak, step)
  BY <1>4
<1>6. ASSUME NEW i \in 0..n, i # 0 PROVE step[i][g[i - 1]] = StreakStep(g[i - 1], trades[i].points)
  <2>1. i \in 1..n /\ i - 1 \in 0..n
    BY <1>0, <1>6
  <2> QED
    BY <1>2, <2>1
<1>7. g = [i \in 0..n |-> IF i = 0 THEN NoStreak ELSE StreakStep(g[i - 1], trades[i].points)]
  BY <1>5, <1>6 DEF Loop
<1>8. StreakLoop(g, trades)
  BY <1>7 DEF StreakLoop, NoStreak, n
<1> DEFINE f == CHOOSE h : StreakLoop(h, trades)
<1>9. StreakLoop(f, trades)
  BY <1>8
<1>10. MaxConsecutiveLosses(trades) = f[Len(trades)].longest
  BY LossesIs
<1> HIDE DEF f
<1>11. f[0] = NoStreak /\ DOMAIN f = 0..n /\ f = [i \in 0..n |-> f[i]]
  BY <1>0, <1>9 DEF StreakLoop, NoStreak, n
<1>12. ASSUME NEW i \in 1..n PROVE f[i] = StreakStep(f[i - 1], trades[i].points)
  <2>1. i \in 0..n /\ i # 0
    BY <1>0
  <2> QED
    BY <1>9, <2>1 DEF StreakLoop, n
<1> DEFINE G == {i \in 0..n : f[i] \in Streaks}
<1>13. 0 \in G
  BY <1>0, <1>3, <1>11
<1>14. ASSUME NEW i \in 1..n, i - 1 \in G PROVE i \in G
  <2>1. f[i - 1] \in Streaks /\ i \in 0..n
    BY <1>0, <1>14
  <2>2. f[i] \in Streaks
    BY <1>0, <1>12, <2>1, StreakStepIs
  <2> QED
    BY <2>1, <2>2
<1> HIDE DEF G
<1>15. \A i \in 0..n : i \in G
  BY <1>0, <1>13, <1>14, Onward
<1>16. f \in [0..n -> Streaks]
  BY <1>11, <1>15 DEF G
<1>17. StreakRun(f, trades)
  BY <1>11, <1>12, <1>16 DEF StreakRun, n
<1> QED
  BY <1>10, <1>17

\* The halts of the risk manager's rule over the exits.
HaltCounts == [streak : 0..(HaltAfter - 1), halts : Nat]
NoHalt == [streak |-> 0, halts |-> 0]
HaltStep(s, p) ==
  CASE p < 0 /\ s.streak + 1 = HaltAfter -> [streak |-> 0, halts |-> s.halts + 1]
    [] p < 0 /\ s.streak + 1 # HaltAfter -> [s EXCEPT !.streak = @ + 1]
    [] p = 0 -> s
    [] p > 0 -> [s EXCEPT !.streak = 0]
HaltLoop(f, trades) ==
  f = [i \in 0..Len(trades) |-> IF i = 0 THEN [streak |-> 0, halts |-> 0]
                                ELSE HaltStep(f[i - 1], trades[i].points)]

LEMMA HaltsIs ==
  ASSUME NEW trades
  PROVE  Halts(trades) = (CHOOSE f : HaltLoop(f, trades))[Len(trades)].halts
BY DEF Halts, HaltLoop, HaltStep

LEMMA HaltStepIs ==
  ASSUME NEW s \in HaltCounts, NEW p \in Int
  PROVE  LET next == HaltStep(s, p)
         IN  /\ next \in HaltCounts
             /\ p < 0 => \/ s.streak + 1 = HaltAfter /\ next.streak = 0 /\ next.halts = s.halts + 1
                         \/ next.streak = s.streak + 1 /\ next.halts = s.halts
             /\ ~(p < 0) => next.streak \in {0, s.streak} /\ next.halts = s.halts
<1> DEFINE next == HaltStep(s, p)
<1>1. HaltAfter \in Nat /\ 1 <= HaltAfter
  BY ReplayAssumption
<1>2. s.streak \in 0..(HaltAfter - 1) /\ s.halts \in Nat /\ s = [streak |-> s.streak, halts |-> s.halts]
  BY DEF HaltCounts
<1>3. CASE p < 0 /\ s.streak + 1 = HaltAfter
  <2>1. next = [streak |-> 0, halts |-> s.halts + 1]
    BY <1>3 DEF HaltStep
  <2> HIDE DEF next
  <2>2. next.streak = 0 /\ next.halts = s.halts + 1 /\ next \in HaltCounts
    BY <1>1, <1>2, <2>1 DEF HaltCounts
  <2> QED
    BY <1>3, <2>2 DEF next
<1>4. CASE p < 0 /\ s.streak + 1 # HaltAfter
  <2>1. next = [s EXCEPT !.streak = s.streak + 1]
    BY <1>4 DEF HaltStep
  <2>2. s.streak + 1 \in 0..(HaltAfter - 1)
    BY <1>1, <1>2, <1>4
  <2> HIDE DEF next
  <2>3. next = [streak |-> s.streak + 1, halts |-> s.halts]
    BY <1>2, <2>1
  <2>4. next.streak = s.streak + 1 /\ next.halts = s.halts /\ next \in HaltCounts
    BY <1>2, <2>2, <2>3 DEF HaltCounts
  <2> QED
    BY <1>4, <2>4 DEF next
<1>5. CASE p = 0
  <2>1. next = s
    BY <1>5 DEF HaltStep
  <2> QED
    BY <1>5, <2>1
<1>6. CASE p > 0
  <2>1. next = [s EXCEPT !.streak = 0]
    BY <1>6 DEF HaltStep
  <2> HIDE DEF next
  <2>2. next = [streak |-> 0, halts |-> s.halts]
    BY <1>2, <2>1
  <2>3. next.streak = 0 /\ next.halts = s.halts /\ next \in HaltCounts
    BY <1>1, <1>2, <2>2 DEF HaltCounts
  <2> QED
    BY <1>6, <2>3 DEF next
<1> QED
  BY <1>3, <1>4, <1>5, <1>6

\* The halts, by their equations.
HaltRun(f, trades) ==
  /\ f \in [0..Len(trades) -> HaltCounts] /\ f[0] = NoHalt
  /\ \A i \in 1..Len(trades) : f[i] = HaltStep(f[i - 1], trades[i].points)

LEMMA HaltsOf ==
  ASSUME NEW trades \in TradeSeqs
  PROVE  \E f : HaltRun(f, trades) /\ Halts(trades) = f[Len(trades)].halts
<1> DEFINE n == Len(trades)
           step == [i \in 1..n |-> [s \in HaltCounts |-> HaltStep(s, trades[i].points)]]
<1>0. n \in Nat /\ \A i \in 1..n : trades[i].points \in Int
  BY PointsTyped
<1>1. step \in [1..n -> [HaltCounts -> HaltCounts]]
  <2>1. \A i \in 1..n : \A s \in HaltCounts : HaltStep(s, trades[i].points) \in HaltCounts
    BY <1>0, HaltStepIs
  <2> QED
    BY <2>1
<1>2. \A i \in 1..n : \A s \in HaltCounts : step[i][s] = HaltStep(s, trades[i].points)
  OBVIOUS
<1> HIDE DEF step, n
<1>3. NoHalt \in HaltCounts
  BY ReplayAssumption DEF NoHalt, HaltCounts
<1>4. \E f \in [0..n -> HaltCounts] : Loop(f, n, NoHalt, step)
  BY <1>0, <1>1, <1>3, Iterated, Zenon
<1>5. PICK g \in [0..n -> HaltCounts] : Loop(g, n, NoHalt, step)
  BY <1>4
<1>6. ASSUME NEW i \in 0..n, i # 0 PROVE step[i][g[i - 1]] = HaltStep(g[i - 1], trades[i].points)
  <2>1. i \in 1..n /\ i - 1 \in 0..n
    BY <1>0, <1>6
  <2> QED
    BY <1>2, <2>1
<1>7. g = [i \in 0..n |-> IF i = 0 THEN NoHalt ELSE HaltStep(g[i - 1], trades[i].points)]
  BY <1>5, <1>6 DEF Loop
<1>8. HaltLoop(g, trades)
  BY <1>7 DEF HaltLoop, NoHalt, n
<1> DEFINE f == CHOOSE h : HaltLoop(h, trades)
<1>9. HaltLoop(f, trades)
  BY <1>8
<1>10. Halts(trades) = f[Len(trades)].halts
  BY HaltsIs
<1> HIDE DEF f
<1>11. f[0] = NoHalt /\ DOMAIN f = 0..n /\ f = [i \in 0..n |-> f[i]]
  BY <1>0, <1>9 DEF HaltLoop, NoHalt, n
<1>12. ASSUME NEW i \in 1..n PROVE f[i] = HaltStep(f[i - 1], trades[i].points)
  <2>1. i \in 0..n /\ i # 0
    BY <1>0
  <2> QED
    BY <1>9, <2>1 DEF HaltLoop, n
<1> DEFINE G == {i \in 0..n : f[i] \in HaltCounts}
<1>13. 0 \in G
  BY <1>0, <1>3, <1>11
<1>14. ASSUME NEW i \in 1..n, i - 1 \in G PROVE i \in G
  <2>1. f[i - 1] \in HaltCounts /\ i \in 0..n
    BY <1>0, <1>14
  <2>2. f[i] \in HaltCounts
    BY <1>0, <1>12, <2>1, HaltStepIs
  <2> QED
    BY <2>1, <2>2
<1> HIDE DEF G
<1>15. \A i \in 0..n : i \in G
  BY <1>0, <1>13, <1>14, Onward
<1>16. f \in [0..n -> HaltCounts]
  BY <1>11, <1>15 DEF G
<1>17. HaltRun(f, trades)
  BY <1>11, <1>12, <1>16 DEF HaltRun, n
<1> QED
  BY <1>10, <1>17

\* From a to b every trade is one of these.
AllIn(L, a, b) == \A k \in a..b : k \in L

\* After i trades: the streak that runs is as long as can be, and no block of
\* lost trades so far is longer than the longest.
Streaking(s, L, i) ==
  /\ s.now <= i /\ AllIn(L, i - s.now + 1, i)
  /\ s.now = i \/ i - s.now \notin L
  /\ s.now <= s.longest
  /\ s.longest = 0 \/ \E a, b \in 1..i : a <= b /\ s.longest = b - a + 1 /\ AllIn(L, a, b)
  /\ \A a, b \in 1..i : a <= b /\ AllIn(L, a, b) => b - a + 1 <= s.longest

LEMMA StreaksGoOn ==
  ASSUME NEW n \in Nat, NEW L, NEW i \in 1..n, NEW s \in Streaks, Streaking(s, L, i - 1),
         NEW points \in Int, points < 0 <=> i \in L
  PROVE  Streaking(StreakStep(s, points), L, i)
<1> DEFINE next == StreakStep(s, points)
<1>1. /\ next \in Streaks
      /\ points < 0 => next.now = s.now + 1
      /\ ~(points < 0) => next.now = 0
      /\ next.longest \in {s.longest, next.now} /\ s.longest <= next.longest /\ next.now <= next.longest
  BY StreakStepIs
<1> HIDE DEF next
<1>2. /\ s.now \in Nat /\ s.longest \in Nat /\ next.now \in Nat /\ next.longest \in Nat
      /\ i \in Nat /\ 1 <= i
  BY <1>1 DEF Streaks
<1>3. /\ i \in L => next.now = s.now + 1
      /\ i \notin L => next.now = 0
  BY <1>1
<1>4. /\ s.now <= i - 1
      /\ AllIn(L, i - 1 - s.now + 1, i - 1)
      /\ s.now = i - 1 \/ i - 1 - s.now \notin L
  BY DEF Streaking
<1>5. next.now <= i
  BY <1>2, <1>3, <1>4
<1>6. AllIn(L, i - next.now + 1, i)
  <2> SUFFICES ASSUME NEW k \in (i - next.now + 1)..i PROVE k \in L
    BY DEF AllIn
  <2>1. CASE i \in L
    <3>1. k = i \/ k \in (i - 1 - s.now + 1)..(i - 1)
      BY <1>2, <1>3, <2>1
    <3> QED
      BY <1>4, <2>1, <3>1 DEF AllIn
  <2>2. CASE i \notin L
    BY <1>2, <1>3, <2>2
  <2> QED
    BY <2>1, <2>2
<1>7. next.now = i \/ i - next.now \notin L
  <2>1. CASE i \in L
    <3>1. next.now = s.now + 1 /\ i - next.now = i - 1 - s.now
      BY <1>2, <1>3, <2>1
    <3> QED
      BY <1>2, <1>4, <3>1
  <2>2. CASE i \notin L
    <3>1. i - next.now = i
      BY <1>2, <1>3, <2>2
    <3> QED
      BY <2>2, <3>1
  <2> QED
    BY <2>1, <2>2
<1>8. next.longest = 0 \/ \E a, b \in 1..i : a <= b /\ next.longest = b - a + 1 /\ AllIn(L, a, b)
  <2>1. CASE next.longest = s.longest
    <3>1. CASE s.longest = 0
      BY <2>1, <3>1
    <3>2. CASE \E a, b \in 1..(i - 1) : a <= b /\ s.longest = b - a + 1 /\ AllIn(L, a, b)
      <4>1. PICK a, b \in 1..(i - 1) : a <= b /\ s.longest = b - a + 1 /\ AllIn(L, a, b)
        BY <3>2
      <4>2. a \in 1..i /\ b \in 1..i
        BY <1>2
      <4> QED
        BY <2>1, <4>1, <4>2
    <3> QED
      BY <3>1, <3>2 DEF Streaking
  <2>2. CASE next.longest = next.now /\ next.now # 0
    <3>1. i - next.now + 1 \in 1..i /\ i \in 1..i /\ i - next.now + 1 <= i /\ next.now = i - (i - next.now + 1) + 1
      BY <1>2, <1>5, <2>2
    <3> QED
      BY <1>6, <2>2, <3>1
  <2>3. CASE next.longest = next.now /\ next.now = 0
    BY <2>3
  <2> QED
    BY <1>1, <2>1, <2>2, <2>3
<1>9. \A a, b \in 1..i : a <= b /\ AllIn(L, a, b) => b - a + 1 <= next.longest
  <2> TAKE a, b \in 1..i
  <2> HAVE a <= b /\ AllIn(L, a, b)
  <2>1. CASE b = i
    <3>1. i - next.now + 1 <= a
      <4>1. CASE next.now = i
        BY <1>2, <4>1
      <4>2. CASE i - next.now \notin L
        <5>1. i - next.now \notin a..b
          BY <4>2 DEF AllIn
        <5> QED
          BY <1>2, <2>1, <5>1
      <4> QED
        BY <1>7, <4>1, <4>2
    <3> QED
      BY <1>1, <1>2, <2>1, <3>1
  <2>2. CASE b # i
    <3>1. a \in 1..(i - 1) /\ b \in 1..(i - 1)
      BY <1>2, <2>2
    <3>2. b - a + 1 <= s.longest
      BY <3>1 DEF Streaking
    <3> QED
      BY <1>1, <1>2, <3>2
  <2> QED
    BY <2>1, <2>2
<1>10. next.now <= next.longest
  BY <1>1
<1> QED
  BY <1>5, <1>6, <1>7, <1>8, <1>9, <1>10 DEF Streaking, next

\* As many halts as the lost trades can make, and none only while no streak has
\* reached the limit.
Halting(h, s, L, i) ==
  /\ h.halts * HaltAfter + h.streak <= Cardinality(L \cap (1..i))
  /\ h.halts = 0 => s.now <= h.streak /\ s.longest < HaltAfter

LEMMA OneMoreLost ==
  ASSUME NEW L, NEW i \in Nat, 1 <= i
  PROVE  /\ Cardinality(L \cap (1..(i - 1))) \in Nat
         /\ i \in L => Cardinality(L \cap (1..i)) = Cardinality(L \cap (1..(i - 1))) + 1
         /\ i \notin L => Cardinality(L \cap (1..i)) = Cardinality(L \cap (1..(i - 1)))
<1> DEFINE before == L \cap (1..(i - 1))
<1>1. IsFiniteSet(1..(i - 1)) /\ before \subseteq 1..(i - 1)
  BY FS_Interval
<1>2. IsFiniteSet(before)
  <2> HIDE DEF before
  <2> QED
    BY <1>1, FS_Subset
<1>3. Cardinality(before) \in Nat
  <2> HIDE DEF before
  <2> QED
    BY <1>2, FS_CardinalityType
<1>4. i \in L => L \cap (1..i) = before \cup {i} /\ i \notin before
  OBVIOUS
<1>5. i \notin L => L \cap (1..i) = before
  OBVIOUS
<1> HIDE DEF before
<1>6. i \in L => Cardinality(before \cup {i}) = Cardinality(before) + 1
  BY <1>2, <1>4, FS_AddElement
<1> QED
  BY <1>3, <1>4, <1>5, <1>6 DEF before

LEMMA HaltsGoOn ==
  ASSUME NEW L, NEW i \in Nat, 1 <= i, NEW s \in Streaks, NEW h \in HaltCounts, Halting(h, s, L, i - 1),
         NEW points \in Int, points < 0 <=> i \in L
  PROVE  Halting(HaltStep(h, points), StreakStep(s, points), L, i)
<1> DEFINE next == StreakStep(s, points)
           told == HaltStep(h, points)
           lost == Cardinality(L \cap (1..(i - 1)))
           now == Cardinality(L \cap (1..i))
<1>1. /\ next \in Streaks
      /\ points < 0 => next.now = s.now + 1
      /\ ~(points < 0) => next.now = 0
      /\ next.longest \in {s.longest, next.now}
  BY StreakStepIs
<1>2. /\ told \in HaltCounts
      /\ points < 0 => \/ h.streak + 1 = HaltAfter /\ told.streak = 0 /\ told.halts = h.halts + 1
                       \/ told.streak = h.streak + 1 /\ told.halts = h.halts
      /\ ~(points < 0) => told.streak \in {0, h.streak} /\ told.halts = h.halts
  BY HaltStepIs
<1>3. lost \in Nat /\ (i \in L => now = lost + 1) /\ (i \notin L => now = lost)
  BY OneMoreLost
<1>4. h.halts * HaltAfter + h.streak <= lost /\ (h.halts = 0 => s.now <= h.streak /\ s.longest < HaltAfter)
  BY DEF Halting
<1> HIDE DEF next, told, lost, now
<1>5. HaltAfter \in Nat /\ 1 <= HaltAfter
  BY ReplayAssumption
<1>6. /\ s.now \in Nat /\ s.longest \in Nat /\ next.now \in Nat /\ next.longest \in Nat
      /\ h.halts \in Nat /\ h.streak \in 0..(HaltAfter - 1) /\ told.halts \in Nat /\ told.streak \in 0..(HaltAfter - 1)
  BY <1>1, <1>2 DEF Streaks, HaltCounts
<1>7. PICK x \in Nat : x = h.halts * HaltAfter
  BY <1>5, <1>6
<1>8. told.halts = h.halts => told.halts * HaltAfter = x
  BY <1>7
<1>9. told.halts = h.halts + 1 => told.halts * HaltAfter = x + HaltAfter
  BY <1>5, <1>6, <1>7
<1>10. x + h.streak <= lost
  BY <1>4, <1>7
<1>11. told.halts * HaltAfter + told.streak <= now
  <2>1. CASE i \in L
    <3>1. CASE h.streak + 1 = HaltAfter /\ told.streak = 0 /\ told.halts = h.halts + 1
      BY <1>3, <1>5, <1>6, <1>9, <1>10, <2>1, <3>1
    <3>2. CASE told.streak = h.streak + 1 /\ told.halts = h.halts
      BY <1>3, <1>5, <1>6, <1>8, <1>10, <2>1, <3>2
    <3> QED
      BY <1>2, <2>1, <3>1, <3>2
  <2>2. CASE i \notin L
    <3>1. told.halts * HaltAfter = x /\ told.streak <= h.streak
      BY <1>2, <1>6, <1>8, <2>2
    <3> QED
      BY <1>3, <1>5, <1>6, <1>10, <2>2, <3>1
  <2> QED
    BY <2>1, <2>2
<1>12. told.halts = 0 => next.now <= told.streak /\ next.longest < HaltAfter
  <2> SUFFICES ASSUME told.halts = 0 PROVE next.now <= told.streak /\ next.longest < HaltAfter
    OBVIOUS
  <2>1. h.halts = 0
    BY <1>2, <1>6
  <2>2. s.now <= h.streak /\ s.longest < HaltAfter
    BY <1>4, <2>1
  <2>3. next.now <= told.streak
    BY <1>1, <1>2, <1>6, <2>2
  <2>4. next.now < HaltAfter
    BY <1>5, <1>6, <2>3
  <2> QED
    BY <1>1, <2>2, <2>3, <2>4
<1> QED
  BY <1>11, <1>12 DEF Halting, next, told, now

\* Blocks of trades that were all lost.
LostBlocks(trades) == {b \in Blocks(trades) : \A i \in b[1]..b[2] : trades[i].points < 0}

\* The longest losing streak is the longest block of lost trades; a halt takes
\* HaltAfter lost trades, and a streak of that length has made one.
LEMMA StreaksAre ==
  ASSUME NEW trades \in TradeSeqs
  PROVE  /\ MaxConsecutiveLosses(trades) = Max({0} \cup {b[2] - b[1] + 1 : b \in LostBlocks(trades)})
         /\ Halts(trades) * HaltAfter <= Cardinality(Lost(trades))
         /\ MaxConsecutiveLosses(trades) >= HaltAfter => Halts(trades) > 0
<1> DEFINE n == Len(trades)
           L == Lost(trades)
           D == {0} \cup {b[2] - b[1] + 1 : b \in LostBlocks(trades)}
<1>0. n \in Nat /\ DOMAIN trades = 1..n /\ \A i \in 1..n : trades[i].points \in Int
  BY PointsTyped DEF TradeSeqs
<1>1. PICK f : StreakRun(f, trades) /\ MaxConsecutiveLosses(trades) = f[n].longest
  BY LossesOf
<1>2. PICK g : HaltRun(g, trades) /\ Halts(trades) = g[n].halts
  BY HaltsOf
<1>3. /\ L \subseteq 1..n
      /\ \A i \in 1..n : trades[i].points < 0 <=> i \in L
  BY <1>0 DEF Lost
<1> HIDE DEF n, L
<1>4. /\ f \in [0..n -> Streaks] /\ f[0] = NoStreak
      /\ \A i \in 1..n : f[i] = StreakStep(f[i - 1], trades[i].points)
  BY <1>1 DEF StreakRun, n
<1>5. /\ g \in [0..n -> HaltCounts] /\ g[0] = NoHalt
      /\ \A i \in 1..n : g[i] = HaltStep(g[i - 1], trades[i].points)
  BY <1>2 DEF HaltRun, n
<1>6. HaltAfter \in Nat /\ 1 <= HaltAfter
  BY ReplayAssumption
<1> DEFINE G == {i \in 0..n : Streaking(f[i], L, i) /\ Halting(g[i], f[i], L, i)}
<1>7. 0 \in G
  <2>1. f[0].now = 0 /\ f[0].longest = 0 /\ g[0].halts = 0 /\ g[0].streak = 0
    BY <1>4, <1>5 DEF NoStreak, NoHalt
  <2>2. Streaking(f[0], L, 0)
    BY <2>1 DEF Streaking, AllIn
  <2>3. Cardinality(L \cap (1..0)) = 0
    <3>1. L \cap (1..0) = {}
      OBVIOUS
    <3> QED
      BY <3>1, FS_EmptySet
  <2>4. 0 * HaltAfter = 0
    BY <1>6
  <2>5. Halting(g[0], f[0], L, 0)
    BY <1>6, <2>1, <2>3, <2>4 DEF Halting
  <2> QED
    BY <1>0, <2>2, <2>5
<1>8. ASSUME NEW i \in 1..n, i - 1 \in G PROVE i \in G
  <2>1. i \in 0..n /\ i - 1 \in 0..n /\ i \in Nat /\ 1 <= i
    BY <1>0
  <2>2. f[i - 1] \in Streaks /\ g[i - 1] \in HaltCounts /\ trades[i].points \in Int
    BY <1>0, <1>4, <1>5, <2>1
  <2>3. Streaking(f[i - 1], L, i - 1) /\ Halting(g[i - 1], f[i - 1], L, i - 1)
    BY <1>8
  <2>4. Streaking(StreakStep(f[i - 1], trades[i].points), L, i)
    BY <1>0, <1>3, <2>2, <2>3, StreaksGoOn
  <2>5. Halting(HaltStep(g[i - 1], trades[i].points), StreakStep(f[i - 1], trades[i].points), L, i)
    BY <1>3, <2>1, <2>2, <2>3, HaltsGoOn
  <2> QED
    BY <1>4, <1>5, <2>1, <2>4, <2>5
<1> HIDE DEF G
<1>9. \A i \in 0..n : i \in G
  BY <1>0, <1>7, <1>8, Onward
<1>10. /\ Streaking(f[n], L, n) /\ Halting(g[n], f[n], L, n)
       /\ f[n] \in Streaks /\ g[n] \in HaltCounts
  <2>1. n \in 0..n
    BY <1>0
  <2> QED
    BY <1>4, <1>5, <1>9, <2>1 DEF G
<1> DEFINE longest == f[n].longest
<1>11. /\ longest \in Nat
       /\ longest = 0 \/ \E a, b \in 1..n : a <= b /\ longest = b - a + 1 /\ AllIn(L, a, b)
       /\ \A a, b \in 1..n : a <= b /\ AllIn(L, a, b) => b - a + 1 <= longest
  BY <1>10 DEF Streaking, Streaks
<1>12. g[n].halts * HaltAfter <= Cardinality(L)
  <2>1. L \cap (1..n) = L
    BY <1>3
  <2>2. g[n].halts * HaltAfter + g[n].streak <= Cardinality(L)
    BY <1>10, <2>1 DEF Halting
  <2>3. g[n].streak \in Nat /\ g[n].halts \in Nat
    BY <1>6, <1>10 DEF HaltCounts
  <2>4. PICK x \in Nat : x = g[n].halts * HaltAfter
    BY <1>6, <2>3
  <2>5. Cardinality(L) \in Nat
    <3>1. IsFiniteSet(1..n)
      BY <1>0, FS_Interval
    <3>2. IsFiniteSet(L)
      BY <1>3, <3>1, FS_Subset
    <3> QED
      BY <3>2, FS_CardinalityType
  <2>6. x + g[n].streak <= Cardinality(L)
    BY <2>2, <2>4
  <2>7. x <= Cardinality(L)
    BY <2>3, <2>5, <2>6
  <2> QED
    BY <2>4, <2>7
<1>13. longest >= HaltAfter => g[n].halts > 0
  <2>1. g[n].halts \in Nat
    BY <1>10 DEF HaltCounts
  <2>2. g[n].halts = 0 => longest < HaltAfter
    BY <1>10 DEF Halting
  <2> QED
    BY <1>6, <1>11, <2>1, <2>2
<1> HIDE DEF longest
<1>14. ASSUME NEW a \in 1..n, NEW b \in 1..n, a <= b
       PROVE  <<a, b>> \in LostBlocks(trades) <=> AllIn(L, a, b)
  <2>1. <<a, b>> \in Blocks(trades) /\ <<a, b>>[1] = a /\ <<a, b>>[2] = b
    BY <1>0, <1>14 DEF Blocks
  <2>2. \A i \in a..b : i \in 1..n
    BY <1>0
  <2>3. (\A i \in a..b : trades[i].points < 0) <=> AllIn(L, a, b)
    BY <1>3, <2>2 DEF AllIn
  <2> QED
    BY <2>1, <2>3 DEF LostBlocks
<1>15. \A b \in LostBlocks(trades) : /\ b[1] \in 1..n /\ b[2] \in 1..n /\ b[1] <= b[2]
                                     /\ b[2] - b[1] + 1 <= longest
  <2> SUFFICES ASSUME NEW b \in LostBlocks(trades)
               PROVE  /\ b[1] \in 1..n /\ b[2] \in 1..n /\ b[1] <= b[2]
                      /\ b[2] - b[1] + 1 <= longest
    OBVIOUS
  <2>1. b[1] \in 1..n /\ b[2] \in 1..n /\ b[1] <= b[2] /\ b = <<b[1], b[2]>>
    BY <1>0 DEF LostBlocks, Blocks
  <2>2. AllIn(L, b[1], b[2])
    BY <1>14, <2>1
  <2> QED
    BY <1>11, <2>1, <2>2
<1>16. longest \in D
  <2>1. CASE longest = 0
    BY <2>1
  <2>2. CASE \E a, b \in 1..n : a <= b /\ longest = b - a + 1 /\ AllIn(L, a, b)
    <3>1. PICK a, b \in 1..n : a <= b /\ longest = b - a + 1 /\ AllIn(L, a, b)
      BY <2>2
    <3>2. <<a, b>> \in LostBlocks(trades) /\ longest = <<a, b>>[2] - <<a, b>>[1] + 1
      BY <1>14, <3>1
    <3>3. \E x \in LostBlocks(trades) : longest = x[2] - x[1] + 1
      BY <3>2
    <3> QED
      BY <3>3
  <2> QED
    BY <1>11, <2>1, <2>2
<1>17. D \in SUBSET Int /\ \A x \in D : x <= longest
  <2>1. ASSUME NEW x \in D PROVE x \in Int /\ x <= longest
    <3>1. x = 0 \/ \E b \in LostBlocks(trades) : x = b[2] - b[1] + 1
      OBVIOUS
    <3> HIDE DEF D
    <3>2. CASE x = 0
      BY <1>11, <3>2
    <3>3. CASE \E b \in LostBlocks(trades) : x = b[2] - b[1] + 1
      <4>1. PICK b \in LostBlocks(trades) : x = b[2] - b[1] + 1
        BY <3>3
      <4>2. b[1] \in 1..n /\ b[2] \in 1..n /\ b[2] - b[1] + 1 <= longest
        BY <1>15
      <4> QED
        BY <4>1, <4>2
    <3> QED
      BY <3>1, <3>2, <3>3
  <2> HIDE DEF D
  <2> QED
    BY <2>1
<1> HIDE DEF D
<1>18. Max(D) = longest
  BY <1>16, <1>17, MaxIs
<1> QED
  BY <1>1, <1>2, <1>12, <1>13, <1>18 DEF D, L, longest

\* The metrics of trades, next to what they are defined to be.
MetricsAgree(trades, s) ==
  LET blocks == {b \in (DOMAIN trades) \X (DOMAIN trades) : b[1] <= b[2]}
      net(b) == Net(SubSeq(trades, b[1], b[2]))
      lost(b) == \A i \in b[1]..b[2] : trades[i].points < 0
  IN  /\ s.drawdown = Max({0} \cup {-net(b) : b \in blocks})
      /\ s.maxLosses = Max({0} \cup {b[2] - b[1] + 1 : b \in {x \in blocks : lost(x)}})
      /\ s.halts * HaltAfter <= s.all.losses /\ (s.maxLosses >= HaltAfter => s.halts > 0)
      /\ s.call.net + s.put.net = s.net
      /\ s.net = NetUnder(DOMAIN s.slots, s.slots)

LEMMA SummaryAgrees ==
  ASSUME NEW given \in TradeSeqs, NEW regimes
  PROVE  MetricsAgree(OldestFirst(given), Summarize(given, regimes))
<1> DEFINE trades == OldestFirst(given)
           s == Summarize(given, regimes)
<1>1. trades \in TradeSeqs
  BY OldestFirstOf
<1>2. /\ s.net = Net(trades)
      /\ s.call.net = Net(Part(trades, OfSide(trades, 1))) /\ s.put.net = Net(Part(trades, OfSide(trades, -1)))
      /\ s.all.losses = Cardinality(Lost(trades))
      /\ s.drawdown = MaxDrawdown(trades) /\ s.maxLosses = MaxConsecutiveLosses(trades)
      /\ s.halts = Halts(trades)
      /\ DOMAIN s.slots = SlotsOf(trades)
      /\ \A k \in SlotsOf(trades) : s.slots[k].net = Net(Part(trades, InSlot(trades, k)))
  BY SummaryIs
<1> HIDE DEF trades, s
<1>3. s.drawdown = Max({0} \cup {-Net(SubSeq(trades, b[1], b[2])) : b \in Blocks(trades)})
  BY <1>1, <1>2, DrawdownIs
<1>4. s.maxLosses = Max({0} \cup {b[2] - b[1] + 1 : b \in LostBlocks(trades)})
  BY <1>1, <1>2, StreaksAre
<1>5. s.halts * HaltAfter <= s.all.losses /\ (s.maxLosses >= HaltAfter => s.halts > 0)
  BY <1>1, <1>2, StreaksAre
<1>6. s.call.net + s.put.net = s.net
  BY <1>1, <1>2, SidesAddUp
<1>7. s.net = NetUnder(DOMAIN s.slots, s.slots)
  BY <1>1, <1>2, SlotsAddUp
<1>8. MetricsAgree(trades, s)
  BY <1>3, <1>4, <1>5, <1>6, <1>7 DEF MetricsAgree, Blocks, LostBlocks
<1> QED
  BY <1>8 DEF trades, s

LEMMA RunSummaries ==
  ASSUME NEW rows \in Seq(Rows), NEW designs, NEW n \in Names
  PROVE  LET run == RunIndex(rows, designs)
         IN  /\ run.trades[n] \in TradeSeqs
             /\ run.results[n].full = Summarize(run.trades[n], RegimeLabels(DropInvalidBars(rows)))
<1> DEFINE bars == DropInvalidBars(rows)
           regimes == RegimeLabels(bars)
           run == RunIndex(rows, designs)
           tradesBy == CHOOSE t \in {[m \in Names |-> TradesOf(bars, Named(m))]} : t = t
           both(m) == [full |-> Summarize(tradesBy[m], regimes),
                       continuous |-> ContinuousSplits(tradesBy[m], bars, regimes)]
           results == CHOOSE t \in {[m \in DOMAIN tradesBy |-> both(m)]} : t = t
<1>1. run.trades = tradesBy /\ run.results = results
  BY DEF RunIndex, Results, Table
<1>2. tradesBy = [m \in Names |-> TradesOf(bars, Named(m))]
  OBVIOUS
<1> HIDE DEF tradesBy
<1>3. results = [m \in DOMAIN tradesBy |-> both(m)]
  OBVIOUS
<1> HIDE DEF results
<1>4. results[n] = both(n)
  BY <1>2, <1>3
<1>5. results[n].full = Summarize(tradesBy[n], regimes)
  BY <1>4
<1>6. bars \in Seq(Rows)
  BY DroppedTyped
<1> HIDE DEF bars, regimes, run
<1>7. tradesBy[n] \in TradeSeqs
  BY <1>2, <1>6, NamedTyped, TradesTyped
<1> QED
  BY <1>1, <1>5, <1>7 DEF run, regimes, bars

LEMMA MetricsOfRuns ==
  ASSUME RunsMade
  PROVE  SummaryReference
<1> SUFFICES ASSUME report.by # "gate", NEW k \in DOMAIN report.runs, NEW n \in Names
             PROVE  MetricsAgree(OldestFirst(report.runs[k].trades[n]), report.runs[k].results[n].full)
  BY DEF SummaryReference, MetricsAgree, NetUnder
<1>1. report.runs # <<>>
  OBVIOUS
<1>2. PICK frames \in Seq(Seq(Rows)), designs \in Seq(Designs) :
         report.runs = [i \in DOMAIN frames |-> RunIndex(frames[i], designs)]
  BY <1>1 DEF RunsMade
<1>3. k \in DOMAIN frames /\ report.runs[k] = RunIndex(frames[k], designs)
  BY <1>2
<1>4. frames[k] \in Seq(Rows)
  BY <1>2, <1>3
<1> DEFINE run == RunIndex(frames[k], designs)
           given == run.trades[n]
           regimes == RegimeLabels(DropInvalidBars(frames[k]))
<1>5. given \in TradeSeqs /\ run.results[n].full = Summarize(given, regimes)
  BY <1>4, RunSummaries
<1> HIDE DEF run, given, regimes
<1>6. MetricsAgree(OldestFirst(given), Summarize(given, regimes))
  BY <1>5, SummaryAgrees
<1> QED
  BY <1>3, <1>5, <1>6 DEF run, given

\* Every run reports what its trades say, whatever the bars and the variants:
\* the drawdown is the worst net of consecutive trades, the longest losing
\* streak the longest block of lost trades, every halt has a streak of its own,
\* and the sides and the times of day add up to the net.
THEOREM MetricsAreTheTrades == Spec => []SummaryReference
<1>1. RunsMade => SummaryReference
  BY MetricsOfRuns
<1> QED
  BY <1>1, AlwaysRunsMade, PTL

===============================================================================
