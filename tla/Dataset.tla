-------------------------------- MODULE Dataset --------------------------------
(* What is done to candles before a strategy sees them: the downloader's       *)
(* cleaning (download_dhan), the validator's verdicts (validate_dataset), the  *)
(* loader's policy (load_historical_data) and the reader of the research       *)
(* tables (candle_source). A row is a bar; one whose time cannot be parsed has *)
(* time 0. A missing price is a case of an inconsistent one.                   *)
EXTENDS Replay

CONSTANTS
    ExcludedDays,  \* EXCLUDED_PERIODS, as days
    ChunkDays,     \* the broker's limit of days in one request
    MaxGapDays     \* a longer gap between two bars is a hole in the data

ASSUME DatasetAssumption ==
    /\ ExcludedDays \subseteq Nat
    /\ {ChunkDays, MaxGapDays} \subseteq Nat \ {0}

\* What a row of a file may be.
Rows ==
    [t : Nat, o : Int, h : Int, l : Int, c : Int, sig : {"bull", "bear", "none"},
     adx : {"bull", "bear", "none"}, atr : Int, grid : BOOLEAN]

TimesIn(rows) == {rows[i].t : i \in DOMAIN rows}

\* A set of rows, no two of one time, in order of time.
ByTime(S) == Ordered(S, LAMBDA a, b : a.t < b.t)

OnDays(rows, first, last) == Part(rows, Where(rows, LAMBDA b : Day(b.t) \in first..last))

-------------------------------------------------------------------------------
(* Download. *)

\* A slip: the next range starts a day too late.
PlanChunksApart(start, end) ==
    [k \in 1..((end - start) \div ChunkDays + 1) |->
        [first |-> start + (k - 1) * (ChunkDays + 1), last |-> Min({start + k * ChunkDays - 1, end})]]

\* plan_chunks: consecutive ranges [first, last] of at most ChunkDays days.
PlanChunks(start, end) ==
    [k \in 1..((end - start) \div ChunkDays + 1) |->
        [first |-> start + (k - 1) * ChunkDays, last |-> Min({start + k * ChunkDays - 1, end})]]

Consistent(b) == b.h >= b.l /\ b.h >= b.o /\ b.h >= b.c /\ b.l <= b.o /\ b.l <= b.c

ValidCandle(b) == b.t # 0 /\ Consistent(b)

\* In order of time, of two valid rows with one time the one downloaded first.
Normalize(raw) ==
    LET valid == Where(raw, ValidCandle)
        first == {i \in valid : \A j \in valid : raw[j].t = raw[i].t => i <= j}
    IN  ByTime({raw[i] : i \in first})

\* The days of a dataset that lack candles, and how many.
DaysWithMissingBars(rows) ==
    LET has(d) == Cardinality({t \in TimesIn(rows) : Day(t) = d})
    IN  [d \in {Day(t) : t \in TimesIn(rows)} |-> SlotsPerDay - has(d)]

-------------------------------------------------------------------------------
(* Validation and load policy. *)

Invalid(b) == b.t = 0 \/ ~Consistent(b) \/ b.l <= 0

\* Every copy of a repeated time is a duplicate.
Duplicate(rows, b) == b.t # 0 /\ Cardinality({i \in DOMAIN rows : rows[i].t = b.t}) > 1

OffGrid(b) == b.t # 0 /\ ~b.grid

Excluded(b) == b.t # 0 /\ Day(b.t) \in ExcludedDays

Rejected(rows) ==
    Where(rows, LAMBDA b : ~Excluded(b) /\ (Invalid(b) \/ Duplicate(rows, b) \/ OffGrid(b)))

\* plan_load: what a load of these rows would insert.
Kept(rows) == ByTime({rows[i] : i \in (DOMAIN rows) \ (Where(rows, Excluded) \cup Rejected(rows))})

\* load_record: the counts describe the whole file.
LoadRecord(rows) ==
    [row_count |-> Len(rows), invalid_rows |-> Cardinality(Where(rows, Invalid)),
     duplicate_count |-> Cardinality(Where(rows, LAMBDA b : b.t # 0)) - Cardinality(TimesIn(rows) \ {0}),
     excluded_rows |-> Cardinality(Where(rows, Excluded)), rejected_rows |-> Cardinality(Rejected(rows))]

-------------------------------------------------------------------------------
(* The research tables: a sequence of loads [source, sha, record, candles], as *)
(* the load record and its candles are committed together. A file's hash is    *)
(* its content.                                                                *)

FindExistingLoad(loads, sha) == {k \in DOMAIN loads : loads[k].sha = sha}

\* The candles stored under a source: its loads, all together.
OfSource(loads, source) ==
    UNION {Range(loads[k].candles) : k \in {j \in DOMAIN loads : loads[j].source = source}}

Clash(loads, source, candles) == {b.t : b \in OfSource(loads, source)} \cap TimesIn(candles) # {}

\* A slip: the table of loads has no unique key on the hash.
IntegrityErrorOfCandles(loads, sha, source, candles) == Clash(loads, source, candles)

\* The unique keys of the two tables.
IntegrityError(loads, sha, source, candles) ==
    FindExistingLoad(loads, sha) # {} \/ Clash(loads, source, candles)

\* verify_load, check J: the source has no candle of another load. The other
\* checks compare what was inserted with the plan it was inserted from.
Verified(loads, source) == OfSource(loads, source) = {}

ReadCandles(loads, source, start, end) ==
    ByTime({b \in OfSource(loads, source) : start <= b.t /\ (end = None \/ b.t <= end)})

ContiguousSegments(bars) ==
    LET breaks == {i \in 2..Len(bars) : Day(bars[i].t) - Day(bars[i - 1].t) > MaxGapDays}
        starts == Ordered(IF bars = <<>> THEN {} ELSE {1} \cup breaks, <)
    IN  [k \in DOMAIN starts |->
            SubSeq(bars, starts[k], IF k = Len(starts) THEN Len(bars) ELSE starts[k + 1] - 1)]

===============================================================================
