-------------------------------- MODULE Replay --------------------------------
(* The candle-by-candle strategy and what is counted from its events:          *)
(* fno_signals.strategy (run), algoedge.backtest (pairing, metrics, splits)    *)
(* and the research copy of the state machine, research.phase6.engine          *)
(* (simulate, pair, summarize). These are pure functions of a sequence of      *)
(* bars.                                                                       *)
(*                                                                             *)
(* A bar is [t, o, h, l, c, sig, adx, atr, grid]: its time, its prices in      *)
(* whole points, and what the indicators say on it. The indicators themselves  *)
(* (EMA, RSI, Supertrend, VWAP, ATR, DMI) are part of the bar: all of them are *)
(* causal, and no decision looks inside them.                                  *)
EXTENDS Integers, Sequences, FiniteSets, SequencesExt

CONSTANTS
    SlotsPerDay,    \* candles of one trading day
    SessionSlots,   \* the slots in which the session filter lets entries in
    MinSlPoints,    \* RiskConfig.min_sl_points
    SmaLength,      \* length of the average that labels the regime
    HaltAfter,      \* losing exits in a row that halt paper trading
    MinSplitBars    \* a production split shorter than this is not replayed

ASSUME ReplayAssumption ==
    /\ {SlotsPerDay, SmaLength, HaltAfter, MinSplitBars} \subseteq Nat \ {0}
    /\ SessionSlots \subseteq 1..SlotsPerDay
    /\ MinSlPoints \in Nat

\* The risk ATR of a bar on which it is still warming up.
NaN == -1

\* No start_after, no cutoff, no square-off.
None == 0

Day(t) == (t - 1) \div SlotsPerDay + 1
Slot(t) == ((t - 1) % SlotsPerDay) + 1

SumOf(s, f(_)) ==
    LET sum[i \in 0..Len(s)] == IF i = 0 THEN 0 ELSE sum[i - 1] + f(s[i])
    IN  sum[Len(s)]

Greater(a, b) == IF a >= b THEN a ELSE b

\* The function x |-> f(x) on S, as a table: the comparison makes TLC evaluate
\* it once.
Table(S, f(_)) == CHOOSE t \in {[x \in S |-> f(x)]} : t = t

\* The members of a set in an order that is strict and total on it.
Ordered(S, before(_, _)) ==
    [k \in 1..Cardinality(S) |-> CHOOSE x \in S : Cardinality({y \in S : before(y, x)}) = k - 1]

\* The positions of the members of a sequence that are so.
Where(s, are(_)) == {i \in DOMAIN s : are(s[i])}

\* The part of a sequence at a set of positions.
Part(s, S) == LET at == Ordered(S, <) IN [k \in DOMAIN at |-> s[at[k]]]

\* The members of a sequence that are so, in its order.
Those(s, are(_)) == Part(s, Where(s, are))

-------------------------------------------------------------------------------
(* What a bar offers. *)

UsableBar(b) == b.l > 0 /\ b.o > 0 /\ b.c > 0 /\ b.h >= b.l

DropInvalidBars(bars) == Part(bars, Where(bars, UsableBar))

InSession(b) == Slot(b.t) \in SessionSlots

\* The setup holds on bar i and did not hold on the bar before it.
Edge(setup, i, side) == setup[i] = side /\ (i = 1 \/ setup[i - 1] # side)

Setups(bars) == [i \in DOMAIN bars |-> bars[i].sig]

Distances(b, v) ==
    LET sl == Greater(b.atr * v.sl, MinSlPoints) IN [sl |-> sl, tp |-> sl * v.rr]

\* A distance that is not a finite positive number never opens a position.
RiskKnown(b, v) == b.atr # NaN /\ Distances(b, v).sl > 0 /\ Distances(b, v).tp > 0

-------------------------------------------------------------------------------
(* The canonical state machine: strategy.run. *)

Flat == [side |-> 0, entry |-> 0, sl |-> 0, tp |-> 0]

SlHit(p, b) == (p.side = 1 /\ b.l <= p.sl) \/ (p.side = -1 /\ b.h >= p.sl)
TpHit(p, b) == (p.side = 1 /\ b.h >= p.tp) \/ (p.side = -1 /\ b.l <= p.tp)

Opened(b, side, v) ==
    [side |-> side, entry |-> b.c, sl |-> b.c - side * Distances(b, v).sl,
     tp |-> b.c + side * Distances(b, v).tp]

EntryEvent(b, p) == [kind |-> "ENTRY", t |-> b.t, side |-> p.side, price |-> b.c, level |-> None]
ExitEvent(b, reason, level) == [kind |-> reason, t |-> b.t, side |-> 0, price |-> b.c, level |-> level]

\* One bar, judged against the position at the end of the bar before.
BarStep(bars, v, s, i) ==
    LET b == bars[i]
        p == s.pos
        canEnter == p.side = 0 /\ InSession(b) /\ RiskKnown(b, v)
        enter(side) == [pos |-> Opened(b, side, v),
                        events |-> Append(s.events, EntryEvent(b, Opened(b, side, v)))]
        leave(reason, level) == [pos |-> Flat, events |-> Append(s.events, ExitEvent(b, reason, level))]
    IN  CASE SlHit(p, b) -> leave("SL", p.sl)
          [] TpHit(p, b) /\ ~SlHit(p, b) -> leave("TARGET", p.tp)
          [] canEnter /\ Edge(Setups(bars), i, "bull") -> enter(1)
          [] canEnter /\ Edge(Setups(bars), i, "bear") -> enter(-1)
          [] OTHER -> s

\* The position and the events after each bar. Bars up to `after` are not
\* evaluated; the first one past it starts from `held`.
Replayed(bars, v, after, held) ==
    LET steps[i \in 0..Len(bars)] ==
            IF i = 0 THEN [pos |-> held, events |-> <<>>]
            ELSE IF bars[i].t <= after THEN steps[i - 1]
            ELSE BarStep(bars, v, steps[i - 1], i)
    IN  steps

\* A slip: only the bars after the restart are given to the strategy.
RunFromSliced(rows, v, after, held) ==
    LET bars == SelectSeq(DropInvalidBars(rows), LAMBDA b : b.t > after)
    IN  Replayed(bars, v, None, held)[Len(bars)].events

\* strategy.run, seeded after a bar with a position that is really held.
RunFrom(rows, v, after, held) ==
    LET bars == DropInvalidBars(rows) IN Replayed(bars, v, after, held)[Len(bars)].events

Run(rows, v) == RunFrom(rows, v, None, Flat)

-------------------------------------------------------------------------------
(* The research state machine: engine.simulate, with the optional ADX filter,  *)
(* entry cutoff, square-off and exit fills of a variant                        *)
(* [name, family, sl, rr, adx, cutoff, squareOff, fill].                       *)

VariantSetups(bars, v) ==
    [i \in DOMAIN bars |->
        IF v.adx = "setup" /\ bars[i].sig # bars[i].adx THEN "none" ELSE bars[i].sig]

\* A slip: every exit beyond its level fills at the open.
FillGapped(v, p, b, level, stopped) ==
    CASE v.fill = "bar_close" -> b.c
      [] v.fill # "bar_close" /\ (IF stopped THEN p.side * (b.o - level) < 0 ELSE p.side * (b.o - level) > 0) -> b.o
      [] OTHER -> level

\* Where an exit fills. A bar that opens beyond the level fills at its open
\* under "gap_aware", and every exit fills at the close under "bar_close".
Fill(v, p, b, level, stopped) ==
    LET beyond == IF stopped THEN p.side * (b.o - level) < 0 ELSE p.side * (b.o - level) > 0
    IN  CASE v.fill = "bar_close" -> b.c
          [] v.fill = "gap_aware" /\ beyond -> b.o
          [] OTHER -> level

\* A position still open on a later day is closed at that day's first open.
Forced(v, p, b, entered) ==
    p.side # 0 /\ v.squareOff # None /\ (Day(b.t) # entered \/ Slot(b.t) >= v.squareOff)

SimStep(bars, setups, v, s, i) ==
    LET b == bars[i]
        p == s.pos
        canEnter(side) ==
            /\ p.side = 0
            /\ InSession(b)
            /\ v.cutoff = None \/ Slot(b.t) <= v.cutoff
            /\ Edge(setups, i, side)
            /\ v.adx = "gate" => b.adx = side
            /\ RiskKnown(b, v)
        enter(side) == [pos |-> Opened(b, side, v), day |-> Day(b.t),
                        events |-> Append(s.events, EntryEvent(b, Opened(b, side, v)))]
        leave(reason, level) ==
            [s EXCEPT !.pos = Flat, !.events = Append(@, ExitEvent(b, reason, level))]
    IN  CASE SlHit(p, b) -> leave("SL", Fill(v, p, b, p.sl, TRUE))
          [] TpHit(p, b) /\ ~SlHit(p, b) -> leave("TARGET", Fill(v, p, b, p.tp, FALSE))
          [] Forced(v, p, b, s.day) /\ ~SlHit(p, b) /\ ~TpHit(p, b) ->
                leave("SQUARE_OFF", IF Day(b.t) # s.day THEN b.o ELSE b.c)
          [] canEnter("bull") -> enter(1)
          [] canEnter("bear") -> enter(-1)
          [] OTHER -> s

Simulate(rows, v) ==
    LET bars == DropInvalidBars(rows)
        setups == VariantSetups(bars, v)
        steps[i \in 0..Len(bars)] ==
            IF i = 0 THEN [pos |-> Flat, day |-> None, events |-> <<>>]
            ELSE SimStep(bars, setups, v, steps[i - 1], i)
    IN  steps[Len(bars)].events

-------------------------------------------------------------------------------
(* Round trips: each exit closes the last entry before it. *)

Paired(events, exits) ==
    LET trade(e, x) == [entry |-> e.t, exit |-> x.t, side |-> e.side, reason |-> x.kind,
                        points |-> e.side * (x.level - e.price)]
        steps[i \in 0..Len(events)] ==
            IF i = 0 THEN [open |-> <<>>, trades |-> <<>>]
            ELSE LET s == steps[i - 1]
                     e == events[i]
                 IN  CASE e.kind = "ENTRY" -> [s EXCEPT !.open = <<e>>]
                       [] e.kind \in exits /\ s.open # <<>> ->
                             [open |-> <<>>, trades |-> Append(s.trades, trade(s.open[1], e))]
                       [] OTHER -> s
    IN  steps[Len(events)].trades

\* backtest.pair_trades knows two exits, engine.pair also the square-off.
PairTrades(events) == Paired(events, {"SL", "TARGET"})
Pair(events) == Paired(events, {"SL", "TARGET", "SQUARE_OFF"})

TradesOf(rows, v) == Pair(Simulate(rows, v))

-------------------------------------------------------------------------------
(* Metrics. A mean is kept as its sum and its count; wins, losses and streaks  *)
(* are read oldest first.                                                      *)

Net(trades) == SumOf(trades, LAMBDA x : x.points)

\* By entry; trades of one entry stay in the order given.
OldestFirst(trades) ==
    LET before(i, j) ==
            \/ trades[i].entry < trades[j].entry
            \/ trades[i].entry = trades[j].entry /\ i < j
        at == Ordered(DOMAIN trades, before)
    IN  [k \in DOMAIN at |-> trades[at[k]]]

Breakdown(trades) ==
    [trades |-> Len(trades), net |-> Net(trades),
     wins |-> Cardinality(Where(trades, LAMBDA x : x.points > 0)),
     losses |-> Cardinality(Where(trades, LAMBDA x : x.points < 0))]

\* label -> breakdown of the trades with that label, for the labels that occur.
Buckets(trades, label, labels) ==
    [k \in {label[trades[i]] : i \in DOMAIN trades} \cap labels |->
        Breakdown(Those(trades, LAMBDA x : label[x] = k))]

MaxConsecutiveLosses(trades) ==
    LET run[i \in 0..Len(trades)] ==
            IF i = 0 THEN [now |-> 0, longest |-> 0]
            ELSE LET s == run[i - 1]
                     n == IF trades[i].points < 0 THEN s.now + 1 ELSE 0
                 IN  [now |-> n, longest |-> Greater(s.longest, n)]
    IN  run[Len(trades)].longest

\* A slip: the peak starts at the first trade and not at the starting equity.
MaxDrawdownFromFirst(trades) ==
    LET cum == [i \in DOMAIN trades |-> Net(SubSeq(trades, 1, i))]
    IN  Max({0} \cup UNION {{cum[i] - cum[j] : j \in (i + 1)..Len(cum)} : i \in DOMAIN cum})

MaxDrawdown(trades) ==
    LET curve[i \in 0..Len(trades)] ==
            IF i = 0 THEN [cum |-> 0, peak |-> 0, worst |-> 0]
            ELSE LET s == curve[i - 1]
                     cum == s.cum + trades[i].points
                     peak == Greater(s.peak, cum)
                 IN  [cum |-> cum, peak |-> peak, worst |-> Greater(s.worst, peak - cum)]
    IN  curve[Len(trades)].worst

\* A losing streak that reaches the limit halts once and starts over; an exit
\* at no gain and no loss leaves the streak as it is.
Halts(trades) ==
    LET run[i \in 0..Len(trades)] ==
            IF i = 0 THEN [streak |-> 0, halts |-> 0]
            ELSE LET s == run[i - 1]
                     p == trades[i].points
                 IN  CASE p < 0 /\ s.streak + 1 = HaltAfter -> [streak |-> 0, halts |-> s.halts + 1]
                       [] p < 0 /\ s.streak + 1 # HaltAfter -> [s EXCEPT !.streak = @ + 1]
                       [] p = 0 -> s
                       [] p > 0 -> [s EXCEPT !.streak = 0]
    IN  run[Len(trades)].halts

\* Close above or below its own average of SmaLength closes, once there are
\* that many; of two bars with one time the later one labels it.
RegimeLabels(bars) ==
    LET last(t) == Max({i \in DOMAIN bars : bars[i].t = t})
        sum(i) == SumOf(SubSeq(bars, i - SmaLength + 1, i), LAMBDA b : b.c)
        labelled == {i \in SmaLength..Len(bars) : i = last(bars[i].t)}
        label(t) == IF bars[last(t)].c * SmaLength > sum(last(t)) THEN "ABOVE_SMA" ELSE "BELOW_SMA"
    IN  Table({bars[i].t : i \in labelled}, label)

\* engine.summarize over backtest.compute_backtest_metrics.
Summarize(given, regimes) ==
    LET trades == OldestFirst(given)
        made == {trades[i] : i \in DOMAIN trades}
        regime(x) == IF x.entry \in DOMAIN regimes THEN regimes[x.entry] ELSE "unlabelled"
    IN  [trades |-> Len(trades), net |-> Net(trades),
         all |-> Breakdown(trades),
         call |-> Breakdown(Those(trades, LAMBDA x : x.side = 1)),
         put |-> Breakdown(Those(trades, LAMBDA x : x.side = -1)),
         maxLosses |-> MaxConsecutiveLosses(trades), drawdown |-> MaxDrawdown(trades),
         halts |-> Halts(trades),
         overnight |-> Cardinality(Where(trades, LAMBDA x : Day(x.entry) # Day(x.exit))),
         reasons |-> Buckets(trades, [x \in made |-> x.reason], {"SL", "TARGET", "SQUARE_OFF"}),
         slots |-> Buckets(trades, [x \in made |-> Slot(x.entry)], 1..SlotsPerDay),
         regime |-> Buckets(trades, [x \in made |-> regime(x)], {"ABOVE_SMA", "BELOW_SMA"})]

NoRegimes == [t \in {} |-> "unlabelled"]

-------------------------------------------------------------------------------
(* Chronological splits: 60 / 20 / 20 of the bars. *)

Splits == <<"train", "validation", "out_of_sample">>

SplitBars(bars) ==
    LET n == Len(bars)
        a == (n * 6) \div 10
        b == (n * 8) \div 10
    IN  [train |-> SubSeq(bars, 1, a), validation |-> SubSeq(bars, a + 1, b),
         out_of_sample |-> SubSeq(bars, b + 1, n)]

\* The strategy re-run from scratch on each slice.
ProductionSplits(bars, v) ==
    [k \in DOMAIN SplitBars(bars) |->
        LET part == SplitBars(bars)[k]
        IN  Summarize(IF Len(part) >= MinSplitBars THEN TradesOf(part, v) ELSE <<>>,
                      RegimeLabels(part))]

\* One continuous run, its trades assigned by entry time. A split without bars
\* is absent.
ContinuousSplits(trades, bars, regimes) ==
    LET parts == SplitBars(bars)
        times(k) == {parts[k][i].t : i \in DOMAIN parts[k]}
    IN  [k \in {n \in DOMAIN parts : parts[n] # <<>>} |->
            Summarize(Those(trades, LAMBDA x : Min(times(k)) <= x.entry /\ x.entry <= Max(times(k))),
                      regimes)]

===============================================================================
