------------------------------ MODULE WalkForward ------------------------------
(* The selection half of the research: research.phase6.engine.walk_forward,    *)
(* run.run_index with its robustness flags, and the pre-registered gate of     *)
(* gate.py. Everything here is a function of one sequence of bars, or of the   *)
(* two research segments.                                                      *)
(*                                                                             *)
(* Expectancies are compared as exact fractions, net points over trades, where *)
(* the code divides floats.                                                    *)
EXTENDS Replay

CONSTANTS
    Variants,        \* the research grid, the baseline first; ties by name go in this order
    Families,        \* the axis of each parameter family: a sequence of names
    LegacyDesign,    \* walk_forward's default arguments
    ProtocolDesigns, \* the reviewed designs, a sequence
    MinTrades,       \* fewer trades than this are a small sample (30)
    MinSplitTrades,  \* fewer trades than this in a split are flagged (10)
    MaxCandidates,   \* the gate's cap (2)
    Preregistered,   \* the selection the gate expects to reproduce
    NonStandardDays  \* sessions that are not normal trading days

Baseline == "baseline"

\* The arguments of walk_forward; window_bounds refuses a block or a step of
\* no days.
Designs ==
    [train : Nat \ {0}, test : Nat \ {0}, step : Nat \ {0}, anchored : BOOLEAN, warmup : Nat,
     exitCutoff : BOOLEAN, minTrades : Nat]

\* The first variant is the canonical strategy: no filter, no cutoff, no
\* square-off, exits at their levels, and part of every selection. Multiples of the ATR are whole here, as
\* prices are.
ASSUME WalkForwardAssumption ==
    /\ Variants \in Seq(Range(Variants))
    /\ 1 \in DOMAIN Variants /\ Variants[1].name = Baseline
    /\ \A i \in DOMAIN Variants : Variants[i].sl \in Int /\ Variants[i].rr \in Int
    /\ \A i \in DOMAIN Variants :
          Variants[i].name = Baseline =>
             /\ Variants[i].family # "realism"
             /\ Variants[i].adx = "off" /\ Variants[i].fill = "level"
             /\ Variants[i].cutoff = None /\ Variants[i].squareOff = None
    /\ LegacyDesign \in Designs
    /\ ProtocolDesigns \in Seq(Designs) /\ ProtocolDesigns # <<>>
    /\ MaxCandidates \in Nat

Names == {Variants[i].name : i \in DOMAIN Variants}
ByName == [n \in Names |-> CHOOSE v \in Range(Variants) : v.name = n]
Named(name) == ByName[name]
Order(name) == CHOOSE i \in DOMAIN Variants : Variants[i].name = name

\* The realism variants take no part in any selection.
Pool == {n \in Names : Named(n).family # "realism"}

\* Mean of a over mean of b; a mean over no trades is not above anything.
MeanAbove(a, b) == a.trades > 0 /\ (b.trades = 0 \/ a.net * b.trades > b.net * a.trades)

-------------------------------------------------------------------------------
(* Windows. A window names its train and test days by position. *)

\* window_bounds: test follows train at once, the first warm-up days are in no
\* window, and an anchored train block grows from the first day after them.
WindowBounds(n, d) ==
    LET room == n - d.warmup - d.train - d.test
        count == IF room < 0 THEN 0 ELSE room \div d.step + 1
        end(k) == d.warmup + d.train + (k - 1) * d.step
    IN  [k \in 1..count |->
            [trainFirst |-> IF d.anchored THEN d.warmup + 1 ELSE end(k) - d.train + 1,
             trainLast |-> end(k), testFirst |-> end(k) + 1, testLast |-> end(k) + d.test]]

TradingDays(bars) == Ordered({Day(bars[i].t) : i \in DOMAIN bars}, <)

Entered(trades, first, last) ==
    Those(trades, LAMBDA x : first <= Day(x.entry) /\ Day(x.entry) <= last)

EnteredAndClosed(trades, first, last) ==
    Those(trades, LAMBDA x : first <= Day(x.entry) /\ Day(x.entry) <= last /\ Day(x.exit) <= last)

\* A slip: every trade entered in the train block counts.
TrainTradesLeaking(trades, days, w, d) == Entered(trades, days[w.trainFirst], days[w.trainLast])

\* What a variant is scored on: with the exit cutoff only trades that were also
\* closed by the last day of the train block.
TrainTrades(trades, days, w, d) ==
    IF d.exitCutoff
    THEN EnteredAndClosed(trades, days[w.trainFirst], days[w.trainLast])
    ELSE Entered(trades, days[w.trainFirst], days[w.trainLast])

\* A score below the minimum trade count is minus infinity: no trades at all.
Score(trades, d) ==
    IF Len(trades) < d.minTrades THEN [trades |-> 0, net |-> 0]
    ELSE [trades |-> Len(trades), net |-> Net(trades)]

\* The best train expectancy; ties go to the baseline, then to grid order, and
\* the baseline is the answer when nothing qualifies.
PickOf(tradesBy, days, w, d) ==
    LET score == Table(DOMAIN tradesBy, LAMBDA n : Score(TrainTrades(tradesBy[n], days, w, d), d))
        best == {n \in DOMAIN score : \A m \in DOMAIN score : ~MeanAbove(score[m], score[n])}
    IN  IF Baseline \in best THEN Baseline
        ELSE CHOOSE n \in best : \A m \in best : Order(n) <= Order(m)

\* A window with its pick, and what the pick and the baseline trade in its test days.
Forward(tradesBy, days, w, d) ==
    LET test(n) == Entered(tradesBy[n], days[w.testFirst], days[w.testLast])
        picked(n) == [bounds |-> w, picked |-> n, trades |-> test(n), baseline |-> test(Baseline),
                      net |-> Net(test(n)), baselineNet |-> Net(test(Baseline))]
    IN  picked(PickOf(tradesBy, days, w, d))

Windows(tradesBy, days, d) ==
    LET bounds == WindowBounds(Len(days), d)
    IN  Table(DOMAIN bounds, LAMBDA k : Forward(tradesBy, days, bounds[k], d))

\* The test days of all windows together, as picked and at the baseline.
Joined(windows, part) == Summarize(FlattenSeq([k \in DOMAIN windows |-> windows[k][part]]), NoRegimes)

WalkForwardOf(bars, tradesBy, d) ==
    LET windows == Windows(tradesBy, TradingDays(bars), d)
    IN  [windows |-> windows, selectedOos |-> Joined(windows, "trades"),
         baselineOos |-> Joined(windows, "baseline")]

-------------------------------------------------------------------------------
(* Robustness flags. *)

\* The nearest value on each side of an axis that is not the baseline itself.
Neighbours(axis, i) ==
    LET others == {j \in DOMAIN axis : axis[j] # Baseline /\ j # i}
        below == {j \in others : j < i}
        above == {j \in others : j > i}
    IN  {axis[j] : j \in {k \in below : k = Max(below)} \cup {k \in above : k = Min(above)}}

\* results[n] = [full, continuous]. A mean over no trades counts as 0 for the
\* baseline, and is no evidence from a neighbour.
FlagsOf(results, axis, i) ==
    LET s == results[axis[i]].full
        base == Greater(results[Baseline].full.trades, 1)
        aboveBase(x) == x.net * base > results[Baseline].full.net * x.trades
        near == {n \in Neighbours(axis, i) \cap DOMAIN results : results[n].full.trades > 0}
        splits == results[axis[i]].continuous
        thin == \E k \in DOMAIN splits : splits[k].trades = 0 \/ splits[k].trades < MinSplitTrades
    IN  {f \in {"peak", "thin split", "negative split", "small sample"} :
            CASE f = "peak" -> /\ s.trades > 0 /\ aboveBase(s)
                               /\ near # {} /\ \A n \in near : ~aboveBase(results[n].full)
              [] f = "thin split" -> thin
              [] f = "negative split" -> ~thin /\ s.net > 0 /\ \E k \in DOMAIN splits : splits[k].net < 0
              [] f = "small sample" -> s.trades < MinTrades}

RobustnessFlags(results) ==
    [n \in (DOMAIN results) \ {Baseline} |->
        UNION {UNION {FlagsOf(results, Families[f], i) : i \in {j \in DOMAIN Families[f] : Families[f][j] = n}} :
                 f \in DOMAIN Families}]

-------------------------------------------------------------------------------
(* run.run_index: baseline, grid, flags and walk-forward of one segment. *)

Results(bars, tradesBy) ==
    LET regimes == RegimeLabels(bars)
        both(n) == [full |-> Summarize(tradesBy[n], regimes),
                    continuous |-> ContinuousSplits(tradesBy[n], bars, regimes)]
    IN  Table(DOMAIN tradesBy, both)

\* A design that needs more trading days than there are is skipped.
LongEnough(bars, d) == Len(TradingDays(bars)) >= d.warmup + d.train + d.test

\* The frame has a bar in each of the three splits; the report reads all three.
Splittable(bars) == \A k \in DOMAIN SplitBars(bars) : SplitBars(bars)[k] # <<>>

RunIndex(rows, designs) ==
    LET bars == DropInvalidBars(rows)
        tradesBy == Table(Names, LAMBDA n : TradesOf(bars, Named(n)))
        pool == [n \in Pool |-> tradesBy[n]]
        results == Results(bars, tradesBy)
        \* the assertion of run_index: the grid's baseline is the canonical run
        outline(trades) == [i \in DOMAIN trades |-> <<trades[i].entry, trades[i].points>>]
        diverged == outline(PairTrades(Run(bars, Named(Baseline)))) # outline(tradesBy[Baseline])
        tagged == Those(tradesBy[Baseline], LAMBDA x : Day(x.entry) \in NonStandardDays)
    IN  [bars |-> rows, diverged |-> diverged, tagged |-> Breakdown(tagged),
         sessions |-> NonStandardDays \cap {Day(bars[i].t) : i \in DOMAIN bars},
         trades |-> tradesBy, results |-> results,
         production |-> ProductionSplits(bars, Named(Baseline)),
         flags |-> RobustnessFlags(results),
         forward |-> [k \in {i \in DOMAIN designs : LongEnough(bars, designs[i])} |->
                        WalkForwardOf(bars, pool, designs[k])]]

-------------------------------------------------------------------------------
(* The gate. *)

\* One variant, held fixed, next to the baseline on exactly the test days of a
\* design; a window is won strictly.
SameOos(days, tradesBy, d, n) ==
    LET bounds == WindowBounds(Len(days), d)
        test(m, k) == Entered(tradesBy[m], days[bounds[k].testFirst], days[bounds[k].testLast])
        all(m) == Summarize(FlattenSeq([k \in DOMAIN bounds |-> test(m, k)]), NoRegimes)
    IN  [own |-> all(n), base |-> all(Baseline), windows |-> Len(bounds),
         won |-> Cardinality({k \in DOMAIN bounds : Net(test(n, k)) > Net(test(Baseline, k))})]

BuildEvidence(short, main) ==
    LET first == DropInvalidBars(short)
        bars == DropInvalidBars(main)
        tradesIn(s) == Table(Pool, LAMBDA n : TradesOf(s, Named(n)))
        tradesBy == tradesIn(bars)
        days == TradingDays(bars)
        flags == RobustnessFlags(Results(bars, tradesBy))
    IN  Table(Pool, LAMBDA n :
            [family |-> Named(n).family, flags |-> IF n = Baseline THEN {} ELSE flags[n],
             segment1 |-> Summarize(TradesOf(first, Named(n)), NoRegimes),
             designs |-> Table(DOMAIN ProtocolDesigns, LAMBDA k : SameOos(days, tradesBy, ProtocolDesigns[k], n))])

\* G2 to G5 for one design.
BeatsBaseline(c) ==
    /\ c.own.net > c.base.net
    /\ c.own.trades > 0 /\ c.base.trades > 0 /\ ~MeanAbove(c.base, c.own)
    /\ c.won * 2 > c.windows
    /\ 4 * c.own.drawdown <= 5 * c.base.drawdown

Eligible(e) ==
    /\ e.flags = {}
    /\ \A k \in DOMAIN e.designs : BeatsBaseline(e.designs[k])
    /\ e.segment1.trades > 0 /\ e.segment1.net > 0

WorstDelta(e) == Min({e.designs[k].own.net - e.designs[k].base.net : k \in DOMAIN e.designs})

\* G7: by the smaller of the two deltas, ties by name.
RankedBefore(evidence, n, m) ==
    \/ WorstDelta(evidence[n]) > WorstDelta(evidence[m])
    \/ WorstDelta(evidence[n]) = WorstDelta(evidence[m]) /\ Order(n) < Order(m)

\* A slip: the cap is applied before the families are told apart.
EvaluateCapFirst(evidence) ==
    LET ranked == Ordered({n \in (DOMAIN evidence) \ {Baseline} : Eligible(evidence[n])},
                          LAMBDA n, m : RankedBefore(evidence, n, m))
        top == SubSeq(ranked, 1, Min({Len(ranked), MaxCandidates}))
    IN  SelectSeq(top, LAMBDA n : \A i \in DOMAIN top :
                        evidence[top[i]].family = evidence[n].family => Order(n) <= Order(top[i]))

\* At most one candidate per family and MaxCandidates in all, from the top.
Evaluate(evidence) ==
    LET eligible == {n \in (DOMAIN evidence) \ {Baseline} : Eligible(evidence[n])}
        ranked == Ordered(eligible, LAMBDA n, m : RankedBefore(evidence, n, m))
        take[i \in 0..Len(ranked)] ==
            IF i = 0 THEN <<>>
            ELSE LET s == take[i - 1]
                 IN  IF \/ \E j \in DOMAIN s : evidence[s[j]].family = evidence[ranked[i]].family
                        \/ Len(s) >= MaxCandidates
                     THEN s ELSE Append(s, ranked[i])
    IN  take[Len(ranked)]

===============================================================================
