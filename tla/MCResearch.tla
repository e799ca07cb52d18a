------------------------------ MODULE MCResearch ------------------------------
EXTENDS Research, TLC

CONSTANTS l1, l2, dhan, copy

Bar(t, o, h, l, c, sig) ==
    [t |-> t, o |-> o, h |-> h, l |-> l, c |-> c, sig |-> sig, adx |-> "bull", atr |-> 1, grid |-> TRUE]

\* A day that starts with a long setup, falls to the nearest stop and rises.
Morning(d) == Bar(2 * d - 1, 10, 10, 10, 10, "bull")
Evening(d) == Bar(2 * d, 10, 16, 9, 15, "none")

\* Days 1 and 2, the excluded days 3 and 4, days 5 to 8, the holdout. Day 3 has
\* a second candle of one time, day 6 an inconsistent copy, before the true one.
MCMarket ==
    <<Morning(1), Evening(1), Morning(2), Evening(2), Morning(3), Evening(3), Bar(5, 20, 21, 19, 20, "none"),
      Morning(4), Morning(5), Evening(5), [Morning(6) EXCEPT !.h = 2], Morning(6), Evening(6),
      Morning(7), Evening(7), Morning(8), Evening(8), Morning(9), Evening(9)>>

\* A file not written by the downloader: rows to be rejected for every reason.
Dirty ==
    <<Evening(6), Morning(6), [Morning(2) EXCEPT !.t = 0], Evening(2), Evening(2), Morning(3),
      [Morning(5) EXCEPT !.grid = FALSE], [Evening(5) EXCEPT !.l = 0]>>
MCFiles == {Dirty}

\* Every sequence of a few kinds of bar.
Shapes == {
    Bar(0, 10, 10, 10, 10, "bull"), Bar(0, 10, 10, 10, 10, "bear"),
    Bar(0, 11, 14, 10, 14, "none"), Bar(0, 8, 8, 6, 6, "none")}
MoreShapes == Shapes \cup {
    Bar(0, 10, 16, 9, 15, "none"), Bar(0, 10, 10, 10, 10, "none"), Bar(0, 10, 10, 0, 10, "bull"),
    [Bar(0, 10, 10, 10, 10, "bull") EXCEPT !.atr = NaN, !.adx = "none"]}
Timed(s) == [i \in DOMAIN s |-> [s[i] EXCEPT !.t = i]]
MCStudies == {Timed(s) : s \in [1..5 -> Shapes] \cup [1..3 -> MoreShapes] \cup [1..2 -> MoreShapes]}

\* Two short days before the hole, and after it four and one of the holdout, of a few kinds: the stop
\* before the rise, a fall, a small rise, a day without a setup.
DayKinds == {
    <<Morning(1), Evening(1)>>, <<Morning(1), Bar(0, 10, 10, 4, 5, "none")>>,
    <<Morning(1), Bar(0, 10, 12, 10, 12, "none")>>,
    <<Bar(0, 10, 10, 10, 10, "none"), Bar(0, 10, 10, 10, 10, "none")>>}
OnDay(kind, d) == <<[kind[1] EXCEPT !.t = 2 * d - 1], [kind[2] EXCEPT !.t = 2 * d]>>
MCStored ==
    {OnDay(k, 1) \o OnDay(k, 2) \o OnDay(s[1], 5) \o OnDay(s[2], 6) \o OnDay(s[3], 7) \o OnDay(s[4], 8) \o OnDay(s[4], 9) :
        k \in {<<Morning(1), Evening(1)>>, <<Morning(1), Bar(0, 10, 10, 4, 5, "none")>>},
        s \in [1..4 -> DayKinds]}

Variant(name, family, sl, rr) ==
    [name |-> name, family |-> family, sl |-> sl, rr |-> rr, adx |-> "off", cutoff |-> None,
     squareOff |-> None, fill |-> "level"]
MCVariants ==
    <<Variant("baseline", "baseline", 1, 2), Variant("sl 2", "sl", 2, 2), Variant("sl 3", "sl", 3, 2),
      Variant("rr 1", "rr", 2, 1), Variant("rr far", "exit", 4, 1),
      [Variant("adx gate", "adx", 1, 2) EXCEPT !.adx = "gate"],
      [Variant("adx setup", "adx", 1, 2) EXCEPT !.adx = "setup"],
      [Variant("paper", "realism", 1, 2) EXCEPT !.cutoff = 1, !.squareOff = 2],
      [Variant("paper gap", "realism", 1, 2) EXCEPT !.cutoff = 1, !.squareOff = 2, !.fill = "gap_aware"],
      [Variant("bar close", "realism", 1, 2) EXCEPT !.fill = "bar_close"]>>
MCFamilies ==
    <<<<"baseline", "sl 2", "sl 3">>, <<"rr 1", "baseline">>, <<"baseline", "rr far">>,
      <<"adx gate", "adx setup">>, <<"paper", "paper gap", "bar close">>>>

Rolling == [train |-> 1, test |-> 1, step |-> 1, anchored |-> FALSE, warmup |-> 0, exitCutoff |-> TRUE, minTrades |-> 1]
Anchored == [Rolling EXCEPT !.train = 2, !.anchored = TRUE]
MCDesigns == <<Rolling, Anchored>>

MCRequests ==
    {[start |-> 1, end |-> 9, overwrite |-> FALSE, partial |-> FALSE],
     [start |-> 5, end |-> 9, overwrite |-> TRUE, partial |-> TRUE],
     [start |-> 1, end |-> 2, overwrite |-> TRUE, partial |-> FALSE]}
MCLoads ==
    {[confirm |-> FALSE, allow |-> FALSE, source |-> dhan], [confirm |-> TRUE, allow |-> FALSE, source |-> dhan],
     [confirm |-> TRUE, allow |-> TRUE, source |-> dhan], [confirm |-> TRUE, allow |-> FALSE, source |-> copy]}
MCBudgets ==
    {[downloads |-> 2, loads |-> 1, kills |-> 0], [downloads |-> 1, loads |-> 2, kills |-> 0],
     [downloads |-> 1, loads |-> 1, kills |-> 1]}
MCDbRuns ==
    {[source |-> dhan, start |-> None, end |-> None, holdout |-> 9, designs |-> MCDesigns],
     [source |-> dhan, start |-> 10, end |-> 12, holdout |-> None, designs |-> <<>>],
     [source |-> dhan, start |-> None, end |-> 18, holdout |-> 9, designs |-> <<>>]}
MCPreregistered == <<"sl 3", "rr far">>

\* Bound: nothing happens after the report.
Explored == report = NoReport
===============================================================================
