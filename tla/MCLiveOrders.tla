---------------------------- MODULE MCLiveOrders ----------------------------
EXTENDS LiveOrders, TLC

CONSTANTS call, put, p1, t1

AllSignals == {<<call, 1>>, <<call, 2>>}
OtherLine == {<<call, 2>>, <<put, 1>>}
Manual == {<<call, -Lot>>}
OwnDays == [c \in Candles |-> c]

\* Bound: the scanner's second run and second signal are explored while the
\* dashboard has not been used, and the dashboard next to one run and the first
\* signal, with a database; an override, between runs.
Known(store) == {s \in Signals : signals[store][s] # "none"}
Explored ==
  \/ gate = "UNKNOWN" /\ ~override /\ \A t \in Threads : work[t] = Resting
  \/ /\ runs <= IF durable THEN 1 ELSE 0
     /\ \A store \in DOMAIN signals : Known(store) \subseteq {<<call, 1>>}
     /\ override => \A p \in Clis : cli[p].at = "off"
=============================================================================
