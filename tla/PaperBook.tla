----------------------------- MODULE PaperBook -----------------------------
(***************************************************************************)
(* What paper Auto Trading promises, without threads, locks, clocks inside *)
(* a day, market data or a database: a book of positions in which          *)
(*   - at most MaxOpenPositions indices hold one at a time,                *)
(*   - at most MaxTradesPerDay of them are opened on a day,                *)
(*   - a strategy event, known by its bar, is acted on at most once,       *)
(*   - an index squared off on a day is not entered again on that day.     *)
(* PaperEngine implements it.                                              *)
(***************************************************************************)
EXTENDS Integers, FiniteSets

CONSTANTS Indices, MaxOpenPositions, MaxTradesPerDay, Bars, NoBar

VARIABLES
  held,      \* indices with an open position
  acted,     \* per index: the bar of the latest event acted on, or NoBar
  squared,   \* per index: the last day of a forced square-off, or NoBar
  entries,   \* positions opened on this day
  day

vars == <<held, acted, squared, entries, day>>

Init ==
  /\ held = {}
  /\ acted = [i \in Indices |-> NoBar]
  /\ squared = [i \in Indices |-> NoBar]
  /\ entries = 0
  /\ day = 0

Open(i, b) ==
  /\ i \notin held
  /\ Cardinality(held) < MaxOpenPositions
  /\ entries < MaxTradesPerDay
  /\ b > acted[i]
  /\ squared[i] # day
  /\ held' = held \cup {i}
  /\ acted' = [acted EXCEPT ![i] = b]
  /\ entries' = entries + 1
  /\ UNCHANGED <<squared, day>>

\* An exit acts on a later bar than the entry, or on the same one when the
\* square-off finds no newer data.  A partial exit leaves the index held.
Close(i, b) ==
  /\ i \in held
  /\ b >= acted[i]
  /\ held' \in {held, held \ {i}}
  /\ acted' = [acted EXCEPT ![i] = b]
  /\ squared' \in {squared, [squared EXCEPT ![i] = day]}
  /\ UNCHANGED <<entries, day>>

\* A stale event of a flat index is dismissed unseen.
Expire(i, b) ==
  /\ i \notin held
  /\ b > acted[i]
  /\ acted' = [acted EXCEPT ![i] = b]
  /\ UNCHANGED <<held, squared, entries, day>>

NewDay ==
  /\ day' = day + 1
  /\ entries' = 0
  /\ UNCHANGED <<held, acted, squared>>

Next ==
  \/ \E i \in Indices, b \in Bars : Open(i, b) \/ Close(i, b) \/ Expire(i, b)
  \/ NewDay

Spec == Init /\ [][Next]_vars
=============================================================================
