----------------------------- MODULE LiveOrders -----------------------------
(***************************************************************************)
(* Real orders: the scanner run by hand with --live (fno_signals/main.py)  *)
(* through the signal pipeline, the manual trading endpoint of the         *)
(* dashboard, the reconciliation gate each of the two processes keeps, and *)
(* the broker's order book they share.                                     *)
(*                                                                         *)
(* A line is an underlying and a direction; every line has one contract. A *)
(* signal is a line and the candle it was generated from.  One scanner     *)
(* runs at a time: its consecutive database calls are one step, and it can *)
(* end between any two steps.                                              *)
(* A failing read of the order rows or of the risk counters is swallowed   *)
(* and finds nothing; the reads of the signals' states succeed.            *)
(***************************************************************************)
EXTENDS Integers, FiniteSets, FiniteSetsExt, Sequences

CONSTANTS
  Lines, Candles, Signals,  \* what the strategy may signal
  DayOf,       \* the trading day of a candle
  Expiry,      \* SIGNAL_EXPIRY_SECONDS, in candles
  Clis,        \* processes of the scanner
  Threads,     \* request threads of the dashboard
  Requests,    \* the lines and signed quantities asked for on the manual trading page
  Lot,         \* units in a lot
  MaxTrades, MaxPositions,  \* RiskLimits of the scanner
  MaxOrders, MaxRuns    \* bounds on the run

ASSUME LiveAssumption ==
  /\ Candles \subseteq Nat
  /\ Signals \subseteq Lines \X Candles
  /\ DayOf \in [Candles -> Nat]
  /\ {Expiry, MaxTrades, MaxPositions, MaxOrders, MaxRuns} \subseteq Nat
  /\ Lot \in Nat \ {0}
  /\ Requests \subseteq Lines \X {Lot, -Lot}
  /\ Clis \intersect Threads = {} /\ "db" \notin Clis

VARIABLES
  durable,   \* a database is configured
  signals,   \* what each store records of each signal
  orders,    \* the orders sent to the broker, and the row recorded of each
  cli,       \* the scanners
  saved,     \* the scanner's risk counters in the database
  work,      \* what each dashboard thread is doing
  gate,      \* the dashboard's reconciliation gate
  override,  \* it is overridden
  trusted,   \* since the dashboard started, a check agreed or a human overrode
  runs       \* runs of the scanner so far

vars == <<durable, signals, orders, cli, saved, work, gate, override, trusted, runs>>

-----------------------------------------------------------------------------
\* signal_state.py

Working == {"SIGNAL_VALIDATED", "RISK_CHECK", "OPTION_SELECTED", "ORDER_PENDING",
            "PARTIALLY_FILLED", "FILLED", "POSITION_OPEN"}
Ended == {"SIGNAL_REJECTED", "RISK_REJECTED", "OPTION_SELECTION_FAILED", "ORDER_REJECTED",
          "ORDER_FAILED", "RECONCILIATION_REQUIRED"}
States == {"none"} \union Working \union Ended

AllowedTransitions(state) ==
  (CASE state = "SIGNAL_VALIDATED" -> {"RISK_CHECK", "SIGNAL_REJECTED"}
     [] state = "RISK_CHECK" -> {"OPTION_SELECTED", "RISK_REJECTED", "OPTION_SELECTION_FAILED"}
     [] state = "OPTION_SELECTED" -> {"ORDER_PENDING", "ORDER_REJECTED"}
     [] state = "ORDER_PENDING" -> {"PARTIALLY_FILLED", "FILLED", "ORDER_REJECTED", "ORDER_FAILED"}
     [] state = "PARTIALLY_FILLED" -> {"FILLED", "PARTIALLY_FILLED", "ORDER_FAILED"}
     [] state = "FILLED" -> {"POSITION_OPEN"}
     [] OTHER -> {})
  \union (IF state \in Working THEN {"RECONCILIATION_REQUIRED"} ELSE {})

InFlightOrder == {"ORDER_PENDING", "PARTIALLY_FILLED", "FILLED", "POSITION_OPEN"}

Line(s) == s[1]
Candle(s) == s[2]

\* The scanner passes the candle's own time as the time it is evaluated at.
Now(s) == Candle(s)

-----------------------------------------------------------------------------
\* Orders, rows, positions

Unconfirmed == {"TIMEOUT", "UNKNOWN", "PARTIAL"}
Outcomes == {"SUCCESS", "FAILED", "CANCELLED"} \union Unconfirmed

Order == [by: Clis \union Threads, line: Lines, sig: Signals \union {<<>>}, qty: {Lot, -Lot},
          filled: 0..Lot, status: {"open", "executed", "failed", "cancelled", "void"},
          row: Outcomes \union {"none"}, counted: 0..Lot, run: 0..MaxRuns]

Sign(o) == IF o.qty > 0 THEN 1 ELSE -1
Sent == 1..Len(orders)

\* The rows there are, and what list_orders may return of them: an error of the
\* database is swallowed and leaves an empty list.
Rows(by) == {i \in Sent : durable /\ orders[i].row # "none" /\ orders[i].by \in by}
Listed(by) == {Rows(by), {}}

ExpectedPositions(rows) ==
  [l \in Lines |-> MapThenSumSet(LAMBDA i: Sign(orders[i]) * orders[i].counted,
       {i \in rows : orders[i].line = l /\ orders[i].row \in {"SUCCESS", "PARTIAL"}})]
UnconfirmedOrders(rows) == {i \in rows : orders[i].row \in Unconfirmed}
LivePositions ==
  [l \in Lines |-> MapThenSumSet(LAMBDA i: Sign(orders[i]) * orders[i].filled,
       {i \in Sent : orders[i].line = l})]

EvaluateQuietly(rows) == IF ExpectedPositions(rows) # LivePositions THEN "MISMATCH" ELSE "OK"

Mismatches(rows) == {l \in Lines : ExpectedPositions(rows)[l] # LivePositions[l]}

\* ReconciliationGate.evaluate
Evaluate(rows) ==
  IF Mismatches(rows) # {} THEN "MISMATCH"
  ELSE IF UnconfirmedOrders(rows) # {} THEN "UNCONFIRMED" ELSE "OK"
Checks == {"UNKNOWN", "OK", "MISMATCH", "UNCONFIRMED"}

\* A check of the rows that were read: the broker's positions may be unavailable.
ChecksOf(rows) == {Evaluate(rows), "UNKNOWN"}

\* What verify_order_status may return of an order: the outcome and the
\* quantity a row of it counts.  A fill whose quantity is missing from the
\* reply is taken for the quantity requested.
Verdicts(o) ==
  {<<"TIMEOUT", 0>>}
  \union (CASE o.status = "executed" ->
                 {<<"SUCCESS", Lot>>} \union (IF o.filled < Lot THEN {<<"PARTIAL", o.filled>>} ELSE {})
            [] o.status = "failed" -> {<<"FAILED", 0>>}
            [] o.status = "cancelled" -> {<<"CANCELLED", 0>>}
            [] OTHER -> {})

RecordedSigned(i, verdict) ==
  IF durable THEN [orders EXCEPT ![i].row = verdict[1], ![i].counted = Sign(orders[i]) * verdict[2]] ELSE orders

Recorded(i, verdict) ==
  IF durable THEN [orders EXCEPT ![i].row = verdict[1], ![i].counted = verdict[2]] ELSE orders

NewOrder(by, run, l, s, qty, status) ==
  [by |-> by, line |-> l, sig |-> s, qty |-> qty, filled |-> 0, status |-> status,
   row |-> "none", counted |-> 0, run |-> run]

\* A request that gets no usable answer may still have reached the broker.
Reached(o) == {Append(orders, o), orders}

-----------------------------------------------------------------------------
\* The signal service of a scanner

StoredHere(p, s) == signals[p][s]

Stored(p, s) == IF durable /\ signals["db"][s] # "none" THEN signals["db"][s] ELSE signals[p][s]
Put(p, s, state) ==
  [store \in DOMAIN signals |->
     IF store = p \/ (store = "db" /\ durable)
       THEN [signals[store] EXCEPT ![s] = state] ELSE signals[store]]

DuplicateOfThisRun(p, s) ==
  {other \in Signals : Line(other) = Line(s) /\ signals[p][other] \in InFlightOrder} # {}

OpenSignals(store, l) == {s \in Signals : Line(s) = l /\ signals[store][s] \in InFlightOrder}
DuplicateOrder(p, s) ==
  \/ durable /\ OpenSignals("db", Line(s)) # {}
  \/ OpenSignals(p, Line(s)) # {}

Off == [at |-> "off", sig |-> <<>>, order |-> 0, got |-> "none",
        gate |-> "UNKNOWN", blind |-> FALSE, trades |-> 0, day |-> 0, run |-> 0]

At(p, point) == cli[p].at = point

Idle(c) == [c EXCEPT !.at = "idle", !.sig = <<>>, !.order = 0, !.got = "none"]

\* The process ends, and its memory with it.
End(p) ==
  /\ cli' = [cli EXCEPT ![p] = Off]
  /\ signals' = [signals EXCEPT ![p] = [s \in Signals |-> "none"]]

\* advance(), once per state of the path after the first: an illegal
\* transition raises, nothing catches it and the scanner ends.
Legal(path) == \A k \in 1..(Len(path) - 1) : path[k + 1] \in AllowedTransitions(path[k])
Advance(p, c, path, next) ==
  IF Legal(path)
    THEN /\ cli' = [cli EXCEPT ![p] = IF next = "idle" THEN Idle(c) ELSE [c EXCEPT !.at = next]]
         /\ signals' = Put(p, c.sig, path[Len(path)])
    ELSE End(p)
Move(p, path, next) == Advance(p, cli[p], <<Stored(p, cli[p].sig)>> \o path, next)

-----------------------------------------------------------------------------
\* A run of the scanner

\* The risk counters of the earlier runs, unless reading them fails too ...
Restored(c) == {c, [c EXCEPT !.trades = saved.trades, !.day = saved.day]}

\* ... and the one reconciliation check of the run, against the rows of the scanner
\* only.  A history field: a run is blind when that opened the gate without the rows.
Start(p) ==
  /\ \A q \in Clis : At(q, "off")
  /\ runs < MaxRuns
  /\ runs' = runs + 1
  /\ \E c \in Restored([Off EXCEPT !.at = "idle", !.run = runs + 1]), rows \in Listed(Clis) :
       \E check \in ChecksOf(rows) :
         cli' = [cli EXCEPT ![p] = [c EXCEPT !.gate = check, !.blind = (check = "OK" /\ rows # Rows(Clis))]]
  /\ UNCHANGED <<durable, signals, orders, saved, work, gate, override, trusted>>

\* The process ends: told to, killed, or on an exception nothing catches.
Stop(p) ==
  /\ cli[p].at # "off"
  /\ End(p)
  /\ UNCHANGED <<durable, orders, saved, work, gate, override, trusted, runs>>

\* SignalService.ingest of a signal not recorded yet; a scan's own signals
\* are well formed.
Outcome(s) == IF Now(s) > Candle(s) + Expiry THEN "SIGNAL_EXPIRED" ELSE "ACCEPTED"

\* An entry on a closed candle of the scan's window, then ingest() and the
\* first advance().
Ingest(p) ==
  /\ At(p, "idle")
  /\ \E s \in Signals :
       /\ Stored(p, s) = "none"
       /\ LET c == [cli[p] EXCEPT !.sig = s]
          IN IF Outcome(s) = "SIGNAL_EXPIRED"
               THEN Advance(p, c, <<"SIGNAL_REJECTED">>, "idle")
               ELSE Advance(p, c, <<"SIGNAL_VALIDATED", "RISK_CHECK">>, "gates")
  /\ UNCHANGED <<durable, orders, saved, work, gate, override, trusted, runs>>

\* RiskManager.check of a BUY, at the candle's time: the day's counters
\* start again whenever the candle's day is not the day they count.
Rolled(c) == IF c.day # DayOf[Candle(c.sig)]
               THEN [c EXCEPT !.day = DayOf[Candle(c.sig)], !.trades = 0] ELSE c
OpenPositions(rows) == Cardinality({l \in Lines : ExpectedPositions(rows)[l] # 0})
RiskAllows(c, rows) == c.trades < MaxTrades /\ OpenPositions(rows) < MaxPositions

IsBlockingWhenSure(check, overridden) == check \in {"MISMATCH", "UNCONFIRMED"} /\ ~overridden

IsBlocking(check, overridden) == check # "OK" /\ ~overridden

Gates(p) ==
  LET c == cli[p]
      stopped == IsBlocking(c.gate, FALSE) \/ DuplicateOrder(p, c.sig)
      checked == IF stopped THEN c ELSE Rolled(c)
  IN /\ At(p, "gates")
     /\ \E rows \in Listed(Clis) :
          IF stopped \/ ~RiskAllows(checked, rows)
            THEN Advance(p, checked, <<Stored(p, c.sig), "RISK_REJECTED">>, "idle")
            ELSE /\ cli' = [cli EXCEPT ![p] = [checked EXCEPT !.at = "resolve"]]
                 /\ UNCHANGED signals
     /\ UNCHANGED <<durable, orders, saved, work, gate, override, trusted, runs>>

Resolve(p) ==
  /\ At(p, "resolve")
  /\ \/ Move(p, <<"OPTION_SELECTED">>, "confirm")
     \/ Move(p, <<"OPTION_SELECTION_FAILED">>, "idle")
  /\ UNCHANGED <<durable, orders, saved, work, gate, override, trusted, runs>>

Confirm(p) ==
  /\ At(p, "confirm")
  /\ \/ Move(p, <<"ORDER_PENDING">>, "place")
     \/ Move(p, <<"ORDER_REJECTED">>, "idle")
  /\ UNCHANGED <<durable, orders, saved, work, gate, override, trusted, runs>>

\* execute_market_order: an order id, or an error or a reply without one.
Place(p) ==
  LET s == cli[p].sig
      o == NewOrder(p, cli[p].run, Line(s), s, Lot, "open")
  IN /\ At(p, "place") /\ Len(orders) < MaxOrders
     /\ \/ /\ orders' = Append(orders, o)
           /\ cli' = [cli EXCEPT ![p].at = "verify", ![p].order = Len(orders) + 1]
           /\ UNCHANGED signals
        \/ /\ orders' \in Reached(o)
           /\ Move(p, <<"ORDER_FAILED">>, "idle")
     /\ UNCHANGED <<durable, saved, work, gate, override, trusted, runs>>

\* verify_order_status, then the one row the order ever gets.
Verify(p) ==
  /\ At(p, "verify")
  /\ \E verdict \in Verdicts(orders[cli[p].order]) :
       /\ orders' = Recorded(cli[p].order, verdict)
       /\ cli' = [cli EXCEPT ![p].at = "settle", ![p].got = verdict[1]]
  /\ UNCHANGED <<durable, signals, saved, work, gate, override, trusted, runs>>

PathHoped(outcome) ==
  CASE outcome \in {"SUCCESS", "TIMEOUT"} -> <<"FILLED", "POSITION_OPEN">>
    [] outcome = "PARTIAL" -> <<"PARTIALLY_FILLED">>
    [] outcome = "FAILED" -> <<"ORDER_FAILED">>
    [] OTHER -> <<"ORDER_REJECTED">>

Path(outcome) ==
  CASE outcome = "SUCCESS" -> <<"FILLED", "POSITION_OPEN">>
    [] outcome = "PARTIAL" -> <<"PARTIALLY_FILLED">>
    [] outcome = "FAILED" -> <<"ORDER_FAILED">>
    [] outcome = "CANCELLED" -> <<"ORDER_REJECTED">>
    [] OTHER -> <<"RECONCILIATION_REQUIRED">>
Settle(p) ==
  /\ At(p, "settle")
  /\ Move(p, Path(cli[p].got), IF cli[p].got \in {"SUCCESS", "PARTIAL"} THEN "count" ELSE "idle")
  /\ UNCHANGED <<durable, orders, saved, work, gate, override, trusted, runs>>

\* RiskManager.record_trade and record_risk_snapshot.
Count(p) ==
  LET c == [Rolled(cli[p]) EXCEPT !.trades = @ + 1]
  IN /\ At(p, "count")
     /\ cli' = [cli EXCEPT ![p] = Idle(c)]
     /\ saved' = IF durable THEN [trades |-> c.trades, day |-> c.day] ELSE saved
     /\ UNCHANGED <<durable, signals, orders, work, gate, override, trusted, runs>>

-----------------------------------------------------------------------------
\* The dashboard

Resting == [at |-> "rest", order |-> FALSE, seen |-> {}, sent |-> 0]
Thread(t, point) == work[t].at = point

\* Any reconciliation request, and an order's own check: the rows first ...
Ask(t) ==
  /\ Thread(t, "rest")
  /\ \E order \in BOOLEAN, rows \in Listed(Clis \union Threads) :
       work' = [work EXCEPT ![t] = [Resting EXCEPT !.at = "rows", !.order = order, !.seen = rows]]
  /\ UNCHANGED <<durable, signals, orders, cli, saved, gate, override, trusted, runs>>

\* ... then the broker's positions, which may be unavailable.  The threads
\* share one gate.
Checked(check) ==
  /\ gate' = check
  /\ override' = (override /\ check # "OK")
  /\ trusted' = (trusted \/ check = "OK")
Compare(t) ==
  /\ Thread(t, "rows")
  /\ \E check \in ChecksOf(work[t].seen) : Checked(check)
  /\ work' = [work EXCEPT ![t] = IF @.order THEN [@ EXCEPT !.at = "decide", !.seen = {}] ELSE Resting]
  /\ UNCHANGED <<durable, signals, orders, cli, saved, runs>>

\* Blocked by the gate, or refused by the checks of the request and of the
\* contract.
Decide(t) ==
  /\ Thread(t, "decide")
  /\ \/ /\ ~IsBlocking(gate, override)
        /\ work' = [work EXCEPT ![t].at = "place"]
     \/ work' = [work EXCEPT ![t] = Resting]
  /\ UNCHANGED <<durable, signals, orders, cli, saved, gate, override, trusted, runs>>

\* A reply without an id leaves a row of outcome UNKNOWN; an error, none.
PlaceManual(t) ==
  /\ Thread(t, "place") /\ Len(orders) < MaxOrders
  /\ \E request \in Requests, status \in {"open", "void"} :
       LET o == NewOrder(t, 0, request[1], <<>>, request[2], status)
       IN \/ /\ status = "open"
             /\ orders' = Append(orders, o)
             /\ work' = [work EXCEPT ![t] = [Resting EXCEPT !.at = "verify", !.sent = Len(orders) + 1]]
          \/ /\ orders' = Append(orders, IF durable THEN [o EXCEPT !.row = "UNKNOWN"] ELSE o)
             /\ work' = [work EXCEPT ![t] = Resting]
          \/ /\ status = "open"
             /\ orders' \in Reached(o)
             /\ work' = [work EXCEPT ![t] = Resting]
  /\ UNCHANGED <<durable, signals, cli, saved, gate, override, trusted, runs>>

\* A session lost during verification ends the request without a row.
VerifyManual(t) ==
  /\ Thread(t, "verify")
  /\ orders' \in {Recorded(work[t].sent, v) : v \in Verdicts(orders[work[t].sent])} \union {orders}
  /\ work' = [work EXCEPT ![t] = Resting]
  /\ UNCHANGED <<durable, signals, cli, saved, gate, override, trusted, runs>>

Override ==
  /\ ~override
  /\ override' = TRUE /\ trusted' = TRUE
  /\ UNCHANGED <<durable, signals, orders, cli, saved, work, gate, runs>>

\* Cleared, or the hour is over.
EndOverride ==
  /\ override
  /\ override' = FALSE
  /\ UNCHANGED <<durable, signals, orders, cli, saved, work, gate, trusted, runs>>

\* A crash or a restart of the dashboard: the requests are lost, and the check
\* made before it serves is the gate's first.
Restart ==
  /\ work' = [t \in Threads |-> Resting]
  /\ \E rows \in Listed(Clis \union Threads) :
       \E check \in ChecksOf(rows) : gate' = check /\ trusted' = (check = "OK")
  /\ override' = FALSE
  /\ UNCHANGED <<durable, signals, orders, cli, saved, runs>>

-----------------------------------------------------------------------------
\* The broker

Finish(i) ==
  /\ orders[i].status = "open"
  /\ \/ \E n \in 1..Lot : orders' = [orders EXCEPT ![i].status = "executed", ![i].filled = n]
     \/ \E n \in 0..(Lot - 1) : orders' = [orders EXCEPT ![i].status = "cancelled", ![i].filled = n]
     \/ orders' = [orders EXCEPT ![i].status = "failed"]
  /\ UNCHANGED <<durable, signals, cli, saved, work, gate, override, trusted, runs>>

-----------------------------------------------------------------------------
Init ==
  /\ durable \in BOOLEAN
  /\ signals = [store \in Clis \union {"db"} |-> [s \in Signals |-> "none"]]
  /\ orders = <<>>
  /\ cli = [p \in Clis |-> Off]
  /\ saved = [trades |-> 0, day |-> 0]
  /\ work = [t \in Threads |-> Resting]
  /\ gate = "UNKNOWN"
  /\ trusted = FALSE
  /\ override = FALSE
  /\ runs = 0

Scanner(p) == Start(p) \/ Stop(p) \/ Ingest(p) \/ Gates(p)
              \/ Resolve(p) \/ Confirm(p) \/ Place(p) \/ Verify(p) \/ Settle(p) \/ Count(p)
Request(t) == Ask(t) \/ Compare(t) \/ Decide(t) \/ PlaceManual(t) \/ VerifyManual(t)

Next == \/ \E p \in Clis : Scanner(p)
        \/ \E t \in Threads : Request(t)
        \/ \E i \in Sent : Finish(i)
        \/ Override \/ EndOverride \/ Restart

Spec == Init /\ [][Next]_vars

-----------------------------------------------------------------------------
\* Properties

TypeOK ==
  /\ {durable, override, trusted} \subseteq BOOLEAN
  /\ signals \in [Clis \union {"db"} -> [Signals -> States]]
  /\ \A i \in Sent : orders[i] \in Order
  /\ \A p \in Clis : /\ cli[p].sig \in Signals \union {<<>>}
                     /\ cli[p].gate \in Checks
                     /\ cli[p].order \in Sent \union {0}
                     /\ {cli[p].trades, cli[p].day, cli[p].run} \subseteq Nat
                     /\ cli[p].blind \in BOOLEAN
  /\ saved \in [trades: Nat, day: Nat]
  /\ \A t \in Threads : work[t].seen \subseteq Sent /\ work[t].sent \in Sent \union {0}
  /\ gate \in Checks
  /\ runs \in 0..MaxRuns

Sends == Len(orders') > Len(orders)
New == orders'[Len(orders')]

\* build_signal_id, ingest: however often a candle is scanned again, and
\* with a database (whose signal states can be read) whatever end the earlier
\* runs came to, the scanner sends at most one order for a signal.
OneOrderPerSignal ==
  \A i, j \in Sent : i # j /\ orders[i].sig = orders[j].sig /\ orders[i].sig # <<>> =>
    ~durable /\ orders[i].run # orders[j].run

\* check_duplicate_order: no two signals of one line are being worked, also
\* when the run that worked the first has died.
OneInFlight ==
  durable => \A l \in Lines : Cardinality(OpenSignals("db", l)) <= 1

\* verify_order_status: a signal becomes a position only by an order of its
\* own that the broker executed.
FilledIsReal ==
  \A store \in DOMAIN signals, s \in Signals :
    signals[store][s] \in {"PARTIALLY_FILLED", "FILLED", "POSITION_OPEN"} =>
      \E i \in Sent : orders[i].sig = s /\ orders[i].filled > 0

\* "Only after successful reconciliation should new orders be permitted"
\* (reconciliation_gate.py:35-36): a run of the scanner whose startup check did not
\* miss the rows sends no order while the row of an earlier run's order says that its
\* fate is not known.  An order whose run ended before it got a row is not meant: only
\* its fill, if the broker had made it when the next run started, stops that run.
UnresolvedBlocksNextRun ==
  [][Sends /\ New.by \in Clis /\ ~cli[New.by].blind =>
       \A i \in UnconfirmedOrders(Rows(Clis)) : orders[i].run >= New.run]_vars

\* "The gate fails closed (blocking) until this succeeds - if it can't even be
\* attempted ..., it stays blocked rather than assuming things are fine"
\* (fno_signals/main.py:469-471): the same of every run, also when the read failed.
\* The code does not keep it: a swallowed error leaves no rows, and they agree with
\* no positions.
GateFailsClosed ==
  [][Sends /\ New.by \in Clis =>
       \A i \in UnconfirmedOrders(Rows(Clis)) : orders[i].run >= New.run]_vars

\* ReconciliationGate "fails closed": a manual order is sent only when, since
\* the dashboard started, a check has agreed or a human has overridden it.
ManualFailsClosed ==
  [][Sends /\ New.by \in Threads => trusted]_vars

\* "A signal arriving for evaluation after this window has passed is
\* rejected, never executed on stale data" (fno_signals/main.py:32-36): no
\* order for a candle when a later one, past the expiry, was seen closed.
NeverOnStaleData ==
  [][Sends /\ New.by \in Clis =>
       \A s \in Signals : Stored(New.by, s) # "none" => Candle(s) <= Candle(New.sig) + Expiry]_vars
=============================================================================
