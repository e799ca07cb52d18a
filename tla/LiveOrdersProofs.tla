-------------------------- MODULE LiveOrdersProofs --------------------------
(***************************************************************************)
(* Proofs about LiveOrders, for all sets of lines, candles, signals,       *)
(* scanners and threads, all limits and any number of runs and orders.     *)
(***************************************************************************)
EXTENDS LiveOrders, FiniteSetTheorems, TLAPS

Points == {"off", "idle", "gates", "resolve", "confirm", "place", "verify", "settle", "count"}
Run == [at: Points, sig: Signals \union {<<>>}, order: Nat, got: Outcomes \union {"none"},
        gate: Checks, blind: BOOLEAN, trades: Nat, day: Nat, run: Nat]
Job == [at: {"rest", "rows", "decide", "place", "verify"}, order: BOOLEAN, seen: SUBSET Nat, sent: Nat]
Stores == Clis \union {"db"}

Typed ==
  /\ durable \in BOOLEAN
  /\ signals \in [Stores -> [Signals -> States]]
  /\ orders \in Seq(Order)
  /\ cli \in [Clis -> Run]
  /\ saved \in [trades: Nat, day: Nat]
  /\ work \in [Threads -> Job]
  /\ gate \in Checks
  /\ override \in BOOLEAN
  /\ trusted \in BOOLEAN
  /\ runs \in 0..MaxRuns

-----------------------------------------------------------------------------
\* What the parts of a step do, point by point.

\* The scanner p moves its signal s to a state and goes on at a point.
Moved(p, s, state, next) ==
  /\ cli' \in [Clis -> Run]
  /\ \A q \in Clis \ {p} : cli'[q] = cli[q]
  /\ cli'[p].at = next /\ cli'[p].run = cli[p].run
  /\ cli'[p].gate = cli[p].gate /\ cli'[p].blind = cli[p].blind
  /\ next # "idle" => cli'[p].sig = s /\ cli'[p].order = cli[p].order
  /\ next = "idle" => cli'[p].order = 0
  /\ signals' \in [Stores -> [Signals -> States]]
  /\ \A store \in Stores, r \in Signals :
       signals'[store][r] = IF r = s /\ (store = p \/ (store = "db" /\ durable))
                              THEN state ELSE signals[store][r]

\* The scanner p goes on at a point with its signal as it was.
Went(p, next) ==
  /\ cli' \in [Clis -> Run]
  /\ \A q \in Clis \ {p} : cli'[q] = cli[q]
  /\ cli'[p].at = next /\ cli'[p].run = cli[p].run
  /\ cli'[p].gate = cli[p].gate /\ cli'[p].blind = cli[p].blind
  /\ signals' = signals

\* The scanner p has ended.
Gone(p) ==
  /\ cli' \in [Clis -> Run]
  /\ \A q \in Clis \ {p} : cli'[q] = cli[q]
  /\ cli'[p].at = "off" /\ cli'[p].order = 0
  /\ signals' \in [Stores -> [Signals -> States]]
  /\ \A store \in Stores \ {p} : signals'[store] = signals[store]
  /\ \A s \in Signals : signals'[p][s] = "none"

LEMMA OffTyped == Off \in Run
  BY DEF Off, Run, Points, Outcomes, Checks

LEMMA Constants ==
  /\ "db" \notin Clis
  /\ \A p \in Clis : p \notin Threads
  /\ Lot \in Nat \ {0}
  /\ MaxRuns \in Nat
  /\ \A s \in Signals : Line(s) \in Lines /\ DayOf[Candle(s)] \in Nat
  BY LiveAssumption DEF LiveAssumption, Line, Candle

LEMMA NotASignal == <<>> \notin Signals
  BY LiveAssumption DEF LiveAssumption

LEMMA EndStep ==
  ASSUME Typed, NEW p \in Clis, End(p)
  PROVE Gone(p)
<1>1. [s \in Signals |-> "none"] \in [Signals -> States]
  BY DEF States
<1>2. cli' \in [Clis -> Run]
  BY OffTyped DEF Typed, End
<1>3. cli'[p] = Off
  BY DEF Typed, End
<1>4. signals' \in [Stores -> [Signals -> States]]
  BY <1>1 DEF Typed, End
<1>5. \A store \in Stores \ {p} : signals'[store] = signals[store]
  BY DEF Typed, End
<1>6. \A q \in Clis \ {p} : cli'[q] = cli[q]
  BY DEF Typed, End
<1>7. \A s \in Signals : signals'[p][s] = "none"
  BY DEF Typed, End, Stores
<1> QED
  BY <1>2, <1>3, <1>4, <1>5, <1>6, <1>7 DEF Gone, Off

LEMMA PutStep ==
  ASSUME Typed, NEW p \in Clis, NEW s \in Signals, NEW state \in States
  PROVE  /\ Put(p, s, state) \in [Stores -> [Signals -> States]]
         /\ \A store \in Stores, r \in Signals :
              Put(p, s, state)[store][r] = IF r = s /\ (store = p \/ (store = "db" /\ durable))
                                             THEN state ELSE signals[store][r]
<1>1. DOMAIN signals = Stores
  BY DEF Typed
<1>2. \A store \in Stores : signals[store] \in [Signals -> States]
  BY DEF Typed
<1>3. \A store \in Stores : [signals[store] EXCEPT ![s] = state] \in [Signals -> States]
  BY <1>2
<1> QED
  BY <1>1, <1>2, <1>3 DEF Put

\* advance() with a record of the scanner's.
LEMMA AdvanceStep ==
  ASSUME Typed, NEW p \in Clis, NEW c \in Run, c.sig \in Signals,
         c.run = cli[p].run, c.gate = cli[p].gate, c.blind = cli[p].blind, c.order = cli[p].order,
         NEW path \in Seq(States), Len(path) > 0, NEW next \in Points \ {"off"},
         Advance(p, c, path, next)
  PROVE  Gone(p) \/ Moved(p, c.sig, path[Len(path)], next)
<1>1. CASE ~Legal(path)
  BY <1>1, EndStep DEF Advance
<1>2. CASE Legal(path)
  <2> DEFINE state == path[Len(path)]
             d == IF next = "idle" THEN Idle(c) ELSE [c EXCEPT !.at = next]
  <2>1. state \in States
    OBVIOUS
  <2>2. cli' = [cli EXCEPT ![p] = d] /\ signals' = Put(p, c.sig, state)
    BY <1>2 DEF Advance
  <2>3. /\ Idle(c) \in Run /\ Idle(c).at = "idle" /\ Idle(c).run = c.run
        /\ Idle(c).gate = c.gate /\ Idle(c).blind = c.blind /\ Idle(c).order = 0
    BY DEF Idle, Run, Points, Outcomes
  <2>4. [c EXCEPT !.at = next] \in Run /\ [c EXCEPT !.at = next].at = next
    BY DEF Run
  <2>5. /\ [c EXCEPT !.at = next].run = c.run /\ [c EXCEPT !.at = next].gate = c.gate
        /\ [c EXCEPT !.at = next].blind = c.blind
        /\ [c EXCEPT !.at = next].sig = c.sig /\ [c EXCEPT !.at = next].order = c.order
    BY DEF Run
  <2>6. /\ d \in Run /\ d.at = next /\ d.run = c.run /\ d.gate = c.gate /\ d.blind = c.blind
        /\ next = "idle" => d.order = 0
        /\ next # "idle" => d.sig = c.sig /\ d.order = c.order
    BY <2>3, <2>4, <2>5
  <2> HIDE DEF d, state
  <2>7. cli' \in [Clis -> Run] /\ cli'[p] = d /\ \A q \in Clis \ {p} : cli'[q] = cli[q]
    BY <2>2, <2>6 DEF Typed
  <2>8. /\ signals' \in [Stores -> [Signals -> States]]
        /\ \A store \in Stores, r \in Signals :
             signals'[store][r] = IF r = c.sig /\ (store = p \/ (store = "db" /\ durable))
                                    THEN state ELSE signals[store][r]
    BY <2>1, <2>2, PutStep
  <2>9. Moved(p, c.sig, state, next)
    BY <2>6, <2>7, <2>8 DEF Moved
  <2> QED
    BY <2>9 DEF state
<1> QED
  BY <1>1, <1>2

-----------------------------------------------------------------------------
\* The scanner's actions.

\* What every invariant needs of the scanners: one runs at a time, it is the
\* latest run, and it has a signal from ingest() to the end of its order.
Busy(p) == cli[p].at \notin {"off", "idle"}
Solo ==
  /\ \A p, q \in Clis : ~At(p, "off") /\ ~At(q, "off") => p = q
  /\ \A p \in Clis : ~At(p, "off") => cli[p].run = runs
  /\ \A p \in Clis : Busy(p) => cli[p].sig \in Signals

LEMMA StoredTyped ==
  ASSUME Typed, NEW p \in Clis, NEW s \in Signals
  PROVE  Stored(p, s) \in States
BY DEF Typed, Stored, Stores

LEMMA MoveStep ==
  ASSUME Typed, Solo, NEW p \in Clis, Busy(p), NEW path \in Seq(States), Len(path) > 0,
         NEW next \in Points \ {"off"}, Move(p, path, next)
  PROVE  Gone(p) \/ Moved(p, cli[p].sig, path[Len(path)], next)
<1> DEFINE c == cli[p]
           whole == <<Stored(p, c.sig)>> \o path
<1>1. c \in Run /\ c.sig \in Signals
  BY DEF Typed, Solo
<1>2. <<Stored(p, c.sig)>> \in Seq(States)
  BY <1>1, StoredTyped
<1>3. whole \in Seq(States) /\ Len(whole) = Len(path) + 1 /\ whole[Len(whole)] = path[Len(path)]
  BY <1>2
<1>4. Advance(p, c, whole, next)
  BY DEF Move
<1> HIDE DEF c, whole
<1>5. c.run = cli[p].run /\ c.gate = cli[p].gate /\ c.blind = cli[p].blind /\ c.order = cli[p].order
  BY DEF c
<1>6. Len(whole) > 0
  BY <1>3
<1>7. Gone(p) \/ Moved(p, c.sig, whole[Len(whole)], next)
  BY <1>1, <1>3, <1>4, <1>5, <1>6, AdvanceStep
<1> QED
  BY <1>3, <1>7 DEF c

LEMMA RolledTyped ==
  ASSUME NEW c \in Run, c.sig \in Signals
  PROVE  /\ Rolled(c) \in Run
         /\ \A x \in {c, Rolled(c)} : x.sig = c.sig /\ x.run = c.run /\ x.gate = c.gate /\ x.blind = c.blind
                                     /\ x.order = c.order /\ x.got = c.got
BY Constants DEF Rolled, Run

LEMMA IngestStep ==
  ASSUME Typed, NEW p \in Clis, Ingest(p)
  PROVE  \/ Gone(p)
         \/ \E s \in Signals :
              /\ Stored(p, s) = "none"
              /\ \/ Moved(p, s, "SIGNAL_REJECTED", "idle")
                 \/ Moved(p, s, "RISK_CHECK", "gates")
<1>1. PICK s \in Signals :
        /\ Stored(p, s) = "none"
        /\ \/ Advance(p, [cli[p] EXCEPT !.sig = s], <<"SIGNAL_REJECTED">>, "idle")
           \/ Advance(p, [cli[p] EXCEPT !.sig = s], <<"SIGNAL_VALIDATED", "RISK_CHECK">>, "gates")
  BY DEF Ingest
<1> DEFINE c == [cli[p] EXCEPT !.sig = s]
<1>2. cli[p] \in Run
  BY DEF Typed
<1>3. c \in Run
  BY <1>2 DEF Run
<1>4. c.sig = s /\ c.run = cli[p].run /\ c.gate = cli[p].gate /\ c.blind = cli[p].blind /\ c.order = cli[p].order
  BY <1>2 DEF Run
<1> DEFINE short == <<"SIGNAL_REJECTED">>
           long == <<"SIGNAL_VALIDATED", "RISK_CHECK">>
<1>5. short \in Seq(States) /\ Len(short) > 0 /\ short[Len(short)] = "SIGNAL_REJECTED"
  BY DEF States, Ended
<1>6. long \in Seq(States) /\ Len(long) > 0 /\ long[Len(long)] = "RISK_CHECK"
  BY DEF States, Working
<1>7. {"idle", "gates"} \subseteq Points \ {"off"}
  BY DEF Points
<1>8. Advance(p, c, short, "idle") \/ Advance(p, c, long, "gates")
  BY <1>1
<1> HIDE DEF c, short, long
<1>9. Gone(p) \/ Moved(p, c.sig, "SIGNAL_REJECTED", "idle") \/ Moved(p, c.sig, "RISK_CHECK", "gates")
  <2>1. CASE Advance(p, c, short, "idle")
    <3>1. Gone(p) \/ Moved(p, c.sig, short[Len(short)], "idle")
      BY <2>1, <1>3, <1>4, <1>5, <1>7, AdvanceStep
    <3> QED
      BY <3>1, <1>5
  <2>2. CASE Advance(p, c, long, "gates")
    <3>1. Gone(p) \/ Moved(p, c.sig, long[Len(long)], "gates")
      BY <2>2, <1>3, <1>4, <1>6, <1>7, AdvanceStep
    <3> QED
      BY <3>1, <1>6
  <2> QED
    BY <1>8, <2>1, <2>2
<1> QED
  BY <1>1, <1>4, <1>9

\* A signal that passes the gates meets no duplicate, and a gate that agrees.
LEMMA GatesStep ==
  ASSUME Typed, Solo, NEW p \in Clis, Gates(p)
  PROVE  \/ Gone(p)
         \/ Moved(p, cli[p].sig, "RISK_REJECTED", "idle")
         \/ /\ Went(p, "resolve")
            /\ cli'[p].sig = cli[p].sig /\ cli'[p].order = cli[p].order
            /\ signals' = signals
            /\ cli[p].gate = "OK"
            /\ ~DuplicateOrder(p, cli[p].sig)
<1> DEFINE c == cli[p]
           stopped == IsBlocking(c.gate, FALSE) \/ DuplicateOrder(p, c.sig)
           checked == IF stopped THEN c ELSE Rolled(c)
           path == <<Stored(p, c.sig), "RISK_REJECTED">>
<1>1. c \in Run /\ c.sig \in Signals
  BY DEF Typed, Solo, Gates, At, Busy
<1>2. checked \in Run /\ checked.sig = c.sig /\ checked.run = c.run
      /\ checked.gate = c.gate /\ checked.blind = c.blind /\ checked.order = c.order
  BY <1>1, RolledTyped
<1>3. path \in Seq(States) /\ Len(path) = 2 /\ path[2] = "RISK_REJECTED"
  BY <1>1, StoredTyped DEF States, Ended
<1>4. \/ Advance(p, checked, path, "idle")
      \/ /\ ~stopped
         /\ cli' = [cli EXCEPT ![p] = [checked EXCEPT !.at = "resolve"]]
         /\ signals' = signals
  BY DEF Gates
<1>5. ~stopped => c.gate = "OK" /\ ~DuplicateOrder(p, c.sig)
  BY DEF IsBlocking
<1> HIDE DEF checked, path, stopped
<1>6. CASE Advance(p, checked, path, "idle")
  <2>1. "idle" \in Points \ {"off"}
    BY DEF Points
  <2>3. checked.sig \in Signals /\ Len(path) > 0
    BY <1>1, <1>2, <1>3
  <2>2. Gone(p) \/ Moved(p, checked.sig, path[Len(path)], "idle")
    BY <1>2, <1>3, <1>6, <2>1, <2>3, AdvanceStep
  <2> QED
    BY <2>2, <1>2, <1>3
<1>7. CASE /\ ~stopped
           /\ cli' = [cli EXCEPT ![p] = [checked EXCEPT !.at = "resolve"]]
           /\ signals' = signals
  <2> DEFINE d == [checked EXCEPT !.at = "resolve"]
  <2>1. d \in Run /\ d.at = "resolve" /\ d.sig = checked.sig /\ d.run = checked.run
        /\ d.gate = checked.gate /\ d.blind = checked.blind /\ d.order = checked.order
    BY <1>2 DEF Run, Points
  <2> HIDE DEF d
  <2>2. cli' \in [Clis -> Run] /\ cli'[p] = d /\ \A q \in Clis \ {p} : cli'[q] = cli[q]
    BY <1>7, <2>1 DEF Typed, d
  <2>3. Went(p, "resolve") /\ cli'[p].sig = c.sig /\ cli'[p].order = c.order
    BY <1>2, <1>7, <2>1, <2>2 DEF Went
  <2> QED
    BY <1>5, <1>7, <2>3
<1> QED
  BY <1>4, <1>6, <1>7

LEMMA ResolveStep ==
  ASSUME Typed, Solo, NEW p \in Clis, Resolve(p)
  PROVE  \/ Gone(p)
         \/ Moved(p, cli[p].sig, "OPTION_SELECTED", "confirm")
         \/ Moved(p, cli[p].sig, "OPTION_SELECTION_FAILED", "idle")
<1> DEFINE on == <<"OPTION_SELECTED">>
           out == <<"OPTION_SELECTION_FAILED">>
<1>1. on \in Seq(States) /\ Len(on) > 0 /\ on[Len(on)] = "OPTION_SELECTED"
  BY DEF States, Working
<1>2. out \in Seq(States) /\ Len(out) > 0 /\ out[Len(out)] = "OPTION_SELECTION_FAILED"
  BY DEF States, Ended
<1>3. Busy(p) /\ {"confirm", "idle"} \subseteq Points \ {"off"}
  BY DEF Resolve, At, Busy, Points
<1>4. Move(p, on, "confirm") \/ Move(p, out, "idle")
  BY DEF Resolve
<1> HIDE DEF on, out
<1>5. CASE Move(p, on, "confirm")
  <2>1. Gone(p) \/ Moved(p, cli[p].sig, on[Len(on)], "confirm")
    BY <1>1, <1>3, <1>5, MoveStep
  <2> QED
    BY <2>1, <1>1
<1>6. CASE Move(p, out, "idle")
  <2>1. Gone(p) \/ Moved(p, cli[p].sig, out[Len(out)], "idle")
    BY <1>2, <1>3, <1>6, MoveStep
  <2> QED
    BY <2>1, <1>2
<1> QED
  BY <1>4, <1>5, <1>6

LEMMA ConfirmStep ==
  ASSUME Typed, Solo, NEW p \in Clis, Confirm(p)
  PROVE  \/ Gone(p)
         \/ Moved(p, cli[p].sig, "ORDER_PENDING", "place")
         \/ Moved(p, cli[p].sig, "ORDER_REJECTED", "idle")
<1> DEFINE on == <<"ORDER_PENDING">>
           out == <<"ORDER_REJECTED">>
<1>1. on \in Seq(States) /\ Len(on) > 0 /\ on[Len(on)] = "ORDER_PENDING"
  BY DEF States, Working
<1>2. out \in Seq(States) /\ Len(out) > 0 /\ out[Len(out)] = "ORDER_REJECTED"
  BY DEF States, Ended
<1>3. Busy(p) /\ {"place", "idle"} \subseteq Points \ {"off"}
  BY DEF Confirm, At, Busy, Points
<1>4. Move(p, on, "place") \/ Move(p, out, "idle")
  BY DEF Confirm
<1> HIDE DEF on, out
<1>5. CASE Move(p, on, "place")
  <2>1. Gone(p) \/ Moved(p, cli[p].sig, on[Len(on)], "place")
    BY <1>1, <1>3, <1>5, MoveStep
  <2> QED
    BY <2>1, <1>1
<1>6. CASE Move(p, out, "idle")
  <2>1. Gone(p) \/ Moved(p, cli[p].sig, out[Len(out)], "idle")
    BY <1>2, <1>3, <1>6, MoveStep
  <2> QED
    BY <2>1, <1>2
<1> QED
  BY <1>4, <1>5, <1>6

\* The states a settled outcome leads to.
Settled(outcome) ==
  CASE outcome = "SUCCESS" -> "POSITION_OPEN"
    [] outcome = "PARTIAL" -> "PARTIALLY_FILLED"
    [] outcome = "FAILED" -> "ORDER_FAILED"
    [] outcome = "CANCELLED" -> "ORDER_REJECTED"
    [] OTHER -> "RECONCILIATION_REQUIRED"

LEMMA SettleStep ==
  ASSUME Typed, Solo, NEW p \in Clis, Settle(p)
  PROVE  \/ Gone(p)
         \/ \E next \in {"count", "idle"} : Moved(p, cli[p].sig, Settled(cli[p].got), next)
<1> DEFINE path == Path(cli[p].got)
           next == IF cli[p].got \in {"SUCCESS", "PARTIAL"} THEN "count" ELSE "idle"
<1>1. path \in Seq(States) /\ Len(path) > 0 /\ path[Len(path)] = Settled(cli[p].got)
  <2> DEFINE good(q) == q \in Seq(States) /\ Len(q) > 0 /\ q[Len(q)] = Settled(cli[p].got)
  <2>1. CASE cli[p].got = "SUCCESS"
    <3>1. Settled(cli[p].got) = "POSITION_OPEN"
      BY <2>1 DEF Settled
    <3>2. good(<<"FILLED", "POSITION_OPEN">>)
      BY <3>1 DEF States, Working
    <3>3. path = <<"FILLED", "POSITION_OPEN">>
      BY <2>1 DEF Path
    <3> QED
      BY <3>2, <3>3
  <2>2. CASE cli[p].got # "SUCCESS"
    <3>1. path = <<Settled(cli[p].got)>>
      BY <2>2 DEF Path, Settled
    <3>2. Settled(cli[p].got) \in States
      BY <2>2 DEF Settled, States, Working, Ended
    <3> QED
      BY <3>1, <3>2
  <2> QED
    BY <2>1, <2>2
<1>2. Busy(p) /\ next \in Points \ {"off"} /\ next \in {"count", "idle"}
  BY DEF Settle, At, Busy, Points
<1>3. Move(p, path, next)
  BY DEF Settle
<1> HIDE DEF path, next
<1>4. Gone(p) \/ Moved(p, cli[p].sig, path[Len(path)], next)
  BY <1>1, <1>2, <1>3, MoveStep
<1> QED
  BY <1>1, <1>2, <1>4

LEMMA StartStep ==
  ASSUME Typed, NEW p \in Clis, Start(p)
  PROVE  /\ cli' \in [Clis -> Run]
         /\ \A q \in Clis : At(q, "off")
         /\ \A q \in Clis \ {p} : cli'[q] = cli[q]
         /\ cli'[p].at = "idle" /\ cli'[p].run = runs + 1 /\ cli'[p].order = 0
         /\ cli'[p].gate = "OK" /\ ~cli'[p].blind => UnconfirmedOrders(Rows(Clis)) = {}
         /\ runs' = runs + 1 /\ runs' \in 0..MaxRuns
<1> DEFINE begun == [Off EXCEPT !.at = "idle", !.run = runs + 1]
<1>1. PICK c \in Restored(begun), rows \in Listed(Clis) : \E check \in ChecksOf(rows) :
        cli' = [cli EXCEPT ![p] = [c EXCEPT !.gate = check, !.blind = (check = "OK" /\ rows # Rows(Clis))]]
  BY DEF Start
<1>2. PICK check \in ChecksOf(rows) :
        cli' = [cli EXCEPT ![p] = [c EXCEPT !.gate = check, !.blind = (check = "OK" /\ rows # Rows(Clis))]]
  BY <1>1
<1> DEFINE blind == check = "OK" /\ rows # Rows(Clis)
           d == [c EXCEPT !.gate = check, !.blind = blind]
<1>3. check \in Checks /\ (check = "OK" => UnconfirmedOrders(rows) = {})
  BY DEF ChecksOf, Evaluate, Checks
<1>4. runs' = runs + 1 /\ runs' \in 0..MaxRuns
  BY Constants DEF Typed, Start
<1>5. runs + 1 \in Nat /\ saved.trades \in Nat /\ saved.day \in Nat
  BY Constants DEF Typed
<1>6. begun \in Run /\ begun.at = "idle" /\ begun.run = runs + 1 /\ begun.order = 0
  BY <1>5, OffTyped DEF Off, Run, Points
<1> HIDE DEF begun
<1>7. c \in Run /\ c.at = "idle" /\ c.run = runs + 1 /\ c.order = 0
  BY <1>5, <1>6 DEF Restored, Run
<1>8. cli' = [cli EXCEPT ![p] = d]
  BY <1>2
<1>9. blind \in BOOLEAN /\ (check = "OK" /\ ~blind => UnconfirmedOrders(Rows(Clis)) = {})
  BY <1>3
<1> HIDE DEF blind
<1>10. /\ d \in Run /\ d.at = "idle" /\ d.run = runs + 1 /\ d.order = 0
       /\ d.gate = check /\ d.blind = blind
  BY <1>3, <1>7, <1>9 DEF Run
<1> HIDE DEF d
<1>11. cli' \in [Clis -> Run] /\ cli'[p] = d /\ \A q \in Clis \ {p} : cli'[q] = cli[q]
  BY <1>8, <1>10 DEF Typed
<1> QED
  BY <1>4, <1>9, <1>10, <1>11 DEF Start

LEMMA CountStep ==
  ASSUME Typed, Solo, NEW p \in Clis, Count(p)
  PROVE  /\ Went(p, "idle") /\ cli'[p].order = 0
         /\ saved' \in [trades: Nat, day: Nat]
<1> DEFINE c == [Rolled(cli[p]) EXCEPT !.trades = @ + 1]
           d == Idle(c)
<1>1. cli[p] \in Run /\ cli[p].sig \in Signals
  BY DEF Typed, Solo, Count, At, Busy
<1>2. Rolled(cli[p]) \in Run /\ Rolled(cli[p]).run = cli[p].run
      /\ Rolled(cli[p]).gate = cli[p].gate /\ Rolled(cli[p]).blind = cli[p].blind
  BY <1>1, RolledTyped
<1>3. c \in Run /\ c.run = cli[p].run /\ c.gate = cli[p].gate /\ c.blind = cli[p].blind
  BY <1>2 DEF Run
<1>4. cli' = [cli EXCEPT ![p] = d] /\ signals' = signals
      /\ saved' = IF durable THEN [trades |-> c.trades, day |-> c.day] ELSE saved
  BY DEF Count
<1>5. saved' \in [trades: Nat, day: Nat]
  BY <1>3, <1>4 DEF Typed, Run
<1> HIDE DEF c
<1>6. d \in Run /\ d.at = "idle" /\ d.order = 0 /\ d.run = c.run /\ d.gate = c.gate /\ d.blind = c.blind
  BY <1>3 DEF Idle, Run, Points, Outcomes
<1> HIDE DEF d
<1>7. cli' \in [Clis -> Run] /\ cli'[p] = d /\ \A q \in Clis \ {p} : cli'[q] = cli[q]
  BY <1>4, <1>6 DEF Typed
<1> QED
  BY <1>3, <1>4, <1>5, <1>6, <1>7 DEF Went

-----------------------------------------------------------------------------
\* The order book.

\* An order's own fields never change, nor what has become of it once it is
\* no longer open.
SameOrder(new, old) ==
  /\ new.by = old.by /\ new.line = old.line /\ new.sig = old.sig /\ new.run = old.run
  /\ old.status # "open" => new.status = old.status /\ new.filled = old.filled

\* One more order.
Appended(o) ==
  /\ orders' \in Seq(Order)
  /\ Len(orders') = Len(orders) + 1
  /\ orders'[Len(orders) + 1] = o
  /\ \A i \in Sent : orders'[i] = orders[i]

\* The row of one order.
RowOf(i, verdict) ==
  /\ orders' \in Seq(Order)
  /\ Len(orders') = Len(orders)
  /\ \A j \in Sent \ {i} : orders'[j] = orders[j]
  /\ SameOrder(orders'[i], orders[i])
  /\ orders'[i].status = orders[i].status /\ orders'[i].filled = orders[i].filled

LEMMA OrderTyped ==
  ASSUME Typed, NEW i \in Sent
  PROVE  orders[i] \in Order
BY DEF Typed, Sent

LEMMA AppendStep ==
  ASSUME Typed, NEW o \in Order, orders' = Append(orders, o)
  PROVE  Appended(o)
BY DEF Typed, Appended, Sent

LEMMA VerdictsTyped ==
  ASSUME NEW o \in Order, NEW verdict \in Verdicts(o)
  PROVE  /\ verdict[1] \in Outcomes /\ verdict[2] \in 0..Lot
         /\ verdict[1] \in {"SUCCESS", "PARTIAL"} => o.status = "executed"
<1>1. Lot \in 0..Lot /\ 0 \in 0..Lot /\ o.filled \in 0..Lot
  BY Constants DEF Order
<1>2. \/ verdict = <<"TIMEOUT", 0>>
      \/ o.status = "executed" /\ (verdict = <<"SUCCESS", Lot>> \/ verdict = <<"PARTIAL", o.filled>>)
      \/ verdict = <<"FAILED", 0>>
      \/ verdict = <<"CANCELLED", 0>>
  BY DEF Verdicts
<1> QED
  BY <1>1, <1>2 DEF Outcomes, Unconfirmed

LEMMA RecordStep ==
  ASSUME Typed, NEW i \in Sent, NEW verdict \in Verdicts(orders[i]), orders' = Recorded(i, verdict)
  PROVE  RowOf(i, verdict)
<1> DEFINE o == [orders[i] EXCEPT !.row = verdict[1], !.counted = verdict[2]]
<1>1. orders[i] \in Order /\ verdict[1] \in Outcomes /\ verdict[2] \in 0..Lot
  BY OrderTyped, VerdictsTyped
<1>2. o \in Order /\ SameOrder(o, orders[i]) /\ o.status = orders[i].status /\ o.filled = orders[i].filled
  BY <1>1 DEF Order, SameOrder
<1>3. orders' = IF durable THEN [orders EXCEPT ![i] = o] ELSE orders
  BY DEF Recorded
<1> HIDE DEF o
<1>4. CASE durable
  BY <1>2, <1>3, <1>4 DEF Typed, RowOf, Sent
<1>5. CASE ~durable
  BY <1>3, <1>5 DEF Typed, RowOf, SameOrder
<1> QED
  BY <1>4, <1>5

LEMMA FinishStep ==
  ASSUME Typed, NEW i \in Sent, Finish(i)
  PROVE  /\ orders' \in Seq(Order)
         /\ Len(orders') = Len(orders)
         /\ \A j \in Sent : SameOrder(orders'[j], orders[j]) /\ orders'[j].row = orders[j].row
         /\ orders'[i].status # "open"
         /\ orders'[i].status = "executed" => orders'[i].filled > 0
         /\ \A j \in Sent \ {i} : orders'[j] = orders[j]
<1>1. orders[i] \in Order /\ orders[i].status = "open"
  BY OrderTyped DEF Finish
<1>2. \E o \in Order : /\ orders' = [orders EXCEPT ![i] = o]
                       /\ SameOrder(o, orders[i]) /\ o.row = orders[i].row
                       /\ o.status # "open"
                       /\ o.status = "executed" => o.filled > 0
  <2>1. CASE \E n \in 1..Lot : orders' = [orders EXCEPT ![i].status = "executed", ![i].filled = n]
    <3>1. PICK n \in 1..Lot : orders' = [orders EXCEPT ![i].status = "executed", ![i].filled = n]
      BY <2>1
    <3> DEFINE o == [orders[i] EXCEPT !.status = "executed", !.filled = n]
    <3>2. n \in 0..Lot /\ n > 0
      BY Constants
    <3>3. o \in Order /\ SameOrder(o, orders[i]) /\ o.row = orders[i].row
          /\ o.filled > 0 /\ o.status # "open"
      BY <1>1, <3>2 DEF Order, SameOrder
    <3>4. orders' = [orders EXCEPT ![i] = o]
      BY <3>1
    <3> QED
      BY <3>3, <3>4
  <2>2. CASE \E n \in 0..(Lot - 1) : orders' = [orders EXCEPT ![i].status = "cancelled", ![i].filled = n]
    <3>1. PICK n \in 0..(Lot - 1) : orders' = [orders EXCEPT ![i].status = "cancelled", ![i].filled = n]
      BY <2>2
    <3> DEFINE o == [orders[i] EXCEPT !.status = "cancelled", !.filled = n]
    <3>2. n \in 0..Lot
      BY Constants
    <3>3. o \in Order /\ SameOrder(o, orders[i]) /\ o.row = orders[i].row
          /\ o.status \notin {"executed", "open"}
      BY <1>1, <3>2 DEF Order, SameOrder
    <3>4. orders' = [orders EXCEPT ![i] = o]
      BY <3>1
    <3> QED
      BY <3>3, <3>4
  <2>3. CASE orders' = [orders EXCEPT ![i].status = "failed"]
    <3> DEFINE o == [orders[i] EXCEPT !.status = "failed"]
    <3>3. o \in Order /\ SameOrder(o, orders[i]) /\ o.row = orders[i].row
          /\ o.status \notin {"executed", "open"}
      BY <1>1 DEF Order, SameOrder
    <3>4. orders' = [orders EXCEPT ![i] = o]
      BY <2>3
    <3> QED
      BY <3>3, <3>4
  <2> QED
    BY <2>1, <2>2, <2>3 DEF Finish
<1>3. PICK o \in Order : /\ orders' = [orders EXCEPT ![i] = o]
                         /\ SameOrder(o, orders[i]) /\ o.row = orders[i].row
                         /\ o.status # "open"
                         /\ o.status = "executed" => o.filled > 0
  BY <1>2
<1>4. orders' \in Seq(Order) /\ Len(orders') = Len(orders) /\ orders'[i] = o
      /\ \A j \in Sent \ {i} : orders'[j] = orders[j]
  <2>1. orders' = [orders EXCEPT ![i] = o]
    BY <1>3
  <2>2. orders \in Seq(Order)
    BY DEF Typed
  <2> QED
    BY <2>1, <2>2 DEF Sent
<1>5. SameOrder(orders'[i], orders[i]) /\ orders'[i].row = orders[i].row
      /\ orders'[i].status # "open"
      /\ (orders'[i].status = "executed" => orders'[i].filled > 0)
  BY <1>3, <1>4
<1>6. \A j \in Sent \ {i} : SameOrder(orders'[j], orders[j]) /\ orders'[j].row = orders[j].row
  BY <1>4 DEF SameOrder
<1> QED
  BY <1>4, <1>5, <1>6

LEMMA NewOrderTyped ==
  ASSUME Typed, NEW by \in Clis \union Threads, NEW run \in 0..MaxRuns, NEW l \in Lines,
         NEW s \in Signals \union {<<>>}, NEW qty \in {Lot, -Lot}, NEW status \in {"open", "void"}
  PROVE  NewOrder(by, run, l, s, qty, status) \in Order
BY Constants DEF NewOrder, Order, Outcomes, Unconfirmed

\* The order of a scanner, whether or not it gets an answer.
LEMMA PlaceStep ==
  ASSUME Typed, Solo, NEW p \in Clis, Place(p)
  PROVE  LET o == NewOrder(p, cli[p].run, Line(cli[p].sig), cli[p].sig, Lot, "open")
         IN /\ Appended(o) \/ orders' = orders
            /\ \/ /\ Appended(o)
                  /\ Went(p, "verify") /\ cli'[p].sig = cli[p].sig
                  /\ cli'[p].order = Len(orders) + 1
               \/ Gone(p) \/ Moved(p, cli[p].sig, "ORDER_FAILED", "idle")
<1> DEFINE s == cli[p].sig
           o == NewOrder(p, cli[p].run, Line(s), s, Lot, "open")
           path == <<"ORDER_FAILED">>
<1>1. At(p, "place") /\ Busy(p) /\ s \in Signals /\ cli[p].run \in 0..MaxRuns
  BY DEF Typed, Solo, Place, At, Busy
<1>2. o \in Order
  BY <1>1, NewOrderTyped, Constants
<1>3. path \in Seq(States) /\ Len(path) > 0 /\ path[Len(path)] = "ORDER_FAILED" /\ "idle" \in Points \ {"off"}
  BY DEF States, Ended, Points
<1>4. \/ /\ orders' = Append(orders, o)
         /\ cli' = [cli EXCEPT ![p].at = "verify", ![p].order = Len(orders) + 1]
         /\ signals' = signals
      \/ /\ orders' = Append(orders, o) \/ orders' = orders
         /\ Move(p, path, "idle")
  BY DEF Place, Reached
<1> HIDE DEF o, path
<1>5. CASE /\ orders' = Append(orders, o)
           /\ cli' = [cli EXCEPT ![p].at = "verify", ![p].order = Len(orders) + 1]
           /\ signals' = signals
  <2> DEFINE c == [cli[p] EXCEPT !.at = "verify", !.order = Len(orders) + 1]
  <2>1. cli[p] \in Run /\ Len(orders) + 1 \in Nat
    BY DEF Typed
  <2>2. c \in Run /\ c.at = "verify" /\ c.order = Len(orders) + 1 /\ c.sig = s
        /\ c.run = cli[p].run /\ c.gate = cli[p].gate /\ c.blind = cli[p].blind
    BY <2>1 DEF Run, Points
  <2>3. cli' = [cli EXCEPT ![p] = c]
    BY <1>5
  <2> HIDE DEF c
  <2>4. cli' \in [Clis -> Run] /\ cli'[p] = c /\ \A q \in Clis \ {p} : cli'[q] = cli[q]
    BY <2>2, <2>3 DEF Typed
  <2>5. Appended(o)
    BY <1>2, <1>5, AppendStep
  <2> QED
    BY <1>5, <2>2, <2>4, <2>5 DEF Went, o
<1>6. CASE /\ orders' = Append(orders, o) \/ orders' = orders
           /\ Move(p, path, "idle")
  <2>1. Appended(o) \/ orders' = orders
    BY <1>2, <1>6, AppendStep
  <2>2. Gone(p) \/ Moved(p, s, path[Len(path)], "idle")
    BY <1>1, <1>3, <1>6, MoveStep
  <2> QED
    BY <1>3, <2>1, <2>2 DEF o
<1> QED
  BY <1>4, <1>5, <1>6

LEMMA VerifyStep ==
  ASSUME Typed, Solo, NEW p \in Clis, Verify(p), cli[p].order \in Sent
  PROVE  \E verdict \in Verdicts(orders[cli[p].order]) :
           /\ RowOf(cli[p].order, verdict)
           /\ Went(p, "settle") /\ cli'[p].sig = cli[p].sig /\ cli'[p].order = cli[p].order
           /\ cli'[p].got = verdict[1]
<1>1. PICK verdict \in Verdicts(orders[cli[p].order]) :
        /\ orders' = Recorded(cli[p].order, verdict)
        /\ cli' = [cli EXCEPT ![p].at = "settle", ![p].got = verdict[1]]
  BY DEF Verify
<1>2. verdict[1] \in Outcomes
  BY OrderTyped, VerdictsTyped
<1> DEFINE c == [cli[p] EXCEPT !.at = "settle", !.got = verdict[1]]
<1>3. cli[p] \in Run
  BY DEF Typed
<1>4. c \in Run /\ c.at = "settle" /\ c.got = verdict[1] /\ c.sig = cli[p].sig /\ c.order = cli[p].order
      /\ c.run = cli[p].run /\ c.gate = cli[p].gate /\ c.blind = cli[p].blind
  BY <1>2, <1>3 DEF Run, Points
<1>5. cli' = [cli EXCEPT ![p] = c] /\ signals' = signals
  BY <1>1 DEF Verify
<1> HIDE DEF c
<1>6. cli' \in [Clis -> Run] /\ cli'[p] = c /\ \A q \in Clis \ {p} : cli'[q] = cli[q]
  BY <1>4, <1>5 DEF Typed
<1>7. RowOf(cli[p].order, verdict)
  BY <1>1, RecordStep
<1> QED
  BY <1>4, <1>5, <1>6, <1>7 DEF Went

-----------------------------------------------------------------------------
\* The dashboard's steps.

\* Every request and every order points at what is there.
Book ==
  /\ \A i \in Sent :
       /\ orders[i].by \in Clis => orders[i].sig \in Signals /\ orders[i].run <= runs
       /\ orders[i].by \in Threads => orders[i].sig = <<>>
       /\ orders[i].status = "executed" => orders[i].filled > 0
       /\ orders[i].status = "open" => orders[i].filled = 0
  /\ \A p \in Clis :
       /\ cli[p].order \in Sent \union {0}
       /\ cli[p].at \in {"verify", "settle"} =>
            /\ cli[p].order \in Sent
            /\ orders[cli[p].order].by = p
            /\ orders[cli[p].order].sig = cli[p].sig
            /\ orders[cli[p].order].run = cli[p].run
Pending ==
  \A t \in Threads :
    /\ work[t].seen \subseteq Sent
    /\ work[t].sent \in Sent \union {0}
    /\ work[t].at = "verify" => work[t].sent \in Sent /\ orders[work[t].sent].by = t

Base == Typed /\ Solo /\ Book /\ Pending

\* No order is lost.
Kept ==
  /\ orders' \in Seq(Order)
  /\ Len(orders') >= Len(orders)
  /\ \A i \in Sent : SameOrder(orders'[i], orders[i])

\* A step of no scanner: it leaves theirs alone, and their rows.
Aside ==
  /\ UNCHANGED <<durable, signals, cli, saved, runs>>
  /\ Kept
  /\ \A i \in Sent' \ Sent : i = Len(orders) + 1 /\ orders'[i].by \in Threads /\ orders'[i].sig = <<>>
  /\ \A i \in Sent' : /\ orders'[i].status = "executed" => orders'[i].filled > 0
                      /\ orders'[i].status = "open" => orders'[i].filled = 0
  /\ \A i \in Sent : orders[i].by \in Clis => orders'[i].row = orders[i].row

\* The thread t goes on.
Turned(t, point, seen, sent) ==
  /\ work' \in [Threads -> Job]
  /\ \A u \in Threads \ {t} : work'[u] = work[u]
  /\ work'[t].at = point /\ work'[t].seen = seen /\ work'[t].sent = sent

LEMMA RestingTyped ==
  Resting \in Job /\ Resting.at = "rest" /\ Resting.seen = {} /\ Resting.sent = 0
BY DEF Resting, Job

LEMMA TurnStep ==
  ASSUME Typed, NEW t \in Threads, NEW w \in Job, work' = [work EXCEPT ![t] = w]
  PROVE  Turned(t, w.at, w.seen, w.sent)
BY DEF Typed, Turned

LEMMA RestStep ==
  ASSUME Typed, NEW t \in Threads, work' = [work EXCEPT ![t] = Resting]
  PROVE  Turned(t, "rest", {}, 0)
BY RestingTyped, TurnStep

LEMMA ListedSent ==
  ASSUME Typed, NEW by, NEW rows \in Listed(by)
  PROVE  rows \in SUBSET Sent /\ Sent \subseteq Nat
BY DEF Typed, Listed, Rows, Sent

LEMMA AskStep ==
  ASSUME Typed, NEW t \in Threads, Ask(t)
  PROVE  \E rows \in SUBSET Sent : Turned(t, "rows", rows, 0)
<1>1. PICK order \in BOOLEAN, rows \in Listed(Clis \union Threads) :
        work' = [work EXCEPT ![t] = [Resting EXCEPT !.at = "rows", !.order = order, !.seen = rows]]
  BY DEF Ask
<1> DEFINE w == [Resting EXCEPT !.at = "rows", !.order = order, !.seen = rows]
<1>2. rows \in SUBSET Sent /\ rows \in SUBSET Nat
  BY ListedSent
<1>3. w \in Job /\ w.at = "rows" /\ w.seen = rows /\ w.sent = 0
  BY <1>2 DEF Resting, Job
<1> HIDE DEF w
<1>4. Turned(t, w.at, w.seen, w.sent)
  BY <1>1, <1>3, TurnStep DEF w
<1> QED
  BY <1>2, <1>3, <1>4

LEMMA CompareStep ==
  ASSUME Typed, NEW t \in Threads, Compare(t)
  PROVE  /\ \E point \in {"rest", "decide"}, sent \in {work[t].sent, 0} : Turned(t, point, {}, sent)
         /\ gate' \in Checks /\ override' \in BOOLEAN /\ trusted' \in BOOLEAN
         /\ trusted => trusted'
         /\ gate' = "OK" => trusted'
         /\ override' => override
<1>1. PICK check \in ChecksOf(work[t].seen) : Checked(check)
  BY DEF Compare
<1>2. check \in Checks
  BY DEF ChecksOf, Evaluate, Checks
<1>3. /\ gate' \in Checks /\ override' \in BOOLEAN /\ trusted' \in BOOLEAN
      /\ trusted => trusted'
      /\ gate' = "OK" => trusted'
      /\ override' => override
  BY <1>1, <1>2 DEF Typed, Checked
<1>4. \E point \in {"rest", "decide"}, sent \in {work[t].sent, 0} : Turned(t, point, {}, sent)
  <2> DEFINE w == [work[t] EXCEPT !.at = "decide", !.seen = {}]
  <2>1. work[t] \in Job
    BY DEF Typed
  <2>2. w \in Job /\ w.at = "decide" /\ w.seen = {} /\ w.sent = work[t].sent
    BY <2>1 DEF Job
  <2>3. work' = [work EXCEPT ![t] = w] \/ work' = [work EXCEPT ![t] = Resting]
    BY DEF Compare
  <2> HIDE DEF w
  <2>4. CASE work' = [work EXCEPT ![t] = w]
    <3>1. Turned(t, w.at, w.seen, w.sent)
      BY <2>2, <2>4, TurnStep
    <3> QED
      BY <2>2, <3>1
  <2>5. CASE work' = [work EXCEPT ![t] = Resting]
    BY <2>5, RestStep
  <2> QED
    BY <2>3, <2>4, <2>5
<1> QED
  BY <1>3, <1>4

LEMMA DecideStep ==
  ASSUME Typed, NEW t \in Threads, Decide(t)
  PROVE  \/ (gate = "OK" \/ override) /\ Turned(t, "place", work[t].seen, work[t].sent)
         \/ Turned(t, "rest", {}, 0)
<1>1. CASE ~IsBlocking(gate, override) /\ work' = [work EXCEPT ![t].at = "place"]
  <2> DEFINE w == [work[t] EXCEPT !.at = "place"]
  <2>1. work[t] \in Job
    BY DEF Typed
  <2>2. w \in Job /\ w.at = "place" /\ w.seen = work[t].seen /\ w.sent = work[t].sent
    BY <2>1 DEF Job
  <2>3. work' = [work EXCEPT ![t] = w]
    BY <1>1
  <2> HIDE DEF w
  <2>4. Turned(t, w.at, w.seen, w.sent)
    BY <2>2, <2>3, TurnStep
  <2>5. gate = "OK" \/ override
    BY <1>1 DEF IsBlocking
  <2> QED
    BY <2>2, <2>4, <2>5
<1>2. CASE work' = [work EXCEPT ![t] = Resting]
  BY <1>2, RestStep
<1> QED
  BY <1>1, <1>2 DEF Decide

\* The orders of the manual trading page.
Manual(t, o) ==
  /\ o \in Order /\ o.by = t /\ o.sig = <<>> /\ o.status # "executed" /\ o.filled = 0

LEMMA PlaceManualStep ==
  ASSUME Typed, NEW t \in Threads, PlaceManual(t)
  PROVE  \/ \E o : Manual(t, o) /\ Appended(o) /\ Turned(t, "verify", {}, Len(orders) + 1)
         \/ (orders' = orders \/ \E o : Manual(t, o) /\ Appended(o)) /\ Turned(t, "rest", {}, 0)
<1>1. PICK request \in Requests, status \in {"open", "void"} :
        LET o == NewOrder(t, 0, request[1], <<>>, request[2], status)
        IN \/ /\ status = "open"
              /\ orders' = Append(orders, o)
              /\ work' = [work EXCEPT ![t] = [Resting EXCEPT !.at = "verify", !.sent = Len(orders) + 1]]
           \/ /\ orders' = Append(orders, IF durable THEN [o EXCEPT !.row = "UNKNOWN"] ELSE o)
              /\ work' = [work EXCEPT ![t] = Resting]
           \/ /\ status = "open"
              /\ orders' \in Reached(o)
              /\ work' = [work EXCEPT ![t] = Resting]
  BY DEF PlaceManual
<1> DEFINE o == NewOrder(t, 0, request[1], <<>>, request[2], status)
           v == [o EXCEPT !.row = "UNKNOWN"]
           w == [Resting EXCEPT !.at = "verify", !.sent = Len(orders) + 1]
<1>2. request[1] \in Lines /\ request[2] \in {Lot, -Lot} /\ 0 \in 0..MaxRuns
      /\ t \in Clis \union Threads /\ <<>> \in Signals \union {<<>>}
  BY LiveAssumption DEF LiveAssumption
<1>3. o \in Order /\ v \in Order /\ v.by = t /\ v.sig = <<>> /\ v.status = status /\ v.filled = 0
  <2>1. 0 \in 0..Lot /\ "open" \in {"open", "executed", "failed", "cancelled", "void"}
    BY Constants
  <2>2. o \in Order
    BY <1>2, <2>1 DEF NewOrder, Order, Outcomes
  <2>3. v.by = t /\ v.sig = <<>> /\ v.status = status /\ v.filled = 0
    BY DEF NewOrder
  <2>4. "UNKNOWN" \in Outcomes \union {"none"}
    BY DEF Outcomes, Unconfirmed
  <2> HIDE DEF o
  <2>5. v \in Order
    BY <2>2, <2>4 DEF Order
  <2> QED
    BY <2>2, <2>3, <2>5
<1>4. o.by = t /\ o.sig = <<>> /\ o.status = status /\ o.filled = 0
  BY DEF NewOrder
<1>5. Manual(t, o) /\ Manual(t, v)
  BY <1>3, <1>4 DEF Manual
<1>6. Len(orders) + 1 \in Nat
  BY DEF Typed
<1>7. w \in Job /\ w.at = "verify" /\ w.seen = {} /\ w.sent = Len(orders) + 1
  BY <1>6 DEF Resting, Job
<1>8. \/ orders' = Append(orders, o) /\ work' = [work EXCEPT ![t] = w]
      \/ /\ orders' = Append(orders, o) \/ orders' = Append(orders, v) \/ orders' = orders
         /\ work' = [work EXCEPT ![t] = Resting]
  BY <1>1 DEF Reached
<1> HIDE DEF o, v, w
<1>9. CASE orders' = Append(orders, o) /\ work' = [work EXCEPT ![t] = w]
  <2>1. Turned(t, w.at, w.seen, w.sent)
    BY <1>7, <1>9, TurnStep
  <2>2. Appended(o)
    BY <1>3, <1>9, AppendStep
  <2> QED
    BY <1>5, <1>7, <2>1, <2>2
<1>10. CASE /\ orders' = Append(orders, o) \/ orders' = Append(orders, v) \/ orders' = orders
            /\ work' = [work EXCEPT ![t] = Resting]
  <2>1. Turned(t, "rest", {}, 0)
    BY <1>10, RestStep
  <2>2. Appended(o) \/ Appended(v) \/ orders' = orders
    BY <1>3, <1>10, AppendStep
  <2> QED
    BY <1>5, <2>1, <2>2
<1> QED
  BY <1>8, <1>9, <1>10

LEMMA VerifyManualStep ==
  ASSUME Typed, NEW t \in Threads, VerifyManual(t), work[t].sent \in Sent
  PROVE  /\ orders' = orders \/ \E v : RowOf(work[t].sent, v)
         /\ Turned(t, "rest", {}, 0)
<1>1. orders' = orders \/ \E v \in Verdicts(orders[work[t].sent]) : orders' = Recorded(work[t].sent, v)
  BY DEF VerifyManual
<1>2. ASSUME NEW v \in Verdicts(orders[work[t].sent]), orders' = Recorded(work[t].sent, v)
      PROVE  RowOf(work[t].sent, v)
  BY <1>2, RecordStep
<1>3. Turned(t, "rest", {}, 0)
  BY RestStep DEF VerifyManual
<1> QED
  BY <1>1, <1>2, <1>3

LEMMA AppendedKept ==
  ASSUME Typed, NEW o \in Order, Appended(o)
  PROVE  /\ Kept
         /\ Sent' = 1..(Len(orders) + 1) /\ Len(orders) \in Nat
         /\ \A i \in Sent' \ Sent : i = Len(orders) + 1 /\ orders'[i] = o
         /\ \A i \in Sent : i \in Sent' /\ orders'[i] = orders[i]
<1>1. Len(orders) \in Nat /\ Len(orders') = Len(orders) + 1
  BY DEF Typed, Appended
<1>2. Sent' = 1..(Len(orders) + 1)
  BY <1>1 DEF Sent
<1>3. \A i \in Sent' \ Sent : i = Len(orders) + 1 /\ orders'[i] = o
  BY <1>1, <1>2 DEF Sent, Appended
<1>4. \A i \in Sent : i \in Sent' /\ orders'[i] = orders[i]
  BY <1>1, <1>2 DEF Sent, Appended
<1>5. Kept
  BY <1>1, <1>4 DEF Kept, Appended, SameOrder
<1> QED
  BY <1>1, <1>2, <1>3, <1>4, <1>5

LEMMA SentGrows ==
  ASSUME Typed, Kept
  PROVE  Sent \subseteq Sent'
BY DEF Typed, Kept, Sent

LEMMA UnchangedKept ==
  ASSUME Typed, orders' = orders
  PROVE  Kept /\ Sent' = Sent
BY DEF Typed, Kept, SameOrder, Sent

LEMMA RowKept ==
  ASSUME Typed, NEW i \in Sent, NEW v, RowOf(i, v)
  PROVE  /\ Kept /\ Sent' = Sent
         /\ \A j \in Sent : orders'[j].status = orders[j].status /\ orders'[j].filled = orders[j].filled
         /\ \A j \in Sent : orders'[j].row # orders[j].row => j = i
<1>1. Len(orders) \in Nat /\ Len(orders') = Len(orders)
  BY DEF Typed, RowOf
<1>2. Sent' = Sent
  BY <1>1 DEF Sent
<1>3. Kept
  BY <1>1 DEF Kept, RowOf, SameOrder
<1> QED
  BY <1>2, <1>3 DEF RowOf

LEMMA AsideUnchanged ==
  ASSUME Base, UNCHANGED <<durable, signals, orders, cli, saved, runs>>
  PROVE  Aside
BY UnchangedKept DEF Base, Aside, Book

LEMMA AsideAppended ==
  ASSUME Base, NEW t \in Threads, NEW o, Manual(t, o), Appended(o),
         UNCHANGED <<durable, signals, cli, saved, runs>>
  PROVE  Aside
<1>1. o \in Order
  BY DEF Manual
<1>2. /\ Kept
      /\ \A i \in Sent' \ Sent : i = Len(orders) + 1 /\ orders'[i] = o
      /\ \A i \in Sent : i \in Sent' /\ orders'[i] = orders[i]
  BY <1>1, AppendedKept DEF Base
<1> QED
  BY <1>2 DEF Aside, Manual, Base, Book

LEMMA AsideRow ==
  ASSUME Base, NEW i \in Sent, orders[i].by \in Threads, NEW v, RowOf(i, v),
         UNCHANGED <<durable, signals, cli, saved, runs>>
  PROVE  Aside
<1>1. /\ Kept /\ Sent' = Sent
      /\ \A j \in Sent : orders'[j].status = orders[j].status /\ orders'[j].filled = orders[j].filled
      /\ \A j \in Sent : orders'[j].row # orders[j].row => j = i
  BY RowKept DEF Base
<1>2. \A j \in Sent : orders[j].by \in Clis => j # i
  BY Constants
<1> QED
  BY <1>1, <1>2 DEF Aside, Base, Book

LEMMA AsideFinish ==
  ASSUME Base, NEW i \in Sent, Finish(i)
  PROVE  Aside /\ UNCHANGED <<work, gate, override, trusted>>
<1>1. /\ orders' \in Seq(Order)
      /\ Len(orders') = Len(orders)
      /\ \A j \in Sent : SameOrder(orders'[j], orders[j]) /\ orders'[j].row = orders[j].row
      /\ orders'[i].status # "open"
      /\ orders'[i].status = "executed" => orders'[i].filled > 0
      /\ \A j \in Sent \ {i} : orders'[j] = orders[j]
  BY FinishStep DEF Base
<1>2. Kept /\ Sent' = Sent
  BY <1>1 DEF Kept, Sent, Base, Typed
<1>3. \A j \in Sent : /\ orders'[j].status = "executed" => orders'[j].filled > 0
                      /\ orders'[j].status = "open" => orders'[j].filled = 0
  BY <1>1 DEF Base, Book
<1>4. UNCHANGED <<durable, signals, cli, saved, runs>> /\ UNCHANGED <<work, gate, override, trusted>>
  BY DEF Finish
<1>5. \A j \in Sent : orders'[j].row = orders[j].row
  BY <1>1
<1>6. \A j \in Sent' : /\ orders'[j].status = "executed" => orders'[j].filled > 0
                       /\ orders'[j].status = "open" => orders'[j].filled = 0
  BY <1>2, <1>3
<1>7. \A j \in Sent' \ Sent : FALSE
  BY <1>2
<1>8. \A j \in Sent : orders[j].by \in Clis => orders'[j].row = orders[j].row
  BY <1>5
<1>9. Aside
  BY <1>2, <1>4, <1>6, <1>7, <1>8 DEF Aside
<1> QED
  BY <1>4, <1>9

\* The pointers of the threads after a step of one of them.
LEMMA PendingTurn ==
  ASSUME Base, Kept, NEW t \in Threads, NEW point, NEW seen, NEW sent,
         Turned(t, point, seen, sent), seen \subseteq Sent, sent \in Sent' \union {0},
         point = "verify" => sent \in Sent' /\ orders'[sent].by = t
  PROVE  Pending'
<1>1. Sent \subseteq Sent'
  BY SentGrows DEF Base
<1>2. \A i \in Sent : orders'[i].by = orders[i].by
  BY DEF Kept, SameOrder
<1>3. \A u \in Threads \ {t} : work'[u] = work[u]
  BY DEF Turned
<1>4. work'[t].at = point /\ work'[t].seen = seen /\ work'[t].sent = sent
  BY DEF Turned
<1>5. ASSUME NEW u \in Threads
      PROVE  /\ work'[u].seen \subseteq Sent'
             /\ work'[u].sent \in Sent' \union {0}
             /\ work'[u].at = "verify" => work'[u].sent \in Sent' /\ orders'[work'[u].sent].by = u
  <2>1. CASE u = t
    BY <2>1, <1>1, <1>4
  <2>2. CASE u # t
    <3>1. work'[u] = work[u]
      BY <2>2, <1>3
    <3>2. /\ work[u].seen \subseteq Sent
          /\ work[u].sent \in Sent \union {0}
          /\ work[u].at = "verify" => work[u].sent \in Sent /\ orders[work[u].sent].by = u
      BY DEF Base, Pending
    <3> QED
      BY <3>1, <3>2, <1>1, <1>2
  <2> QED
    BY <2>1, <2>2
<1> QED
  BY <1>5 DEF Pending

LEMMA PendingKept ==
  ASSUME Base, Kept, work' = work
  PROVE  Pending'
<1>1. Sent \subseteq Sent'
  BY SentGrows DEF Base
<1>2. \A i \in Sent : orders'[i].by = orders[i].by
  BY DEF Kept, SameOrder
<1> QED
  BY <1>1, <1>2 DEF Base, Pending

LEMMA RequestStep ==
  ASSUME Base, NEW t \in Threads, Request(t)
  PROVE  Aside /\ Pending' /\ work' \in [Threads -> Job]
<1>1. Typed /\ work[t].seen \subseteq Sent /\ work[t].sent \in Sent \union {0}
  BY DEF Base, Pending
<1>2. ASSUME orders' = orders, UNCHANGED <<durable, signals, cli, saved, runs>>,
             NEW point, point # "verify", NEW seen \in SUBSET Sent, NEW sent \in Sent \union {0},
             Turned(t, point, seen, sent)
      PROVE  Aside /\ Pending' /\ work' \in [Threads -> Job]
  <2>1. Kept /\ Sent' = Sent
    BY <1>1, <1>2, UnchangedKept
  <2>2. sent \in Sent' \union {0} /\ seen \subseteq Sent
    BY <1>2, <2>1
  <2>3. Pending'
    BY <1>2, <2>1, <2>2, PendingTurn
  <2>4. Aside
    BY <1>2, AsideUnchanged
  <2> QED
    BY <1>2, <2>3, <2>4 DEF Turned
<1>3. CASE Ask(t)
  <2>1. PICK rows \in SUBSET Sent : Turned(t, "rows", rows, 0)
    BY <1>1, <1>3, AskStep
  <2>2. orders' = orders /\ UNCHANGED <<durable, signals, cli, saved, runs>>
    BY <1>3 DEF Ask
  <2>3. "rows" # "verify" /\ 0 \in Sent \union {0}
    OBVIOUS
  <2> QED
    BY <1>2, <2>1, <2>2, <2>3
<1>4. CASE Compare(t)
  <2>1. PICK point \in {"rest", "decide"}, sent \in {work[t].sent, 0} : Turned(t, point, {}, sent)
    BY <1>1, <1>4, CompareStep
  <2>2. orders' = orders /\ UNCHANGED <<durable, signals, cli, saved, runs>>
    BY <1>4 DEF Compare
  <2>3. point # "verify" /\ sent \in Sent \union {0} /\ {} \in SUBSET Sent
    BY <1>1
  <2> QED
    BY <1>2, <2>1, <2>2, <2>3
<1>5. CASE Decide(t)
  <2>1. Turned(t, "place", work[t].seen, work[t].sent) \/ Turned(t, "rest", {}, 0)
    BY <1>1, <1>5, DecideStep
  <2>2. orders' = orders /\ UNCHANGED <<durable, signals, cli, saved, runs>>
    BY <1>5 DEF Decide
  <2>3. /\ "place" # "verify" /\ "rest" # "verify" /\ 0 \in Sent \union {0} /\ {} \in SUBSET Sent
        /\ work[t].seen \in SUBSET Sent
    BY <1>1
  <2> QED
    BY <1>1, <1>2, <2>1, <2>2, <2>3
<1>6. CASE PlaceManual(t)
  <2>1. UNCHANGED <<durable, signals, cli, saved, runs>>
    BY <1>6 DEF PlaceManual
  <2>2. \/ \E o : Manual(t, o) /\ Appended(o) /\ Turned(t, "verify", {}, Len(orders) + 1)
        \/ (orders' = orders \/ \E o : Manual(t, o) /\ Appended(o)) /\ Turned(t, "rest", {}, 0)
    BY <1>1, <1>6, PlaceManualStep
  <2>3. ASSUME orders' = orders, Turned(t, "rest", {}, 0)
        PROVE  Aside /\ Pending' /\ work' \in [Threads -> Job]
    <3>1. "rest" # "verify" /\ 0 \in Sent \union {0} /\ {} \in SUBSET Sent
      OBVIOUS
    <3> QED
      BY <1>2, <2>1, <2>3, <3>1
  <2>4. ASSUME NEW o, Manual(t, o), Appended(o),
               NEW point, NEW sent \in {Len(orders) + 1, 0}, Turned(t, point, {}, sent),
               point = "verify" => sent = Len(orders) + 1
        PROVE  Aside /\ Pending' /\ work' \in [Threads -> Job]
    <3>1. o \in Order /\ o.by = t
      BY <2>4 DEF Manual
    <3>2. Kept /\ Sent' = 1..(Len(orders) + 1) /\ Len(orders) \in Nat
      BY <1>1, <2>4, <3>1, AppendedKept
    <3>3. orders'[Len(orders) + 1].by = t
      BY <2>4, <3>1 DEF Appended
    <3>4. Len(orders) + 1 \in Sent'
      BY <3>2
    <3>5. sent \in Sent' \union {0} /\ {} \subseteq Sent
      BY <3>4
    <3>6. point = "verify" => sent \in Sent' /\ orders'[sent].by = t
      BY <2>4, <3>3, <3>4
    <3>7. Pending'
      BY <2>4, <3>2, <3>5, <3>6, PendingTurn
    <3>8. Aside
      BY <2>1, <2>4, AsideAppended
    <3> QED
      BY <2>4, <3>7, <3>8 DEF Turned
  <2> QED
    BY <2>2, <2>3, <2>4
<1>7. CASE VerifyManual(t)
  <2>1. UNCHANGED <<durable, signals, cli, saved, runs>> /\ Thread(t, "verify")
    BY <1>7 DEF VerifyManual
  <2>2. work[t].sent \in Sent /\ orders[work[t].sent].by \in Threads
    BY <2>1 DEF Base, Pending, Thread
  <2>3. (orders' = orders \/ \E v : RowOf(work[t].sent, v)) /\ Turned(t, "rest", {}, 0)
    BY <1>1, <1>7, <2>2, VerifyManualStep
  <2>4. CASE orders' = orders
    <3>1. "rest" # "verify" /\ 0 \in Sent \union {0} /\ {} \in SUBSET Sent
      OBVIOUS
    <3> QED
      BY <1>2, <2>1, <2>3, <2>4, <3>1
  <2>5. ASSUME NEW v, RowOf(work[t].sent, v)
        PROVE  Aside /\ Pending' /\ work' \in [Threads -> Job]
    <3>1. Kept
      BY <1>1, <2>2, <2>5, RowKept
    <3>2. 0 \in Sent' \union {0} /\ {} \subseteq Sent /\ "rest" # "verify"
      OBVIOUS
    <3>3. Pending'
      BY <2>3, <3>1, <3>2, PendingTurn
    <3>4. Aside
      BY <2>1, <2>2, <2>5, AsideRow
    <3> QED
      BY <2>3, <3>3, <3>4 DEF Turned
  <2> QED
    BY <2>3, <2>4, <2>5
<1> QED
  BY <1>3, <1>4, <1>5, <1>6, <1>7 DEF Request

\* What a step of the dashboard or of the broker keeps.
LEMMA AsideBase ==
  ASSUME Base, Aside, Pending', work' \in [Threads -> Job], gate' \in Checks,
         override' \in BOOLEAN, trusted' \in BOOLEAN
  PROVE  Base'
<1>1. durable' = durable /\ signals' = signals /\ cli' = cli /\ saved' = saved /\ runs' = runs
  BY DEF Aside
<1>2. Typed'
  BY <1>1 DEF Base, Typed, Aside, Kept
<1>3. Solo'
  BY <1>1 DEF Base, Solo, At, Busy
<1>4. Sent \subseteq Sent' /\ \A i \in Sent : SameOrder(orders'[i], orders[i])
  BY SentGrows DEF Base, Aside, Kept
<1>5. Book'
  <2>1. ASSUME NEW i \in Sent'
        PROVE  /\ orders'[i].by \in Clis => orders'[i].sig \in Signals /\ orders'[i].run <= runs
               /\ orders'[i].by \in Threads => orders'[i].sig = <<>>
    <3>1. CASE i \in Sent
      BY <1>4, <3>1 DEF Base, Book, SameOrder
    <3>2. CASE i \notin Sent
      BY <3>2, Constants DEF Aside
    <3> QED
      BY <3>1, <3>2
  <2>2. ASSUME NEW p \in Clis
        PROVE  /\ cli[p].order \in Sent' \union {0}
               /\ cli[p].at \in {"verify", "settle"} =>
                    /\ cli[p].order \in Sent'
                    /\ orders'[cli[p].order].by = p
                    /\ orders'[cli[p].order].sig = cli[p].sig
                    /\ orders'[cli[p].order].run = cli[p].run
    BY <1>4 DEF Base, Book, SameOrder
  <2> QED
    BY <1>1, <2>1, <2>2 DEF Book, Aside
<1> QED
  BY <1>2, <1>3, <1>5 DEF Base

-----------------------------------------------------------------------------
\* A scanner's step.

\* The states a scanner moves a signal to, and where it goes on.
Turn(p, s, state, next) ==
  \/ /\ At(p, "idle") /\ s \in Signals /\ Stored(p, s) = "none"
     /\ \/ state = "SIGNAL_REJECTED" /\ next = "idle"
        \/ state = "RISK_CHECK" /\ next = "gates"
  \/ /\ s = cli[p].sig
     /\ \/ At(p, "gates") /\ state = "RISK_REJECTED" /\ next = "idle"
        \/ At(p, "resolve") /\ state = "OPTION_SELECTED" /\ next = "confirm"
        \/ At(p, "resolve") /\ state = "OPTION_SELECTION_FAILED" /\ next = "idle"
        \/ At(p, "confirm") /\ state = "ORDER_PENDING" /\ next = "place"
        \/ At(p, "confirm") /\ state = "ORDER_REJECTED" /\ next = "idle"
        \/ At(p, "place") /\ state = "ORDER_FAILED" /\ next = "idle"
        \/ At(p, "settle") /\ state = Settled(cli[p].got) /\ next \in {"count", "idle"}

\* Where a scanner goes on without moving its signal.
Walk(p, next) ==
  \/ /\ At(p, "gates") /\ next = "resolve" /\ cli'[p].sig = cli[p].sig /\ cli'[p].order = cli[p].order
     /\ cli[p].gate = "OK" /\ ~DuplicateOrder(p, cli[p].sig)
  \/ /\ At(p, "place") /\ next = "verify" /\ cli'[p].sig = cli[p].sig
     /\ cli'[p].order = Len(orders) + 1 /\ cli'[p].order \in Sent' \ Sent
  \/ /\ At(p, "verify") /\ next = "settle" /\ cli'[p].sig = cli[p].sig /\ cli'[p].order = cli[p].order
     /\ cli'[p].got \in {"SUCCESS", "PARTIAL"} => orders[cli[p].order].status = "executed"
  \/ At(p, "count") /\ next = "idle" /\ cli'[p].order = 0

\* What a scanner's step does to the orders: at most one of its own is new,
\* and only a row of its own run changes.
Scanned(p) ==
  /\ UNCHANGED <<durable, work, gate, override, trusted>>
  /\ Kept
  /\ \A i \in Sent' \ Sent :
       /\ At(p, "place") /\ i = Len(orders) + 1
       /\ orders'[i].by = p /\ orders'[i].sig = cli[p].sig /\ orders'[i].run = cli[p].run
       /\ orders'[i].row = "none" /\ orders'[i].status = "open" /\ orders'[i].filled = 0
  /\ \A i \in Sent : /\ orders'[i].row # orders[i].row => orders[i].run = cli[p].run
                     /\ orders'[i].status = orders[i].status
                     /\ orders'[i].filled = orders[i].filled

\* What it does to the scanner and to the signals.
Stepped(p) ==
  /\ ~At(p, "off")
  /\ \/ UNCHANGED <<runs, saved>> /\ Gone(p)
     \/ \E s \in Signals, state \in States, next \in Points :
          UNCHANGED <<runs, saved>> /\ Turn(p, s, state, next) /\ Moved(p, s, state, next)
     \/ \E next \in Points :
          /\ runs' = runs /\ saved' \in [trades: Nat, day: Nat]
          /\ Walk(p, next) /\ Went(p, next)

LEMMA ScannedUnchanged ==
  ASSUME Typed, NEW p \in Clis, UNCHANGED <<durable, orders, work, gate, override, trusted>>
  PROVE  Scanned(p)
BY UnchangedKept DEF Scanned

LEMMA SteppedMoved ==
  ASSUME Base, NEW p \in Clis, UNCHANGED <<runs, saved>>, NEW s \in Signals, NEW state, NEW next,
         Turn(p, s, state, next), Moved(p, s, state, next)
  PROVE  Stepped(p)
<1>1. cli' \in [Clis -> Run] /\ cli'[p].at = next
  BY DEF Moved
<1>2. next \in Points
  BY <1>1 DEF Run
<1>3. Settled(cli[p].got) \in States
  BY DEF Settled, States, Working, Ended
<1>4. state \in States
  BY <1>3 DEF Turn, States, Working, Ended
<1> QED
  BY <1>2, <1>4 DEF Stepped, Turn, At

LEMMA ScannerStep ==
  ASSUME Base, NEW p \in Clis, Scanner(p), ~Start(p)
  PROVE  Scanned(p) /\ Stepped(p)
<1>1. Typed /\ Solo /\ (Busy(p) => cli[p].sig \in Signals)
  BY DEF Base, Solo
<1>2. CASE Stop(p)
  BY <1>1, <1>2, EndStep, ScannedUnchanged DEF Stop, Stepped, At
<1>3. CASE Ingest(p)
  <2>1. Scanned(p) /\ UNCHANGED <<runs, saved>> /\ At(p, "idle")
    BY <1>1, <1>3, ScannedUnchanged DEF Ingest
  <2>2. CASE Gone(p)
    BY <2>1, <2>2 DEF Stepped, At
  <2>3. ASSUME NEW s \in Signals, Stored(p, s) = "none", Moved(p, s, "SIGNAL_REJECTED", "idle")
        PROVE  Stepped(p)
    <3>1. Turn(p, s, "SIGNAL_REJECTED", "idle")
      BY <2>1, <2>3 DEF Turn
    <3> QED
      BY <2>1, <2>3, <3>1, SteppedMoved
  <2>4. ASSUME NEW s \in Signals, Stored(p, s) = "none", Moved(p, s, "RISK_CHECK", "gates")
        PROVE  Stepped(p)
    <3>1. Turn(p, s, "RISK_CHECK", "gates")
      BY <2>1, <2>4 DEF Turn
    <3> QED
      BY <2>1, <2>4, <3>1, SteppedMoved
  <2>5. \/ Gone(p)
        \/ \E s \in Signals :
             /\ Stored(p, s) = "none"
             /\ \/ Moved(p, s, "SIGNAL_REJECTED", "idle")
                \/ Moved(p, s, "RISK_CHECK", "gates")
    BY <1>1, <1>3, IngestStep
  <2> QED
    BY <2>1, <2>2, <2>3, <2>4, <2>5
<1>4. CASE Gates(p)
  <2>1. Scanned(p) /\ UNCHANGED <<runs, saved>> /\ At(p, "gates") /\ cli[p].sig \in Signals
    BY <1>1, <1>4, ScannedUnchanged DEF Gates, At, Busy
  <2>2. CASE Gone(p)
    BY <2>1, <2>2 DEF Stepped, At
  <2>3. CASE Moved(p, cli[p].sig, "RISK_REJECTED", "idle")
    <3>1. Turn(p, cli[p].sig, "RISK_REJECTED", "idle")
      BY <2>1 DEF Turn
    <3> QED
      BY <2>1, <2>3, <3>1, SteppedMoved
  <2>4. CASE /\ Went(p, "resolve")
             /\ cli'[p].sig = cli[p].sig /\ cli'[p].order = cli[p].order
             /\ signals' = signals
             /\ cli[p].gate = "OK"
             /\ ~DuplicateOrder(p, cli[p].sig)
    <3>1. Walk(p, "resolve")
      BY <2>1, <2>4 DEF Walk
    <3>2. saved' \in [trades: Nat, day: Nat] /\ runs' = runs
      BY <1>1, <2>1 DEF Typed
    <3>3. "resolve" \in Points
      BY DEF Points
    <3> QED
      BY <2>1, <2>4, <3>1, <3>2, <3>3 DEF Stepped, At
  <2> QED
    BY <1>1, <1>4, <2>1, <2>2, <2>3, <2>4, GatesStep
<1>5. CASE Resolve(p)
  <2>1. Scanned(p) /\ UNCHANGED <<runs, saved>> /\ At(p, "resolve") /\ cli[p].sig \in Signals
    BY <1>1, <1>5, ScannedUnchanged DEF Resolve, At, Busy
  <2>2. CASE Gone(p)
    BY <2>1, <2>2 DEF Stepped, At
  <2>3. CASE Moved(p, cli[p].sig, "OPTION_SELECTED", "confirm")
    <3>1. Turn(p, cli[p].sig, "OPTION_SELECTED", "confirm")
      BY <2>1 DEF Turn
    <3> QED
      BY <2>1, <2>3, <3>1, SteppedMoved
  <2>4. CASE Moved(p, cli[p].sig, "OPTION_SELECTION_FAILED", "idle")
    <3>1. Turn(p, cli[p].sig, "OPTION_SELECTION_FAILED", "idle")
      BY <2>1 DEF Turn
    <3> QED
      BY <2>1, <2>4, <3>1, SteppedMoved
  <2> QED
    BY <1>1, <1>5, <2>1, <2>2, <2>3, <2>4, ResolveStep
<1>6. CASE Confirm(p)
  <2>1. Scanned(p) /\ UNCHANGED <<runs, saved>> /\ At(p, "confirm") /\ cli[p].sig \in Signals
    BY <1>1, <1>6, ScannedUnchanged DEF Confirm, At, Busy
  <2>2. CASE Gone(p)
    BY <2>1, <2>2 DEF Stepped, At
  <2>3. CASE Moved(p, cli[p].sig, "ORDER_PENDING", "place")
    <3>1. Turn(p, cli[p].sig, "ORDER_PENDING", "place")
      BY <2>1 DEF Turn
    <3> QED
      BY <2>1, <2>3, <3>1, SteppedMoved
  <2>4. CASE Moved(p, cli[p].sig, "ORDER_REJECTED", "idle")
    <3>1. Turn(p, cli[p].sig, "ORDER_REJECTED", "idle")
      BY <2>1 DEF Turn
    <3> QED
      BY <2>1, <2>4, <3>1, SteppedMoved
  <2> QED
    BY <1>1, <1>6, <2>1, <2>2, <2>3, <2>4, ConfirmStep
<1>7. CASE Place(p)
  <2> DEFINE o == NewOrder(p, cli[p].run, Line(cli[p].sig), cli[p].sig, Lot, "open")
  <2>1. UNCHANGED <<durable, work, gate, override, trusted>> /\ UNCHANGED <<runs, saved>> /\ At(p, "place")
    BY <1>7 DEF Place
  <2>2. cli[p].sig \in Signals /\ cli[p].run \in 0..MaxRuns
    BY <1>1, <2>1 DEF At, Busy, Solo, Typed
  <2>3. o \in Order
    BY <1>1, <2>2, NewOrderTyped, Constants
  <2>4. /\ o.by = p /\ o.sig = cli[p].sig /\ o.run = cli[p].run /\ o.row = "none" /\ o.status = "open"
        /\ o.filled = 0
    BY DEF NewOrder
  <2> HIDE DEF o
  <2>5. /\ Appended(o) \/ orders' = orders
        /\ \/ /\ Appended(o)
              /\ Went(p, "verify") /\ cli'[p].sig = cli[p].sig
              /\ cli'[p].order = Len(orders) + 1
           \/ Gone(p) \/ Moved(p, cli[p].sig, "ORDER_FAILED", "idle")
    BY <1>1, <1>7, PlaceStep DEF o
  <2>6. ASSUME Appended(o)
        PROVE  Scanned(p) /\ Len(orders) + 1 \in Sent' \ Sent
    <3>1. /\ Kept
          /\ Sent' = 1..(Len(orders) + 1) /\ Len(orders) \in Nat
          /\ \A i \in Sent' \ Sent : i = Len(orders) + 1 /\ orders'[i] = o
          /\ \A i \in Sent : i \in Sent' /\ orders'[i] = orders[i]
      BY <1>1, <2>3, <2>6, AppendedKept
    <3>2. Len(orders) + 1 \in Sent' \ Sent
      BY <3>1 DEF Sent
    <3> QED
      BY <2>1, <2>4, <3>1, <3>2 DEF Scanned
  <2>7. Scanned(p)
    BY <1>1, <2>1, <2>5, <2>6, ScannedUnchanged
  <2>11. ~At(p, "off")
    BY <2>1 DEF At
  <2>8. CASE /\ Appended(o)
             /\ Went(p, "verify") /\ cli'[p].sig = cli[p].sig
             /\ cli'[p].order = Len(orders) + 1
    <3>1. Walk(p, "verify")
      BY <2>1, <2>6, <2>8 DEF Walk
    <3>2. saved' \in [trades: Nat, day: Nat] /\ runs' = runs
      BY <1>1, <2>1 DEF Typed
    <3>3. "verify" \in Points
      BY DEF Points
    <3> QED
      BY <2>7, <2>8, <2>11, <3>1, <3>2, <3>3 DEF Stepped
  <2>9. CASE Gone(p)
    BY <2>1, <2>7, <2>9 DEF Stepped, At
  <2>10. CASE Moved(p, cli[p].sig, "ORDER_FAILED", "idle")
    <3>1. Turn(p, cli[p].sig, "ORDER_FAILED", "idle")
      BY <2>1 DEF Turn
    <3> QED
      BY <2>1, <2>2, <2>7, <2>10, <3>1, SteppedMoved
  <2> QED
    BY <2>5, <2>8, <2>9, <2>10
<1>8. CASE Verify(p)
  <2>1. At(p, "verify") /\ UNCHANGED <<durable, work, gate, override, trusted>> /\ UNCHANGED <<runs, saved>>
    BY <1>8 DEF Verify
  <2>2. cli[p].order \in Sent /\ orders[cli[p].order].run = cli[p].run /\ orders[cli[p].order].by = p
    BY <2>1 DEF Base, Book, At
  <2>3. PICK verdict \in Verdicts(orders[cli[p].order]) :
          /\ RowOf(cli[p].order, verdict)
          /\ Went(p, "settle") /\ cli'[p].sig = cli[p].sig /\ cli'[p].order = cli[p].order
          /\ cli'[p].got = verdict[1]
    BY <1>1, <1>8, <2>2, VerifyStep
  <2>4. verdict[1] \in {"SUCCESS", "PARTIAL"} => orders[cli[p].order].status = "executed"
    BY <1>1, <2>2, OrderTyped, VerdictsTyped
  <2>5. Scanned(p)
    <3>1. /\ Kept /\ Sent' = Sent
          /\ \A j \in Sent : orders'[j].status = orders[j].status /\ orders'[j].filled = orders[j].filled
          /\ \A j \in Sent : orders'[j].row # orders[j].row => j = cli[p].order
      BY <1>1, <2>2, <2>3, RowKept
    <3> QED
      BY <2>1, <2>2, <3>1 DEF Scanned
  <2>6. Walk(p, "settle") /\ "settle" \in Points
    BY <2>1, <2>3, <2>4 DEF Walk, Points
  <2>7. saved' \in [trades: Nat, day: Nat] /\ runs' = runs
    BY <1>1, <2>1 DEF Typed
  <2>8. ~At(p, "off")
    BY <2>1 DEF At
  <2>9. Went(p, "settle")
    BY <2>3
  <2> QED
    BY <2>5, <2>6, <2>7, <2>8, <2>9 DEF Stepped
<1>9. CASE Settle(p)
  <2>1. Scanned(p) /\ UNCHANGED <<runs, saved>> /\ At(p, "settle") /\ cli[p].sig \in Signals
    BY <1>1, <1>9, ScannedUnchanged DEF Settle, At, Busy
  <2>2. CASE Gone(p)
    BY <2>1, <2>2 DEF Stepped, At
  <2>3. ASSUME NEW next \in {"count", "idle"}, Moved(p, cli[p].sig, Settled(cli[p].got), next)
        PROVE  Stepped(p)
    <3>1. Turn(p, cli[p].sig, Settled(cli[p].got), next)
      BY <2>1 DEF Turn
    <3> QED
      BY <2>1, <2>3, <3>1, SteppedMoved
  <2> QED
    BY <1>1, <1>9, <2>1, <2>2, <2>3, SettleStep
<1>10. CASE Count(p)
  <2>1. Scanned(p) /\ runs' = runs /\ At(p, "count")
    BY <1>1, <1>10, ScannedUnchanged DEF Count
  <2>2. Went(p, "idle") /\ cli'[p].order = 0 /\ saved' \in [trades: Nat, day: Nat]
    BY <1>1, <1>10, CountStep
  <2>3. Walk(p, "idle") /\ "idle" \in Points
    BY <2>1, <2>2 DEF Walk, Points
  <2> QED
    BY <2>1, <2>2, <2>3 DEF Stepped, At
<1> QED
  BY <1>2, <1>3, <1>4, <1>5, <1>6, <1>7, <1>8, <1>9, <1>10 DEF Scanner

LEMMA StartBase ==
  ASSUME Base, NEW p \in Clis, Start(p)
  PROVE  Base'
<1>1. /\ cli' \in [Clis -> Run]
      /\ \A q \in Clis : At(q, "off")
      /\ \A q \in Clis \ {p} : cli'[q] = cli[q]
      /\ cli'[p].at = "idle" /\ cli'[p].run = runs + 1 /\ cli'[p].order = 0
      /\ runs' = runs + 1 /\ runs' \in 0..MaxRuns
  BY StartStep DEF Base
<1>2. UNCHANGED <<durable, signals, orders, saved, work, gate, override, trusted>>
  BY DEF Start
<1>3. runs \in Nat
  BY Constants DEF Base, Typed
<1>4. Typed'
  BY <1>1, <1>2 DEF Base, Typed
<1>5. Solo'
  BY <1>1 DEF Solo, At, Busy
<1>6. Sent' = Sent
  BY <1>2 DEF Sent
<1>7. Book'
  <2>1. ASSUME NEW i \in Sent, orders[i].by \in Clis
        PROVE  orders[i].run <= runs + 1
    <3>1. orders[i].run <= runs /\ orders[i].run \in Nat
      BY <2>1, OrderTyped, Constants DEF Base, Book, Order
    <3> QED
      BY <1>3, <3>1
  <2>2. ASSUME NEW q \in Clis
        PROVE  /\ cli'[q].order \in Sent \union {0}
               /\ cli'[q].at \notin {"verify", "settle"}
    BY <1>1 DEF At, Base, Book
  <2> QED
    BY <1>1, <1>2, <1>6, <2>1, <2>2 DEF Base, Book
<1>8. Pending'
  BY <1>2, <1>6 DEF Base, Pending
<1> QED
  BY <1>4, <1>5, <1>7, <1>8 DEF Base

LEMMA SteppedScanner ==
  ASSUME Base, NEW p \in Clis, Scanned(p), Stepped(p)
  PROVE  /\ cli' \in [Clis -> Run] /\ signals' \in [Stores -> [Signals -> States]]
         /\ saved' \in [trades: Nat, day: Nat] /\ runs' = runs
         /\ \A q \in Clis \ {p} : cli'[q] = cli[q]
         /\ ~At(p, "off")' => ~At(p, "off") /\ cli'[p].run = cli[p].run
         /\ Busy(p)' => cli'[p].sig \in Signals
         /\ cli'[p].order \in Sent' \union {0}
         /\ cli'[p].at \in {"verify", "settle"} =>
              /\ cli'[p].order \in Sent'
              /\ orders'[cli'[p].order].by = p
              /\ orders'[cli'[p].order].sig = cli'[p].sig
              /\ orders'[cli'[p].order].run = cli'[p].run
<1>1. /\ signals \in [Stores -> [Signals -> States]] /\ saved \in [trades: Nat, day: Nat]
      /\ Busy(p) => cli[p].sig \in Signals
      /\ cli[p].order \in Sent \union {0}
      /\ cli[p].at \in {"verify", "settle"} =>
           /\ cli[p].order \in Sent
           /\ orders[cli[p].order].by = p
           /\ orders[cli[p].order].sig = cli[p].sig
           /\ orders[cli[p].order].run = cli[p].run
  BY DEF Base, Typed, Solo, Book
<1>2. Sent \subseteq Sent' /\ \A i \in Sent : SameOrder(orders'[i], orders[i])
  BY SentGrows DEF Base, Scanned, Kept
<1>3. CASE UNCHANGED <<runs, saved>> /\ Gone(p)
  BY <1>1, <1>3 DEF Gone, At, Busy
<1>4. ASSUME NEW s \in Signals, NEW state \in States, NEW next \in Points,
             UNCHANGED <<runs, saved>>, Turn(p, s, state, next), Moved(p, s, state, next)
      PROVE  /\ cli' \in [Clis -> Run] /\ signals' \in [Stores -> [Signals -> States]]
             /\ saved' \in [trades: Nat, day: Nat] /\ runs' = runs
             /\ \A q \in Clis \ {p} : cli'[q] = cli[q]
             /\ ~At(p, "off") /\ cli'[p].run = cli[p].run
             /\ Busy(p)' => cli'[p].sig \in Signals
             /\ cli'[p].order \in Sent' \union {0}
             /\ cli'[p].at \notin {"verify", "settle"}
  <2>1. ~At(p, "off") /\ next \notin {"verify", "settle"}
    BY <1>4 DEF Turn, At
  <2>2. cli'[p].order \in Sent' \union {0}
    BY <1>1, <1>2, <1>4 DEF Moved
  <2> QED
    BY <1>1, <1>4, <2>1, <2>2 DEF Moved, Busy
<1>5. ASSUME NEW next \in Points, runs' = runs, saved' \in [trades: Nat, day: Nat],
             Walk(p, next), Went(p, next)
      PROVE  /\ cli' \in [Clis -> Run] /\ signals' \in [Stores -> [Signals -> States]]
             /\ \A q \in Clis \ {p} : cli'[q] = cli[q]
             /\ ~At(p, "off") /\ cli'[p].run = cli[p].run
             /\ Busy(p)' => cli'[p].sig \in Signals
             /\ cli'[p].order \in Sent' \union {0}
             /\ cli'[p].at \in {"verify", "settle"} =>
                  /\ cli'[p].order \in Sent'
                  /\ orders'[cli'[p].order].by = p
                  /\ orders'[cli'[p].order].sig = cli'[p].sig
                  /\ orders'[cli'[p].order].run = cli'[p].run
  <2>1. ~At(p, "off")
    BY <1>5 DEF Walk, At
  <2>2. cli'[p].at = next /\ cli'[p].run = cli[p].run
    BY <1>5 DEF Went
  <2>3. next # "idle" => Busy(p) /\ cli'[p].sig = cli[p].sig
    BY <1>5 DEF Walk, At, Busy
  <2>4. Busy(p)' => cli'[p].sig \in Signals
    BY <1>1, <2>2, <2>3 DEF Busy
  <2>5. next = "verify" =>
          /\ cli'[p].order \in Sent' \ Sent
          /\ orders'[cli'[p].order].by = p
          /\ orders'[cli'[p].order].sig = cli[p].sig
          /\ orders'[cli'[p].order].run = cli[p].run
    BY <1>5 DEF Walk, Scanned
  <2>6. next = "settle" => At(p, "verify") /\ cli'[p].order = cli[p].order
    BY <1>5 DEF Walk
  <2>7. next = "settle" =>
          /\ cli'[p].order \in Sent'
          /\ orders'[cli'[p].order].by = p
          /\ orders'[cli'[p].order].sig = cli[p].sig
          /\ orders'[cli'[p].order].run = cli[p].run
    BY <1>1, <1>2, <2>6 DEF At, SameOrder
  <2>8. next = "resolve" \/ next = "idle" => cli'[p].order \in Sent' \union {0}
    BY <1>1, <1>2, <1>5 DEF Walk
  <2>9. next \in {"resolve", "verify", "settle", "idle"}
    BY <1>5 DEF Walk
  <2> QED
    BY <1>1, <1>5, <2>1, <2>2, <2>3, <2>4, <2>5, <2>7, <2>8, <2>9 DEF Went
<1> QED
  BY <1>3, <1>4, <1>5 DEF Stepped

\* What a step of a scanner keeps.
LEMMA ScannerBase ==
  ASSUME Base, NEW p \in Clis, Scanned(p), Stepped(p)
  PROVE  Base'
<1>1. /\ cli' \in [Clis -> Run] /\ signals' \in [Stores -> [Signals -> States]]
      /\ saved' \in [trades: Nat, day: Nat] /\ runs' = runs
      /\ \A q \in Clis \ {p} : cli'[q] = cli[q]
      /\ ~At(p, "off")' => ~At(p, "off") /\ cli'[p].run = cli[p].run
      /\ Busy(p)' => cli'[p].sig \in Signals
      /\ cli'[p].order \in Sent' \union {0}
      /\ cli'[p].at \in {"verify", "settle"} =>
           /\ cli'[p].order \in Sent'
           /\ orders'[cli'[p].order].by = p
           /\ orders'[cli'[p].order].sig = cli'[p].sig
           /\ orders'[cli'[p].order].run = cli'[p].run
  BY SteppedScanner
<1>2. UNCHANGED <<durable, work, gate, override, trusted>> /\ Kept
  BY DEF Scanned
<1>3. Sent \subseteq Sent' /\ \A i \in Sent : SameOrder(orders'[i], orders[i])
  BY <1>2, SentGrows DEF Base, Kept
<1>4. Typed'
  BY <1>1, <1>2 DEF Base, Typed, Kept
<1>5. Solo'
  BY <1>1 DEF Base, Solo, At, Busy
<1>6. Book'
  <2>1. ASSUME NEW i \in Sent'
        PROVE  /\ orders'[i].by \in Clis => orders'[i].sig \in Signals /\ orders'[i].run <= runs
               /\ orders'[i].by \in Threads => orders'[i].sig = <<>>
               /\ orders'[i].status = "executed" => orders'[i].filled > 0
               /\ orders'[i].status = "open" => orders'[i].filled = 0
    <3>1. CASE i \in Sent
      <4>1. /\ orders'[i].by = orders[i].by /\ orders'[i].sig = orders[i].sig /\ orders'[i].run = orders[i].run
            /\ orders'[i].status = orders[i].status /\ orders'[i].filled = orders[i].filled
        BY <1>3, <3>1 DEF SameOrder, Scanned
      <4> QED
        BY <3>1, <4>1 DEF Base, Book
    <3>2. CASE i \notin Sent
      <4>1. At(p, "place") /\ orders'[i].by = p /\ orders'[i].sig = cli[p].sig
            /\ orders'[i].run = cli[p].run /\ orders'[i].status = "open" /\ orders'[i].filled = 0
        BY <3>2 DEF Scanned
      <4>2. cli[p].sig \in Signals /\ cli[p].run = runs /\ runs \in Nat
        BY <4>1, Constants DEF Base, Solo, Typed, At, Busy
      <4> QED
        BY <4>1, <4>2, Constants
    <3> QED
      BY <3>1, <3>2
  <2>2. ASSUME NEW q \in Clis \ {p}
        PROVE  /\ cli[q].order \in Sent' \union {0}
               /\ cli[q].at \in {"verify", "settle"} =>
                    /\ cli[q].order \in Sent'
                    /\ orders'[cli[q].order].by = q
                    /\ orders'[cli[q].order].sig = cli[q].sig
                    /\ orders'[cli[q].order].run = cli[q].run
    BY <1>3 DEF Base, Book, SameOrder
  <2>3. ASSUME NEW q \in Clis
        PROVE  /\ cli'[q].order \in Sent' \union {0}
               /\ cli'[q].at \in {"verify", "settle"} =>
                    /\ cli'[q].order \in Sent'
                    /\ orders'[cli'[q].order].by = q
                    /\ orders'[cli'[q].order].sig = cli'[q].sig
                    /\ orders'[cli'[q].order].run = cli'[q].run
    BY <1>1, <2>2
  <2> QED
    BY <1>1, <2>1, <2>3 DEF Book
<1>7. Pending'
  BY <1>2, PendingKept
<1> QED
  BY <1>4, <1>5, <1>6, <1>7 DEF Base

-----------------------------------------------------------------------------
\* The base of every invariant, and the kinds of step.

LEMMA BaseInit ==
  ASSUME Init
  PROVE  Base
<1>1. signals \in [Stores -> [Signals -> States]] /\ cli \in [Clis -> Run] /\ work \in [Threads -> Job]
  BY OffTyped, RestingTyped DEF Init, Stores, States
<1>2. saved \in [trades: Nat, day: Nat] /\ runs \in 0..MaxRuns /\ gate \in Checks
  BY Constants DEF Init, Checks
<1>3. orders = <<>> /\ Sent = {}
  BY DEF Init, Sent
<1>4. Typed
  <2>1. durable \in BOOLEAN /\ override \in BOOLEAN /\ trusted \in BOOLEAN
    BY DEF Init
  <2>2. orders \in Seq(Order)
    BY <1>3
  <2> QED
    BY <1>1, <1>2, <2>1, <2>2 DEF Typed
<1>5. \A p \in Clis : cli[p].at = "off" /\ cli[p].order = 0
  BY DEF Init, Off
<1>6. \A t \in Threads : work[t].at = "rest" /\ work[t].seen = {} /\ work[t].sent = 0
  BY RestingTyped DEF Init
<1> QED
  BY <1>3, <1>4, <1>5, <1>6 DEF Base, Solo, Book, Pending, At, Busy

LEMMA BaseNext ==
  ASSUME Base, [Next]_vars
  PROVE  /\ Base'
         /\ \/ \E p \in Clis : Start(p)
            \/ \E p \in Clis : Scanned(p) /\ Stepped(p)
            \/ Aside
<1>1. Typed /\ work \in [Threads -> Job]
  BY DEF Base, Typed
<1>2. ASSUME NEW p \in Clis, Scanner(p)
      PROVE  Base' /\ (Start(p) \/ (Scanned(p) /\ Stepped(p)))
  <2>1. CASE Start(p)
    <3>1. Base'
      BY <2>1, StartBase
    <3> QED
      BY <2>1, <3>1
  <2>2. CASE ~Start(p)
    <3>1. Scanned(p) /\ Stepped(p)
      BY <1>2, <2>2, ScannerStep
    <3>2. Base'
      BY <3>1, ScannerBase
    <3> QED
      BY <3>1, <3>2
  <2> QED
    BY <2>1, <2>2
<1>3. ASSUME Aside, UNCHANGED work, gate' \in Checks, override' \in BOOLEAN, trusted' \in BOOLEAN
      PROVE  Base'
  BY <1>1, <1>3, AsideBase, PendingKept DEF Aside
<1>4. ASSUME NEW t \in Threads, Request(t)
      PROVE  Base' /\ Aside
  <2>1. Aside /\ Pending' /\ work' \in [Threads -> Job]
    BY <1>4, RequestStep
  <2>2. gate' \in Checks /\ override' \in BOOLEAN /\ trusted' \in BOOLEAN
    <3>1. CASE Compare(t)
      BY <1>1, <3>1, CompareStep
    <3>2. CASE ~Compare(t)
      BY <1>1, <1>4, <3>2 DEF Request, Ask, Decide, PlaceManual, VerifyManual, Typed
    <3> QED
      BY <3>1, <3>2
  <2> QED
    BY <2>1, <2>2, AsideBase
<1>5. ASSUME NEW i \in Sent, Finish(i)
      PROVE  Base' /\ Aside
  <2>1. Aside /\ UNCHANGED <<work, gate, override, trusted>>
    BY <1>5, AsideFinish
  <2> QED
    BY <1>1, <1>3, <2>1 DEF Typed
<1>6. CASE Override \/ EndOverride
  <2>1. Aside /\ UNCHANGED work
    BY <1>6, AsideUnchanged DEF Override, EndOverride
  <2>2. gate' \in Checks /\ override' \in BOOLEAN /\ trusted' \in BOOLEAN
    BY <1>1, <1>6 DEF Override, EndOverride, Typed
  <2> QED
    BY <1>3, <2>1, <2>2
<1>7. CASE Restart
  <2>1. Aside
    BY <1>7, AsideUnchanged DEF Restart
  <2>2. gate' \in Checks /\ override' \in BOOLEAN /\ trusted' \in BOOLEAN
    <3>1. PICK rows : \E check \in ChecksOf(rows) : gate' = check /\ trusted' = (check = "OK")
      BY <1>7 DEF Restart
    <3>2. gate' \in ChecksOf(rows) /\ trusted' \in BOOLEAN
      BY <3>1
    <3>3. override' = FALSE
      BY <1>7 DEF Restart
    <3> QED
      BY <3>2, <3>3 DEF ChecksOf, Evaluate, Checks
  <2>3. work' \in [Threads -> Job]
        /\ \A t \in Threads : work'[t].at = "rest" /\ work'[t].seen = {} /\ work'[t].sent = 0
    BY <1>7, RestingTyped DEF Restart
  <2>4. Pending'
    BY <2>3 DEF Pending
  <2> QED
    BY <2>1, <2>2, <2>3, <2>4, AsideBase
<1>8. CASE UNCHANGED vars
  <2>1. Aside /\ UNCHANGED <<work, gate, override, trusted>>
    BY <1>8, AsideUnchanged DEF vars
  <2> QED
    BY <1>1, <1>3, <2>1 DEF Typed
<1> QED
  BY <1>2, <1>4, <1>5, <1>6, <1>7, <1>8 DEF Next

LEMMA BaseTypeOK ==
  ASSUME Base
  PROVE  TypeOK
<1>1. \A i \in Sent : orders[i] \in Order
  BY OrderTyped DEF Base
<1>2. \A p \in Clis : /\ cli[p].sig \in Signals \union {<<>>}
                      /\ cli[p].gate \in Checks
                      /\ cli[p].order \in Sent \union {0}
                      /\ {cli[p].trades, cli[p].day, cli[p].run} \subseteq Nat
                      /\ cli[p].blind \in BOOLEAN
  BY DEF Base, Typed, Run, Book
<1>3. \A t \in Threads : work[t].seen \subseteq Sent /\ work[t].sent \in Sent \union {0}
  BY DEF Base, Pending
<1> QED
  BY <1>1, <1>2, <1>3 DEF TypeOK, Base, Typed, Stores

LEMMA BaseAlways == Spec => []Base
<1>1. Init => Base
  BY BaseInit
<1>2. Base /\ [Next]_vars => Base'
  BY BaseNext
<1> QED
  BY <1>1, <1>2, PTL DEF Spec

\* Type correctness of the scanner, the dashboard and the order book they
\* share: every pointer a process holds into the book is to an order in it.
THEOREM LiveTypeCorrect == Spec => []TypeOK
BY BaseAlways, BaseTypeOK, PTL

-----------------------------------------------------------------------------
\* What the invariants below need of a scanner's step.

LEMMA ScannerParts ==
  ASSUME Base, NEW p \in Clis, Scanned(p), Stepped(p)
  PROVE  /\ Sent \subseteq Sent' /\ durable' = durable
         /\ \A i \in Sent : /\ orders'[i].by = orders[i].by /\ orders'[i].sig = orders[i].sig
                            /\ orders'[i].run = orders[i].run /\ orders'[i].filled = orders[i].filled
                            /\ orders'[i].status = orders[i].status
         /\ \A q \in Clis \ {p} : At(q, "off") /\ cli'[q] = cli[q] /\ cli'[q].at = "off"
         /\ cli'[p].at # "off" => cli'[p].run = cli[p].run
         /\ cli[p].at # "off" /\ p \in Stores /\ "db" \in Stores /\ p # "db"
         /\ Busy(p) => cli[p].sig \in Signals
<1>1. Sent \subseteq Sent' /\ \A i \in Sent : SameOrder(orders'[i], orders[i])
  BY SentGrows DEF Base, Scanned, Kept
<1>2. cli[p].at # "off"
  BY DEF Stepped, At
<1>3. \A q \in Clis \ {p} : At(q, "off")
  BY <1>2 DEF Base, Solo, At
<1>4. \A q \in Clis \ {p} : cli'[q] = cli[q]
  BY SteppedScanner
<1>5. cli'[p].at # "off" => cli'[p].run = cli[p].run
  BY SteppedScanner DEF At
<1>6. Busy(p) => cli[p].sig \in Signals
  BY DEF Base, Solo
<1> QED
  BY <1>1, <1>2, <1>3, <1>4, <1>5, <1>6, Constants DEF SameOrder, Scanned, Stores, At

LEMMA StartParts ==
  ASSUME Base, NEW p \in Clis, Start(p)
  PROVE  /\ UNCHANGED <<durable, signals, orders, work, gate, override, trusted>> /\ Sent' = Sent
         /\ \A q \in Clis \ {p} : cli'[q].at = "off"
         /\ cli'[p].at = "idle" /\ cli'[p].run = runs + 1
         /\ cli'[p].gate = "OK" /\ ~cli'[p].blind => UnconfirmedOrders(Rows(Clis)) = {}
BY StartStep DEF Base, Start, At, Sent

\* An order for a signal is a scanner's.
LEMMA ScannerOrders ==
  ASSUME Base, NEW i \in Sent, orders[i].sig \in Signals
  PROVE  orders[i].by \in Clis /\ orders[i].run \in Nat /\ orders[i].run <= runs
<1>1. orders[i].by \in Clis \union Threads /\ orders[i].run \in 0..MaxRuns
  BY OrderTyped DEF Base, Order
<1>2. orders[i].by \notin Threads
  BY NotASignal DEF Base, Book
<1> QED
  BY <1>1, <1>2, Constants DEF Base, Book

-----------------------------------------------------------------------------
\* One order for a signal.

\* A signal an order was sent for is on record: in the database if there is
\* one, and in the memory of the run that sent it.  A signal that is worked
\* but not sent has no order, or one of another run without a database.
Fresh ==
  /\ \A i \in Sent : orders[i].by \in Clis =>
       /\ durable => signals["db"][orders[i].sig] # "none"
       /\ \A p \in Clis : cli[p].at # "off" /\ orders[i].run = cli[p].run =>
            signals[p][orders[i].sig] # "none"
  /\ \A p \in Clis, i \in Sent :
       cli[p].at \in {"gates", "resolve", "confirm", "place"} /\ orders[i].sig = cli[p].sig =>
         ~durable /\ orders[i].run # cli[p].run
  /\ \A p \in Clis : Busy(p) =>
       /\ signals[p][cli[p].sig] # "none"
       /\ durable => signals["db"][cli[p].sig] # "none"
  /\ OneOrderPerSignal

LEMMA StoredNone ==
  ASSUME NEW p \in Clis, NEW s \in Signals, Stored(p, s) = "none"
  PROVE  signals[p][s] = "none" /\ (durable => signals["db"][s] = "none")
BY DEF Stored

LEMMA FreshAside ==
  ASSUME Base, Fresh, Aside
  PROVE  Fresh'
<1>1. UNCHANGED <<durable, signals, cli>>
  BY DEF Aside
<1>2. Sent \subseteq Sent' /\ \A i \in Sent : SameOrder(orders'[i], orders[i])
  BY SentGrows DEF Base, Aside, Kept
<1>3. \A i \in Sent' \ Sent : orders'[i].by \notin Clis /\ orders'[i].sig = <<>>
  BY Constants DEF Aside
<1>4. \A p \in Clis : cli[p].at \in {"gates", "resolve", "confirm", "place"} => cli[p].sig # <<>>
  BY NotASignal DEF Base, Solo, Busy
<1>5. ASSUME NEW i \in Sent', orders'[i].by \in Clis
      PROVE  /\ durable => signals["db"][orders'[i].sig] # "none"
             /\ \A p \in Clis : cli[p].at # "off" /\ orders'[i].run = cli[p].run =>
                  signals[p][orders'[i].sig] # "none"
  <2>1. i \in Sent
    BY <1>3, <1>5
  <2>2. orders'[i].by = orders[i].by /\ orders'[i].sig = orders[i].sig /\ orders'[i].run = orders[i].run
    BY <1>2, <2>1 DEF SameOrder
  <2> QED
    BY <1>5, <2>1, <2>2 DEF Fresh
<1>6. ASSUME NEW p \in Clis, NEW i \in Sent',
             cli[p].at \in {"gates", "resolve", "confirm", "place"}, orders'[i].sig = cli[p].sig
      PROVE  ~durable /\ orders'[i].run # cli[p].run
  <2>1. i \in Sent
    BY <1>3, <1>4, <1>6
  <2>2. orders'[i].sig = orders[i].sig /\ orders'[i].run = orders[i].run
    BY <1>2, <2>1 DEF SameOrder
  <2> QED
    BY <1>6, <2>1, <2>2 DEF Fresh
<1>7. ASSUME NEW i \in Sent', NEW j \in Sent', i # j, orders'[i].sig = orders'[j].sig, orders'[i].sig # <<>>
      PROVE  ~durable /\ orders'[i].run # orders'[j].run
  <2>1. i \in Sent /\ j \in Sent
    BY <1>3, <1>7
  <2>2. /\ orders'[i].sig = orders[i].sig /\ orders'[i].run = orders[i].run
        /\ orders'[j].sig = orders[j].sig /\ orders'[j].run = orders[j].run
    BY <1>2, <2>1 DEF SameOrder
  <2> QED
    BY <1>7, <2>1, <2>2 DEF Fresh, OneOrderPerSignal
<1>8. OneOrderPerSignal'
  BY <1>1, <1>7 DEF OneOrderPerSignal
<1>9. \A p \in Clis : Busy(p)' =>
        /\ signals'[p][cli'[p].sig] # "none"
        /\ durable' => signals'["db"][cli'[p].sig] # "none"
  BY <1>1 DEF Fresh, Busy
<1> QED
  BY <1>1, <1>5, <1>6, <1>8, <1>9 DEF Fresh

LEMMA FreshStart ==
  ASSUME Base, Fresh, NEW p \in Clis, Start(p)
  PROVE  Fresh'
<1>1. /\ UNCHANGED <<durable, signals, orders>> /\ Sent' = Sent
      /\ \A q \in Clis \ {p} : cli'[q].at = "off"
      /\ cli'[p].at = "idle" /\ cli'[p].run = runs + 1
  BY StartParts
<1>2. \A i \in Sent : orders[i].by \in Clis => orders[i].run # runs + 1
  <2>1. \A i \in Sent : orders[i].run \in Nat /\ runs \in Nat
    BY OrderTyped, Constants DEF Base, Order, Typed
  <2>2. \A i \in Sent : orders[i].by \in Clis => orders[i].run <= runs
    BY DEF Base, Book
  <2> QED
    BY <2>1, <2>2
<1>3. \A q \in Clis : cli'[q].at \in {"off", "idle"}
  BY <1>1
<1>4. \A q \in Clis : cli'[q].at # "off" => cli'[q].run = runs + 1
  BY <1>1
<1>5. OneOrderPerSignal'
  BY <1>1 DEF Fresh, OneOrderPerSignal
<1>6. \A i \in Sent : orders[i].by \in Clis =>
        /\ durable => signals["db"][orders[i].sig] # "none"
        /\ \A q \in Clis : cli'[q].at # "off" /\ orders[i].run = cli'[q].run =>
             signals[q][orders[i].sig] # "none"
  BY <1>2, <1>4 DEF Fresh
<1> QED
  BY <1>1, <1>3, <1>5, <1>6 DEF Fresh, Busy

\* What a step of the scanner p leaves of the signals and of its own.
LEMMA FreshStepped ==
  ASSUME Base, Fresh, NEW p \in Clis, Scanned(p), Stepped(p)
  PROVE  /\ \A s \in Signals :
              /\ signals["db"][s] # "none" => signals'["db"][s] # "none"
              /\ cli'[p].at # "off" /\ signals[p][s] # "none" => signals'[p][s] # "none"
         /\ Busy(p)' => /\ signals'[p][cli'[p].sig] # "none"
                        /\ durable => signals'["db"][cli'[p].sig] # "none"
         /\ cli'[p].at \in {"gates", "resolve", "confirm", "place"} =>
              /\ cli[p].at # "place"
              /\ \A i \in Sent : orders[i].sig = cli'[p].sig => ~durable /\ orders[i].run # cli[p].run
<1>1. /\ p \in Stores /\ "db" \in Stores /\ p # "db"
      /\ cli[p].at # "off"
      /\ Busy(p) => cli[p].sig \in Signals
  BY ScannerParts
<1>2. CASE Gone(p)
  BY <1>1, <1>2 DEF Gone, Busy
<1>3. ASSUME NEW s \in Signals, NEW state \in States, NEW next \in Points,
             Turn(p, s, state, next), Moved(p, s, state, next)
      PROVE  /\ \A r \in Signals :
                  /\ signals["db"][r] # "none" => signals'["db"][r] # "none"
                  /\ signals[p][r] # "none" => signals'[p][r] # "none"
             /\ Busy(p)' => /\ signals'[p][cli'[p].sig] # "none"
                            /\ durable => signals'["db"][cli'[p].sig] # "none"
             /\ cli'[p].at \in {"gates", "resolve", "confirm", "place"} =>
                  /\ cli[p].at # "place"
                  /\ \A i \in Sent : orders[i].sig = cli'[p].sig => ~durable /\ orders[i].run # cli[p].run
  <2>1. state # "none" /\ next # "off"
    BY <1>3 DEF Turn, Settled
  <2>2. \A store \in Stores, r \in Signals :
          signals'[store][r] = IF r = s /\ (store = p \/ (store = "db" /\ durable))
                                 THEN state ELSE signals[store][r]
    BY <1>3 DEF Moved
  <2>3. cli'[p].at = next /\ (next # "idle" => cli'[p].sig = s)
    BY <1>3 DEF Moved
  <2>4. signals'[p][s] # "none" /\ (durable => signals'["db"][s] # "none")
    BY <1>1, <2>1, <2>2
  <2>5. CASE next \in {"gates", "resolve", "confirm", "place"}
    <3>1. cli[p].at # "place"
      BY <1>3, <2>5 DEF Turn, At
    <3>2. ASSUME Stored(p, s) = "none"
          PROVE  \A i \in Sent : orders[i].sig = s => ~durable /\ orders[i].run # cli[p].run
      <4>1. signals[p][s] = "none" /\ (durable => signals["db"][s] = "none")
        BY <3>2, StoredNone
      <4>2. ASSUME NEW i \in Sent, orders[i].sig = s
            PROVE  ~durable /\ orders[i].run # cli[p].run
        <5>1. orders[i].by \in Clis
          BY <4>2, ScannerOrders
        <5> QED
          BY <1>1, <4>1, <4>2, <5>1 DEF Fresh
      <4> QED
        BY <4>2
    <3>3. ASSUME s = cli[p].sig /\ cli[p].at \in {"gates", "resolve", "confirm"}
          PROVE  \A i \in Sent : orders[i].sig = s => ~durable /\ orders[i].run # cli[p].run
      BY <3>3 DEF Fresh
    <3>4. Stored(p, s) = "none" \/ (s = cli[p].sig /\ cli[p].at \in {"gates", "resolve", "confirm"})
      BY <1>3, <2>5 DEF Turn, At
    <3> QED
      BY <1>1, <2>1, <2>2, <2>3, <2>4, <2>5, <3>1, <3>2, <3>3, <3>4 DEF Busy
  <2>6. CASE next \notin {"gates", "resolve", "confirm", "place"}
    BY <1>1, <2>1, <2>2, <2>3, <2>4, <2>6 DEF Busy
  <2> QED
    BY <2>5, <2>6
<1>4. ASSUME NEW next \in Points, Walk(p, next), Went(p, next)
      PROVE  /\ signals' = signals
             /\ Busy(p)' => /\ signals'[p][cli'[p].sig] # "none"
                            /\ durable => signals'["db"][cli'[p].sig] # "none"
             /\ cli'[p].at \in {"gates", "resolve", "confirm", "place"} =>
                  /\ cli[p].at # "place"
                  /\ \A i \in Sent : orders[i].sig = cli'[p].sig => ~durable /\ orders[i].run # cli[p].run
  <2>1. signals' = signals /\ cli'[p].at = next
    BY <1>4 DEF Went
  <2>2. next # "idle" => Busy(p) /\ cli'[p].sig = cli[p].sig
    BY <1>4 DEF Walk, At, Busy
  <2>3. Busy(p) => signals[p][cli[p].sig] # "none" /\ (durable => signals["db"][cli[p].sig] # "none")
    BY DEF Fresh
  <2>4. next \in {"gates", "resolve", "confirm", "place"} => cli[p].at = "gates"
    BY <1>4 DEF Walk, At
  <2> QED
    BY <2>1, <2>2, <2>3, <2>4 DEF Fresh, Busy
<1> QED
  BY <1>2, <1>3, <1>4 DEF Stepped

LEMMA FreshScanner ==
  ASSUME Base, Fresh, NEW p \in Clis, Scanned(p), Stepped(p)
  PROVE  Fresh'
<1>1. /\ Sent \subseteq Sent' /\ durable' = durable
      /\ \A i \in Sent : /\ orders'[i].by = orders[i].by /\ orders'[i].sig = orders[i].sig
                         /\ orders'[i].run = orders[i].run
      /\ \A q \in Clis \ {p} : cli'[q].at = "off"
      /\ cli'[p].at # "off" => cli'[p].run = cli[p].run
      /\ Busy(p) => cli[p].sig \in Signals
  BY ScannerParts
<1>2. /\ \A s \in Signals :
           /\ signals["db"][s] # "none" => signals'["db"][s] # "none"
           /\ cli'[p].at # "off" /\ signals[p][s] # "none" => signals'[p][s] # "none"
      /\ Busy(p)' => /\ signals'[p][cli'[p].sig] # "none"
                     /\ durable => signals'["db"][cli'[p].sig] # "none"
      /\ cli'[p].at \in {"gates", "resolve", "confirm", "place"} =>
           /\ cli[p].at # "place"
           /\ \A i \in Sent : orders[i].sig = cli'[p].sig => ~durable /\ orders[i].run # cli[p].run
  BY FreshStepped
<1>3. \A i \in Sent' \ Sent :
        /\ cli[p].at = "place" /\ i = Len(orders) + 1
        /\ orders'[i].sig = cli[p].sig /\ orders'[i].run = cli[p].run
  BY DEF Scanned, At
<1>4. cli[p].at = "place" =>
        /\ cli[p].sig \in Signals
        /\ signals[p][cli[p].sig] # "none" /\ (durable => signals["db"][cli[p].sig] # "none")
        /\ \A i \in Sent : orders[i].sig = cli[p].sig => ~durable /\ orders[i].run # cli[p].run
  BY <1>1 DEF Fresh, Busy
<1>5. ASSUME NEW i \in Sent', orders'[i].by \in Clis
      PROVE  /\ durable => signals'["db"][orders'[i].sig] # "none"
             /\ cli'[p].at # "off" /\ orders'[i].run = cli[p].run => signals'[p][orders'[i].sig] # "none"
  <2>1. CASE i \in Sent
    <3>1. orders[i].by \in Clis /\ orders'[i].sig = orders[i].sig /\ orders'[i].run = orders[i].run
      BY <1>1, <1>5, <2>1
    <3>2. orders[i].sig \in Signals
      BY <2>1, <3>1 DEF Base, Book
    <3>3. durable => signals["db"][orders[i].sig] # "none"
      BY <2>1, <3>1 DEF Fresh
    <3>4. cli'[p].at # "off" /\ orders[i].run = cli[p].run => signals[p][orders[i].sig] # "none"
      BY <2>1, <3>1, ScannerParts DEF Fresh
    <3> QED
      BY <1>2, <3>1, <3>2, <3>3, <3>4
  <2>2. CASE i \notin Sent
    BY <1>2, <1>3, <1>4, <2>2
  <2> QED
    BY <2>1, <2>2
<1>6. ASSUME NEW i \in Sent', cli'[p].at \in {"gates", "resolve", "confirm", "place"},
             orders'[i].sig = cli'[p].sig
      PROVE  ~durable /\ orders'[i].run # cli[p].run
  <2>1. i \in Sent
    BY <1>2, <1>3, <1>6
  <2> QED
    BY <1>1, <1>2, <1>6, <2>1
<1>7. OneOrderPerSignal'
  <2>1. ASSUME NEW i \in Sent', NEW j \in Sent', i # j, orders'[i].sig = orders'[j].sig, orders'[i].sig # <<>>
        PROVE  ~durable /\ orders'[i].run # orders'[j].run
    <3>1. CASE i \in Sent /\ j \in Sent
      BY <1>1, <2>1, <3>1 DEF Fresh, OneOrderPerSignal
    <3>2. CASE i \in Sent /\ j \notin Sent
      BY <1>1, <1>3, <1>4, <2>1, <3>2
    <3>3. CASE i \notin Sent /\ j \in Sent
      BY <1>1, <1>3, <1>4, <2>1, <3>3
    <3>4. i \in Sent \/ j \in Sent
      BY <1>3, <2>1
    <3> QED
      BY <3>1, <3>2, <3>3, <3>4
  <2> QED
    BY <1>1, <2>1 DEF OneOrderPerSignal
<1>8. ASSUME NEW i \in Sent', orders'[i].by \in Clis, NEW q \in Clis,
             cli'[q].at # "off", orders'[i].run = cli'[q].run
      PROVE  signals'[q][orders'[i].sig] # "none"
  <2>1. q = p
    BY <1>1, <1>8
  <2> QED
    BY <1>1, <1>5, <1>8, <2>1
<1>9. ASSUME NEW q \in Clis, NEW i \in Sent',
             cli'[q].at \in {"gates", "resolve", "confirm", "place"}, orders'[i].sig = cli'[q].sig
      PROVE  ~durable /\ orders'[i].run # cli'[q].run
  <2>1. q = p
    BY <1>1, <1>9
  <2> QED
    BY <1>1, <1>6, <1>9, <2>1
<1>10. ASSUME NEW q \in Clis, Busy(q)'
       PROVE  signals'[q][cli'[q].sig] # "none" /\ (durable => signals'["db"][cli'[q].sig] # "none")
  <2>1. q = p
    BY <1>1, <1>10 DEF Busy
  <2> QED
    BY <1>2, <1>10, <2>1
<1> QED
  BY <1>1, <1>5, <1>7, <1>8, <1>9, <1>10 DEF Fresh

\* The scanner sends at most one order for a signal, however often a candle
\* is scanned again and whatever ended the earlier runs (ingest).
THEOREM LiveOneOrderPerSignal == Spec => []OneOrderPerSignal
<1>1. Init => Fresh
  BY DEF Init, Fresh, OneOrderPerSignal, Sent, Busy, Off
<1>2. Base /\ Fresh /\ [Next]_vars => Fresh'
  BY BaseNext, FreshAside, FreshStart, FreshScanner
<1>3. Fresh => OneOrderPerSignal
  BY DEF Fresh
<1> QED
  BY <1>1, <1>2, <1>3, BaseAlways, PTL DEF Spec

-----------------------------------------------------------------------------
\* One signal of a line in flight.

InFlight(s) == signals["db"][s] \in InFlightOrder

\* A signal past the duplicate gate is the only one of its line that can be
\* in flight, and before its order it is not in flight itself.
Flight ==
  durable =>
    /\ \A p \in Clis : cli[p].at \in {"resolve", "confirm"} =>
         \A s \in Signals : Line(s) = Line(cli[p].sig) => ~InFlight(s)
    /\ \A p \in Clis : cli[p].at \in {"place", "verify", "settle"} =>
         \A s \in Signals : Line(s) = Line(cli[p].sig) /\ InFlight(s) => s = cli[p].sig
    /\ \A r, s \in Signals : Line(r) = Line(s) /\ InFlight(r) /\ InFlight(s) => r = s

LEMMA FlightStart ==
  ASSUME Base, Flight, NEW p \in Clis, Start(p)
  PROVE  Flight'
<1>1. /\ UNCHANGED <<durable, signals>>
      /\ \A q \in Clis \ {p} : cli'[q].at = "off"
      /\ cli'[p].at = "idle"
  BY StartParts
<1>2. \A q \in Clis : cli'[q].at \in {"off", "idle"}
  BY <1>1
<1> QED
  BY <1>1, <1>2 DEF Flight, InFlight

LEMMA FlightScanner ==
  ASSUME Base, Flight, NEW p \in Clis, Scanned(p), Stepped(p)
  PROVE  Flight'
<1>1. /\ durable' = durable
      /\ \A q \in Clis \ {p} : cli'[q].at = "off"
      /\ p \in Stores /\ "db" \in Stores /\ p # "db"
      /\ Busy(p) => cli[p].sig \in Signals
  BY ScannerParts
<1>2. SUFFICES ASSUME durable
               PROVE  /\ cli'[p].at \in {"resolve", "confirm"} =>
                           \A s \in Signals : Line(s) = Line(cli'[p].sig) => ~InFlight(s)'
                      /\ cli'[p].at \in {"place", "verify", "settle"} =>
                           \A s \in Signals : Line(s) = Line(cli'[p].sig) /\ InFlight(s)' => s = cli'[p].sig
                      /\ \A r, s \in Signals : Line(r) = Line(s) /\ InFlight(r)' /\ InFlight(s)' => r = s
  <2>1. \A q \in Clis : cli'[q].at # "off" => q = p
    BY <1>1
  <2> QED
    BY <1>1, <2>1 DEF Flight
<1>3. CASE Gone(p)
  <2>1. \A s \in Signals : InFlight(s)' = InFlight(s)
    BY <1>1, <1>3 DEF Gone, InFlight
  <2> QED
    BY <1>2, <1>3, <2>1 DEF Gone, Flight
<1>4. ASSUME NEW s \in Signals, NEW state \in States, NEW next \in Points,
             Turn(p, s, state, next), Moved(p, s, state, next)
      PROVE  /\ cli'[p].at \in {"resolve", "confirm"} =>
                  \A r \in Signals : Line(r) = Line(cli'[p].sig) => ~InFlight(r)'
             /\ cli'[p].at \in {"place", "verify", "settle"} =>
                  \A r \in Signals : Line(r) = Line(cli'[p].sig) /\ InFlight(r)' => r = cli'[p].sig
             /\ \A q, r \in Signals : Line(q) = Line(r) /\ InFlight(q)' /\ InFlight(r)' => q = r
  <2>1. \A r \in Signals \ {s} : InFlight(r)' = InFlight(r)
    BY <1>1, <1>4 DEF Moved, InFlight
  <2>2. InFlight(s)' = (state \in InFlightOrder)
    BY <1>1, <1>2, <1>4 DEF Moved, InFlight
  <2>3. cli'[p].at = next /\ (next # "idle" => cli'[p].sig = s)
    BY <1>4 DEF Moved
  <2>4. CASE state \notin InFlightOrder
    <3>1. next \in {"resolve", "confirm", "place", "verify", "settle"} =>
            s = cli[p].sig /\ next = "confirm" /\ At(p, "resolve")
      BY <1>4, <2>4 DEF Turn, InFlightOrder
    <3>2. ASSUME next = "confirm", At(p, "resolve"), s = cli[p].sig
          PROVE  \A r \in Signals : Line(r) = Line(s) => ~InFlight(r)'
      BY <1>2, <2>1, <2>2, <2>4, <3>2 DEF Flight, At
    <3>3. \A q, r \in Signals : Line(q) = Line(r) /\ InFlight(q)' /\ InFlight(r)' => q = r
      BY <1>2, <2>1, <2>2, <2>4 DEF Flight
    <3> QED
      BY <2>3, <3>1, <3>2, <3>3
  <2>5. CASE state \in InFlightOrder
    <3>1. /\ s = cli[p].sig
          /\ \/ At(p, "confirm") /\ next = "place"
             \/ At(p, "settle") /\ next \in {"count", "idle"}
      BY <1>4, <2>5 DEF Turn, InFlightOrder
    <3>2. \A r \in Signals : Line(r) = Line(s) /\ InFlight(r) => r = s
      BY <1>2, <3>1 DEF Flight, At
    <3>3. \A r \in Signals : Line(r) = Line(s) /\ InFlight(r)' => r = s
      BY <2>1, <3>2
    <3>4. \A q, r \in Signals : Line(q) = Line(r) /\ InFlight(q)' /\ InFlight(r)' => q = r
      BY <1>2, <2>1, <3>3 DEF Flight
    <3> QED
      BY <2>3, <3>1, <3>3, <3>4
  <2> QED
    BY <2>4, <2>5
<1>5. ASSUME NEW next \in Points, Walk(p, next), Went(p, next)
      PROVE  /\ cli'[p].at \in {"resolve", "confirm"} =>
                  \A s \in Signals : Line(s) = Line(cli'[p].sig) => ~InFlight(s)'
             /\ cli'[p].at \in {"place", "verify", "settle"} =>
                  \A s \in Signals : Line(s) = Line(cli'[p].sig) /\ InFlight(s)' => s = cli'[p].sig
             /\ \A r, s \in Signals : Line(r) = Line(s) /\ InFlight(r)' /\ InFlight(s)' => r = s
  <2>1. signals' = signals /\ cli'[p].at = next
    BY <1>5 DEF Went
  <2>2. \A s \in Signals : InFlight(s)' = InFlight(s)
    BY <2>1 DEF InFlight
  <2>3. next = "resolve" => \A s \in Signals : Line(s) = Line(cli'[p].sig) => ~InFlight(s)
    BY <1>2, <1>5 DEF Walk, DuplicateOrder, OpenSignals, InFlight
  <2>4. next \in {"verify", "settle"} => cli[p].at \in {"place", "verify"} /\ cli'[p].sig = cli[p].sig
    BY <1>5 DEF Walk, At
  <2>5. next \in {"resolve", "verify", "settle", "idle"}
    BY <1>5 DEF Walk
  <2> QED
    BY <1>2, <2>1, <2>2, <2>3, <2>4, <2>5 DEF Flight
<1> QED
  BY <1>3, <1>4, <1>5 DEF Stepped

LEMMA AtMostOne ==
  ASSUME NEW S, \A a, b \in S : a = b
  PROVE  Cardinality(S) <= 1
<1>1. CASE S = {}
  BY <1>1, FS_EmptySet
<1>2. CASE S # {}
  <2>1. PICK a \in S : S = {a}
    BY <1>2
  <2> QED
    BY <2>1, FS_Singleton
<1> QED
  BY <1>1, <1>2

\* With a database no two signals of a line are being worked, also when the
\* run that worked the first has died (check_duplicate_order).
THEOREM LiveOneInFlight == Spec => []OneInFlight
<1>1. Init => Flight
  BY DEF Init, Flight, InFlight, InFlightOrder, Off
<1>2. Base /\ Flight /\ Aside => Flight'
  BY DEF Aside, Flight, InFlight
<1>3. Base /\ Flight /\ [Next]_vars => Flight'
  BY <1>2, BaseNext, FlightStart, FlightScanner
<1>4. Flight => OneInFlight
  <2>1. ASSUME Flight, durable, NEW l \in Lines
        PROVE  Cardinality(OpenSignals("db", l)) <= 1
    <3>1. \A r, s \in OpenSignals("db", l) : r = s
      BY <2>1 DEF Flight, OpenSignals, InFlight
    <3> QED
      BY <3>1, AtMostOne
  <2> QED
    BY <2>1 DEF OneInFlight
<1> QED
  BY <1>1, <1>3, <1>4, BaseAlways, PTL DEF Spec

-----------------------------------------------------------------------------
\* A position is an executed order.

\* A position on record has an executed order, and so has the one that is
\* about to be recorded.
Real ==
  /\ FilledIsReal
  /\ \A p \in Clis : cli[p].at = "settle" /\ cli[p].got \in {"SUCCESS", "PARTIAL"} =>
       orders[cli[p].order].filled > 0

LEMMA RealAside ==
  ASSUME Base, Real, Aside
  PROVE  Real'
<1>1. UNCHANGED <<signals, cli>>
  BY DEF Aside
<1>2. Sent \subseteq Sent' /\ \A i \in Sent : SameOrder(orders'[i], orders[i])
  BY SentGrows DEF Base, Aside, Kept
<1>3. ASSUME NEW i \in Sent, orders[i].filled > 0
      PROVE  orders'[i].filled > 0 /\ orders'[i].sig = orders[i].sig
  <2>1. orders[i].status # "open"
    BY <1>3 DEF Base, Book
  <2> QED
    BY <1>2, <1>3, <2>1 DEF SameOrder
<1>4. FilledIsReal'
  BY <1>1, <1>2, <1>3 DEF Real, FilledIsReal
<1>5. \A p \in Clis : cli[p].at = "settle" => cli[p].order \in Sent
  BY DEF Base, Book
<1> QED
  BY <1>1, <1>3, <1>4, <1>5 DEF Real

LEMMA RealStart ==
  ASSUME Base, Real, NEW p \in Clis, Start(p)
  PROVE  Real'
<1>1. /\ UNCHANGED <<signals, orders>> /\ Sent' = Sent
      /\ \A q \in Clis \ {p} : cli'[q].at = "off"
      /\ cli'[p].at = "idle"
  BY StartParts
<1>2. \A q \in Clis : cli'[q].at \in {"off", "idle"}
  BY <1>1
<1>3. FilledIsReal'
  BY <1>1 DEF Real, FilledIsReal
<1> QED
  BY <1>2, <1>3 DEF Real

LEMMA RealScanner ==
  ASSUME Base, Real, NEW p \in Clis, Scanned(p), Stepped(p)
  PROVE  Real'
<1> DEFINE Positions == {"PARTIALLY_FILLED", "FILLED", "POSITION_OPEN"}
<1>1. /\ Sent \subseteq Sent'
      /\ \A i \in Sent : orders'[i].sig = orders[i].sig /\ orders'[i].filled = orders[i].filled
      /\ \A q \in Clis \ {p} : cli'[q].at = "off"
      /\ p \in Stores
  BY ScannerParts
<1>2. signals \in [Stores -> [Signals -> States]] /\ signals' \in [Stores -> [Signals -> States]]
  BY SteppedScanner DEF Base, Typed
<1>3. \A store \in Stores, s \in Signals : signals[store][s] \in Positions =>
        \E i \in Sent : orders[i].sig = s /\ orders[i].filled > 0
  BY <1>2 DEF Real, FilledIsReal
<1>4. ASSUME NEW store \in Stores, NEW s \in Signals, signals'[store][s] \in Positions
      PROVE  \E i \in Sent : orders[i].sig = s /\ orders[i].filled > 0
  <2>1. CASE signals'[store][s] = signals[store][s]
    BY <1>3, <1>4, <2>1
  <2>2. CASE Gone(p)
    BY <1>3, <1>4, <2>2 DEF Gone
  <2>3. ASSUME NEW r \in Signals, NEW state \in States, NEW next \in Points,
               Turn(p, r, state, next), Moved(p, r, state, next), signals'[store][s] # signals[store][s]
        PROVE  \E i \in Sent : orders[i].sig = s /\ orders[i].filled > 0
    <3>1. s = r /\ state \in Positions
      BY <1>4, <2>3 DEF Moved
    <3>2. At(p, "settle") /\ s = cli[p].sig /\ state = Settled(cli[p].got)
      BY <2>3, <3>1 DEF Turn
    <3>3. cli[p].got \in {"SUCCESS", "PARTIAL"}
      BY <3>1, <3>2 DEF Settled
    <3>4. orders[cli[p].order].filled > 0
      BY <3>2, <3>3 DEF Real, At
    <3>5. cli[p].order \in Sent /\ orders[cli[p].order].sig = s
      BY <3>2 DEF Base, Book, At
    <3> QED
      BY <3>4, <3>5
  <2>4. ASSUME NEW next \in Points, Went(p, next)
        PROVE  signals'[store][s] = signals[store][s]
    BY <2>4 DEF Went
  <2> QED
    BY <2>1, <2>2, <2>3, <2>4 DEF Stepped
<1>5. FilledIsReal'
  <2>1. ASSUME NEW store \in Stores, NEW s \in Signals, signals'[store][s] \in Positions
        PROVE  \E i \in Sent' : orders'[i].sig = s /\ orders'[i].filled > 0
    <3>1. PICK i \in Sent : orders[i].sig = s /\ orders[i].filled > 0
      BY <1>4, <2>1
    <3>2. i \in Sent' /\ orders'[i].sig = s /\ orders'[i].filled > 0
      BY <1>1, <3>1
    <3> QED
      BY <3>2
  <2> QED
    BY <1>2, <2>1 DEF FilledIsReal
<1>6. ASSUME cli'[p].at = "settle", cli'[p].got \in {"SUCCESS", "PARTIAL"}
      PROVE  orders'[cli'[p].order].filled > 0
  <2>1. ~Gone(p)
    BY <1>6 DEF Gone
  <2>2. \A s \in Signals, state \in States, next \in Points : ~(Turn(p, s, state, next) /\ Moved(p, s, state, next))
    BY <1>6 DEF Turn, Moved
  <2>3. PICK next \in Points : Walk(p, next) /\ Went(p, next)
    BY <2>1, <2>2 DEF Stepped
  <2>4. next = "settle"
    BY <1>6, <2>3 DEF Went
  <2>5. At(p, "verify") /\ cli'[p].order = cli[p].order /\ orders[cli[p].order].status = "executed"
    BY <1>6, <2>3, <2>4 DEF Walk
  <2>6. cli[p].order \in Sent
    BY <2>5 DEF Base, Book, At
  <2> QED
    BY <1>1, <2>5, <2>6 DEF Base, Book
<1>7. ASSUME NEW q \in Clis, cli'[q].at = "settle", cli'[q].got \in {"SUCCESS", "PARTIAL"}
      PROVE  orders'[cli'[q].order].filled > 0
  <2>1. q = p
    BY <1>1, <1>7
  <2> QED
    BY <1>6, <1>7, <2>1
<1> QED
  BY <1>5, <1>7 DEF Real

\* A signal becomes a position only by an order of its own that the broker
\* executed (verify_order_status and the path of its outcome).
THEOREM LiveFilledIsReal == Spec => []FilledIsReal
<1>1. Init => Real
  BY DEF Init, Real, FilledIsReal, Off
<1>2. Base /\ Real /\ [Next]_vars => Real'
  BY BaseNext, RealAside, RealStart, RealScanner
<1>3. Real => FilledIsReal
  BY DEF Real
<1> QED
  BY <1>1, <1>2, <1>3, BaseAlways, PTL DEF Spec

-----------------------------------------------------------------------------
\* No order while one of an earlier run is unresolved.

\* The scanner is past its gate only if it agreed, and then, unless it agreed
\* without the rows, the unconfirmed ones are those of its own run.
Resolved ==
  \A p \in Clis :
    /\ cli[p].at \in {"resolve", "confirm", "place"} => cli[p].gate = "OK"
    /\ cli[p].at # "off" /\ cli[p].gate = "OK" /\ ~cli[p].blind =>
         \A i \in UnconfirmedOrders(Rows(Clis)) : orders[i].run >= cli[p].run

LEMMA ResolvedAside ==
  ASSUME Base, Resolved, Aside
  PROVE  Resolved'
<1>1. UNCHANGED <<durable, cli>>
  BY DEF Aside
<1>2. \A i \in Sent : orders'[i].run = orders[i].run /\ orders'[i].by = orders[i].by
  BY DEF Aside, Kept, SameOrder
<1>3. ASSUME NEW i \in UnconfirmedOrders(Rows(Clis))'
      PROVE  i \in UnconfirmedOrders(Rows(Clis)) /\ orders'[i].run = orders[i].run
  <2>1. i \in Sent' /\ durable /\ orders'[i].by \in Clis /\ orders'[i].row \in Unconfirmed /\ orders'[i].row # "none"
    BY <1>1, <1>3 DEF UnconfirmedOrders, Rows
  <2>2. i \in Sent
    BY <2>1, Constants DEF Aside
  <2>3. orders[i].by \in Clis /\ orders'[i].row = orders[i].row
    BY <1>2, <2>1, <2>2 DEF Aside
  <2> QED
    BY <1>2, <2>1, <2>2, <2>3 DEF UnconfirmedOrders, Rows
<1> QED
  BY <1>1, <1>3 DEF Resolved

LEMMA ResolvedStart ==
  ASSUME Base, Resolved, NEW p \in Clis, Start(p)
  PROVE  Resolved'
<1>1. /\ UNCHANGED <<durable, orders>> /\ Sent' = Sent
      /\ \A q \in Clis \ {p} : cli'[q].at = "off"
      /\ cli'[p].at = "idle"
      /\ cli'[p].gate = "OK" /\ ~cli'[p].blind => UnconfirmedOrders(Rows(Clis)) = {}
  BY StartParts
<1>2. UnconfirmedOrders(Rows(Clis))' = UnconfirmedOrders(Rows(Clis))
  BY <1>1 DEF UnconfirmedOrders, Rows
<1> QED
  BY <1>1, <1>2 DEF Resolved

LEMMA ResolvedScanner ==
  ASSUME Base, Resolved, NEW p \in Clis, Scanned(p), Stepped(p)
  PROVE  Resolved'
<1>1. /\ durable' = durable
      /\ \A i \in Sent : orders'[i].by = orders[i].by /\ orders'[i].run = orders[i].run
      /\ \A q \in Clis \ {p} : cli'[q].at = "off"
      /\ cli'[p].at # "off" => cli'[p].run = cli[p].run
      /\ cli[p].at # "off"
  BY ScannerParts
<1>2. /\ cli'[p].at # "off" => cli'[p].gate = cli[p].gate /\ cli'[p].blind = cli[p].blind
      /\ cli'[p].at \in {"resolve", "confirm", "place"} => cli[p].gate = "OK"
  <2>1. CASE Gone(p)
    BY <2>1 DEF Gone
  <2>2. ASSUME NEW s \in Signals, NEW state \in States, NEW next \in Points,
               Turn(p, s, state, next), Moved(p, s, state, next)
        PROVE  /\ cli'[p].gate = cli[p].gate /\ cli'[p].blind = cli[p].blind
               /\ cli'[p].at \in {"resolve", "confirm", "place"} => cli[p].gate = "OK"
    <3>1. cli'[p].at = next /\ cli'[p].gate = cli[p].gate /\ cli'[p].blind = cli[p].blind
      BY <2>2 DEF Moved
    <3>2. next \in {"resolve", "confirm", "place"} => cli[p].at \in {"resolve", "confirm"}
      BY <2>2 DEF Turn, At
    <3> QED
      BY <3>1, <3>2 DEF Resolved
  <2>3. ASSUME NEW next \in Points, Walk(p, next), Went(p, next)
        PROVE  /\ cli'[p].gate = cli[p].gate /\ cli'[p].blind = cli[p].blind
               /\ cli'[p].at \in {"resolve", "confirm", "place"} => cli[p].gate = "OK"
    BY <2>3 DEF Walk, Went
  <2> QED
    BY <2>1, <2>2, <2>3 DEF Stepped
<1>3. ASSUME cli[p].gate = "OK", ~cli[p].blind, NEW i \in UnconfirmedOrders(Rows(Clis))'
      PROVE  orders'[i].run >= cli[p].run
  <2>1. i \in Sent' /\ durable /\ orders'[i].by \in Clis /\ orders'[i].row \in Unconfirmed /\ orders'[i].row # "none"
    BY <1>1, <1>3 DEF UnconfirmedOrders, Rows
  <2>2. i \in Sent
    BY <2>1 DEF Scanned
  <2>3. orders[i].run \in Nat /\ cli[p].run \in Nat
    <3>1. orders[i].run \in 0..MaxRuns
      BY <2>2, OrderTyped DEF Base, Order
    <3>2. cli[p].run \in Nat
      BY DEF Base, Typed, Run
    <3> QED
      BY <3>1, <3>2, Constants
  <2>4. CASE orders'[i].row = orders[i].row
    <3>1. i \in UnconfirmedOrders(Rows(Clis))
      BY <1>1, <2>1, <2>2, <2>4 DEF UnconfirmedOrders, Rows
    <3> QED
      BY <1>1, <1>3, <2>2, <3>1 DEF Resolved
  <2>5. CASE orders'[i].row # orders[i].row
    BY <1>1, <2>2, <2>3, <2>5 DEF Scanned
  <2> QED
    BY <2>4, <2>5
<1> QED
  BY <1>1, <1>2, <1>3 DEF Resolved

LEMMA ResolvedSend ==
  ASSUME Base, Resolved, NEW p \in Clis, Scanned(p), Sends, ~cli[New.by].blind
  PROVE  \A i \in UnconfirmedOrders(Rows(Clis)) : orders[i].run >= New.run
<1>1. Len(orders') \in Nat /\ Len(orders) \in Nat /\ Len(orders') > Len(orders)
  BY DEF Base, Typed, Scanned, Kept, Sends
<1>2. Len(orders') \in Sent' \ Sent
  BY <1>1 DEF Sent
<1>3. At(p, "place") /\ New.run = cli[p].run /\ New.by = p
  BY <1>2 DEF Scanned, New
<1> QED
  BY <1>3 DEF Resolved, At

LEMMA AsideSend ==
  ASSUME Base, Aside, Sends
  PROVE  New.by \in Threads
<1>1. Len(orders') \in Nat /\ Len(orders) \in Nat /\ Len(orders') > Len(orders)
  BY DEF Base, Typed, Aside, Kept, Sends
<1>2. Len(orders') \in Sent' \ Sent
  BY <1>1 DEF Sent
<1> QED
  BY <1>2 DEF Aside, New

LEMMA StartSend ==
  ASSUME Base, NEW p \in Clis, Start(p)
  PROVE  ~Sends
<1>1. orders' = orders /\ Len(orders) \in Nat
  BY DEF Start, Base, Typed
<1> QED
  BY <1>1 DEF Sends

\* "Only after successful reconciliation should new orders be permitted": a scanner
\* whose startup check did not miss the rows sends nothing while the row of an
\* earlier run's order is unconfirmed.
THEOREM LiveUnresolvedBlocks == Spec => UnresolvedBlocksNextRun
<1>1. Init => Resolved
  BY DEF Init, Resolved, Off
<1>2. Base /\ Resolved /\ [Next]_vars => Resolved'
  BY BaseNext, ResolvedAside, ResolvedStart, ResolvedScanner
<1>3. Base /\ Resolved /\ [Next]_vars =>
        [Sends /\ New.by \in Clis /\ ~cli[New.by].blind =>
           \A i \in UnconfirmedOrders(Rows(Clis)) : orders[i].run >= New.run]_vars
  <2>1. ASSUME Base, Resolved, [Next]_vars, Sends, New.by \in Clis, ~cli[New.by].blind
        PROVE  \A i \in UnconfirmedOrders(Rows(Clis)) : orders[i].run >= New.run
    <3>1. New.by \notin Threads
      BY <2>1, Constants
    <3>2. ~Aside
      BY <2>1, <3>1, AsideSend
    <3>3. PICK p \in Clis : Scanned(p)
      BY <2>1, <3>2, BaseNext, StartSend
    <3> QED
      BY <2>1, <3>3, ResolvedSend
  <2> QED
    BY <2>1
<1> QED
  BY <1>1, <1>2, <1>3, BaseAlways, PTL DEF Spec, UnresolvedBlocksNextRun

-----------------------------------------------------------------------------
\* A manual order only when trusted.

\* The gate is open, or a request is past it, only after a check that agreed
\* or an override of this run of the dashboard.
Trust ==
  /\ gate = "OK" => trusted
  /\ override => trusted
  /\ \A t \in Threads : work[t].at = "place" => trusted

LEMMA TrustRequest ==
  ASSUME Base, Trust, NEW t \in Threads, Request(t)
  PROVE  Trust'
<1>1. Typed /\ (work[t].at = "verify" => work[t].sent \in Sent)
  BY DEF Base, Pending
<1>2. ASSUME UNCHANGED <<gate, override, trusted>>, NEW point, NEW seen, NEW sent,
             Turned(t, point, seen, sent), point = "place" => trusted
      PROVE  Trust'
  <2>1. ASSUME NEW u \in Threads, work'[u].at = "place"
        PROVE  trusted
    BY <1>2, <2>1 DEF Turned, Trust
  <2> QED
    BY <1>2, <2>1 DEF Trust
<1>3. CASE Ask(t)
  <2>1. (\E rows : Turned(t, "rows", rows, 0)) /\ UNCHANGED <<gate, override, trusted>>
    BY <1>1, <1>3, AskStep DEF Ask
  <2>2. "rows" # "place"
    OBVIOUS
  <2> QED
    BY <1>2, <2>1, <2>2
<1>4. CASE Compare(t)
  <2>1. /\ \E point \in {"rest", "decide"}, sent \in {work[t].sent, 0} : Turned(t, point, {}, sent)
        /\ trusted => trusted'
        /\ gate' = "OK" => trusted'
        /\ override' => override
    BY <1>1, <1>4, CompareStep
  <2>2. work'[t].at # "place" /\ \A u \in Threads \ {t} : work'[u] = work[u]
    BY <2>1 DEF Turned
  <2>3. \A u \in Threads : work'[u].at = "place" => trusted
    BY <2>2 DEF Trust
  <2>4. override' => trusted
    BY <2>1 DEF Trust
  <2> QED
    BY <2>1, <2>3, <2>4 DEF Trust
<1>5. CASE Decide(t)
  <2>1. \/ (gate = "OK" \/ override) /\ Turned(t, "place", work[t].seen, work[t].sent)
        \/ Turned(t, "rest", {}, 0)
    BY <1>1, <1>5, DecideStep
  <2>2. UNCHANGED <<gate, override, trusted>>
    BY <1>5 DEF Decide
  <2>3. (gate = "OK" \/ override) => trusted
    BY DEF Trust
  <2>4. "rest" # "place"
    OBVIOUS
  <2> QED
    BY <1>2, <2>1, <2>2, <2>3, <2>4
<1>6. CASE PlaceManual(t)
  <2>1. Turned(t, "verify", {}, Len(orders) + 1) \/ Turned(t, "rest", {}, 0)
    BY <1>1, <1>6, PlaceManualStep
  <2>2. UNCHANGED <<gate, override, trusted>>
    BY <1>6 DEF PlaceManual
  <2>3. "rest" # "place" /\ "verify" # "place"
    OBVIOUS
  <2> QED
    BY <1>2, <2>1, <2>2, <2>3
<1>7. CASE VerifyManual(t)
  <2>1. Turned(t, "rest", {}, 0)
    BY <1>1, <1>7, VerifyManualStep DEF VerifyManual, Thread
  <2>2. UNCHANGED <<gate, override, trusted>>
    BY <1>7 DEF VerifyManual
  <2>3. "rest" # "place"
    OBVIOUS
  <2> QED
    BY <1>2, <2>1, <2>2, <2>3
<1> QED
  BY <1>3, <1>4, <1>5, <1>6, <1>7 DEF Request

LEMMA TrustNext ==
  ASSUME Base, Trust, [Next]_vars
  PROVE  Trust'
<1>1. ASSUME UNCHANGED <<work, gate, override, trusted>>
      PROVE  Trust'
  BY <1>1 DEF Trust
<1>2. ASSUME NEW p \in Clis, Scanner(p)
      PROVE  UNCHANGED <<work, gate, override, trusted>>
  BY <1>2 DEF Scanner, Start, Stop, Ingest, Gates, Resolve, Confirm, Place, Verify, Settle, Count
<1>3. CASE \E i \in Sent : Finish(i)
  BY <1>1, <1>3 DEF Finish
<1>4. CASE Override \/ EndOverride
  BY <1>4 DEF Trust, Override, EndOverride
<1>5. CASE Restart
  <2>1. \A t \in Threads : work'[t].at = "rest"
    BY <1>5, RestingTyped DEF Restart
  <2>2. override' = FALSE /\ (gate' = "OK" => trusted')
    BY <1>5 DEF Restart
  <2> QED
    BY <2>1, <2>2 DEF Trust
<1>6. CASE UNCHANGED vars
  BY <1>1, <1>6 DEF vars
<1> QED
  BY <1>1, <1>2, <1>3, <1>4, <1>5, <1>6, TrustRequest DEF Next

\* A thread that sends an order was past the gate.
LEMMA RequestSend ==
  ASSUME Base, NEW t \in Threads, Request(t), Sends
  PROVE  work[t].at = "place"
<1>1. Len(orders) \in Nat /\ (work[t].at = "verify" => work[t].sent \in Sent)
  BY DEF Base, Typed, Pending
<1>2. ~VerifyManual(t)
  <2>1. ASSUME VerifyManual(t)
        PROVE  Len(orders') = Len(orders)
    <3>1. orders' = orders \/ \E v : RowOf(work[t].sent, v)
      BY <1>1, <2>1, VerifyManualStep DEF Base, VerifyManual, Thread
    <3> QED
      BY <3>1 DEF RowOf
  <2> QED
    BY <1>1, <2>1 DEF Sends
<1>3. ~Ask(t) /\ ~Compare(t) /\ ~Decide(t)
  <2>1. Ask(t) \/ Compare(t) \/ Decide(t) => orders' = orders
    BY DEF Ask, Compare, Decide
  <2>2. orders' # orders
    BY <1>1 DEF Sends
  <2> QED
    BY <2>1, <2>2
<1>4. PlaceManual(t)
  BY <1>2, <1>3 DEF Request
<1> QED
  BY <1>4 DEF PlaceManual, Thread

\* The dashboard's gate fails closed: a manual order is sent only when, since
\* it started, a check has agreed or a human has overridden it
\* (ReconciliationGate.is_blocking, manual_trade).
THEOREM LiveManualFailsClosed == Spec => ManualFailsClosed
<1>1. Init => Trust
  BY RestingTyped DEF Init, Trust
<1>2. Base /\ Trust /\ [Next]_vars => Trust'
  BY TrustNext
<1>3. Base /\ Trust /\ [Next]_vars => [Sends /\ New.by \in Threads => trusted]_vars
  <2>1. ASSUME Base, Trust, [Next]_vars, Sends, New.by \in Threads
        PROVE  trusted
    <3>1. Len(orders) \in Nat /\ Len(orders') \in Nat /\ Len(orders') > Len(orders)
      BY <2>1, BaseNext DEF Base, Typed, Sends
    <3>2. ASSUME NEW p \in Clis, Scanner(p)
          PROVE  FALSE
      <4>1. CASE Start(p)
        BY <2>1, <4>1, StartSend
      <4>2. CASE ~Start(p)
        <5>1. Scanned(p)
          BY <2>1, <3>2, <4>2, ScannerStep
        <5>2. Len(orders') \in Sent' \ Sent
          BY <3>1 DEF Sent
        <5>3. New.by = p
          BY <5>1, <5>2 DEF Scanned, New
        <5> QED
          BY <2>1, <5>3, Constants
      <4> QED
        BY <4>1, <4>2
    <3>3. ASSUME NEW t \in Threads, Request(t)
          PROVE  trusted
      BY <2>1, <3>3, RequestSend DEF Trust
    <3>4. ASSUME NEW i \in Sent, Finish(i)
          PROVE  FALSE
      BY <2>1, <3>1, <3>4, FinishStep DEF Base
    <3>5. CASE Override \/ EndOverride \/ Restart \/ UNCHANGED vars
      BY <3>1, <3>5 DEF Override, EndOverride, Restart, vars
    <3> QED
      BY <2>1, <3>2, <3>3, <3>4, <3>5 DEF Next
  <2> QED
    BY <2>1
<1> QED
  BY <1>1, <1>2, <1>3, BaseAlways, PTL DEF Spec, ManualFailsClosed
=============================================================================
