# A verification project for AlgoEdge

AlgoEdge is a trading dashboard for NIFTY, BANK NIFTY and SENSEX: a FastAPI
server with paper Auto Trading, manual live orders and a broker session
(`src/src/algoedge`), a command line that scans for signals and places live
option orders (`src/src/fno_signals`), and research code that backtests the
strategy (`src/research/phase6`). This directory holds TLA+ models of it, the
TLC configurations that check them and the proofs TLAPS checks. Paths below are
relative to `src/src/algoedge` unless they say otherwise.

    tlc -config MCPaperDay.cfg MCPaperEngine.tla     # one run
    tlapm RiskManagerProofs.tla                      # one proof module

## 1. Inventory

| component | state | operations | interacts by |
|---|---|---|---|
| Risk Manager, `risk_manager.py` | switches, day counters, loss streak, halt, last exit | `check`, `record_trade`, `record_entry`, five switches, `restore_risk_state` | shared object of all cycles and operator endpoints, no lock |
| Auto Trading cycle, `auto_trader.py` | none of its own | `run_cycle`, `_force_close`, `restore_account_state` | called under the index's lock; calls strategy, Risk and Order Manager |
| Order Manager, `order_manager.py` | one simulated account per index: quantity, price, side, event mark, square-off date, levels | `fill_event`, `fill` | called by the cycle, read by everyone |
| Scheduler, `scheduler.py` | its task | `_loop`, `_tick`, `start`, `stop` | calls cycles on the event-loop thread |
| Server, `web_server.py` | cycle locks, entry guard, caches | run endpoint, operator endpoints, startup restoration, manual orders, reconciliation, broker endpoints | threadpool threads |
| Persistence, `db.py`, `models.py` | append-only rows | `record_paper_cycle` (one transaction, not swallowed), `record_*` (swallowed), `load_latest_*` | called by all |
| Failure monitor, `failure_monitor.py` | failure streaks per index and kind | `record_failure`, `record_success` | by cycles, after their lock is released |
| Broker session, `token_service.py` | client, status, credentials, capabilities | renew, update, test, mark request | by every broker call, partly under a lock |
| Live pipeline, `signal_state.py`, `signal_pipeline.py`, `../fno_signals/main.py` | signals and their states | ingest, advance, duplicate checks, live order | Risk Manager of its own scope, gate, broker |
| Verification, `../fno_signals/verification.py` | none | polls an order | broker |
| Reconciliation, `reconciliation.py`, `reconciliation_gate.py` | last check, override | `evaluate`, `override`, `is_blocking` | blocks live and manual orders |
| Manual trading, `manual_trading.py` | none | place, square off | gate, broker, verification, orders table |
| Strategy, `../fno_signals/strategy.py` | position of a replay | `run` | pure |
| Backtest and P&L, `backtest.py`, `pnl.py` | none | pair trades, FIFO match | pure |
| Option contracts, `option_contract.py` | instrument cache in the server | resolve | entries |
| Research: walk-forward and gate, `research/phase6/engine.py`, `run.py`, `gate.py` | none; reports | simulate, pair, windows, selection, robustness, gate | pure functions of the research tables or a file |
| Research: historical data, `research/phase6/download_dhan.py`, `load_historical_data.py`, `validate_dataset.py` | the CSV file, its metadata, the research tables | chunked download with retries, validation, load, read | separate processes, by hand, that share file and database |
| Live grid, market pulse, reports, demo, web page | caches | read and format | read the others |

What is hard in it: cycles of one and of several indices run at once on the
event-loop thread and the threadpool; the Risk Manager is shared without a
lock; fills, bookkeeping and rows are separate steps; a write can fail and the
process can stop between any two of them; the whole market window is replayed
on every cycle, so what has been acted on hangs on one high-water mark; and a
position must be closed on its day although switches are off, locks are busy
and fetches fail. The broker's session is renewed, replaced, tested and
reported dead by threads of which only some take the lock. A real order can be
taken by the broker and never answered, and the scanner or the dashboard can
end between any two of its steps. Research downloads and loads run at the same
time on one file. `PROJECT.json` lists every such hazard at its line, with the
property that covers it or the reason none does yet.

What makes each component correct: the Risk Manager's counters are the day's
fills and its halt outlasts everything but a reset; the engine respects the
limits under every interleaving, acts once per event, forgets nothing that was
committed and ends its days flat; the broker session claims only what a probe
has shown, loses a working session to nothing but a reported or tested
authentication failure, comes back by itself and asks once per cooldown; a live
signal is ordered at most once, a recorded position is a real fill, and no order
goes past a row of unknown fate (which the code keeps only while it can read the
rows, section 3) or an unreconciled dashboard; a replay started in the middle
goes on as the whole one, the research engine decides as the strategy does, and
a selection never sees its test; the stored data is the broker's and the
policy's, whatever was interrupted.

## 2. Modules

* **RiskRules** - the rules of `risk_manager.py` as operators on one record:
  each method, the gates of `check()`, the restoration of a snapshot. The
  order of the gates only chooses the reason text, so the decision is their
  conjunction. Time is a slot number; a day has `SlotsPerDay` of them. The
  kill switch's reason text is left out.
* **RiskManager** - the rules driven by one loop of orders over days, with
  snapshots and restarts. History variables (`book`, `streak`) record what
  really happened, so the properties compare the counters with the truth and
  not with themselves. It also meets the rows of the schema before
  `entries_today` existed, once.
* **RiskRulesTheorems**, **RiskManagerProofs** - lemmas and theorems about them.
* **PaperBook** - what paper trading promises, without threads, clocks inside
  a day, data or database: positions opened within the limits, each event acted
  on once, no entry after a square-off.
* **PaperEngine** - the system: scheduler and run endpoint as threads whose
  cycles go through `wait`, `fetch`, `entry`, `fill`, `recordEntry` or
  `recordClose`, `rows` and `commit`; operator endpoints that switch, build a
  row and commit it; restarts; time.
* **PaperEngineProofs** - theorems about the engine.
* **PaperBookProofs** - the engine implements the book.
* **PaperNightProofs** - it ends its days flat and leaves no lock behind.
* **BrokerSession** - `token_service.py`: request threads that use the session
  through wrapped clients, an operator who renews, pastes, configures or tests,
  the startup, the stored row, and the broker with its sessions and its mood
  (good, keys unapproved, down). A step ends at each call of the broker or of
  the database and between assignments another thread can tell apart. Renewals
  and the reports of wrapped clients run under `_state_lock`; the operator's
  updates and its test do not, and the model keeps it so.
* **BrokerSessionProofs** - theorems about it.
* **LiveOrders** - real orders, composed of the parts that meet on them: the
  scanner (`../fno_signals/main.py --live`) from signal through the pipeline's
  states, gates, resolution, confirmation, placement, verification and the row
  to the settled signal; the dashboard's manual order; the reconciliation gate
  each of the two processes keeps, with its override; the rows; and the broker's
  order book, which refuses, takes without answering, fills wholly, partly,
  late or never. A line is an underlying and a direction and has one contract.
  One scanner runs at a time, as the command line is used; it can end between
  any two steps, with a database or without one. `db.list_orders` swallows an
  error and returns no rows, and so does each read of the rows here (`Listed`):
  at the startup of both processes, before an order, and for the count of open
  positions. The risk counters of earlier runs may fail to load as well
  (`Restored`). `blind` remembers of a run that its gate came out OK without the
  rows. The reads of the signals' states succeed.
* **LiveOrdersProofs** - theorems about it.
* **Replay** - pure functions of a sequence of bars: `drop_invalid_bars`, the
  gating of the setups and the position machine of `strategy.run` with its
  seeding, `backtest.py`'s pairing, metrics and splits, and the research
  engine's own loop over the same bars. Folds and recursive functions only. A
  frame under a mask (`df.loc[mask]`) is `Part`: the rows at a set of positions,
  in their order.
* **WalkForward** - windows, selection, the same-test comparison, robustness
  flags, the ranking and the criteria of `gate.py`.
* **Dataset** - chunks, cleaning, the validator's verdicts, the loader's policy
  and the reader of the research tables.
* **Research** - the composition: a downloader and several loaders as processes
  that can be killed at any step, the CSV and its metadata, the research tables,
  and the reports (`run --csv`, `run --db`, the gate) made from what they leave.
* **ResearchProofs** - theorems about it and about the operators of the three
  modules above.
* **MCRiskManager**, **MCPaperEngine**, **MCBrokerSession**, **MCLiveOrders**,
  **MCResearch** - small instances.

How the engine's steps were cut. CPython switches threads at calls and backward
jumps, so the atomic steps are the places where another thread can see a
difference: a check with the reset it makes (under the entry guard for a new
entry, and not under it for an exit), a fill, its bookkeeping, the building of
the rows, their commit. What a cycle reads of its own account it reads under
the index's lock, so its decision is one step. The bookkeeping after a fill
(record_trade, record_entry, the mark, the release of the guard) is one step:
nothing in it reads what another thread can have changed since but the risk
record it updates.

What is chosen rather than computed: the strategy (which event the window
offers, subject to its seeding with the account's position: exits only while
one is held, entries on completed bars only while flat), the fetched window's
last bar, realized points, prices, and whether contract resolution succeeds.
One operator endpoint runs at a time. `resolve_contract_fn` is only a failure.
Two branches of the code are not modelled because the index lock makes them
unreachable: the exit without a position (auto_trader.py:297-305) and a FAILED
fill (auto_trader.py:396-400).

## 3. Runs

| run | instance | question |
|---|---|---|
| `risk_manager` | 2 days of 4 slots, limits of 1 and 2, points -1, 0, 1 | Do the counters, caps and the halt survive any sequence of orders, switches and restarts? |
| `paper_day` | 2 indices, scheduler and 1 manual thread, 4 session slots, 2 entries a day, commands enable, kill and halt reset, losing exits that halt at once | Do the limits hold under every interleaving, and does every step belong to the abstract book? |
| `paper_restart` | 1 index, database, a failing write and a restart anywhere, 4 slots | Is what is restored at worst stale, and is no event booked twice? |
| `paper_overnight` | 1 index, 2 days of 6 slots, first day failing, scheduled quantity 1 and manual quantity 2, commands enable and disable | Is every position closed, and is the served day flat at its end? |
| `kill_switch_survives` | 1 index, database, no failing write, no restart | Expected violation, see below |
| `minimum_gap` | 2 indices, 4 slots | Expected violation, see below |
| `broker_restart` | 1 poller, 1 operator who polls too, 2 sessions, a restart | Is what the status says always shown by a probe or an authentication failure, is a dead session asked about once per cooldown, and is the session in use lost only to a reported or tested authentication failure, never to a new one that is refused? |
| `broker_recovery` | the same without restart, under fairness | Does a working session come back, and is a dead one noticed? |
| `broker_discards` | the same, no restart | Expected violation, see below |
| `live_orders` | 1 scanner, 1 dashboard thread, 1 line with 2 candles, 2 scanner runs, 2 orders of 2 units, with and without a database | Is no signal ordered twice, no line worked twice, is a position a real fill, and does a row of unknown fate stop every later run that did not miss the rows? |
| `stale_signals` | 1 scanner, 2 lines, no dashboard | Expected violation, see below |
| `research` | a downloader, 2 loaders, 9 days of 2 candles with a hole and a holdout; every sequence of up to 5 bars of 4 kinds and of up to 3 of 8; 512 preloaded tables | Is the data what the broker sent and the policy lets in, do replays, metrics and windows agree with their definitions, and does the gate select what its criteria say? |

Bounds. `MaxClock` ends time, `MaxLag` the slots a cycle can take, and
`MaxCrashes` the restarts. Two indices and two threads are enough for the
hazards of the entry guard: each involves one fill against one check, and a
third thread only repeats the second's part. One index is enough for restarts
and for the night: locks, marks and rows are per index, and the shared risk
record is covered by `paper_day` and by the proofs. Two days are enough for the
lazy reset, the missed square-off and its recovery. In
`paper_day` a cycle ends in the slot it began in, every interleaving inside it
included, and the session is long enough for both entries of the day to be used
up; the other runs let a cycle last into the next slot. `paper_overnight` leaves
two slots from the square-off to the close, the two five-minute ticks the window
from 15:20 to 15:30 has room for; with one tick only (the loop drifts by the
time its cycles take) that tick could be lost to a busy lock, the day would not
end flat, and the position would be closed by the recovery of the next.
The commands not issued in the engine's runs are those whose effect on
a cycle equals another's, and `risk_manager` issues them all.
The limits are as small as the case that reaches them.

`MaxSessions` of the broker runs is 2: a race is between a session and the one
that replaced it, and the second stands for all later ones (a session revoked
and issued again under its number is new to everyone but a client that still
holds it, whose report is the race). The operator polls as well, so two threads
use the session while one of them replaces it. `LiveOrders` is bounded by
`MaxRuns` and `MaxOrders`, and by `Explored` in `MCLiveOrders`: the second run
and the second signal are explored while the dashboard is unused, the dashboard
next to one run (with a database) and the first signal, an override between runs.
Two runs are one that leaves something behind and one that finds it; a lot of
two units is the smallest that fills partly. `LiveOrdersProofs` proves the same
properties without these bounds. In `research`, `MCBudgets` allows two
downloads with a load, one with two loads, or one of each with a kill: each
hazard needs one actor to disturb one other. Nothing happens after the report
(`Explored`), which reads what the others leave and changes nothing. Two
candles a day, windows of one and two days, variants of every family and the
512 tables make selected and rejected candidates, ties, equal families and too
small samples all occur.

Fairness (`FairSpec`) is weak fairness of time, of the scheduler's tick and
service of each index, and of every step of a cycle that has begun. The code
justifies it: the loop sleeps and ticks for as long as the server runs, catches
every exception of a cycle (scheduler.py:78), and a cycle waits at most for the
lock's timeout and for a guard that holds no I/O. Nothing is assumed of
operators, of manual runs, of the first day (`BadDays`): on it fetches fail or
return old bars, and the scheduler misses slots. On the other days every slot is served and
the feed has a bar of the day once one is complete.
No run uses symmetry together with liveness.

The broker's `Fairness` is weak fairness of every request that has begun and of
the cooldown, and strong fairness of "some poller asks for the client". The code
justifies it: no step waits for another but for `_state_lock`, whose holders make
one or two broker calls with timeouts; and the dashboard polls every few seconds,
so that of its requests some one meets a free lock again and again. No
particular poller is assumed to, nor that an operator ever acts. The two
properties assume what they say: `Recovers` that the broker stays reachable and
the keys approved, `DeadIsNoticed` that the broker stays reachable. Nothing is assumed of the scanner and the
research commands: they are started by hand and may be ended, so no liveness is
stated of them; that a download's retries are bounded is part of `Research`'s
`TypeOK`.

### What the code does that its comments deny

* `kill_switch_survives`: a cycle builds its risk row, the kill switch is thrown
  and recorded, the cycle commits. The latest row, which a restart restores,
  has the switch off although no write failed; it stays so until the next row.
  An operator's row built before a cycle's and committed after it loses the
  cycle's counters in the same way; the run asks about the switch alone.
* `minimum_gap`: an exit lowers the global position count when it fills and
  starts the cooldown when it is recorded, outside the entry guard. An entry of
  another index fits between the two, with no gap at all.
* `broker_discards`: `mark_failed_request` drops the current client whichever
  client failed (token_service.py:472). A call made with the previous session
  that is refused after a new one was installed discards the new, working one;
  the comment at 438-441 speaks of "a token already known to be dead". A minted
  session is minted again after the cooldown, a pasted one must be pasted again.
* `stale_signals`: `place_live_order` evaluates a signal at its candle's own time
  (main.py:130), so the expiry of two minutes never applies; main.py:32-36 says
  that a late signal is "rejected, never executed on stale data". A second index
  scanned in the same session gets an order for a candle that is older, by more
  than the expiry, than one already seen closed.

Three more definitions at the end of `PaperEngine` state what a comment says and
the code does not do (`OneAtATime`, `MarkIsEntryBar`, `MarkIncreases`): after a
lost exit write two positions are restored; a partial exit moves the mark that
is taken for the entry bar; a square-off on a longer timeframe moves the mark
back. In `LiveOrders`, `GateFailsClosed` is a fourth: the scanner's order times out
and its row says so; the next run's read of the rows fails, which `list_orders`
reports as no rows (db.py:629-631); no rows agree with no positions, the order
not having filled yet, so the gate is OK and the run sends another order.
main.py:469-471 says that the gate "stays blocked rather than assuming things
are fine" when the check cannot be attempted; that is so of the broker's
positions only. They await runs of their own.

## 4. Proofs

`RiskManagerProofs` proves every property of the `risk_manager` run for all
values of the limits, all sets of orders and points and unbounded time, under
`RiskLimitsAssumption`, `RiskManagerAssumption` and `MaxOpenPositions <= 1`, the
configured default. The last is needed: deriving the entries of an older row as
half the day's fills is only safe when entries and exits alternate.

The inductive invariant `IInv` strengthens the run's properties by what ties
the counters to the truth: whenever the risk record or the latest row claims
the current day, its counters are the book's; it never claims a day to come;
entries are bounded by the fills and by what open positions allow; and the
streak is below the limit or the halt stands, in memory and in the row alike.
Each action has its lemma, and each conjunct of the invariant its step.
`RiskRulesTheorems` holds what the actions need to know of the operators: which
fields each of them changes, and what a passed check of a new entry implies.

`PaperEngineProofs` proves the engine's invariants and `BookedOnce` for any
finite sets of indices and threads, all limits, prices, points and quantities,
any lag, under `RiskLimitsAssumption` and `PaperEngineAssumption`:

| theorem | also assumes | argument |
|---|---|---|
| `EngineTyped` | | `Exclusive`: a cycle under way holds its index's lock, an entry being made holds the guard |
| `PositionLimitHolds` | no restart | `LimitInv`: while a cycle holds the guard the limit is not reached; every other step opens nothing |
| `StopsHold` | | `StopInv`: after a stop only the holder of the guard can still fill, and it is one |
| `RestartsAreAtWorstStale`, `EntriesBookedOnce` | a feed that does not go back behind the mark | `MarkInv`: committed, durable and current mark in this order; from its check to its commit an entry's bar is above both older ones |
| `AccountsAreDurable` | as before, and a database | `DurableInv`: a cycle finds its index saved, what it commits is current, a rolled-back write is remembered |

The two hypotheses beyond the module's assumptions are needed: a restart after
a lost exit can restore two positions, and a feed that goes back (a longer
timeframe, see section 3) moves the mark back with a square-off. They are the
values the runs of these properties give the constants. The proofs classify
steps: `Steps` shows that all but four actions make no new risk, and
`OneCyclePerIndex` that a step of one cycle leaves the index of another alone,
so each action is looked at for its own thread and index only. TLC checked the
inductive invariants on the runs' instances before they were proved.

`PaperBookProofs` proves `EngineImplementsBook`: under the same two hypotheses
and `MaxLag <= TradingStart`, every behaviour of the engine is one of
`PaperBook`, for any indices, threads, limits and lengths. Its `BookInv` adds to
the engine's invariants the day: a cycle between its check and its bookkeeping
is inside the session, so it ends on the day it began (`SessionDay`); the
counters never claim a day to come; before the session nothing is counted; and
the holder of the guard is below the day's cap. `ResetKeeps` is where the bound on
the lag is needed: a cycle begun late in the evening resets the counters to the
day before, which loses no entry as long as it ends before the next session.
`OwnView` and `OtherView` say how the book sees the index of a cycle and the
others, `SilentStep`, `InsideTurn` and `TurnStep` what a step then does to it:
only a fill opens or closes, only an expiry moves a flat index's mark, only
midnight starts a day, everything else stutters.

`BrokerSessionProofs` proves the four properties of `broker_restart` besides its
types for any pollers, operators, sessions and restarts, under
`SessionsAssumption` and `FlagsAssumption`. `IInv` ties what a thread carries
between its steps to the evidence (`Evidenced`): a thread about to install a
session holds one a probe has validated, and so is the client in use; and
(`Calm`) the attempts since the cooldown last ran out are none, or one while it
runs.
Each step of a thread is classified by what it may leave changed (`Worked`,
`Served`, `Kept`, and `Refused` for the two points at which an authentication
failure costs the session in use), a change of the broker's mood or of the time by `Passed`.

`LiveOrdersProofs` proves the properties of `live_orders`, failing reads included, for any lines, candles,
signals, scanners, dashboard threads and limits and any number of runs and
orders, under `LiveAssumption`. `Base` is the common ground: the types, one scanner
at a time (`Solo`), and every pointer of a scanner (`Book`) or of a dashboard
thread (`Pending`) into the order book is to an order of its own. `BaseNext` classifies the steps: a
start, a step of the scanner (`Stepped`, from a point to a point along the
tables `Turn` and `Walk`), or one of the dashboard or the broker that leaves the
scanner's state alone (`Aside`). On it rest `Fresh` (a signal not yet pending has no
order, hence `OneOrderPerSignal`), `Flight` (`OneInFlight`), `Real` (a filled state
has a filled order: `FilledIsReal`), `Resolved` (a run that may send an order met no
row of unknown fate when it started, unless it is blind: `UnresolvedBlocksNextRun`) and `Trust`
(`ManualFailsClosed`).

`PaperNightProofs` proves `NothingOvernight`, that a day whose square-off slot was
served ends flat, for any indices, threads, limits, quantities and lengths,
under `RoomToSquareOff`: no restart (a lost exit write brings its position back),
entries stop and the first bar is complete before the square-off begins, and a
cycle begun in its first slot ends within the session. The code's times are so
(cutoff 15:00, window 15:20 to 15:30) as long as no cycle takes longer than the
window; the days are those the feed and the scheduler serve (not `BadDays`). Its `NightInv` follows the cycles through the window:
one that begins in it closes what it finds or finds nothing (`ThreadNight`); at
the first slot of the window, or at the last a cycle begun before it can reach
(`LastChance`), an index is flat, being closed by a cycle under way (`Closer`), or
not yet served (`IndexNight`). Nothing opens after the cutoff, so what is flat
then stays so. `LocksFreed` says, with restarts too, that every lock and the guard
are held by a cycle that will release them.

`ResearchProofs` proves all ten properties of `research`, for any
market, files, requests, loaders and bounds, under the assumptions the modules
state: what their rows and parameters are, and that the first variant is the
canonical strategy. Since the state is sequences, most of it is lemmas about
operators:

| theorem | inductive invariant | argument |
|---|---|---|
| `ResearchTyped` | `Typed` | what each step assigns |
| `DatasetIsTheMarkets` | `CsvInv` | `PlanCoversRequest`: chunks follow one another to the last day; `FetchedSoFar`: what is fetched has the first valid row of each time up to the last chunk done, in order; `FirstsOfJoin`: another chunk keeps that, whatever it holds twice or garbled |
| `LoadsAreAsPlanned`, `LoadsTellTheTruth` | `LoadInv` | what a load keeps is storable and in order of time (`KeptOf`); a file is registered once; a loader's hash is of what it read unless a download wrote in between (`HashesHold`); one that is about to end has a load to show (`Registered`) |
| `ReportsSeeTheirData` | `SeesInv` | reading sorts all candles of the period (`ReadOf`), and cutting at the holes loses none (`FramesOf`); a report is the last thing that happens (`Settled`) |
| `BaselineIsTheStrategy` | `ParityWithCanonical` | bar by bar the two machines hold the same position and have the same events (`StepsAlike`, `SameRuns`); without a square-off the two pairings are one (`PairsAlike`); a row at time 0 never gets as far (`FramesAreDated`) |
| `SeededRestartsContinue` | `RunsDated` | usable bars are not dropped again (`DroppedOnce`); up to the seed the seeded replay stands still, from there it makes the full one's steps behind the events it skipped (`SeedFollows`) |
| `GateSelectsTheBest` | `SelectedAreBest` | the evidence of every variant is made of whole numbers (`EvidenceOf`: a summary's net survives sorting and flattening), so the ranking is a strict order (`RankingOf`); the gate's loop takes, variant by variant, the first of each family until it has enough (`ChoiceGoesOn`), which are the leaders in order (`LeadersInOrder`) |
| `PicksIgnoreTests` | `RunsMade` | the bars up to a day are a prefix (`BarsUpTo`); on it the simulation makes the same events, and what it does later only adds trades closed later (`SimulationGoesOn`, `PairingGoesOn`); the cutoff drops those, so what trains the pick is the same (`TrainSeen`, `PickSeen`) |
| `MetricsAreTheTrades` | `RunsMade` | each metric is a loop over the trades with an invariant: running sums for the net of a block and of a part (`NetOfBlock`, `NetOfTwo`), peak and worst fall (`FallsGoOn`), the streak under way and the longest (`StreaksGoOn`), halts against lost trades and streaks (`HaltsGoOn`) |

Two forms recur. A recursive function is first shown to exist, which is what its
equations need (`ReplayedExists`, `SimulatedExists`), and what is said of all its
values is carried along `0..n` by `Onward`: the set of numbers at which it fails
has no least member. The library's induction theorems take a predicate as their
parameter, which the provers do not instantiate; `Onward` takes a set. What
`Ordered` does to a set follows from counting the members below each
(`OrderedNumbers`, `InOrderOfTime`).

`RunsMade` says that the runs of a grid's report are `RunIndex` of some frames of
rows and of the designs asked for; what remains is about `RunIndex` of any rows.

Only model-checked: the liveness properties `PositionsClose`, `Recovers` and
`DeadIsNoticed`, because liveness under fairness is out of the prover's reach.
Their safety side is proved: `FlatOvernight`, `StatusIsEvidence`, `NotHammered`.

## 5. Not modelled, and the plan

Components left out, wholly or in part:

* Option contracts and liquidity: a lookup in the instrument list and
  comparisons; where it matters it is a step that may fail. Failure monitor and
  alerts: raise alerts, decide nothing. Live grid, market pulse, reports, demo
  and the web page: read and format.
* Paper: cash, average prices and the legacy `fill` path; starting and stopping
  the scheduler; decision audit rows; concurrent operator endpoints; a read that
  fails at startup (of the scanner and its dashboard `LiveOrders` has them).
* Broker session: the map of capabilities per endpoint, masking and audit
  events, the wording of errors.
* Real orders: previews, lists of expiries and strikes, prices and slippage, the
  states no code enters (EXIT_PENDING, CLOSED, SYSTEM_HALT), the scanner's own
  risk switches, database writes and reads of signal states that fail and are swallowed, two
  scanners at once. `OneOrderPerSignal` and `OneInFlight` are stated, and proved,
  under the premise that those reads succeed.
* Strategy and research: the arithmetic of indicators (each is causal, so what
  it says on a bar comes with the bar), fractions of points (prices are whole,
  expectancies exact fractions where the code divides floats), the cost model,
  the spreadsheet export and the FIFO report of `pnl.py`, the null benchmark, the
  rendering and the check of the grid's hash, the `guard_nan_risk=False` variant,
  the yfinance cache, validate-only. A file's hash is its content, a torn write
  leaves its first half, a gap is counted in days, the order of names breaks a
  tie as the order of the grid does, and entry cutoff and square-off compare
  slots where the code compares the end of a bar's time.

Known of the code and stated by no property:

* the eight hazards of `PROJECT.json` without one, with the reason each; among
  them `OneAtATime` and `MarkIsEntryBar` of `PaperEngine` and `GateFailsClosed` of
  `LiveOrders`, which the code does not keep;
* cycle health is recorded after the index's lock is released (web_server.py:444),
  so that an older success can end a newer failure streak; it decides alerts only;
* an order whose run ended before its row was written is on no record: it stops
  the next run only once the broker shows its fill;
* a signal whose order filled stays POSITION_OPEN: no code leaves the state, so
  its line is refused from then on while a database is configured;
* the scanner's day counters go by the candle's day, so an older candle scanned
  later resets them, and its gate is asked once per run, at the start;
* the loader refuses a file it has seen by its hash, whatever `--source-name`
  says, and a source can never be loaded again after its file grew;
* `robustness_flags` needs a breakdown that tables of very few trades lack.

What is left, in this order:

1. Two scanners at once: `advance` split into its read and its write, and the
   unique key on which the second insert fails and is swallowed; with it the
   failing reads of signal states.
2. Runs for `OneAtATime`, `MarkIsEntryBar`, `MarkIncreases` and `GateFailsClosed`,
   each with the comment it refutes.
3. The failure monitor with the order of its reports, the instrument cache, the
   legacy fill with cash, and the FIFO matching of `pnl.py`.
