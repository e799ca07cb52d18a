------------------------------- MODULE Research -------------------------------
(* The research commands and what they share: the downloader (download_dhan)   *)
(* and the loader (load_historical_data), which may run at the same time and   *)
(* be killed at any step, the CSV file and the research tables between them,   *)
(* and the reports made from either: the grid (run --csv, run --db) and the    *)
(* pre-registration gate. A report is one step.                                *)
EXTENDS WalkForward, Dataset

CONSTANTS
    Market,       \* the rows the data broker has, in the order it sends them
    Loaders,      \* processes of the loader
    Sources,      \* names loads are stored under
    Files,        \* files found at the start: sequences of rows
    Studies,      \* files found at the start on which only reports are made
    Stored,       \* files found loaded already, on which only reports are made
    Requests,     \* arguments of the downloader: [start, end, overwrite, partial]
    LoadOptions,  \* arguments of the loader: [confirm, allow, source]
    DbRuns,       \* arguments of run --db: [source, start, end, holdout, designs]
    HoldoutStart, \* first day of the final holdout
    MaxRetries,   \* of one request
    Budgets       \* bounds on the commands: [downloads, loads, kills]

ASSUME ResearchAssumption ==
    /\ MaxRetries \in Nat
    /\ Budgets \subseteq [downloads : Nat, loads : Nat, kills : Nat]
    /\ HoldoutStart \in Nat \ {0, 1}
    /\ Market \in Seq(Rows) /\ Market # <<>>
    /\ Files \cup Studies \cup Stored \subseteq Seq(Rows)
    /\ Requests \subseteq [start : Nat, end : Nat, overwrite : BOOLEAN, partial : BOOLEAN]
    /\ \A r \in Requests : r.start <= r.end
    /\ LoadOptions \subseteq [confirm : BOOLEAN, allow : BOOLEAN, source : Sources]
    /\ \A a \in DbRuns :
          a.source \in Sources /\ {a.start, a.end, a.holdout} \subseteq Nat /\ a.designs \in Seq(Designs)

VARIABLES
    file,    \* the CSV: its rows, the request it was written for, and whether wholly
    meta,    \* the metadata beside it
    dl,      \* the downloader
    ld,      \* the loaders
    loads,   \* the research tables
    report,  \* the report made
    raced,   \* a download wrote the file between a load's hash and its read
    left     \* how many downloads, loads and kills may still happen

vars == <<file, meta, dl, ld, loads, report, raced, left>>

NoFile == [rows |-> <<>>, asked |-> {}, whole |-> FALSE]
External(rows) == [rows |-> rows, asked |-> {}, whole |-> TRUE]
NoMeta == [complete |-> FALSE, rows |-> 0, failed |-> {}, missing |-> NoRegimes]
NoReport == [by |-> "none", asked |-> {}, outcome |-> "none", runs |-> <<>>, selected |-> <<>>]

Resting == [at |-> "off", asked |-> {}, todo |-> <<>>, raw |-> <<>>, failed |-> {}, tries |-> 0]
Off(exit) == [at |-> "off", exit |-> exit, asked |-> {}, sha |-> <<>>, rows |-> <<>>]

\* A load of a file with this content, of which these rows were read.
Load(source, sha, rows) ==
    [source |-> source, sha |-> sha, record |-> LoadRecord(rows), candles |-> Kept(rows)]

NoBudget == [downloads |-> 0, loads |-> 0, kills |-> 0]

Init ==
    /\ \/ file \in {NoFile} \cup {External(f) : f \in Files} /\ loads = <<>> /\ left \in Budgets
       \/ file \in {External(f) : f \in Studies} /\ loads = <<>> /\ left = NoBudget
       \/ \E f \in Stored :
             file = External(f) /\ loads \in {<<Load(s, f, f)>> : s \in Sources} /\ left = NoBudget
    /\ meta = NoMeta
    /\ dl = Resting
    /\ ld = [p \in Loaders |-> Off("none")]
    /\ report = NoReport
    /\ raced = FALSE

-------------------------------------------------------------------------------
(* The downloader. *)

Exists == file # NoFile

\* An existing dataset or metadata is replaced only with --overwrite.
StartDownload(r) ==
    /\ dl.at = "off" /\ left.downloads > 0
    /\ r.overwrite \/ (~Exists /\ meta = NoMeta)
    /\ dl' = [Resting EXCEPT !.at = "fetch", !.asked = {r}, !.todo = PlanChunks(r.start, r.end)]
    /\ left' = [left EXCEPT !.downloads = @ - 1]
    /\ UNCHANGED <<file, meta, ld, loads, report, raced>>

\* The rows of a chunk, behind one whose time cannot be parsed.
Served(chunk, garbled) ==
    (IF garbled THEN <<[Market[1] EXCEPT !.t = 0]>> ELSE <<>>) \o OnDays(Market, chunk.first, chunk.last)

\* A chunk that fails is noted, and the download goes on with the next one.
ChunkFailed ==
    [dl EXCEPT !.todo = Tail(@), !.failed = @ \cup {dl.todo[1]}, !.tries = 0]

\* A slip: one attempt too many.
AttemptedOnceMore ==
    IF dl.tries > MaxRetries THEN ChunkFailed ELSE [dl EXCEPT !.tries = @ + 1]

\* Only a transient failure is tried again, at most MaxRetries times.
Attempted ==
    IF dl.tries + 1 > MaxRetries THEN ChunkFailed ELSE [dl EXCEPT !.tries = @ + 1]

Answer ==
    /\ dl.at = "fetch" /\ dl.todo # <<>>
    /\ \/ \E garbled \in BOOLEAN :
            dl' = [dl EXCEPT !.todo = Tail(@), !.raw = @ \o Served(dl.todo[1], garbled), !.tries = 0]
       \/ dl' = Attempted
       \/ dl' = ChunkFailed
    /\ UNCHANGED <<file, meta, ld, loads, report, raced, left>>

Request == CHOOSE r \in dl.asked : TRUE

\* Nothing is written after a failed chunk without --allow-partial, or when no
\* candle is valid.
Fetched ==
    /\ dl.at = "fetch" /\ dl.todo = <<>>
    /\ LET clean == Normalize(dl.raw)
       IN  dl' = IF (dl.failed # {} /\ ~Request.partial) \/ clean = <<>>
                 THEN Resting ELSE [dl EXCEPT !.at = "open", !.raw = clean]
    /\ UNCHANGED <<file, meta, ld, loads, report, raced, left>>

Written(rows, whole) ==
    /\ file' = [rows |-> rows, asked |-> dl.asked, whole |-> whole]
    /\ raced' = (raced \/ \E p \in Loaders : ld[p].at = "read")

\* The file is rewritten in place: a reader may find the first part of it.
OpenFile ==
    /\ dl.at = "open"
    /\ Written(SubSeq(dl.raw, 1, Len(dl.raw) \div 2), FALSE)
    /\ dl' = [dl EXCEPT !.at = "write"]
    /\ UNCHANGED <<meta, ld, loads, report, left>>

WriteDataset ==
    /\ dl.at = "write"
    /\ Written(dl.raw, TRUE)
    /\ dl' = [dl EXCEPT !.at = "meta"]
    /\ UNCHANGED <<meta, ld, loads, report, left>>

WriteMetadata ==
    /\ dl.at = "meta"
    /\ meta' = [complete |-> dl.failed = {}, rows |-> Len(dl.raw), failed |-> dl.failed,
                missing |-> DaysWithMissingBars(dl.raw)]
    /\ dl' = Resting
    /\ UNCHANGED <<file, ld, loads, report, raced, left>>

DownloadStep == Answer \/ Fetched \/ OpenFile \/ WriteDataset \/ WriteMetadata

-------------------------------------------------------------------------------
(* The loader. *)

Asked(p) == CHOOSE o \in ld[p].asked : TRUE

Becomes(p, next) == ld' = [ld EXCEPT ![p] = next]
To(p, at) == [ld[p] EXCEPT !.at = at]

StartLoad(p, o) ==
    /\ ld[p].at = "off" /\ Exists /\ left.loads > 0
    /\ Becomes(p, [Off("none") EXCEPT !.at = "hash", !.asked = {o}])
    /\ left' = [left EXCEPT !.loads = @ - 1]
    /\ UNCHANGED <<file, meta, dl, loads, report, raced>>

Hash(p) ==
    /\ ld[p].at = "hash"
    /\ Becomes(p, [To(p, "read") EXCEPT !.sha = file.rows])
    /\ UNCHANGED <<file, meta, dl, loads, report, raced, left>>

\* Without --confirm the plan is only printed; a row to be rejected refuses the
\* load, unless --allow-rejections, and so does a plan without candles.
Read(p) ==
    /\ ld[p].at = "read"
    /\ Becomes(p,
         IF ~Asked(p).confirm THEN Off("dry")
         ELSE IF (Rejected(file.rows) # {} /\ ~Asked(p).allow) \/ Kept(file.rows) = <<>> THEN Off("refused")
         ELSE [To(p, "find") EXCEPT !.rows = file.rows])
    /\ UNCHANGED <<file, meta, dl, loads, report, raced, left>>

Found(p) == FindExistingLoad(loads, ld[p].sha) # {}

Find(p) ==
    /\ ld[p].at = "find"
    /\ Becomes(p, IF Found(p) THEN [To(p, "rehash") EXCEPT !.exit = "already"] ELSE To(p, "insert"))
    /\ UNCHANGED <<file, meta, dl, loads, report, raced, left>>

\* One transaction: the load record, the candles and the checks.
Insert(p) ==
    LET candles == Kept(ld[p].rows)
        taken == IntegrityError(loads, ld[p].sha, Asked(p).source, candles)
        stored == ~taken /\ Verified(loads, Asked(p).source)
    IN  /\ ld[p].at = "insert"
        /\ loads' = IF ~stored THEN loads
                    ELSE Append(loads, Load(Asked(p).source, ld[p].sha, ld[p].rows))
        /\ Becomes(p, CASE taken -> To(p, "again")
                        [] ~taken /\ ~stored -> Off("failed")
                        [] stored -> [To(p, "rehash") EXCEPT !.exit = "loaded"])
        /\ UNCHANGED <<file, meta, dl, report, raced, left>>

\* A concurrent run may have registered the same file first.
FindAgain(p) ==
    /\ ld[p].at = "again"
    /\ Becomes(p, IF Found(p) THEN [To(p, "rehash") EXCEPT !.exit = "already"] ELSE Off("raised"))
    /\ UNCHANGED <<file, meta, dl, loads, report, raced, left>>

\* A slip: the file is not hashed again.
RehashTrusting(p) ==
    /\ ld[p].at = "rehash"
    /\ Becomes(p, Off(ld[p].exit))
    /\ UNCHANGED <<file, meta, dl, loads, report, raced, left>>

\* The source must never change underneath a load: it is reported, not undone.
Rehash(p) ==
    /\ ld[p].at = "rehash"
    /\ Becomes(p, Off(IF file.rows = ld[p].sha THEN ld[p].exit ELSE "changed"))
    /\ UNCHANGED <<file, meta, dl, loads, report, raced, left>>

LoadStep(p) == Hash(p) \/ Read(p) \/ Find(p) \/ Insert(p) \/ FindAgain(p) \/ Rehash(p)

\* The process ends, or a statement of the loader fails: what is not committed
\* is rolled back.
Kill ==
    /\ left.kills > 0
    /\ left' = [left EXCEPT !.kills = @ - 1]
    /\ \/ dl.at # "off" /\ dl' = Resting /\ UNCHANGED ld
       \/ /\ \E p \in Loaders : ld[p].at # "off" /\ Becomes(p, Off("raised"))
          /\ UNCHANGED dl
    /\ UNCHANGED <<file, meta, loads, report, raced>>

-------------------------------------------------------------------------------
(* Reports. *)

Quiet == dl.at = "off" /\ \A p \in Loaders : ld[p].at = "off"

\* Bound: one report, when no other command runs and none will be started.
Reports(made) ==
    /\ Quiet /\ left.downloads + left.loads = 0 /\ report = NoReport
    /\ report' = made
    /\ UNCHANGED <<file, meta, dl, ld, loads, raced, left>>

Made(by, asked, outcome) == [NoReport EXCEPT !.by = by, !.asked = asked, !.outcome = outcome]

\* run_index on each frame. The baseline's assertion and a frame too short to
\* have three splits end the command.
Finished(made, runs) ==
    IF \E k \in DOMAIN runs : runs[k].diverged THEN [made EXCEPT !.outcome = "diverged"]
    ELSE IF \E k \in DOMAIN runs : ~Splittable(DropInvalidBars(runs[k].bars)) THEN made
    ELSE [made EXCEPT !.outcome = "written", !.runs = runs]
Grid(by, asked, frames, designs) ==
    Finished(Made(by, asked, "raised"), Table(DOMAIN frames, LAMBDA k : RunIndex(frames[k], designs)))

\* run --csv: the file as it is, in its own order, as one frame.
RunCsv ==
    /\ Exists
    /\ Reports(IF 0 \in TimesIn(file.rows) THEN Made("csv", {}, "raised")
               ELSE Grid("csv", {}, <<file.rows>>, <<LegacyDesign>>))

\* A slip: the holdout's first day is read.
ResearchEndInclusive(holdout) == holdout * SlotsPerDay

\* The last time research may read, for a holdout that starts on this day.
ResearchEnd(holdout) == (holdout - 1) * SlotsPerDay

\* run --db: an explicit end is inside the research period already; with a
\* holdout and no end, the research end is the reader's bound. Each contiguous
\* segment is run on its own.
RunDb(a) ==
    LET last == ResearchEnd(a.holdout)
        held == a.holdout # None
        end == IF held /\ a.end = None THEN last ELSE a.end
        frames == ContiguousSegments(ReadCandles(loads, a.source, a.start, end))
        leak == \E k \in DOMAIN frames : Last(frames[k]).t > last
    IN  Reports(IF held /\ (a.start > last \/ a.end > last) THEN Made("db", {a}, "usage")
                ELSE IF frames = <<>> THEN Made("db", {a}, "empty")
                ELSE IF held /\ leak THEN Made("db", {a}, "raised")
                ELSE Grid("db", {a}, frames, a.designs))

\* The gate reads up to the end of the research period, wants the short and the
\* main segment, and compares its selection with the pre-registered one.
Gate(source) ==
    LET frames == ContiguousSegments(ReadCandles(loads, source, None, ResearchEnd(HoldoutStart)))
        main == DropInvalidBars(frames[2])
        usable == /\ \A k \in DOMAIN frames : Day(Last(frames[k]).t) < HoldoutStart
                  /\ Len(frames) = 2
                  /\ \A k \in DOMAIN ProtocolDesigns : LongEnough(main, ProtocolDesigns[k])
                  /\ Splittable(main)
        judged(selected) ==
            [Made("gate", {}, IF selected = Preregistered THEN "reproduced" ELSE "differs") EXCEPT
                !.selected = selected, !.runs = [k \in DOMAIN frames |-> [bars |-> frames[k]]]]
    IN  Reports(IF ~usable THEN Made("gate", {}, "raised")
                ELSE judged(Evaluate(BuildEvidence(frames[1], main))))

-------------------------------------------------------------------------------

Next ==
    \/ \E r \in Requests : StartDownload(r)
    \/ DownloadStep
    \/ \E p \in Loaders, o \in LoadOptions : StartLoad(p, o)
    \/ \E p \in Loaders : LoadStep(p)
    \/ Kill
    \/ RunCsv
    \/ \E a \in DbRuns : RunDb(a)
    \/ \E source \in Sources : Gate(source)

Spec == Init /\ [][Next]_vars

-------------------------------------------------------------------------------
(* Properties. *)

\* Every variable keeps its type, and no request is tried more often than the
\* client's limit allows.
TypeOK ==
    /\ file.whole \in BOOLEAN /\ file.asked \subseteq Requests
    /\ meta.failed \subseteq [first : Nat, last : Nat] /\ meta.complete = (meta # NoMeta /\ meta.failed = {})
    /\ dl.at \in {"off", "fetch", "open", "write", "meta"} /\ dl.tries \in 0..MaxRetries
    /\ dl.failed \subseteq [first : Nat, last : Nat]
    /\ \A p \in Loaders :
          /\ ld[p].at \in {"off", "hash", "read", "find", "insert", "again", "rehash"}
          /\ ld[p].exit \in {"none", "dry", "refused", "already", "loaded", "failed", "raised", "changed"}
    /\ raced \in BOOLEAN
    /\ report.outcome \in {"none", "raised", "diverged", "written", "usage", "empty", "reproduced", "differs"}

\* The baseline of the research grid trades exactly as the canonical strategy
\* does: the assertion in run_index never fails.
ParityWithCanonical == report.outcome # "diverged"

\* Usable bars of the grids made, where they are in order of time.
GridBars ==
    {b \in {DropInvalidBars(report.runs[k].bars) : k \in DOMAIN report.runs} :
        report.by # "gate" /\ \A i \in 2..Len(b) : b[i - 1].t < b[i].t}

\* A replay seeded with the position held after any bar does what the full
\* replay does from there: a restart of paper trading neither repeats an event
\* nor loses or invents one (strategy.run's start_after and initial_position).
SeededRunContinues ==
    \A bars \in GridBars, n \in {Baseline} :
        LET v == Named(n)
            full == Replayed(bars, v, None, Flat)
            done(i) == Len(full[i].events)
        IN  \A i \in DOMAIN bars :
                RunFrom(bars, v, bars[i].t, full[i].pos) =
                    SubSeq(full[Len(bars)].events, done(i) + 1, done(Len(bars)))

\* The pick of a window is a function of its train block: on bars that end with
\* the block's last day the same variant is picked, whatever came later
\* (walk_forward's leakage control, where train_exit_cutoff is on and the bars
\* are in order of time).
PickIgnoresTest ==
    report.by # "gate" =>
    \A k \in DOMAIN report.runs :
        LET bars == DropInvalidBars(report.runs[k].bars)
            days == TradingDays(bars)
            designs == IF report.by = "csv" THEN <<LegacyDesign>> ELSE (CHOOSE a \in report.asked : TRUE).designs
        IN  \A j \in DOMAIN report.runs[k].forward :
            \A w \in Range(report.runs[k].forward[j].windows) :
                LET seen == Those(bars, LAMBDA b : Day(b.t) <= days[w.bounds.trainLast])
                IN  designs[j].exitCutoff /\ (\A i \in 2..Len(bars) : bars[i - 1].t < bars[i].t) =>
                    PickOf(Table(Pool, LAMBDA n : TradesOf(seen, Named(n))), days, w.bounds, designs[j]) = w.picked

\* The metrics agree with their definitions over the trades: drawdown is the
\* worst sum of consecutive trades, the losing streak the longest block of
\* losses, a halt needs a whole streak of its own, and the breakdowns by side
\* and by time of day add up to the net.
SummaryReference ==
    report.by # "gate" =>
    \A k \in DOMAIN report.runs : \A n \in Names :
        LET trades == OldestFirst(report.runs[k].trades[n])
            s == report.runs[k].results[n].full
            blocks == {b \in (DOMAIN trades) \X (DOMAIN trades) : b[1] <= b[2]}
            net(b) == Net(SubSeq(trades, b[1], b[2]))
            lost(b) == \A i \in b[1]..b[2] : trades[i].points < 0
        IN  /\ s.drawdown = Max({0} \cup {-net(b) : b \in blocks})
            /\ s.maxLosses = Max({0} \cup {b[2] - b[1] + 1 : b \in {x \in blocks : lost(x)}})
            /\ s.halts * HaltAfter <= s.all.losses /\ (s.maxLosses >= HaltAfter => s.halts > 0)
            /\ s.call.net + s.put.net = s.net
            /\ s.net = SumOf(Ordered(DOMAIN s.slots, <), LAMBDA slot : s.slots[slot].net)

\* The gate takes the best eligible variant of each family, and of those the
\* best MaxCandidates (gate.evaluate, G7).
SelectedAreBest ==
    report.by = "gate" /\ report.outcome # "raised" =>
        \A evidence \in {BuildEvidence(report.runs[1].bars, report.runs[2].bars)} :
        LET eligible == {n \in Pool \ {Baseline} : Eligible(evidence[n])}
            ahead(n, S) == {m \in S : RankedBefore(evidence, m, n)}
            leaders == {n \in eligible :
                          \A m \in ahead(n, eligible) : evidence[m].family # evidence[n].family}
        IN  Range(report.selected) = {n \in leaders : Cardinality(ahead(n, leaders)) < MaxCandidates}

\* A report from the tables reads every candle of its source and period, no bar
\* of the holdout, and no frame that bridges a hole in the data.
ResearchSeesItsData ==
    report.by \in {"db", "gate"} /\ report.runs # <<>> =>
        LET frames == [k \in DOMAIN report.runs |-> report.runs[k].bars]
            bars == UNION {Range(frames[k]) : k \in DOMAIN frames}
            held(a) == a.holdout # None => \A b \in bars : Day(b.t) < a.holdout
            all(a) == \A b \in OfSource(loads, a.source) :
                        /\ a.start <= b.t /\ (a.end # None => b.t <= a.end)
                        /\ a.holdout # None => Day(b.t) < a.holdout
                        => b \in bars
        IN  /\ \A a \in report.asked : held(a) /\ all(a)
            /\ report.by = "gate" => \A b \in bars : Day(b.t) < HoldoutStart
            /\ \A k \in DOMAIN frames : \A i \in 2..Len(frames[k]) :
                  frames[k][i - 1].t < frames[k][i].t
                  /\ Day(frames[k][i].t) - Day(frames[k][i - 1].t) <= MaxGapDays

\* A dataset written wholly and without --allow-partial is the broker's: for
\* every time of the requested days at which it has a valid candle the first
\* one it sent, in order of time, whatever was split, retried or garbled.
CsvIsMarket ==
    \A r \in file.asked :
        LET valid == Where(Market, LAMBDA b : ValidCandle(b) /\ Day(b.t) \in r.start..r.end)
            first == {i \in valid : \A j \in valid : Market[j].t = Market[i].t => i <= j}
        IN  file.whole /\ ~r.partial =>
                /\ Range(file.rows) = {Market[i] : i \in first}
                /\ \A i \in 2..Len(file.rows) : file.rows[i - 1].t < file.rows[i].t

\* What the tables hold: a file is registered once, a source has one candle at
\* a time, nothing excluded and nothing invalid is stored, and unless a file
\* was rewritten between a load's hash and its read, a load holds exactly what
\* the policy keeps of the file it is registered for.
StoredAsPlanned ==
    /\ \A i, j \in DOMAIN loads : loads[i].sha = loads[j].sha => i = j
    /\ \A j, k \in DOMAIN loads : loads[j].source = loads[k].source =>
          \A x \in DOMAIN loads[j].candles, y \in DOMAIN loads[k].candles :
             loads[j].candles[x].t = loads[k].candles[y].t => j = k /\ x = y
    /\ \A k \in DOMAIN loads : \A b \in Range(loads[k].candles) :
          ValidCandle(b) /\ b.l > 0 /\ b.grid /\ Day(b.t) \notin ExcludedDays
    /\ ~raced => \A k \in DOMAIN loads :
          /\ loads[k].candles = Kept(loads[k].sha)
          /\ LET r == loads[k].record
             IN  Len(loads[k].candles) = r.row_count - r.excluded_rows - r.rejected_rows

\* A load that exits with success leaves the file as it now is registered, and
\* unless the file was rewritten under it, what the policy keeps of the file is
\* stored: a concurrent load of the same file or a concurrent download of
\* another one is never reported as this file's success.
LoadTellsTheTruth ==
    [][\A p \in Loaders :
          ld[p].at = "rehash" /\ ld'[p].at = "off" /\ ld'[p].exit \in {"loaded", "already"} =>
             \E k \in FindExistingLoad(loads, file.rows) : raced \/ loads[k].candles = Kept(file.rows)]_vars

===============================================================================
