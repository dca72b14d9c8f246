-------------------------------- MODULE Ingest --------------------------------
(***************************************************************************)
(* `irc ingest` and the tables of local.duckdb it fills: the instruments,  *)
(* their prices and NAVs, the valuation history of the indices, the        *)
(* holdings of the funds; beside it the refresh of the stocks' valuation,  *)
(* the manifests, and the gate the later stages pass.                      *)
(*                                                                         *)
(* A step is one fetch and its write; a table is committed row by row, the *)
(* two histories and the holdings as one transaction each.  Time is in     *)
(* half days.                                                              *)
(***************************************************************************)
EXTENDS Integers, FiniteSets, Sequences, SequencesExt, FiniteSetsExt

CONSTANTS
    OnExchange, OffExchange, \* the instruments with prices, and with NAVs: sequences
    Eligible,       \* the funds whose holdings are read -> their asset class
    BroadKeys,      \* the indices served by legulegu, in the order of the sweep
    SectorKeys,     \* the indices served by csindex
    Frames,         \* legulegu's frame of one axis: the days it has a value for
    Windows,        \* csindex's frame: [days, pe], some weeks and the days with a PE
    StockFrames,    \* a stock's frame: [days, pe, pb]
    SnapshotsSeen,  \* what a fund's snapshot may say: [report, tickers]
    MinPoints,      \* MIN_PE_POINTS
    StaleAge,       \* threshold_days of holdings and stocks, in half days
    MaxAge,         \* DEFAULT_MAX_AGE, in half days
    LastHalfDay, MaxIngests \* bounds

ASSUME IngestAssumption ==
    /\ ToSet(OnExchange) \cap ToSet(OffExchange) = {}
    /\ OnExchange \in Seq(ToSet(OnExchange)) /\ OffExchange \in Seq(ToSet(OffExchange))
    /\ BroadKeys \in Seq(ToSet(BroadKeys)) /\ ToSet(BroadKeys) \cap SectorKeys = {}
    /\ \A s \in SnapshotsSeen : /\ s.tickers \cap (ToSet(BroadKeys) \cup SectorKeys) = {}
                                 /\ s.report \in {-1} \cup Nat
    /\ \A window \in Windows : window.pe \subseteq window.days
    /\ \A frame \in StockFrames : frame.pe \cup frame.pb \subseteq frame.days
    /\ DOMAIN Eligible \subseteq ToSet(OnExchange) \cup ToSet(OffExchange)
    /\ MinPoints \in Nat \ {0} /\ MaxAge \in Nat /\ StaleAge \in Nat
    /\ LastHalfDay \in Nat /\ MaxIngests \in Nat

VARIABLES
    halfDay,      \* the time
    described,    \* the instruments whose row has its metadata
    quotes,       \* instrument -> when its prices or NAVs were last written, or Never
    series,       \* index or stock -> its valuation history
    holdingRows,  \* fund -> report date -> the tickers stored under it
    snapshotFile, \* fund -> the snapshot the opportunity stage left
    manifestAt,   \* when the akshare manifest was last written, or Never
    sidecar,      \* today's .halt_reason.json
    haltedFile,   \* whether today's PIPELINE_HALTED.md is there
    ingest,       \* the run in flight
    ingests

ingestVars == <<halfDay, described, quotes, series, holdingRows, snapshotFile,
                manifestAt, sidecar, haltedFile, ingest, ingests>>
tables == <<described, quotes, series, holdingRows>>
files  == <<manifestAt, sidecar, haltedFile>>

Never == -1
Quoted == ToSet(OnExchange) \cup ToSet(OffExchange)
Stocks == UNION {s.tickers : s \in SnapshotsSeen}
NoSeries == [days |-> {}, pe |-> {}, pb |-> {}]
NoReports == [d \in {} |-> {}]
NoFiling == [report |-> Never, tickers |-> {}]
Idle == [at |-> "off", todo |-> <<>>, prices |-> 0, navs |-> 0, eastmoney |-> TRUE,
         fetched |-> [k \in {} |-> NoSeries]]

IngestInit ==
    /\ halfDay = 0 /\ described = {} /\ quotes = [i \in Quoted |-> Never]
    /\ series = [k \in ToSet(BroadKeys) \cup SectorKeys \cup Stocks |-> NoSeries]
    /\ holdingRows = [f \in DOMAIN Eligible |-> NoReports]
    /\ snapshotFile = [f \in DOMAIN Eligible |-> NoFiling]
    /\ manifestAt = Never /\ sidecar = "none" /\ haltedFile = FALSE
    /\ ingest = Idle /\ ingests = 0
-----------------------------------------------------------------------------
(* What the tables are worth to the stages that read them.                 *)

\* INSERT OR REPLACE by (key, date): a NULL of the frame replaces a value.
UpsertSeries(old, frame) ==
    [days |-> old.days \cup frame.days,
     pe   |-> (old.pe \ frame.days) \cup frame.pe,
     pb   |-> (old.pb \ frame.days) \cup frame.pb]

\* The percentile is given when the series is long enough and its latest row
\* has a value.
PeIsGrounded(s) ==
    s.days # {} /\ Max(s.days) \in s.pe /\ Cardinality(s.pe) >= MinPoints

LatestReport(reports) == Max({Never} \cup DOMAIN reports)

HoldingsAreStale(f) ==
    \/ DOMAIN holdingRows[f] = {}
    \/ halfDay - LatestReport(holdingRows[f]) > StaleAge

SeriesIsStale(c) == series[c].days = {} \/ halfDay - Max({Never} \cup series[c].days) > StaleAge

IngestIsFresh == manifestAt # Never /\ halfDay - manifestAt <= MaxAge
-----------------------------------------------------------------------------
(* The run.                                                                *)

Goto(r, stage, todo) == ingest' = [r EXCEPT !.at = stage, !.todo = todo]

Halt(kind) == sidecar' = kind /\ ingest' = Idle /\ UNCHANGED <<manifestAt, haltedFile>>

StartIngest ==
    /\ ingest.at = "off" /\ ingests < MaxIngests
    /\ ingests' = ingests + 1 /\ sidecar' = "none"
    /\ Goto(Idle, "preflight", <<>>)
    /\ UNCHANGED <<halfDay, tables, snapshotFile, manifestAt, haltedFile>>

Preflight ==
    /\ ingest.at = "preflight"
    /\ \/ \E kind \in {"akshare_unreachable", "akshare_error", "invalid_env_config"} : Halt(kind)
       \/ Goto(ingest, "metadata", <<>>) /\ UNCHANGED files
    /\ UNCHANGED <<halfDay, tables, snapshotFile, ingests>>

\* Every instrument's row is written anew, without metadata for those whose
\* fetch failed or lacks a required field.
UpsertInstruments ==
    /\ ingest.at = "metadata"
    /\ described' \in SUBSET Quoted
    /\ Goto(ingest, "prices", OnExchange)
    /\ UNCHANGED <<halfDay, quotes, series, holdingRows, snapshotFile, files, ingests>>

\* EastMoney until its host is found exhausted, Sina from then on; an error that
\* is not of the network is not tried elsewhere.
FetchPrice ==
    /\ ingest.at = "prices" /\ ingest.todo # <<>>
    /\ LET rest == [ingest EXCEPT !.todo = Tail(@)]
       IN  \E exhausted \in BOOLEAN, outcome \in {"rows", "fails", "unwritten"} :
              /\ exhausted => ingest.eastmoney
              /\ LET now == [rest EXCEPT !.eastmoney = @ /\ ~exhausted]
                 IN  \/ /\ outcome = "rows"
                        /\ quotes' = [quotes EXCEPT ![Head(ingest.todo)] = halfDay]
                        /\ ingest' = [now EXCEPT !.prices = @ + 1]
                        /\ UNCHANGED files
                     \/ outcome = "fails" /\ ingest' = now /\ UNCHANGED <<quotes, files>>
                     \/ outcome = "unwritten" /\ Halt("db_write_failed") /\ UNCHANGED quotes
    /\ UNCHANGED <<halfDay, described, series, holdingRows, snapshotFile, ingests>>

PricesDone ==
    /\ ingest.at = "prices" /\ ingest.todo = <<>>
    /\ Goto(ingest, "broad", BroadKeys)
    /\ UNCHANGED <<halfDay, tables, snapshotFile, files, ingests>>

\* One frame of legulegu: a frame, nothing, or the throttle that ends the sweep.
Throttled == {Never}

\* The days a provider's frame may have values for: none later than today.
AsOfNow(frames) == {f \in frames : f \subseteq 0 .. halfDay}

TakeAnyFrame(fetched, key, frame) == [k \in DOMAIN fetched \cup {key} |->
                                       IF k = key THEN frame ELSE fetched[k]]
\* A history without one of its axes replaces nothing.
TakeFrame(fetched, key, frame) ==
    IF frame.pe = {} \/ frame.pb = {} THEN fetched ELSE TakeAnyFrame(fetched, key, frame)

FetchBroadIndex ==
    /\ ingest.at = "broad" /\ ingest.todo # <<>>
    /\ \E pe, pb \in {Throttled} \cup AsOfNow(Frames) :
          IF Throttled \in {pe, pb} THEN Goto(ingest, "broad", <<>>)
          ELSE ingest' = [ingest EXCEPT !.todo = Tail(@),
                             !.fetched = TakeFrame(@, Head(ingest.todo),
                                [days |-> pe \cup pb, pe |-> pe, pb |-> pb])]
    /\ UNCHANGED <<halfDay, tables, snapshotFile, files, ingests>>

\* What landed replaces the whole history of its keys, or nothing does.
CommitBroad ==
    /\ ingest.at = "broad" /\ ingest.todo = <<>>
    /\ \/ series' = [k \in DOMAIN series |->
                        IF k \in DOMAIN ingest.fetched THEN ingest.fetched[k] ELSE series[k]]
       \/ series' = series
    /\ Goto([ingest EXCEPT !.fetched = Idle.fetched], "sector", <<>>)
    /\ UNCHANGED <<halfDay, described, quotes, holdingRows, snapshotFile, files, ingests>>

\* A sector's frame: a weekly window, in which a day may come without its PE, and
\* no PB.  An empty one is a fetch that failed.
SectorFrame(window) == [days |-> window.days, pe |-> window.pe, pb |-> {}]
SectorFrames == {SectorFrame(w) : w \in {v \in Windows : v.days \subseteq 0 .. halfDay}}

FetchSectors ==
    /\ ingest.at = "sector"
    /\ \E frames \in [SectorKeys -> SectorFrames] :
          Goto([ingest EXCEPT !.fetched = frames], "accumulate", <<>>)
    /\ UNCHANGED <<halfDay, tables, snapshotFile, files, ingests>>

\* The sectors accumulate: their windows are upserted, or the write fails.
CommitSectors ==
    /\ ingest.at = "accumulate"
    /\ \/ series' = [k \in DOMAIN series |->
                        IF k \in SectorKeys THEN UpsertSeries(series[k], ingest.fetched[k])
                        ELSE series[k]]
       \/ series' = series
    /\ Goto([ingest EXCEPT !.fetched = Idle.fetched], "navs", OffExchange)
    /\ UNCHANGED <<halfDay, described, quotes, holdingRows, snapshotFile, files, ingests>>

FetchFundNav ==
    /\ ingest.at = "navs" /\ ingest.todo # <<>>
    /\ \/ /\ quotes' = [quotes EXCEPT ![Head(ingest.todo)] = halfDay]
          /\ ingest' = [ingest EXCEPT !.todo = Tail(@), !.navs = @ + 1]
          /\ UNCHANGED files
       \/ ingest' = [ingest EXCEPT !.todo = Tail(@)] /\ UNCHANGED <<quotes, files>>
       \/ Halt("db_write_failed") /\ UNCHANGED quotes
    /\ UNCHANGED <<halfDay, described, series, holdingRows, snapshotFile, ingests>>

NavsDone ==
    /\ ingest.at = "navs" /\ ingest.todo = <<>>
    /\ Goto(ingest, "holdings", SetToSeq(DOMAIN Eligible))
    /\ UNCHANGED <<halfDay, tables, snapshotFile, files, ingests>>

\* What a source may have of a fund's holdings: no report of a day to come.
FiledByNow == {s \in SnapshotsSeen : s.report <= halfDay}

\* The snapshot of the opportunity stage is the source; akshare stands in for an
\* ETF without one, and may fail.
HoldingsSources(f) ==
    IF snapshotFile[f] # NoFiling THEN {snapshotFile[f]}
    ELSE IF Eligible[f] = "cn_etf" THEN {NoFiling} \cup FiledByNow ELSE {NoFiling}

\* A snapshot that yields rows: top holdings, and the date they were reported.
HasHoldings(s) == s.tickers # {} /\ s.report # Never

StoreHoldings(f, s) ==
    holdingRows' = [holdingRows EXCEPT ![f] =
        [d \in DOMAIN @ \cup {s.report} |->
            IF d = s.report THEN s.tickers \cup (IF d \in DOMAIN @ THEN @[d] ELSE {}) ELSE @[d]]]

IngestHoldings ==
    /\ ingest.at = "holdings" /\ ingest.todo # <<>>
    /\ LET f == Head(ingest.todo)
       IN  \/ holdingRows' = holdingRows   \* fresh, nothing usable, or rolled back
           \/ /\ HoldingsAreStale(f)
              /\ \E s \in HoldingsSources(f) :
                    HasHoldings(s) /\ StoreHoldings(f, s)
    /\ ingest' = [ingest EXCEPT !.todo = Tail(@)]
    /\ UNCHANGED <<halfDay, described, quotes, series, snapshotFile, files, ingests>>

\* Not one price, or not one NAV: the run fails after all it wrote.
NothingFetched ==
    \/ OnExchange # <<>> /\ ingest.prices = 0
    \/ OffExchange # <<>> /\ ingest.navs = 0

EndIngest ==
    /\ ingest.at = "holdings" /\ ingest.todo = <<>>
    /\ \/ NothingFetched /\ Halt("akshare_empty")
       \/ ~NothingFetched /\ Goto(ingest, "manifest", <<>>) /\ UNCHANGED files
    /\ UNCHANGED <<halfDay, tables, snapshotFile, ingests>>

WriteManifest ==
    /\ ingest.at = "manifest"
    /\ manifestAt' = halfDay /\ Goto(ingest, "unlink", <<>>)
    /\ UNCHANGED <<halfDay, tables, snapshotFile, sidecar, haltedFile, ingests>>

ClearHalted ==
    /\ ingest.at = "unlink"
    /\ haltedFile' = FALSE /\ ingest' = Idle
    /\ UNCHANGED <<halfDay, tables, snapshotFile, manifestAt, sidecar, ingests>>

\* A kill, or an exception nobody catches; what was committed stays.
KillIngest ==
    /\ ingest.at # "off" /\ ingest' = Idle
    /\ UNCHANGED <<halfDay, tables, snapshotFile, files, ingests>>
-----------------------------------------------------------------------------
(* Beside the run, while nobody has the database open.                     *)

\* `irc run` turns what ingest left into its halt file.
RunnerHalts ==
    /\ ingest.at = "off" /\ sidecar # "none"
    /\ haltedFile' = TRUE /\ sidecar' = "none"
    /\ UNCHANGED <<halfDay, tables, snapshotFile, manifestAt, ingest, ingests>>

\* `irc fundamentals`: a stock's whole history from EastMoney, from Tushare if it
\* has nothing, not at all if it has rows of late, unless forced.
StockFrame == {frame \in StockFrames : frame.days \subseteq 0 .. halfDay}

RefreshStock ==
    /\ ingest.at = "off"
    /\ \E f \in DOMAIN Eligible : \E d \in DOMAIN holdingRows[f] : \E c \in holdingRows[f][d] :
       \E frame \in StockFrame, force \in BOOLEAN :
          /\ force \/ SeriesIsStale(c)
          /\ series' = [series EXCEPT ![c] = UpsertSeries(@, frame)]
    /\ UNCHANGED <<halfDay, described, quotes, holdingRows, snapshotFile, files, ingest, ingests>>

SaveSnapshot ==
    /\ ingest.at = "off"
    /\ \E f \in DOMAIN Eligible, s \in FiledByNow :
          /\ s.report >= snapshotFile[f].report
          /\ snapshotFile' = [snapshotFile EXCEPT ![f] = s]
    /\ UNCHANGED <<halfDay, tables, files, ingest, ingests>>

PassHalfDay ==
    /\ ingest.at = "off" /\ halfDay < LastHalfDay
    /\ halfDay' = halfDay + 1
    /\ IF (halfDay + 1) % 2 = 0 THEN sidecar' = "none" /\ haltedFile' = FALSE
                                ELSE UNCHANGED <<sidecar, haltedFile>>
    /\ UNCHANGED <<tables, snapshotFile, manifestAt, ingest, ingests>>

IngestNext ==
    \/ StartIngest \/ Preflight \/ UpsertInstruments \/ FetchPrice \/ PricesDone
    \/ FetchBroadIndex \/ CommitBroad \/ FetchSectors \/ CommitSectors
    \/ FetchFundNav \/ NavsDone \/ IngestHoldings \/ EndIngest \/ WriteManifest \/ ClearHalted \/ KillIngest
    \/ RunnerHalts \/ RefreshStock \/ SaveSnapshot \/ PassHalfDay

IngestSpec == IngestInit /\ [][IngestNext]_ingestVars
-----------------------------------------------------------------------------
(* Properties.                                                             *)

Series == [days : SUBSET Nat, pe : SUBSET Nat, pb : SUBSET Nat]

\* The tables and the run keep their shape; a value of a series stands on one of
\* its days.
IngestTypeOK ==
    /\ halfDay \in 0 .. LastHalfDay /\ ingests \in 0 .. MaxIngests
    /\ described \subseteq Quoted
    /\ \A i \in Quoted : quotes[i] \in {Never} \cup 0 .. halfDay
    /\ \A k \in DOMAIN series :
          series[k].pe \cup series[k].pb \subseteq series[k].days
    /\ \A f \in DOMAIN Eligible : DOMAIN holdingRows[f] \subseteq 0 .. halfDay
    /\ manifestAt \in {Never} \cup 0 .. halfDay /\ haltedFile \in BOOLEAN
    /\ ingest.at \in {"off", "preflight", "metadata", "prices", "broad", "sector", "accumulate",
                      "navs", "holdings", "manifest", "unlink"}

\* A stage the gate lets through has prices and NAVs that recent, whatever
\* halts, kills and write failures came between.
FreshMeansFetched ==
    IngestIsFresh =>
        /\ OnExchange # <<>> => \E i \in ToSet(OnExchange) : halfDay - quotes[i] <= MaxAge
        /\ OffExchange # <<>> => \E i \in ToSet(OffExchange) : halfDay - quotes[i] <= MaxAge

\* The days the frame in hand has no PE for.
Blanked(k) == IF k \in DOMAIN ingest.fetched
              THEN ingest.fetched[k].days \ ingest.fetched[k].pe ELSE {}

\* A throttled, partial or failed sweep never costs a broad index its history: what
\* replaces it has both axes.  A sector keeps its days, and loses a PE, and with it
\* its grounding, only to a day csindex itself gave without one: a stored day or
\* the latest.
SweepLosesNothing ==
    /\ \A k \in ToSet(BroadKeys) : series'[k] # series[k] =>
          series'[k].pe # {} /\ series'[k].pb # {}
    /\ \A k \in SectorKeys :
          /\ series[k].days \subseteq series'[k].days
          /\ series[k].pe \ series'[k].pe \subseteq Blanked(k)
          /\ PeIsGrounded(series[k]) /\ ~PeIsGrounded(series'[k]) =>
                Blanked(k) \cap (series[k].pe \cup {Max(series'[k].days)}) # {}

\* Holdings are never withdrawn, and a run that told of a failure leaves the
\* data as old as it was.
NoFalseFreshness ==
    /\ \A f \in DOMAIN Eligible : \A d \in DOMAIN holdingRows[f] :
          d \in DOMAIN holdingRows'[f] /\ holdingRows[f][d] \subseteq holdingRows'[f][d]
    /\ manifestAt' # manifestAt => sidecar = "none" /\ ~NothingFetched

\* What ingest tells the later stages is so: fresh data were fetched, an index
\* keeps its history through any outage of its provider but the days the provider
\* blanks, and a failure is told.
IngestKeepsItsWord ==
    /\ []FreshMeansFetched
    /\ [][SweepLosesNothing /\ NoFalseFreshness]_ingestVars
=============================================================================
