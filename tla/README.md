# TLA+ models of the investment research copilot

`irc` is a command-line program (Python, `src/src/irc/`) that a launchd
schedule and an operator run against one repository directory. It ingests
market data into a DuckDB file, screens and scores funds, has language models
write a memo, and publishes a decision report; beside this weekly pipeline it
renders a daily monitor brief, captures money flows and refreshes quarterly
fundamentals. Nothing runs as a server: the processes are short-lived and
meet only on disk, and that is where this project looks. It models the files
the commands leave for one another, the order they are written in, and what a
kill, a midnight, a second process or a retry does to them.

Paths below are relative to the repository root, which is `src/`.

## 1. Inventory

| Part | State it keeps | Operations | What is hard |
|---|---|---|---|
| Pipeline runner (`src/irc/commands/run_cmd.py`, `pipeline_state.py`, `pipeline_halt.py`, `pipeline_outputs.py`) | `.pipeline_state.json`, `PIPELINE_HALTED.md`, `.halt_reason.json` per day | `run`, `--from`, `--only`, `--resume`; stage loop; output check; halt; completion | kills between writes, midnight in a run, stale files of earlier runs, commands run beside it |
| Ingest (`commands/ingest_cmd.py`, `data/`) | DuckDB tables, source manifests, sidecar | fetch, upsert, tally, manifest | partial failure, stale sidecar, freshness |
| Discovery (`commands/discover_cmd.py`, `universe_cmd.py`, `discovery/`) | generated universe, watchlist, rejection and diagnostics sheets | choice of the universe, funnel, reasons from the model | three files written one by one, a funnel with five exits |
| Scoring, gold, allocation, trades (`scoring/`, `commands/gold_cmd.py`, `allocation/`, `trades/`) | one output file each | composites, regime and tilt, class weights, top-K, caps, plan | boundaries and normalisation, fallback to an older day's input |
| Opportunity (`commands/opportunity_cmd.py`, `opportunity/`, `fundamentals/`) | fetch state, per-fund snapshot cache, rejection log, three outputs | budget gate, advisory lock, per-fund fetch with cache, repair; thesis, states, Policy B | crash and resumption of a paid fetch, two processes, a quarter turning; a state composed of bands any of which may be missing |
| Memo (`commands/memo_cmd.py`, `memo/`) | `memo.md` or `memo_blocked.md`, audit and traceability files | synthesis, audit, citation gate, publication | the two files exclude each other; citations carried over from paragraph to paragraph |
| Decision (`commands/decision_cmd.py`, `decision/`) | `decision_report.json`, `.md` | blocking reasons, per-row status, promotions | precedence of gates, stale inputs |
| Research (`commands/research_cmd.py`, `research/`) | theme reports, `research_status.json` | search with fallbacks, synthesis, quality gate | files of two runs side by side, written before the gate |
| Spend (`spend/`, `commands/spend_cmd.py`) | consumption ledger, cost profile, usage log | preflight gate, recording after each command | unlocked read-modify-write, quota periods, re-anchored wallets |
| LLM gateway (`llm/`) | usage and cost records | retry with back-off within retry | deadline against retries |
| Monitor (`monitor/`, `commands/monitor_cmd.py`) | flow series, caches, industry map, signals, forward ledger | cached fetch, signal, gate, rendering, forward scoring | circuit breaker, lost cache on a crash, two writers, reruns of a day |
| Rotation radar (`rotation/`, `commands/rotation_cmd.py`) | board series, ledger, states | capture, states with hysteresis, seeding | idempotence within a day |
| Notifications (`notify/`, `commands/notify_cmd.py`) | reads the other parts' files | classification, escalation | precedence of causes, recovery read off old files |
| Schedule (`ops/launchd/`) | lock directories, logs, sentinels | lock, watchdog, retries by later fires | lock theft, kill of a process group |
| Narrative (`narrative/`) | narrative reports | screening by themes | pure over inputs |
| Templates, schemas, settings, queries, news, observability | — | validation and wording | none of interest to a model checker |

How they interact: the wrappers start commands and read sentinels; the runner
calls stages as functions and reads only their return codes and files; every
stage reads its predecessors' files, falling back on an older day's; the spend
gate stands in front of every paid command and the recorder behind it;
notifications and decision read the runner's marker.

## 2. Layout

| Module | Part | Abstract specification | Checked in | Proofs |
|---|---|---|---|---|
| `Pipeline`, `PipelineJob`, `MCPipeline`, `MCMidnight` | the runner and the files it shares with the stages | `ResumableJob` | `PipelineDay`, `PipelineMidnight` | `PipelineProofs` |
| `WrapperLock` | lock and watchdog of `lib-run.sh`, a manual run beside them | mutual exclusion | `Lock` | `WrapperLockProofs` |
| `Ingest` | `irc ingest`, the tables, the freshness gate | | `Fetch` | `OpportunityFetchProofs` |
| `Discovery` | the universe and the funnel | | `Fetch` | `OpportunityFetchProofs` |
| `OpportunityFetch` | the fetch loop: lock, caches, budget, resume file | | `Fetch` | `OpportunityFetchProofs` |
| `FundCase` | one fund from its snapshot to the files | sufficient evidence, in `Sufficient` | `Fetch` | `OpportunityFetchProofs` |
| `DecisionChain` | what the last six stages say of a fund | | `Decision` | `DecisionChainProofs` |
| `GoldAllocation` | regime and tilt, class weights, top-K, dedupe, cap | | `Decision` | `DecisionChainProofs` |
| `Memo` | the memo stage, its citation gate and its files | | `Decision` | `DecisionChainProofs` |
| `Notify` | what the wrappers' tails page | | `Decision` | `MonitorProofs` |
| `SpendLedger` | quotas and wallets, gate and recorder | exact accounting | `Spend` | `PaidCallsProofs` |
| `LlmCall` | attempts within attempts against one deadline | | `Spend` | `PaidCallsProofs` |
| `Research` | theme research, its files and a reader of them | | `Spend` | `PaidCallsProofs` |
| `DayStores`, `MarketData` | flow series, board PE, industry map, per-stock cache | | `Market` | `MarketProofs` |
| `RotationRadar` | board series, states with hysteresis, ledger | | `Market` | `MarketProofs` |
| `MonitorSignal` | one fund's reading and its gate | | `Market` | `MarketProofs` |
| `ForwardScore` | ledger, NAV history, forward scorer, timeline | | `Market` | `MonitorProofs` |

Components whose state is disjoint share a run. The MC module picks at the start
which of them moves (`mover`) and lets the others keep still, so that what TLC
explores is the sum of their state spaces and not the product. Nothing is lost
by it: what one component leaves on disk for another is an input of that other's
own `Init` or actions. A property that such a run checks of one component is
the conjunction of the component's named properties, written at the end of its
module, each with its own comment.

Every safety property of the passing runs is proved as well; liveness is left to
TLC (section 6, at the end). `SumTheorems` is what the proof modules share: least
members, orders, and the laws of sums over finite sets.

## 3. The models

### Pipeline, PipelineJob, ResumableJob

`Pipeline` is `run_pipeline` and its stage loop, one file operation per step.
`disk` holds the day directories, `PIPELINE_HALTED.md` (the stage it names),
`.pipeline_state.json` (the failed stage), `.halt_reason.json` (the stage it
names), the run that last wrote each stage's outputs, and whether the decision
report was composed with a marker in place. `pc` walks the loop: `begin` (the
stage reads its date; ingest removes a stale sidecar), `body`, `check` (the
required outputs), then either `mark`, `unlink`, `save` after a failure or
`clear`, `unmark` after the last stage. `Start`, `Resume` and `Refuse` are the
ways into a run, `Die` is a kill between any two file operations, `Tick` is
midnight, `Standalone` a stage command typed by the operator, between runs or,
with `Overlap`, during one. `owed` is a history variable: what a chain of a run
and its resumptions has wanted and got.

A stage of `Silent` may return 0 and write nothing; decision, which writes its
report or fails, is not one. Left out: the stages themselves beyond what they do
to these files; the wording of the halt file; a resumed run's choice of
`RESEARCH_ENABLED` is free.

`ResumableJob` says what resuming rests on: a day's checkpoint changes only when
a job ends, to the step it failed at or to none. `PipelineJob` maps the runner
to it; the job is over once the checkpoint is cleared, though the marker is
still to be removed.

### WrapperLock

`acquire_lock` by system calls (`mkdir`, the pid's write and reading, `kill -0`,
the two calls of `rm -rf`), the sentinel test before it, `run_with_watchdog`
after it (start, poll, collect, TERM/KILL to the group), the report and the
EXIT trap. A kill stops the shell at any step; its command runs on, since
`set -m` put it in a process group of its own. Every call of one wrapper may
come between any two of another; `misread`, a history variable, remembers that a
wrapper has read the pid file while the lock was changing hands (the directory
was gone, or another wrapper was about to write its pid into it or to remove it)
and took it for stale. A manual run takes no lock; all the wrappers see of it is
its last output. Left out: calendar gates, log rotation, what the notification
says. Pids are not reused.

### OpportunityFetch

`_build_rows`: `Begin` reads the plan's state file, `Gate` prices the plan with
what the cache holds and refuses it over budget, `Lock`/`Busy` is the `flock`
with one retry, then per fund `TakeCredited`, `TakeCached`, `TakeToProbe` or
`TakeToBuild`, the probe (`ProbeTurns`, `ProbeHolds`), the fund-level repair, the
build, the cache write (which may fail) and the rewrite of the state file, its
removal at the end, and `Die` anywhere. A snapshot is reduced to what the loop
asks of it: a holding without data, the fund-level legs present, the day of its
last probe.

What the gate expects a plan to cost is a sum over its funds; `Planned` counts a
set with as many members for a fund as the fund costs.

Left out: `--limit` (the plan is keyed on the day), autobuild switched off; the
output date and `today()` are one day.

### DecisionChain

Files are functions from the days on which they were written, so that a stage
can fall back on an older one, and a run may start at any stage, halt or die
after any. A stage is one step. `Score` and `Opportunity` take what they find
from a set of outlooks and reviews; `Allocate` picks any top-K per class and
any deduplication by index; `Plan` replaces a fund the account cannot reach by
its proxy; `Report` is the theme reduction, the keeping of held funds, the
demotion of active ones and the gap partition; `PickStatus` is the memo's own
verdict and `Verdict` the decision report's, both over `Blockers` and `Status`;
`Promotions` compares with the latest earlier report. `stale` (which files are
older than their inputs), `undecided` and `told` are history variables; `told`
says of a day with a report which funds were announced by then, and is not
written on a day that has none.

Left out: composites, weights and caps (top-K is any choice); ties of quality;
the promotion track on `dca_action`; the suffix rule of proxies; `irc decision`
falling back on an older directory; scored funds outside the universe; of the
blocking reasons two which only block more and which no file of the pipeline's
own raises: `target_weights_invalid` (the weights of an allocation add up,
`AllocationAddsUp`) and `pipeline_incomplete` (a score always carries an action,
`scoring/pipeline.py:139`). The citation gate and the audit are one free choice (`PublishMemo`, `BlockMemo`).
`known` says whether the venue configuration loaded.

### GoldAllocation

`RunGold` writes the gold file of the day: `ClassifyRegime` from the volatility,
the ADX and the sign of the trend, `GoldTiltFromScore` from the drivers' score,
`CombineTilts` of the two under the number of WGC series missing; a run that
halts (stale ingest, no exchange-traded gold, no price) leaves the file as it
was. `RunAllocate` takes the scores of today or of the latest day that has any,
with the gold file beside them, and computes `TargetWeights`, `SelectTopK`,
`Sized`, `DropDuplicateIndexTrackers` and `ApplySatelliteQdiiCap` as the code
does, on integers. A composite score is a level and `Expo` its exponential. A fund
is its place in the score table and an allocation a function from places to
weights, so the code's sorts become orders on places (`PickedBefore`, `Beats`,
`PouredBefore`) that keep what breaks a tie; the loop that pours the shaved weight
from row to row becomes the share of each row, which is what those before it leave.
The code divides floating-point numbers; `UnitsAreFine` says that the units are
so fine that each of its quotients is whole, and TLC evaluates it.
`DecisionChain` leaves these choices free and asks what follows for the plan; here
they are computed.

Left out: the arithmetic of a driver score, the band and the zone of the price,
the evidence the gold file carries, `drop_high_correlation_pairs` (the command
passes an empty matrix, so it never runs).

### Memo

A memo is a sequence of blocks, each a paragraph, a row or a heading that names
funds or stocks, cites evidence and says an action or not. `Synthesize` puts the
deterministic tables (`SelectCitations` picks what a cell shows) among passages
the model writes of its own; `Audit` is the second model's verdict;
`CitationGate` reads it. The code walks the blocks once and keeps what the last
ones leave behind; here `BlockFindings` says what it finds of one block, from
the block above and from the context that the last block to set one gives
(`SectionOwner`, `Subsection`), and `UncitedConclusions` is the union over the
blocks that advise an action. The four writes and removals of `memo.md`,
`memo_blocked.md` and the audit files are a step each, `TearMemo` kills between
them, and `ShadowAnew` is a rerun. `MemoAssumption` has what the opportunity
stage audits before it publishes a row: a datum and an information of the fund's
own (`find_uncited_opportunity_rows`). What a memo may say (`BlockIsBacked`) is
written without the gate's rules. One of them shows through: a fund whose name
is written only inside the longer name of a fund that is not in the report
counts as written of (`WrittenOf`). Left out: the macro, currency, concentration
and premium texts, and the words.

### Notify

The 15:45 chain over days: capture, rotation and `notify-status`, each of which
may fail; what the page then says (`Classify`, `health`, escalation, recovery
against the radars of earlier days) and whether a channel took it. The tails of
the monitor and the weekly wrapper read any of the outcomes their run may leave.
A summary that is not JSON is read as a failure; one that is JSON of another
shape, or no UTF-8, ends `notify-status` before it says anything
(`DieBeforeSaying`). The exit code of the rotation is dropped by its script, so
that the page goes by the radar file of the day, whichever chain wrote it.

### SpendLedger

`Pass` is the gate (`run_preflight`, `_verdict`), `Work` the paid searches with
their count, `WorkUncounted` a command that raises before its count is returned
or never counts (monitor). The recorder is four steps: it reads and rewrites the
day's actuals, reads and rewrites `consumption.json`; `Abandon` kills it before
any. `PeriodStart`, `Counts` and `Applied` are `_period_start`, the two readings
and `apply_usage`. `Tick` moves the clock along a list of dates, `TopUp` is the
operator's edit. `used`, `due`, `lost` and `ever` are history variables that say
what was really spent, and `NewPeriod` says when a quota really renews.
The ledger takes every query off a balance as one unit of it (`Taken`), whatever
a query costs: a tavily query costs two credits and a bocha query CNY 0.036
(`config/spend_pricing.yaml:25-27`). `Price` and `Unit`, in fractions of a unit,
keep the two apart.

Left out: the usage profile (it prices the language-model estimates, whose
providers are probed and never block on the ledger); one price per provider; a
command gates once and records once, under the date it started on; a research
command outside a run, which has no gate.

### LlmCall, Research

`LlmCall` is one call: up to five rounds of the loop that minds the deadline,
each of up to five POSTs with waits between, with the time in seconds. How long a
POST takes is free (`Durations`): httpx's timeout is for each connect, write and
read (`http_client.py:101-104`) and the lookup of the host has none (`:98`). The
schedule of waits is a constant, and what an attempt waits in all a recursive
function of its number.

`Research` builds the reports of a run theme by theme (`Search` by locale over
the engines there are keys for, `ExtractTopPages`, `SynthesizeReport`,
`ApplyRelevanceFilter`), then writes one file per theme, then the status, then
gates; `ResearchDies` stops it anywhere. `StartReading` and `ReadReport` are a
stage that reads the status and then the files, in the status's order, at any
time. `Intact` and
`SummaryForTheme` are what the thesis and the scores make of what was read. The
recorder at the end of a run is `SpendLedger`'s; it may fail without a word
(`research_cmd.py:89-96`), and nothing here counts what was paid. A
text is what its words come to, a citation its URL.

### Ingest

`Preflight` to `EndIngest` are the legs of `run_ingest` in order: a row of
`instruments`, a price, an index, a NAV, a fund's holdings a step each, with an
outage or a throttle as an outcome; `WriteManifest` and `ClearHalted` end it,
`KillIngest` stops it anywhere, `RunnerHalts` is the runner's marker beside it.
`RefreshStock` is the stocks' valuation refresh and `IngestIsFresh` the gate of
the later stages. `FetchSectors` takes a frame of each sector, in which any day may
lack its PE, and `CommitSectors` writes them one by one, a day without a PE in
place of the one that was stored. Time is in half days. Left out: the macro
series, the parsing of pages, the tenure fallback.

### Discovery

`BuildUniverse` chooses funds from a catalogue (share classes, feeders, caps,
last year's returns), `StartDiscover` screens what `IngestTables` stored,
`WriteReason` asks the model for each fund it took, role by role and within a
role in any order, and the three files are a step each. Names are classified by
constants and thresholds are bands.

### FundCase

One fund: the snapshot served (active, fund-level, or kept), the row derived
(`DeriveRow`), the four states (`Value`, `Warm`, `Grade`), the thesis and its
gaps, Policy B, demotion and advice (`Compose`, `Reduce`), and the files it ends
in (`WriteOutputs`). The arithmetic behind a percentile, the texts and the
advisory codes are left out.

### DayStores, MarketData, RotationRadar

`DayStores` holds what the two share: days, stores pruned to a window, and the
industry map that both read and fill. `MarketData` is the brief and the capture
as two processes: the calendar, the flow store, the board PE tables, the batch
and per-stock industries with retry and breaker, merges and writes, kills.
`RotationRadar` is `irc rotation` (snapshot, merge, rank, band states with
hysteresis over a window, report, ledger) and the seed beside it, which prunes
nothing when it has no calendar. A stock's flow and its industry are captured
apart: either may be missing.

### MonitorSignal, ForwardScore

`MonitorSignal` takes one fund from its NAV through the model's two answers, the
holdings' metrics and the six factor scores to the signal and the gate that
decides what is published; numbers are hundredths, and the scores a function
from the factors that are available. What the sources may hand in is a named
assumption (`IsBasket`, `AreImpactRows`): a row for each holding, and a validated
answer in range. A fund has its own weights, bands and confidence where
`monitor.yaml` gives it some (`EffectiveWeights`), a NAV series the trading days
it misses if there is a calendar to count them by and its longest gap if not, and
an answer of the model that is no object ends the run. `ForwardScore` is the track
record: the ledger and the NAV history appended in two steps, the inline scorer,
the timeline, kills and reruns, engine versions.

## 4. The runs

| Run | Question | Bounds, and why they are enough |
|---|---|---|
| `PipelineDay` | does a full run name the stage it halts at and publish a clean sheet (`FullRunIsSound`); does the runner implement `ResumableJob`; does every run end | two days; four stages stand for ten: ingest (which has the marker and sidecar rules), one with outputs and silent failures, an optional one, decision. Three commands: a halt, what happens in between, a resumption |
| `PipelineMidnight` | does midnight, a kill or a concurrent `irc ingest` make resuming skip a stage or lose a halt; and, on a calm day, what a chain of runs guarantees of order, of files and of markers (`CalmRunIsWhole`, `CalmHaltIsTold`) | five stages, two days, three commands; the calm day has four commands and no kill, silent stage or stand-alone command, with which its properties are false |
| `HaltPoisonsResume` | (violated) a run that succeeds has a clean sheet | two commands |
| `Lock` | does the lock exclude and get free, does a stale one give way, does the watchdog tell the truth, do all wrappers end | three wrappers: holder, contender, successor, every system call of which may come between any two of another |
| `Fetch` | what the fetch's lock, gate, state file and cache give; what one fund's states, advice and evidence promise; whether every fund discovery met is in a sheet; what ingest keeps through outages | fetch: two runs, a foreign-heavy active fund (every leg and repair) and a fund-level one, two days, two quarters, budgets below and above the plan. Fund: every class, three percentiles (cheap, fair, rich), every missing leg. Ingest: two runs, three half days. Discovery: six funds of which a feeder, a share class and a capped one, two runs |
| `GappedRowsSurface` | (violated) a gapped fund is told in the rejection log | one fund |
| `Decision` | do the reports of a day agree with the plan, the venues and one another; is a page earned and silence, too; is a published memo backed by evidence and a faithful one published; does the allocation add up | report: four funds of one theme, two of one index in different classes, one unreachable; three runs over two days. Notifier: three days behind five of radars, five stocks. Memo: two funds one of whose names holds the other's, two passages of the model's own, two runs. Allocation: forty-eight tables of six funds, two days |
| `DowntrendIsBought` | (violated) a downtrend is never bought aggressively | one run of `irc gold` |
| `Spend` | does the gate's reading keep to what was spent; is a call bounded; do research files keep together | a quota whose queries take two units each and a wallet whose queries cost half of one, four dates of which two lie in each period with a new year between, three commands of two processes, one top-up; one call with the shipped retries; two research runs over an English and a Chinese theme |
| `QuotaForgets` | (violated) the quota is exact in every period | two commands, none under way at midnight |
| `Market` | what the radar, the day stores, the signal and the track record promise | four days of which one is no trading day (so that a window slides over it), two boards of which either leads and a board's flow may be missing, two stocks of which a batch may name either, three radar runs, two of the monitor's commands; four fund profiles and a fund with weights and bands of its own, NAVs with and without a calendar; two monitor runs over three days |
| `RerunScoredTwice` | (violated) a day is scored once | three runs of the monitor on two days |

Deadlock is not checked: the bounds on commands, days and runs end every
behaviour.

Fairness is assumed in two runs. In `PipelineDay` the runner's own steps are
weakly fair: it is a sequential program whose file operations return, and a
stage either returns or is killed; starting commands, kills and midnights are
not fair. In `Lock` each live shell goes on and its watchdog's clock runs; the
command it watches may hang for ever, which is what the watchdog is for.

Properties that exempt a case name it, and the case does occur:
`NoCallIsWasted` leaves out a run that read the state file before another run of
the plan changed it (`raced`); `ExactWhileCurrent` and `NothingOldIsCharged` leave
out two commands at once (`record_command_run` documents that it wants them in
sequence), and `LedgerIsBacked` says what remains true then; the second says of what the gate takes off (`Taken`) only where a
query costs a unit or more; `OneHolder` and `LockIsFreed` leave out a pid file read
while the lock changed hands (`misread`); `SweepLosesNothing` a day that csindex
gave without a PE; `NotifierKeepsItsWord` a rotation that died behind an
earlier chain's radar of the day and a report `notify-status` dies of;
`MissingCannotReverse` bands closer together than the floor on the available
weight asks; `EveryFundIsFollowed`
asks that a decision read every day's report; `SeenGoesBackOnlyInARace` names the
two processes that read the industry map before either wrote it.

The composite properties, and what each is made of:

| Property | Conjuncts |
|---|---|
| `IngestKeepsItsWord`, `DiscoveryAccountsForAll`, `EvidenceCarriesThrough`, `AdviceHangsTogether` | at the end of `Ingest`, `Discovery`, `FundCase` |
| `NotifierKeepsItsWord` | `SilenceIsEarned` (no page only when the run was well, and a page decided arrives), `RecoveryIsTold` |
| `MemoKeepsItsWord` | `PublishedIsBacked`, `PublishedPassedGates`, `VerdictStandsAlone`, `FaithfulIsPublished` |
| `AllocationAddsUp` | `NothingIsLost`, `GoldStaysInBand`, `BetsStaySmall`, `ClassesGetTheirWeight`, `RolesKeepTheirPlace`, `TiltIsEarned` |
| `ResearchKeepsItsWord` | `WordsAreNotStale`, `LibraryIsWhole`, `ReaderIsNotMisled`, `GoodRunIsUsable` |
| `RadarIsHonest`, `WhatWasPaidForIsKept`, `BriefServesWhatIsKnown`, `NothingKnownIsLost` | at the end of `RotationRadar`, `MarketData`, `MCMarket` |
| `SignalKeepsItsWord` | `CallIsEarned`, `BasketIsNotFlattered` |
| `NoCallIsWasted`, `LedgerIsBacked`, `BuysCanBeMade`, `EveryFundIsFollowed`, `CommandIsAccountedFor`, `WrappersGetThrough`, `FullRunIsSound`, `MidnightIsHarmless` | at the end of `OpportunityFetch`, `SpendLedger`, `DecisionChain`, `WrapperLock`, `Pipeline` |

## 5. What the code does not give

The runs that expect a violation:

* `HaltPoisonsResume`: a run resumed past ingest reaches decision with the
  earlier halt's marker in place, reports success and has a blocked sheet.
* `GappedRowsSurface`: a fund looked through to an index whose kept snapshot has
  no filing gets a gap code the rejection log does not know; the run aborts with
  two of its files written.
* `QuotaForgets`: after its first rollover a quota's row is out of date for
  good, and so is the hard stop.
* `DowntrendIsBought`: the clamp of `_combine_tilts` tests for "trending_down",
  `classify_regime` says "downtrend"; full weight is given to a falling gold.
* `RerunScoredTwice`: the forward scorer is given the raw ledger, not the
  deduplicated one.

Behaviour found while modelling that no listed run shows:

Schedule and runner
* `mkdir` is atomic, `mkdir` and the pid's write are not (`lib-run.sh:13`, `:31`):
  a second wrapper between the two takes the lock for stale, removes it and both
  run. So does one that finds it free of a pid because the holder is leaving, or
  that removes what a third has made since it looked. `misread` names the cases:
  without it `OneHolder` and `LockIsFreed` fail.
* The sidecar of a failed stand-alone `irc ingest` makes the next halt of a
  later stage name ingest (`run_cmd.py:160`); `FullRunNamesItsStage` says when
  it cannot happen.
* `irc decision` after a halt writes the file `run-weekly.sh:31` takes for proof
  of a completed run. A wrapper tests it before the lock and not after, and may
  repeat a finished day.
* A stage that returns 0 and writes nothing passes the output check if an earlier
  run of the day left its file: `run_cmd.py:139` asks whether it is there.
* A killed wrapper's command runs on and the next fire starts another; a manual
  `irc run` or `irc monitor` takes no lock.

Ingest and discovery
* A metadata outage in an otherwise successful run rewrites every row of
  `instruments` without its metadata, and discovery then drops them. Freshness
  is measured from a run's end and needs one price and one NAV.
* The stocks' refresh lacks the both-axes guard of the indices' leg; snapshots of
  one report date with different tickers add up in `fund_holdings`; adjusted and
  raw prices of two sources share the name "akshare".
* A sector's day that csindex gives without a PE replaces the one that was stored
  (`akshare_index_valuation.py:206-214`, `index_valuation_ingestor.py:80-103`), and
  a sector whose PE was good enough to judge by can cease to be. The manifest
  tells of nothing.
* A kill between discovery's three files leaves sheets of two runs; a fund the
  model could not ground is in no sheet; a feeder is dropped for an ETF that may
  then be capped out; `tracking_error` is a placeholder.

Opportunity
* A fund whose fetch did not reach the cache is still marked complete, and a
  resumed run serves what the cache has (ADR 0002:47 says fail closed). Two plans
  hold two fetch locks and share one cache; a probe that finds a new quarter
  costs 36 calls where one was planned (`turned` in `CallsWithinPlan`).
* The demotion of an unstable active fund turns a pause into a slow purchase
  though it is called a downgrade. Rule 5 of Policy B is never reached and rule 2
  never fires on a built snapshot; `missing_valuation_data` is not raised for
  bonds and metals; the quorum counts against `TOP_N_DEFAULT` whatever was read.
* QDII funds are called zero-call, but a snapshot fetches NAV and announcements
  anew, outside the budget.

Decision and memo
* A bought proxy is actionable in the memo and on watch in the report
  (`memo_cmd.py:647`, `report.py:433`); proxies are keyed by the target
  (`trades/pipeline.py:40`).
* A held fund whose row is gapped is not in `opportunity_report.json`, so its
  sell signal is read as none (`report.py:430`). The reduction and the demotion
  count rows that the gap partition then withholds. A premium that is not a
  number passes the premium gates. Without a venue configuration a fund's venue
  is unknown, and unknown blocks nothing.
* In the citation gate: citations carried over are held against the next
  paragraph; everything after an appendix heading the model wrote is unaudited;
  a paragraph naming only a fund outside the report passes as portfolio prose; a
  heading's fund is never cleared by a later `##`. Findings of the numeric audit
  never block, and it sees the first 40 pool lines. An exception loses the costs
  of the calls made. When scoring falls back, the memo of today is of an earlier
  day's inputs.

Gold and allocation
* Weight shaved off satellites is poured into the alphabetically first QDII class
  that has one, not into a "same-class peer first" (`target_weights.py:11`); class
  totals move, and the bands of classes other than gold are not enforced.
* When scores fall back to an earlier day, today's gold file is ignored.
  `_real_yield_score` gives 100 at 0 %, its docstring 90. A change of holdings of
  exactly zero is taken for a missing series.

Research
* A run overwrites good reports before the gate refuses it; one that raises or is
  killed loses its units; `--theme x` leaves a status of that theme alone.
* An empty answer of the model passes every test of emptiness (a file is never
  blank), and a thesis can be intact on its citations alone. "no search provider
  configured" and the relevance failure are classed as failures of the model; one
  of the patterns for an empty search holds a capital letter and is matched
  against lower case. `irc research` outside a run has no spend gate.
* A recorder that fails is logged and the run returns 0 (`research_cmd.py:89-96`);
  what it paid never reaches the ledger.

Spend and the language model
* A wallet topped up on the day its row was stamped keeps its earlier units; one
  topped up later is never stamped anew.
* The ledger takes each query or page as one unit off whatever the balance is in:
  a bocha query is charged 28 times what it costs, and the gate refuses a wallet
  that has most of its money; a tavily query is charged half, and its quota can be
  spent twice over before the hard stop (`OverdraftIsBounded` says by how much).
* `deadline_s` does not cap the wall time (`retry.py:117`): an attempt is itself
  up to five POSTs, none of which has a bound of its own (a server that sends a
  byte at a time keeps within a timeout per read), and a read timeout after the
  server answered is sent, and billed, again. So is an answer of status 200 without
  content or with an error in it (`http_client.py:109-123`), of which no usage is
  recorded.

Notifications
* A rerun of the 15:45 chain whose rotation dies is masked by the day's earlier
  radar (`run-flow-capture.sh:52`); an empty but readable flow store yields no
  flow items; a delisted stock warns for ever; a rerun repeats a recovery page.
* A decision report that is JSON but no object, or not UTF-8, is not what
  `_read_summary` catches (`notify_cmd.py:161-174`): no page is sent.

Radar and market data
* A failed rerun of the radar replaces the day's report by an abstention while
  its ledger rows stay. Boards that leave the snapshots are never pruned. A store
  that cannot be read is taken for empty and then rewritten. A backfill of a
  young board replaces its live row.
* A partial board PE listing is the table of the day; the capture does not ask
  whether the market has closed, so that a row of flows captured before it stays for good, though
  `flow_series_store.py:1` speaks of completed days; a calendar that cannot be fetched makes the
  brief dark though an older one is on disk.

Monitor
* A theme the model scores twice counts twice; `low_confidence` cannot occur with
  the shipped weights; the timeline draws no call as neutral;
  without a calendar a NAV series may miss seven trading days in a row and still
  be called validated (`structural.py:103`), with one a single one; days the monitor
  does not run for longer than `NAV_APPEND_DAYS` are gaps in the NAV history.

## 6. The proofs

| Module | Theorem | By |
|---|---|---|
| `PipelineProofs` | `TypeCorrect`: types | inductive as it stands |
| | `NothingSkipped`: `ResumeSkipsNothing` | `ChainInv`: the plan holds everything wanted from the first stage on (`PlanCovers`), the stage in flight is planned, and the loop left nothing when it came to its end. Without the first, a completed plan says nothing of what the chain wanted |
| | `CheckpointKept`: `ImplementsJob` | step simulation from `ChainInv`: each step of the runner is a step of the job or a stutter |
| | `HaltsAreKept`: `MidnightIsHarmless` | `HaltInv`, below |
| | `FullRunsAreSound`: `FullRunIsSound` | `FullInv`, below. Assumes `~Overlap` |
| | `CalmDayIsSound`: `OkRunIsWhole`, `HaltIsTold`; `CalmRunsAreWhole`: `CalmRunIsWhole`; `CalmHaltsAreTold`: `CalmHaltIsTold` | `CalmInv`, below. Of a calm day, the first for any number of runs |
| `WrapperLockProofs` | `WrapperTypes`: types | inductive as it stands |
| | `LockExcludes`: `OneHolder` | `LockInv`, below |
| | `CommandsAreReportedRight`: `NoCommandLeftBehind`, `RcZeroMeansDone` | `CommandInv`: no command before its start, no code before it is collected, and a command that ended well left the sentinel |
| | `CommandsAreAccountedFor`: `CommandIsAccountedFor` | the former, and of `LockInv` that a directory that is there has an owner (`DirIsOwned`) |
| `OpportunityFetchProofs` | `FetchTypes`: types | `TypeInv`: with what a process has in hand at each place |
| | `FetchExcludes`: `OneFetcher` | `LockInv`: a process in the loop holds the lock of its own day, which the plan it was given at the start keeps to its end (`HoldsLock`, `JobShape`) |
| | `CompletedIsSpared`: `CompletedIsNotRefetched` | `FileInv`, below |
| | `NothingIsWasted`: `NoCallIsWasted` | `CallInv`, below. Assumes `~Midnight` |
| | `CreditsAreBacked`: `CreditIsBacked`; `CacheImproves`: `CacheOnlyImproves` | `CacheInv`, below. Assume `~Midnight` |
| | `EvidenceReachesThePage`: `EvidenceCarriesThrough`; `AdviceIsCoherent`: `AdviceHangsTogether` | `CaseInv`, below |
| | `IngestIsTrusted`: `IngestKeepsItsWord` | `IngestInv`, below |
| | `DiscoveryAccounts`: `DiscoveryAccountsForAll` | `DiscInv`, below |
| | `OpportunityTypes`: types | the invariants of the four that share the run; no step of one touches another's. Ingest's needs `SeriesStand`, `ReportsArePast` and `DatesTyped`, below |
| `DecisionChainProofs` | `ReportTypes`: types | inductive for the chain with `SheetInHand`, for the notifier as they stand, for the memo with `MemoInv` and `DraftInv` |
| | `SellSignalsAreHeard`: `SellSignalsSurface` | the step that writes a sheet; no other writes one, and the files it was written from stay for the day |
| | `FundsAreFollowed`: `EveryFundIsFollowed` | `CoreIsTold`, below |
| | `BuysAreExecutable`: `BuysCanBeMade` | `FilesAgree`, below |
| | `TiltEarned`: `TiltIsEarned`, `GoldStaysInBand` | `GoldInv`: every gold file on disk is earned (full weight on two series only, neutral on none), and the proposal was sized by the one it read. Without the first, a proposal made from an earlier day's file could say anything |
| | `AllocationsAddUp`: `AllocationAddsUp` | `GoldInv`, with what a proposal is (`IsAllocation`), and the lemmas about each step of the allocation, below |
| | `MemoIsHonest`: `MemoKeepsItsWord` | `MemoInv`, `DraftInv`, below |
| `PaidCallsProofs` | `PeriodStartIsLatest` | arithmetic on dates, the January case apart |
| | `LedgerTypes`: types | inductive as it stands |
| | `LedgerChargesNothingOld`: `NothingOldIsCharged` | `LedgerInv`, below |
| | `LedgerIsExact`: `ExactWhileCurrent` | `ExactInv`, below |
| | `LedgerAlwaysBacked`: `LedgerIsBacked` | `NoneTwice`, below |
| | `CallsAreBounded`: `CallIsBounded` | `CallInv`: the clock, less what the POSTs of the round took (`slow`), and the number of POSTs bounded at each of its places |
| | `ReadersAreServed`: `ResearchKeepsItsWord` | `ResearchInv`, below |
| `MonitorProofs` | `TrackTypes`: types | `ForwardTypes`: with what a run and a row of the ledger know |
| | `TrackRecordHolds`: `TrackRecordIsHonest` | `ScoredWell`, `TimelineIsLedger`, below |
| | `PagesAreEarned`: `NotifierKeepsItsWord` | types alone, and the lemmas about counting days, below |
| `MarketProofs` | `ReportsAreHonest`: `RadarIsHonest` | `RadarInv` and the lemmas about the band, below |
| | `PaidForIsKept`: `WhatWasPaidForIsKept`; `BriefsServe`: `BriefServesWhatIsKnown` | `MarketInv`, below |
| | `NothingIsForgotten`: `NothingKnownIsLost` | step by step, from whichever of the two invariants moves (`MoverInv`) |
| | `BiasesAreBacked`: `BiasIsBacked` | `SignalInv`: a NAV in hand is one the source holds, and nothing is published before the fund is judged |
| | `SignalsKeepTheirWord`: `SignalKeepsItsWord` | `ReadingInv`, below |
| | `MarketTypes`: types | the invariants of the four that share the run (`WholeInv`) |

The proofs hold for every value of the constants that the modules' named
assumptions allow: any number of stages, days, kills, wrappers, processes,
funds, providers, themes, stocks, dates, prices and waits. Four theorems need an
environment the code itself asks for, and assume it by the constant the runs
set: no other command beside a run (`~Overlap`) and no date change within a fetch
(`~Midnight`); section 5 says what happens otherwise.

**Pipeline.** `MidnightIsHarmless` speaks of a finished run; the invariant must
say where the run's traces are at each of its file operations. `HaltInv` numbers
the commands in the order they start (`RunIsLatest`), so that an output or a
checkpoint is older or newer than the run in flight; the marker is there before
the checkpoint is written and goes after it is cleared (`MarkIsMade`,
`ClearIsDone`); and what a chain has completed is in the directory of its day
(`GotIsThere`), as far as the runner knows its outputs. `FullInv` follows a run
that began with ingest on today's date: its ingest removed marker and sidecar of
older runs (`NoMarker`, `NoSidecar`), from the failure on what is on disk is its
own (`OwnHalt`), and a sheet composed after that names no halt (`CleanSheet`).
`CalmInv` is about a chain of runs: the stages behind the runner were written by
this run (`CalmWritten`) and none of them, those of the runs before it included,
is older than what it was made from (`CalmOrdered`). The second survives a write
because a stage needs only earlier ones, which `StageAssumption` says as
`STAGE_NAMES` orders them; between runs it is kept as a fact about the
checkpoint, which holds as long as no run intervenes and is not needed once one
does, for that run overwrites or clears it.

**Wrapper lock.** While no pid file was misread, one wrapper at most is at work on the
directory (`OneWorking`), from its `mkdir` to the removal at its end, or from
taking a stale lock to remove; the directory is there while it is
(`DirIsThere`), with its pid (`PidIsMine`) or none (`PidIsGone`) as it has come,
and a directory that is there is a working or a killed wrapper's (`DirIsOwned`).
`LockInv` is these five under `~misread`. The step to look at is the reading: one
that goes on to remove the lock finds no working wrapper, for if there were one
alive, its pid would be in the file and the reader would give way, or the lock would
be changing hands and the reading be one of those `misread` remembers. No
wrapper is kept from any place in the code at any time.

**Fetch.** `CompletedIsNotRefetched` compares the fund in hand with the file on
disk, while the process that fetches looked at its own copy. `FileInv` says that
the copy is the file (`CopyIsTheFile`) unless another process changed the file
while this one waited for the lock: whoever changes it holds the lock, so the
others of the day are waiting, and are marked (`NoReaderOfTheDay`). It adds that
a fund to come which the file names was credited (`DoneIsCredited`) and that the
fund in hand is in neither (`HandIsNew`).
`NoCallIsWasted` bounds calls by what the gate let through, before any was made.
`CallInv` says what is still to come: the calls made, those the fund in hand may
take (`Due`) and those ahead never exceed the plan (`InPlan`), for what is ahead
is counted from the same cache entries until the process comes to them. That
needs one writer of the cache at a time, which the lock gives only within a day
(`OfToday`): two plans hold two locks.
`CacheInv` says that no snapshot is of the future in date or quarter (`Past`),
so that what is written becomes the latest; what a run has in hand is the
latest, or built today (`HandIsEntry`, `BuiltToday`); and what was kept on a day
keeps that date until the day is over (`KeptIsToday`).

**A fund's case.** Policy B cuts the top half off at the weight of its last
place, ties included; what it is for is said by counting the holdings that
outweigh one (`Sufficient`). `MaterialIs` shows the two agree for any finite set
of holdings and any weights, ties and all, and `PolicyBIs` what the rules in
their order come to. `CaseInv` carries from the thesis to the files that a row is
gapped or cites both legs (`Carried`; the heaviest holding is always in the top
half, so one that Policy B let through has a voice), and that its state and
dimensions are those its four states make, a demotion apart (`Weighed`); what is
advised follows (`AdviceFollows`).

**Ingest.** `IngestKeepsItsWord` is of states and of steps. `IngestInv` says
that what a run has counted it wrote within the half day, and that it has told
of no failure while it runs (`RunIsCounted`); so when the manifest is dated, some
price and some NAV are as young, and quotes never grow older
(`ManifestIsBacked`). What the sweep of the indices has in hand has both axes, and
what the sectors' has is a window of days of which some may lack a PE
(`SweepIsWhole`); so is a sector's history (`SectorsAreDated`), whence a window
added to it takes away a PE, or the latest day's, only where it brought a
day without one (`WindowAdds`); and what is refreshed is a stock and no index
(`HoldingsAreStocks`, with the assumption that no ticker is an index's key).
For the types, a history ends by now (`SeriesStand`), a report of holdings is of
no day to come (`ReportsArePast`, which needed the source to have none:
`FiledByNow`), and what is dated is dated by now (`DatesTyped`).

**Discovery.** That one product is followed once needs the order of its share
classes to be total (`BeforeIsTotal`: funds compare by class, a feeder after
what it feeds, then code), so that the first of each is one and a feeder falls
with its ETF; the cap is by counting. `DiscInv` says that the screen in hand is
of the tables as they stand (`ScreenIsCurrent`), that a fund placed in a role is
listed, dropped or still to be asked about and only one of them (`EachIsOnce`),
that what no role took is in neither (`OrphansAreApart`), and that a sheet of
this run is what the run had in hand (`SheetsAreOfRun`). Within a role the model
asks in any order, as the universe files list them; a sorted one was the model's
and not the code's.

**Memo.** `MemoInv` says whose each file is while the run is between two of them:
the audit on the shelf is that of the draft in hand (`AuditInHand`), a memo of
this run is there only at its end (`MemoIsOfRun`), the log of findings is of this
run only once its gate has looked (`ShadowIsOfRun`), and the two verdicts
stand together only after a torn run (`VerdictsInHand`). `DraftInv` says that the
draft in hand was written for an input there was (`DraftInHand`), that the step
after the gate went where its findings said (`GateInHand`), and that what it let
through is backed. The gate has to be right both ways. `GateIsSound`: a draft
without findings is backed; a fund that is named is a hit of the gate unless a
longer name swallows it. The proof corrected the property, which had no
`WrittenOf`: the names of the run are too few for the case. `GateIsFair`: a draft
that follows its rules has no finding. A cell of the table shows both legs
however few citations it has room for (`ForemostShows`, `CellShows`); in a block
that follows the rules the hits are what it says (`FaithfulBlock`); what is
carried over is of the same fund or of none; and the fund that a holding is read
for is the one named with it (`ContextIs`). The sections the model may not add are
cut by a recursive function, of which `AmongIs` says that it keeps the blocks
that are not among them, and only those.

**Ledger.** `NothingOldIsCharged` is not inductive: it speaks of what the ledger
counts, not of what a command under way is about to add to it. `LedgerInv` adds,
while no two commands have been under way at once, that at most one is
(`OneAtATime`), that what it read of the ledger is still the ledger (`Fresh`),
that no stamp lies in the future nor after the date of a command under way
(`Stamped`), that a row that counts was spent in the period (`Covered`), and
that a row plus the units about to be added was, too (`Reserved`). Midnight is
the hard step: if a row counts after it then the period is the same on both
sides (`LaterPeriod`, `SamePeriod`), and nothing spent has been forgotten.
`ExactInv` is the other half: nothing spent is neither recorded, lost nor due
(`ExactNow`), what is due is what was used unless the period has turned since
(`DueIsSpent`), and a command that is let through finds its estimate left
(`InTheLimit`; this is why `Usages` must have a maximum).
`LedgerIsBacked` allows races. `NoneTwice` tells the units that processes still
hold apart by number and says that they and what the ledger counts, or what a
process that has read it is about to write, were all really spent: a race
forgets units and never counts one twice.

**Decision.** `EveryFundIsFollowed` compares today's report with everything
announced before. `CoreIsTold` says that for a day whose report, and all before
it, a decision has read, every fund that was core by then has been announced.
The proof needs that the files are of days gone by (`FilesArePast`), and it
corrected the model: `told` used to be written on days without a report, and
then a decision that found none could hide an announcement from the next but
one (three days; the run has two). `BuysCanBeMade` rests on `FilesAgree`: a file
that is not stale was written from the very files its readers hold beside it
now; which trade the plan names is a choice among equals, fixed by the file
(`TradeOfKept`).

**Research.** A reader holds a status and some files, of which each was read at
another time. `ResearchInv` says that the files a run has got through are its own
(`FilesAreWritten`), that the status vouches for the files unless a run has
begun to replace them (`StatusVouches`), that a status in a reader's hand is no
newer than the files that it has yet to read, and agrees with them if no run
writes (`ReaderIsServed`), and that what the gate judged is what is on disk
(`GateJudgesTheLibrary`). That a run whose list of themes to write is the whole
list has written nothing yet needs the list never to be longer than what was
asked (`ResearchShape`).

**Track record.** A score was computed by a run that is over, on a NAV history
that has grown since. `ScoredWell` says that its window opens after the run of
its row and holds its observations now and after any append; that no NAV of it
was known to its row then follows from what a run can know (`ForwardTypes`:
a run of a day has seen NAVs up to that day). `TimelineIsLedger` says that the
timeline is that of the whole ledger while the run that drew it is at it.

**Notifications.** What a page says is computed in the step that sends it, so
types are all the history needed; the work is in the counting. The lag that
raises a warning is a number of trading days: `RecentDayIs` shows that the
promise "no more than that many sessions old" is the one the code's count
comes to (the four last trading days are reached by counting back, given that
there are four); `WarningsAre`, `ChainHealthIs`, `FlowHealthIs` and `RecoveredIs`
turn the health items and the search for the last readable radar into what the
files say.

**Radar.** The code walks over a board's course with a flag; `InBandFlags` is
that walk, a recursive function. `FlagIs` and `BandIs` show that the flag of a
day says what `states.py` says the band is: entered on some day and not left
since. `ClassifiedIs` gets the four states and their ages from it for a course
of any length. The nth day of a window, which the code finds by sorting, is the
one with n days up to it (`NthIs`). `RadarInv` adds what a run that died between
report and ledger leaves behind: a report it is about to enter was published
(`LedgerFollows`); a board the seed is still to backfill is as young as when it
looked, unless the radar ran meanwhile (`SeedsTheYoung`), which is why no live
row of the window is lost.

**Market data.** `MarketInv` says that the fallback's copy of the cache is the
cache while it asks and that what it holds in hand is in the cache once it merges
(`FallbackShape`); that the calls in a row are whole rounds of the stocks given
up and the tries at the one in hand (`BreakerShape`); that a value got before
the close is not written once a closing one was (`FlowShape`); that the table
served is today's or the newest of the young ones of earlier days, which nobody
changes (`PeIsServed`; that the newest is also the youngest is `AgeIs`); and
that what the batch named is in the map with today's date (`BatchIsKept`). The
last corrected the model: a brief serves what its batch named only if no
capture named it otherwise in between, and a second capture must not make good
what a first one undid. With batches that all name the same stock, as the
run once had them, TLC could not tell; two different ones show it.

**Readings.** `GateIs` turns the gate's badge into what each health item must
have been. `ReadingInv` adds to it what the steps before the judgement leave: answers
that are sound, holdings' rows only of a fund that is looked through, a basket
where there is one to fetch, and in the end the scores of what was read. What is
left is arithmetic on the weights of the fund, its profile's or its own. They add up to a
hundred (`WeightsAre`) and no score is out of its range (`FactorScoresAre`), so when a signal has
its sixty points, the missing factors weigh at most forty; and forty points of
the worst score do not carry a composite from one band to the other, where these
are as far apart as the shipped ones (`MissingIsOutweighed`). A mean of scores that are not positive is not
(`MeanIs`), which is all `BasketIsNotFlattered` needs of a basket of any size once
`DualTrackIs` says what the richness does to one holding.

**Allocation.** `GoldInv` says that a proposal is the allocation of scores some
day has, under the class weights of its tilt. `ClassesAddUp`: the classes give up
in proportion what gold takes, so they stay the whole. Within a class the picked
funds share its weight in proportion to their exponentials (`SharesAddUp`); of the
funds of one index the best remains, for `Beats` is a total order and the
set finite (`OneIsKept`), and the remaining ones share what the class had, again in proportion
(`KeptAddUp`). The rows that take shaved weight stand in a total order
(`PourOrder`), so what they take are neighbouring pieces of it, and never
more than there is (`Poured`). A satellite's piece ends at the cap (`Capped`),
and a class without a satellite takes nothing (`ClassesAreServed`). That a role keeps
its place is a matter of counting: the leaders of the roles are picked before
everyone else, and there are no more of them than roles (`LeaderIsChosen`); one
that is dropped gave way to a fund of its index, which nothing but a better
one drops (`RolesAreServed`).

**Sums.** The library's `SumFunctionOnSet` folds over a set in an order of its own
choosing, by a recursive function. `SumTheorems` exhibits a function that solves
its equation on the subsets of a finite set (`SumsExist`), gets from it that a sum is
that of any one member and the rest (`SumOfOneMore`), and from there the laws:
sums of parts, of products, of what is nowhere greater, and by kind. Induction over the
subsets is by a least counterexample, as the induction theorems of the library
take an operator.

Where a module uses a recursive function (`InBandFlags`, the kept blocks of a
draft), the proof first exhibits a function that solves its equation (`BandIs`,
`KeepsExists`) and only then cites the definition; that a property holds at every
argument is shown by the least one at which it would not.

In `DecisionChainProofs` the lemmas for `TiltEarned` are about the operators:
what `Max` and `Min` come to on two integers, that the cautious of a tilt and
neutral_plus is never overweight, that the clamp keeps the band, and that
without a tilt the class weights are the targets (`NeutralIsCenter`).

What stays with TLC is liveness (`RunsReturn`, `WrappersGetThrough`) and what
fairness gives: the prover has no rules for ENABLED.

The theorems are about the models, and so rest on what these leave out: for
`AllocationsAddUp`, that the code's fractions are floating-point numbers, whose rounding is
not modelled; for `SignalsKeepTheirWord`, that its quotients are rounded down
to a hundredth.

## 7. Not modelled

Providers' pages and their parsing, floating-point factor formulas, prompts,
wording and rendering: one step each, or text. `irc ask`, the evaluations'
statistics, narrative reports and the read-only commands keep no state that
several steps could break. Runs of the monitor, the radar and ingest that cross
midnight, two research commands at once, and manual runs of the monitor beside a
scheduled one are not in the models. `PROJECT.json` lists every part with its
status and its reason.
