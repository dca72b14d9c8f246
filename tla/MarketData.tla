------------------------------ MODULE MarketData ------------------------------
(***************************************************************************)
(* The market data that `irc monitor` and `irc monitor flow-capture` keep  *)
(* under data/monitor: the trade calendar, the flow of the completed days, *)
(* the board PE tables, the industry map and the industries asked for      *)
(* stock by stock.  The brief and the capture are two processes; each step *)
(* is one call or one file operation, and either may be killed anywhere.   *)
(*                                                                         *)
(* A flow value is "final" once the market has closed and "provisional"    *)
(* before; a board PE table is the set of boards it covers.                *)
(***************************************************************************)
EXTENDS DayStores, Sequences, FiniteSetsExt, Functions

CONSTANTS
    TopSymbols,      \* the union of the funds' five largest holdings
    MarketFunds,     \* fund -> its stocks
    BatchAnswers,    \* what the one batch call may answer: stock -> industry
    BoardPages,      \* the pages of the board PE listing
    FlowKeep,        \* _FLOW_KEEP_TD
    MaxStaleTd,      \* MAX_STALE_TRADING_DAYS
    FetchRetries,    \* RetryPolicy.retries
    BreakerThreshold,\* RetryPolicy.breaker_threshold
    MaxMarketRuns    \* bounds the commands

ASSUME MarketAssumption ==
    /\ TopSymbols \subseteq Symbols
    /\ \A f \in DOMAIN MarketFunds : MarketFunds[f] \subseteq Symbols
    /\ \A seen \in BatchAnswers :
          DOMAIN seen \subseteq Symbols /\ seen \in [DOMAIN seen -> Industries]
    /\ BoardPages \in Seq(SUBSET Industries)
    /\ FlowKeep \in Nat \ {0} /\ MaxStaleTd \in Nat
    /\ FetchRetries \in Nat /\ BreakerThreshold \in Nat \ {0}
    /\ MaxMarketRuns \in Nat

VARIABLES
    closed,       \* whether today's session is over
    calendarDay,  \* fetched_on of trade_calendar.json, 0 without one
    flowStore,    \* stock -> day -> value              fund_flow_series.json
    peTables,     \* day -> boards                      industry_pe/<day>.json
    stockCache,   \* stock -> industry or Miss          stock_industry/<today>.json
    brief,        \* the monitor run in flight
    capture,      \* the flow capture in flight
    marketRuns,
    marketLog     \* never read: what happened, for the properties

marketVars == <<today, industryMap, closed, calendarDay, flowStore, peTables,
                stockCache, brief, capture, marketRuns, marketLog>>

Miss == "miss"
Unknown == [state |-> "none", asOf |-> 0]
NoBrief == [at |-> "off", wants |-> FALSE, seen |-> NoRows, map |-> NoRows,
            serving |-> NoRows, calendar |-> {}, pe |-> Unknown, raced |-> FALSE,
            funds |-> {}, missing |-> {}, ask |-> {}, cached |-> NoRows, got |-> NoRows,
            tries |-> 0, failed |-> 0, calls |-> 0]
NoCapture == [at |-> "off", seen |-> NoRows, map |-> NoRows, flow |-> NoRows,
              calendar |-> {}]
NewLog == [settled |-> {}, lost |-> {}, final |-> {}]

MarketInit ==
    /\ today = 1 /\ industryMap = NoRows
    /\ closed = FALSE /\ calendarDay = 0
    /\ flowStore = [s \in TopSymbols |-> NoRows]
    /\ peTables = NoRows /\ stockCache = NoRows
    /\ brief = NoBrief /\ capture = NoCapture
    /\ marketRuns = 0 /\ marketLog = NewLog

-----------------------------------------------------------------------------
(* The stores.                                                             *)

\* The trade calendar is served if fetched today, else fetched again; a
\* failure is no calendar, even though an older one is on the disk.
LoadTradingDays(calendar) ==
    \/ /\ calendarDay >= today /\ calendar = TradingDays
       /\ UNCHANGED calendarDay
    \/ /\ calendarDay < today /\ calendar = TradingDays
       /\ calendarDay' = today
    \/ /\ calendarDay < today /\ calendar = {}
       /\ UNCHANGED calendarDay

\* The completed day's values replace the day's rows of their stocks, which
\* alone are pruned.
AppendToday(values, calendar) ==
    [s \in TopSymbols |->
        IF s \in DOMAIN values
        THEN Prune(MergeDay(flowStore[s], today, values[s]), today, FlowKeep, calendar)
        ELSE flowStore[s]]

\* The listing is read page by page up to the first blank or short one; a
\* page that raises loses them all.
BoardPeAnswers ==
    {{}} \cup {UNION {BoardPages[i] : i \in 1..n} : n \in 1..Len(BoardPages)}

TradingDayAge(day, calendar) == Cardinality({d \in calendar : day < d /\ d <= today})

NewestTable == Max({d \in DOMAIN peTables : d < today} \cup {0})

\* A mutant: a table is still served on the day it has become too old.
StaleIfUnknown(calendar) ==
    IF NewestTable = 0 THEN [state |-> "DARK", asOf |-> 0]
    ELSE IF TradingDayAge(NewestTable, calendar) >= MaxStaleTd
    THEN [state |-> "DARK", asOf |-> NewestTable]
    ELSE [state |-> "STALE", asOf |-> NewestTable]

\* The newest table, if it is young enough and its age is known.
StaleFallback(calendar) ==
    IF NewestTable = 0 THEN [state |-> "DARK", asOf |-> 0]
    ELSE IF calendar = {} \/ TradingDayAge(NewestTable, calendar) > MaxStaleTd
    THEN [state |-> "DARK", asOf |-> NewestTable]
    ELSE [state |-> "STALE", asOf |-> NewestTable]

\* A mutant: an answer of no board is stored as the day's table.
FetchAndStorePe(boards, calendar, served) ==
    /\ peTables' = MergeDay(peTables, today, boards)
    /\ served = IF boards # {} THEN [state |-> "FRESH", asOf |-> today]
                ELSE StaleFallback(calendar)

\* An answer of no board is not stored.
FetchIndustryPe(boards, calendar, served) ==
    IF boards # {}
    THEN /\ peTables' = MergeDay(peTables, today, boards)
         /\ served = [state |-> "FRESH", asOf |-> today]
    ELSE /\ UNCHANGED peTables
         /\ served = StaleFallback(calendar)

-----------------------------------------------------------------------------
(* irc monitor.                                                            *)

BriefKeeps == UNCHANGED <<today, closed, capture, marketRuns>>

\* Valuation is asked for only with a database and an active fund.
StartBrief ==
    /\ brief.at = "off" /\ marketRuns < MaxMarketRuns
    /\ marketRuns' = marketRuns + 1
    /\ \E wants \in BOOLEAN :
          brief' = [NoBrief EXCEPT !.at = "batch", !.wants = wants,
                                   !.funds = DOMAIN MarketFunds]
    /\ UNCHANGED <<today, industryMap, closed, calendarDay, flowStore, peTables,
                   stockCache, capture, marketLog>>

\* The one batch call; what it names is merged into the map as it is now.
BriefBatch ==
    /\ brief.at = "batch"
    /\ \/ \E seen \in BatchAnswers :
             brief' = [brief EXCEPT !.at = "record", !.seen = seen, !.map = industryMap]
       \/ brief' = [brief EXCEPT !.at = "serve"]
    /\ UNCHANGED <<industryMap, calendarDay, flowStore, peTables, stockCache, marketLog>>
    /\ BriefKeeps

BriefRecords ==
    /\ brief.at = "record"
    /\ industryMap' = MergeSeen(brief.map, brief.seen)
    /\ brief' = [brief EXCEPT !.at = "serve", !.map = NoRows, !.raced = FALSE]
    /\ UNCHANGED <<calendarDay, flowStore, peTables, stockCache, marketLog>>
    /\ BriefKeeps

\* The map is read again, then the calendar.
BriefServes ==
    /\ brief.at = "serve"
    /\ \E calendar \in {TradingDays, {}} :
          /\ LoadTradingDays(calendar)
          /\ brief' = [brief EXCEPT !.serving = FreshSlice, !.calendar = calendar,
                                    !.at = IF brief.wants THEN "pe" ELSE "rest"]
    /\ UNCHANGED <<industryMap, flowStore, peTables, stockCache, marketLog>>
    /\ BriefKeeps

BriefFindsPe ==
    /\ brief.at = "pe"
    /\ brief' = IF today \in DOMAIN peTables
                THEN [brief EXCEPT !.at = "funds", !.pe = [state |-> "FRESH", asOf |-> today]]
                ELSE [brief EXCEPT !.at = "peAsk"]
    /\ UNCHANGED <<industryMap, calendarDay, flowStore, peTables, stockCache, marketLog>>
    /\ BriefKeeps

BriefAsksPe ==
    /\ brief.at = "peAsk"
    /\ \E boards \in BoardPeAnswers, served \in [state : {"FRESH", "STALE", "DARK"}, asOf : 0..LastDay] :
          /\ FetchIndustryPe(boards, brief.calendar, served)
          /\ brief' = [brief EXCEPT !.at = "funds", !.pe = served]
    /\ UNCHANGED <<industryMap, calendarDay, flowStore, stockCache, marketLog>>
    /\ BriefKeeps

\* Fund by fund, the stocks the map does not serve are asked for one by one,
\* except those today's cache has settled.
BriefFund ==
    /\ brief.at = "funds"
    /\ \E f \in brief.funds :
          LET missing == MarketFunds[f] \ DOMAIN brief.serving
          IN  brief' = [brief EXCEPT
                          !.at = IF missing = {} THEN "funds" ELSE "ask",
                          !.funds = @ \ {f}, !.missing = missing, !.cached = stockCache,
                          !.ask = missing \ DOMAIN stockCache]
    /\ UNCHANGED <<industryMap, calendarDay, flowStore, peTables, stockCache, marketLog>>
    /\ BriefKeeps

\* An industry, or the confirmed absence of one, settles the stock.
AskSettles ==
    /\ brief.at = "ask"
    /\ \E s \in brief.ask, answer \in Industries \cup {Miss} :
          /\ brief' = [brief EXCEPT !.got = Over([t \in {s} |-> answer], @), !.ask = @ \ {s},
                                    !.tries = 0, !.failed = 0, !.calls = 0]
          /\ marketLog' = [marketLog EXCEPT !.settled = @ \cup {s}]
    /\ UNCHANGED <<industryMap, calendarDay, flowStore, peTables, stockCache>>
    /\ BriefKeeps

\* A failed call is tried again; then the stock is given up, and after
\* BreakerThreshold of them in a row all the others.
AskFails ==
    /\ brief.at = "ask"
    /\ \E s \in brief.ask :
          brief' = IF brief.tries < FetchRetries
                   THEN [brief EXCEPT !.tries = @ + 1, !.calls = @ + 1]
                   ELSE [brief EXCEPT !.tries = 0, !.calls = @ + 1, !.failed = @ + 1,
                                      !.ask = IF brief.failed + 1 >= BreakerThreshold
                                              THEN {} ELSE @ \ {s}]
    /\ UNCHANGED <<industryMap, calendarDay, flowStore, peTables, stockCache, marketLog>>
    /\ BriefKeeps

\* A mutant: what this fund settled replaces the day's cache.
AskEndsAlone ==
    /\ brief.at = "ask" /\ brief.ask = {}
    /\ stockCache' = IF brief.got = NoRows THEN stockCache ELSE brief.got
    /\ brief' = [brief EXCEPT !.at = "merge", !.failed = 0, !.calls = 0]
    /\ UNCHANGED <<industryMap, calendarDay, flowStore, peTables, marketLog>>
    /\ BriefKeeps

\* What was settled is written over the cache as it was read.
AskEnds ==
    /\ brief.at = "ask" /\ brief.ask = {}
    /\ stockCache' = IF brief.got = NoRows THEN stockCache ELSE Over(brief.got, brief.cached)
    /\ brief' = [brief EXCEPT !.at = "merge", !.failed = 0, !.calls = 0]
    /\ UNCHANGED <<industryMap, calendarDay, flowStore, peTables, marketLog>>
    /\ BriefKeeps

\* The industries of the fallback, cached or not, go to the map in turn.
FallbackMerges ==
    /\ brief.at = "merge"
    /\ LET answers == Over(brief.got, brief.cached)
           known   == {s \in DOMAIN answers \cap brief.missing : answers[s] # Miss}
       IN  brief' = [brief EXCEPT !.got = NoRows, !.cached = NoRows, !.missing = {},
                                  !.seen = Restrict(answers, known), !.map = industryMap,
                                  !.at = IF known = {} THEN "funds" ELSE "store"]
    /\ UNCHANGED <<industryMap, calendarDay, flowStore, peTables, stockCache, marketLog>>
    /\ BriefKeeps

FallbackStores ==
    /\ brief.at = "store"
    /\ industryMap' = MergeSeen(brief.map, brief.seen)
    /\ brief' = [brief EXCEPT !.at = "funds", !.map = NoRows]
    /\ UNCHANGED <<calendarDay, flowStore, peTables, stockCache, marketLog>>
    /\ BriefKeeps

\* The rest of the run reads and writes none of these stores.
BriefEnds ==
    /\ brief.at = "rest" \/ (brief.at = "funds" /\ brief.funds = {})
    /\ brief' = NoBrief
    /\ UNCHANGED <<industryMap, calendarDay, flowStore, peTables, stockCache, marketLog>>
    /\ BriefKeeps

KillBrief ==
    /\ brief.at # "off"
    /\ marketLog' = [marketLog EXCEPT !.lost = @ \cup (DOMAIN brief.got \ DOMAIN stockCache)]
    /\ brief' = NoBrief
    /\ UNCHANGED <<industryMap, calendarDay, flowStore, peTables, stockCache>>
    /\ BriefKeeps

-----------------------------------------------------------------------------
(* irc monitor flow-capture: append, then the map, then the board PE.      *)

CaptureKeeps == UNCHANGED <<today, closed, stockCache>>

\* What the batch says of a stock's flow is final only after the close.  It may
\* name a stock's flow without its industry, and the other way round.
CapturedFlow(valued) ==
    [s \in valued |-> IF closed THEN "final" ELSE "provisional"]

StartCapture ==
    /\ capture.at = "off" /\ marketRuns < MaxMarketRuns
    /\ marketRuns' = marketRuns + 1
    /\ \/ \E seen \in BatchAnswers, valued \in SUBSET TopSymbols :
             capture' = [NoCapture EXCEPT
                           !.at = "append", !.seen = seen,
                           !.flow = CapturedFlow(valued)]
       \/ UNCHANGED capture
    /\ UNCHANGED <<industryMap, calendarDay, flowStore, peTables, brief, marketLog>>
    /\ CaptureKeeps

CaptureCalendar ==
    /\ capture.at = "append"
    /\ \E calendar \in {TradingDays, {}} :
          /\ LoadTradingDays(calendar)
          /\ capture' = [capture EXCEPT !.at = "write", !.calendar = calendar]
    /\ UNCHANGED <<industryMap, flowStore, peTables, brief, marketRuns, marketLog>>
    /\ CaptureKeeps

CaptureAppends ==
    /\ capture.at = "write"
    /\ flowStore' = AppendToday(capture.flow, capture.calendar)
    /\ marketLog' = [marketLog EXCEPT
                       !.final = @ \cup {<<s, today>> : s \in {t \in DOMAIN capture.flow :
                                                               capture.flow[t] = "final"}}]
    /\ capture' = [capture EXCEPT !.at = "map"]
    /\ UNCHANGED <<industryMap, calendarDay, peTables, brief, marketRuns>>
    /\ CaptureKeeps

CaptureReadsMap ==
    /\ capture.at = "map"
    /\ capture' = [capture EXCEPT !.at = "record", !.map = industryMap]
    /\ UNCHANGED <<industryMap, calendarDay, flowStore, peTables, brief, marketRuns, marketLog>>
    /\ CaptureKeeps

\* A capture puts back an older map, or heard otherwise of a stock than the brief.
CaptureContradicts ==
    \/ capture.map # industryMap
    \/ \E s \in DOMAIN capture.seen \cap DOMAIN brief.seen : capture.seen[s] # brief.seen[s]

CaptureRecords ==
    /\ capture.at = "record"
    /\ industryMap' = MergeSeen(capture.map, capture.seen)
    /\ brief' = [brief EXCEPT !.raced = @ \/ (brief.at # "off" /\ CaptureContradicts)]
    /\ capture' = [capture EXCEPT !.at = "pe", !.map = NoRows]
    /\ UNCHANGED <<calendarDay, flowStore, peTables, marketRuns, marketLog>>
    /\ CaptureKeeps

CaptureFindsPe ==
    /\ capture.at = "pe"
    /\ capture' = IF today \in DOMAIN peTables THEN NoCapture
                  ELSE [capture EXCEPT !.at = "peAsk"]
    /\ UNCHANGED <<industryMap, calendarDay, flowStore, peTables, brief, marketRuns, marketLog>>
    /\ CaptureKeeps

\* Nobody looks at what is served here.
CaptureAsksPe ==
    /\ capture.at = "peAsk"
    /\ \E boards \in BoardPeAnswers :
          FetchIndustryPe(boards, {}, IF boards = {} THEN StaleFallback({})
                                      ELSE [state |-> "FRESH", asOf |-> today])
    /\ capture' = NoCapture
    /\ UNCHANGED <<industryMap, calendarDay, flowStore, brief, marketRuns, marketLog>>
    /\ CaptureKeeps

\* The watchdog, or anything else that kills it.
KillCapture ==
    /\ capture.at # "off"
    /\ capture' = NoCapture
    /\ UNCHANGED <<industryMap, calendarDay, flowStore, peTables, brief, marketRuns, marketLog>>
    /\ CaptureKeeps

-----------------------------------------------------------------------------
(* The day.                                                                *)

MarketCloses ==
    /\ ~closed /\ closed' = TRUE
    /\ UNCHANGED <<today, industryMap, calendarDay, flowStore, peTables,
                   stockCache, brief, capture, marketRuns, marketLog>>

\* A new day has its own cache of stocks.  No run modelled spans two days.
NextMarketDay ==
    /\ closed /\ today < LastDay /\ brief = NoBrief /\ capture = NoCapture
    /\ today' = today + 1 /\ closed' = FALSE /\ stockCache' = NoRows
    /\ marketLog' = [marketLog EXCEPT !.settled = {}, !.lost = {}]
    /\ UNCHANGED <<industryMap, calendarDay, flowStore, peTables, brief, capture, marketRuns>>

MarketNext ==
    \/ StartBrief \/ BriefBatch \/ BriefRecords \/ BriefServes \/ BriefFindsPe
    \/ BriefAsksPe \/ BriefFund \/ AskSettles \/ AskFails \/ AskEnds
    \/ FallbackMerges \/ FallbackStores \/ BriefEnds \/ KillBrief
    \/ StartCapture \/ CaptureCalendar \/ CaptureAppends \/ CaptureReadsMap
    \/ CaptureRecords \/ CaptureFindsPe \/ CaptureAsksPe \/ KillCapture
    \/ MarketCloses \/ NextMarketDay

MarketSpec == MarketInit /\ [][MarketNext]_marketVars

-----------------------------------------------------------------------------
(* Properties.                                                             *)

MarketTypeOK ==
    /\ DayStoresTypeOK
    /\ closed \in BOOLEAN /\ calendarDay \in 0..LastDay
    /\ DOMAIN flowStore = TopSymbols
    /\ \A s \in TopSymbols :
          /\ DOMAIN flowStore[s] \subseteq CalendarDays
          /\ \A d \in DOMAIN flowStore[s] : flowStore[s][d] \in {"final", "provisional"}
    /\ DOMAIN peTables \subseteq CalendarDays
    /\ \A d \in DOMAIN peTables : peTables[d] \in (SUBSET Industries) \ {{}}
    /\ DOMAIN stockCache \subseteq Symbols
    /\ \A s \in DOMAIN stockCache : stockCache[s] \in Industries \cup {Miss}
    /\ DOMAIN brief.serving \subseteq Symbols
    /\ marketRuns \in 0..MaxMarketRuns

\* A brief that knows the calendar and asked for the board PE serves the
\* newest table there is, unless it is more than MaxStaleTd trading days old:
\* what one afternoon's capture stored is there on the next mornings although
\* the fetch fails.
NewestTableIsServed ==
    brief.at \in {"funds", "ask"} /\ brief.calendar # {} =>
        LET recent == {d \in DOMAIN peTables :
                         Cardinality({t \in TradingDays : d < t /\ t <= today}) <= MaxStaleTd}
            older  == recent \ {today}
        IN  CASE brief.pe.state = "FRESH" -> brief.pe.asOf = today /\ today \in recent
              [] brief.pe.state = "STALE" -> brief.pe.asOf \in older /\ \A d \in older : d <= brief.pe.asOf
              [] OTHER -> older = {}

\* A stock that only failed today is not in the cache as one without an
\* industry (cached_fetch.py:4): every entry was an answer.
NoFrozenThrottle == DOMAIN stockCache \subseteq marketLog.settled

\* A stock settled today is asked for again only if a kill lost the answer.
OnlyKillsRefetch ==
    marketLog.settled \subseteq DOMAIN stockCache \cup DOMAIN brief.got \cup marketLog.lost

\* The calls that fail in a row, for one fund, before the rest of its stocks
\* are left for the next run.
BreakerStopsHammering == brief.calls <= BreakerThreshold * (FetchRetries + 1)

\* What a throttled endpoint answered is neither lost nor made up, and it is
\* left alone once it fails (cached_fetch.py:12-16).
SettledStocksAreKept == NoFrozenThrottle /\ OnlyKillsRefetch /\ BreakerStopsHammering

\* The row of a day is the closing one if any capture after the close got a
\* value, whatever captures ran before the close or failed after it, and only
\* then: what a capture before the close got, and none after it, stays for good,
\* although the series is meant for completed days (flow_series_store.py:1).
FinalValueStays ==
    \A s \in TopSymbols : \A d \in DOMAIN flowStore[s] :
        <<s, d>> \in marketLog.final <=> flowStore[s][d] = "final"

\* A capture killed after its append loses only what comes after it: on a
\* trading day the rows of all its values are there (monitor_cmd.py:1236).
AppendIsKept ==
    /\ capture.at \in {"map", "record", "pe", "peAsk"} /\ today \in TradingDays
    => \A s \in DOMAIN capture.flow : today \in DOMAIN flowStore[s]

\* The series holds the closing values that were got.
FlowRowsAreFinal == FinalValueStays /\ AppendIsKept

\* A stock a fetch has settled is not asked for again that day, whatever the
\* next fund's fetch does, and no closing flow that was got is lost or replaced,
\* in that day or later.
WhatWasPaidForIsKept == SettledStocksAreKept /\ FlowRowsAreFinal

\* What the batch has named is served in the same run, new or not, unless a
\* capture has written, in between, an older copy of the map or another name.
BatchIsServed ==
    brief.at \in {"pe", "peAsk"} /\ ~brief.raced =>
        \A s \in DOMAIN brief.seen :
            s \in DOMAIN brief.serving /\ brief.serving[s] = brief.seen[s]

\* A brief works with the newest of what is on the disk and in its answers.
BriefServesWhatIsKnown == NewestTableIsServed /\ BatchIsServed

\* The date a stock was last seen goes back only when a process writes over
\* what another has written since it read the map.
SeenGoesBackOnlyInARace ==
    [][\A s \in DOMAIN industryMap :
          \/ s \in DOMAIN industryMap' /\ industryMap'[s].seen >= industryMap[s].seen
          \/ brief.at \in {"record", "store"} /\ brief.map # industryMap
          \/ capture.at = "record" /\ capture.map # industryMap]_marketVars
=============================================================================
