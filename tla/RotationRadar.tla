---------------------------- MODULE RotationRadar ----------------------------
(***************************************************************************)
(* The sector rotation radar.  `irc rotation` takes a snapshot of the      *)
(* boards, merges it into the board series, ranks the boards, classifies   *)
(* each by the course of its rank, and writes the day's report and then    *)
(* the forward ledger.  `irc rotation seed` backfills the series of young  *)
(* boards, the holdings cache and the industry map; it may run beside the  *)
(* radar.                                                                  *)
(*                                                                         *)
(* Figures are small levels: only their order and their thresholds matter. *)
(* NoValue is an absent leg.  Means are multiplied by Scale, a composite   *)
(* is kept as a fraction <<numerator, denominator>>.  Reports and ledger   *)
(* rows of past days are dropped: their keys hold the date, and no later   *)
(* run reads or changes them.                                              *)
(***************************************************************************)
EXTENDS DayStores, Sequences, Functions, FiniteSetsExt

CONSTANTS
    Boards,
    Snapshots,     \* what the board endpoint may answer, by board
    Histories,     \* what the history endpoint may answer, by board and day
    RadarKeep,     \* _KEEP_TD
    MinTd,         \* MIN_TD
    ShortTail,     \* the short window of flow5 and turn_delta
    EmergingWindow,
    BoardFunds,    \* funds in the order of their ids, as numbers
    FundHoldings,  \* fund -> its stocks and their weights
    MinExposure, CandTopN,
    MaxRadarRuns   \* bounds the commands

NoValue == -1
Scale   == 12

Row == [chg : Nat, flow : Nat \cup {NoValue}, turn : Nat \cup {NoValue},
        source : {"snapshot", "backfill"}]

ASSUME RadarAssumption ==
    /\ RadarKeep \in Nat \ {0} /\ MinTd \in Nat \ {0}
    /\ ShortTail \in 1..MinTd /\ EmergingWindow \in Nat
    /\ BoardFunds \subseteq Nat
    /\ Boards \subseteq Industries /\ IsFiniteSet(Boards)
    /\ \A spot \in Snapshots :
          /\ DOMAIN spot \subseteq Boards /\ spot \in [DOMAIN spot -> Row]
          /\ \A b \in DOMAIN spot : spot[b].source = "snapshot"
    /\ Histories \subseteq [Boards -> [CalendarDays -> Row]]
    /\ \A f \in BoardFunds : DOMAIN FundHoldings[f] \subseteq Symbols
    /\ MaxRadarRuns \in Nat

BoardStates == {"emerging", "hot", "fading", "quiet"}
DataStatuses == {"ok", "degraded_flow_dark", "degraded_turn_dark",
                 "degraded_flow_turn_dark", "abstain", "none"}

VARIABLES
    boardSeries,  \* board -> day -> row                board_series.json
    holdings,     \* funds whose holdings are cached    data/narrative_holdings
    radarReport,  \* today's report                     rotation_radar.json
    radarLedger,  \* today's rows [board, state]        forward_ledger.jsonl
    radar,        \* the run in flight: where it is, what it captured
    seeding,      \* the seed in flight: where it is, its trade calendar, boards
                  \* still to backfill, and whether the radar has run meanwhile
                  \* (never read)
    radarRuns,
    radarSaid     \* never read: the rows of every report published today

radarVars == <<today, industryMap, boardSeries, holdings, radarReport,
               radarLedger, radar, seeding, radarRuns, radarSaid>>

Idle == [at |-> "idle", series |-> [b \in Boards |-> NoRows], spot |-> NoRows]
NoSeed == [at |-> "off", todo |-> {}, raced |-> FALSE, calendar |-> {}]
NoReport == [status |-> "none", states |-> NoRows, candidates |-> {}]

RadarInit ==
    /\ today = 1
    /\ industryMap = NoRows
    /\ boardSeries = [b \in Boards |-> NoRows]
    /\ holdings = {}
    /\ radarReport = NoReport
    /\ radarLedger = {}
    /\ radar = Idle
    /\ seeding = NoSeed
    /\ radarRuns = 0
    /\ radarSaid = {}

-----------------------------------------------------------------------------
(* Signals and ranks.                                                      *)

\* The mean of a leg over the last n rows that carry it.
TailMean(rows, leg(_), n) ==
    LET D == {d \in LastOf(DOMAIN rows, n) : leg(rows[d]) # NoValue}
    IN  IF D = {} THEN NoValue
        ELSE (Scale * MapThenSumSet(LAMBDA d : leg(rows[d]), D)) \div Cardinality(D)

TurnDelta(rows) ==
    LET short == TailMean(rows, LAMBDA r : r.turn, ShortTail)
        long  == TailMean(rows, LAMBDA r : r.turn, MinTd)
    IN  IF short = NoValue \/ long \in {NoValue, 0} THEN NoValue
        ELSE (Scale * short) \div long

\* The boards with enough history and their three legs.  The median that
\* mom20 is taken from changes no rank and is left out.
BoardSignals(series) ==
    [b \in {c \in Boards : Cardinality(DOMAIN series[c]) >= MinTd} |->
        [mom  |-> MapThenSumSet(LAMBDA d : series[b][d].chg,
                                LastOf(DOMAIN series[b], MinTd)),
         flow |-> TailMean(series[b], LAMBDA r : r.flow, ShortTail),
         turn |-> TurnDelta(series[b])]]

\* Twice the rank; ties share the mean rank, a single board is in the middle.
RankTwice(value(_), B, b) ==
    IF Cardinality(B) = 1 THEN 1
    ELSE 2 * Cardinality({c \in B : value(c) < value(b)})
           + Cardinality({c \in B : value(c) = value(b)}) - 1

FlowLegDark(sig) == DOMAIN sig = {} \/ \E b \in DOMAIN sig : sig[b].flow = NoValue
TurnLegDark(sig) == DOMAIN sig = {} \/ \E b \in DOMAIN sig : sig[b].turn = NoValue

\* A leg is used for every board or for none; the weights of the legs that
\* remain are renormalised.
CrossSectional(sig, flowDark, turnDark) ==
    LET B     == DOMAIN sig
        wFlow == IF flowDark \/ FlowLegDark(sig) THEN 0 ELSE 3
        wTurn == IF turnDark \/ TurnLegDark(sig) THEN 0 ELSE 2
        span  == IF Cardinality(B) = 1 THEN 2 ELSE 2 * (Cardinality(B) - 1)
    IN  [b \in B |-> << 5 * RankTwice(LAMBDA c : sig[c].mom, B, b)
                        + wFlow * RankTwice(LAMBDA c : sig[c].flow, B, b)
                        + wTurn * RankTwice(LAMBDA c : sig[c].turn, B, b),
                        (5 + wFlow + wTurn) * span >>]

AtLeast(p, tenths) == 10 * p[1] >= tenths * p[2]
Enters(p) == AtLeast(p, 8)
Stays(p)  == AtLeast(p, 7)

\* A board's composite on every day the stored window gives it one,
\* recomputed with today's choice of legs.
PctlByDay(series, flowDark, turnDark, b) ==
    LET days    == UNION {DOMAIN series[c] : c \in Boards}
        upTo(d) == [c \in Boards |-> Restrict(series[c], {e \in DOMAIN series[c] : e <= d})]
        sig     == [d \in days |-> BoardSignals(upTo(d))]
        ranked  == {d \in days : b \in DOMAIN sig[d]}
        nth(i)  == CHOOSE d \in ranked : Cardinality({e \in ranked : e <= d}) = i
    IN  [i \in 1..Cardinality(ranked) |->
            CrossSectional(sig[nth(i)], flowDark, turnDark)[b]]

-----------------------------------------------------------------------------
(* States.                                                                 *)

\* A mutant: the band is left where it is entered.
InBandFlagsAt80(p) == [i \in DOMAIN p |-> Enters(p[i])]

\* Membership of the band: entered at p80, left below p70.
InBandFlags(p) ==
    LET flag[i \in DOMAIN p] ==
            IF i > 1 /\ flag[i - 1] THEN Stays(p[i]) ELSE Enters(p[i])
    IN  flag

\* The state and its age in days.
ClassifyBoard(p) ==
    LET flag  == InBandFlags(p)
        n     == Len(p)
        falls == {i \in 2..n : flag[i - 1] /\ ~flag[i]}
        outs  == {i \in 1..n : ~flag[i]}
        run   == IF outs = {} THEN n ELSE n - Max(outs)
        since == n - Max(falls) + 1
    IN  IF run > 0
        THEN <<IF run <= EmergingWindow THEN "emerging" ELSE "hot", run>>
        ELSE IF falls # {} /\ since <= EmergingWindow
        THEN <<"fading", since>>
        ELSE <<"quiet", 0>>

-----------------------------------------------------------------------------
(* Candidates: active boards by the exposure of the cached funds.          *)

\* Symbols whose industry is not one of this run's boards count for nothing.
Exposure(fund, board) ==
    LET mine == {s \in DOMAIN FundHoldings[fund] :
                   s \in DOMAIN FreshSlice /\ FreshSlice[s] = board}
    IN  MapThenSumSet(LAMBDA s : FundHoldings[fund][s], mine)

\* Without a holdings cache there is no fund to rank.
Exposed(b) == {f \in holdings : Exposure(f, b) > 0 /\ Exposure(f, b) >= MinExposure}

Candidates(states) ==
    LET active == {b \in DOMAIN states : states[b].state \in {"emerging", "hot"}}
        better(f, g, b) == \/ Exposure(f, b) > Exposure(g, b)
                           \/ Exposure(f, b) = Exposure(g, b) /\ f < g
    IN  UNION {{[fund |-> g, board |-> b] :
                   g \in {h \in Exposed(b) :
                            Cardinality({f \in Exposed(b) : better(f, h, b)}) < CandTopN}}
               : b \in active}

-----------------------------------------------------------------------------
(* The report.                                                             *)

DataStatus(flowDark, turnDark) ==
    CASE flowDark /\ turnDark -> "degraded_flow_turn_dark"
      [] flowDark /\ ~turnDark -> "degraded_flow_dark"
      [] ~flowDark /\ turnDark -> "degraded_turn_dark"
      [] OTHER -> "ok"

FlowDark(series, spot) ==
    \/ \A b \in DOMAIN spot : spot[b].flow = NoValue
    \/ FlowLegDark(BoardSignals(series))

BuildStates(series, flowDark, turnDark) ==
    LET sig == BoardSignals(series)
    IN  [b \in DOMAIN sig |->
            LET c == ClassifyBoard(PctlByDay(series, flowDark, turnDark, b))
            IN  [state |-> c[1], age |-> c[2],
                 flow |-> IF flowDark THEN NoValue ELSE sig[b].flow,
                 turn |-> IF turnDark THEN NoValue ELSE sig[b].turn]]

ReportOf(series, spot) ==
    LET fd == FlowDark(series, spot)
        td == TurnLegDark(BoardSignals(series))
        states == BuildStates(series, fd, td)
    IN  [status |-> DataStatus(fd, td), states |-> states,
         candidates |-> Candidates(states)]

AbstainReport == [status |-> "abstain", states |-> NoRows, candidates |-> {}]

LedgerRows(states) ==
    {[board |-> b, state |-> states[b].state] :
        b \in {c \in DOMAIN states : states[c].state # "quiet"}}

-----------------------------------------------------------------------------
(* irc rotation: one file operation per step.                              *)

StartRadar == radar.at = "idle" /\ radarRuns < MaxRadarRuns /\ radarRuns' = radarRuns + 1

\* The snapshot fails or is empty: the day's report says so, whatever it said.
RadarAbstains ==
    /\ StartRadar
    /\ radarReport' = AbstainReport
    /\ UNCHANGED <<today, industryMap, boardSeries, holdings, radarLedger,
                   radar, seeding, radarSaid>>

\* Every board of the snapshot gets its row of the day and is pruned; the
\* others are left as they are.
AppendSnapshot(spot, calendar) ==
    [b \in Boards |->
        IF b \in DOMAIN spot
        THEN Prune(MergeDay(boardSeries[b], today, spot[b]), today, RadarKeep, calendar)
        ELSE boardSeries[b]]

Capture ==
    /\ StartRadar
    /\ \E spot \in Snapshots, calendar \in {TradingDays, {}} :
          /\ boardSeries' = AppendSnapshot(spot, calendar)
          /\ radar' = [at |-> "captured", series |-> AppendSnapshot(spot, calendar),
                       spot |-> spot]
    /\ seeding' = [seeding EXCEPT !.raced = seeding.at # "off"]
    /\ UNCHANGED <<today, industryMap, holdings, radarReport, radarLedger, radarSaid>>

WriteReport ==
    /\ radar.at = "captured"
    /\ LET report == ReportOf(radar.series, radar.spot) IN
          /\ radarReport' = report
          /\ radarSaid' = radarSaid \cup LedgerRows(report.states)
    /\ radar' = [radar EXCEPT !.at = "reported"]
    /\ UNCHANGED <<today, industryMap, boardSeries, holdings, radarLedger,
                   seeding, radarRuns>>

\* Rows of the day and board already in the ledger stay.
FreshRows(rows) ==
    {r \in rows : \A old \in radarLedger : old.board # r.board}

AppendLedger ==
    /\ radar.at = "reported"
    /\ radarLedger' = radarLedger
                      \cup FreshRows(LedgerRows(radarReport.states))
    /\ radar' = Idle
    /\ UNCHANGED <<today, industryMap, boardSeries, holdings, radarReport,
                   seeding, radarRuns, radarSaid>>

RadarDies ==
    /\ radar.at # "idle"
    /\ radar' = Idle
    /\ UNCHANGED <<today, industryMap, boardSeries, holdings, radarReport,
                   radarLedger, seeding, radarRuns, radarSaid>>

-----------------------------------------------------------------------------
(* irc rotation seed: boards, then holdings, then the industry map.        *)

\* A mutant: every board of the snapshot is backfilled.
SeedStartWithAll ==
    /\ seeding.at = "off" /\ radarRuns < MaxRadarRuns /\ radarRuns' = radarRuns + 1
    /\ \E spot \in Snapshots \cup {NoRows}, calendar \in {TradingDays, {}} :
          seeding' = [at |-> "boards", todo |-> DOMAIN spot, raced |-> FALSE,
                      calendar |-> calendar]
    /\ UNCHANGED <<today, industryMap, boardSeries, holdings, radarReport,
                   radarLedger, radar, radarSaid>>

\* The boards to backfill are chosen on what the store holds at the start;
\* without a snapshot there are none, and without a calendar nothing is pruned.
SeedStart ==
    /\ seeding.at = "off" /\ radarRuns < MaxRadarRuns /\ radarRuns' = radarRuns + 1
    /\ \E spot \in Snapshots \cup {NoRows}, calendar \in {TradingDays, {}} :
          seeding' = [at |-> "boards",
                      todo |-> {b \in DOMAIN spot : Cardinality(DOMAIN boardSeries[b]) < MinTd},
                      raced |-> FALSE, calendar |-> calendar]
    /\ UNCHANGED <<today, industryMap, boardSeries, holdings, radarReport,
                   radarLedger, radar, radarSaid>>

\* One board's history, of today or up to yesterday, replaces the rows of
\* its days.
SeedBackfill(b, rows, calendar) ==
    Prune(Over(rows, boardSeries[b]), Max(DOMAIN rows), RadarKeep, calendar)

\* A history's rows carry no flow, and end today or yesterday.
BoardHistory(h, b, upTo) == [d \in 1..upTo |-> h[b][d]]

SeedBoard ==
    \E b \in seeding.todo, h \in Histories, upTo \in {today - 1, today} \ {0} :
          LET rows == BoardHistory(h, b, upTo)
          IN  /\ boardSeries' = [boardSeries EXCEPT ![b] = SeedBackfill(b, rows, seeding.calendar)]
              /\ seeding' = [seeding EXCEPT !.todo = @ \ {b}]
              /\ UNCHANGED <<today, industryMap, holdings, radarReport,
                             radarLedger, radar, radarRuns, radarSaid>>

SeedBoardFails ==
    \E b \in seeding.todo :
          /\ seeding' = [seeding EXCEPT !.todo = @ \ {b}]
          /\ UNCHANGED <<today, industryMap, boardSeries, holdings, radarReport,
                         radarLedger, radar, radarRuns, radarSaid>>

\* Funds without a holdings file are fetched, some in vain.
SeedHoldings ==
    /\ seeding.at = "boards" /\ seeding.todo = {}
    /\ seeding' = [seeding EXCEPT !.at = "holdings", !.calendar = {}]
    /\ \E got \in SUBSET (BoardFunds \ holdings) : holdings' = holdings \cup got
    /\ UNCHANGED <<today, industryMap, boardSeries, radarReport, radarLedger,
                   radar, radarRuns, radarSaid>>

\* Stocks of the cached funds that are not served fresh are asked for; some
\* chunks fail, some stocks come back without an industry.
SeedStockMap ==
    /\ seeding.at = "holdings"
    /\ seeding' = NoSeed
    /\ LET pending == (UNION {DOMAIN FundHoldings[f] : f \in holdings}) \ DOMAIN FreshSlice
       IN  \E answered \in SUBSET pending :
              \E seen \in [answered -> Industries] : RecordSeen(seen)
    /\ UNCHANGED <<today, boardSeries, holdings, radarReport, radarLedger,
                   radar, radarRuns, radarSaid>>

SeedDies ==
    /\ seeding.at # "off"
    /\ seeding' = NoSeed
    /\ UNCHANGED <<today, industryMap, boardSeries, holdings, radarReport,
                   radarLedger, radar, radarRuns, radarSaid>>

\* A run keeps the date it started on; none of those modelled spans two days.
NextDay ==
    /\ today < LastDay /\ radar = Idle /\ seeding = NoSeed
    /\ today' = today + 1
    /\ radarReport' = NoReport /\ radarLedger' = {} /\ radarSaid' = {}
    /\ UNCHANGED <<industryMap, boardSeries, holdings, radar, seeding, radarRuns>>

RadarNext ==
    \/ RadarAbstains \/ Capture \/ WriteReport \/ AppendLedger \/ RadarDies
    \/ SeedStart \/ SeedBoard \/ SeedBoardFails \/ SeedHoldings \/ SeedStockMap
    \/ SeedDies \/ NextDay

RadarSpec == RadarInit /\ [][RadarNext]_radarVars

-----------------------------------------------------------------------------
(* Properties.                                                             *)

RadarTypeOK ==
    /\ DayStoresTypeOK
    /\ \A b \in Boards : /\ DOMAIN boardSeries[b] \subseteq CalendarDays
                          /\ \A d \in DOMAIN boardSeries[b] : boardSeries[b][d] \in Row
    /\ holdings \subseteq BoardFunds
    /\ radarReport.status \in DataStatuses
    /\ \A b \in DOMAIN radarReport.states :
          b \in Boards /\ radarReport.states[b].state \in BoardStates
    /\ radar.at \in {"idle", "captured", "reported"}
    /\ seeding.at \in {"off", "boards", "holdings"} /\ seeding.todo \subseteq Boards
    /\ radarRuns \in 0..MaxRadarRuns
    /\ radarLedger \cup radarSaid \subseteq [board : Boards, state : BoardStates \ {"quiet"}]

\* What states.py:3 says the states mean, without flags or loops.  A board is
\* in the band on its day i if it entered on some day e up to i and has not
\* fallen below the exit since.
InBand(p, i) == \E e \in 1..i : Enters(p[e]) /\ \A j \in e..i : Stays(p[j])

StateMeant(p, state) ==
    LET n == Len(p)
        early == {i \in 1..n : n - i >= EmergingWindow}
    IN  CASE state = "hot" -> \E i \in early : \A j \in i..n : InBand(p, j)
          [] state = "emerging" -> InBand(p, n) /\ \A i \in early : \E j \in i..n : ~InBand(p, j)
          [] state = "fading" -> /\ ~InBand(p, n)
                                 /\ \E i \in 2..n : /\ n - i < EmergingWindow
                                                   /\ ~Stays(p[i]) /\ InBand(p, i - 1)
          [] state = "quiet" -> /\ ~InBand(p, n)
                                /\ \A i \in 2..n : n - i < EmergingWindow => ~InBand(p, i - 1) \/ Stays(p[i])

\* The state computed from the stored window is the one the description of
\* states.py gives it, whatever boards, legs and days are missing from it.
StatesMeanWhatTheySay ==
    radar.at = "captured" =>
        LET fd == FlowDark(radar.series, radar.spot)
            td == TurnLegDark(BoardSignals(radar.series))
        IN  \A b \in DOMAIN BoardSignals(radar.series) :
              LET p == PctlByDay(radar.series, fd, td, b)
              IN  StateMeant(p, ClassifyBoard(p)[1])

\* A leg appears in a report for every board or for none, although backfilled
\* rows lack it, boards go missing from snapshots and answers are partial
\* (composite.py:9).
NoFabricatedLeg ==
    LET states == radarReport.states IN
    \A b, c \in DOMAIN states :
        /\ states[b].flow = NoValue <=> states[c].flow = NoValue
        /\ states[b].turn = NoValue <=> states[c].turn = NoValue

\* What a report says of a board follows from the stored days, and of every
\* board by the same measure.
ReportMeansWhatItSays == StatesMeanWhatTheySay /\ NoFabricatedLeg

\* Every row of the ledger was published in a report of its day, although
\* the run may die between the two files, and the report may be replaced.
LedgerWasPublished == radarLedger \subseteq radarSaid

\* A board has one row of a day in the ledger, however often the day is
\* run again and whatever its later snapshots say.
LedgerOncePerDay ==
    \A r, s \in radarLedger : r.board = s.board => r = s

\* The ledger, appended to after the report, tells what the reports told.
LedgerIsOfTheDay == LedgerWasPublished /\ LedgerOncePerDay

\* The radar publishes only what its boards show, hysteresis and coverage
\* included, and its ledger has each day's report once and no other.
RadarIsHonest == ReportMeansWhatItSays /\ LedgerIsOfTheDay

\* A row captured live is lost to the window only, or to the backfill of a
\* board too young to be ranked: never to that of a board with its history,
\* unless the radar ran beside the seed (seed.py:52 looks once, at the start).
LiveRowsSurvive ==
    [][\A b \in Boards : \A d \in DOMAIN boardSeries[b] :
          boardSeries[b][d].source = "snapshot"
          => \/ d \in DOMAIN boardSeries'[b] /\ boardSeries'[b][d].source = "snapshot"
             \/ d \notin PruneWindow(today, RadarKeep, TradingDays)
             \/ Cardinality(DOMAIN boardSeries[b]) < MinTd
             \/ seeding.raced]_radarVars
=============================================================================
