------------------------------- MODULE MCMarket -------------------------------
(***************************************************************************)
(* The rotation radar, the market data of the monitor, one fund's reading   *)
(* and the track record of its signals, in one run: each behaviour is one   *)
(* of them, so that what is explored is their sum and not their product.    *)
(***************************************************************************)
EXTENDS RotationRadar, MarketData, MonitorSignal, ForwardScore

VARIABLE mover   \* whose behaviour it is

Live(chg, flow, turn) ==
    [chg |-> chg, flow |-> flow, turn |-> turn, source |-> "snapshot"]
Past(chg, turn) ==
    [chg |-> chg, flow |-> NoValue, turn |-> turn, source |-> "backfill"]

\* Either board leads, one of them without a flow; one board alone.
MCSnapshots ==
    { [a |-> Live(1, 1, 2), b |-> Live(0, 0, 1)],
      [a |-> Live(0, NoValue, 1), b |-> Live(1, 1, 2)],
      [a |-> Live(1, 1, 2)] }
MCHistories ==
    { [b \in {"a", "b"} |-> [d \in CalendarDays |->
          Past(IF b = "a" THEN 1 ELSE 0, IF d % 2 = 0 THEN NoValue ELSE 1)]] }
MCFundHoldings == [f \in {1} |-> [x |-> 2]]

MCMarketFunds  == [f |-> {"x", "y"}, g |-> {"y"}]
MCBatchAnswers == { [x |-> "a"], [x |-> "b"] }
MCBoardPages   == <<{"a"}, {"b"}>>

MonitorFund(profile, confidence, pool, top, index, catalog) ==
    [profile |-> profile, override |-> [f \in {} |-> 0], buy |-> 40, sell |-> -40,
     confidence |-> confidence, themes |-> {"fed", "gold"},
     pool |-> pool, views |-> top # <<>>, top |-> top,
     index |-> index, catalog |-> catalog]
\* A fund with weights and bands of its own.
Its(fund, override, buy, sell) ==
    [fund EXCEPT !.override = override, !.buy = buy, !.sell = sell]
MCMonitorSet ==
    { MonitorFund("active_cn_equity", 50, TRUE, <<"x", "y">>, Absent, TRUE),
      Its(MonitorFund("active_cn_equity", 50, FALSE, <<"x", "y">>, Absent, FALSE),
          [trend |-> 45, valuation |-> 0], 30, -40),
      MonitorFund("qdii_china_us_internet", 50, TRUE, <<>>, 100, TRUE),
      MonitorFund("gold", 90, TRUE, <<>>, Absent, TRUE) }
Nav(obs, trend, age, calendar, missed, gap) ==
    [obs |-> obs, trend |-> trend, age |-> age, calendar |-> calendar,
     missed |-> missed, gap |-> gap]
MCNavSeries ==
    { Nav(3, 100, 1, TRUE, 1, 4), Nav(3, -100, 1, TRUE, 2, 3),
      Nav(3, 100, 1, FALSE, 7, 8), Nav(3, -100, 1, FALSE, 5, 9),
      Nav(2, 100, 1, TRUE, 0, 1), Nav(3, 100, 9, TRUE, 0, 1) }
Says(key, impact, confidence) ==
    [key |-> key, impact |-> impact, confidence |-> confidence, sound |-> TRUE]
Astray == [key |-> "fed", impact |-> 100, confidence |-> 100, sound |-> FALSE]
MCThemeAnswers ==
    { <<Says("fed", 80, 100), Says("gold", 60, 50)>>,
      <<Says("fed", -100, 20), Says("gold", -100, 10), Says("oil", 100, 100)>>,
      <<Says("fed", 100, 100)>>,
      <<Says("gold", 100, 100), Astray>> }
MCHoldingAnswers ==
    { <<Says("x.SZ", 100, 40), Says("x", -100, 90), Says("other", 100, 100)>>,
      <<Says("y", 50, 100), Astray>> }
MCKeyMeans == [k \in {"x.SZ", "x", "y"} |-> IF k = "y" THEN "y" ELSE "x"]
Held(weight, self, rich, flow) ==
    [weight |-> weight, self |-> self, rich |-> rich, flow |-> flow]
MCBaskets ==
    { [x |-> Held(30, 100, 120, 300), y |-> Held(20, 100, 130, -150)],
      [x |-> Held(30, 100, 80, Absent), y |-> Held(20, -100, Absent, 100)],
      [x |-> Held(25, 50, 115, 50), y |-> Held(30, Absent, 60, Absent)] }
MCSuiteReports ==
    { [overall |-> "PASS", age |-> 1], [overall |-> "FAIL", age |-> 14],
      [overall |-> "FAIL", age |-> 15], [overall |-> "absent", age |-> 0] }

SomeFund == CHOOSE f \in MonitorSet : TRUE
SomeReport == CHOOSE r \in SuiteReports : TRUE

MCMarketInit ==
    /\ mover \in {"radar", "market", "signal", "forward"}
    /\ RadarInit /\ MarketInit /\ SignalInit /\ ForwardInit
    /\ mover # "signal" => /\ reading.fund = SomeFund
                           /\ suites = [s \in Suites |-> SomeReport]

marketOwn == <<closed, calendarDay, flowStore, peTables, stockCache, brief, capture,
               marketRuns, marketLog>>
radarOwn == <<boardSeries, holdings, radarReport, radarLedger, radar, seeding,
              radarRuns, radarSaid>>

MCMarketNext ==
    /\ UNCHANGED mover
    /\ \/ /\ mover = "radar" /\ RadarNext
          /\ UNCHANGED <<marketOwn, signalVars, forwardVars>>
       \/ /\ mover = "market" /\ MarketNext
          /\ UNCHANGED <<radarOwn, signalVars, forwardVars>>
       \/ /\ mover = "signal" /\ SignalNext
          /\ UNCHANGED <<radarVars, marketVars, forwardVars>>
       \/ /\ mover = "forward" /\ ForwardNext
          /\ UNCHANGED <<radarVars, marketVars, signalVars>>

MCMarketSpec ==
    MCMarketInit /\ [][MCMarketNext]_<<mover, radarVars, marketVars, signalVars, forwardVars>>

\* The stores, the reports and the runs in flight keep their shape.
MarketTypesOK == RadarTypeOK /\ MarketTypeOK /\ SignalTypeOK /\ ForwardTypeOK

\* No step of the radar, the seed, the brief or the capture loses a row
\* captured live or what is known of a stock, but for the races named.
NothingKnownIsLost == LiveRowsSurvive /\ SeenGoesBackOnlyInARace
=============================================================================
