SPECIFICATION MCMarketSpec
CONSTANTS
    LastDay = 4
    TradingDays = {1, 2, 4}
    Symbols = {"x", "y"}
    Industries = {"a", "b"}
    MapMaxAge = 1
    Boards = {"a", "b"}
    Snapshots <- MCSnapshots
    Histories <- MCHistories
    RadarKeep = 3
    MinTd = 2
    ShortTail = 1
    EmergingWindow = 1
    BoardFunds = {1}
    FundHoldings <- MCFundHoldings
    MinExposure = 2
    CandTopN = 1
    MaxRadarRuns = 3
    TopSymbols = {"x"}
    MarketFunds <- MCMarketFunds
    BatchAnswers <- MCBatchAnswers
    BoardPages <- MCBoardPages
    FlowKeep = 2
    MaxStaleTd = 1
    FetchRetries = 1
    BreakerThreshold = 1
    MaxMarketRuns = 2
    MonitorSet <- MCMonitorSet
    NavSeries <- MCNavSeries
    ThemeAnswers <- MCThemeAnswers
    HoldingAnswers <- MCHoldingAnswers
    KeyMeans <- MCKeyMeans
    Baskets <- MCBaskets
    MinObs = 3
    NavStaleDays = 7
    SuiteReports <- MCSuiteReports
    LastRunDay = 3
    NavDays = {1, 2, 3}
    Horizon = 1
    NavAppendDays = 1
    TimelineDays = 2
    Engines = {9, 10}
    Biases3 = {"ADD_BIAS", "none"}
    MaxForwardRuns = 2
INVARIANTS
    MarketTypesOK
    RadarIsHonest
    WhatWasPaidForIsKept
    BriefServesWhatIsKnown
    SignalKeepsItsWord
    TrackRecordIsHonest
PROPERTIES
    NothingKnownIsLost
CHECK_DEADLOCK FALSE
