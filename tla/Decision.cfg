SPECIFICATION MCReportSpec
CONSTANTS
    Funds <- MCFunds
    Class <- MCClass
    Index <- MCIndex
    NoIndex = "-"
    Reachable <- MCReachable
    Theme <- MCTheme
    NoTheme = "none"
    Key <- MCKey
    Active <- MCActive
    Held <- MCHeld
    TopK = 1
    Outlooks <- MCOutlooks
    Reviews <- MCReviews
    Qualities <- MCQualities
    LastDay = 2
    MaxRuns = 3
    FirstNotifyDay = 6
    LastNotifyDay = 8
    OpenDays = {1, 2, 3, 4, 6, 7, 8}
    FlowSymbols = {"p", "q", "r", "s", "t"}
    Captures <- MCCaptures
    RadarWindow = 5
    Channels = {"macos", "feishu"}
    MaxChains = 2
    MemoFunds <- MCMemoFunds
    NameWithin <- MCNameWithin
    MemoInputs <- MCMemoInputs
    Passages <- MCPassages
    MaxPassages = 2
    CiteCap = 3
    PromptCap = 4
    MacroRef = macro
    NoMemo = nomemo
    MaxMemoRuns = 2
    Center <- MCCenter
    GoldBand <- MCGoldBand
    Tables <- MCTables
    SatelliteRoles <- MCSatelliteRoles
    Levels = {1, 2, 3}
    Expo <- MCExpo
    AllocTopK = 2
    SatelliteCap = 1500
    Point = 300
    Markets <- MCDowntrend
    DriverScores = {80, 30}
    NoTrackedIndex = "-"
    LastGoldDay = 2
INVARIANTS ReportTypesOK BuysCanBeMade SellSignalsSurface EveryFundIsFollowed NotifierKeepsItsWord MemoKeepsItsWord AllocationAddsUp
CHECK_DEADLOCK FALSE
