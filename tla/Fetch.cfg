SPECIFICATION MCFetchSpec
CONSTANTS
    Procs = {p1, p2}
    Active = {1}
    Foreign = {1}
    Nav = {2}
    None = None
    TopN = 10
    Fresh = 1
    Budgets = {30, 40}
    LastQuarter = 2
    LastDay = 2
    MaxRuns = 2
    Midnight = FALSE
    TopSlots = {"a", "b", "c"}
    WeightTables <- MCWeights
    TopHoldings = 4
    Percentiles = {10, 30, 75}
    Returns <- MCReturns
    HeatInputs = {"ret_1m", "ret_12m"}
    Scores <- MCScores
    IndexSize = 5
    OnExchange <- MCOnExchange
    OffExchange <- MCOffExchange
    Eligible <- MCEligible
    BroadKeys <- MCBroad
    SectorKeys = {"metals"}
    Frames <- MCFrames
    Windows <- MCWindows
    StockFrames <- MCStockFrames
    SnapshotsSeen <- MCSnapshots
    MinPoints = 1
    StaleAge = 1
    MaxAge = 1
    LastHalfDay = 2
    MaxIngests = 2
    Offered <- MCOffered
    Handmade <- MCHandmade
    Caps <- MCCaps
    ReturnTables <- MCReturnTables
    Banned = {}
    ExcludedThemes = {}
    MetaSeen = {"blank", "young", "seasoned"}
    HistorySeen = {"none", "calm"}
    MinPerRole = 2
    FailBelow = 1
    MaxRetries = 1
    MaxBuilds = 1
    MaxDiscovers = 2
SYMMETRY Runners
INVARIANTS OpportunityTypesOK NoCallIsWasted CreditIsBacked EvidenceCarriesThrough AdviceHangsTogether DiscoveryAccountsForAll
PROPERTIES CacheOnlyImproves IngestKeepsItsWord
CHECK_DEADLOCK FALSE
