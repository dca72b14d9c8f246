SPECIFICATION MCPaidSpec
CONSTANTS
    Calendar <- MCCalendar
    ResetDay = 2
    Providers <- MCProviders
    Quotas <- MCQuotas
    Allowance <- MCAllowance
    Need <- MCNeed
    Price <- MCPrice
    Unit = 2
    Usages <- MCUsages
    Procs = {c1, c2}
    MaxCommands = 3
    MaxTopUps = 1
    Attempts = 5
    InnerAttempts = 5
    Backoff <- MCBackoff
    Deadline = 60
    Durations = {0, 1, 30, 70}
    ThemeOrder <- MCThemeOrder
    ThemeLocale <- MCThemeLocale
    SectorTheme = "holdings_sector"
    CriticalThemes = {"us_monetary", "holdings_sector"}
    EngineLocale <- MCEngineLocale
    KeyRings <- MCKeyRings
    AskedThemes <- MCAskedThemes
    Offered <- MCOffered
    Canonical = "c"
    Relevant = {"b", "c"}
    Trusted = {"b"}
    MaxHits = 3
    TopPages = 1
    MaxSources = 3
    MinCitations = 2
    MaxResearchRuns = 2
INVARIANTS TypeOK NothingOldIsCharged ExactWhileCurrent LedgerIsBacked CallIsBounded
           ResearchKeepsItsWord
SYMMETRY MCSymmetry
CHECK_DEADLOCK FALSE
