SPECIFICATION GoldSpec
CONSTANTS
    Center <- MCCenter
    GoldBand <- MCGoldBand
    Tables <- MCTables
    SatelliteRoles <- MCSatelliteRoles
    Levels = {1, 2, 3}
    Expo <- MCExpo
    AllocTopK = 2
    SatelliteCap = 1500
    Point = 300
    Markets <- MCMarkets
    DriverScores = {80, 30}
    NoTrackedIndex = "-"
    LastGoldDay = 2
INVARIANTS DowntrendIsNotBought
CHECK_DEADLOCK FALSE
