SPECIFICATION FairSpec
CONSTANTS
    Fires = {p1, p2, p3}
    NoPid = NoPid
    Kills = TRUE
    Manual = TRUE
INVARIANTS TypeOK OneHolder CommandIsAccountedFor
PROPERTIES WrappersGetThrough
CHECK_DEADLOCK FALSE
