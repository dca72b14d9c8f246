SPECIFICATION FairSpec
CONSTANTS
    LastStage = 4
    Optional <- MCOptional
    Manifested <- DayManifested
    Needs <- DayNeeds
    Solo <- AllButOptional
    Silent <- ScoreSilent
    Overlap = FALSE
    Crashes = TRUE
    LastDay = 2
    MaxInvocations = 3
INVARIANTS TypeOK FullRunIsSound
PROPERTIES ImplementsJob RunsReturn
CHECK_DEADLOCK FALSE
