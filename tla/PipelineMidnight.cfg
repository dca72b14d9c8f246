SPECIFICATION MCMidnightSpec
CONSTANTS
    LastStage = 5
    Optional <- MCOptional
    Manifested <- MCManifested
    Needs <- MCNeeds
    Solo <- IngestOnly
    Silent <- ScoreSilent
    Overlap = TRUE
    Crashes = TRUE
    LastDay = 2
    MaxInvocations = 3
INVARIANTS ResumeSkipsNothing MidnightIsHarmless CalmRunIsWhole CalmHaltIsTold
CHECK_DEADLOCK FALSE
