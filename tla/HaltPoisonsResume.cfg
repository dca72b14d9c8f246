SPECIFICATION Spec
CONSTANTS
    LastStage = 5
    Optional <- MCOptional
    Manifested <- MCManifested
    Needs <- MCNeeds
    Solo <- None
    Silent <- None
    Overlap = FALSE
    Crashes = FALSE
    LastDay = 1
    MaxInvocations = 2
INVARIANT OkSheetIsClean
CHECK_DEADLOCK FALSE
