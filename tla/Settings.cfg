SPECIFICATION Spec
CONSTANTS
    Segments <- SomeSegments
    Givens <- SomeGivens
    ServerConfigs <- SomeConsumers
    Word = 16
INVARIANTS
    NearestSettingApplies
    SubjectsAreDistinct
    PullLimitsAreUsed
    BackoffInTurn
    LastIsMaxDeliver
    BackoffEntriesAreUsed
CHECK_DEADLOCK FALSE
