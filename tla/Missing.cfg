SPECIFICATION FairSpec
CONSTANTS
    Subscriptions = 2
    LookedUp = {1}
    Groupless = {2}
    MaxStarts = 1
    MaxDeletes = 3
    MaxCreates = 2
    MaxDrops = 2
INVARIANTS
    UncreatedStaysMissing
PROPERTIES
    DeafIsLogged
    RecoveredIsForgotten
    WatcherEnds
    LoggedIsGone
CHECK_DEADLOCK FALSE
