SPECIFICATION Spec
CONSTANTS
    Subscriptions = 1
    LookedUp <- AllLookedUp
    Groupless = {}
    MaxStarts = 1
    MaxDeletes = 2
    MaxCreates = 1
    MaxDrops = 1
INVARIANT
    StoppedStaysMissing
CHECK_DEADLOCK FALSE
