SPECIFICATION FairSpec
CONSTANTS
    Subscriptions = 1
    LookedUp = {}
    Groupless = {}
    MaxStarts = 2
    MaxDeletes = 1
    MaxCreates = 0
    MaxDrops = 0
PROPERTY
    LoggedIsDeaf
CHECK_DEADLOCK FALSE
