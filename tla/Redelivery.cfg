SPECIFICATION Spec
CONSTANTS
    i1 = i1
    i2 = i2
    Messages = {"a"}
    Instances = {i1, i2}
    Written <- Alike
    NakDelay = 1
    Concurrency = 1
    PullMax = 1
    MaxStarts = 3
INVARIANTS
    NotCutShort
    HandledOnceUnlessExcused
    UsedUpIsLogged
PROPERTIES
    FinalFailureIsFinal
CHECK_DEADLOCK FALSE
