SPECIFICATION Spec
CONSTANTS
    i1 = i1
    i2 = i2
    Messages = {"a"}
    Instances = {i1, i2}
    Written <- Rolling
    NakDelay = 1
    Concurrency = 1
    PullMax = 1
    MaxStarts = 3
PROPERTIES
    FinalFailureIsFinal
CHECK_DEADLOCK FALSE
