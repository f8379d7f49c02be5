SPECIFICATION Spec
CONSTANTS
    Ids = {"a", "b"}
    Timeouts = {2, 5}
    AckWait = 3
    MaxClock = 5
    MaxDeliver = 2
INVARIANTS
    HandlersSeeTheId
    StreamsSeeTheId
    DeadlineIsTheRequests
    FailureIsTheAnswerers
CHECK_DEADLOCK FALSE
