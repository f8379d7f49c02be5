SPECIFICATION FairSpec
CONSTANTS
    c1 = c1
    Calls = {c1}
    Timeouts = {1, 3}
    Deadlines = {0, 2, 3, 9}
    Millisecond = 2
    LastBegin = 2
    MaxTime = 5
INVARIANTS
    TypeOK
    TimeoutIsTheRequests
    ContextErrorIsTheCallers
    EndpointBudgetFits
PROPERTIES
    NothingSentAfterClose
    CallsReturn
CHECK_DEADLOCK FALSE
