SPECIFICATION FairSpec
CONSTANTS
    m1 = m1
    m2 = m2
    m3 = m3
    Messages = {m1, m3}
    Subscriptions <- DoubleAndSubscriber
    Target <- TwoAndOne
    Concurrency = 1
    MaxStarts = 1
PROPERTIES
    StopReturnsDrained
    StopReturnsInTime
    AskersAreAnswered
    ReceivedIsAnswered
CHECK_DEADLOCK FALSE
