SPECIFICATION FairSpec
CONSTANTS
    m1 = m1
    m2 = m2
    m3 = m3
    Messages = {m1, m3}
    Subscriptions <- AckAndEndpoint
    Target <- TwoAndOne
    Concurrency = 1
    MaxStarts = 1
PROPERTY
    LateReplyIsNotSent
CHECK_DEADLOCK FALSE
