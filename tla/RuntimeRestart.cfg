SPECIFICATION Spec
CONSTANTS
    m1 = m1
    m2 = m2
    m3 = m3
    Messages = {m1, m2, m3}
    Subscriptions <- NoAckAndSubscriber
    Target <- TwoAndOne
    Concurrency = 1
    MaxStarts = 2
INVARIANTS
    BoundedHandlers
    QuietAfterDrain
PROPERTY
    SpawnsOnlyWhileServing
CHECK_DEADLOCK FALSE
