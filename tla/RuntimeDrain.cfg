SPECIFICATION Spec
CONSTANTS
    m1 = m1
    m2 = m2
    m3 = m3
    Messages = {m1, m2, m3}
    Subscriptions <- AckAndEndpoint
    Target <- TwoAndOne
    Concurrency = 1
    MaxStarts = 1
INVARIANTS
    TypeOK
    AnsweredOnce
    PendingIsUnsettled
    CountersMatch
    CleanDrain
    CleanAbandon
PROPERTIES
    KeepsPromise
    GroupNeverGrowsWhileAwaited
CHECK_DEADLOCK FALSE
