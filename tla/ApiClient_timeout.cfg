\* The default authTimeout.

SPECIFICATION Spec
CONSTANTS
    Callers = {}
    Waiters = {wa}
    MaxStarts = 1
    MaxInits = 0
    Uninitialized = FALSE
    Exchanges <- ThreeExchanges
    KeyLives = {1, 2}
    RenewBefore = 1
    authRetryTime = 2
    authTimeout = 10000
    PeriodNanos = 10000000
    PeriodMillis = 10
    MaxElapsed = 3

INVARIANT WaitsForTimeout
