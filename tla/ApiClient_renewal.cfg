\* The timer, a caller of Authenticate, a waiter and one Initialize on top of
\* the constructor; the node answers in the end.
SPECIFICATION AnsweredSpec
CONSTANTS
    Callers = {ca}
    Waiters = {wa}
    MaxStarts = 1
    MaxInits = 1
    Uninitialized = FALSE
    Exchanges <- ThreeExchanges
    KeyLives = {1, 3}
    RenewBefore = 2
    authRetryTime = 2
    authTimeout = 10000000
    PeriodNanos = 10000000
    PeriodMillis = 10
    MaxElapsed = 2
INVARIANTS TypeOK ExchangesApart RenewalDue
PROPERTIES StaysAuthenticated WaitReturns
CHECK_DEADLOCK FALSE
