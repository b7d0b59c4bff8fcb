\* Renewal with a router that may refuse, a change of router, and every kind of
\* outcome of the discovery.
SPECIFICATION FairSpec
CONSTANTS
    ipA = ipA  ipB = ipB  noAnswer = noAnswer  noAddress = noAddress
    Mappings = {m1, m2}
    Temporary = {t1}
    Discovered <- Outcomes
    pRefresh = 3
    Minute = 4
    TicksPerSecond = 2
    Timeouts = {3}
    MaxRound = 1
    MaxConnects = 2
    MaxKept = 3
    Refuses = TRUE
INVARIANTS TypeOK LeaseKept RouterUnambiguous
PROPERTY Restored
CHECK_DEADLOCK FALSE
