SPECIFICATION Spec
CONSTANTS
    c1 = c1
    c2 = c2
    Counters = {c1, c2}
    Monitors = {m1}
    Cumalative = {c1}
    IgnoreZero = {}
    WithAttribs = {c1}
    CollectCount = 1
    Amounts = {1}
    Senders = {s1}
    MaxCalls = 3
    MaxPayloads = 2
    StopWaits = TRUE
    LostReplies = FALSE
INVARIANT RegisteredStayRegistered
CHECK_DEADLOCK FALSE
