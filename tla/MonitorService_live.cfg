SPECIFICATION RecoveringSpec
CONSTANTS
    c1 = c1
    c2 = c2
    Counters = {c1}
    Monitors = {m1}
    Cumalative = {c1}
    IgnoreZero = {c1}
    WithAttribs = {c1}
    CollectCount = 2
    Amounts = {1}
    Senders = {s1, s2}
    MaxCalls = 3
    MaxPayloads = 3
    StopWaits = TRUE
    LostReplies = TRUE
PROPERTIES OutboxSpec StopReturns EventuallyDelivered
CHECK_DEADLOCK FALSE
