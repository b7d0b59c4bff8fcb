SPECIFICATION Spec
CONSTANTS
    c1 = c1
    c2 = c2
    Counters = {c1, c2}
    Monitors = {m1}
    Cumalative = {c1}
    IgnoreZero = {c1}
    WithAttribs = {c2}
    CollectCount = 2
    Amounts <- UpAndDown
    Senders = {s1, s2}
    MaxCalls = 3
    MaxPayloads = 3
    StopWaits = TRUE
    LostReplies = FALSE
SYMMETRY SenderSymmetry
INVARIANTS TypeOK Accounting NothingMiscounted GetIsCount
    InCollectionOrder QueueWithinCollectCount StopQuiesces
CHECK_DEADLOCK FALSE
