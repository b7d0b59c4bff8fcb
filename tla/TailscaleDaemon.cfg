\* One daemon that is started and stopped once, one peer, one status call.
SPECIFICATION FairSpec
CONSTANTS
    Garbled = Garbled
    tunname <- TwoNames
    Peers = {p1}
    Devices <- OneDevice
    BadLines = {2, 7}
    BufLines = 12
INVARIANTS TypeOK StartIsTruthful StopWaitsForServer StatusIsTheDevice
PROPERTIES StopDone GoroutinesEnd
CHECK_DEADLOCK FALSE
