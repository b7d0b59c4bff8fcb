\* Two connections of one client.
SPECIFICATION FairSpec
CONSTANT MaxConnects = 2
INVARIANTS TypeOK FailedConnectCloses EstablishedStaysUp SignalMeansReleased
PROPERTIES TerminationCompletes
CHECK_DEADLOCK FALSE
