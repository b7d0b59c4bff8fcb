SPECIFICATION FairSpec
CONSTANT MaxConnects = 1
PROPERTY DisconnectReturns
CHECK_DEADLOCK FALSE
