SPECIFICATION Spec
CONSTANT MaxConnects = 1
INVARIANT NetworkCleaned
CHECK_DEADLOCK FALSE
