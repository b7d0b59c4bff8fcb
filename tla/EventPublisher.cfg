\* Five events, of which any do not marshal.
SPECIFICATION FairSpec
CONSTANT MaxEvents = 5
INVARIANTS ErrorsAreTheirs InOrder
PROPERTIES OutboxSteps Delivered
CHECK_DEADLOCK FALSE
