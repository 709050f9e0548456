CONSTANT MaxRequests = 2
SPECIFICATION Spec
INVARIANT WokenWhenDone
CHECK_DEADLOCK FALSE
