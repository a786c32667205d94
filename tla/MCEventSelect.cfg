SPECIFICATION SelectSpec
CONSTANTS MaxWaiting = 3
INVARIANTS PassedOverOnce
PROPERTIES ImplementsEventLoop
CHECK_DEADLOCK FALSE
