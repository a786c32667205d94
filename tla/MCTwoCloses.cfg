SPECIFICATION Spec
CONSTANTS
    MaxId = 1
    Routes <- MCRoutes
    Paths <- MCBidiUnary
    FunnelBuffer = 0
    MaxQueued = 0
    MaxFrames = 0
    HandlerStatuses = {"ok"}
    MultiThreaded = FALSE
    Conforming = FALSE
    HandlersDropSends = FALSE
INVARIANTS AtMostOneClose
CHECK_DEADLOCK FALSE
