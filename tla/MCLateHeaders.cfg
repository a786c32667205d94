SPECIFICATION Spec
CONSTANTS
    MaxId = 1
    Routes <- MCRoutes
    Paths <- MCWatch
    FunnelBuffer = 0
    MaxQueued = 0
    MaxFrames = 2
    HandlerStatuses = {"ok"}
    MultiThreaded = FALSE
    Conforming = TRUE
    HandlersDropSends = TRUE
INVARIANTS HeadersFirst
CHECK_DEADLOCK FALSE
