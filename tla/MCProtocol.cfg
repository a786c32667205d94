SPECIFICATION Spec
CONSTANTS
    MaxId = 2
    Routes <- MCRoutes
    Paths <- MCWatch
    FunnelBuffer = 1
    MaxQueued = 0
    MaxFrames = 3
    HandlerStatuses = {"ok"}
    MultiThreaded = TRUE
    Conforming = TRUE
    HandlersDropSends = FALSE
PROPERTIES ImplementsProtocol
CHECK_DEADLOCK FALSE
