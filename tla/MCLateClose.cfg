SPECIFICATION Spec
CONSTANTS
    MaxId = 1
    Routes <- MCRoutes
    Paths <- MCBidiUnary
    FunnelBuffer = 0
    MaxQueued = 0
    MaxFrames = 0
    HandlerStatuses = {"ok"}
    MultiThreaded = TRUE
    Conforming = TRUE
    HandlersDropSends = FALSE
PROPERTIES NoCloseAfterCancel
CHECK_DEADLOCK FALSE
