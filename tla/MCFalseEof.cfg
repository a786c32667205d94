SPECIFICATION Spec
CONSTANTS
    MaxId = 1
    Routes <- MCRoutes
    Paths <- MCBidi
    FunnelBuffer = 0
    MaxQueued = 0
    MaxFrames = 0
    HandlerStatuses = {"ok"}
    MultiThreaded = TRUE
    Conforming = TRUE
    HandlersDropSends = FALSE
PROPERTIES EofMeansDoneSending
CHECK_DEADLOCK FALSE
