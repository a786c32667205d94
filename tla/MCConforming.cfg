SPECIFICATION Spec
CONSTANTS
    MaxId = 2
    Routes <- MCRoutes
    Paths <- MCBidiUnary
    FunnelBuffer = 1
    MaxQueued = 1
    MaxFrames = 2
    HandlerStatuses = {"ok"}
    MultiThreaded = FALSE
    Conforming = TRUE
    HandlersDropSends = FALSE
INVARIANTS TypeOK AnsweredOnce
PROPERTIES EofMeansDoneSending SilentAfterCancel
CHECK_DEADLOCK FALSE
