SPECIFICATION DrainingSpec
CONSTANTS
    MaxId = 2
    Routes <- MCRoutes
    Paths <- MCWatchOrUnknown
    FunnelBuffer = 0
    MaxQueued = 0
    MaxFrames = 2
    HandlerStatuses = {"ok"}
    MultiThreaded = FALSE
    Conforming = TRUE
    HandlersDropSends = FALSE
PROPERTIES FinishedCallIsAnswered SessionsReclaimed TeardownCompletes SendsComplete
CHECK_DEADLOCK FALSE
