SPECIFICATION Spec
CONSTANTS
    MaxId = 2
    Routes <- MCRoutes
    Paths <- MCBidiOrMalformed
    FunnelBuffer = 0
    MaxQueued = 0
    MaxFrames = 2
    HandlerStatuses = {"internal"}
    MultiThreaded = FALSE
    Conforming = FALSE
    HandlersDropSends = TRUE
INVARIANTS SessionTable FunnelBound NothingFollowsClose
PROPERTIES IdsNeverReused
CHECK_DEADLOCK FALSE
