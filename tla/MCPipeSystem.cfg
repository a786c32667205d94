SPECIFICATION StalledSystem
CONSTANTS
    MaxId = 2
    Routes <- MCRoutes
    Paths <- MCPaths
    FunnelBuffer = 0
    MaxQueued = 2
    MaxFrames = 1
    HandlerStatuses = {"internal"}
    MultiThreaded = FALSE
    Conforming = FALSE
    HandlersDropSends = FALSE
    ReqCap = 0
    RespCap = 1
INVARIANTS NeverKilled
PROPERTIES NoCircularWait CancelEndsHandler ClientSeesProtocol
CHECK_DEADLOCK FALSE
