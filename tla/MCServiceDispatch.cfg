SPECIFICATION Spec
CONSTANTS
    Services <- MCServices
    MethodNames <- MCMethodNames
    ForeignCodes <- MCForeignCodes
    Garbled = {"not a type"}
    Impls = {"one", "two"}
    MaxRegistered = 3
    MaxFrames = 2
INVARIANTS TypeOK DispatchAgrees CloseFits FailureReported LastRegistrationServes
CHECK_DEADLOCK FALSE
