SPECIFICATION CallSpec
CONSTANTS
    Keys <- MCKeys
    Values = {"x", "y"}
    MaxOps = 7
    Begins <- MCBegins
    Types <- MCTypes
    Payloads = {1, 2}
    MaxSteps = 4
INVARIANTS TypeOK RoundTrip HoldsWhatWasAdded
PROPERTIES RegisterPerType
CHECK_DEADLOCK FALSE
