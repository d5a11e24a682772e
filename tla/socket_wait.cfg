SPECIFICATION Spec
CONSTANTS
    Sources = {s1, s2}
    NoToken = NoToken
    Prefix = 2
    Wire = 2
    SendSpace = 1
    WakeSpace = 1
    Sizes <- MCSizes
    Calls = 3
INVARIANTS
    OutcomeTruthful
    StreamExact
PROPERTIES
    WaitsEnd
CHECK_DEADLOCK FALSE
