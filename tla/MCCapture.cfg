CONSTANTS
    Size = {s1, s2}
    NoSize = NoSize
    Noise = Noise
    BusCap = 2
    ControlCap = 1
    Dialogs = 2
    Ceiling = 3
    MinKbps = 2
    MaxFaults = 2
    MaxResizes = 2
    MaxLocks = 1
SPECIFICATION Spec
INVARIANTS ResourcesNested GovernorTruthful
PROPERTIES CancelEnds ReachesLastSize KeyframeServed
CHECK_DEADLOCK FALSE
