CONSTANTS
    Size = {A, B}
    None = None
    Settle = 2
    MaxQueue = 1
    MaxBacklog = 2
    MaxWire = 1
    MaxFaults = 1
SPECIFICATION Spec
INVARIANTS BeliefIsTrue StaleExplained NothingFedWithoutItsBase
PROPERTIES PictureFollows
CHECK_DEADLOCK FALSE
