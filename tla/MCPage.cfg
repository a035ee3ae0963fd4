CONSTANTS
    Level = {l1, l2}
    NoLevel = NoLevel
    LevelCap = 1
    Byte = {1, 2, 3}
    Chunks <- MCChunks
    Mixes <- MCMixes
    Want = 1
    MaxLevels = 2
    MaxPauses = 1
SPECIFICATION PageSpec
INVARIANTS StreamWhole VolumeExplained
PROPERTIES DeathIsTold NoMessageStranded AudioArrives
CHECK_DEADLOCK FALSE
