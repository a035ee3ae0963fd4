CONSTANTS
    AppStream = {a}
    MoqStream = {m}
    KeepAlive = 2
    FirstByte = 3
    Refill = 2
    Burst = 1
    KickRefusals = 3
    KickWindow = 1
    ClientCap = 1
    FloodRate = 4
    MaxHeld = 4
SPECIFICATION Spec
INVARIANTS QuietExplained HonestKickExplained
PROPERTIES FloodEnds
CHECK_DEADLOCK FALSE
