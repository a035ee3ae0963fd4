CONSTANTS
    Slot = {s1, far}
    OwnSlot = {s1}
    Pos = {p1}
    Pad = {g1}
    Snapshot = {x1}
    Button = {b1}
    Key = {k1}
    NoKey = NoKey
    Modifier = {shift}
    Delta = {1}
    Idle = Idle
    Pressed = Pressed
    Lost = Lost
    BusCap = 2
    ChannelCap = 2
    MaxBatch = 2
    MaxDelta = 2
    Equipment = {{s1, "Scroll"}, {far}, {b1}, {k1, NoKey}, {g1, "MouseMove"}}
    MaxInFlight = 3
    MaxOwed = 3
SPECIFICATION Spec
INVARIANTS SeatAgrees KeyboardAgrees MotionConserved
PROPERTIES LiftsArrive StopCompletes
CHECK_DEADLOCK FALSE
