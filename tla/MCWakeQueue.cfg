CONSTANTS
    Item = {i1, i2}
    Producer = {p1, p2}
    Consumer = {c1, c2}
SPECIFICATION QueueSpec
INVARIANTS NoLostWakeup
PROPERTIES IsFifo CloseReachesAll
CHECK_DEADLOCK FALSE
