CONSTANTS
    Floor = 2
    Requests = {0, 3}
    MaxPending = 3
    MaxDelta = 1
    Step <- Steps
    Place = {p, q}
    Up = Up
    MaxEvents = 5
SPECIFICATION ThrottleSpec
INVARIANTS MotionConserved SeatTruthful
CHECK_DEADLOCK FALSE
