CONSTANTS
    Codec = {h264, av1}
    NoCodec = NoCodec
    FrameCap = 2
    AudioCap = 1
    ControlCap = 1
SPECIFICATION Spec
INVARIANT NeverPanics
CHECK_DEADLOCK FALSE
