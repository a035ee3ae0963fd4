CONSTANTS
    Codec = {h264, av1}
    NoCodec = NoCodec
    FrameCap = 2
    AudioCap = 1
    ControlCap = 1
SPECIFICATION Spec
INVARIANTS GroupDecodable
PROPERTIES CancelEndsMedia
CHECK_DEADLOCK FALSE
