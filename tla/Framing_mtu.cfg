\* The sizes of proto.h and wire.h; one message is enough.
SPECIFICATION Spec
CONSTANTS
    HdrSize = 16
    MinMtu = 576
    DefaultMtu = 1400
    MaxMtu = 1500
    PayloadExtra = 32
    FrameExtra = 18
    Overhead = 6
    MinFrame = 14
    PlainMax = 0
    Mtus = {576, 1500}
    MaxMessages = 1
    Window = 16
INVARIANT FramesOfTheMtuPass
CHECK_DEADLOCK FALSE
