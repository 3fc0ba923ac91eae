\* Bytes of two values; every message type, with its texts from empty to longer
\* than two bytes can say.
SPECIFICATION Spec
CONSTANTS
    Base = 2
    Types <- MessageTypes
    Messages <- AllMessages
    TextSize <- Sizes
    NonceSize = 2
    SignSize = 2
    MinFrame = 1
    MinMtu = 1
    MaxMtu = 2
    MaxSocks = 11
    RemoteClosed = 2
    Cap = 38
    FirstCap = 2
    SizeBits = 6
CHECK_DEADLOCK FALSE
INVARIANTS RoundTrip StaysInside OnlyWholeMessages EveryByteCounts SignatureBinds
