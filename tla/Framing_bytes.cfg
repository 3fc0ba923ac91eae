\* Sizes scaled down in proportion: a frame of the largest MTU is over the
\* receiver's limit and one of the default MTU is not; the socket buffers hold
\* less than the largest message.  A connection may rest: no deadlock check.
SPECIFICATION FairSpec
CONSTANTS
    HdrSize = 2
    MinMtu = 1
    DefaultMtu = 2
    MaxMtu = 4
    PayloadExtra = 2
    FrameExtra = 1
    Overhead = 1
    MinFrame = 1
    PlainMax = 1
    Mtus = {2, 4}
    MaxMessages = 3
    Window = 3
INVARIANT MessagesSurvive
PROPERTIES AsSockets Delivered
CHECK_DEADLOCK FALSE
