\* Every link test main.c lets through, with up to two PONGs and two frames,
\* direct callers, test frames at any time, stalls, ends and resets; no slot for a
\* stream, so that every OPEN is refused.
SPECIFICATION FairSpec
CONSTANTS
    Fds = {3, 4, 5}
    CtlFd = 3
    NoFd <- NoDescriptor
    Ids = {s1}
    Direct = {TRUE, FALSE}
    MaxStreams = 0
    Options <- LinkTests
    Sends = {"TEST"}
    Faults = {"stall", "eof", "reset"}
    MaxUnits = 0
    MaxQueue = 2
INVARIANT TestsEndOnTime
PROPERTY LinkTestEnds
