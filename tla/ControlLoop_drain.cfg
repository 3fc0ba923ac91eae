\* One stream, two units each way, with direct callers and test frames that may
\* never stop, stalled peers and a control connection that may end.
SPECIFICATION FairSpec
CONSTANTS
    Fds = {3, 4, 5, 6}
    CtlFd = 3
    NoFd <- NoDescriptor
    Ids = {s1}
    Direct = {TRUE, FALSE}
    MaxStreams = 1
    Options <- Service
    Sends = {"TEST"}
    Faults = {"stall", "eof"}
    MaxUnits = 2
    MaxQueue = 1
PROPERTIES StreamsDrain StreamsArePipes
