\* Two clients that both send and may stall, a LAN that may always have a frame,
\* and an NTAP-A that may stall, stop in mid-message, close, or say what the loop
\* does not expect.
SPECIFICATION FairSpec
CONSTANTS
    Fds = {3, 4, 5, 6, 7}
    CtlFd = 3
    NoFd <- NoDescriptor
    Callers = {v1, v2}
    Valid = {v1, v2}
    MaxClients = 2
    CtlKinds = {"frame", "pong", "other"}
    CallerKinds = {"frame"}
    CtlFaults = {"stall", "part", "eof"}
    CallerFaults = {"stall"}
    MaxQueue = 1
PROPERTIES ClientsServed LossNoticed
