\* Two slots and three callers, one of them without a valid token; frames from
\* every side, connections closed and reset in mid-relay.  A freed
\* descriptor number is the first to be handed out again.
SPECIFICATION Spec
CONSTANTS
    Fds = {3, 4, 5, 6, 7, 8}
    CtlFd = 3
    NoFd <- NoDescriptor
    Callers = {v1, v2, x}
    Valid = {v1, v2}
    MaxClients = 2
    CtlKinds = {"frame"}
    CallerKinds = {"frame"}
    CtlFaults = {"reset"}
    CallerFaults = {"reset", "eof"}
    MaxQueue = 1
SYMMETRY Interchangeable
INVARIANTS TypeOK DescriptorsOwned ReadinessIsCurrent CallsHaveInput
PROPERTIES RelaysAsHub ClientFaultsContained
