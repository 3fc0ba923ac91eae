\* One direct client that closes its end and answers what is still sent to it
\* with a reset; NTAP-A does nothing but send PONGs.
SPECIFICATION Spec
CONSTANTS
    Fds = {3, 4, 5, 6}
    CtlFd = 3
    NoFd <- NoDescriptor
    Callers = {v1}
    Valid = {v1}
    MaxClients = 1
    CtlKinds = {"pong"}
    CallerKinds = {"frame"}
    CtlFaults = {}
    CallerFaults = {"eof"}
    MaxQueue = 1
INVARIANT SurvivesPeers
