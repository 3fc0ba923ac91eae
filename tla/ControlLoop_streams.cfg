\* Two streams at once, one unit each way, connections reset, messages the node
\* does not expect; a closed stream's slot and descriptor go to the other one.
SPECIFICATION Spec
CONSTANTS
    Fds = {3, 4, 5, 6, 7}
    CtlFd = 3
    NoFd <- NoDescriptor
    Ids = {s1, s2}
    Direct = {FALSE}
    MaxStreams = 2
    Options <- Service
    Sends = {"BAD"}
    Faults = {"reset"}
    MaxUnits = 1
    MaxQueue = 1
SYMMETRY Symmetry
INVARIANTS TypeOK DescriptorsOwned CallsHaveInput
PROPERTIES StreamsArePipes StreamFaultsContained
