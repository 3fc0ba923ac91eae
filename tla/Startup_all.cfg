\* Every command line main tells apart, configuration files that are complete,
\* lacking, repeated or in error, and any system call failing.
SPECIFICATION Spec
CONSTANTS
    Fds = {3, 4, 5, 6, 7}
    NoFd <- NoDescriptor
    MaxAddrs = 2
    Buf = 9
    SectionMax = 3
    KeyMax = 3
    ValueMax = 5
    MaxEntries = 5
    MaxPort = 5
    MinMtu = 4
    MaxMtu = 6
    DefaultMtu = 5
    Node <- N
    Tap <- T
    ServerAddr <- A
    NodeId <- I
    NodeKey <- K
    TapName <- P
    Mtu <- M
    CommandLines <- AllCommandLines
    Files <- AllFiles
INVARIANTS NothingLeft SettingsAsWritten SessionsAreConfigured
PROPERTY OpensInOneStep
