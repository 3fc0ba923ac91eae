\* Every combination of --once, --tap, --max-attempts and --max-sessions up to 2;
\* one message at a time waits, of any kind the handshake tells apart.
SPECIFICATION FairSpec
CONSTANTS
    Options <- Everything
    Kinds = {"HELLO", "HELLO_PEER", "AUTH_OK", "AUTH_FAIL", "CONFIG", "CONFIG_NO_TAP", "CONFIG_OTHER"}
    MaxQueue = 1
INVARIANTS OneConnection Entitled RejectionIsFinal StatusIsEarned BacksOff
PROPERTY ComesBack
