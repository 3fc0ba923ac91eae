\* A buffer of five bytes, so lines of up to three and a byte of the first message.
SPECIFICATION FairSpec
CONSTANTS
    Tokens <- Known
    Key = "key"
    NodeId = "node"
    NetworkId = 1
    Cap = 5
    Wait = 1
    MaxBytes = 5
INVARIANTS TypeOK AdmittedRightly FramesKept HeldBriefly
PROPERTY GoodCallersEnter
