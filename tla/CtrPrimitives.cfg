\* Calls of all shapes, two deep.
SPECIFICATION Spec
CONSTANTS
    ByteBase = 4
    BlockBytes = 2
    KeyBytes = 4
    LengthBytes = 2
    SizeMax = 19
    Aes <- MCAes
    Xor <- MCXor
    Keys <- MCKeys
    Vs <- MCVs
    Calls <- MCCalls
    MaxCalls = 2
INVARIANTS
    TypeOK
    NothingLeft
    RoundsAccepted
PROPERTIES
    AllOrNothing
    KeepsPromise
