\* Every call returns: all shapes, two calls deep.
SPECIFICATION Spec
CONSTANTS
    ByteBase = 256
    CounterBytes = 2
    Sha256 <- MCAnyHash
    DigestSize = 2
    SeedBytes = 3
    EntropyBytes = 2
    NonceBytes = 1
    MaxBytes = 3
    ReseedInterval = 1
    SizeMax = 1000
    StaleBytes = {0, 1}
    InstantiateCalls <- MCInstantiateCalls
    GenerateCalls <- MCGenerateCalls
    ReseedCalls <- MCReseedCalls
    UninstantiateCalls <- MCUninstantiateCalls
    MaxCalls = 2
PROPERTIES
    EveryCallReturns
\* The caller may stop making calls.
CHECK_DEADLOCK FALSE
