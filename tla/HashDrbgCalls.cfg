\* Every shape of call, every point of failure, three calls deep.
SPECIFICATION Spec
CONSTANTS
    ByteBase = 256
    CounterBytes = 2
    Sha256 <- MCSha256
    DigestSize = 2
    SeedBytes = 3
    EntropyBytes = 2
    NonceBytes = 1
    MaxBytes = 3
    ReseedInterval = 1
    SizeMax = 1000
    StaleBytes = {0, 1}
    InstantiateCalls <- MCInstantiateCalls
    GenerateCalls <- MCGenerateCalls
    ReseedCalls <- MCReseedCalls
    UninstantiateCalls <- MCUninstantiateCalls
    MaxCalls = 3
INVARIANTS
    TypeOK
    FailedCallKeepsState
    OutputAllOrNothing
    FreedAndErased
PROPERTIES
    KeepsPromise
\* The caller may stop making calls.
CHECK_DEADLOCK FALSE
