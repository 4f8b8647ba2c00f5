\* Every shape of call, every point of failure, three calls deep.
SPECIFICATION Spec
CONSTANTS
    Hmac <- MCHmac
    DigestSize = 2
    EntropyBytes = 2
    NonceBytes = 1
    MaxBytes = 3
    ReseedInterval = 1
    SizeMax = 1000
    InstantiateCalls <- MCInstantiateCalls
    GenerateCalls <- MCGenerateCalls
    ReseedCalls <- MCReseedCalls
    UninstantiateCalls <- MCUninstantiateCalls
    MaxCalls = 3
INVARIANTS
    TypeOK
    FailedCallKeepsState
    OutputAllOrNothing
    NothingLeftBehind
PROPERTIES
    KeepsPromise
\* The caller may stop making calls.
CHECK_DEADLOCK FALSE
