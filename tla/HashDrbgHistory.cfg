\* Five calls on one context, with an interval of two requests.
SPECIFICATION Spec
CONSTANTS
    ByteBase = 256
    CounterBytes = 2
    Sha256 <- MCSha256
    DigestSize = 2
    SeedBytes = 3
    EntropyBytes = 2
    NonceBytes = 1
    MaxBytes = 3
    ReseedInterval = 2
    SizeMax = 1000
    StaleBytes = {0, 1}
    InstantiateCalls <- OneInstantiateCall
    GenerateCalls <- GoodGenerateCalls
    ReseedCalls <- GoodReseedCalls
    UninstantiateCalls <- MCUninstantiateCalls
    MaxCalls = 5
INVARIANTS
    NoStreamReuse
    ContextIsWalked
\* The caller may stop making calls.
CHECK_DEADLOCK FALSE
