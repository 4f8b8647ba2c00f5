\* Five calls on one context, with an interval of two requests.
SPECIFICATION Spec
CONSTANTS
    Hmac <- MCHmac
    DigestSize = 2
    EntropyBytes = 2
    NonceBytes = 1
    MaxBytes = 3
    ReseedInterval = 2
    SizeMax = 1000
    InstantiateCalls <- GoodInstantiateCalls
    GenerateCalls <- GoodGenerateCalls
    ReseedCalls <- GoodReseedCalls
    UninstantiateCalls <- MCUninstantiateCalls
    MaxCalls = 5
INVARIANTS
    NoStreamReuse
    ContextIsWalked
    PastKeysGone
\* The caller may stop making calls.
CHECK_DEADLOCK FALSE
