\* The benchmark over the dummy mechanism, which never fails.
SPECIFICATION Spec
CONSTANTS
    ByteBase = 4
    ReseedInterval = 100
    Faults = {}
    Zeroed <- DummyZeroed
    MayInstantiate <- DummyAccepts
    MayGenerate <- DummyAccepts
    MayReseed <- DummyAccepts
    TooLong <- DummyTooLong
    Seeds <- DummySeeds
    Torn <- DummyTorn
    Reseeded <- DummyReseeded
    Advance <- DummyAdvance
    Stream <- DummyStream
    Verifies <- DummyVerify
    Descriptors <- MCDescriptors
    Configs <- MCConfigs
    Entropy <- MCEntropy
    Nonces <- MCNonces
    Elapsed <- MCElapsed
    DBL_MAX = 1000
INVARIANTS
    VerificationPasses
