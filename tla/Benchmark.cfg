\* The benchmark over a mechanism that may fail at any call.
SPECIFICATION Spec
CONSTANTS
    ReseedInterval = 3
    Faults = {"MEMORY_ERROR", "INTERNAL_ERROR"}
    Zeroed = 0
    MayInstantiate <- MCMayInstantiate
    MayGenerate <- MCMayGenerate
    MayReseed <- MCMayReseed
    TooLong <- MCTooLong
    Seeds <- MCSeeds
    Torn <- MCTorn
    Reseeded <- MCReseeded
    Advance <- MCAdvance
    Stream <- MCStream
    Verifies <- MCVerifies
    Descriptors <- MCDescriptors
    Configs <- MCConfigs
    Entropy <- MCEntropy
    Nonces <- MCNonces
    Elapsed <- MCElapsed
    DBL_MAX = 1000
INVARIANTS
    SeedNotOverused
    CallsAccepted
    CountsExact
    ErasedBeforeFree
    UninstantiatedOnce
    RowMeansSuccess
    RowIsConsistent
    SavedIsDelivered
PROPERTIES
    Terminates
