\* Up to two files, each of two cases.
SPECIFICATION Spec
CONSTANTS
    Files <- MCFiles
    MAX_BYTES_PER_REQUEST = 4
INVARIANTS
    VerdictIsRight
    NoCaseIsLost
    NothingOutlivesItsCase
PROPERTIES
    FileAdvances
\* The run is over when the program has exited.
CHECK_DEADLOCK FALSE
