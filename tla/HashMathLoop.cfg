SPECIFICATION Spec
CONSTANTS
    ByteBase = 3
    CounterBytes = 2
    Width = 3
    Addends <- MCAddends
INVARIANTS
    PartialSum
    ReturnsSum
