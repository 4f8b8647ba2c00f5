\* Any number of runs over one log, with every command line.
SPECIFICATION Spec
CONSTANTS
    CommandLines <- MCCommandLines
    Kilo = 4
    SizeRange = 64
    UllRange = 256
    Failures = {"MEMORY_ERROR"}
INVARIANTS
    ReadAsWritten
    ExitTellsLog
PROPERTIES
    RunsEnd
