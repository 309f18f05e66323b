SPECIFICATION Spec
CONSTANTS
    Callers = {a, b}
    MaxGen = 2
    MaxFaults = 1
INVARIANTS OnlyTheOccupantRuns
PROPERTIES ImplementsContract TornDownStaysClean
CHECK_DEADLOCK FALSE
