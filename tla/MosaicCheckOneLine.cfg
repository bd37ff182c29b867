SPECIFICATION Spec
CONSTANTS
    Programs <- TwoCallsOnALine
    MaxSteps = 20
    MaxThreads = 1
INVARIANTS
    Exhaustive
