SPECIFICATION Spec
CONSTANTS
    Programs <- OneCallPerLine
    MaxSteps = 20
    MaxThreads = 3
INVARIANTS
    TellsApart
    Exhaustive
    DepthIsShortest
    EdgesComplete
