SPECIFICATION Spec
CONSTANTS
    Rows = 2
    Cols = 3
    MaxRows = 4
    MaxCols = 4
    Starts <- Corridors
    Procs = {p1, p2}
    Calls <- AllCalls
    Faults = {"nodir", "full", "kill"}
    BufSize = 8
INVARIANTS
    WallsKept
    NoDuplicates
SYMMETRY Symmetry
