SPECIFICATION ThreadsSpec
CONSTANTS
    Threads = {2, 3, 4}
    N = 3
    Fns <- F
    Programs <- Spawning
    Length = 3
INVARIANTS
    JoinWaitsForAll
    RunsItsFunction
    CountAtExit
PROPERTIES
    Ends
