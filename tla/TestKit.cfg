SPECIFICATION Spec
CONSTANTS
    Suites <- MCSuites
    MaxTests = 4
    Chunks = 2
    PerChunk = 2
    Capacity = 1
    Forking <- Forkers
INVARIANTS
    RunsTheSuite
    VerdictSound
    CleanupAlways
    ExitsNormally
PROPERTIES
    WorkerFinishes
