SPECIFICATION MCSpec
CONSTANTS
    Ops <- AllOps
    HeapVals = {0, 1}
    Keys = {k1, k2}
    Vals = {1, 2}
    Absent = Absent
    MaxThreads = 3
    MaxOut = 1
INVARIANTS
    CloneHeapPrivate
PROPERTIES
    HeapIsolation
    ForkCopiesHeap
    ResumeMatches
    DeviceSpec
