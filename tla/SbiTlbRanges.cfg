SPECIFICATION Spec
CONSTANTS
    NHarts = 3
    BootAddr = 0
    Addrs <- MCAddrs
    Scenarios <- FullFlushes
    Word = 16
    PageSize = 2
    FlushLimit = 4
    FifoSize = 1
    LocalIds = {0}
    GlobalIds = {1}
    Prios = {1}
INVARIANT FenceComplete
CHECK_DEADLOCK FALSE
