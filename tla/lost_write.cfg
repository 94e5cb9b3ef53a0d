SPECIFICATION Spec
CONSTANTS
    NumWays = 1
    NumSets = 1
    LineSize = 64
    Nodes = {1, 2}
    Data = {0, 1}
    ZeroData = 0
    L1TxnIds = {0}
    SnoopIdBase = 10
    MemIdBase = 20
    Beats = 1
    Addrs = {64}
    Workload <- EvictWorkload
    Overlap = FALSE
    IdsPerNode = FALSE
    MaxRequests = 4
INVARIANTS LastWriteKept
CHECK_DEADLOCK FALSE
