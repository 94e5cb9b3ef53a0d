SPECIFICATION Spec
CONSTANTS
    NumWays = 3
    NumSets = 1
    LineSize = 64
    Nodes = {1, 2, 3}
    Data = {0, 1}
    ZeroData = 0
    L1TxnIds = {0, 1}
    SnoopIdBase = 10
    MemIdBase = 30
    Beats = 1
    Addrs = {0, 64, 128}
    Workload <- SafeWorkload
    Overlap = FALSE
    IdsPerNode = FALSE
    MaxRequests = 4
INVARIANTS TypeOK NoFault SingleWriter DirectoryCovers LastWriteKept
PROPERTIES ReadsSeeLastWrite
CHECK_DEADLOCK FALSE
