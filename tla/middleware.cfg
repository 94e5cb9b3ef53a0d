SPECIFICATION FairSpec
CONSTANTS
    NumWays = 1
    NumSets = 1
    LineSize = 64
    Nodes = {1, 2}
    Data = {0}
    ZeroData = 0
    L1TxnIds = {1, 2}
    SnoopIdBase = 10
    MemIdBase = 20
    Beats = 2
    Addrs = {0, 64}
    RequestTypes = {"ReadShared", "ReadUnique", "CleanUnique", "WriteBackFull", "Evict"}
    Capacity = 1
INVARIANTS TypeOK NoStrandedRetry BeatsInOrder
PROPERTIES ImplementsSystem RetriesEnd RequestsFinish
CONSTRAINT InOrder
CHECK_DEADLOCK FALSE
