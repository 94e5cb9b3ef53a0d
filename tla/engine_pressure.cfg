SPECIFICATION Spec
CONSTANTS
    NumWays = 1
    NumSets = 1
    LineSize = 64
    Nodes = {1, 2}
    Data = {0}
    ZeroData = 0
    L1TxnIds = {1, 2, 3}
    SnoopIdBase = 10
    MemIdBase = 20
    Addrs = {0, 64}
    Opcodes = {"ReadUnique", "ReadNotSharedDirty", "ReadOnce", "ReadNoSnp", "WriteUniqueFull", "ReadShared", "WriteEvictFull", "WriteNoSnp", "CleanUnique"}
    Beats = 1
    AnonymousIds = {0}
    SilentAnswers = "never"
    GrantedOps = {"WriteBackFull", "WriteEvictFull"}
    MaxEvicts = 1
CONSTRAINT InOrder
INVARIANTS TypeOK SnoopTablesAgree QuiescentMeansIdle
PROPERTIES CompletesOnce
CHECK_DEADLOCK FALSE
