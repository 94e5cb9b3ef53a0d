SPECIFICATION Spec
CONSTANTS
    NumWays = 2
    NumSets = 1
    LineSize = 64
    Nodes = {1, 2, 3}
    Data = {0}
    ZeroData = 0
    L1TxnIds = {1, 2, 3}
    SnoopIdBase = 10
    MemIdBase = 20
    Addrs = {64}
    Opcodes = {"ReadShared", "ReadUnique", "CleanUnique", "WriteBackFull", "Unmapped"}
    Beats = 2
    AnonymousIds = {}
    SilentAnswers = "anytime"
    GrantedOps = {"WriteBackFull", "WriteEvictFull"}
    MaxEvicts = 1
INVARIANTS SnoopAccounting SnoopTablesAgree SharedDirtySingleSharer
PROPERTIES CompletesOnce NoEarlyCompletion
CONSTRAINT InOrder
CHECK_DEADLOCK FALSE
