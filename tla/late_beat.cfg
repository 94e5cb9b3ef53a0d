SPECIFICATION Spec
CONSTANTS
    NumWays = 2
    NumSets = 1
    LineSize = 64
    Nodes = {1, 2}
    Data = {0}
    ZeroData = 0
    L1TxnIds = {1, 2, 3}
    SnoopIdBase = 10
    MemIdBase = 20
    Addrs = {64}
    Opcodes = {"ReadUnique", "WriteBackFull"}
    Beats = 2
    AnonymousIds = {}
    SilentAnswers = "never"
    GrantedOps = {"WriteBackFull", "WriteEvictFull"}
    MaxEvicts = 0
PROPERTY OnlyWriteDataEndsWait
CHECK_DEADLOCK FALSE
