SPECIFICATION Spec
CONSTANTS
    NumWays = 1
    NumSets = 1
    LineSize = 64
    Nodes = {1}
    Data = {0}
    ZeroData = 0
    L1TxnIds = {1, 2, 3}
    SnoopIdBase = 10
    MemIdBase = 20
    Addrs = {0, 64}
    Opcodes = {"ReadUnique"}
    Beats = 1
    AnonymousIds = {}
    SilentAnswers = "never"
    GrantedOps = {"WriteBackFull", "WriteEvictFull"}
    MaxEvicts = 0
PROPERTY AssertionProtectsDirtyLines
CHECK_DEADLOCK FALSE
