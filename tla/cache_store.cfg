SPECIFICATION Spec
CONSTANTS
    NumWays = 2
    NumSets = 2
    LineSize = 64
    Nodes = {1}
    Data = {0}
    ZeroData = 0
    Addrs = {0, 64, 128, 256}
    States = {"SC", "UD"}
INVARIANTS TypeOK LruIsPermutation EveryLineReachable
PROPERTIES ImplementsRecency
