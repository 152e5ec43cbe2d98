SPECIFICATION Spec
CONSTANTS
    Threads = {t1, t2}
    NoThread = NoThread
    Labels <- LimitLabels
    DictNodes <- LimitNodes
    Edges <- LimitEdges
    IsFinal <- LimitFinal
    Query <- LimitQuery
    Configured <- LimitOperations
    MaxCost = 1
    MaxNodes = 6
    MaxStates = 8
    MaxCalls = 2
    MaxDisturbances = 1
INVARIANTS
    NoDangling
    LimitsRespected
    NoCallbackUnderLock
    NothingLeaked
PROPERTY ExpansionReturns
