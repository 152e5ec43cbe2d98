SPECIFICATION Spec
CONSTANTS
    Threads = {t1, t2}
    NoThread = NoThread
    Labels <- AliasLabels
    DictNodes <- AliasNodes
    Edges <- AliasEdges
    IsFinal <- AliasFinal
    Query <- AliasQuery
    Configured <- AliasOperations
    MaxCost = 1
    MaxNodes = 10
    MaxStates = 40
    MaxCalls = 3
    MaxDisturbances = 0
INVARIANTS
    AnswersExact
    ClonesAgree
    RegistriesCanonical
    OwnersRetained
    RetriesBounded
