CONSTANTS
    MaxU8 = 255
    MaxOperations = 5
    MaxRestrictions = 3
    DefaultCapacity = 100000
    Requests <- SomeRequests
    FzfRequests <- SomeFzf
    Policies <- SomePolicies
    MaxCaptures = 2
    MaxResources = 2
    MaxDepth = 2
    Nothing = Nothing
    Statuses = {io, limit}
    NoFault = NoFault
    Computation = Computation
    MaxScopes = 4
    MaxFailures = 2
SPECIFICATION Spec
SYMMETRY Symmetry
CHECK_DEADLOCK FALSE
INVARIANTS
    OwnersExact
    SlotsTruthful
    OptionsRoundTrip
    FaultsAttributed
