SPECIFICATION Spec
CONSTANTS
    Topics = 3
    Servers = 2
    MaxLosses = 3
INVARIANTS
    TypeOK
    CommandsHeard
    ServerConfigured
    NestedByLoss
PROPERTIES
    OutageEnds
    OutageCountsDown
