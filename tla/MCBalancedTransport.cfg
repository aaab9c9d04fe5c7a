SPECIFICATION BalancedSpec
CONSTANTS
    NPeers = 2
    Server <- Pool
    DefaultFailTimeout = 2
    Pickers = {g1, g2}
    StartTime = 3
    MaxTime = 4
    MaxRequests = 2
    Configs <- Retrying
    RequestKinds <- Kinds
    g1 = g1
    g2 = g2
SYMMETRY Symmetry
INVARIANTS
    HealthFollowsOutcomes
PROPERTIES
    RefusalsExplained
