SPECIFICATION BalancersSpec
CONSTANTS
    NPeers = 2
    Server <- PoolLoad
    DefaultFailTimeout = 2
    Pickers = {g1, g2, g3}
    StartTime = 1
    MaxTime = 1
    MaxRequests = 3
    MaxTries = 2
    Keys <- Client
    NoKey <- NoAddress
    Checksum <- Checksums
    Addr <- OneAddress
    Points <- OneServer
    Start <- Starts
    Algos = {"RoundRobin", "LeastConn", "Random", "RandomTwo", "HashConsistent"}
    g1 = g1
    g2 = g2
    g3 = g3
SYMMETRY Symmetry
INVARIANTS
    MaxConnsRespected
    WeightsBalanced
PROPERTIES
    LeastLoadedPicked
    NeverTheBusiest
