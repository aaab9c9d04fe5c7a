SPECIFICATION BalancersFairSpec
CONSTANTS
    NPeers = 3
    Server <- PoolBackups
    DefaultFailTimeout = 2
    Pickers = {g1, g2}
    StartTime = 1
    MaxTime = 1
    MaxRequests = 2
    MaxTries = 3
    Keys <- ClientOrNone
    NoKey <- NoAddress
    Checksum <- Checksums
    Addr <- OneAddress
    Points <- OneServer
    Start <- Starts
    Algos = {"RoundRobin", "IPHash"}
    g1 = g1
    g2 = g2
INVARIANTS
    ConnsMatchHolders
PROPERTIES
    RequestEnds
    BackupsLast
    ImplementsPicker
