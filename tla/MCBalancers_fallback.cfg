SPECIFICATION BalancersSpec
CONSTANTS
    NPeers = 3
    Server <- PoolFallback
    DefaultFailTimeout = 2
    Pickers = {g1, g2}
    StartTime = 1
    MaxTime = 2
    MaxRequests = 2
    MaxTries = 3
    Keys <- Client
    NoKey <- NoAddress
    Checksum <- Checksums
    Addr <- TwoAddresses
    Points <- TwoServers
    Start <- Starts
    Algos = {"LeastConn", "RandomTwo", "Hash", "HashConsistent"}
    g1 = g1
    g2 = g2
SYMMETRY Symmetry
INVARIANTS
    NoOrphanQuarantine
PROPERTIES
    KeyStaysWithServer
    SuspensionHonoured
    ImplementsPicker
    BackupsLast
