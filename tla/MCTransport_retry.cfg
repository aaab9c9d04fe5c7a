SPECIFICATION FairSpec
CONSTANTS
    Peers = {p1, p2, p3}
    NoPeer = NoPeer
    Pickers = {g1}
    MaxConns <- MCMaxConns
    Down <- MCDown
    Backup = {p3}
    Configs <- AllConfigs
    RequestKinds <- Requests
    LimitedPeers = {}
    DownPeers = {}
    p1 = p1
    p2 = p2
    p3 = p3
    g1 = g1
INVARIANTS
    TypeOK
    PeerHeldDuringAttempt
    NothingLeaks
    RequestBodyReleased
    NonIdempotentSentOnce
    StreamNeverReplayed
    LastAttemptReturned
    NoFanOutAfterCancel
PROPERTIES
    RoundTripReturns
