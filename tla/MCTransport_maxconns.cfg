SPECIFICATION Spec
CONSTANTS
    Peers = {p1, p2}
    NoPeer = NoPeer
    Pickers = {g1, g2}
    MaxConns <- MCMaxConns
    Down <- MCDown
    Backup = {p2}
    Configs <- SharedConfigs
    RequestKinds <- FewRequests
    LimitedPeers = {p1}
    DownPeers = {}
    p1 = p1
    p2 = p2
    g1 = g1
    g2 = g2
INVARIANTS
    MaxConnsBoundsConnections
