SPECIFICATION Spec
CONSTANTS
    NPeers = 2
    Server <- PoolOnePrimary
    DefaultFailTimeout = 2
    Pickers = {g1, g2, g3}
    StartTime = 6
    MaxTime = 8
    MaxRequests = 4
    g1 = g1
    g2 = g2
    g3 = g3
SYMMETRY Symmetry
INVARIANTS
    TypeOK
    OneProbePerWindow
    NoOrphanQuarantine
PROPERTIES
    QuarantineHonoured
    ProbeSuccessHeals
