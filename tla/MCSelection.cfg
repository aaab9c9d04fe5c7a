SPECIFICATION SelectionSpec
CONSTANTS
    MaxPeers = 5
    MaxWeight = 3
    Addrs = {a, b, c}
    Hashes = {0, 1, 2, 3}
    Replicas = 1
    MaxRingWeight = 2
    MaxRingPeers = 3
    a = a
    b = b
    c = c
SYMMETRY Symmetry
INVARIANTS
    DrawsByWeight
    RingAsDescribed
PROPERTIES
    SearchHalves
    OnlyItsKeysMove
