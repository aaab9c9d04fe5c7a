SPECIFICATION Spec
CONSTANTS
    Hosts <- HostNames
    Scheme <- Schemes
    Blocks <- UpstreamBlocks
    MaxOptions = 3
INVARIANTS
    NothingLostSilently
    RegisteredUsable
    HashFunctionUsed
    ServerNameUsed
    BrokenServesNothing
