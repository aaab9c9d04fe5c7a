SPECIFICATION Spec
CONSTANTS
    Modes = {"seek", "file"}
    EarlyModes = {"seek", "file"}
    HTTP2Modes = {}
    BodyLength = 3
    MaxAttempts = 3
INVARIANTS
    AttemptBodyIntact
