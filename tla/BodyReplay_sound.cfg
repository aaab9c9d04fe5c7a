SPECIFICATION Spec
CONSTANTS
    Modes = {"GetBody", "memory", "seek", "file", "stream"}
    EarlyModes = {"GetBody", "memory"}
    HTTP2Modes = {"GetBody", "memory"}
    BodyLength = 3
    MaxAttempts = 3
INVARIANTS
    AttemptBodyIntact
    UploadNotCutShort
