SPECIFICATION Spec
CONSTANTS
    Modes = {"stream"}
    EarlyModes = {"stream"}
    HTTP2Modes = {}
    BodyLength = 3
    MaxAttempts = 3
INVARIANTS
    UploadNotCutShort
