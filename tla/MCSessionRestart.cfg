SPECIFICATION Spec
CONSTANTS
    Psn = FALSE
    MaxAddresses = 2
    MaxRestarts = 1
    Kinds = {"sessionId", "switch", "other", "oversized"}
    MaxBuffered = 1
    MaxMessages = 1
INVARIANTS RestartReconnects
CHECK_DEADLOCK FALSE
