SPECIFICATION Spec
CONSTANTS
    Psn = FALSE
    MaxAddresses = 1
    MaxRestarts = 0
    Kinds = {"pinRequest", "sessionId"}
    MaxBuffered = 1
    MaxMessages = 0
PROPERTIES StopReachesQuit
CHECK_DEADLOCK FALSE
