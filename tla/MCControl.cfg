SPECIFICATION Spec
CONSTANTS
    MaxAddresses = 2
    PsnAddresses = 1
    MaxRestarts = 1
    MaxBuffered = 1
    MaxMessages = 1
    PsnMessages = 0
    LanKinds = {"sessionId", "switch"}
    PsnKinds = {"pinRequest", "pinIncorrect", "sessionId", "switch"}
    CtrlKinds = {"pinRequest", "pinIncorrect", "loginOk", "sessionId", "switch", "other", "oversized"}
    CtrlMessages = 2
    Rapid = FALSE
    Offers = 3
    Flaws = {}
    Consoles = {1, 2}
    Stored = {1}
    Threads = {1, 2}
    MaxEntries = 1
    MaxKeys = 1
INVARIANTS TypeOK QuitIsTruthful StreamWhenReady SilentEndOnlyAfterClose 
           PunchIsSound RegistrationSound
PROPERTIES StopsEnd 
CHECK_DEADLOCK FALSE
