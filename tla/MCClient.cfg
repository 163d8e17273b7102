SPECIFICATION Spec
CONSTANTS
    VideoModulus = 8
    VideoSource = 2
    VideoFec = 1
    Refs = 2
    MaxDistance = 2
    ForceSpan = 2
    SkipThreshold = 2
    IdrTimeout = 1
    MaxSkipped = 3
    MaxFrames = 5
    AudioModulus = 16
    AudioSource = 1
    AudioFec = 2
    Reach = 2
    DeviceBuffers = 4
    BlockFrames = 2
    Target = 30
    Sources = {30, 45, 60}
    MaxFailures = 2
    Unrecovered = 2
    GateSpan = 1
    MaxReconnects = 2
    Cooldown = 2
    LowSpan = 2
    MaxLost = 2
    Fingers = 2
    Positions = 3
    Mapped = {1, 2, 3}
    Touches = 2
    Ids = 4
    TapMove = 1
    Pulse = 2
    ComboLoops = 2
    MaxDepth = 2
    DebugMenuEnabled = TRUE
    Rapid = FALSE
    Consoles = {1, 2, 3}
    Registered = {1, 2}
    Manual = {2}
    Devices = {1, 2}
    Home = {1, 3}
    Slots = 3
    DropPings = 1
    Grace = 2
    Roaming = FALSE
    MaxToken = 3
    Racing = FALSE
    Owned = {1, 2}
    MaxRegistered = 2
INVARIANTS TypeOK  LossesAnswered SoundInOrder PictureMoves TouchesAreTrue
             
CHECK_DEADLOCK FALSE
