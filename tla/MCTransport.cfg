SPECIFICATION Spec
CONSTANTS
    Modulus = 16
    QueueSize = 2
    MaxTicks = 2
    Slots = 1
    DrainMax = 2
    BangPos = 0
    MaxData = 3
    MaxAv = 2
    Senders = {a, b}
    Sizes = {1, 2}
    Chunk = 2
    Chunks = 2
    MaxPos = 7
    Refresh = 3
    Reordering = 3
    MaxMacPos = 40
    Buttons = {x, y}
    Sticks = {s, t}
    HistorySize = 3
    MaxChanges = 3
    StatsModulus = 10
    MaxUnits = 1
    MaxFrames = 11
    MaxGens = 1
    MaxArrivals = 2
    Spread = 2
    Stages = 2
    FinishStage = 2
    Tries = 2
    Start = 13
    SendingThreads = {c, d}
    BufferSize = 2
    ResendTriesMax = 1
    MaxMessages = 2
    SendSize = 2
    SendTries = 1
    ResendTicks = 1
    SendStart = 14
    SendThreads = 2
    MaxSends = 4
    MaxStale = 1
    MaxArranged = 5
    Min = 4
    Max = 8
    Retries = 2
    Pings = 2
    Paths = {4, 6, 7, 9}
    MaxLost = 2
    Late = 2
    Known = 2
    Strangers = 2
    Six = {1}
    Crowd = 1
    Extra = 1
    ProbeTries = 1
    Datagrams = 3
    ProbeFails = FALSE
    Ports = 20
    LowPort = 3
    Dynamic = 14
    Steps = {0, 1, 4}
    Homes = 2
    Guesses = 3
    RandomGuesses = 5
    PortsTaken = 2
INVARIANTS TypeOK TakionHandlesAll  LossReportsExact RudpKeepsPromises PathsAreTrue
PROPERTIES  WaitsEnd
CHECK_DEADLOCK FALSE
