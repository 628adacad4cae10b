SPECIFICATION MCSpec
CONSTANTS
    JitterSize = 3
    SeqModulus = 52
    MaxNetTrouble = 2
    MaxDelay = 3
    Transports = {"rtp", "audiosocket", "earshot"}
    QueueCap = 1
    MaxFrames = 2
    SttUsers = {"feed"}
    MaxSttConns = 5
    MaxSttFaults = 2
    Preroll = 2
    Hangover = 1
    Keepalive = 3
    MaxGateFrames = 8
    Retries = 2
    MaxLines = 2
    MeantCalls = 3
    Pieces = 3
    RuneThreshold = 4
    MaxRunes = 10
    MaxOdd = 2
    LastNode = 2
    QaNodes = 2
    MaxRecordFaults = 1
INVARIANTS
    FramesInOrder
    GateFeeds
    CallsKeepTheirArguments
    ChunksAreTheText
    RecordIsComplete
PROPERTIES
    PacketsInTurn
    CallerIsHeard
    MediaEnds
    StreamKept
    ReplySettles
    CallLeavesRunning
CHECK_DEADLOCK FALSE
