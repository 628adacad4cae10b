SPECIFICATION FairSpec
CONSTANTS
    BargeIn = TRUE
    AckFilter = TRUE
    MinSpeech = TRUE
    STTFlush = FALSE
    Greeting = TRUE
    Tools = {"run", "edge", "end_call"}
    MaxFailedTurns = 1
    MaxToolRounds = 2
    IdleTimeout = FALSE
    MaxDuration = FALSE
    Preempt = {"tick", "reader"}
    Stalls = TRUE
    MaxSentences = 2
    MaxAsks = 1
    MaxDetects = 1
    MaxFaults = 1
INVARIANTS
    CutStaysCut
PROPERTIES
    ReplyEnds
CHECK_DEADLOCK FALSE
