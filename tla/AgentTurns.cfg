SPECIFICATION MCSpec
CONSTANTS
    BargeIn = TRUE
    AckFilter = TRUE
    MinSpeech = TRUE
    STTFlush = TRUE
    Greeting = FALSE
    Tools = {"end_call"}
    MaxFailedTurns = 0
    MaxToolRounds = 2
    IdleTimeout = TRUE
    MaxDuration = TRUE
    Preempt = {}
    Stalls = FALSE
    MaxSentences = 2
    MaxAsks = 2
    MaxDetects = 2
    MaxFaults = 0
INVARIANTS
    CutStaysCut
    OneTurnAtATime
    HistoryIsWhatWasHeard
    SilenceClockRuns
    EndingHangsUp
ACTION_CONSTRAINT Scenarios
CHECK_DEADLOCK FALSE
