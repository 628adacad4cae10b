SPECIFICATION MCSpec
CONSTANTS
    None = 0
    a = a
    Ids = {a}
    Conns = {1, 2}
    MaxDuration = TRUE
    MaxTrouble = 1
    AllowShutdown = TRUE
    SlowDrain = FALSE
    Senders = {1, 2}
    MaxEvents = 2
    NoSender = 0
INVARIANTS
    OwnReply
PROPERTIES
    ImplementsCallLife
    CallersNotLeft
    ShutdownIsFinal
    EventsArrive
    LossIsNoticed
    NobodyLeftAlone
CHECK_DEADLOCK FALSE
