SPECIFICATION FairSpec
CONSTANTS
    None = None
    a = a
    b = b
    e = e
    d = d
    x = x
    y = y
    z = z
    Inbound = {a}
    Dialed = {d}
    ExtIds = {x, y, z}
    Ports = {1}
    AudioSocket = TRUE
    Limited = {}
    MaxFaults = 1
    MaxDrops = 0
    AllowShutdown = FALSE
PROPERTIES
    ImplementsCallLife
    CallsSettle
CHECK_DEADLOCK FALSE
