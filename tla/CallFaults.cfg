SPECIFICATION Spec
CONSTANTS
    None = None
    a = a
    d = d
    e = e
    x = x
    y = y
    z = z
    Inbound = {a}
    Dialed = {d, e}
    ExtIds = {x, y, z}
    Ports = {1, 2}
    AudioSocket = FALSE
    Limited = {e}
    MaxFaults = 1
    MaxDrops = 1
    AllowShutdown = TRUE
INVARIANTS
    PortsExclusive
    FaultsSettle
    CallsFindable
ACTION_CONSTRAINT Scenarios
CHECK_DEADLOCK FALSE
