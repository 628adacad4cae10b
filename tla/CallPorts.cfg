SPECIFICATION Spec
CONSTANTS
    None = None
    a = a
    b = b
    e = e
    d = d
    x = x
    y = y
    z = z
    Inbound = {a, b, e}
    Dialed = {}
    ExtIds = {x, y, z}
    Ports = {1}
    AudioSocket = TRUE
    Limited = {a, b, e}
    MaxFaults = 1
    MaxDrops = 0
    AllowShutdown = FALSE
INVARIANTS
    PortsExclusive
CHECK_DEADLOCK FALSE
