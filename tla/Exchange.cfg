SPECIFICATION Spec
CONSTANTS
    Program = {"echo", "dns", "redis", "http", "keep", "scan", "proxy"}
    Worker = {w1, w2}
    Probe = probe
    Backend = {0, 1}
    Slot = {0}
    Count = 2
    Ports = 3
    Pieces = 2
    Timeout = 2
    Default = 3
    Slack = 3
    Health = 7
    MaxTime = 9
SYMMETRY Workers
INVARIANTS OwnReply Held 
CHECK_DEADLOCK FALSE
