SPECIFICATION Spec
CONSTANTS
    Client = client
    Server = server
    Wants = {0, 2}
    Cap = 1
    Timeout = {1}
    IntMax = 9
    Slack = 1
    Refusals = {TRUE, FALSE}
    MaxClock = 4
    MaxCalls = 2
CHECK_DEADLOCK FALSE
INVARIANTS
    SendsAll
    ZeroIsEnd
    NoEarlyTimeout
    CallBounded
