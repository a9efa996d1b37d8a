SPECIFICATION FairSpec
CONSTANTS
    Coroutine = {c1, c2}
    Primo = primo
    Daemon = daemon
    None = none
    HeapMax = 3
    MaxFree = 0
    IdleTimeout = 1
    PollCap = 2
    IntMax = 5
    Timeout = {1}
    MaxClock = 1
    Calls = {"create", "sleep", "nwait", "notify", "io", "finish"}
PROPERTIES
    ReadyRuns
    TimedWaitsEnd
