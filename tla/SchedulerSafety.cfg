SPECIFICATION Spec
CONSTANTS
    Coroutine = {c1, c2}
    Primo = primo
    Daemon = daemon
    None = none
    HeapMax = 3
    MaxFree = 1
    IdleTimeout = 2
    PollCap = 4
    IntMax = 15
    Timeout = {1, 2}
    MaxClock = 2
    Calls = {"create", "sub", "sleep", "nwait", "notify", "io", "wait", "finish", "loop"}
SYMMETRY Symmetry
INVARIANTS
    OneQueue
    Conserved
    PoolSound
    SleepersInHeap
    NotifyNotLost
    NoEarlyTimeout
    JoinPending
PROPERTY ImplementsCoroutines
