SPECIFICATION Spec
CONSTANTS
    Reader = {"redis", "memcache", "request", "http", "wrk", "proxy", "dns", "query", "ports"}
    MaxBulk = 2
    MaxArray = 2
    MaxDepth = 1
    MaxBuffer = 24
    MaxKey = 2
    MaxPort = 3
    MaxLabel = 2
    NameSize = 10
    MaxHops = 5
    MaxPkt = 14
    MaxBody = 3
    RecvSize = 34
    OutSize = 17
    ReplySize = 16
INVARIANTS OkIsWhole Decoded
CHECK_DEADLOCK FALSE
