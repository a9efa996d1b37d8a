SPECIFICATION Spec
CONSTANTS
    Client = {c1, c2}
    Obj = {o1, o2}
    Buf = {b1, b2, b3, b4}
    None = none
    NL = nl
    Size = 3
    MaxFree = 2
    MaxIdle = 1
    Lengths = {0, 1, 3}
    MaxConn = 2
INVARIANTS
    BuffersOwned
    OwnLine
    NothingOwed
PROPERTY
    LinesEnd
CHECK_DEADLOCK FALSE
