SPECIFICATION Spec
CONSTANTS
    User = {u1, u2, u3}
    Conn = {c1, c2}
    Fd = {f1, f2, f3}
    Addr = {zero, a1}
    None = none
    Asked = {"tcp", "tcp_keeplive", "udp_session"}
    Served = {"tcp", "tcp_keeplive"}
    Sources = {none}
    Unset = {zero, a1}
    MaxFree = 1
    MaxEntries = 2
SYMMETRY Symmetry
INVARIANTS
    OneUser
    SocketsOwned
CHECK_DEADLOCK FALSE
