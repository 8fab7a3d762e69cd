SPECIFICATION Spec
CONSTANTS
    a = a
    b = b
    d = d
    NoConn = NoConn
    Listener = 3
    Conns = {a, b}
    Members = {a, b}
    Leavers = {}
    FdSetSize = 7
    OpenMax = 7
    AuthLen = 3
    MaxMsg = 5
    SendBuf = 2
    MaxUnits <- TwoConns
    AllocFails = FALSE
INVARIANTS
    ValidTokenAccepted
CHECK_DEADLOCK FALSE
