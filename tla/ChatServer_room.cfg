SPECIFICATION FairSpec
CONSTANTS
    a = a
    b = b
    d = d
    NoConn = NoConn
    Listener = 3
    Conns = {a, b, d}
    Members = {a, b, d}
    Leavers = {b}
    FdSetSize = 7
    OpenMax = 7
    AuthLen = 1
    MaxMsg = 3
    SendBuf = 1
    MaxUnits <- ShortAuth
    AllocFails = FALSE
INVARIANTS
    EachUnitOnce
    StreamWhole
    CaughtUp
PROPERTIES
    ImplementsRoom
    ServerReturns
    NoStarvation
CHECK_DEADLOCK FALSE
