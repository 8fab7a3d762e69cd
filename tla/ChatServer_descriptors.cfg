SPECIFICATION Spec
CONSTANTS
    a = a
    b = b
    d = d
    NoConn = NoConn
    Listener = 3
    Conns = {a, b, d}
    Members = {a, b}
    Leavers = {a, b, d}
    FdSetSize = 6
    OpenMax = 7
    AuthLen = 2
    MaxMsg = 4
    SendBuf = 1
    MaxUnits <- TwoTalkers
    AllocFails = TRUE
SYMMETRY Same
INVARIANTS
    TypeOK
    DescriptorsAgree
    Authenticated
    TokenKept
CHECK_DEADLOCK FALSE
