SPECIFICATION FairSpec
CONSTANTS
    Clients = {c1, c2}
    MaxLines = 3
    NulNames = {c2}
    BufLen = 1
INVARIANTS
    TypeOK
    NameInLine
    HeardInOrder
PROPERTIES
    HeldByClient
    SocketRead
    LinesGoOut
CHECK_DEADLOCK FALSE
