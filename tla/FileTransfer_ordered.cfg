SPECIFICATION FairSpec
CONSTANTS
    a = a
    b = b
    s = s
    Nobody = Nobody
    Clients = {a}
    Strangers = {s}
    Chunks = 3
    EofRepeat = 2
    MaxFile = 2
    IdleLimit = 2
    QueueLen = 2
    Copies = 0
    Secure = TRUE
    Ordered = TRUE
    Faults = {"disk", "clock", "send"}
INVARIANTS
    TypeOK
    InOrder
    CompleteUnlessLost
    CountedIsWritten
PROPERTIES
    Ends
CHECK_DEADLOCK FALSE
