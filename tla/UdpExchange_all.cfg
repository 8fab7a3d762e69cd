SPECIFICATION FairSpec
CONSTANTS
    Clients = {c1, c2}
    Server = Server
    Stranger = Stranger
    MaxRequests = 2
    QueueLen = 2
    MaxFaults = 1
INVARIANTS
    TypeOK
    OnlyServer
    InStep
PROPERTIES
    Answered
CHECK_DEADLOCK FALSE
