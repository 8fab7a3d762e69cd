SPECIFICATION FairSpec
CONSTANTS
    SockBuf = 1
    LineLen = 1
    MaxMsg = 3
    Faults = {"fork", "malloc", "break"}
INVARIANTS
    NoOrphan
    EndIsReal
PROPERTIES
    DisconnectSeen
    SendReturns
CHECK_DEADLOCK FALSE
