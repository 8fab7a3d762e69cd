SPECIFICATION FairSpec
CONSTANTS
    SockBuf = 1
    LineLen = 1
    MaxMsg = 3
    Faults = {}
PROPERTIES
    SendPartEnds
CHECK_DEADLOCK FALSE
