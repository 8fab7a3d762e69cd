SPECIFICATION MCSpec
CONSTANTS
    InitialBuf = 2
    MaxMsg = 7
    Timed = TRUE
    MaxSend = 9
    Reader = Reader
    Others = {o1, o2}
    Nobody = Nobody
    Exited = Exited
    TimeLen = 5
    NameLen = 3
    FileLen = 3
    PageLen = 5
    CHUNK_SIZE = 2
    MaxAddrs = 3
    Numbers = {0, 1, 80, 65535, 65536, 65616, 150000, 300000}
    IntMax = 100000
    LongMax = 200000
INVARIANTS
    WholeMessage
    TimeIsWhole
    DownloadIsWhole
    PortAsWritten
    OneSocket
    SocketOrNone
PROPERTIES
    Ends
    EveryoneServed
    PageEnds
CHECK_DEADLOCK FALSE
