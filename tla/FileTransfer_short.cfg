SPECIFICATION Spec
CONSTANTS
    a = a
    b = b
    s = s
    Nobody = Nobody
    Clients = {a}
    Strangers = {s}
    Chunks = 2
    EofRepeat = 2
    MaxFile = 2
    IdleLimit = 2
    QueueLen = 2
    Copies = 0
    Secure = TRUE
    Ordered = TRUE
    Faults = {"disk"}
INVARIANTS
    DoneIsStored
CHECK_DEADLOCK FALSE
