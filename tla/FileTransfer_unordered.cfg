SPECIFICATION Spec
CONSTANTS
    a = a
    b = b
    s = s
    Nobody = Nobody
    Clients = {a, b}
    Strangers = {s}
    Chunks = 1
    EofRepeat = 1
    MaxFile = 2
    IdleLimit = 1
    QueueLen = 1
    Copies = 1
    Secure = TRUE
    Ordered = FALSE
    Faults = {}
SYMMETRY Same
INVARIANTS
    OnlyClient
    NoRepeat
CHECK_DEADLOCK FALSE
