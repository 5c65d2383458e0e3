CONSTANTS
    N = 2
    Retries = 2
    SoloRetries = 1
    Chunks = 1
    Clients = {c1, c2}
    KeepMin = 2
    MaxChats = 3
    MaxCalls = 2
    MaxLoads = 1
SPECIFICATION Spec
INVARIANTS TypeOK SupersededIsMarked ReplyIsShown WireWellFormed NewestIsSent
CHECK_DEADLOCK FALSE
