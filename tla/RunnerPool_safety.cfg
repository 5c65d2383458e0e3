\* Two callers race over two sessions, cap 1; anything may fail.
SPECIFICATION Spec
CONSTANTS
    Session = {s1, s2}
    NoSession = NoSession
    Active = {NoSession, s1, s2}
    Caller = {c1, c2}
    MaxProc = 2
    Cap = 1
    Faults = {"fork", "crash", "hang"}
    Ops = {"spawn", "shutdown", "shutdown_all", "send_command"}
SYMMETRY PoolSymmetry
INVARIANTS
    TypeOK
    OwnedOnce
    LruNoDup
    DeliberateCloseIsClean
    NoStaleProtection
PROPERTIES
    StoppedIsDead
\* A Core nobody calls, with every bounded process used up, is at rest.
CHECK_DEADLOCK FALSE
