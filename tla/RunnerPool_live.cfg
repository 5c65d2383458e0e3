\* Two callers spawn and watch; children may hang.
SPECIFICATION FairSpec
CONSTANTS
    Session = {s1, s2}
    NoSession = NoSession
    Active = {NoSession}
    Caller = {c1, c2}
    MaxProc = 2
    Cap = 1
    Faults = {"hang"}
    Ops = {"spawn", "subscribe"}
PROPERTIES
    CallsReturn
\* A Core nobody calls, with every bounded process used up, is at rest.
CHECK_DEADLOCK FALSE
