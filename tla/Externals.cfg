SPECIFICATION Spec
CONSTANTS
    Callers = {1, 2}
    Tabs = {t1, t2}
    Timeout = 1
    MaxEvents = 4
    ImRequests = {1, 2, 3}
    Overlapping = {2}
    MaxChildren = 2
CHECK_DEADLOCK FALSE
INVARIANTS TypeOK TabsAreReachable ReportNamesTheTab OneChild
PROPERTIES ScriptsReturn
