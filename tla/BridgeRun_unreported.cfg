\* One message whose run uses up its turns.
SPECIFICATION FairSpec
CONSTANTS
    Tool = {t1}
    Plain = plain
    MaxTurns = 2
    MaxCalls = 1
    MaxTasks = 1
    MaxAsk = 1
    Ops = {"yolo"}
    Faults = {"limit"}
INVARIANTS
    RunIsReported
