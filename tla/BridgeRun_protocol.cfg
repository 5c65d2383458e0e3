\* A frontend that starts nothing while it shows a run; no aborts, no faults.
SPECIFICATION AttendedSpec
CONSTANTS
    Tool = {t1}
    Plain = plain
    MaxTurns = 2
    MaxCalls = 2
    MaxTasks = 2
    MaxAsk = 2
    Ops = {"llm", "rules", "yolo"}
    Faults = {}
INVARIANTS
    ToolIsShown
PROPERTIES
    FollowsProtocol
