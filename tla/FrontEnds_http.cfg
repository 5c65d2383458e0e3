CONSTANTS
    MaxTasks = 2
    MaxNext = 1
    MaxMessages = 1
    MaxHandlers = 2
    Prompts = {p1, p2}
    Chats = {x, y}
    Requests = {r1, r2}
    Ticks = 2
    MaxFed = 6
    MaxChunk = 3
    MaxWords = 2
    MaxEnds = 2
    Fronts = {"conductor", "web"}
SPECIFICATION Spec
INVARIANTS SilentOnlyIfCancelled
PROPERTIES CardSettles EventsReachConductor TurnSettles
CHECK_DEADLOCK FALSE
