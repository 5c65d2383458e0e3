\* Messages pile up, runs are aborted, approvals time out, every fault strikes.
SPECIFICATION FairSpec
CONSTANTS
    Tool = {t1}
    Plain = plain
    MaxTurns = 2
    MaxCalls = 1
    MaxTasks = 2
    MaxAsk = 2
    Ops = {"pipeline", "abort", "rules"}
    Faults = {"timeout", "late", "slash", "raise", "limit", "die", "hook"}
INVARIANTS
    TypeOK
    OnlyApprovedRuns
    WaitIsAnswerable
PROPERTIES
    MessagesAreTaken
