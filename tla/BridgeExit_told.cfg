\* Up to two lines, a pet, an agent that works; stdin may end, stdout break.
SPECIFICATION FairSpec
CONSTANTS
    MaxLines = 2
    MaxEvents = 3
    Faults = {"bad", "broken", "spawn"}
INVARIANTS
    TypeOK
    StopsForAReason
    LastWordsAreWritten
    NoOrphanPet
PROPERTIES
    ExitsWhenTold
\* A runner that has exited is at rest.
CHECK_DEADLOCK FALSE
