CONSTANTS
    QueueMode = "all"
    MaxTurns = 2
    NoLimit = NoLimit
    CallIds = "fresh"
    MaxBatch = 2
    MaxCalls = 2
    MaxUsers = 2
    MaxRuns = 2

SPECIFICATION MCSpec

INVARIANTS
    ContextAnswered
    ContextAnsweredOnce
    RunRecord
    HarnessInv
    QueueOrder
    NothingVanishes

PROPERTIES
    CancelledRunRepaired

CHECK_DEADLOCK FALSE
