CONSTANTS
    QueueMode = "one_at_a_time"
    MaxTurns = NoLimit
    NoLimit = NoLimit
    CallIds = "positional"
    MaxBatch = 1
    MaxCalls = 0
    MaxUsers = 2
    MaxRuns = 2

SPECIFICATION Spec

INVARIANT ContextAnswered

CHECK_DEADLOCK FALSE
