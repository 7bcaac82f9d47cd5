SPECIFICATION Spec
CONSTANTS
    TaskCancel = TRUE
    PartialCalls = FALSE
    MaxBatch = 1
    MaxReplies = 1
    MaxUsers = 1
    MaxCommands = 0
    MaxMetas = 0
    MaxRewrites = 0
    MaxCrashes = 0
INVARIANTS
    CancellationPreserves
CHECK_DEADLOCK FALSE
