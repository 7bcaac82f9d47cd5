SPECIFICATION Spec
CONSTANTS
    TaskCancel = FALSE
    PartialCalls = FALSE
    MaxBatch = 1
    MaxReplies = 1
    MaxUsers = 1
    MaxCommands = 0
    MaxMetas = 1
    MaxRewrites = 0
    MaxCrashes = 1
PROPERTIES
    LoadRestores
CHECK_DEADLOCK FALSE
