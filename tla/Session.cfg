SPECIFICATION MCSpec
CONSTANTS
    TaskCancel = FALSE
    PartialCalls = TRUE
    MaxBatch = 1
    MaxReplies = 2
    MaxUsers = 2
    MaxCommands = 0
    MaxMetas = 0
    MaxRewrites = 1
    MaxCrashes = 1
INVARIANTS
    Types
    SavesKeepUp
    SavedInOrder
PROPERTIES
    LoadAnswers
    RewritesKeepPairs
    SavesTranscript
    BudgetSound
CHECK_DEADLOCK FALSE
