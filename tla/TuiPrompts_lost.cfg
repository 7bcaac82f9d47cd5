SPECIFICATION Spec
CONSTANTS
    Prompts = {p1, p2}
    None = none
    MaxTasks = 3
    MaxRuns = 3
    MaxCompactions = 0
    MaxSwitches = 0
    MaxTerminal = 0
INVARIANT
    NoPromptLost
CHECK_DEADLOCK FALSE
