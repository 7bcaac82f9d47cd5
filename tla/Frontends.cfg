SPECIFICATION MCSpec
CONSTANTS
    Clients = {c1, c2}
    Limit = 2
    Keep = 2
    CompactAt = 3
    QueueItems = 3
    Snapshots = 0
    MaxEvents = 5
    MaxStarts = 2
    MaxFaults = 2
    Prompts = {p1, p2}
    Calls = {t1, t2}
    None = none
    Sessions = {"s"}
    Requests = {"r1", "r2"}
    Models = {"m", "n"}
    Levels = {"low", "high"}
SYMMETRY Symmetry
INVARIANTS
    TraceFaithful
    PromptsFaithful
    WidgetsContained
    HostConsistent
    LoginsExact
PROPERTIES
    ScreenFaithful
    PickersExact
CHECK_DEADLOCK FALSE
