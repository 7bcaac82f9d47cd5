SPECIFICATION MCSpec
CONSTANTS
    Requests = {r1, r2}
    Clients = {c1}
    Task = task
    None = none
    NoLimit = NoLimit
    MaxAsks = 2
INVARIANTS
    WebInv
    AuthorizationsHold
    OneRun
    CancelReported
PROPERTIES
    RunsEnd
    RunEnds
CHECK_DEADLOCK FALSE
