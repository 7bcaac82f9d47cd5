SPECIFICATION Spec
CONSTANTS
    Requests = {r1, r2}
    Clients = {c1}
    Task = task
    None = none
    MaxAsks = 1
INVARIANT
    SteerQueues
CHECK_DEADLOCK FALSE
