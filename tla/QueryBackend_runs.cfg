SPECIFICATION MCSpec
CONSTANTS
    Items = {i1}
    Questions = {q1}
    None = none
    BundleBytes = 1
    Attempts = 1
    ReadBytes = 1
    MaxRuns = 1
    MaxSearches = 1
    MaxBundles = 1
    MaxPlans = 1
    Apis = {"chat"}
INVARIANTS
    DatabaseQueryRuns
CHECK_DEADLOCK FALSE
