SPECIFICATION MCSpec
CONSTANTS
    Items = {i1, i2}
    Questions = {q1, q2}
    None = none
    BundleBytes = 2
    Attempts = 2
    ReadBytes = 2
    MaxRuns = 2
    MaxSearches = 2
    MaxBundles = 3
    MaxPlans = 2
    Apis = {"chat", "responses", "anthropic", "google", "mistral", "codex"}
SYMMETRY Symmetry
INVARIANTS
    AnswersFaithful
    SagBounded
PROPERTIES
    CredentialsKept
    SettingsConsistent
    PlansEarned
    QueriesContained
CHECK_DEADLOCK FALSE
