SPECIFICATION MCSpec
CONSTANTS
    None = none
    Sessions = {"a", "b", "c"}
    Projects = {"p", "q"}
    Home <- SessionHomes
    MaxClock = 2
    MaxVersions = 3
    MaxDeaths = 1
    ExtensionNames = {n1, n2}
SYMMETRY Symmetry
INVARIANTS
    ResourcesExact
    ToolsExact
PROPERTIES
    IndexConsistent
    ImplementsCatalog
    ExtensionsContained
    StartInforms
CHECK_DEADLOCK FALSE
