SPECIFICATION Spec
CONSTANTS
    a = a
    b = b
    c = c
    path = path
    pathSlash = pathSlash
    Repos = {a, b, c}
    Targets = {path}
    Providers = {"github", "gitlab"}
    InitialOrg = {a, b, c}
    Strategy = "reset"
    LaneWorkers = 1
    MaxRuns = 1
PROPERTIES
    RunEnds
