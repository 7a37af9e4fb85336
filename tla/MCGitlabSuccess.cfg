SPECIFICATION Spec
CONSTANTS
    a = a
    b = b
    c = c
    path = path
    pathSlash = pathSlash
    Repos = {a, b}
    Targets = {path}
    Providers = {"gitlab"}
    InitialOrg = {a, b}
    Strategy = "reset"
    LaneWorkers = 1
    MaxRuns = 2
INVARIANTS
    SuccessMeansDone
