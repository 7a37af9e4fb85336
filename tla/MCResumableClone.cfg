SPECIFICATION Spec
CONSTANTS
    a = a
    b = b
    c = c
    path = path
    pathSlash = pathSlash
    Repos = {a, b}
    Targets = {path, pathSlash}
    Providers = {"github", "gitlab"}
    InitialOrg = {}
    Strategy = "reset"
    LaneWorkers = 1
    MaxRuns = 3
INVARIANTS
    TypeOK
    RecordIsConsistent
    CompletedIsOnDisk
    OutcomeIsTruthful
    FinishedIsNotRedone
    FileLagsBehindMemory
PROPERTIES
    UnfinishedRecordIsKept
SYMMETRY Symmetry
