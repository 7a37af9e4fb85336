SPECIFICATION Spec
CONSTANTS
    s1 = s1
    s2 = s2
    sw1 = sw1
    sw2 = sw2
    k1 = k1
    k2 = k2
    c1 = c1
    c2 = c2
    i1 = i1
    i2 = i2
    i3 = i3
    main = main
    dev = dev
    a1 = a1
    a2 = a2
    b1 = b1
    b2 = b2
    b3 = b3
    b4 = b4
    NoRepo = NoRepo
    SyncRepos = {s1, s2}
    SyncWorkers = {sw1, sw2}
    SyncOptionSets <- CommandLines
    CloneRepos = {k1, k2}
    Parallel = 1
    MaxTries = 2
    Callers = {c1, c2}
    Quota = 2
    MaxApiRetries = 1
    Items = {i1, i2, i3}
    Slots = 2
    MaxAttempts = 2
    NoList = NoList
    Total = 5
    PageSize = 2
    BufferSize = 2
    Branches = {main, dev}
    NoBranch = NoBranch
    RepoStates <- Repositories
    Targets <- Configurations
    Updaters = {a1, a2}
    Installed = Installed
    NoFile = NoFile
    Managers = {b1, b2, b3, b4}
    Graphs <- Dependencies
PROPERTY
    UnforcedKeepsCommits
