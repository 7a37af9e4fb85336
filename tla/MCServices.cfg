SPECIFICATION Spec
CONSTANTS
    u1 = u1
    l1 = l1
    n1 = n1
    n2 = n2
    g1 = g1
    g2 = g2
    p1 = p1
    p2 = p2
    p3 = p3
    o1 = o1
    o2 = o2
    e1 = e1
    e2 = e2
    v1 = v1
    v2 = v2
    d1 = d1
    None = None
    Old = Old
    Paths = {"watched", "other"}
    DefaultPath = "other"
    EditedPaths = {"watched"}
    EmptyPaths = {"watched"}
    MaxWatches = 2
    MaxEdits = 1
    MaxSaves = 1
    MaxEvents = 1
    Updaters = {u1}
    Listeners = {l1}
    MaxReloaders = 2
    Names = {n1, n2}
    Getters = {g1, g2}
    MaxCached = 1
    MaxVersion = 1
    MaxRemovals = 1
    NoName = NoName
    Providers = {p1, p2, p3}
    MaxStarts = 2
    Orgs = {o1, o2}
    Evaluators = {e1, e2}
    MaxPolicies = 2
    NoOrg = NoOrg
    NoPolicy = NoPolicy
    NoResult = NoResult
    Savers = {v1, v2}
    Loaders = {d1}
    Earlier = Earlier
    FileCount = 2
    NoSnapshot = NoSnapshot
INVARIANTS
    TypeOK
    WatchersAreClosedOnce
    CacheIsBoundedAndCurrent
    SuccessIsComplete
    DroppedResultsStayAway
    SnapshotsAreSafe
PROPERTIES
    EditsAreLoaded
    BackgroundWorkEnds
CHECK_DEADLOCK FALSE
