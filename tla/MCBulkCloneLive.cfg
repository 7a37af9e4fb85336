SPECIFICATION Spec
CONSTANTS
    a = a
    b = b
    c = c
    d = d
    s1 = s1
    s2 = s2
    Jobs = {a, b, d}
    Stoppers = {s1, s2}
    Clients = {"process", "organizations", "optimized", "tests"}
    LaneCount = 2
    LaneOf <- LaneOfJob
    LaneWorkers = 1
    Capacity = 1
    RetryAttempts = 0
    BatchCount = 2
    BatchOf <- BatchOfJob
PROPERTIES
    StopReturns
    AcceptedIsAnswered
    CallersReturn
