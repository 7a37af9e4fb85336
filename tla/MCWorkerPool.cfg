CONSTANTS
    w1 = w1
    w2 = w2
    j1 = j1
    j2 = j2
    j3 = j3
    s1 = s1
    s2 = s2
    None = None
    Workers <- MCWorkers
    Jobs <- MCJobs
    Stoppers <- MCStoppers
    TimedStoppers <- MCTimed
    BufferSize = 1
    MaxStarts = 2
SPECIFICATION Spec
INVARIANTS
    TypeOK
    StopIsClean
    EachJobInOnePlace
    CancellationIsSharp
PROPERTIES
    StopReturns
    AcceptedIsAnswered
    ImplementsJobService
