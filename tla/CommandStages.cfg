SPECIFICATION Spec
CONSTANTS
    StageCount = 2
    Indices = {1, 2}
    Components = {"C", "D"}
    Trivial = {}
    DeletePairs = {}
    RemovePairs = {}
    Calls <- StageCalls
    SuspendedCalls = {}
    Observers <- StageObservers
    MaxCalls = 3
    MaxDefer = 0
    MaxGen = 1
INVARIANTS
    FlushedAsCalled
    QueuesDrained
PROPERTY
    FlushEnds
