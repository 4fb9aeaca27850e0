SPECIFICATION Spec
CONSTANTS
    StageCount = 1
    Indices = {1, 2}
    Components = {"C", "D"}
    Trivial = {"D"}
    DeletePairs = {}
    RemovePairs = {}
    Calls <- ValueCalls
    SuspendedCalls = {}
    Observers <- ValueObservers
    MaxCalls = 3
    MaxDefer = 1
    MaxGen = 1
INVARIANTS
    FlushedAsCalled
    ObserverSeesSetValue
