SPECIFICATION Spec
CONSTANTS
    StageCount = 1
    Indices = {1, 2}
    Components = {"C"}
    Trivial = {"C"}
    DeletePairs = {"ChildOf"}
    RemovePairs = {"Likes"}
    Calls <- CleanupCalls
    SuspendedCalls <- CleanupSuspended
    Observers = {}
    MaxCalls = 3
    MaxDefer = 2
    MaxGen = 1
INVARIANTS
    FlushedAsCalled
    ChainsComplete
    NoCommandOnDead
