SPECIFICATION Spec
CONSTANTS
    StageCount = 1
    Indices = {1, 2}
    Components = {"C"}
    Trivial = {}
    DeletePairs = {"ChildOf"}
    RemovePairs = {}
    Calls <- DeadParentCalls
    SuspendedCalls = {}
    Observers = {}
    MaxCalls = 3
    MaxDefer = 1
    MaxGen = 1
INVARIANT
    NoCommandOnDead
