SPECIFICATION Spec
CONSTANTS
    Entities <- MCEntities
    OnDeleteDelete = {4}
    OnDeletePanic = {}
    OnDeleteRemove = {}
    TargetDelete <- MCTargetDelete
    TargetPanic <- MCTargetPanic
    Prefab <- MCPrefab
    AddIds <- MCAddIds
    Deletable <- MCDeletable
    BulkIds <- MCBulkIds
    ObserverAdds <- MCObserverAdds
    DyingTargets = FALSE
    Holders = {4, 5, 6}
    MaxIds = 2
    MaxAdds = 1
    MaxOps = 1
CHECK_DEADLOCK FALSE
INVARIANTS NoDangling MarksCleared ChildrenFirst
PROPERTY ImplementsTraits
