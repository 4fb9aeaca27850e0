SPECIFICATION Spec
CONSTANTS
    Entities <- MCEntities
    Exclusive = {4}
    With <- MCWith
    IsA = 1
    AddIds <- MCAddIds
    Subjects = {9}
    BaseType <- MCBaseType
    DontFragment = {7}
    KnownIds <- MCKnownIds
    Recyclable = {5, 7}
    Observable <- MCObservable
    MaxOps = 5
CHECK_DEADLOCK FALSE
INVARIANT ObserversHear
