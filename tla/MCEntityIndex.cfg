SPECIFICATION Spec
CONSTANTS
    MaxId = 3
    MaxGen = 1
    MaxBulk = 2
    RangeDiscipline = TRUE
INVARIANTS RecycledOnce RecycledInRange FreshIdUnused NoResurrection SearchFindsRange
PROPERTIES ImplementsHandles
