SPECIFICATION Spec
CONSTANTS
    MaxId = 3
    MaxGen = 1
    MaxBulk = 2
    RangeDiscipline = FALSE
INVARIANTS IssuedInRange
