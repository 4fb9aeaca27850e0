SPECIFICATION Spec
CONSTANTS
    MaxStages = 4
    MaxOps = 2
INVARIANTS WorkersRunInsideOp EveryStageRanOnce NothingUsesFreedSync
PROPERTIES MainReturns ImplementsForkJoin
