SPECIFICATION MCSpec
CONSTANTS
    Systems <- ThreeSystems
    Descriptors <- MCDescriptors
    IsWildcard <- MCIsWildcard
    IdMatch <- MCIdMatch
    Components <- Pairs
    Wildcard = "*"
    MaxChanges = 2
    Changing <- ChangingDescriptors
    AllMayLeave = FALSE
INVARIANTS OpsCutSchedule MergeBeforeUse NoSystemSkipped
PROPERTIES RunsInOrder FrameEnds
