SPECIFICATION FairSpec
CONSTANTS
    A = A  B = B  x = x  y = y
    Ids = {A, B}
    Other = Other
    NoId = NoId
    Entries = {x, y}
    Claims = {y}
    Excluded = {}
    Uuid = A
    Previous = B
    Policies <- AllPolicies
    IsInstance = TRUE
    MaxEdits = 1
    MaxMoves = 1
    MaxFaults = 1
CHECK_DEADLOCK FALSE
INVARIANTS CleanupInv
PROPERTIES ReleasedWhenGone ReleasedUncheckedWhenSent RecordKept DeletesOnlyPlanned DeletionEnds
