SPECIFICATION FairSpec
CONSTANTS
    v1 = v1  v2 = v2
    Inputs = {v1, v2}
    Skews = {"Warn", "Refuse"}
    Specs <- MCSpecs
    None = None  Mixed = Mixed  Theirs = Theirs
    MaxEdits = 2
    MaxFaults = 1
INVARIANTS RecordInv GoneClean
PROPERTIES SkipHidesNothing RendersCurrent DeletionProceeds
CHECK_DEADLOCK FALSE
