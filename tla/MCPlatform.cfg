SPECIFICATION FairSpec
CONSTANTS
    Renders = {r1, r2}
    Specs = {s1, s2, s3}
    Coords = {c}
    Unversioned = {s3}
    Unbuildable <- Broken
    None = None
    MaxEdits = 2
    MaxRecreates = 1
    MaxFaults = 1
    s1 = s1  s2 = s2  s3 = s3  c = c
INVARIANTS StoreInv RecordSound
PROPERTIES PruneSparesLeased ReadyHoldsCurrent Converges
