SPECIFICATION FairSpec
CONSTANTS
    A = A  B = B  C = C  x = x  y = y  z = z
    Ids = {A, B, C}
    Other = Other
    NoId = NoId
    Objects = {x, y}
    Claims = {}
    Excluded = {}
    TTLJobs = {y}
    Registrations = {x}
    Specs <- IdentitySpecs
    NoDigest = NoDigest
    CacheMayLag = FALSE
    MaxEdits = 2
    MaxMoves = 1
    MaxFaults = 1
INVARIANTS InstanceInv IdentityCoverage
PROPERTIES NothingAbandoned Converges
