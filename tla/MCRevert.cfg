SPECIFICATION Spec
CONSTANTS
    A = A  B = B  C = C  x = x  y = y  z = z
    Ids = {A, B, C}
    Other = Other
    NoId = NoId
    Objects = {x, y}
    Claims = {}
    Excluded = {}
    TTLJobs = {}
    Registrations = {}
    Specs <- RevertSpecs
    NoDigest = NoDigest
    CacheMayLag = FALSE
    MaxEdits = 2
    MaxMoves = 0
    MaxFaults = 1
PROPERTY NoneOfEarlierIdentityLeft
