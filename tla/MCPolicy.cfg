SPECIFICATION Spec
CONSTANTS
    A = A  B = B  C = C  x = x  y = y  z = z
    Ids = {A}
    Other = Other
    NoId = NoId
    Objects = {x, y}
    Claims = {y}
    Excluded = {}
    TTLJobs = {}
    Registrations = {}
    Specs <- PolicySpecs
    NoDigest = NoDigest
    CacheMayLag = TRUE
    MaxEdits = 1
    MaxMoves = 2
    MaxFaults = 1
PROPERTIES ClaimsSurvive DeletesWhatItJudged TakesInWhatItJudged
