SPECIFICATION FairSpec
CONSTANTS
    Claims = {1}
    k1 = k1  k2 = k2  k3 = k3
    Contracts = {k1, k2}
    Specs <- UpgradeSpecs
    Incompatible = {}
    Removable <- UpgradeSpecs
    Subscriptions = {}
    Instances = {i}
    Demands <- SomeDemands
    Providers <- Rendered
    CacheMayLag = TRUE
    None = None
    MaxCreates = 1
    MaxEdits = 0
    MaxMoves = 1
    MaxFaults = 1
CHECK_DEADLOCK FALSE
PROPERTY GoneUnaccepts
