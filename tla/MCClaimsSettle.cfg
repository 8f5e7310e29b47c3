SPECIFICATION FairSpec
CONSTANTS
    Claims = {1}
    k1 = k1  k2 = k2  k3 = k3
    Contracts = {k1, k2}
    Specs <- UpgradeSpecs
    Incompatible = {}
    Removable <- Lost
    Subscriptions = {}
    Instances = {i}
    Demands <- SomeDemands
    Providers <- Installing
    CacheMayLag = TRUE
    None = None
    MaxCreates = 2
    MaxEdits = 1
    MaxMoves = 1
    MaxFaults = 1
CHECK_DEADLOCK FALSE
PROPERTIES Settles Activates DeletionCompletes
