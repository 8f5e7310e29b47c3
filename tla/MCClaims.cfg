SPECIFICATION Spec
CONSTANTS
    Claims = {1, 2}
    k1 = k1  k2 = k2  k3 = k3
    Contracts = {k1, k2, k3}
    Specs <- RivalSpecs
    Incompatible = {}
    Removable = {}
    Subscriptions <- Subscribed
    Instances = {}
    Demands = {}
    Providers <- Rendered
    CacheMayLag = FALSE
    None = None
    MaxCreates = 2
    MaxEdits = 1
    MaxMoves = 1
    MaxFaults = 0
CHECK_DEADLOCK FALSE
INVARIANTS ClaimInv
