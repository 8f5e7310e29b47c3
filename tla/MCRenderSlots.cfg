SPECIFICATION FairSpec
CONSTANTS
    Keys = {a, b}
    Goroutines = {g1, g2}
    N = 2
    Timeouts = {TRUE, FALSE}
    Hanging = {a}
    None = None
INVARIANTS PoolInv RunningTracked CallerContract
PROPERTIES RendersBounded RunReturns
