SPECIFICATION FairSpec
CONSTANTS
    a = a
    b = b
    d1 = d1
    dx = dx
    p1 = p1
    p2 = p2
    None = None
    Mixed = Mixed
    Packages = {a, b}
    Artifacts <- MCArtifacts
    Specs <- MCSpecs
    Broken = {dx}
    Platforms = {p1, p2}
    Workloads = {a}
    Workers = 1
    BackoffBaseDelay = 1
    BackoffMaxDelay = 2
    StalledRecheckInterval = 4
    DefaultModulePackageInterval = 3
    healthRequeueFloor = 1
    healthRequeueCeiling = 2
    Ages = {4}
    MaxCount = 1
    MaxTroubles = 2
    Worlds <- MCWorlds
INVARIANTS PackageInv ReadyMeansApplied RetryAnnounced HealthyAfterApply
PROPERTIES DependencyFirst FollowsSource HealthFollows DeletionProceeds
CHECK_DEADLOCK FALSE
