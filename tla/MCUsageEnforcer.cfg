CONSTANTS
    main = main
    node = node
    Nodes = {main, node}
    Primary = main
    Quota <- MCQuota
    Burst = 3
    Corrections = {2}
    None = None
    MaxRenewals = 1
    MaxUse = 2
    MaxResets = 1
    MaxRemovals = 1
    MaxRefreshes = 1
    MaxCrashes = 1
SPECIFICATION Spec
CONSTRAINT Bound
INVARIANTS
    TypeOK
    ChargedIsUsed
    DisabledForCause
    EndedIsWatched
CHECK_DEADLOCK FALSE
