SPECIFICATION LifecycleSpec
CONSTANTS
    Claims = {c1}
    SupportsTopology = FALSE
    DefaultName = TRUE
    Env = {}
    MaxWatch = 2
INVARIANT FinalizedHasNoVolume
CHECK_DEADLOCK FALSE
