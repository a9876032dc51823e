SPECIFICATION LifecycleFairSpec
CONSTANTS
    Claims = {c1}
    SupportsTopology = FALSE
    DefaultName = TRUE
    Env = {"crash"}
    MaxWatch = 2
INVARIANTS LifecycleTypeOK LivingClaimKeepsVolume
PROPERTY EventuallyCleaned
CHECK_DEADLOCK FALSE
