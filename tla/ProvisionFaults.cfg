SPECIFICATION Spec
CONSTANTS
    Claims = {c1}
    SupportsTopology = TRUE
    DefaultName = FALSE
    Env = {"touch", "nodegone", "config", "crash"}
    MaxWatch = 2
INVARIANTS TypeOK InProgressIsQueued PVBacked
CHECK_DEADLOCK FALSE
