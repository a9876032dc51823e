SPECIFICATION FairSpec
CONSTANTS
    Nodes = {n1, n2}
    none = none
    gone = gone
    ImmediateBinding = {TRUE, FALSE}
    Fits = {n1}
    Env = {"delete", "errors", "touch"}
    MaxVersions = 5
    MaxRestarts = 1
INVARIANTS OneVolume
PROPERTIES OwnerKept EventuallyProvisioned
CHECK_DEADLOCK FALSE
