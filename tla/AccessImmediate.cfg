SPECIFICATION Spec
CONSTANTS
    none = none
    W = 4
    Hash <- SomeHash
    Nodes = {"n1", "n2"}
    Labels <- ZonesAndRacks
    KeySets = {{1}, {1, 2}}
    Delayed = FALSE
    Strict = {FALSE}
    ImmediateTopology = {TRUE, FALSE}
    AllowedTopologies <- SomeAllowed
    Names <- Numbered
    Env = {"relabel", "unregister"}
    MaxChanges = 1
INVARIANTS EachNodeOnce OnlyAllowed RoundRobin
CHECK_DEADLOCK FALSE
