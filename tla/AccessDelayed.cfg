SPECIFICATION FairSpec
CONSTANTS
    none = none
    W = 4
    Hash <- SomeHash
    Nodes = {"n1", "n2"}
    Labels <- TwoZones
    KeySets = {{1}}
    Delayed = TRUE
    Strict = {TRUE, FALSE}
    ImmediateTopology = {TRUE}
    AllowedTopologies <- SomeAllowed
    Names <- Unnumbered
    Env = {"label", "relabel", "register", "unregister", "remove", "later"}
    MaxChanges = 2
INVARIANTS TypeOK SelectedFirst VolumeUsable
PROPERTIES RetrySame EventuallyReady
CHECK_DEADLOCK FALSE
