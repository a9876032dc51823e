SPECIFICATION FairSpec
CONSTANTS
    Claims = {c1}
    SupportsTopology = TRUE
    DefaultName = TRUE
    Env = {"nodegone"}
    MaxWatch = 2
INVARIANTS NoLeak
PROPERTIES RescheduleOnlyWhenIdle FinishedIsFinal NoOperationOnOldClaim
           EventuallyBound DeletedClaimIsResolved
CHECK_DEADLOCK FALSE
